--------------------------- MODULE WorkspaceProofs ---------------------------
(***************************************************************************)
(* Proofs about who has a workspace, for any sessions, workspaces, owners  *)
(* and callers.  In the process of a group: the maps of its supervisor     *)
(* agree, a worker recovered by receipt runs under the current one, and a  *)
(* late fence removes only who rests on the same receipt or source.  In    *)
(* the Store: an admitted Provider has the lease of its workspace, and a   *)
(* late call on a lease changes nothing.                                   *)
(***************************************************************************)
EXTENDS GroupSupervisor, WorkspaceLease, FiniteSetTheorems, TLAPS

(***************************************************************************)
(* The group.                                                              *)
(***************************************************************************)

\* A member that is one, and what a goroutine in Recover or Run has of it.
WellMade(m) ==
    m.kind # "none" /\ (m.kind = "handle" <=> m.from # "none")

CallOK(k) ==
    /\ k.pc # "idle" => k.session \in GSessions /\ WellMade(k.member)
    /\ k.pc = "failed" => k.member.kind # "admitted"
    /\ k.multi => MultiWorker

\* Beside the properties: members and calls are well made; the activation a
\* Recover awaited was allowed for the group it saw.
GroupInv ==
    /\ GroupTypeOK /\ MembershipAgrees /\ RunsUnderCurrentReceipt
    /\ IsFiniteSet(Held)
    /\ \A s \in Held : WellMade(bySession[s])
    /\ \A c \in Callers : CallOK(call[c])

\* The part of the invariant about the maps, and that about the calls.
MapsOK ==
    /\ bySession \in [GSessions -> Member]
    /\ byWorkspace \in [GWorkspaces \cup {"zero"} -> GSessions \cup {"none"}]
    /\ members \in 0..MaxMembers
    /\ MembershipAgrees /\ IsFiniteSet(Held)
    /\ \A s \in Held : WellMade(bySession[s])

CallsOK ==
    call \in [Callers -> Call] /\ RunsUnderCurrentReceipt /\ \A c \in Callers : CallOK(call[c])

OthersOK ==
    /\ lifecycle \in [GSessions -> [epoch : 1..2, revoked : BOOLEAN]]
    /\ connection \in [GSessions -> 1..2]
    /\ source \in [Sources -> [handle : 0..2, valid : BOOLEAN]]
    /\ reserved \subseteq GWorkspaces

LEMMA GroupParts == GroupInv <=> MapsOK /\ CallsOK /\ OthersOK
    BY Zenon DEF GroupInv, GroupTypeOK, MapsOK, CallsOK, OthersOK

LEMMA GroupStart == GroupInit => GroupInv
<1> SUFFICES ASSUME GroupInit PROVE GroupInv
    OBVIOUS
<1> USE GroupConstants
<1>1. GroupTypeOK
    BY DEF GroupInit, GroupTypeOK, Member, NoMember, Call, NoCall
<1>2. Held = {}
    BY Zenon DEF GroupInit, Held
<1>3. IsFiniteSet(Held) /\ Cardinality(Held) = 0
    BY Zenon, <1>2, FS_EmptySet
<1>4. MembershipAgrees
    BY <1>2, <1>3 DEF MembershipAgrees, GroupInit
<1>5. \A c \in Callers : call[c].pc = "idle" /\ ~call[c].multi
    BY DEF GroupInit, NoCall
<1> QED
    BY <1>1, <1>2, <1>3, <1>4, <1>5 DEF GroupInv, RunsUnderCurrentReceipt, CallOK

\* A session that joins a group with room for it leaves the maps in agreement.
LEMMA Joins ==
    ASSUME GroupConstants, MapsOK, NEW s \in GSessions, NEW r \in Member,
           r.kind # "none", r.kind = "handle" <=> r.from # "none",
           members < MaxMembers, Room(s, r.kind), Held # {} => MultiWorker, Join(s, r)
    PROVE  MapsOK' /\ LeavesByFailedRun
<1> DEFINE m == [r EXCEPT !.id = members + 1]
           K == KeyOf(s, r.kind)
           Keys == GWorkspaces \cup {"zero"}
<1>1. m \in Member /\ WellMade(m) /\ m.kind = r.kind /\ members' \in 0..MaxMembers
    BY DEF MapsOK, Member, NoMember, Join, WellMade
<1>2. bySession' = [bySession EXCEPT ![s] = m] /\ byWorkspace' = [byWorkspace EXCEPT ![K] = s]
    BY Zenon DEF Join
<1>k. \A t \in GSessions : \A kind : KeyOf(t, kind) \in Keys
    BY DEF KeyOf, GroupConstants
<1> HIDE DEF m, K
<1>3. bySession' \in [GSessions -> Member]
    BY Zenon, <1>1, <1>2 DEF MapsOK
<1>4. K \in Keys /\ byWorkspace' \in [Keys -> GSessions \cup {"none"}]
    BY Zenon, <1>2, <1>k DEF K, MapsOK
<1>5. Held' = Held \cup {s} /\ s \notin Held
    BY <1>1, <1>2 DEF Held, Room, MapsOK, WellMade, NoMember
<1>5a. /\ \A t \in Held : bySession'[t] = bySession[t]
       /\ bySession'[s] = m
    BY Zenon, <1>2, <1>5 DEF Held, MapsOK
<1>6. IsFiniteSet(Held') /\ Cardinality(Held') = Cardinality(Held) + 1 /\ Cardinality(Held) \in Nat
    BY Zenon, <1>5, FS_AddElement, FS_CardinalityType DEF MapsOK
<1>7. Cardinality(Held') <= (IF MultiWorker THEN MaxWorkers ELSE 1)
  <2>1. CASE MultiWorker
      BY <1>6, <2>1 DEF Room, GroupConstants
  <2>2. CASE ~MultiWorker
    <3>1. Cardinality(Held) = 0
        BY Zenon, <2>2, FS_EmptySet
    <3> QED
        BY <1>6, <2>2, <3>1
  <2> QED
      BY Zenon, <2>1, <2>2
<1>8. /\ byWorkspace'[K] = s
      /\ \A w \in Keys : w # K => byWorkspace'[w] = byWorkspace[w]
      /\ byWorkspace[K] = "none"
    BY Zenon, <1>2, <1>4 DEF Room, K, MapsOK
<1>9. \A t \in Held : KeyOf(t, bySession[t].kind) # K /\ KeyOf(t, bySession[t].kind) \in Keys
  <2> TAKE t \in Held
  <2>1. t \in GSessions /\ t # "none" /\ byWorkspace[KeyOf(t, bySession[t].kind)] = t
      BY DEF MapsOK, MembershipAgrees, Held, GroupConstants
  <2> QED
      BY Zenon, <1>8, <1>k, <2>1
<1>10. \A t \in Held' : byWorkspace'[KeyOf(t, bySession'[t].kind)] = t
  <2> TAKE t \in Held'
  <2>1. CASE t = s
      BY Zenon, <1>1, <1>5a, <1>8, <2>1 DEF K
  <2>2. CASE t \in Held
      BY Zenon, <1>5a, <1>8, <1>9, <2>2 DEF MapsOK, MembershipAgrees
  <2> QED
      BY Zenon, <1>5, <2>1, <2>2
<1>11. \A w \in Keys : byWorkspace'[w] # "none" =>
          byWorkspace'[w] \in Held' /\ w = KeyOf(byWorkspace'[w], bySession'[byWorkspace'[w]].kind)
  <2> SUFFICES ASSUME NEW w \in Keys, byWorkspace'[w] # "none"
               PROVE  /\ byWorkspace'[w] \in Held'
                      /\ w = KeyOf(byWorkspace'[w], bySession'[byWorkspace'[w]].kind)
      BY Zenon
  <2>1. CASE w = K
      BY Zenon, <1>1, <1>5, <1>5a, <1>8, <2>1 DEF K
  <2>2. CASE w # K
    <3>1. /\ byWorkspace'[w] = byWorkspace[w] /\ byWorkspace[w] \in Held
          /\ w = KeyOf(byWorkspace[w], bySession[byWorkspace[w]].kind)
        BY Zenon, <1>8, <2>2 DEF MapsOK, MembershipAgrees
    <3> QED
        BY Zenon, <1>5, <1>5a, <3>1
  <2> QED
      BY Zenon, <2>1, <2>2
<1>12. \A t \in Held' : WellMade(bySession'[t])
    BY Zenon, <1>1, <1>5, <1>5a DEF MapsOK
<1>13. LeavesByFailedRun
    BY Zenon, <1>5, <1>5a DEF LeavesByFailedRun, Held
<1> QED
    BY Zenon, <1>1, <1>3, <1>4, <1>6, <1>7, <1>10, <1>11, <1>12, <1>13 DEF MapsOK, MembershipAgrees

\* A member that leaves with its own key leaves the maps in agreement.
LEMMA Drops ==
    ASSUME GroupConstants, MapsOK, NEW s \in Held, Drop(s, bySession[s]), UNCHANGED members
    PROVE  MapsOK' /\ \A t \in GSessions : t # s => bySession'[t] = bySession[t]
<1> DEFINE K == KeyOf(s, bySession[s].kind)
           Keys == GWorkspaces \cup {"zero"}
<1>1. NoMember \in Member /\ s \in GSessions
    BY DEF NoMember, Member, GroupConstants, Held
<1>2. bySession' = [bySession EXCEPT ![s] = NoMember] /\ byWorkspace' = [byWorkspace EXCEPT ![K] = "none"]
    BY Zenon DEF Drop
<1>k. \A t \in GSessions : \A kind : KeyOf(t, kind) \in Keys
    BY DEF KeyOf, GroupConstants
<1> HIDE DEF K
<1>3. bySession' \in [GSessions -> Member] /\ byWorkspace' \in [Keys -> GSessions \cup {"none"}] /\ K \in Keys
    BY Zenon, <1>1, <1>2, <1>k DEF K, MapsOK
<1>4. Held' = Held \ {s} /\ \A t \in GSessions : t # s => bySession'[t] = bySession[t]
    BY Zenon, <1>1, <1>2 DEF Held, MapsOK
<1>5. /\ IsFiniteSet(Held') /\ Cardinality(Held') <= Cardinality(Held)
      /\ Cardinality(Held') \in Nat /\ Cardinality(Held) \in Nat
    BY Zenon, <1>4, FS_Subset, FS_CardinalityType DEF MapsOK
<1>6. Cardinality(Held') <= (IF MultiWorker THEN MaxWorkers ELSE 1)
    BY <1>5 DEF MapsOK, MembershipAgrees, GroupConstants
<1>7. byWorkspace'[K] = "none" /\ \A w \in Keys : w # K => byWorkspace'[w] = byWorkspace[w]
    BY Zenon, <1>2, <1>3 DEF MapsOK
<1>8. ASSUME NEW t \in Held'
      PROVE  byWorkspace'[KeyOf(t, bySession'[t].kind)] = t /\ WellMade(bySession'[t])
  <2>1. t \in Held /\ t # s /\ t \in GSessions /\ bySession'[t] = bySession[t]
      BY Zenon, <1>4 DEF Held
  <2>2. /\ byWorkspace[KeyOf(t, bySession[t].kind)] = t /\ byWorkspace[K] = s
        /\ WellMade(bySession[t]) /\ KeyOf(t, bySession[t].kind) \in Keys
      BY Zenon, <2>1, <1>k DEF MapsOK, MembershipAgrees, K
  <2> QED
      BY Zenon, <2>1, <2>2, <1>7
<1>9. ASSUME NEW w \in Keys, byWorkspace'[w] # "none"
      PROVE  byWorkspace'[w] \in Held' /\ w = KeyOf(byWorkspace'[w], bySession'[byWorkspace'[w]].kind)
  <2>1. w # K /\ byWorkspace'[w] = byWorkspace[w]
      BY Zenon, <1>7, <1>9
  <2>2. byWorkspace[w] \in Held /\ w = KeyOf(byWorkspace[w], bySession[byWorkspace[w]].kind)
      BY Zenon, <2>1, <1>9 DEF MapsOK, MembershipAgrees
  <2>3. byWorkspace[w] # s /\ byWorkspace[w] \in GSessions
      BY Zenon, <2>1, <2>2 DEF K, Held
  <2> QED
      BY Zenon, <1>4, <2>1, <2>2, <2>3
<1> QED
    BY Zenon, <1>3, <1>4, <1>5, <1>6, <1>8, <1>9 DEF MapsOK, MembershipAgrees

\* One call moves to a state that is in order, and the lifecycle stays.
LEMMA CallMoves ==
    ASSUME CallsOK, NEW c \in Callers, NEW k \in Call, CallOK(k),
           call' = [call EXCEPT ![c] = k], UNCHANGED lifecycle,
           k.pc = "run" /\ k.member.kind = "receipt" =>
               ~lifecycle[k.session].revoked /\ lifecycle[k.session].epoch = k.member.proof
    PROVE  CallsOK'
<1>1. call'[c] = k /\ \A d \in Callers : d # c => call'[d] = call[d]
    BY Zenon DEF CallsOK
<1>2. call' \in [Callers -> Call]
    BY Zenon DEF CallsOK
<1>3. \A d \in Callers : CallOK(call'[d])
    BY Zenon, <1>1 DEF CallsOK
<1>4. RunsUnderCurrentReceipt'
    BY Zenon, <1>1 DEF CallsOK, RunsUnderCurrentReceipt
<1> QED
    BY Zenon, <1>2, <1>3, <1>4 DEF CallsOK

LEMMA NoCallIsOK == GroupConstants => NoCall \in Call /\ CallOK(NoCall) /\ NoCall.pc = "idle"
    BY DEF NoCall, Call, CallOK, NoMember, Member, GroupConstants

LEMMA MapsStay ==
    ASSUME MapsOK, UNCHANGED <<bySession, byWorkspace, members>>
    PROVE  MapsOK' /\ LeavesByFailedRun
<1>1. Held' = Held
    BY Zenon DEF Held
<1>2. MembershipAgrees'
    BY Zenon, <1>1 DEF MapsOK, MembershipAgrees
<1> QED
    BY Zenon, <1>1, <1>2 DEF MapsOK, LeavesByFailedRun

LEMMA CallsStay ==
    ASSUME CallsOK, UNCHANGED <<call, lifecycle>> PROVE CallsOK'
    BY Zenon DEF CallsOK, RunsUnderCurrentReceipt

LEMMA GroupStep ==
    ASSUME GroupInv, [GroupNext]_gsVars
    PROVE  GroupInv' /\ [LeavesByFailedRun]_gsVars
<1> USE GroupConstants
<1>0. MapsOK /\ CallsOK /\ OthersOK
    BY Zenon, GroupParts
<1> SUFFICES MapsOK' /\ CallsOK' /\ OthersOK' /\ [LeavesByFailedRun]_gsVars
    BY Zenon DEF MapsOK, CallsOK, OthersOK, GroupInv, GroupTypeOK
<1>t. \A c \in Callers : call[c] \in Call /\ CallOK(call[c])
    BY Zenon, <1>0 DEF CallsOK
<1>1. ASSUME NEW s \in GSessions, NEW built \in BOOLEAN, Admit(s, built)
      PROVE  MapsOK' /\ CallsOK' /\ OthersOK' /\ LeavesByFailedRun
  <2>1. UNCHANGED <<call, lifecycle, connection, source>> /\ reserved' \subseteq GWorkspaces
      BY <1>0, <1>1 DEF Admit, OthersOK
  <2>2. CallsOK' /\ OthersOK'
      BY Zenon, <1>0, <2>1, CallsStay DEF OthersOK
  <2>3. CASE built
    <3> DEFINE r == [NoMember EXCEPT !.kind = "admitted"]
    <3>1. r \in Member /\ r.kind = "admitted" /\ r.from = "none"
        BY DEF Member, NoMember
    <3>2. Join(s, r) /\ Room(s, "admitted") /\ members < MaxMembers /\ (Held # {} => MultiWorker)
        BY Zenon, <1>1, <2>3 DEF Admit
    <3> HIDE DEF r
    <3>3. Room(s, r.kind) /\ r.kind # "none" /\ (r.kind = "handle" <=> r.from # "none")
        BY Zenon, <3>1, <3>2
    <3> QED
        BY Zenon, <1>0, <2>2, <3>1, <3>2, <3>3, Joins
  <2>4. CASE ~built
      BY Zenon, <1>0, <1>1, <2>2, <2>4, MapsStay DEF Admit
  <2> QED
      BY Zenon, <2>3, <2>4
<1>2. ASSUME NEW s \in GSessions, NEW c \in Callers, NEW m \in Recoveries, RecoverChecks(c, s, m)
      PROVE  MapsOK' /\ CallsOK' /\ OthersOK' /\ LeavesByFailedRun
  <2> DEFINE k == [pc |-> "checked", session |-> s, member |-> m, multi |-> Held # {}]
  <2>1. m \in Member /\ WellMade(m)
      BY Zenon DEF Recoveries, WellMade
  <2>2. /\ call' = [call EXCEPT ![c] = k] /\ (Held # {} => MultiWorker)
        /\ UNCHANGED <<bySession, byWorkspace, lifecycle, connection, source, reserved, members>>
      BY Zenon, <1>2 DEF RecoverChecks
  <2>3. k \in Call /\ CallOK(k) /\ k.pc # "run"
    <3>1. k.pc = "checked" /\ k.session = s /\ k.member = m /\ (k.multi <=> Held # {})
        BY Zenon
    <3>2. k \in Call
        BY Zenon, <2>1 DEF Call
    <3> QED
        BY Zenon, <2>1, <2>2, <3>1, <3>2 DEF CallOK
  <2> HIDE DEF k
  <2>4. CallsOK'
      BY Zenon, <1>0, <2>2, <2>3, CallMoves
  <2> QED
      BY Zenon, <1>0, <2>2, <2>4, MapsStay DEF OthersOK
<1>3. ASSUME NEW c \in Callers, NEW ok \in BOOLEAN, RecoverVerifies(c, ok)
      PROVE  MapsOK' /\ CallsOK' /\ OthersOK' /\ LeavesByFailedRun
  <2>1. PICK k \in {[call[c] EXCEPT !.pc = "verified"], NoCall} : call' = [call EXCEPT ![c] = k]
      BY Zenon, <1>3 DEF RecoverVerifies
  <2>2. /\ UNCHANGED <<bySession, byWorkspace, lifecycle, connection, source, reserved, members>>
        /\ call[c].pc = "checked"
      BY Zenon, <1>3 DEF RecoverVerifies
  <2>3. k \in Call /\ CallOK(k) /\ k.pc # "run"
      BY <1>t, <2>1, <2>2, NoCallIsOK DEF Call, CallOK
  <2>4. CallsOK'
      BY Zenon, <1>0, <2>1, <2>2, <2>3, CallMoves
  <2> QED
      BY Zenon, <1>0, <2>2, <2>4, MapsStay DEF OthersOK
<1>4. ASSUME NEW c \in Callers, Recover(c)
      PROVE  MapsOK' /\ CallsOK' /\ OthersOK' /\ LeavesByFailedRun
  <2>1. /\ call' = [call EXCEPT ![c] = NoCall] /\ call[c].pc = "verified" /\ members < MaxMembers
        /\ UNCHANGED <<lifecycle, connection, source, reserved>>
      BY Zenon, <1>4 DEF Recover
  <2>2. CallsOK' /\ OthersOK'
      BY Zenon, <1>0, <2>1, NoCallIsOK, CallMoves DEF OthersOK
  <2>3. CASE UNCHANGED <<bySession, byWorkspace, members>>
      BY Zenon, <1>0, <2>2, <2>3, MapsStay
  <2>4. CASE /\ Room(call[c].session, call[c].member.kind) /\ (Held # {} => call[c].multi)
             /\ Join(call[c].session, call[c].member)
    <3>1. /\ call[c].session \in GSessions /\ call[c].member \in Member /\ WellMade(call[c].member)
          /\ (Held # {} => MultiWorker)
        BY <1>t, <2>1, <2>4 DEF Call, CallOK
    <3> QED
        BY Zenon, <1>0, <2>1, <2>2, <2>4, <3>1, Joins DEF WellMade
  <2> QED
      BY Zenon, <1>4, <2>3, <2>4 DEF Recover
<1>5. ASSUME NEW s \in GSessions, NEW c \in Callers, RunMember(c, s)
      PROVE  MapsOK' /\ CallsOK' /\ OthersOK' /\ LeavesByFailedRun
  <2> DEFINE k == [NoCall EXCEPT !.pc = "wait", !.session = s, !.member = bySession[s]]
  <2>1. /\ call' = [call EXCEPT ![c] = k] /\ s \in Held
        /\ UNCHANGED <<bySession, byWorkspace, lifecycle, connection, source, reserved, members>>
      BY Zenon, <1>5 DEF RunMember
  <2>2. bySession[s] \in Member /\ WellMade(bySession[s])
      BY Zenon, <1>0, <2>1 DEF MapsOK
  <2>3. k.pc = "wait" /\ k.session = s /\ k.member = bySession[s] /\ k.multi = FALSE /\ k \in Call
      BY <2>2 DEF NoCall, Call
  <2> HIDE DEF k
  <2>4. CallsOK'
      BY Zenon, <1>0, <2>1, <2>2, <2>3, CallMoves DEF CallOK
  <2> QED
      BY Zenon, <1>0, <2>1, <2>4, MapsStay DEF OthersOK
<1>6. ASSUME NEW c \in Callers, NEW ok \in BOOLEAN, RunLocked(c, ok)
      PROVE  MapsOK' /\ CallsOK' /\ OthersOK' /\ LeavesByFailedRun
  <2>1. /\ call[c].pc = "wait"
        /\ UNCHANGED <<bySession, byWorkspace, lifecycle, connection, source, reserved, members>>
      BY Zenon, <1>6 DEF RunLocked
  <2>2. PICK pc \in {"run", "failed"} :
          /\ call' = [call EXCEPT ![c] = [call[c] EXCEPT !.pc = pc]]
          /\ pc = "run" /\ call[c].member.kind = "receipt" =>
                Authorized(call[c].session, call[c].member.proof)
          /\ pc = "failed" => call[c].member.kind # "admitted"
      BY <1>6 DEF RunLocked
  <2> DEFINE k == [call[c] EXCEPT !.pc = pc]
  <2>3. /\ k.pc = pc /\ k.session = call[c].session /\ k.member = call[c].member
        /\ k.multi = call[c].multi /\ k \in Call
      BY <1>t DEF Call
  <2> HIDE DEF k
  <2>4. CallOK(k)
      BY Zenon, <1>t, <2>1, <2>2, <2>3 DEF CallOK
  <2>5. k.pc = "run" /\ k.member.kind = "receipt" =>
            ~lifecycle[k.session].revoked /\ lifecycle[k.session].epoch = k.member.proof
      BY Zenon, <2>2, <2>3 DEF Authorized
  <2>6. call' = [call EXCEPT ![c] = k]
      BY Zenon, <2>2 DEF k
  <2>7. CallsOK'
      BY Zenon, <1>0, <2>1, <2>3, <2>4, <2>5, <2>6, CallMoves
  <2> QED
      BY Zenon, <1>0, <2>1, <2>7, MapsStay DEF OthersOK
<1>7. ASSUME NEW c \in Callers, NEW ok \in BOOLEAN, RunReturns(c, ok)
      PROVE  MapsOK' /\ CallsOK' /\ OthersOK' /\ LeavesByFailedRun
  <2>1. /\ call[c].pc = "run"
        /\ UNCHANGED <<bySession, byWorkspace, lifecycle, connection, source, reserved, members>>
      BY Zenon, <1>7 DEF RunReturns
  <2>2. PICK k \in {[call[c] EXCEPT !.pc = "failed"], NoCall} :
          call' = [call EXCEPT ![c] = k] /\ (k = NoCall \/ call[c].member.kind # "admitted")
      BY Zenon, <1>7 DEF RunReturns
  <2>3. k \in Call /\ CallOK(k) /\ k.pc # "run"
      BY <1>t, <2>1, <2>2, NoCallIsOK DEF Call, CallOK
  <2>4. CallsOK'
      BY Zenon, <1>0, <2>1, <2>2, <2>3, CallMoves
  <2> QED
      BY Zenon, <1>0, <2>1, <2>4, MapsStay DEF OthersOK
<1>8. ASSUME NEW c \in Callers, fenceRecoveredWorker(c)
      PROVE  MapsOK' /\ CallsOK' /\ OthersOK' /\ LeavesByFailedRun
  <2> DEFINE s == call[c].session  m == call[c].member
  <2>1. /\ call' = [call EXCEPT ![c] = NoCall] /\ call[c].pc = "failed"
        /\ UNCHANGED <<lifecycle, connection, source, reserved, members>>
      BY Zenon, <1>8 DEF fenceRecoveredWorker
  <2>2. CallsOK' /\ OthersOK'
      BY Zenon, <1>0, <2>1, NoCallIsOK, CallMoves DEF OthersOK
  <2>3. s \in GSessions /\ WellMade(m) /\ m.kind # "admitted"
      BY Zenon, <1>t, <2>1 DEF CallOK
  <2>4. CASE ~SameRecovery(bySession[s], m)
      BY Zenon, <1>0, <1>8, <2>1, <2>2, <2>4, MapsStay DEF fenceRecoveredWorker
  <2>5. CASE SameRecovery(bySession[s], m)
    <3>1. Drop(s, m)
        BY Zenon, <1>8, <2>5 DEF fenceRecoveredWorker
    <3>2. bySession[s] # NoMember
        BY <2>3, <2>5 DEF SameRecovery, WellMade, NoMember
    <3>3. s \in Held /\ WellMade(bySession[s])
        BY Zenon, <1>0, <2>3, <3>2 DEF Held, MapsOK
    <3>4. bySession[s].kind = m.kind
        BY <2>3, <2>5, <3>3 DEF SameRecovery, WellMade
    <3>5. Drop(s, bySession[s])
        BY Zenon, <3>1, <3>4 DEF Drop
    <3>6. MapsOK' /\ \A t \in GSessions : t # s => bySession'[t] = bySession[t]
        BY Zenon, <1>0, <2>1, <3>3, <3>5, Drops
    <3>7. m = bySession[s] \/ /\ bySession[s].kind = "handle" /\ m.kind = "handle"
                              /\ m.from = bySession[s].from
        BY Zenon, <2>5, <3>4 DEF SameRecovery
    <3>8. LeavesByFailedRun
        BY Zenon, <2>1, <2>3, <3>4, <3>6, <3>7 DEF LeavesByFailedRun
    <3> QED
        BY Zenon, <2>2, <3>6, <3>8
  <2> QED
      BY Zenon, <2>4, <2>5
<1>9. ASSUME NEW s \in GSessions, StoreAccepts(s)
      PROVE  MapsOK' /\ CallsOK' /\ OthersOK' /\ LeavesByFailedRun
  <2>1. connection' \in [GSessions -> 1..2]
      BY <1>0, <1>9 DEF StoreAccepts, OthersOK
  <2> QED
      BY Zenon, <1>0, <1>9, <2>1, MapsStay, CallsStay DEF StoreAccepts, OthersOK
<1>10. ASSUME NEW s \in GSessions, Replace(s) \/ Revoke(s)
       PROVE  MapsOK' /\ CallsOK' /\ OthersOK' /\ LeavesByFailedRun
  <2>1. LifecycleFree(s) /\ \A t \in GSessions : t # s => lifecycle'[t] = lifecycle[t]
      BY Zenon, <1>0, <1>10 DEF Replace, Revoke, OthersOK
  <2>2. lifecycle' \in [GSessions -> [epoch : 1..2, revoked : BOOLEAN]]
    <3>1. CASE Replace(s)
        BY <1>0, <3>1 DEF Replace, OthersOK
    <3>2. CASE Revoke(s)
      <4>1. /\ lifecycle \in [GSessions -> [epoch : 1..2, revoked : BOOLEAN]]
            /\ lifecycle' = [lifecycle EXCEPT ![s].revoked = TRUE]
          BY Zenon, <1>0, <3>2 DEF Revoke, OthersOK
      <4>2. [lifecycle[s] EXCEPT !.revoked = TRUE] \in [epoch : 1..2, revoked : BOOLEAN]
          BY Zenon, <4>1
      <4> QED
          BY Zenon, <4>1, <4>2
    <3> QED
        BY Zenon, <1>10, <3>1, <3>2
  <2>3. UNCHANGED <<bySession, byWorkspace, call, connection, source, reserved, members>>
      BY Zenon, <1>10 DEF Replace, Revoke
  <2>4. CallsOK'
    <3>1. \A c \in Callers : call[c].pc = "run" => call[c].session \in GSessions
        BY Zenon, <1>t DEF CallOK
    <3>2. RunsUnderCurrentReceipt'
        BY Zenon, <1>0, <2>1, <2>3, <3>1 DEF CallsOK, RunsUnderCurrentReceipt, LifecycleFree
    <3> QED
        BY Zenon, <1>0, <2>3, <3>2 DEF CallsOK
  <2> QED
      BY Zenon, <1>0, <2>2, <2>3, <2>4, MapsStay DEF OthersOK
<1>11. ASSUME NEW x \in Sources, HandleIssued(x) \/ invalidate(x)
       PROVE  MapsOK' /\ CallsOK' /\ OthersOK' /\ LeavesByFailedRun
  <2>1. UNCHANGED <<bySession, byWorkspace, call, lifecycle, connection, reserved, members>>
      BY Zenon, <1>11 DEF HandleIssued, invalidate
  <2>2. source' \in [Sources -> [handle : 0..2, valid : BOOLEAN]]
    <3>1. CASE HandleIssued(x)
        BY <1>0, <3>1 DEF HandleIssued, OthersOK
    <3>2. CASE invalidate(x)
        BY <1>0, <3>2 DEF invalidate, OthersOK
    <3> QED
        BY Zenon, <1>11, <3>1, <3>2
  <2> QED
      BY Zenon, <1>0, <2>1, <2>2, MapsStay, CallsStay DEF OthersOK
<1>12. CASE UNCHANGED gsVars
  <2>1. UNCHANGED <<bySession, byWorkspace, members, call, lifecycle, connection, source, reserved>>
      BY Zenon, <1>12 DEF gsVars
  <2> QED
      BY Zenon, <1>0, <1>12, <2>1, MapsStay, CallsStay DEF OthersOK
<1> QED
    BY Zenon, <1>1, <1>2, <1>3, <1>4, <1>5, <1>6, <1>7, <1>8, <1>9, <1>10, <1>11, <1>12 DEF GroupNext

LEMMA GroupInvHolds == GroupSpec => []GroupInv
    BY GroupStart, GroupStep, PTL DEF GroupSpec

\* The state keeps its types.
THEOREM GroupTypes == GroupSpec => []GroupTypeOK
    BY GroupInvHolds, PTL DEF GroupInv

\* Whatever Admit, Recover, Run and the fences of failed runs do to one another, the
\* maps agree and keep within the capacity, a worker recovered by receipt runs under
\* the current one, and a late fence removes nobody whose recovery rests on another
\* receipt or on another source of start handles (group_supervisor.go:312-527).
THEOREM GroupConsistent == GroupSpec => GroupIsConsistent
<1>1. GroupInv /\ [GroupNext]_gsVars =>
        [LeavesByFailedRun /\ (MembershipAgrees /\ RunsUnderCurrentReceipt)']_gsVars
    BY Zenon, GroupStep DEF GroupInv
<1> QED
    BY <1>1, GroupInvHolds, PTL DEF GroupSpec, GroupIsConsistent

-----------------------------------------------------------------------------
(***************************************************************************)
(* Workspace leases.  A call keeps the version and the holder it was made  *)
(* under, and a release the evidence that the holder's tree is gone.       *)
(***************************************************************************)

\* The rows: a holder and a version from the first reservation on.
RowsInv ==
    \A k \in Workspaces :
        /\ leases[k].tenancy <= leases[k].version
        /\ leases[k].status # "absent" => leases[k].owner \in Owner /\ leases[k].tenancy >= 1

CallsInv ==
    \A c \in calls :
        /\ c.version <= leases[c.key].version
        /\ c.version = leases[c.key].version => c.tenancy = leases[c.key].tenancy
        /\ c.op = "release" => c.owner \in gone

LeaseInv == LeaseTypeOK /\ RowsInv /\ CallsInv /\ AdmittedHoldsWorkspace

Lease == [status : Status, owner : Owner \cup {NoOwner}, late : BOOLEAN,
          version : 0..MaxLeaseVersion, tenancy : 0..MaxLeaseVersion]

\* A step that leaves the rows and the started Providers alone, and may add to the
\* gone owners, keeps what is said of them.
LEMMA RowsKept ==
    ASSUME LeaseInv, leases' = leases, started' = started, gone \subseteq gone', calls' \subseteq calls
    PROVE  RowsInv' /\ CallsInv' /\ AdmittedHoldsWorkspace'
BY Zenon DEF LeaseInv, RowsInv, CallsInv, AdmittedHoldsWorkspace

\* ReserveWorkspaceLease: a workspace that can be reserved has no live Provider.
LEMMA ReserveKeeps ==
    ASSUME LeaseInv, NEW k \in Workspaces, NEW o \in Owner, ReserveWorkspaceLease(k, o)
    PROVE  LeaseInv'
<1> USE LeaseConstants
<1> DEFINE row == [status |-> "reserved", owner |-> o, late |-> FALSE,
                   version |-> leases[k].version + 1, tenancy |-> leases[k].tenancy + 1]
<1>1. leases \in [Workspaces -> Lease]
  BY Zenon DEF LeaseInv, LeaseTypeOK, Lease
<1>2. /\ leases[k].version \in 0..MaxLeaseVersion /\ leases[k].version < MaxLeaseVersion
      /\ leases[k].tenancy \in 0..MaxLeaseVersion /\ leases[k].tenancy <= leases[k].version
      /\ leases[k].status \in {"absent", "released"}
  BY Zenon, <1>1 DEF Lease, ReserveWorkspaceLease, LeaseInv, RowsInv
<1>3. row \in Lease
  BY <1>2 DEF Lease, Status
<1>4. leases' = [leases EXCEPT ![k] = row]
  BY Zenon DEF ReserveWorkspaceLease
<1>5. leases' \in [Workspaces -> Lease]
  BY Zenon, <1>1, <1>3, <1>4
<1>6. leases'[k] = row /\ \A j \in Workspaces \ {k} : leases'[j] = leases[j]
  BY Zenon, <1>1, <1>4
<1>7. LeaseTypeOK'
  BY Zenon, <1>5 DEF LeaseInv, LeaseTypeOK, ReserveWorkspaceLease, Lease
<1>8. RowsInv'
  BY <1>2, <1>6 DEF LeaseInv, RowsInv
<1>9. CallsInv'
  <2> SUFFICES ASSUME NEW c \in calls
               PROVE  /\ c.version <= leases'[c.key].version
                      /\ c.version = leases'[c.key].version => c.tenancy = leases'[c.key].tenancy
                      /\ c.op = "release" => c.owner \in gone
    BY Zenon DEF CallsInv, ReserveWorkspaceLease
  <2>1. /\ c.key \in Workspaces /\ c.version \in Int
        /\ c.version <= leases[c.key].version
        /\ c.version = leases[c.key].version => c.tenancy = leases[c.key].tenancy
        /\ c.op = "release" => c.owner \in gone
    BY DEF LeaseInv, LeaseTypeOK, CallsInv
  <2>2. CASE c.key = k
    BY <1>2, <1>6, <2>1, <2>2
  <2>3. CASE c.key # k
    BY Zenon, <1>6, <2>1, <2>3
  <2> QED BY Zenon, <2>2, <2>3
<1>10. AdmittedHoldsWorkspace'
  <2> SUFFICES ASSUME NEW start \in started, start[2] \notin gone
               PROVE  /\ leases'[start[1]].owner = start[2]
                      /\ leases'[start[1]].status \in {"start_received", "quarantined"}
    BY Zenon DEF AdmittedHoldsWorkspace, ReserveWorkspaceLease
  <2>1. /\ start[1] \in Workspaces
        /\ leases[start[1]].owner = start[2]
        /\ leases[start[1]].status \in {"start_received", "quarantined"}
    BY Zenon DEF LeaseInv, LeaseTypeOK, AdmittedHoldsWorkspace
  <2> QED BY Zenon, <1>2, <1>6, <2>1
<1> QED BY Zenon, <1>7, <1>8, <1>9, <1>10 DEF LeaseInv

\* A row that moves on to another status of the same holder: the calls made before
\* are behind its version.
LEMMA MoveKeeps ==
    ASSUME LeaseInv, NEW k \in Workspaces, NEW status \in Status \ {"absent"},
           leases[k].status # "absent", leases[k].version < MaxLeaseVersion,
           leases' = [leases EXCEPT ![k].status = status, ![k].version = @ + 1],
           calls' \subseteq calls, gone' = gone,
           \A start \in started' : \/ start \in started /\ start[1] # k
                                   \/ /\ start[1] = k
                                      /\ start[2] \notin gone =>
                                           /\ leases[k].owner = start[2]
                                           /\ status \in {"start_received", "quarantined"}
    PROVE  leases' \in [Workspaces -> Lease] /\ RowsInv' /\ CallsInv' /\ AdmittedHoldsWorkspace'
<1> USE LeaseConstants
<1>1. leases \in [Workspaces -> Lease]
  BY Zenon DEF LeaseInv, LeaseTypeOK, Lease
<1> DEFINE row == [status |-> status, owner |-> leases[k].owner, late |-> leases[k].late,
                   version |-> leases[k].version + 1, tenancy |-> leases[k].tenancy]
<1>2. row \in Lease
  BY <1>1 DEF Lease
<1>3. leases' = [leases EXCEPT ![k] = row]
  BY <1>1 DEF Lease
<1>4. leases' \in [Workspaces -> Lease]
  BY <1>1, <1>2, <1>3
<1>5. leases'[k] = row /\ \A j \in Workspaces \ {k} : leases'[j] = leases[j]
  BY <1>1, <1>3
<1>6. leases[k].version \in Int /\ leases[k].tenancy \in Int
  BY <1>1 DEF Lease
<1>7. RowsInv'
  <2> SUFFICES ASSUME NEW j \in Workspaces
               PROVE  /\ leases'[j].tenancy <= leases'[j].version
                      /\ leases'[j].status # "absent" =>
                           leases'[j].owner \in Owner /\ leases'[j].tenancy >= 1
    BY DEF RowsInv
  <2>1. /\ leases[j].tenancy <= leases[j].version
        /\ leases[j].status # "absent" => leases[j].owner \in Owner /\ leases[j].tenancy >= 1
    BY Zenon DEF LeaseInv, RowsInv
  <2>2. CASE j = k
    BY <1>5, <1>6, <2>1, <2>2
  <2>3. CASE j # k
    BY <1>5, <2>1, <2>3
  <2> QED BY Zenon, <2>2, <2>3
<1>8. CallsInv'
  <2> SUFFICES ASSUME NEW c \in calls
               PROVE  /\ c.version <= leases'[c.key].version
                      /\ c.version = leases'[c.key].version => c.tenancy = leases'[c.key].tenancy
                      /\ c.op = "release" => c.owner \in gone
    BY DEF CallsInv
  <2>1. /\ c.key \in Workspaces /\ c.version \in Int
        /\ c.version <= leases[c.key].version
        /\ c.version = leases[c.key].version => c.tenancy = leases[c.key].tenancy
        /\ c.op = "release" => c.owner \in gone
    BY DEF LeaseInv, LeaseTypeOK, CallsInv
  <2>2. CASE c.key = k
    BY <1>5, <1>6, <2>1, <2>2
  <2>3. CASE c.key # k
    BY <1>5, <2>1, <2>3
  <2> QED BY Zenon, <2>2, <2>3
<1>9. AdmittedHoldsWorkspace'
  <2> SUFFICES ASSUME NEW start \in started', start[2] \notin gone
               PROVE  /\ leases'[start[1]].owner = start[2]
                      /\ leases'[start[1]].status \in {"start_received", "quarantined"}
    BY DEF AdmittedHoldsWorkspace
  <2>1. CASE start[1] = k
    BY <1>5, <2>1
  <2>2. CASE start \in started /\ start[1] # k
    <3>1. start[1] \in Workspaces /\ leases[start[1]].owner = start[2]
          /\ leases[start[1]].status \in {"start_received", "quarantined"}
      BY Zenon, <2>2 DEF LeaseInv, LeaseTypeOK, AdmittedHoldsWorkspace
    <3> QED BY <1>5, <2>2, <3>1
  <2> QED BY Zenon, <2>1, <2>2
<1> QED BY Zenon, <1>4, <1>7, <1>8, <1>9

\* The calls: one that takes effect finds its own version and so its own holder, and
\* a release finds a holder whose tree is gone.
LEMMA UpdateKeeps ==
    ASSUME LeaseInv, NEW c \in calls, NEW again \in BOOLEAN, updateSQLiteWorkspaceLease(c, again)
    PROVE  LeaseInv'
<1> USE LeaseConstants
<1>1. c.key \in Workspaces /\ calls' \subseteq calls
  BY Zenon DEF LeaseInv, LeaseTypeOK, updateSQLiteWorkspaceLease
<1>2. UNCHANGED <<conns, startTx, started, gone>>
  BY Zenon DEF updateSQLiteWorkspaceLease
<1>3. ASSUME leases' \in [Workspaces -> Lease]
      PROVE  LeaseTypeOK'
  BY Zenon, <1>1, <1>2, <1>3 DEF LeaseInv, LeaseTypeOK, Lease
<1>4. CASE leases' = leases
  <2>1. leases' \in [Workspaces -> Lease]
    BY Zenon, <1>4 DEF LeaseInv, LeaseTypeOK, Lease
  <2> QED BY Zenon, <1>1, <1>2, <1>3, <1>4, <2>1, RowsKept DEF LeaseInv
<1>5. CASE leases' # leases
  <2>1. /\ leases[c.key].version = c.version /\ c.version < MaxLeaseVersion
        /\ leases' = [leases EXCEPT ![c.key].status = NextStatus(c.op), ![c.key].version = @ + 1]
        /\ \/ RecordWorkspaceStartReceived(c)
           \/ QuarantineWorkspaceLease(c)
           \/ ReleaseWorkspaceLeaseAfterQuiescence(c)
    BY Zenon, <1>5 DEF updateSQLiteWorkspaceLease
  <2>2. /\ leases[c.key].status # "absent"
        /\ NextStatus(c.op) \in Status \ {"absent"}
        /\ NextStatus(c.op) \notin {"start_received", "quarantined"} => leases[c.key].owner \in gone
    BY Zenon, <2>1 DEF RecordWorkspaceStartReceived, QuarantineWorkspaceLease, NextStatus, Status,
                ReleaseWorkspaceLeaseAfterQuiescence, LeaseInv, CallsInv
  <2>3. \A start \in started : start[1] = c.key /\ start[2] \notin gone =>
            leases[c.key].owner = start[2]
    BY Zenon DEF LeaseInv, AdmittedHoldsWorkspace
  <2>4. \A start \in started' :
            \/ start \in started /\ start[1] # c.key
            \/ /\ start[1] = c.key
               /\ start[2] \notin gone =>
                    /\ leases[c.key].owner = start[2]
                    /\ NextStatus(c.op) \in {"start_received", "quarantined"}
    BY Zenon, <1>2, <2>2, <2>3
  <2>5. leases' \in [Workspaces -> Lease] /\ RowsInv' /\ CallsInv' /\ AdmittedHoldsWorkspace'
    BY Zenon, <1>1, <1>2, <2>1, <2>2, <2>4, MoveKeeps
  <2> QED BY Zenon, <1>3, <2>5 DEF LeaseInv
<1> QED BY Zenon, <1>4, <1>5

\* CommitStart: the lease is still the owner's, and no Provider of another live
\* owner was admitted under it.
LEMMA CommitKeeps ==
    ASSUME LeaseInv, CommitStart
    PROVE  LeaseInv'
<1> USE LeaseConstants
<1> DEFINE k == startTx.key
           o == startTx.owner
<1>1. UNCHANGED <<conns, calls, gone>> /\ startTx' = NoStart
  BY Zenon DEF CommitStart
<1>2. startTx # NoStart
  BY DEF CommitStart, NoStart
<1>3. k \in Workspaces \cup {"standalone"} /\ o \in Owner
  BY Zenon, <1>2 DEF LeaseInv, LeaseTypeOK, WorkspaceKey
<1>4. ASSUME leases' \in [Workspaces -> Lease], started' \subseteq Workspaces \X Owner
      PROVE  LeaseTypeOK'
  BY Zenon, <1>1, <1>4 DEF LeaseInv, LeaseTypeOK, Lease
<1>5. CASE leases' = leases /\ started' = started
  <2>1. leases' \in [Workspaces -> Lease] /\ started' \subseteq Workspaces \X Owner
    BY Zenon, <1>5 DEF LeaseInv, LeaseTypeOK, Lease
  <2> QED BY Zenon, <1>1, <1>4, <1>5, <2>1, RowsKept DEF LeaseInv
<1>6. CASE ~(leases' = leases /\ started' = started)
  <2>1. /\ k # "standalone" /\ k \in StartLeases(o)
        /\ started' = started \cup {<<k, o>>}
        /\ \/ /\ startTx.was = "reserved" /\ leases[k].status = "reserved"
              /\ leases[k].version < MaxLeaseVersion
              /\ leases' = [leases EXCEPT ![k].status = "start_received", ![k].version = @ + 1]
           \/ leases[k].status # "reserved" /\ leases' = leases
    BY Zenon, <1>6 DEF CommitStart
  <2>2. /\ k \in Workspaces /\ leases[k].owner = o
        /\ leases[k].status \in {"reserved", "start_received"}
    BY Zenon, <2>1 DEF StartLeases
  <2>3. started' \subseteq Workspaces \X Owner
    BY <1>3, <2>1, <2>2 DEF LeaseInv, LeaseTypeOK
  <2>4. \A start \in started : start[1] = k /\ start[2] \notin gone => leases[k].owner = start[2]
    BY Zenon DEF LeaseInv, AdmittedHoldsWorkspace
  <2>5. CASE leases' = leases
    <3>1. leases[k].status = "start_received"
      <4>1. ASSUME leases[k].status = "reserved" PROVE FALSE
        <5>1. leases'[k].status = "start_received"
          BY <2>1, <2>2, <4>1 DEF LeaseInv, LeaseTypeOK
        <5> QED BY Zenon, <2>5, <4>1, <5>1
      <4> QED BY Zenon, <2>2, <4>1
    <3>2. AdmittedHoldsWorkspace'
      <4> SUFFICES ASSUME NEW start \in started', start[2] \notin gone
                   PROVE  /\ leases[start[1]].owner = start[2]
                          /\ leases[start[1]].status \in {"start_received", "quarantined"}
        BY Zenon, <1>1, <2>5 DEF AdmittedHoldsWorkspace
      <4>1. CASE start \in started
        BY Zenon, <4>1 DEF LeaseInv, AdmittedHoldsWorkspace
      <4>2. CASE start = <<k, o>>
        BY Zenon, <2>2, <3>1, <4>2
      <4> QED BY Zenon, <2>1, <4>1, <4>2
    <3>3. RowsInv' /\ CallsInv'
      BY Zenon, <1>1, <2>5 DEF LeaseInv, RowsInv, CallsInv
    <3>4. leases' \in [Workspaces -> Lease]
      BY Zenon, <2>5 DEF LeaseInv, LeaseTypeOK, Lease
    <3> QED BY Zenon, <1>4, <2>3, <3>2, <3>3, <3>4 DEF LeaseInv
  <2>6. CASE leases' # leases
    <3>1. \A start \in started' : \/ start \in started /\ start[1] # k
                                  \/ start[1] = k /\ (start[2] \notin gone => leases[k].owner = start[2])
      BY <2>1, <2>2, <2>4
    <3>2. leases' \in [Workspaces -> Lease] /\ RowsInv' /\ CallsInv' /\ AdmittedHoldsWorkspace'
      BY <1>1, <2>1, <2>2, <2>6, <3>1, MoveKeeps DEF Status
    <3> QED BY Zenon, <1>4, <2>3, <3>2 DEF LeaseInv
  <2> QED BY Zenon, <2>5, <2>6
<1> QED BY Zenon, <1>5, <1>6

\* A caller that asks takes the version, the holder and the evidence of now.
LEMMA AskKeeps ==
    ASSUME LeaseInv, NEW k \in Workspaces, NEW op \in {"start", "quarantine", "release"},
           AskTransition(k, op)
    PROVE  LeaseInv'
<1> USE LeaseConstants
<1> DEFINE new == [op |-> op, key |-> k, version |-> leases[k].version,
                   owner |-> leases[k].owner, tenancy |-> leases[k].tenancy]
<1>1. calls' = calls \cup {new} /\ UNCHANGED <<leases, conns, startTx, started, gone>>
  BY Zenon DEF AskTransition
<1>2. leases[k] \in Lease
  BY Zenon DEF LeaseInv, LeaseTypeOK, Lease
<1>3. /\ leases[k].owner \in Owner /\ leases[k].tenancy >= 1
      /\ leases[k].tenancy <= leases[k].version
      /\ op = "release" => leases[k].owner \in gone
  BY Zenon DEF AskTransition, LeaseInv, RowsInv
<1>4. leases[k].version \in 1..MaxLeaseVersion /\ leases[k].tenancy \in 1..MaxLeaseVersion
  BY <1>2, <1>3 DEF Lease
<1>5. new \in [op : {"start", "quarantine", "release"}, key : Workspaces,
               version : 1..MaxLeaseVersion, owner : Owner, tenancy : 1..MaxLeaseVersion]
  BY Zenon, <1>3, <1>4
<1>6. LeaseTypeOK'
  BY Zenon, <1>1, <1>5 DEF LeaseInv, LeaseTypeOK
<1>7. CallsInv'
  BY <1>1, <1>3, <1>4 DEF LeaseInv, CallsInv
<1>8. RowsInv' /\ AdmittedHoldsWorkspace'
  BY Zenon, <1>1 DEF LeaseInv, RowsInv, AdmittedHoldsWorkspace
<1> QED BY Zenon, <1>6, <1>7, <1>8 DEF LeaseInv

\* A lease that expires stays with its holder.
LEMMA ExpiryKeeps ==
    ASSUME LeaseInv, NEW k \in Workspaces, LeaseExpires(k)
    PROVE  LeaseInv'
<1>1. leases \in [Workspaces -> Lease]
  BY Zenon DEF LeaseInv, LeaseTypeOK, Lease
<1>2. leases' = [leases EXCEPT ![k].late = TRUE] /\ UNCHANGED <<conns, startTx, calls, started, gone>>
  BY Zenon DEF LeaseExpires
<1>3. leases' \in [Workspaces -> Lease]
  BY <1>1, <1>2 DEF Lease
<1>4. \A j \in Workspaces : /\ leases'[j].status = leases[j].status
                            /\ leases'[j].owner = leases[j].owner
                            /\ leases'[j].version = leases[j].version
                            /\ leases'[j].tenancy = leases[j].tenancy
  BY Zenon, <1>1, <1>2 DEF Lease
<1>5. LeaseTypeOK'
  BY Zenon, <1>2, <1>3 DEF LeaseInv, LeaseTypeOK, Lease
<1>6. RowsInv'
  BY Zenon, <1>4 DEF LeaseInv, RowsInv
<1>7. \A c \in calls : c.key \in Workspaces
  BY Zenon DEF LeaseInv, LeaseTypeOK
<1>8. CallsInv'
  <2> SUFFICES ASSUME NEW c \in calls
               PROVE  /\ c.version <= leases'[c.key].version
                      /\ c.version = leases'[c.key].version => c.tenancy = leases'[c.key].tenancy
                      /\ c.op = "release" => c.owner \in gone
    BY Zenon, <1>2 DEF CallsInv
  <2>1. leases'[c.key].version = leases[c.key].version /\ leases'[c.key].tenancy = leases[c.key].tenancy
    BY Zenon, <1>4, <1>7
  <2> QED BY Zenon, <2>1 DEF LeaseInv, CallsInv
<1>9. \A start \in started : start[1] \in Workspaces
  BY Zenon DEF LeaseInv, LeaseTypeOK
<1>10. AdmittedHoldsWorkspace'
  <2> SUFFICES ASSUME NEW start \in started, start[2] \notin gone
               PROVE  /\ leases'[start[1]].owner = start[2]
                      /\ leases'[start[1]].status \in {"start_received", "quarantined"}
    BY Zenon, <1>2 DEF AdmittedHoldsWorkspace
  <2>1. leases'[start[1]].owner = leases[start[1]].owner /\ leases'[start[1]].status = leases[start[1]].status
    BY Zenon, <1>4, <1>9
  <2>2. /\ leases[start[1]].owner = start[2]
        /\ leases[start[1]].status \in {"start_received", "quarantined"}
    BY Zenon DEF LeaseInv, AdmittedHoldsWorkspace
  <2> QED BY Zenon, <2>1, <2>2
<1> QED BY Zenon, <1>5, <1>6, <1>8, <1>10 DEF LeaseInv

\* BeginStart and StartCallback change the transaction, and it stays well formed.
LEMMA TransactionKeeps ==
    ASSUME LeaseInv,
           \/ \E s \in Targets, reAdmission \in BOOLEAN : BeginStart(s, reAdmission)
           \/ \E ok \in BOOLEAN : StartCallback(ok)
    PROVE  LeaseInv'
<1>1. UNCHANGED <<leases, conns, calls, started, gone>>
  BY Zenon DEF BeginStart, StartCallback
<1>2. startTx' \in {NoStart} \cup [pc : {"callback", "commit"}, key : WorkspaceKey, owner : Owner,
                                   was : {"reserved", "start_received"}]
  <2>1. CASE \E s \in Targets, reAdmission \in BOOLEAN : BeginStart(s, reAdmission)
    <3>1. PICK s \in Targets, reAdmission \in BOOLEAN : BeginStart(s, reAdmission)
      BY Zenon, <2>1
    <3> DEFINE o == [session |-> s, epoch |-> conns[s].epoch]
    <3>2. o \in Owner
      BY Zenon, <3>1 DEF BeginStart
    <3>3. \/ startTx' = [pc |-> "callback", key |-> "standalone", owner |-> o, was |-> "reserved"]
          \/ \E k \in Workspaces :
                /\ k \in StartLeases(o)
                /\ startTx' = [pc |-> "callback", key |-> k, owner |-> o, was |-> leases[k].status]
      BY Zenon, <3>1 DEF BeginStart
    <3> QED BY <3>2, <3>3 DEF StartLeases, WorkspaceKey
  <2>2. CASE \E ok \in BOOLEAN : StartCallback(ok)
    BY <2>2 DEF StartCallback, LeaseInv, LeaseTypeOK, NoStart
  <2> QED BY Zenon, <2>1, <2>2
<1>3. LeaseTypeOK'
  BY Zenon, <1>1, <1>2 DEF LeaseInv, LeaseTypeOK
<1> QED BY Zenon, <1>1, <1>3, RowsKept DEF LeaseInv

\* Hellos, lost authority and ended trees leave the rows alone.
LEMMA WorldKeeps ==
    ASSUME LeaseInv,
           \/ \E s \in Targets : Hello(s) \/ AuthorityEnds(s) \/ AttachmentEnds(s)
           \/ \E o \in Owner : TreeEnds(o)
    PROVE  LeaseInv'
<1> USE LeaseConstants
<1>1. /\ leases' = leases /\ calls' = calls /\ started' = started /\ gone \subseteq gone'
  BY Zenon DEF Hello, AuthorityEnds, AttachmentEnds, TreeEnds
<1>2. gone' \subseteq Owner
  BY DEF Hello, AuthorityEnds, AttachmentEnds, TreeEnds, LeaseInv, LeaseTypeOK
<1>3. startTx' \in {startTx, NoStart}
  BY Zenon DEF Hello, AuthorityEnds, AttachmentEnds, TreeEnds
<1>4. conns' \in [Targets -> [epoch : 0..MaxEpochs, live : BOOLEAN, attached : BOOLEAN,
                              kind : {"attached", "standalone"}]]
  <2>1. CASE \E s \in Targets : Hello(s)
    BY <2>1 DEF Hello, LeaseInv, LeaseTypeOK
  <2>2. CASE \E s \in Targets : AuthorityEnds(s) \/ AttachmentEnds(s)
    <3> DEFINE Conn == [epoch : 0..MaxEpochs, live : BOOLEAN, attached : BOOLEAN,
                        kind : {"attached", "standalone"}]
    <3>1. PICK s \in Targets : AuthorityEnds(s) \/ AttachmentEnds(s)
      BY Zenon, <2>2
    <3>2. conns \in [Targets -> Conn]
      BY Zenon DEF LeaseInv, LeaseTypeOK
    <3>3. [conns[s] EXCEPT !.live = FALSE] \in Conn /\ [conns[s] EXCEPT !.attached = FALSE] \in Conn
      BY Zenon, <3>2
    <3>4. \/ conns' = [conns EXCEPT ![s] = [conns[s] EXCEPT !.live = FALSE]]
          \/ conns' = [conns EXCEPT ![s] = [conns[s] EXCEPT !.attached = FALSE]]
      BY Zenon, <3>1 DEF AuthorityEnds, AttachmentEnds
    <3> HIDE DEF Conn
    <3>5. conns' \in [Targets -> Conn]
      BY Zenon, <3>2, <3>3, <3>4
    <3> QED BY Zenon, <3>5 DEF Conn
  <2>3. CASE \E o \in Owner : TreeEnds(o)
    BY Zenon, <2>3 DEF TreeEnds, LeaseInv, LeaseTypeOK
  <2> QED BY Zenon, <2>1, <2>2, <2>3
<1>5. startTx' \in {NoStart} \cup [pc : {"callback", "commit"}, key : WorkspaceKey, owner : Owner,
                                   was : {"reserved", "start_received"}]
  BY Zenon, <1>3 DEF LeaseInv, LeaseTypeOK
<1>6. LeaseTypeOK'
  BY Zenon, <1>1, <1>2, <1>4, <1>5 DEF LeaseInv, LeaseTypeOK
<1> QED BY Zenon, <1>1, <1>6, RowsKept DEF LeaseInv

LEMMA LeaseStart == LeaseInit => LeaseInv
<1> SUFFICES ASSUME LeaseInit PROVE LeaseInv
  OBVIOUS
<1> USE LeaseConstants
<1>1. leases \in [Workspaces -> Lease]
  <2>1. [status |-> "absent", owner |-> NoOwner, late |-> FALSE, version |-> 0, tenancy |-> 0] \in Lease
    BY DEF Lease, Status
  <2> QED BY Zenon, <2>1 DEF LeaseInit
<1>2. conns \in [Targets -> [epoch : 0..MaxEpochs, live : BOOLEAN, attached : BOOLEAN,
                             kind : {"attached", "standalone"}]]
  <2>1. 0 \in 0..MaxEpochs
    OBVIOUS
  <2>2. {NoHello("attached", TRUE), NoHello("standalone", FALSE)} \subseteq
        [epoch : 0..MaxEpochs, live : BOOLEAN, attached : BOOLEAN, kind : {"attached", "standalone"}]
    BY SMT, <2>1 DEF NoHello
  <2> QED BY Zenon, <2>2 DEF LeaseInit
<1>3. LeaseTypeOK
  BY Zenon, <1>1, <1>2 DEF LeaseInit, LeaseTypeOK, Lease
<1>4. calls = {} /\ started = {}
  BY Zenon DEF LeaseInit
<1>5. \A k \in Workspaces : leases[k].tenancy = 0 /\ leases[k].version = 0 /\ leases[k].status = "absent"
  <2>1. leases = [k \in Workspaces |-> [status |-> "absent", owner |-> NoOwner, late |-> FALSE,
                                        version |-> 0, tenancy |-> 0]]
    BY Zenon DEF LeaseInit
  <2> QED BY Zenon, <2>1
<1>6. RowsInv
  <2>1. 0 <= 0
    OBVIOUS
  <2> QED BY Zenon, <1>5, <2>1 DEF RowsInv
<1> QED BY Zenon, <1>3, <1>4, <1>6 DEF LeaseInv, CallsInv, AdmittedHoldsWorkspace

LEMMA LeaseStepKeeps == LeaseInv /\ [LeaseNext]_wlVars => LeaseInv'
<1> SUFFICES ASSUME LeaseInv, [LeaseNext]_wlVars PROVE LeaseInv'
  OBVIOUS
<1>1. CASE UNCHANGED wlVars
  BY Zenon, <1>1 DEF wlVars, LeaseInv, LeaseTypeOK, RowsInv, CallsInv, AdmittedHoldsWorkspace
<1>2. CASE LeaseNext
  BY Zenon, <1>2, ReserveKeeps, AskKeeps, UpdateKeeps, TransactionKeeps, CommitKeeps, WorldKeeps,
     ExpiryKeeps DEF LeaseNext
<1> QED BY Zenon, <1>1, <1>2

\* The store's rows, transaction and calls have their types (LeaseTypeOK).
THEOREM LeaseTypes == LeaseSpec => []LeaseTypeOK
<1>1. LeaseInv => LeaseTypeOK
  BY Zenon DEF LeaseInv
<1> QED BY <1>1, LeaseStart, LeaseStepKeeps, PTL DEF LeaseSpec

\* A quarantined row is only released, and for an owner whose tree is gone.
LEMMA QuarantineStep == LeaseInv /\ [LeaseNext]_wlVars => [QuarantineEndsWithTree]_wlVars
<1> SUFFICES ASSUME LeaseInv, LeaseNext, NEW k \in Workspaces,
                    leases[k].status = "quarantined", leases'[k].status # "quarantined"
             PROVE  leases'[k].status = "released" /\ leases[k].owner \in gone
  BY Zenon DEF QuarantineEndsWithTree
<1>1. leases \in [Workspaces -> Lease]
  BY Zenon DEF LeaseInv, LeaseTypeOK, Lease
<1>2. leases' # leases
  OBVIOUS
<1>3. ASSUME NEW j \in Workspaces, NEW o \in Owner, ReserveWorkspaceLease(j, o) PROVE FALSE
  <2>1. leases' = [leases EXCEPT ![j] = [status |-> "reserved", owner |-> o, late |-> FALSE,
                     version |-> leases[j].version + 1, tenancy |-> leases[j].tenancy + 1]]
        /\ leases[j].status \in {"absent", "released"}
    BY Zenon, <1>3 DEF ReserveWorkspaceLease
  <2> QED BY Zenon, <1>1, <2>1
<1>4. ASSUME CommitStart PROVE FALSE
  <2>1. \E j \in Workspaces : /\ leases[j].status \in {"reserved", "start_received"}
                              /\ leases' = [leases EXCEPT ![j].status = "start_received",
                                                          ![j].version = @ + 1]
    BY Zenon, <1>2, <1>4 DEF CommitStart, StartLeases
  <2> QED BY Zenon, <1>1, <2>1 DEF Lease
<1>5. ASSUME NEW j \in Workspaces, LeaseExpires(j) PROVE FALSE
  BY Zenon, <1>1, <1>5 DEF LeaseExpires, Lease
<1>6. ASSUME NEW c \in calls, NEW again \in BOOLEAN, updateSQLiteWorkspaceLease(c, again)
      PROVE  leases'[k].status = "released" /\ leases[k].owner \in gone
  <2>1. /\ leases' = [leases EXCEPT ![c.key].status = NextStatus(c.op), ![c.key].version = @ + 1]
        /\ \/ RecordWorkspaceStartReceived(c)
           \/ QuarantineWorkspaceLease(c)
           \/ ReleaseWorkspaceLeaseAfterQuiescence(c)
    BY Zenon, <1>2, <1>6 DEF updateSQLiteWorkspaceLease
  <2>2. c.key \in Workspaces
    BY Zenon DEF LeaseInv, LeaseTypeOK
  <2>3. c.key = k /\ leases'[k].status = NextStatus(c.op)
    BY Zenon, <1>1, <2>1, <2>2 DEF Lease
  <2>4. c.op = "release" /\ leases[k].owner = c.owner
    BY Zenon, <2>1, <2>3 DEF RecordWorkspaceStartReceived, QuarantineWorkspaceLease,
                      ReleaseWorkspaceLeaseAfterQuiescence
  <2> QED BY Zenon, <2>3, <2>4 DEF NextStatus, LeaseInv, CallsInv
<1>7. \/ \E j \in Workspaces, o \in Owner : ReserveWorkspaceLease(j, o)
      \/ \E c \in calls, again \in BOOLEAN : updateSQLiteWorkspaceLease(c, again)
      \/ CommitStart
      \/ \E j \in Workspaces : LeaseExpires(j)
  BY Zenon, <1>2 DEF LeaseNext, AskTransition, BeginStart, StartCallback, Hello, AuthorityEnds,
     AttachmentEnds, TreeEnds
<1> QED BY Zenon, <1>3, <1>4, <1>5, <1>6, <1>7

\* A live Provider has its workspace to itself, late calls miss the row of a later
\* holder, and a quarantined workspace stays closed until its owner's tree is gone.
THEOREM ExclusiveWorkspaces == LeaseSpec => WorkspaceIsExclusive
<1>1. LeaseInv' => (AdmittedHoldsWorkspace /\ LateCallsMiss)'
  BY Zenon DEF LeaseInv, CallsInv, LateCallsMiss
<1>2. LeaseInv /\ LeaseInv' /\ [LeaseNext]_wlVars =>
        [QuarantineEndsWithTree /\ (AdmittedHoldsWorkspace /\ LateCallsMiss)']_wlVars
  BY Zenon, <1>1, QuarantineStep
<1> QED BY <1>2, LeaseStart, LeaseStepKeeps, PTL DEF LeaseSpec, WorkspaceIsExclusive
=============================================================================
