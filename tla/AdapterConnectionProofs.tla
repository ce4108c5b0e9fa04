---------------------- MODULE AdapterConnectionProofs ----------------------
(***************************************************************************)
(* Proofs, for any sessions, leases and bounds, that AdapterConnection     *)
(* keeps its rows readable, that the store can always be reopened, that no *)
(* accepted fence was handed out before, and that an admitted holder is    *)
(* the live writer.                                                        *)
(***************************************************************************)
EXTENDS AdapterConnection, TLAPS

Holders == admitting \cup held

\* Every fence handed out is below the side allocator.
HandedBelow == \A f \in handed : f < sideNext

\* A holder's fence and epoch are not ahead of its row, and while its fence is
\* the row's it is the live writer.
HoldersOK ==
    \A a \in Holders :
        /\ a.gen >= 1 /\ a.epoch >= 1 /\ a.fence >= 1
        /\ a.fence < sideNext /\ a.epoch <= row[a.session].epoch
        /\ a.fence = row[a.session].fence =>
             writer[a.session] =
                 [epoch |-> a.epoch, gen |-> a.gen, lease |-> a.lease]

\* A grant is above the fence it goes with and, once the admission is held,
\* below both allocators.
GrantsOK ==
    /\ \A a \in admitting : a.grant # 0 => a.grant > a.fence /\ a.grant < sideNext
    /\ \A a \in held : a.grant > a.fence /\ a.grant < mainNext

DownIsQuiet == ~up => admitting = {} /\ held = {}

Inv ==
    /\ TypeOK /\ RowsStayReadable /\ ReopenNeverRefused
    /\ HandedBelow /\ HoldersOK /\ GrantsOK /\ DownIsQuiet
    /\ CommandAuthorityUnique
-----------------------------------------------------------------------------
(* Initial states *)

\* The empty store satisfies the inductive invariant.
LEMMA InitInv == Init => Inv
<1> SUFFICES ASSUME Init PROVE Inv
    OBVIOUS
<1> USE BoundsAssumption
<1>1. NoRow \in Row /\ NoWriter \in Writer
    BY DEF NoRow, Row, NoWriter, Writer, Gen, Fence, Time
<1>2. TypeOK
    BY <1>1 DEF Init, TypeOK, mainVars
<1>3. RowsStayReadable /\ ReopenNeverRefused
    BY DEF Init, RowsStayReadable, ReopenNeverRefused, fenceOK, mainVars, NoRow
<1>4. HandedBelow /\ HoldersOK /\ GrantsOK /\ DownIsQuiet /\ CommandAuthorityUnique
    BY Zenon DEF Init, HandedBelow, HoldersOK, GrantsOK, DownIsQuiet,
           CommandAuthorityUnique, Holders
<1> QED
    BY Zenon, <1>2, <1>3, <1>4 DEF Inv

-----------------------------------------------------------------------------
(* Steps *)

\* What the proofs below use of the invariant's typing.
LEMMA Types ==
    ASSUME Inv
    PROVE  /\ row \in [Session -> Row] /\ writer \in [Session -> Writer]
           /\ mainNext \in 1..MaxFence /\ sideNext \in 1..MaxFence
           /\ mainNext <= sideNext
           /\ synced.row \in [Session -> Row] /\ synced.next \in 1..MaxFence
           /\ synced.next <= sideNext
           /\ admitting \subseteq Admission /\ held \subseteq Admission
           /\ Holders \subseteq Admission
    BY Zenon DEF Inv, TypeOK, ReopenNeverRefused, fenceOK, Holders

\* A step that rewrites one row, keeping its epoch and fence, and leaves it
\* readable, keeps the invariant.
LEMMA RowStepInv ==
    ASSUME Inv, NEW s \in Session, NEW h \in Row,
           row' = [row EXCEPT ![s] = h],
           h.epoch = row[s].epoch, h.fence = row[s].fence,
           validAdapterConnectionRow(h, mainNext),
           UNCHANGED <<now, writer, mainNext, sideNext, synced, up, admitting,
                       held, handed>>
    PROVE  Inv'
<1>1. /\ row' \in [Session -> Row] /\ row'[s] = h
      /\ \A t \in Session : /\ t # s => row'[t] = row[t]
                            /\ row'[t].epoch = row[t].epoch
                            /\ row'[t].fence = row[t].fence
    BY Zenon, Types
<1>2. TypeOK'
    BY Zenon, <1>1 DEF Inv, TypeOK
<1>3. RowsStayReadable'
    BY <1>1 DEF Inv, RowsStayReadable, validAdapterConnectionRow
<1>4. ReopenNeverRefused'
    BY Zenon, <1>1 DEF Inv, ReopenNeverRefused, fenceOK
<1>5. HoldersOK'
  <2>1. \A a \in Holders : a.session \in Session
      BY Zenon, Types DEF Admission
  <2>2. Holders' = Holders
      BY Zenon DEF Holders
  <2>3. \A a \in Holders : /\ row'[a.session].epoch = row[a.session].epoch
                            /\ row'[a.session].fence = row[a.session].fence
      BY Zenon, <1>1, <2>1
  <2>4. writer' = writer /\ sideNext' = sideNext
      OBVIOUS
  <2> QED
      BY <2>2, <2>3, <2>4, ZenonT(40) DEF Inv, HoldersOK
<1>6. /\ HandedBelow' /\ GrantsOK' /\ DownIsQuiet' /\ CommandAuthorityUnique'
    BY Zenon DEF Inv, HandedBelow, GrantsOK, DownIsQuiet, CommandAuthorityUnique
<1> QED
    BY Zenon, <1>2, <1>3, <1>4, <1>5, <1>6 DEF Inv

\* A step that gives one row the next fence and epoch, with both allocators
\* advanced past that fence, keeps the invariant of the holders there were.
LEMMA FenceStepInv ==
    ASSUME Inv, NEW s \in Session, NEW h \in Row,
           row' = [row EXCEPT ![s] = h],
           h.epoch = row[s].epoch + 1, h.fence = sideNext,
           validAdapterConnectionRow(h, sideNext + 1),
           sideNext < MaxFence, sideNext' = sideNext + 1, mainNext' = sideNext + 1,
           handed' = handed \cup {sideNext},
           \A t \in Session : t # s => writer'[t] = writer[t],
           UNCHANGED synced
    PROVE  /\ row' \in [Session -> Row]
           /\ RowsStayReadable' /\ ReopenNeverRefused' /\ HandedBelow'
           /\ \A a \in Holders :
                /\ a.gen >= 1 /\ a.epoch >= 1 /\ a.fence >= 1
                /\ a.fence < sideNext' /\ a.epoch <= row'[a.session].epoch
                /\ a.session = s => a.epoch < row'[s].epoch /\ a.fence < row'[s].fence
                /\ a.fence = row'[a.session].fence =>
                     writer'[a.session] =
                         [epoch |-> a.epoch, gen |-> a.gen, lease |-> a.lease]
<1>1. /\ row' \in [Session -> Row] /\ row'[s] = h
      /\ \A t \in Session : t # s => row'[t] = row[t]
    BY Zenon, Types
<1>2. RowsStayReadable'
    BY <1>1, Types DEF Inv, RowsStayReadable, validAdapterConnectionRow, Row, Fence
<1>3. ReopenNeverRefused'
  <2>1. \A t \in Session : row'[t].fence < mainNext'
      BY <1>1, Types DEF Inv, ReopenNeverRefused, fenceOK, Row, Fence
  <2>2. \A t \in Session : synced.row[t].fence < synced.next
      BY Zenon DEF Inv, ReopenNeverRefused, fenceOK
  <2> QED
      BY <2>1, <2>2, Types DEF ReopenNeverRefused, fenceOK
<1>4. HandedBelow'
    BY Types DEF Inv, HandedBelow, TypeOK
<1>5. ASSUME NEW a \in Holders
      PROVE  /\ a.gen >= 1 /\ a.epoch >= 1 /\ a.fence >= 1
             /\ a.fence < sideNext' /\ a.epoch <= row'[a.session].epoch
             /\ a.session = s => a.epoch < row'[s].epoch /\ a.fence < row'[s].fence
             /\ a.fence = row'[a.session].fence =>
                  writer'[a.session] =
                      [epoch |-> a.epoch, gen |-> a.gen, lease |-> a.lease]
  <2>1. /\ a.session \in Session /\ a.epoch \in Nat /\ a.fence \in Nat
        /\ row[s].epoch \in Nat
      BY Types DEF Admission, Fence, Row
  <2>2. /\ a.gen >= 1 /\ a.epoch >= 1 /\ a.fence >= 1
        /\ a.fence < sideNext /\ a.epoch <= row[a.session].epoch
        /\ a.fence = row[a.session].fence =>
             writer[a.session] =
                 [epoch |-> a.epoch, gen |-> a.gen, lease |-> a.lease]
      BY Zenon DEF Inv, HoldersOK
  <2>3. CASE a.session = s
      BY <1>1, <2>1, <2>2, <2>3, Types
  <2>4. CASE a.session # s
      BY <1>1, <2>1, <2>2, <2>4, Types
  <2> QED
      BY Zenon, <2>3, <2>4
<1> QED
    BY Zenon, <1>1, <1>2, <1>3, <1>4, <1>5

\* The row a hello writes: the epoch and the fence change, nothing else.
LEMMA HelloRowFields ==
    ASSUME NEW r \in Row, NEW f \in Fence
    PROVE  LET h == HelloRow(r, f) IN
           /\ h \in Row /\ h.epoch = r.epoch + 1 /\ h.fence = f
           /\ h.active = r.active /\ h.hwm = r.hwm /\ h.expires = r.expires
           /\ h.pending = r.pending /\ h.pendingExpires = r.pendingExpires
           /\ h.prior = r.prior /\ h.closed = r.closed
<1>1. r.epoch + 1 \in Nat
    BY DEF Row
<1>2. HelloRow(r, f) \in Row
    BY <1>1, Zenon DEF HelloRow, Row
<1> QED
    BY Zenon, <1>2 DEF HelloRow, Row

\* An accepted hello keeps the invariant: its fence is above every fence a
\* holder has, and its epoch above every epoch.
LEMMA HelloInv ==
    ASSUME NEW s \in Session, NEW g \in 1..MaxGen, NEW l \in Lease,
           Inv, AcceptAdapterHello(s, g, l)
    PROVE  Inv'
<1> DEFINE r == row[s]
           h == HelloRow(r, sideNext)
           w == [epoch |-> r.epoch + 1, gen |-> g, lease |-> l]
           new == [session |-> s, epoch |-> r.epoch + 1, gen |-> g,
                   fence |-> sideNext, lease |-> l, grant |-> 0]
<1> HIDE DEF h
<1>1. r \in Row /\ sideNext \in Fence /\ g \in Gen /\ r.epoch + 1 \in Nat
    BY Types, BoundsAssumption DEF Fence, Gen, Row
<1>2. /\ h \in Row /\ h.epoch = r.epoch + 1 /\ h.fence = sideNext
      /\ h.active = r.active /\ h.hwm = r.hwm
      /\ h.pending = r.pending /\ h.pendingExpires = r.pendingExpires
      /\ h.prior = r.prior
    BY Zenon, <1>1, HelloRowFields DEF h
<1>3. /\ sideNext < MaxFence /\ sideNext' = sideNext + 1
      /\ handed' = handed \cup {sideNext}
    BY Zenon DEF AcceptAdapterHello, allocateAdapterFence, nextFence
<1>4. mainNext' = sideNext + 1
    BY Types DEF AcceptAdapterHello, nextFence, syncAdapterFence, Larger
<1>5. row' = [row EXCEPT ![s] = h]
    BY Zenon DEF AcceptAdapterHello, nextFence, h
<1>6. row'[s].epoch = r.epoch + 1
    BY SMTT(30), <1>2, <1>5, Types
<1>7. writer' = [writer EXCEPT ![s] = w]
    BY Zenon, <1>6 DEF AcceptAdapterHello, UpsertWriter
<1>8. admitting' = admitting \cup {new} /\ held' = held
    BY Zenon, <1>6 DEF AcceptAdapterHello, nextFence
<1>9. /\ now' = now /\ synced' = synced /\ up' = up /\ up
      /\ validAdapterConnectionRow(r, mainNext) /\ r.active = g
    BY Zenon DEF AcceptAdapterHello, Readable
<1>10. validAdapterConnectionRow(h, sideNext + 1)
    BY <1>1, <1>2, <1>9, Types DEF validAdapterConnectionRow, Row, Fence, Gen
<1>11. /\ w \in Writer /\ writer' \in [Session -> Writer] /\ writer'[s] = w
       /\ \A t \in Session : t # s => writer'[t] = writer[t]
    BY Zenon, <1>1, <1>7, Types DEF Writer
<1>12. new \in Admission
    BY <1>1, BoundsAssumption DEF Admission, Fence
<1>13. /\ row' \in [Session -> Row]
       /\ RowsStayReadable' /\ ReopenNeverRefused' /\ HandedBelow'
       /\ \A a \in Holders :
            /\ a.gen >= 1 /\ a.epoch >= 1 /\ a.fence >= 1
            /\ a.fence < sideNext' /\ a.epoch <= row'[a.session].epoch
            /\ a.session = s => a.epoch < row'[s].epoch /\ a.fence < row'[s].fence
            /\ a.fence = row'[a.session].fence =>
                 writer'[a.session] =
                     [epoch |-> a.epoch, gen |-> a.gen, lease |-> a.lease]
    BY Zenon, <1>2, <1>3, <1>4, <1>5, <1>9, <1>10, <1>11, FenceStepInv
<1>14. TypeOK'
  <2>1. sideNext' \in 1..MaxFence /\ mainNext' \in 1..MaxFence
      BY <1>3, <1>4, Types, BoundsAssumption
  <2>2. handed' \subseteq 1..MaxFence
      BY Zenon, <1>3, Types DEF Inv, TypeOK
  <2> QED
      BY Zenon, <1>8, <1>9, <1>11, <1>12, <1>13, <2>1, <2>2 DEF Inv, TypeOK
<1>15. HoldersOK'
  <2>1. Holders' = Holders \cup {new}
      BY Zenon, <1>8 DEF Holders
  <2>2. /\ new.gen >= 1 /\ new.epoch >= 1 /\ new.fence >= 1
        /\ new.fence < sideNext' /\ new.epoch <= row'[new.session].epoch
        /\ writer'[new.session] =
             [epoch |-> new.epoch, gen |-> new.gen, lease |-> new.lease]
      BY <1>1, <1>3, <1>6, <1>11, Types, BoundsAssumption DEF Row
  <2> QED
      BY <1>13, <2>1, <2>2 DEF HoldersOK
<1>16. GrantsOK'
  <2>1. \A a \in admitting' :
          a.grant # 0 => a.grant > a.fence /\ a.grant < sideNext'
    <3>1. \A a \in admitting :
            a.grant # 0 => a.grant \in Int /\ a.grant > a.fence /\ a.grant < sideNext
        BY Types DEF Inv, GrantsOK, Admission, Fence
    <3> QED
        BY <1>3, <1>8, <3>1, Types
  <2>2. \A a \in held' : a.grant > a.fence /\ a.grant < mainNext'
    <3>1. \A a \in held : a.grant \in Int /\ a.grant > a.fence /\ a.grant < mainNext
        BY Types DEF Inv, GrantsOK, Admission, Fence
    <3> QED
        BY <1>4, <1>8, <3>1, Types
  <2> QED
      BY Zenon, <2>1, <2>2 DEF GrantsOK
<1>17. DownIsQuiet'
    BY Zenon, <1>9 DEF DownIsQuiet
<1>18. CommandAuthorityUnique'
  <2>1. Holders' = Holders \cup {new}
      BY Zenon, <1>8 DEF Holders
  <2>2. \A a \in Holders : a.session = s => a.epoch # new.epoch
    <3>1. \A a \in Holders : a.session = s => a.epoch < row'[s].epoch
        BY Zenon, <1>13
    <3>2. \A a \in Holders : a.epoch \in Nat
        BY Zenon, Types DEF Admission
    <3> QED
        BY <1>1, <1>6, <3>1, <3>2
  <2>3. \A a, b \in Holders :
          a.session = b.session /\ a.epoch = b.epoch /\ a.gen = b.gen
              => a.lease = b.lease
      BY Zenon DEF Inv, CommandAuthorityUnique, Holders
  <2>4. \A a, b \in Holders' :
          a.session = b.session /\ a.epoch = b.epoch /\ a.gen = b.gen
              => a.lease = b.lease
      BY <2>1, <2>2, <2>3
  <2> QED
      BY Zenon, <2>4 DEF CommandAuthorityUnique, Holders
<1> QED
    BY Zenon, <1>13, <1>14, <1>15, <1>16, <1>17, <1>18 DEF Inv

\* The actions that only rewrite a row.
LEMMA RowActionsInv ==
    ASSUME Inv, NEW s \in Session
    PROVE  /\ \A g \in 1..MaxGen, e \in Time :
                InitializeAdapterConnection(s, g, e) => Inv'
           /\ \A e \in Time : RefreshAdapterCredentialBeforeHello(s, e) => Inv'
           /\ TerminateAdapterConnectionBeforeHello(s) => Inv'
           /\ AppendTerminalEvent(s) => Inv'
<1> DEFINE r == row[s]
<1>1. r \in Row
    BY Zenon, Types
<1>2. ASSUME NEW g \in 1..MaxGen, NEW e \in Time,
             InitializeAdapterConnection(s, g, e)
      PROVE  Inv'
  <2>1. NewRow(g, e) \in Row
      BY BoundsAssumption DEF NewRow, Row, Gen, Fence, Time
  <2>2. NewRow(g, e).epoch = r.epoch /\ NewRow(g, e).fence = r.fence
      BY <1>2 DEF InitializeAdapterConnection, NoRow, NewRow
  <2>3. validAdapterConnectionRow(NewRow(g, e), mainNext)
      BY Types DEF validAdapterConnectionRow, NewRow
  <2> QED
      BY Zenon, <1>2, <2>1, <2>2, <2>3, RowStepInv DEF InitializeAdapterConnection
<1>3. ASSUME NEW e \in Time, RefreshAdapterCredentialBeforeHello(s, e)
      PROVE  Inv'
  <2> DEFINE h == [r EXCEPT !.expires = e]
  <2>1. /\ h \in Row /\ h.epoch = r.epoch /\ h.fence = r.fence
        /\ h.active = r.active /\ h.hwm = r.hwm /\ h.pending = r.pending
        /\ h.pendingExpires = r.pendingExpires /\ h.prior = r.prior
      BY Zenon, <1>1 DEF Row
  <2>2. validAdapterConnectionRow(h, mainNext)
      BY Zenon, <1>3, <2>1 DEF validAdapterConnectionRow, Readable,
                        RefreshAdapterCredentialBeforeHello
  <2>3. row' = [row EXCEPT ![s] = h]
      BY Zenon, <1>3 DEF RefreshAdapterCredentialBeforeHello
  <2> HIDE DEF h
  <2> QED
      BY Zenon, <1>3, <2>1, <2>2, <2>3, RowStepInv DEF RefreshAdapterCredentialBeforeHello
<1>4. ASSUME row' = [row EXCEPT ![s] = [r EXCEPT !.closed = TRUE]],
             validAdapterConnectionRow(r, mainNext),
             UNCHANGED <<now, writer, mainNext, sideNext, synced, up, admitting,
                         held, handed>>
      PROVE  Inv'
  <2> DEFINE h == [r EXCEPT !.closed = TRUE]
  <2>1. h \in Row
      BY <1>1, Zenon DEF Row
  <2>2. /\ h.epoch = r.epoch /\ h.fence = r.fence
        /\ h.active = r.active /\ h.hwm = r.hwm /\ h.pending = r.pending
        /\ h.pendingExpires = r.pendingExpires /\ h.prior = r.prior
      BY Zenon, <1>1 DEF Row
  <2>3. validAdapterConnectionRow(h, mainNext)
      BY Zenon, <1>4, <2>2 DEF validAdapterConnectionRow
  <2>4. row' = [row EXCEPT ![s] = h]
      BY Zenon, <1>4
  <2> HIDE DEF h
  <2> QED
      BY Zenon, <1>4, <2>1, <2>2, <2>3, <2>4, RowStepInv
<1>5. TerminateAdapterConnectionBeforeHello(s) => Inv'
    BY Zenon, <1>4 DEF TerminateAdapterConnectionBeforeHello, Readable
<1>6. AppendTerminalEvent(s) => Inv'
    BY Zenon, <1>4 DEF AppendTerminalEvent, Inv, RowsStayReadable
<1> QED
    BY Zenon, <1>2, <1>3, <1>5, <1>6

\* Preparing a rotation keeps the invariant: the pending generation is above
\* the high-watermark, hence above the active and the prior one.
LEMMA PrepareInv ==
    ASSUME Inv, NEW a \in held, NEW e \in Time,
           PrepareAdapterCredentialRotation(a, e)
    PROVE  Inv'
<1> DEFINE s == a.session
           r == row[s]
           h == [r EXCEPT !.pending = r.hwm + 1, !.pendingExpires = e,
                          !.hwm = r.hwm + 1]
<1>1. s \in Session /\ r \in Row
    BY Zenon, Types DEF Admission
<1>2. r.hwm + 1 \in Gen
    BY <1>1, BoundsAssumption DEF PrepareAdapterCredentialRotation, Row, Gen
<1>3. h \in Row
    BY <1>1, <1>2, Zenon DEF Row
<1>4. /\ h.epoch = r.epoch /\ h.fence = r.fence /\ h.active = r.active
      /\ h.hwm = r.hwm + 1 /\ h.pending = r.hwm + 1 /\ h.pendingExpires = e
      /\ h.prior = r.prior
    BY <1>1, Zenon DEF Row
<1>5. e > 0
    BY DEF PrepareAdapterCredentialRotation, Inv, TypeOK, Time
<1>6. row' = [row EXCEPT ![s] = h]
    BY Zenon DEF PrepareAdapterCredentialRotation
<1> HIDE DEF h
<1>7. validAdapterConnectionRow(h, mainNext)
    BY SMTT(30), <1>1, <1>4, <1>5, Types DEF PrepareAdapterCredentialRotation,
       ValidateAdapterAdmission, validAdapterConnectionRow, Row, Gen, Time
<1> QED
    BY Zenon, <1>1, <1>3, <1>4, <1>6, <1>7, RowStepInv DEF PrepareAdapterCredentialRotation

\* An activation keeps the invariant: the pending generation becomes active
\* with a new epoch and fence, so every holder there was falls behind.
LEMMA ActivateInv ==
    ASSUME Inv, NEW a \in held, ActivateAdapterCredential(a)
    PROVE  Inv'
<1> DEFINE s == a.session
           r == row[s]
           h == [r EXCEPT !.prior = r.active, !.active = r.pending,
                          !.expires = r.pendingExpires,
                          !.pending = 0, !.pendingExpires = 0,
                          !.epoch = r.epoch + 1, !.fence = sideNext]
<1>1. s \in Session /\ r \in Row /\ r.epoch + 1 \in Nat /\ sideNext \in Fence
      /\ 0 \in Gen /\ 0 \in Time
    BY Types, BoundsAssumption DEF Admission, Row, Fence, Gen, Time
<1>2. h \in Row
    BY <1>1, Zenon DEF Row
<1>3. /\ h.epoch = r.epoch + 1 /\ h.fence = sideNext /\ h.active = r.pending
      /\ h.hwm = r.hwm /\ h.pending = 0 /\ h.pendingExpires = 0
      /\ h.prior = r.active
    BY <1>1, Zenon DEF Row
<1>4. row' = [row EXCEPT ![s] = h]
    BY Zenon DEF ActivateAdapterCredential, nextFence
<1> HIDE DEF h
<1>5. /\ sideNext < MaxFence /\ sideNext' = sideNext + 1
      /\ handed' = handed \cup {sideNext}
    BY Zenon DEF ActivateAdapterCredential, allocateAdapterFence, nextFence
<1>6. mainNext' = sideNext + 1
    BY Types DEF ActivateAdapterCredential, nextFence, syncAdapterFence, Larger
<1>7. UNCHANGED <<now, writer, synced, up, admitting, held>>
    BY Zenon DEF ActivateAdapterCredential
<1>8. validAdapterConnectionRow(h, sideNext + 1)
    BY SMTT(30), <1>1, <1>3, Types DEF ActivateAdapterCredential, ValidateAdapterAdmission,
       validAdapterConnectionRow, Row, Gen, Fence
<1>9. /\ row' \in [Session -> Row]
      /\ RowsStayReadable' /\ ReopenNeverRefused' /\ HandedBelow'
      /\ \A b \in Holders :
           /\ b.gen >= 1 /\ b.epoch >= 1 /\ b.fence >= 1
           /\ b.fence < sideNext' /\ b.epoch <= row'[b.session].epoch
           /\ b.fence = row'[b.session].fence =>
                writer'[b.session] =
                    [epoch |-> b.epoch, gen |-> b.gen, lease |-> b.lease]
    BY Zenon, <1>1, <1>2, <1>3, <1>4, <1>5, <1>6, <1>7, <1>8, FenceStepInv
<1>10. TypeOK'
  <2>1. sideNext' \in 1..MaxFence /\ mainNext' \in 1..MaxFence
      BY <1>5, <1>6, Types, BoundsAssumption
  <2>2. handed' \subseteq 1..MaxFence
      BY Zenon, <1>5, Types DEF Inv, TypeOK
  <2> QED
      BY Zenon, <1>7, <1>9, <2>1, <2>2 DEF Inv, TypeOK
<1>11. HoldersOK'
    BY <1>7, <1>9 DEF HoldersOK, Holders
<1>12. GrantsOK'
  <2>1. \A b \in Holders : b.grant \in Int
      BY Types DEF Admission, Fence
  <2> QED
      BY <1>5, <1>6, <1>7, <2>1, Types DEF Inv, GrantsOK, Holders
<1>13. DownIsQuiet' /\ CommandAuthorityUnique'
    BY Zenon, <1>7 DEF Inv, DownIsQuiet, CommandAuthorityUnique
<1> QED
    BY Zenon, <1>9, <1>10, <1>11, <1>12, <1>13 DEF Inv

\* A burnt fence keeps the invariant.
LEMMA RollBackInv ==
    ASSUME Inv, NEW s \in Session, RollBackAfterFence(s)
    PROVE  Inv'
<1>1. /\ sideNext < MaxFence /\ sideNext' = sideNext + 1
      /\ handed' = handed \cup {sideNext}
      /\ UNCHANGED <<now, row, writer, mainNext, synced, up, admitting, held>>
    BY Zenon DEF RollBackAfterFence, allocateAdapterFence, nextFence
<1>2. \A b \in Holders : b.grant \in Int /\ b.fence \in Int
    BY Types DEF Admission, Fence
<1>3. TypeOK'
    BY <1>1, Types, BoundsAssumption DEF Inv, TypeOK
<1>4. RowsStayReadable' /\ DownIsQuiet' /\ CommandAuthorityUnique'
    BY Zenon, <1>1 DEF Inv, RowsStayReadable, DownIsQuiet, CommandAuthorityUnique
<1>5. ReopenNeverRefused' /\ HandedBelow'
    BY <1>1, Types DEF Inv, TypeOK, ReopenNeverRefused, fenceOK, HandedBelow
<1>6. HoldersOK'
  <2>1. \A b \in Holders : b.fence < sideNext'
    <3>1. \A b \in Holders : b.fence < sideNext
        BY Zenon DEF Inv, HoldersOK
    <3> QED
        BY <1>1, <1>2, <3>1, Types
  <2>2. row' = row /\ writer' = writer /\ Holders' = Holders
      BY Zenon, <1>1 DEF Holders
  <2> QED
      BY <2>1, <2>2, Zenon DEF Inv, HoldersOK
<1>7. GrantsOK'
    BY <1>1, <1>2, Types DEF Inv, GrantsOK, Holders
<1> QED
    BY Zenon, <1>3, <1>4, <1>5, <1>6, <1>7 DEF Inv

\* The first half of the grant allocation: the grant is above the holder's
\* fence because that fence was handed out earlier.
LEMMA AllocateGrantInv ==
    ASSUME Inv, NEW a \in admitting, AllocateAdapterGrantFence(a)
    PROVE  Inv'
<1> DEFINE new == [a EXCEPT !.grant = sideNext]
<1>1. /\ sideNext < MaxFence /\ sideNext' = sideNext + 1
      /\ handed' = handed \cup {sideNext}
      /\ admitting' = (admitting \ {a}) \cup {new}
      /\ UNCHANGED <<now, row, writer, mainNext, synced, up, held>> /\ up
    BY Zenon DEF AllocateAdapterGrantFence, allocateAdapterFence, nextFence
<1>2. \A b \in Holders : b.grant \in Int /\ b.fence \in Int
    BY Types DEF Admission, Fence
<1>3. /\ a \in Holders /\ a \in Admission /\ sideNext \in Fence
    BY Types DEF Holders, Fence
<1>4. /\ new \in Admission /\ new.session = a.session /\ new.epoch = a.epoch
      /\ new.gen = a.gen /\ new.fence = a.fence /\ new.lease = a.lease
      /\ new.grant = sideNext
    BY Zenon, <1>3 DEF Admission
<1> HIDE DEF new
<1>5. Holders' \subseteq Holders \cup {new}
    BY Zenon, <1>1 DEF Holders
<1>6. TypeOK'
    BY <1>1, <1>4, Types, BoundsAssumption DEF Inv, TypeOK
<1>7. RowsStayReadable' /\ DownIsQuiet'
    BY Zenon, <1>1 DEF Inv, RowsStayReadable, DownIsQuiet
<1>8. ReopenNeverRefused' /\ HandedBelow'
    BY <1>1, Types DEF Inv, TypeOK, ReopenNeverRefused, fenceOK, HandedBelow
<1>9. HoldersOK'
  <2>1. \A b \in Holders :
          /\ b.gen >= 1 /\ b.epoch >= 1 /\ b.fence >= 1
          /\ b.fence < sideNext' /\ b.epoch <= row'[b.session].epoch
          /\ b.fence = row'[b.session].fence =>
               writer'[b.session] =
                   [epoch |-> b.epoch, gen |-> b.gen, lease |-> b.lease]
    <3>1. \A b \in Holders : b.fence < sideNext'
      <4>1. \A b \in Holders : b.fence < sideNext
          BY Zenon DEF Inv, HoldersOK
      <4> QED
          BY <1>1, <1>2, <4>1, Types
    <3>2. row' = row /\ writer' = writer
        BY Zenon, <1>1
    <3> QED
        BY <3>1, <3>2, Zenon DEF Inv, HoldersOK
  <2>2. \A b \in Holders' :
          \/ b \in Holders
          \/ /\ b.session = a.session /\ b.epoch = a.epoch
             /\ b.gen = a.gen /\ b.fence = a.fence /\ b.lease = a.lease
      BY Zenon, <1>4, <1>5
  <2> QED
      BY <1>3, <2>1, <2>2 DEF HoldersOK
<1>10. GrantsOK'
  <2>1. a.fence < sideNext
      BY Zenon, <1>3 DEF Inv, HoldersOK
  <2> QED
      BY <1>1, <1>2, <1>3, <1>4, <2>1, Types DEF Inv, GrantsOK, Holders
<1>11. CommandAuthorityUnique'
  <2>1. \A b, c \in Holders :
          b.session = c.session /\ b.epoch = c.epoch /\ b.gen = c.gen
              => b.lease = c.lease
      BY Zenon DEF Inv, CommandAuthorityUnique, Holders
  <2>2. \A b, c \in Holders' :
          b.session = c.session /\ b.epoch = c.epoch /\ b.gen = c.gen
              => b.lease = c.lease
      BY <1>3, <1>4, <1>5, <2>1
  <2> QED
      BY Zenon, <2>2 DEF CommandAuthorityUnique, Holders
<1> QED
    BY Zenon, <1>6, <1>7, <1>8, <1>9, <1>10, <1>11 DEF Inv

\* The second half: the main allocator passes the grant.
LEMMA SyncGrantInv ==
    ASSUME Inv, NEW a \in admitting, SyncAdapterGrantFence(a)
    PROVE  Inv'
<1>1. /\ admitting' = admitting \ {a} /\ held' = held \cup {a} /\ a.grant # 0
      /\ UNCHANGED <<now, row, writer, sideNext, synced, up, handed>> /\ up
    BY Zenon DEF SyncAdapterGrantFence
<1>2. \A b \in Holders : b.grant \in Int /\ b.fence \in Int
    BY Types DEF Admission, Fence
<1>3. a \in Holders /\ a \in Admission /\ a.grant > a.fence /\ a.grant < sideNext
    BY Zenon, <1>1, Types DEF Inv, GrantsOK, Holders
<1>4. /\ mainNext' \in 1..MaxFence /\ mainNext' >= mainNext
      /\ mainNext' > a.grant /\ mainNext' <= sideNext
    BY <1>2, <1>3, Types, BoundsAssumption
       DEF SyncAdapterGrantFence, syncAdapterFence, Larger
<1>5. Holders' = Holders
    BY Zenon, <1>1 DEF Holders
<1>6. TypeOK'
    BY SMTT(30), <1>1, <1>3, <1>4 DEF Inv, TypeOK
<1>7. RowsStayReadable'
  <2>1. \A s \in Session : row[s] \in Row
      BY SMTT(30), Types
  <2> QED
      BY SMTT(30), <1>1, <1>4, <2>1, Types
         DEF Inv, RowsStayReadable, validAdapterConnectionRow, Row, Fence
<1>8. ReopenNeverRefused'
  <2>1. \A s \in Session : row[s].fence \in Int
      BY Types DEF Row, Fence
  <2> QED
      BY <1>1, <1>4, <2>1, Types DEF Inv, ReopenNeverRefused, fenceOK
<1>9. HandedBelow' /\ DownIsQuiet'
    BY Zenon, <1>1 DEF Inv, HandedBelow, DownIsQuiet
<1>10. HoldersOK'
    BY <1>1, <1>5, Zenon DEF Inv, HoldersOK
<1>11. GrantsOK'
    BY <1>1, <1>2, <1>3, <1>4, Types DEF Inv, GrantsOK, Holders
<1>12. CommandAuthorityUnique'
    BY <1>5, Zenon DEF Inv, CommandAuthorityUnique, Holders
<1> QED
    BY Zenon, <1>6, <1>7, <1>8, <1>9, <1>10, <1>11, <1>12 DEF Inv

\* Losing holders, one or all of them, keeps the invariant.
LEMMA DropInv ==
    ASSUME Inv, admitting' \subseteq admitting, held' \subseteq held,
           up' \/ (admitting' = {} /\ held' = {}), up' \in BOOLEAN,
           UNCHANGED <<now, row, writer, mainNext, sideNext, synced, handed>>
    PROVE  Inv'
<1>1. Holders' \subseteq Holders
    BY Zenon DEF Holders
<1>2. TypeOK'
    BY Zenon DEF Inv, TypeOK
<1>3. /\ RowsStayReadable' /\ ReopenNeverRefused' /\ HandedBelow'
      /\ GrantsOK' /\ DownIsQuiet'
    BY Zenon DEF Inv, RowsStayReadable, ReopenNeverRefused, fenceOK, HandedBelow,
           GrantsOK, DownIsQuiet
<1>4. HoldersOK'
  <2>1. row' = row /\ writer' = writer /\ sideNext' = sideNext
      OBVIOUS
  <2> QED
      BY <1>1, <2>1, Zenon DEF Inv, HoldersOK
<1>5. CommandAuthorityUnique'
    BY <1>1, Zenon DEF Inv, CommandAuthorityUnique, Holders
<1> QED
    BY Zenon, <1>2, <1>3, <1>4, <1>5 DEF Inv

\* Time, the write-ahead log, closing, failures and reopening.
LEMMA StoreStepInv == Inv /\ StoreStep => Inv'
<1> SUFFICES ASSUME Inv, StoreStep PROVE Inv'
    OBVIOUS
<1> USE BoundsAssumption
<1>1. CASE Tick
  <2>1. /\ UNCHANGED <<row, writer, mainNext, sideNext, synced, up, admitting,
                       held, handed>>
        /\ now' \in 0..MaxClock
      BY <1>1 DEF Tick, Inv, TypeOK
  <2>2. TypeOK'
      BY Zenon, <2>1 DEF Inv, TypeOK
  <2>3. Holders' = Holders
      BY Zenon, <2>1 DEF Holders
  <2> QED
      BY <2>1, <2>2, <2>3, Zenon DEF Inv, RowsStayReadable, ReopenNeverRefused,
         fenceOK, HandedBelow, HoldersOK, GrantsOK, DownIsQuiet,
         CommandAuthorityUnique
<1>2. CASE SyncMainDatabase
  <2>1. /\ UNCHANGED <<now, row, writer, mainNext, sideNext, up, admitting, held,
                       handed>>
        /\ synced' = [row |-> row, writer |-> writer, next |-> mainNext]
      BY Zenon, <1>2 DEF SyncMainDatabase, mainVars
  <2>2. TypeOK'
      BY SMTT(30), <2>1, Types DEF Inv, TypeOK
  <2>3. RowsStayReadable' /\ ReopenNeverRefused'
      BY Zenon, <2>1 DEF Inv, RowsStayReadable, ReopenNeverRefused, fenceOK
  <2>4. Holders' = Holders
      BY Zenon, <2>1 DEF Holders
  <2> QED
      BY <2>1, <2>2, <2>3, <2>4, Zenon DEF Inv, HandedBelow, HoldersOK, GrantsOK,
         DownIsQuiet, CommandAuthorityUnique
<1>3. CASE Close
  <2>1. /\ UNCHANGED <<now, row, writer, sideNext, handed>>
        /\ mainNext' = sideNext
        /\ up' = FALSE /\ admitting' = {} /\ held' = {}
      BY <1>3, Types DEF Close, Larger
  <2>2. synced' = [row |-> row, writer |-> writer, next |-> sideNext]
      BY Zenon, <1>3, <2>1 DEF Close, mainVars
  <2>3. TypeOK'
      BY ZenonT(40), <2>1, <2>2, Types DEF Inv, TypeOK
  <2>4. \A s \in Session : row[s] \in Row /\ row[s].fence \in Int
      BY Types DEF Row, Fence
  <2>5. RowsStayReadable'
      BY <2>1, <2>2, <2>4, Types
         DEF Inv, RowsStayReadable, validAdapterConnectionRow
  <2>6. ReopenNeverRefused'
    <3>1. /\ \A s \in Session : row[s].fence < mainNext
          /\ mainNext \in Int /\ sideNext \in Int /\ mainNext <= sideNext
        BY Types DEF Inv, ReopenNeverRefused, fenceOK
    <3>2. \A s \in Session : row[s].fence < sideNext
        BY <2>4, <3>1
    <3>3. synced'.row = row /\ synced'.next = sideNext /\ sideNext >= sideNext
        BY SMTT(30), <2>2, <3>1
    <3> QED
        BY Zenon, <2>1, <3>2, <3>3 DEF ReopenNeverRefused, fenceOK
  <2>7. HandedBelow' /\ HoldersOK' /\ GrantsOK' /\ DownIsQuiet' /\ CommandAuthorityUnique'
      BY Zenon, <2>1 DEF Inv, HandedBelow, HoldersOK, Holders, GrantsOK, DownIsQuiet,
         CommandAuthorityUnique
  <2> QED
      BY Zenon, <2>3, <2>5, <2>6, <2>7 DEF Inv
<1>4. CASE Crash
    BY Zenon, <1>4, DropInv DEF Crash
<1>5. CASE PowerLoss
  <2>1. /\ UNCHANGED <<now, sideNext, synced, handed>>
        /\ row' = synced.row /\ writer' = synced.writer /\ mainNext' = synced.next
        /\ up' = FALSE /\ admitting' = {} /\ held' = {}
      BY Zenon, <1>5 DEF PowerLoss
  <2>2. TypeOK'
      BY Zenon, <2>1 DEF Inv, TypeOK
  <2>3. RowsStayReadable' /\ ReopenNeverRefused'
      BY Zenon, <2>1 DEF Inv, RowsStayReadable, ReopenNeverRefused, fenceOK
  <2>4. HandedBelow' /\ HoldersOK' /\ GrantsOK' /\ DownIsQuiet' /\ CommandAuthorityUnique'
      BY Zenon, <2>1 DEF Inv, HandedBelow, HoldersOK, Holders, GrantsOK, DownIsQuiet,
         CommandAuthorityUnique
  <2> QED
      BY Zenon, <2>2, <2>3, <2>4 DEF Inv
<1>6. CASE Open
    BY Zenon, <1>6, DropInv DEF Open
<1> QED
    BY Zenon, <1>1, <1>2, <1>3, <1>4, <1>5, <1>6 DEF StoreStep

\* Every step keeps the invariant.
LEMMA NextInv == Inv /\ [Next]_vars => Inv'
<1> SUFFICES ASSUME Inv, [Next]_vars PROVE Inv'
    OBVIOUS
<1>1. ASSUME NEW s \in Session, SessionStep(s) PROVE Inv'
    BY Zenon, <1>1, RowActionsInv, HelloInv, RollBackInv DEF SessionStep
<1>2. ASSUME NEW a \in admitting, AdmittingStep(a) PROVE Inv'
  <2>1. CASE AbandonAdmission(a)
      BY Zenon, <2>1, DropInv DEF AbandonAdmission, Inv, TypeOK
  <2> QED
      BY SMTT(30), <1>2, <2>1, AllocateGrantInv, SyncGrantInv DEF AdmittingStep
<1>3. ASSUME NEW a \in held, HolderStep(a) PROVE Inv'
  <2>1. CASE RejectAdapter(a)
      BY SMTT(30), <2>1, DropInv DEF RejectAdapter, Inv, TypeOK
  <2> QED
      BY SMTT(30), <1>3, <2>1, PrepareInv, ActivateInv DEF HolderStep
<1>4. CASE UNCHANGED vars
  <2>1. UNCHANGED <<now, row, writer, mainNext, sideNext, synced, up, admitting,
                    held, handed>>
      BY Zenon, <1>4 DEF vars
  <2> QED
      BY Zenon, <2>1, DropInv DEF Inv, TypeOK, DownIsQuiet
<1> QED
    BY Zenon, <1>1, <1>2, <1>3, <1>4, StoreStepInv DEF Next

\* The inductive invariant holds in every reachable state.
THEOREM Invariance == Spec => []Inv
<1>1. Init => Inv
    BY Zenon, InitInv
<1>2. Inv /\ [Next]_vars => Inv'
    BY Zenon, NextInv
<1> QED
    BY <1>1, <1>2, PTL DEF Spec

-----------------------------------------------------------------------------
(* What the invariant gives *)

\* Every state variable has its type, whatever the sessions, leases and bounds.
THEOREM TypeCorrectness == Spec => []TypeOK
<1>1. Inv => TypeOK
    BY Zenon DEF Inv
<1> QED
    BY <1>1, Invariance, PTL

\* No sequence of operations, restarts and power failures leaves a connection
\* row that validAdapterConnectionRow refuses.
THEOREM ReadableRows == Spec => []RowsStayReadable
<1>1. Inv => RowsStayReadable
    BY Zenon DEF Inv
<1> QED
    BY <1>1, Invariance, PTL

\* Whatever happened before, and whatever a power failure would erase, the
\* fence check of Open succeeds.
THEOREM Reopening == Spec => []ReopenNeverRefused
<1>1. Inv => ReopenNeverRefused
    BY Zenon DEF Inv
<1> QED
    BY <1>1, Invariance, PTL

\* The store stays usable, whatever the sessions, leases and bounds.
THEOREM UsableStore == Spec => []StoreStaysUsable
<1>1. RowsStayReadable /\ ReopenNeverRefused => StoreStaysUsable
    BY Zenon DEF StoreStaysUsable
<1> QED
    BY <1>1, ReadableRows, Reopening, PTL

\* A pair (epoch, generation) names one hello only.
THEOREM UniqueAuthority == Spec => []CommandAuthorityUnique
<1>1. Inv => CommandAuthorityUnique
    BY SMTT(30) DEF Inv
<1> QED
    BY <1>1, Invariance, PTL

\* The holder's tuple is the row's, and the row may still speak.
Current(a) ==
    LET r == row[a.session] IN
    /\ r.epoch = a.epoch /\ r.active = a.gen /\ r.fence = a.fence
    /\ Live(r)

\* For a holder, admission comes down to being current: the grant comparisons
\* always succeed.
LEMMA AdmittedIffCurrent ==
    ASSUME Inv, NEW a \in held
    PROVE  ValidateAdapterAdmission(a) <=> Current(a)
<1>1. /\ up /\ a \in Holders /\ a.session \in Session
      /\ a.grant \in Int /\ a.fence \in Int
    BY Types DEF Inv, DownIsQuiet, Holders, Admission, Fence
<1>2. a.gen >= 1 /\ a.epoch >= 1 /\ a.fence >= 1
    BY Zenon, <1>1 DEF Inv, HoldersOK
<1>3. a.grant > a.fence /\ a.grant < mainNext /\ a.grant < sideNext
    BY <1>1, Types DEF Inv, GrantsOK
<1>4. row[a.session].fence = a.fence =>
        validAdapterConnectionRow(row[a.session], mainNext)
    BY <1>1, <1>2 DEF Inv, RowsStayReadable, NoRow
<1> QED
    BY Zenon, <1>1, <1>2, <1>3, <1>4 DEF ValidateAdapterAdmission, Current

\* The fence comparisons never shut out the holder that is current.
THEOREM CurrentHolders == Spec => []CurrentHolderAdmitted
<1>1. Inv => CurrentHolderAdmitted
    BY Zenon, AdmittedIffCurrent DEF CurrentHolderAdmitted, Current
<1> QED
    BY <1>1, Invariance, PTL

\* An admitted holder is the live writer: there is one writer per Session.
THEOREM LiveWriters == Spec => []AdmittedHolderIsLiveWriter
<1>1. Inv => AdmittedHolderIsLiveWriter
  <2> SUFFICES ASSUME Inv, NEW a \in held, ValidateAdapterAdmission(a)
               PROVE  writer[a.session] =
                        [epoch |-> a.epoch, gen |-> a.gen, lease |-> a.lease]
      BY Zenon DEF AdmittedHolderIsLiveWriter
  <2>1. a \in Holders /\ row[a.session].fence = a.fence
      BY Zenon DEF ValidateAdapterAdmission, Holders
  <2> QED
      BY Zenon, <2>1 DEF Inv, HoldersOK
<1> QED
    BY <1>1, Invariance, PTL

\* ValidateAdapterAdmission admits the current holder, and nobody but the live
\* writer.
THEOREM TrueAdmission == Spec => []AdmissionIsTrue
<1>1. CurrentHolderAdmitted /\ AdmittedHolderIsLiveWriter => AdmissionIsTrue
    BY Zenon DEF AdmissionIsTrue
<1> QED
    BY <1>1, CurrentHolders, LiveWriters, PTL

\* The steps that change a row's fence.
LEMMA FenceChange ==
    ASSUME Inv, Next, up', NEW s \in Session, row'[s].fence # row[s].fence
    PROVE  row'[s].fence = sideNext
<1>1. ASSUME NEW t \in Session, SessionStep(t) PROVE row'[s].fence = sideNext
  <2>1. CASE \E g \in 1..MaxGen, l \in Lease : AcceptAdapterHello(t, g, l)
    <3>1. row' = [row EXCEPT ![t] = HelloRow(row[t], sideNext)]
        BY Zenon, <2>1 DEF AcceptAdapterHello, nextFence
    <3>2. sideNext \in Fence
        BY Types, BoundsAssumption DEF Fence
    <3>3. row[t] \in Row
        BY Zenon, Types
    <3>4. HelloRow(row[t], sideNext).fence = sideNext
        BY Zenon, <3>2, <3>3, HelloRowFields
    <3> QED
        BY Zenon, <3>1, <3>4, Types
  <2>2. CASE \E g \in 1..MaxGen, e \in Time : InitializeAdapterConnection(t, g, e)
      BY <2>2, Types DEF InitializeAdapterConnection, NewRow, NoRow
  <2>3. ASSUME NEW e, row' = [row EXCEPT ![t] = [row[t] EXCEPT !.expires = e]]
        PROVE  FALSE
    <3>1. [row[t] EXCEPT !.expires = e].fence = row[t].fence
        BY Zenon, Types DEF Row
    <3> QED
        BY Zenon, <2>3, <3>1, Types
  <2>4. ASSUME row' = [row EXCEPT ![t] = [row[t] EXCEPT !.closed = TRUE]]
        PROVE  FALSE
    <3>1. [row[t] EXCEPT !.closed = TRUE].fence = row[t].fence
        BY Zenon, Types DEF Row
    <3> QED
        BY Zenon, <2>4, <3>1, Types
  <2> QED
      BY Zenon, <1>1, <2>1, <2>2, <2>3, <2>4 DEF SessionStep, RollBackAfterFence,
         RefreshAdapterCredentialBeforeHello, AppendTerminalEvent,
         TerminateAdapterConnectionBeforeHello
<1>2. ASSUME NEW a \in admitting, AdmittingStep(a) PROVE FALSE
    BY Zenon, <1>2 DEF AdmittingStep, AllocateAdapterGrantFence, SyncAdapterGrantFence,
                AbandonAdmission
<1>3. ASSUME NEW a \in held, HolderStep(a) PROVE row'[s].fence = sideNext
  <2> DEFINE t == a.session
             r == row[t]
  <2>1. t \in Session /\ r \in Row
      BY Zenon, Types DEF Admission
  <2>2. ASSUME NEW e \in Time, PrepareAdapterCredentialRotation(a, e) PROVE FALSE
    <3> DEFINE h == [r EXCEPT !.pending = r.hwm + 1, !.pendingExpires = e,
                              !.hwm = r.hwm + 1]
    <3>1. h.fence = r.fence
        BY <2>1, Zenon DEF Row
    <3>2. row' = [row EXCEPT ![t] = h]
        BY Zenon, <2>2 DEF PrepareAdapterCredentialRotation
    <3> HIDE DEF h
    <3> QED
        BY Zenon, <2>1, <3>1, <3>2, Types
  <2>3. ASSUME ActivateAdapterCredential(a) PROVE row'[s].fence = sideNext
    <3> DEFINE h == [r EXCEPT !.prior = r.active, !.active = r.pending,
                              !.expires = r.pendingExpires,
                              !.pending = 0, !.pendingExpires = 0,
                              !.epoch = r.epoch + 1, !.fence = sideNext]
    <3>1. h.fence = sideNext
        BY <2>1, Zenon DEF Row
    <3>2. row' = [row EXCEPT ![t] = h]
        BY Zenon, <2>3 DEF ActivateAdapterCredential, nextFence
    <3> HIDE DEF h
    <3> QED
        BY Zenon, <2>1, <3>1, <3>2, Types
  <2> QED
      BY Zenon, <1>3, <2>2, <2>3 DEF HolderStep, RejectAdapter
<1>4. ASSUME StoreStep PROVE FALSE
    BY Zenon, <1>4 DEF StoreStep, Tick, SyncMainDatabase, Close, Crash, PowerLoss, Open
<1> QED
    BY Zenon, <1>1, <1>2, <1>3, <1>4 DEF Next

\* A fence that a hello or an activation accepts was never handed out before.
THEOREM FreshFences == Spec => FenceNeverReused
<1>1. Inv /\ [Next]_vars =>
        [up' => \A s \in Session :
            row'[s].fence # row[s].fence => row'[s].fence \notin handed]_vars
  <2> SUFFICES ASSUME Inv, Next, up', NEW s \in Session,
                      row'[s].fence # row[s].fence
               PROVE  row'[s].fence \notin handed
      OBVIOUS
  <2>1. row'[s].fence = sideNext
      BY Zenon, FenceChange
  <2> QED
      BY <2>1, Types DEF Inv, HandedBelow
<1> QED
    BY <1>1, Invariance, PTL DEF Spec, FenceNeverReused

-----------------------------------------------------------------------------
(* Refinement of SessionWriter *)

\* No two holders share a lease, and none is both admitting and held.
LeasesDistinct ==
    /\ \A a, b \in Holders : a.lease = b.lease => a = b
    /\ admitting \cap held = {}

\* Leases stay distinct: a hello brings a fresh one, the grant allocation
\* replaces a holder by one with the same lease.
LEMMA LeasesInv == Inv /\ LeasesDistinct /\ [Next]_vars => LeasesDistinct'
<1> SUFFICES ASSUME Inv, LeasesDistinct, [Next]_vars PROVE LeasesDistinct'
    OBVIOUS
<1>1. ASSUME admitting' \subseteq admitting, held' \subseteq held
      PROVE  LeasesDistinct'
    BY <1>1, Zenon DEF LeasesDistinct, Holders
<1>2. ASSUME NEW s \in Session, SessionStep(s) PROVE LeasesDistinct'
  <2>1. ASSUME NEW g \in 1..MaxGen, NEW l \in Lease, AcceptAdapterHello(s, g, l)
        PROVE  LeasesDistinct'
    <3>1. PICK new : new.lease = l /\ admitting' = admitting \cup {new}
        BY Zenon, <2>1 DEF AcceptAdapterHello
    <3>2. held' = held /\ \A a \in Holders : a.lease # l
        BY Zenon, <2>1 DEF AcceptAdapterHello, FreshLease, Holders
    <3> QED
        BY <3>1, <3>2 DEF LeasesDistinct, Holders
  <2> QED
      BY Zenon, <1>1, <1>2, <2>1 DEF SessionStep, InitializeAdapterConnection,
         RefreshAdapterCredentialBeforeHello, RollBackAfterFence,
         TerminateAdapterConnectionBeforeHello, AppendTerminalEvent
<1>3. ASSUME NEW a \in admitting, AdmittingStep(a) PROVE LeasesDistinct'
  <2>1. CASE AllocateAdapterGrantFence(a)
    <3> DEFINE new == [a EXCEPT !.grant = sideNext]
    <3>1. /\ admitting' = (admitting \ {a}) \cup {new} /\ held' = held
          /\ new.lease = a.lease
        BY Zenon, <2>1, Types DEF AllocateAdapterGrantFence, nextFence, Admission
    <3> HIDE DEF new
    <3> QED
        BY <3>1 DEF LeasesDistinct, Holders
  <2>2. CASE SyncAdapterGrantFence(a)
    <3>1. admitting' = admitting \ {a} /\ held' = held \cup {a}
        BY Zenon, <2>2 DEF SyncAdapterGrantFence
    <3> QED
        BY <3>1 DEF LeasesDistinct, Holders
  <2>3. CASE AbandonAdmission(a)
      BY Zenon, <1>1, <2>3 DEF AbandonAdmission
  <2> QED
      BY Zenon, <1>3, <2>1, <2>2, <2>3 DEF AdmittingStep
<1>4. ASSUME NEW a \in held, HolderStep(a) PROVE LeasesDistinct'
    BY Zenon, <1>1, <1>4 DEF HolderStep, RejectAdapter, PrepareAdapterCredentialRotation,
       ActivateAdapterCredential
<1>5. ASSUME StoreStep PROVE LeasesDistinct'
    BY Zenon, <1>1, <1>5 DEF StoreStep, Tick, SyncMainDatabase, Close, Crash, PowerLoss, Open
<1>6. CASE UNCHANGED vars
    BY Zenon, <1>1, <1>6 DEF vars
<1> QED
    BY Zenon, <1>2, <1>3, <1>4, <1>5, <1>6 DEF Next

\* Leases are distinct in every reachable state.
THEOREM Leases == Spec => []LeasesDistinct
<1>1. Init => LeasesDistinct
    BY Zenon DEF Init, LeasesDistinct, Holders
<1> QED
    BY <1>1, LeasesInv, Invariance, PTL DEF Spec

\* Except for the end of an admission, no step makes a holder that stays
\* connected current.
LEMMA NoneBecomesCurrent ==
    ASSUME Inv, Next, NEW a \in held, a \in held', Current(a)',
           \A b \in admitting : ~SyncAdapterGrantFence(b)
    PROVE  Current(a)
<1> DEFINE s == a.session
           r == row[s]
<1>1. /\ a \in Holders /\ s \in Session /\ r \in Row
      /\ a.epoch >= 1 /\ a.fence >= 1 /\ a.fence < sideNext
      /\ a.fence \in Int /\ a.epoch \in Int
  <2>1. a \in Holders
      BY Zenon DEF Holders
  <2>2. a.epoch >= 1 /\ a.fence >= 1 /\ a.fence < sideNext
      BY Zenon, <2>1 DEF Inv, HoldersOK
  <2> QED
      BY <2>1, <2>2, Types DEF Admission, Fence
<1>2. /\ row'[s].epoch = a.epoch /\ row'[s].active = a.gen /\ row'[s].fence = a.fence
      /\ row'[s].expires > now' /\ ~row'[s].closed
    BY Zenon DEF Current, Live
<1>3. ASSUME row'[s] = r, now' = now PROVE Current(a)
    BY Zenon, <1>2, <1>3 DEF Current, Live
<1>4. ASSUME NEW t \in Session, SessionStep(t) PROVE Current(a)
  <2>1. now' = now
      BY ZenonT(40), <1>4 DEF SessionStep, InitializeAdapterConnection, AcceptAdapterHello,
         RefreshAdapterCredentialBeforeHello, RollBackAfterFence,
         TerminateAdapterConnectionBeforeHello, AppendTerminalEvent
  <2>2. CASE t # s
    <3>1. row' = row \/ \E x : row' = [row EXCEPT ![t] = x]
        BY <1>4, Zenon DEF SessionStep, InitializeAdapterConnection,
           AcceptAdapterHello, RefreshAdapterCredentialBeforeHello,
           RollBackAfterFence, TerminateAdapterConnectionBeforeHello,
           AppendTerminalEvent
    <3>2. row'[s] = r
        BY Zenon, <1>1, <2>2, <3>1, Types
    <3> QED
        BY Zenon, <1>3, <2>1, <3>2
  <2>3. CASE t = s
    <3>1. ASSUME NEW g \in 1..MaxGen, NEW l \in Lease, AcceptAdapterHello(s, g, l)
          PROVE  FALSE
      <4>1. row' = [row EXCEPT ![s] = HelloRow(r, sideNext)]
          BY SMTT(30), <3>1 DEF AcceptAdapterHello, nextFence
      <4>2. HelloRow(r, sideNext).fence = sideNext
          BY SMTT(30), <1>1, Types, HelloRowFields, BoundsAssumption DEF Fence
      <4> QED
          BY SMTT(30), <1>1, <1>2, <4>1, <4>2, Types
    <3>2. ASSUME NEW g \in 1..MaxGen, NEW e \in Time,
                 InitializeAdapterConnection(s, g, e)
          PROVE  FALSE
        BY <1>1, <1>2, <3>2, Types DEF InitializeAdapterConnection, NewRow
    <3>3. ASSUME NEW e \in Time, RefreshAdapterCredentialBeforeHello(s, e)
          PROVE  FALSE
      <4>1. r.epoch = 0 /\ row' = [row EXCEPT ![s] = [r EXCEPT !.expires = e]]
          BY Zenon, <3>3 DEF RefreshAdapterCredentialBeforeHello, NeverConnected
      <4>2. [r EXCEPT !.expires = e].epoch = r.epoch
          BY Zenon, <1>1 DEF Row
      <4> QED
          BY <1>1, <1>2, <4>1, <4>2, Types
    <3>4. ASSUME row' = [row EXCEPT ![s] = [r EXCEPT !.closed = TRUE]]
          PROVE  FALSE
      <4>1. [r EXCEPT !.closed = TRUE].closed = TRUE
          BY <1>1, Zenon DEF Row
      <4> QED
          BY Zenon, <1>1, <1>2, <3>4, <4>1, Types
    <3>5. CASE RollBackAfterFence(s)
        BY Zenon, <1>3, <3>5 DEF RollBackAfterFence
    <3> QED
        BY Zenon, <1>4, <2>3, <3>1, <3>2, <3>3, <3>4, <3>5 DEF SessionStep,
           TerminateAdapterConnectionBeforeHello, AppendTerminalEvent
  <2> QED
      BY Zenon, <2>2, <2>3
<1>5. ASSUME NEW b \in admitting, AdmittingStep(b) PROVE Current(a)
    BY Zenon, <1>3, <1>5 DEF AdmittingStep, AllocateAdapterGrantFence, AbandonAdmission
<1>6. ASSUME NEW b \in held, HolderStep(b) PROVE Current(a)
  <2> DEFINE t == b.session
             q == row[t]
  <2>1. t \in Session /\ q \in Row
      BY Zenon, Types DEF Admission
  <2>2. CASE RejectAdapter(b)
      BY Zenon, <1>3, <2>2 DEF RejectAdapter
  <2>3. ASSUME NEW e \in Time, PrepareAdapterCredentialRotation(b, e)
        PROVE  Current(a)
    <3> DEFINE h == [q EXCEPT !.pending = q.hwm + 1, !.pendingExpires = e,
                              !.hwm = q.hwm + 1]
    <3>1. /\ h.epoch = q.epoch /\ h.active = q.active /\ h.fence = q.fence
          /\ h.expires = q.expires
        BY <2>1, Zenon DEF Row
    <3>2. h.closed = q.closed
        BY <2>1, Zenon DEF Row
    <3>3. row' = [row EXCEPT ![t] = h] /\ now' = now
        BY Zenon, <2>3 DEF PrepareAdapterCredentialRotation
    <3> HIDE DEF h
    <3>4. CASE s # t
        BY SMTT(30), <1>1, <1>3, <2>1, <3>3, <3>4
    <3>5. CASE s = t
        BY Zenon, <1>1, <1>2, <2>1, <3>1, <3>2, <3>3, <3>5, Types DEF Current, Live
    <3> QED
        BY Zenon, <3>4, <3>5
  <2>4. ASSUME ActivateAdapterCredential(b) PROVE Current(a)
    <3> DEFINE h == [q EXCEPT !.prior = q.active, !.active = q.pending,
                              !.expires = q.pendingExpires,
                              !.pending = 0, !.pendingExpires = 0,
                              !.epoch = q.epoch + 1, !.fence = sideNext]
    <3>1. h.fence = sideNext
        BY <2>1, Zenon DEF Row
    <3>2. row' = [row EXCEPT ![t] = h] /\ now' = now
        BY Zenon, <2>4 DEF ActivateAdapterCredential, nextFence
    <3> HIDE DEF h
    <3>3. CASE s # t
        BY SMTT(30), <1>1, <1>3, <2>1, <3>2, <3>3
    <3>4. CASE s = t
        BY <1>1, <1>2, <2>1, <3>1, <3>2, <3>4, Types
    <3> QED
        BY Zenon, <3>3, <3>4
  <2> QED
      BY Zenon, <1>6, <2>2, <2>3, <2>4 DEF HolderStep
<1>7. ASSUME StoreStep PROVE Current(a)
  <2>1. CASE Tick
    <3>1. row' = row /\ now' = now + 1 /\ now \in Int /\ r.expires \in Int
        BY <1>1, <2>1 DEF Tick, Inv, TypeOK, Row, Time
    <3> QED
        BY SMTT(30), <1>2, <3>1 DEF Current, Live
  <2>2. CASE SyncMainDatabase
      BY Zenon, <1>3, <2>2 DEF SyncMainDatabase
  <2>3. CASE Close \/ Crash \/ PowerLoss
      BY Zenon, <2>3 DEF Close, Crash, PowerLoss
  <2>4. CASE Open
      BY Zenon, <2>4 DEF Open, Inv, DownIsQuiet
  <2> QED
      BY SMTT(30), <1>7, <2>1, <2>2, <2>3, <2>4 DEF StoreStep
<1> QED
    BY Zenon, <1>4, <1>5, <1>6, <1>7 DEF Next

\* For the holders of a state, admission comes down to being current.
HoldersAdmittedIffCurrent ==
    \A a \in held : ValidateAdapterAdmission(a) <=> Current(a)

\* The same, as an implication that also holds of the next state.
LEMMA AdmittedIffCurrentNext ==
    (Inv => HoldersAdmittedIffCurrent) /\ (Inv' => HoldersAdmittedIffCurrent')
<1>1. Inv => HoldersAdmittedIffCurrent
    BY Zenon, AdmittedIffCurrent DEF HoldersAdmittedIffCurrent
<1> QED
    BY <1>1, PTL

\* Every step is a handover of SessionWriter, or leaves it unchanged: holders
\* only lose their authority, except at the end of an admission, which finds
\* no other holder current.
LEMMA HandoverStep ==
    ASSUME Inv, Inv', LeasesDistinct, LeasesDistinct', [Next]_vars
    PROVE  [Writers!Handover]_(Writers!handover)
<1> DEFINE V(a) == ValidateAdapterAdmission(a)
<1>1. /\ \A a \in held : V(a) <=> Current(a)
      /\ \A a \in held' : V(a)' <=> Current(a)'
    BY Zenon, AdmittedIffCurrentNext DEF HoldersAdmittedIffCurrent
<1>2. \A s \in Session : speakersOf[s] =
        {a.lease : a \in {h \in held : h.session = s /\ V(h)}}
    BY Zenon DEF speakersOf
<1>3. \A s \in Session : speakersOf'[s] =
        {a.lease : a \in {h \in held' : h.session = s /\ V(h)'}}
    BY Zenon DEF speakersOf
<1>4. /\ benchedHolders = {a.lease : a \in {h \in held : ~V(h)}}
      /\ benchedHolders' = {a.lease : a \in {h \in held' : ~V(h)'}}
    BY Zenon DEF benchedHolders
<1>5. /\ \A a \in held : a.lease \in Lease /\ a.session \in Session
      /\ \A a \in held' : a.lease \in Lease /\ a.session \in Session
    BY Zenon DEF Inv, TypeOK, Admission
<1>6. /\ speakersOf = [s \in Session |-> speakersOf[s]]
      /\ speakersOf' = [s \in Session |-> speakersOf'[s]]
    BY Zenon DEF speakersOf
<1> HIDE DEF V
<1>7. ASSUME \A a \in held' : V(a)' => a \in held /\ V(a)
      PROVE  Writers!Stop
  <2>1. /\ speakersOf' \in [Session -> SUBSET Lease]
        /\ benchedHolders' \subseteq Lease
      BY SMTT(30), <1>3, <1>4, <1>5, <1>6
  <2>2. ASSUME NEW s \in Session, NEW l \in speakersOf'[s]
        PROVE  l \in speakersOf[s] /\ l \notin benchedHolders'
    <3>1. PICK a \in held' : a.session = s /\ V(a)' /\ a.lease = l
        BY <1>3, <2>2
    <3>2. l \in speakersOf[s]
        BY <1>2, <1>7, <3>1
    <3>3. \A b \in held' : b.lease = l => b = a
        BY Zenon, <3>1 DEF LeasesDistinct, Holders
    <3>4. l \notin benchedHolders'
        BY Zenon, <1>4, <3>1, <3>3
    <3> QED
        BY Zenon, <3>2, <3>4
  <2> QED
      BY Zenon, <2>1, <2>2 DEF Writers!Stop
<1>8. ASSUME NEW a \in admitting, SyncAdapterGrantFence(a)
      PROVE  [Writers!Handover]_(Writers!handover)
  <2>1. /\ held' = held \cup {a} /\ row' = row /\ now' = now
        /\ a \notin held /\ a \in Holders
      BY SMTT(30), <1>8 DEF SyncAdapterGrantFence, LeasesDistinct, Holders
  <2>2. \A b \in held : V(b)' <=> V(b)
      BY Zenon, <1>1, <2>1 DEF Current, Live
  <2>3. \A b \in held : b.lease # a.lease
      BY Zenon, <2>1 DEF LeasesDistinct, Holders
  <2>4. CASE ~V(a)'
    <3>1. \A b \in held' : V(b)' => b \in held /\ V(b)
        BY Zenon, <2>1, <2>2, <2>4
    <3> QED
        BY Zenon, <1>7, <3>1 DEF Writers!Handover
  <2>5. CASE V(a)'
    <3> DEFINE s == a.session
    <3>1. s \in Session /\ a.lease \in Lease
        BY Zenon, <1>5, <2>1
    <3>2. speakersOf[s] = {}
      <4> SUFFICES ASSUME NEW b \in held, b.session = s, V(b) PROVE FALSE
          BY Zenon, <1>2, <3>1
      <4>1. a.fence = row[s].fence /\ b.fence = row[s].fence
          BY Zenon, <1>1, <2>1, <2>5 DEF Current
      <4>2. /\ writer[s] = [epoch |-> a.epoch, gen |-> a.gen, lease |-> a.lease]
            /\ writer[s] = [epoch |-> b.epoch, gen |-> b.gen, lease |-> b.lease]
          BY Zenon, <2>1, <4>1 DEF Inv, HoldersOK, Holders
      <4>3. writer[s].lease = a.lease /\ writer[s].lease = b.lease
        <5>1. writer[s].lease = a.lease
            BY <4>2
        <5>2. writer[s].lease = b.lease
            BY <4>2
        <5> QED
            BY Zenon, <5>1, <5>2
      <4> QED
          BY Zenon, <2>3, <4>3
    <3>3. a.lease \notin benchedHolders
        BY Zenon, <1>4, <2>3
    <3>4. benchedHolders' = benchedHolders
        BY Zenon, <1>4, <2>1, <2>2, <2>5
    <3>5. speakersOf'[s] = {a.lease}
      <4>1. a.lease \in speakersOf'[s]
          BY <1>3, <2>1, <2>5, <3>1
      <4>2. ASSUME NEW l \in speakersOf'[s] PROVE l = a.lease
        <5>1. PICK b \in held' : b.session = s /\ V(b)' /\ b.lease = l
            BY <1>3, <3>1, <4>2
        <5>2. b \notin held
            BY <1>2, <2>2, <3>1, <3>2, <5>1
        <5> QED
            BY Zenon, <2>1, <5>1, <5>2
      <4> QED
          BY Zenon, <4>1, <4>2
    <3>6. ASSUME NEW q \in Session, q # s PROVE speakersOf'[q] = speakersOf[q]
      <4>1. \A b \in held' : b.session = q => b \in held
          BY Zenon, <2>1, <3>6
      <4>2. {h \in held' : h.session = q /\ V(h)'} =
              {h \in held : h.session = q /\ V(h)}
          BY <2>1, <2>2, <4>1, Zenon
      <4> QED
          BY <1>2, <1>3, <4>2, Zenon
    <3>7. speakersOf' = [speakersOf EXCEPT ![s] = {a.lease}]
        BY Zenon, <1>6, <3>1, <3>5, <3>6
    <3> QED
        BY Zenon, <3>1, <3>2, <3>3, <3>4, <3>7 DEF Writers!Handover, Writers!Speak
  <2> QED
      BY Zenon, <2>4, <2>5
<1>9. ASSUME Next, \A a \in admitting : ~SyncAdapterGrantFence(a)
      PROVE  Writers!Stop
  <2>1. held' \subseteq held
      BY <1>9, ZenonT(40) DEF Next, SessionStep, AdmittingStep, HolderStep, StoreStep,
         InitializeAdapterConnection, RefreshAdapterCredentialBeforeHello,
         TerminateAdapterConnectionBeforeHello, AcceptAdapterHello,
         RollBackAfterFence, AppendTerminalEvent, AllocateAdapterGrantFence,
         AbandonAdmission, RejectAdapter, PrepareAdapterCredentialRotation,
         ActivateAdapterCredential, Tick, SyncMainDatabase, Close, Crash,
         PowerLoss, Open
  <2>2. \A a \in held' : V(a)' => a \in held /\ V(a)
      BY Zenon, <1>1, <1>9, <2>1, NoneBecomesCurrent
  <2> QED
      BY Zenon, <1>7, <2>2
<1>10. ASSUME UNCHANGED vars PROVE Writers!Stop
  <2>1. held' = held /\ \A a \in held : Current(a)' => Current(a)
      BY <1>10, Zenon DEF vars, Current, Live
  <2>2. \A a \in held' : V(a)' => a \in held /\ V(a)
      BY <1>1, <2>1, Zenon
  <2> QED
      BY Zenon, <1>7, <2>2
<1> QED
    BY Zenon, <1>8, <1>9, <1>10 DEF Writers!Handover

\* AdapterConnection implements SessionWriter: at most one holder speaks for a
\* Session, and a holder whose authority lapsed never speaks again.
THEOREM Refinement == Spec => ImplementsSessionWriter
<1>1. Init => Writers!Quiet
    BY DEF Init, Writers!Quiet, speakersOf, benchedHolders
<1>2. Inv /\ Inv' /\ LeasesDistinct /\ LeasesDistinct' /\ [Next]_vars
        => [Writers!Handover]_(Writers!handover)
    BY Zenon, HandoverStep
<1> QED
    BY <1>1, <1>2, Invariance, Leases, PTL
       DEF Spec, ImplementsSessionWriter, Writers!HandoverSpec
=============================================================================
