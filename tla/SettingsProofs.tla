--------------------------- MODULE SettingsProofs ---------------------------
(***************************************************************************)
(* Proofs, for any commands, requests and capabilities, that a settings    *)
(* request ends with one effective event of its own, that "applied" is     *)
(* what the request's own Adapter read back after it, and that no request  *)
(* outlives the publication of a later Adapter's capability.               *)
(***************************************************************************)
EXTENDS SettingsLedger, WellFoundedInduction, TLAPS

Fingerprints == {k.fp : k \in Capability}

Readback == {k.eff : k \in Capability}

SettingRow == [status : Nonterminal \cup SettingsTerminal, writer : Nat, req : SettingsRequest,
               late : BOOLEAN, seq : Nat, eff : Readback, end : Nat]

SettingsEvent == [type : {"caps"}, fp : Fingerprints, eff : Readback, writer : Nat]
                    \cup [type : {"effective"}, cmd : Setting, outcome : SettingsTerminal, eff : Readback]

StoredCapability == [seq : Nat, fp : Fingerprints, eff : Readback, writer : Nat]

Publication == [w : Nat, seq : Nat, step : {"none", "publish", "recover", "receipt"}]

Rows == {c \in Setting : setting[c] \in SettingRow}

IsCaps(i) == i \in 1..Len(log) /\ log[i].type = "caps"

SettingsShape ==
    /\ SessionTypeOK
    /\ log \in Seq(SettingsEvent)
    /\ setting \in [Setting -> {NoSetting} \cup SettingRow]
    /\ capability \in {NoCapability} \cup StoredCapability
    /\ capability.seq <= Len(log)
    /\ cached \in {NoCapability, capability}
    /\ clients \cup routing \cup executing \cup shown \cup granted \cup readBack \subseteq Rows
    /\ \A c \in Rows : setting[c].writer \in 1..live /\ setting[c].seq <= Len(log)
    /\ replay \subseteq unacked /\ \A i \in unacked : IsCaps(i)
    /\ unrecovered \in BOOLEAN

\* The capability being published is in the log, its Adapter is the last one that
\* said hello (a hello waits for the publication), and from its publication to
\* the end of the recovery it is the one in the row and in the cache.
PublicationOK ==
    /\ publication \in Publication
    /\ publication.step = "none" => publication = NoPublication
    /\ publication.step # "none" =>
          /\ publication.w = live /\ live > 0
          /\ IsCaps(publication.seq) /\ publication.seq \notin replay
    /\ publication.step = "recover" => capability = Published /\ cached = Published

\* Capabilities are in the log in the order of their writers, and a report that
\* is still due follows a capability of its own Adapter, newer than its request.
ReadingsOK ==
    /\ \A i, j \in 1..Len(log) : IsCaps(i) /\ IsCaps(j) /\ i <= j => log[i].writer <= log[j].writer
    /\ \A i \in 1..Len(log) : IsCaps(i) => log[i].writer <= live
    /\ \A c \in readBack : \E i \in 1..Len(log) :
          IsCaps(i) /\ i > setting[c].seq /\ log[i].writer = setting[c].writer

Ended(c) ==
    IF setting[c].status \in SettingsTerminal
    THEN /\ EffectiveEvents(c) = {setting[c].end}
         /\ log[setting[c].end].outcome = setting[c].status
    ELSE EffectiveEvents(c) = {}

\* Position m is the last capability up to position n.
LastCaps(m, n) == IsCaps(m) /\ \A i \in (m + 1)..n : log[i].type # "caps"

\* The settings at position m are what request c was applied with.
ReadAt(c, m) ==
    LET s == setting[c]
    IN  /\ LastCaps(m, s.end) /\ m > s.seq /\ log[m].writer = s.writer
        /\ log[s.end].eff = log[m].eff
        /\ \A k \in DOMAIN s.req.want : log[m].eff[k] = s.req.want[k]
        /\ \A k \in DOMAIN s.eff \ DOMAIN s.req.want : log[m].eff[k] = s.eff[k]

ReadBackBy(c) ==
    setting[c].status = "applied" => \E m \in 1..setting[c].end : ReadAt(c, m)

Unadopted(c) ==
    setting[c].status \in {"applied", "mismatched_effective"} =>
        \A i \in 1..setting[c].end : log[i].type = "caps" => log[i].writer <= setting[c].writer

RowsOK == \A c \in Setting : Ended(c) /\ ReadBackBy(c) /\ Unadopted(c)

Recovered(c) ==
    setting[c].status \in {"pending", "recovery_pending"} /\ cached.seq > setting[c].seq
        => setting[c].writer = cached.writer

RecoveredOK ==
    authorised /\ publication.step # "recover" /\ ~unrecovered => \A c \in Setting : Recovered(c)

SettingsInv ==
    SettingsShape /\ PublicationOK /\ ReadingsOK /\ RowsOK /\ OneUnfinished /\ RecoveredOK
-----------------------------------------------------------------------------
\* How a step may change the log.
LogExtends ==
    /\ log' \in Seq(SettingsEvent) /\ Len(log) \in Nat /\ Len(log') \in Nat
    /\ Len(log) <= Len(log') /\ Len(log') <= MaxLog
    /\ \A i \in 1..Len(log) : log'[i] = log[i]

NewEvents == (Len(log) + 1)..Len(log')

\* What a step leaves of the rows it does not end.
SameRows ==
    /\ setting' \in [Setting -> {NoSetting} \cup SettingRow] /\ Rows \subseteq Rows'
    /\ \A c \in Rows : setting'[c].writer = setting[c].writer /\ setting'[c].seq = setting[c].seq

LEMMA Unchanged ==
    ASSUME SettingsShape, UNCHANGED log
    PROVE  LogExtends /\ NewEvents = {}
    BY LedgerBounds DEF SettingsShape, LogExtends, SessionTypeOK, Room, NewEvents

LEMMA Appends ==
    ASSUME SettingsShape, NEW e \in SettingsEvent, Room(1), log' = Append(log, e)
    PROVE  /\ LogExtends /\ Len(log') = Len(log) + 1 /\ log'[Len(log) + 1] = e
           /\ NewEvents = {Len(log) + 1}
<1>1. log \in Seq(SettingsEvent) /\ Len(log) \in Nat
    BY DEF SettingsShape
<1>2. /\ log' \in Seq(SettingsEvent) /\ Len(log') = Len(log) + 1 /\ log'[Len(log) + 1] = e
      /\ \A i \in 1..Len(log) : log'[i] = log[i]
    BY <1>1
<1> QED
    BY <1>1, <1>2, LedgerBounds DEF LogExtends, Room, NewEvents

LEMMA CapsKept ==
    ASSUME LogExtends, NEW i, IsCaps(i)
    PROVE  IsCaps(i)' /\ log'[i] = log[i]
<1>1. i \in 1..Len(log')
    BY DEF LogExtends, IsCaps
<1> QED
    BY Zenon, <1>1 DEF LogExtends, IsCaps

\* What a longer log shows of a row that did not end.
LEMMA RowKept ==
    ASSUME SettingsShape, LogExtends, NEW c \in Setting, Ended(c), ReadBackBy(c), Unadopted(c),
           \/ setting'[c] = setting[c]
           \/ setting[c].status \notin SettingsTerminal /\ setting'[c].status \notin SettingsTerminal,
           \A i \in NewEvents : ~(log'[i].type = "effective" /\ log'[i].cmd = c)
    PROVE  Ended(c)' /\ ReadBackBy(c)' /\ Unadopted(c)'
<1> DEFINE s == setting[c]
<1>0. DOMAIN log = 1..Len(log) /\ DOMAIN log' = 1..Len(log')
    BY DEF SettingsShape, LogExtends
<1>1. \A i \in 1..Len(log') : i \in 1..Len(log) \/ i \in NewEvents
    BY DEF LogExtends, NewEvents
<1>2. \A i \in 1..Len(log) : i \in 1..Len(log') /\ log'[i] = log[i]
    BY DEF LogExtends
<1>3. EffectiveEvents(c)' = EffectiveEvents(c) /\ EffectiveEvents(c) \subseteq 1..Len(log)
    BY Zenon, <1>0, <1>1, <1>2 DEF EffectiveEvents
<1>4. CASE s.status \notin SettingsTerminal
  <2>1. setting'[c].status \notin SettingsTerminal
      BY Zenon, <1>4
  <2>2. {"applied", "mismatched_effective"} \subseteq SettingsTerminal
      BY Zenon DEF SettingsTerminal
  <2> QED
      BY Zenon, <1>3, <1>4, <2>1, <2>2 DEF Ended, ReadBackBy, Unadopted
<1>5. CASE s.status \in SettingsTerminal
  <2>1. setting'[c] = s /\ s.end \in 1..Len(log)
      BY Zenon, <1>3, <1>5 DEF Ended
  <2>2. \A i \in 1..s.end : i \in 1..Len(log)
      BY <2>1
  <2>3. Ended(c)'
      BY Zenon, <1>2, <1>3, <1>5, <2>1 DEF Ended
  <2>4. Unadopted(c)'
      BY Zenon, <1>2, <2>1, <2>2 DEF Unadopted
  <2>5. ASSUME NEW m \in 1..s.end, ReadAt(c, m)
        PROVE  ReadAt(c, m)'
    <3>1. \A i \in (m + 1)..s.end : i \in 1..Len(log)
        BY <2>1
    <3>2. IsCaps(m) /\ \A i \in (m + 1)..s.end : log[i].type # "caps"
        BY Zenon, <2>5 DEF ReadAt, LastCaps
    <3>3. IsCaps(m)' /\ log'[m] = log[m] /\ log'[s.end] = log[s.end]
        BY Zenon, <1>2, <2>1, <3>2, CapsKept
    <3> QED
        BY Zenon, <1>2, <2>1, <2>5, <3>1, <3>2, <3>3 DEF ReadAt, LastCaps
  <2>6. ReadBackBy(c)'
      BY Zenon, <2>1, <2>5 DEF ReadBackBy
  <2> QED
      BY Zenon, <2>3, <2>4, <2>6
<1> QED
    BY Zenon, <1>4, <1>5

\* The compare-and-swap of a row with its effective event.
LEMMA Finalized ==
    ASSUME SettingsShape, RowsOK, OneUnfinished, NEW c \in Waiting, NEW o \in SettingsTerminal,
           NEW eff \in Readback, Finalize(c, o, eff),
           o = "applied" => \E m \in 1..Len(log) :
                /\ LastCaps(m, Len(log)) /\ m > setting[c].seq /\ log[m].writer = setting[c].writer
                /\ eff = log[m].eff
                /\ \A k \in DOMAIN setting[c].req.want : eff[k] = setting[c].req.want[k]
                /\ \A k \in DOMAIN setting[c].eff \ DOMAIN setting[c].req.want : eff[k] = setting[c].eff[k],
           o \in {"applied", "mismatched_effective"} =>
                \A i \in 1..Len(log) : log[i].type = "caps" => log[i].writer <= setting[c].writer
    PROVE  /\ LogExtends /\ \A i \in NewEvents : log'[i].type # "caps"
           /\ SameRows /\ RowsOK' /\ Waiting' = {}
<1> DEFINE s == setting[c]
           n == Len(log) + 1
           e == [type |-> "effective", cmd |-> c, outcome |-> o, eff |-> eff]
<1>0. /\ Len(log) \in Nat /\ log \in Seq(SettingsEvent) /\ n \in Nat
      /\ setting \in [Setting -> {NoSetting} \cup SettingRow]
      /\ c \in Setting /\ s.status \in Nonterminal /\ s \in SettingRow
    BY DEF SettingsShape, Waiting, NoSetting, Nonterminal
<1>1. e \in SettingsEvent /\ e.type = "effective" /\ e.cmd = c /\ e.outcome = o /\ e.eff = eff
    BY Zenon, <1>0 DEF SettingsEvent
<1>2. Room(1) /\ log' = Append(log, e) /\ setting' = [setting EXCEPT ![c].status = o, ![c].end = n]
    BY Zenon DEF Finalize
<1> HIDE DEF e
<1>3. LogExtends /\ Len(log') = n /\ log'[n] = e /\ NewEvents = {n}
    BY Zenon, <1>1, <1>2, Appends
<1>4. /\ \A d \in Setting : d # c => setting'[d] = setting[d]
      /\ setting'[c] = [s EXCEPT !.status = o, !.end = n]
      /\ DOMAIN setting' = Setting /\ setting' = [d \in Setting |-> setting'[d]]
    BY Zenon, <1>0, <1>2
<1>5. /\ setting'[c] \in SettingRow /\ setting'[c].status = o /\ setting'[c].end = n
      /\ setting'[c].writer = s.writer /\ setting'[c].seq = s.seq
      /\ setting'[c].req = s.req /\ setting'[c].eff = s.eff
    BY Zenon, <1>0, <1>4 DEF SettingRow
<1>6. SameRows
  <2>1. \A d \in Setting : setting'[d] \in {NoSetting} \cup SettingRow
      BY Zenon, <1>0, <1>4, <1>5
  <2>2. setting' \in [Setting -> {NoSetting} \cup SettingRow]
      BY Zenon, <1>4, <2>1
  <2> QED
      BY Zenon, <1>4, <1>5, <2>2 DEF SameRows, Rows
<1>7. ASSUME NEW d \in Setting, d # c PROVE Ended(d)' /\ ReadBackBy(d)' /\ Unadopted(d)'
  <2>1. setting'[d] = setting[d] /\ Ended(d) /\ ReadBackBy(d) /\ Unadopted(d)
      BY Zenon, <1>4, <1>7 DEF RowsOK
  <2>2. LogExtends /\ \A i \in NewEvents : ~(log'[i].type = "effective" /\ log'[i].cmd = d)
      BY Zenon, <1>1, <1>3, <1>7
  <2> QED
      BY Zenon, <2>1, <2>2, RowKept
<1>8. n \in 1..n /\ 1..Len(log') = 1..n /\ \A i \in 1..n : i = n \/ i \in 1..Len(log)
    BY <1>0, <1>3
<1>9. \A i \in 1..Len(log) : log'[i] = log[i]
    BY Zenon, <1>3 DEF LogExtends
<1>10. Ended(c)'
  <2>1. EffectiveEvents(c) = {} /\ DOMAIN log = 1..Len(log) /\ DOMAIN log' = 1..n
    <3>1. EffectiveEvents(c) = {}
        BY Zenon, <1>0 DEF RowsOK, Ended, Nonterminal, SettingsTerminal
    <3> QED
        BY <1>0, <1>3, <3>1 DEF LogExtends
  <2>2. EffectiveEvents(c)' = {n}
      BY <1>1, <1>3, <1>8, <1>9, <2>1 DEF EffectiveEvents
  <2> QED
      BY Zenon, <1>1, <1>3, <1>5, <2>2 DEF Ended
<1>11. ReadBackBy(c)'
  <2>1. CASE o = "applied"
    <3>1. PICK m \in 1..Len(log) :
                /\ LastCaps(m, Len(log)) /\ m > s.seq /\ log[m].writer = s.writer
                /\ eff = log[m].eff
                /\ \A k \in DOMAIN s.req.want : eff[k] = s.req.want[k]
                /\ \A k \in DOMAIN s.eff \ DOMAIN s.req.want : eff[k] = s.eff[k]
        BY Zenon, <2>1
    <3>2. m \in 1..n /\ \A i \in (m + 1)..n : i = n \/ (i \in (m + 1)..Len(log) /\ i \in 1..Len(log))
        BY <1>0
    <3>3. IsCaps(m) /\ \A i \in (m + 1)..Len(log) : log[i].type # "caps"
        BY Zenon, <3>1 DEF LastCaps
    <3>4. IsCaps(m)' /\ log'[m] = log[m]
        BY Zenon, <1>3, <3>3, CapsKept
    <3>5. "effective" # "caps"
        OBVIOUS
    <3>6. ASSUME NEW i \in (m + 1)..n PROVE log'[i].type # "caps"
      <4>1. CASE i = n
          BY Zenon, <1>1, <1>3, <3>5, <4>1
      <4>2. CASE i \in (m + 1)..Len(log) /\ i \in 1..Len(log)
          BY Zenon, <1>9, <3>3, <4>2
      <4> QED
          BY Zenon, <3>2, <4>1, <4>2
    <3>7. ReadAt(c, m)'
        BY <1>1, <1>3, <1>5, <3>1, <3>4, <3>6 DEF ReadAt, LastCaps
    <3> QED
        BY Zenon, <1>5, <3>2, <3>7 DEF ReadBackBy
  <2> QED
      BY Zenon, <1>5, <2>1 DEF ReadBackBy
<1>12. Unadopted(c)'
  <2>1. "effective" # "caps"
      OBVIOUS
  <2> QED
      BY <1>1, <1>3, <1>5, <1>8, <1>9, <2>1 DEF Unadopted
<1>13. RowsOK'
    BY Zenon, <1>7, <1>10, <1>11, <1>12 DEF RowsOK
<1>14. Waiting' = {}
  <2>1. o \notin Nonterminal
      BY Zenon DEF Nonterminal, SettingsTerminal
  <2>2. ASSUME NEW d \in Setting PROVE setting'[d].status \notin Nonterminal
    <3>1. CASE d = c
        BY Zenon, <1>5, <2>1, <3>1
    <3>2. CASE d # c
      <4>1. d \notin Waiting
          BY Zenon, <3>2 DEF OneUnfinished
      <4> QED
          BY Zenon, <1>4, <3>2, <4>1 DEF Waiting
    <3> QED
        BY Zenon, <3>1, <3>2
  <2> QED
      BY Zenon, <2>2 DEF Waiting
<1>15. \A i \in NewEvents : log'[i].type # "caps"
    BY Zenon, <1>1, <1>3
<1> QED
    BY Zenon, <1>3, <1>6, <1>13, <1>14, <1>15

LEMMA ReadingsKept ==
    ASSUME SettingsShape, ReadingsOK, LogExtends, \A i \in NewEvents : log'[i].type # "caps",
           SameRows, readBack' \subseteq readBack, live' \in Nat, live <= live'
    PROVE  ReadingsOK'
<1>1. \A i \in 1..Len(log') : i \in 1..Len(log) \/ i \in NewEvents
    BY DEF LogExtends, NewEvents
<1>2. \A i : IsCaps(i)' => IsCaps(i) /\ i \in 1..Len(log) /\ log'[i] = log[i]
    BY Zenon, <1>1 DEF LogExtends, IsCaps
<1>3. \A i, j \in 1..Len(log') : IsCaps(i)' /\ IsCaps(j)' /\ i <= j => log'[i].writer <= log'[j].writer
    BY Zenon, <1>2 DEF ReadingsOK
<1>4. \A i \in 1..Len(log') : IsCaps(i)' => log'[i].writer <= live'
  <2>1. SUFFICES ASSUME NEW i \in 1..Len(log), IsCaps(i), log'[i] = log[i]
                 PROVE  log[i].writer <= live'
      BY Zenon, <1>2
  <2>2. log[i].writer <= live /\ log[i].writer \in Nat
      BY <2>1 DEF ReadingsOK, SettingsShape, SettingsEvent, IsCaps
  <2>3. live \in Nat
      BY LedgerBounds DEF SettingsShape, SessionTypeOK
  <2> QED
      BY <2>2, <2>3
<1>5. ASSUME NEW c \in readBack'
      PROVE  \E i \in 1..Len(log') :
                IsCaps(i)' /\ i > setting'[c].seq /\ log'[i].writer = setting'[c].writer
  <2>1. c \in readBack /\ setting'[c].seq = setting[c].seq /\ setting'[c].writer = setting[c].writer
      BY Zenon, <1>5 DEF SettingsShape, SameRows
  <2>2. PICK i \in 1..Len(log) : IsCaps(i) /\ i > setting[c].seq /\ log[i].writer = setting[c].writer
      BY Zenon, <2>1 DEF ReadingsOK
  <2>3. IsCaps(i)' /\ log'[i] = log[i] /\ i \in 1..Len(log')
      BY Zenon, <2>2, CapsKept DEF IsCaps
  <2> QED
      BY Zenon, <2>1, <2>2, <2>3
<1> QED
    BY Zenon, <1>3, <1>4, <1>5 DEF ReadingsOK

Queued == clients \cup routing \cup executing \cup shown \cup granted \cup readBack

LEMMA ShapeKept ==
    ASSUME SettingsShape, LogExtends, SameRows, SessionTypeOK', live <= live',
           \A c \in Rows' : c \notin Rows => setting'[c].writer \in 1..live' /\ setting'[c].seq <= Len(log'),
           capability' \in {NoCapability} \cup StoredCapability, capability'.seq <= Len(log'),
           cached' \in {NoCapability, capability'}, Queued' \subseteq Rows',
           replay' \subseteq unacked', \A i \in unacked' : IsCaps(i)', unrecovered' \in BOOLEAN
    PROVE  SettingsShape'
<1>1. ASSUME NEW c \in Rows' PROVE setting'[c].writer \in 1..live' /\ setting'[c].seq <= Len(log')
  <2>1. CASE c \in Rows
    <3>1. /\ setting'[c].writer = setting[c].writer /\ setting'[c].seq = setting[c].seq
          /\ setting[c].writer \in 1..live /\ setting[c].seq <= Len(log) /\ setting[c].seq \in Nat
        BY Zenon, <2>1 DEF SameRows, SettingsShape, Rows, SettingRow
    <3>2. live \in Nat /\ live' \in Nat /\ Len(log) \in Nat /\ Len(log') \in Nat /\ Len(log) <= Len(log')
        BY LedgerBounds DEF SettingsShape, SessionTypeOK, LogExtends
    <3> QED
        BY <3>1, <3>2
  <2> QED
      BY Zenon, <2>1
<1> QED
    BY Zenon, <1>1 DEF SettingsShape, LogExtends, SameRows, Queued

\* A step that writes to no ledger.
LEMMA Quiet ==
    ASSUME SettingsInv, UNCHANGED <<log, setting, capability>>, SessionTypeOK', live <= live',
           cached' \in {NoCapability, cached}, Queued' \subseteq Queued, readBack' \subseteq readBack,
           replay' \subseteq unacked', unacked' \subseteq unacked, unrecovered' \in BOOLEAN
    PROVE  /\ SettingsShape' /\ ReadingsOK' /\ RowsOK' /\ OneUnfinished'
           /\ \A c \in Setting : Recovered(c) \/ cached' = NoCapability => Recovered(c)'
<1>1. SettingsShape /\ LogExtends /\ NewEvents = {}
    BY Zenon, Unchanged DEF SettingsInv
<1>2. SameRows
    BY Zenon DEF SettingsInv, SettingsShape, SameRows, Rows
<1>3. Rows' = Rows /\ live' \in Nat /\ live \in Nat /\ capability.seq <= Len(log')
    BY LedgerBounds DEF SettingsInv, SettingsShape, SessionTypeOK, Rows
<1>4. Queued' \subseteq Rows'
    BY Zenon, <1>1, <1>3 DEF SettingsShape, Queued
<1>5. \A i \in unacked' : IsCaps(i)'
    BY Zenon, <1>1, CapsKept DEF SettingsShape
<1>6. cached' \in {NoCapability, capability'} /\ capability' \in {NoCapability} \cup StoredCapability
    BY Zenon, <1>1 DEF SettingsShape
<1>7. SettingsShape'
    BY Zenon, <1>1, <1>2, <1>3, <1>4, <1>5, <1>6, ShapeKept
<1>8. ReadingsOK'
    BY Zenon, <1>1, <1>2, <1>3, ReadingsKept DEF SettingsInv
<1>9. RowsOK'
    BY Zenon, <1>1, RowKept DEF SettingsInv, RowsOK
<1>10. OneUnfinished'
    BY Zenon DEF SettingsInv, OneUnfinished, Waiting
<1>11. ASSUME NEW c \in Setting, Recovered(c) \/ cached' = NoCapability PROVE Recovered(c)'
  <2>1. CASE cached' = cached /\ Recovered(c)
      BY Zenon, <1>11, <2>1 DEF Recovered
  <2>2. CASE cached' = NoCapability
    <3>1. cached'.seq = 0
        BY Zenon, <2>2 DEF NoCapability
    <3>2. setting[c].status \in {"pending", "recovery_pending"} => setting[c].seq \in Nat
        BY <1>1 DEF SettingsShape, NoSetting, SettingRow
    <3>3. \A n \in Nat : ~(0 > n)
        OBVIOUS
    <3> QED
        BY Zenon, <3>1, <3>2, <3>3 DEF Recovered
  <2> QED
      BY Zenon, <1>11, <2>1, <2>2
<1> QED
    BY Zenon, <1>7, <1>8, <1>9, <1>10, <1>11

LEMMA PublicationKept ==
    ASSUME PublicationOK, SettingsShape, LogExtends, UNCHANGED <<publication, live, capability, cached, replay>>
    PROVE  PublicationOK'
<1>1. CASE publication.step = "none"
  <2>1. "none" # "recover"
      OBVIOUS
  <2> QED
      BY Zenon, <1>1, <2>1 DEF PublicationOK
<1>2. CASE publication.step # "none"
  <2>1. IsCaps(publication.seq)' /\ log'[publication.seq] = log[publication.seq]
      BY Zenon, <1>2, CapsKept DEF PublicationOK
  <2>2. Published' = Published
      BY Zenon, <2>1 DEF Published
  <2> QED
      BY Zenon, <1>2, <2>1, <2>2 DEF PublicationOK
<1> QED
    BY Zenon, <1>1, <1>2

LEMMA QuietStep ==
    ASSUME SettingsInv, UNCHANGED <<log, setting, capability>>, SessionTypeOK', live <= live',
           cached' \in {NoCapability, cached}, Queued' \subseteq Queued, readBack' \subseteq readBack,
           replay' \subseteq unacked', unacked' \subseteq unacked,
           PublicationOK', authorised' => authorised, unrecovered' \in BOOLEAN,
           cached' = NoCapability \/ unrecovered' = unrecovered,
           publication.step = "recover" /\ publication'.step # "recover" => cached' = NoCapability
    PROVE  SettingsInv'
<1>1. /\ SettingsShape' /\ ReadingsOK' /\ RowsOK' /\ OneUnfinished'
      /\ \A c \in Setting : Recovered(c) \/ cached' = NoCapability => Recovered(c)'
    BY Zenon, Quiet
<1>2. RecoveredOK'
    BY Zenon, <1>1 DEF SettingsInv, RecoveredOK
<1> QED
    BY Zenon, <1>1, <1>2 DEF SettingsInv

LEMMA SessionFacts ==
    ASSUME SettingsInv
    PROVE  /\ live \in Nat /\ live <= live /\ live \in 0..MaxWriter /\ authorised \in BOOLEAN
           /\ open \subseteq 1..live /\ registered \in {0} \cup open /\ Len(log) \in Nat
           /\ Len(log) <= MaxLog /\ replay \subseteq unacked /\ unrecovered \in BOOLEAN
           /\ SettingsShape /\ PublicationOK
    BY LedgerBounds DEF SettingsInv, SettingsShape, SessionTypeOK, Room

LEMMA NoPublicationOK ==
    ASSUME publication' = NoPublication
    PROVE  PublicationOK' /\ publication'.step = "none"
<1>1. NoPublication \in Publication /\ NoPublication.step = "none" /\ "none" # "recover"
    BY Zenon DEF NoPublication, Publication
<1> QED
    BY Zenon, <1>1 DEF PublicationOK

\* Connections that come and go, and time.
LEMMA ConnectionSteps ==
    ASSUME SettingsInv,
           \/ settingsHello \/ settingsLapse \/ settingsCrash
           \/ \E w \in Writers : settingsDrop(w)
    PROVE  SettingsInv'
<1> USE SessionFacts
<1>0. LogExtends \/ log' # log
    BY Zenon, Unchanged
<1>1. CASE settingsHello
  <2>1. SessionTypeOK' /\ live <= live' /\ (authorised' => authorised)
    <3>1. authorised' \in BOOLEAN /\ (authorised' => authorised)
        BY Zenon, <1>1 DEF settingsHello, acceptHello
    <3>2. /\ live' \in 0..MaxWriter /\ open' \subseteq 1..live' /\ registered' \in {0} \cup open'
          /\ Room(0)' /\ live <= live'
        BY <1>1, LedgerBounds DEF settingsHello, acceptHello, Room
    <3> QED
        BY Zenon, <3>1, <3>2 DEF SessionTypeOK
  <2>2. PublicationOK'
      BY Zenon, <1>1, NoPublicationOK DEF settingsHello
  <2>3. publication'.step = publication.step /\ readBack' = readBack /\ Queued' = Queued
      BY Zenon, <1>1 DEF settingsHello, Queued
  <2> QED
      BY Zenon, <1>1, <2>1, <2>2, <2>3, QuietStep DEF settingsHello
<1>2. CASE settingsLapse
  <2>1. SessionTypeOK' /\ live <= live' /\ authorised
    <3>1. authorised' \in BOOLEAN /\ authorised
        BY Zenon, <1>2 DEF settingsLapse, lapse
    <3> QED
        BY Zenon, <1>2, <3>1 DEF settingsLapse, lapse, settingsVars, SessionTypeOK, SettingsShape, Room
  <2>2. PublicationOK'
      BY Zenon, <1>0, <1>2, PublicationKept DEF settingsLapse, lapse, settingsVars
  <2>3. Queued' = Queued
      BY Zenon, <1>2 DEF settingsLapse, settingsVars, Queued
  <2> QED
      BY Zenon, <1>2, <2>1, <2>2, <2>3, QuietStep DEF settingsLapse, lapse, settingsVars
<1>3. CASE settingsCrash
  <2>1. SessionTypeOK' /\ live <= live' /\ (authorised' => authorised)
      BY <1>3 DEF settingsCrash, crashHub, SessionTypeOK, Room
  <2>2. PublicationOK'
      BY Zenon, <1>3, NoPublicationOK DEF settingsCrash
  <2>3. Queued' \subseteq Queued
      BY Zenon, <1>3 DEF settingsCrash, Queued
  <2> QED
      BY Zenon, <1>3, <2>1, <2>2, <2>3, QuietStep DEF settingsCrash, crashHub
<1>4. ASSUME NEW w \in Writers, settingsDrop(w) PROVE SettingsInv'
  <2>1. SessionTypeOK' /\ live <= live' /\ (authorised' => authorised)
      BY <1>4 DEF settingsDrop, dropConnection, unregister, SessionTypeOK, Room
  <2>2. PublicationOK'
      BY Zenon, <1>0, <1>4, PublicationKept DEF settingsDrop, dropConnection, settingsVars
  <2>3. Queued' = Queued
      BY Zenon, <1>4 DEF settingsDrop, settingsVars, Queued
  <2> QED
      BY Zenon, <1>4, <2>1, <2>2, <2>3, QuietStep DEF settingsDrop, dropConnection, settingsVars
<1> QED
    BY Zenon, <1>1, <1>2, <1>3, <1>4

\* Frames to the Adapter, and the receipt of a capability.
LEMMA FrameSteps ==
    ASSUME SettingsInv,
           receiptCapability \/ \E c \in Setting : routeSettings(c) \/ executeSettings(c)
    PROVE  SettingsInv'
<1> USE SessionFacts
<1>0. LogExtends \/ log' # log
    BY Zenon, Unchanged
<1>1. CASE receiptCapability
  <2>1. SessionTypeOK' /\ live <= live' /\ (authorised' => authorised)
      BY <1>1 DEF receiptCapability, unregister, SessionTypeOK, Room
  <2>2. PublicationOK'
      BY Zenon, <1>1, NoPublicationOK DEF receiptCapability
  <2>3. Queued' = Queued
      BY Zenon, <1>1 DEF receiptCapability, Queued
  <2>4. publication.step # "recover" /\ publication.step # "none"
      BY Zenon, <1>1 DEF receiptCapability
  <2>5. replay' \subseteq unacked' /\ unacked' \subseteq unacked
      BY Zenon, <1>1, <2>4 DEF receiptCapability, PublicationOK
  <2> QED
      BY Zenon, <1>1, <2>1, <2>2, <2>3, <2>4, <2>5, QuietStep DEF receiptCapability
<1>2. ASSUME NEW c \in Setting, routeSettings(c) PROVE SettingsInv'
  <2>1. SessionTypeOK' /\ live <= live' /\ (authorised' => authorised)
      BY <1>2 DEF routeSettings, FrameWritten, FrameFailed, unregister, SessionTypeOK, Room
  <2>2. PublicationOK'
      BY Zenon, <1>0, <1>2, PublicationKept DEF routeSettings
  <2>3. Queued' \subseteq Queued
      BY Zenon, <1>2 DEF routeSettings, FrameWritten, FrameFailed, Queued
  <2> QED
      BY Zenon, <1>2, <2>1, <2>2, <2>3, QuietStep DEF routeSettings
<1>3. ASSUME NEW c \in Setting, executeSettings(c) PROVE SettingsInv'
  <2>1. SessionTypeOK' /\ live <= live' /\ (authorised' => authorised)
      BY <1>3 DEF executeSettings, FrameWritten, FrameFailed, unregister, SessionTypeOK, Room
  <2>2. PublicationOK'
      BY Zenon, <1>0, <1>3, PublicationKept DEF executeSettings
  <2>3. Queued' \subseteq Queued
      BY Zenon, <1>3 DEF executeSettings, FrameWritten, FrameFailed, Queued
  <2> QED
      BY Zenon, <1>3, <2>1, <2>2, <2>3, QuietStep DEF executeSettings
<1> QED
    BY Zenon, <1>1, <1>2, <1>3

\* A step of the capability's own row: nothing else of the ledger moves.
LEMMA PublishStep ==
    ASSUME SettingsInv, PublishSettingsCapability
    PROVE  SettingsInv'
<1> USE SessionFacts
<1>0. LogExtends /\ NewEvents = {}
    BY Zenon, Unchanged DEF PublishSettingsCapability, sessionVars
<1>1. SessionTypeOK' /\ live <= live' /\ (authorised' => authorised) /\ Queued' = Queued
  <2>1. SessionTypeOK'
      BY Zenon DEF PublishSettingsCapability, sessionVars, SettingsShape, SessionTypeOK, Room
  <2> QED
      BY Zenon, <2>1 DEF PublishSettingsCapability, sessionVars, Queued
<1>2. /\ publication \in Publication /\ publication.step = "publish" /\ "publish" # "recover" /\ "publish" # "none"
      /\ publication.w = live /\ live > 0 /\ IsCaps(publication.seq) /\ publication.seq \notin replay
    BY Zenon DEF PublishSettingsCapability, PublicationOK
<1>3. Published' = Published \/ publication' = NoPublication
  <2>1. ASSUME NEW s, publication' = [publication EXCEPT !.step = s]
        PROVE  publication'.w = publication.w /\ publication'.seq = publication.seq
      BY Zenon, <1>2, <2>1 DEF Publication
  <2> QED
      BY Zenon, <2>1 DEF Published, PublishSettingsCapability, advance, sessionVars
<1>4. ASSUME NEW s \in {"recover", "receipt"}, advance(s), s = "recover" => capability' = Published /\ cached' = Published
      PROVE  PublicationOK' /\ publication'.step = s
  <2>1. /\ publication' \in Publication /\ publication'.step = s /\ s # "none"
        /\ publication'.w = publication.w /\ publication'.seq = publication.seq
      BY Zenon, <1>2, <1>4 DEF Publication, advance
  <2>2. IsCaps(publication.seq)' /\ live' = live /\ replay' = replay /\ log' = log
      BY Zenon, <1>2, <2>1 DEF PublishSettingsCapability, sessionVars, IsCaps
  <2>3. Published' = Published
      BY Zenon, <2>1, <2>2 DEF Published
  <2> QED
      BY Zenon, <1>2, <1>4, <2>1, <2>2, <2>3 DEF PublicationOK
<1>5. CASE cached = Published
  <2>1. PublicationOK' /\ cached' = cached /\ capability' = capability
    <3>1. "receipt" # "recover"
        OBVIOUS
    <3> QED
      BY Zenon, <1>4, <1>5, <3>1 DEF PublishSettingsCapability
  <2> QED
      BY Zenon, <1>0, <1>1, <1>2, <2>1, QuietStep DEF PublishSettingsCapability, sessionVars
<1>6. CASE cached # Published /\ ~Live(publication.w)
  <2>1. PublicationOK' /\ cached' = cached /\ capability' = capability
      BY Zenon, <1>6, NoPublicationOK DEF PublishSettingsCapability
  <2> QED
      BY Zenon, <1>0, <1>1, <1>2, <2>1, QuietStep DEF PublishSettingsCapability, sessionVars
<1>7. CASE cached # Published /\ Live(publication.w)
  <2>1. PublicationOK' /\ publication'.step = "recover" /\ cached' = Published /\ capability' = Published
      BY Zenon, <1>4, <1>7 DEF PublishSettingsCapability
  <2>2. Published \in StoredCapability /\ Published.seq <= Len(log) /\ log' = log
    <3>1. log[publication.seq] \in SettingsEvent /\ log[publication.seq].type = "caps" /\ publication.seq \in 1..Len(log)
        BY <1>2 DEF IsCaps, SettingsShape
    <3>2. log[publication.seq].fp \in Fingerprints /\ log[publication.seq].eff \in Readback
        BY Zenon, <3>1 DEF SettingsEvent
    <3>3. publication.w \in Nat /\ publication.seq \in Nat /\ publication.seq <= Len(log)
        BY <1>2, <3>1 DEF Publication
    <3> QED
        BY Zenon, <3>2, <3>3 DEF Published, StoredCapability, PublishSettingsCapability, sessionVars
  <2>3. SameRows /\ Rows' = Rows
      BY Zenon DEF SettingsShape, SameRows, Rows, PublishSettingsCapability
  <2>4. Queued' \subseteq Rows' /\ \A i \in unacked' : IsCaps(i)'
      BY Zenon, <1>0, <1>1, <2>3, CapsKept DEF SettingsShape, Queued, PublishSettingsCapability
  <2>5. SettingsShape'
      BY Zenon, <1>0, <1>1, <2>1, <2>2, <2>3, <2>4, ShapeKept DEF PublishSettingsCapability
  <2>6. ReadingsOK'
      BY Zenon, <1>0, <1>1, <2>3, ReadingsKept DEF SettingsInv, PublishSettingsCapability, sessionVars
  <2>7. RowsOK' /\ OneUnfinished'
      BY Zenon, <1>0, RowKept DEF SettingsInv, RowsOK, OneUnfinished, Waiting, PublishSettingsCapability
  <2>8. RecoveredOK'
      BY Zenon, <2>1 DEF RecoveredOK
  <2> QED
      BY Zenon, <2>1, <2>5, <2>6, <2>7, <2>8 DEF SettingsInv
<1> QED
    BY Zenon, <1>5, <1>6, <1>7

\* A publication that fails before its recovery is done leaves every row as it is.
LEMMA FailStep ==
    ASSUME SettingsInv, capabilityFails
    PROVE  SettingsInv'
<1> USE SessionFacts
<1>1. /\ UNCHANGED <<log, setting, capability, cached, live, authorised, registered, open, readBack, unacked, replay>>
      /\ Queued' = Queued /\ unrecovered' \in BOOLEAN
    BY Zenon DEF capabilityFails, sessionVars, Queued
<1>2. SessionTypeOK'
    BY Zenon, <1>1 DEF SettingsShape, SessionTypeOK, Room
<1>3. /\ SettingsShape' /\ ReadingsOK' /\ RowsOK' /\ OneUnfinished'
      /\ \A c \in Setting : Recovered(c) \/ cached' = NoCapability => Recovered(c)'
    BY Zenon, <1>1, <1>2, Quiet
<1>4. PublicationOK'
    BY Zenon, NoPublicationOK DEF capabilityFails
<1>5. RecoveredOK'
  <2>1. CASE publication.step = "recover" /\ Stale # {}
      BY Zenon, <2>1 DEF capabilityFails, RecoveredOK
  <2>2. CASE publication.step = "recover" /\ Stale = {}
    <3>1. cached = Published /\ {"pending", "recovery_pending"} \subseteq Nonterminal /\ Published.writer = publication.w
        BY Zenon, <2>2 DEF PublicationOK, Nonterminal, Published
    <3>2. \A c \in Setting : Recovered(c)
        BY Zenon, <2>2, <3>1 DEF Stale, Waiting, Recovered
    <3> QED
        BY Zenon, <1>3, <3>2 DEF RecoveredOK
  <2>3. CASE publication.step # "recover"
      BY Zenon, <1>1, <1>3, <2>3 DEF capabilityFails, RecoveredOK, SettingsInv
  <2> QED
      BY Zenon, <2>1, <2>2, <2>3
<1> QED
    BY Zenon, <1>3, <1>4, <1>5 DEF SettingsInv

\* One row is reserved, or takes another status short of a terminal one.
LEMMA RowMoved ==
    ASSUME SettingsShape, RowsOK, OneUnfinished, NEW c \in Setting, NEW r \in SettingRow,
           setting' = [setting EXCEPT ![c] = r], r.status \in Nonterminal,
           setting[c].status \notin SettingsTerminal, c \in Waiting \/ Waiting = {},
           c \in Rows => r.writer = setting[c].writer /\ r.seq = setting[c].seq,
           UNCHANGED log
    PROVE  SameRows /\ RowsOK' /\ OneUnfinished' /\ Rows' \subseteq Rows \cup {c} /\ c \in Rows'
<1>1. LogExtends /\ NewEvents = {}
    BY Zenon, Unchanged
<1>2. /\ \A d \in Setting : d # c => setting'[d] = setting[d]
      /\ setting'[c] = r /\ setting' \in [Setting -> {NoSetting} \cup SettingRow]
    BY Zenon DEF SettingsShape
<1>3. SameRows /\ Rows' \subseteq Rows \cup {c} /\ c \in Rows'
    BY Zenon, <1>2 DEF SameRows, Rows
<1>4. r.status \notin SettingsTerminal
    BY Zenon DEF Nonterminal, SettingsTerminal
<1>5. RowsOK'
  <2>1. ASSUME NEW d \in Setting PROVE Ended(d)' /\ ReadBackBy(d)' /\ Unadopted(d)'
      BY Zenon, <1>1, <1>2, <1>4, RowKept DEF RowsOK
  <2> QED
      BY Zenon, <2>1 DEF RowsOK
<1>6. OneUnfinished'
    BY Zenon, <1>2 DEF OneUnfinished, Waiting
<1> QED
    BY Zenon, <1>3, <1>5, <1>6

\* Such a change outside a publication's own steps.
LEMMA RowStep ==
    ASSUME SettingsInv, NEW c \in Setting, NEW r \in SettingRow,
           setting' = [setting EXCEPT ![c] = r], r.status \in Nonterminal,
           setting[c].status \notin SettingsTerminal, c \in Waiting \/ Waiting = {},
           c \in Rows => r.writer = setting[c].writer /\ r.seq = setting[c].seq,
           r.writer \in 1..live, r.seq <= Len(log), Queued' \subseteq Queued \cup {c},
           UNCHANGED <<sessionVars, capability, cached, readBack, publication, unacked, replay, unrecovered>>,
           /\ authorised /\ publication.step # "recover" /\ ~unrecovered
           /\ r.status \in {"pending", "recovery_pending"} /\ cached.seq > r.seq
           => r.writer = cached.writer
    PROVE  SettingsInv'
<1> USE SessionFacts
<1>1. LogExtends /\ NewEvents = {} /\ UNCHANGED log
    BY Zenon, Unchanged DEF sessionVars
<1>2. SameRows /\ RowsOK' /\ OneUnfinished' /\ Rows' \subseteq Rows \cup {c} /\ c \in Rows'
    BY Zenon, <1>1, RowMoved DEF SettingsInv
<1>3. setting'[c] = r /\ \A d \in Setting : d # c => setting'[d] = setting[d]
    BY Zenon DEF SettingsShape
<1>4. Queued' \subseteq Rows' /\ Rows \subseteq Rows'
    BY Zenon, <1>2 DEF SettingsShape, SameRows, Queued
<1>5. SessionTypeOK' /\ live' = live
    BY Zenon DEF sessionVars, SettingsShape, SessionTypeOK, Room
<1>6. SettingsShape'
  <2>1. \A d \in Rows' : d \notin Rows => setting'[d].writer \in 1..live' /\ setting'[d].seq <= Len(log')
      BY Zenon, <1>1, <1>2, <1>3, <1>5
  <2>2. \A i \in unacked' : IsCaps(i)'
      BY Zenon, <1>1, CapsKept DEF SettingsShape
  <2>3. /\ capability' \in {NoCapability} \cup StoredCapability /\ capability'.seq <= Len(log')
        /\ cached' \in {NoCapability, capability'}
      BY Zenon, <1>1 DEF SettingsShape
  <2> QED
      BY Zenon, <1>1, <1>2, <1>4, <1>5, <2>1, <2>2, <2>3, ShapeKept
<1>7. ReadingsOK'
    BY Zenon, <1>1, <1>2, <1>5, ReadingsKept DEF SettingsInv
<1>8. PublicationOK'
    BY Zenon, <1>1, <1>5, PublicationKept
<1>9. RecoveredOK'
  <2>1. SUFFICES ASSUME authorised, publication.step # "recover", ~unrecovered, NEW d \in Setting
                 PROVE  Recovered(d)'
      BY Zenon DEF RecoveredOK, sessionVars
  <2>2. Recovered(d)
      BY Zenon, <2>1 DEF SettingsInv, RecoveredOK
  <2> QED
      BY Zenon, <1>3, <2>1, <2>2 DEF Recovered
<1> QED
    BY Zenon, <1>2, <1>6, <1>7, <1>8, <1>9 DEF SettingsInv

\* A request is reserved, its delivery confirmed, or its deadline passes.
LEMMA RequestSteps ==
    ASSUME SettingsInv, NEW c \in Setting,
           \/ \E r \in SettingsRequest : handleSettingsChange(c, r)
           \/ \E accepts \in BOOLEAN : handleAdapterCommandAck(c, accepts)
           \/ settingsElapse(c)
    PROVE  SettingsInv'
<1> USE SessionFacts
<1>0. setting[c] \in {NoSetting} \cup SettingRow /\ (c \in Rows <=> setting[c] \in SettingRow)
    BY Zenon DEF SettingsShape, Rows
<1>1. ASSUME NEW r \in SettingsRequest, handleSettingsChange(c, r) PROVE SettingsInv'
  <2> DEFINE row == [status |-> "delivery_pending", writer |-> registered, req |-> r, late |-> FALSE,
                     seq |-> capability.seq, eff |-> capability.eff, end |-> 0]
  <2>1. /\ capability.writer = registered /\ registered > 0 /\ registered = live /\ setting[c] = NoSetting
        /\ Waiting = {} /\ setting' = [setting EXCEPT ![c] = row]
      BY Zenon, <1>1 DEF handleSettingsChange, SettingsCommandReserve, CurrentWriter, Live
  <2>2. capability \in StoredCapability
    <3>1. NoCapability.writer = 0
        BY Zenon DEF NoCapability
    <3>2. registered # 0
        BY <2>1
    <3> QED
        BY Zenon, <2>1, <3>1, <3>2 DEF SettingsShape
  <2>3. row \in SettingRow /\ registered \in 1..live /\ capability.seq <= Len(log)
    <3>1. capability.seq \in Nat /\ capability.eff \in Readback /\ capability.seq <= Len(log) /\ registered \in Nat
        BY Zenon, <2>1, <2>2 DEF StoredCapability, SettingsShape
    <3>2. "delivery_pending" \in Nonterminal \cup SettingsTerminal /\ FALSE \in BOOLEAN /\ 0 \in Nat
        BY Zenon DEF Nonterminal
    <3>3. registered \in 1..live
        BY <2>1, <3>1
    <3> QED
        BY Zenon, <3>1, <3>2, <3>3 DEF SettingRow
  <2>4. /\ row.status \in Nonterminal /\ row.status \notin {"pending", "recovery_pending"}
        /\ row.writer = registered /\ row.seq = capability.seq
      BY Zenon DEF Nonterminal
  <2>5. setting[c].status \notin SettingsTerminal /\ NoSetting \notin SettingRow
      BY <2>1 DEF NoSetting, SettingsTerminal, SettingRow, Nonterminal
  <2>6. Queued' \subseteq Queued \cup {c}
      BY Zenon, <1>1 DEF handleSettingsChange, Queued
  <2> HIDE DEF row
  <2> QED
      BY Zenon, <1>0, <1>1, <2>1, <2>3, <2>4, <2>5, <2>6, RowStep DEF handleSettingsChange
<1>2. ASSUME settingsElapse(c) PROVE SettingsInv'
  <2> DEFINE row == [setting[c] EXCEPT !.late = TRUE]
  <2>1. setting[c].status \in {"delivery_pending", "pending"} /\ setting' = [setting EXCEPT ![c] = row]
      BY Zenon, <1>2 DEF settingsElapse, SettingsShape
  <2>2. setting[c] \in SettingRow /\ setting[c].status \in Nonterminal /\ setting[c].status \notin SettingsTerminal
      BY <1>0, <2>1 DEF NoSetting, Nonterminal, SettingsTerminal
  <2>3. /\ row \in SettingRow /\ row.status = setting[c].status /\ row.writer = setting[c].writer
        /\ row.seq = setting[c].seq
      BY Zenon, <2>2 DEF SettingRow
  <2>4. c \in Waiting /\ setting[c].writer \in 1..live /\ setting[c].seq <= Len(log) /\ Queued' = Queued
      BY Zenon, <1>0, <1>2, <2>2 DEF Waiting, SettingsShape, settingsElapse, Queued
  <2>5. authorised /\ publication.step # "recover" /\ ~unrecovered => Recovered(c)
      BY Zenon DEF SettingsInv, RecoveredOK
  <2> HIDE DEF row
  <2> QED
      BY Zenon, <1>2, <2>1, <2>2, <2>3, <2>4, <2>5, RowStep DEF settingsElapse, Recovered
<1>3. ASSUME NEW accepts \in BOOLEAN, handleAdapterCommandAck(c, accepts) PROVE SettingsInv'
  <2>1. CASE accepts /\ c \in clients /\ registered = setting[c].writer /\ AcknowledgeSettingsCommandDelivery(c)
    <3> DEFINE row == [setting[c] EXCEPT !.status = "pending"]
    <3>1. /\ setting[c].status = "delivery_pending" /\ setting' = [setting EXCEPT ![c] = row]
          /\ capability.writer = setting[c].writer
        BY Zenon, <1>3, <2>1 DEF handleAdapterCommandAck, AcknowledgeSettingsCommandDelivery, CurrentWriter, SettingsShape
    <3>2. setting[c] \in SettingRow /\ setting[c].status \in Nonterminal /\ setting[c].status \notin SettingsTerminal
        BY <1>0, <3>1 DEF NoSetting, Nonterminal, SettingsTerminal
    <3>3. "pending" \in Nonterminal
        BY Zenon DEF Nonterminal
    <3>4. /\ row \in SettingRow /\ row.status = "pending" /\ row.writer = setting[c].writer
          /\ row.seq = setting[c].seq /\ row.seq \in Nat
        BY Zenon, <3>2, <3>3 DEF SettingRow
    <3>5. c \in Waiting /\ setting[c].writer \in 1..live /\ setting[c].seq <= Len(log)
        BY Zenon, <1>0, <3>2 DEF Waiting, SettingsShape
    <3>6. Queued' \subseteq Queued \cup {c}
        BY Zenon, <1>3, <2>1 DEF handleAdapterCommandAck, Queued
    <3>7. cached.seq > row.seq => row.writer = cached.writer
      <4>1. cached.seq > row.seq => cached # NoCapability
          BY <3>4 DEF NoCapability
      <4> QED
          BY Zenon, <3>1, <3>4, <4>1 DEF SettingsShape
    <3> HIDE DEF row
    <3> QED
        BY Zenon, <1>3, <3>1, <3>2, <3>3, <3>4, <3>5, <3>6, <3>7, RowStep DEF handleAdapterCommandAck
  <2>2. CASE ~(accepts /\ c \in clients /\ registered = setting[c].writer /\ AcknowledgeSettingsCommandDelivery(c))
    <3>1. UNCHANGED <<sessionVars, setting, capability, cached, publication, unacked, replay, readBack, unrecovered>>
        BY Zenon, <1>3, <2>2 DEF handleAdapterCommandAck
    <3>2. Queued' \subseteq Queued
        BY Zenon, <1>3, <2>2 DEF handleAdapterCommandAck, Queued
    <3>3. SessionTypeOK'
        BY Zenon, <3>1 DEF sessionVars, SettingsShape, SessionTypeOK, Room
    <3>4. LogExtends
        BY Zenon, <3>1, Unchanged DEF sessionVars
    <3>5. PublicationOK'
        BY Zenon, <3>1, <3>4, PublicationKept DEF sessionVars
    <3> QED
        BY Zenon, <3>1, <3>2, <3>3, <3>5, QuietStep DEF sessionVars
  <2> QED
      BY Zenon, <2>1, <2>2
<1> QED
    BY Zenon, <1>1, <1>2, <1>3

LEMMA LeastOfNat ==
    ASSUME NEW S, S \subseteq Nat, S # {}
    PROVE  Min(S) \in S
<1>1. PICK x \in S : \A y \in S : ~(<<y, x>> \in OpToRel(<, Nat))
    BY Zenon, NatLessThanWellFounded, WFMin
<1>2. ASSUME NEW y \in S, y < x PROVE FALSE
  <2>1. <<y, x>> \in Nat \X Nat /\ <<y, x>>[1] < <<y, x>>[2]
      BY Zenon, <1>2
  <2>2. <<y, x>> \in OpToRel(<, Nat)
      BY Zenon, <2>1 DEF OpToRel
  <2> QED
      BY Zenon, <1>1, <2>2
<1>3. \A y \in S : x <= y
    BY <1>2
<1> QED
    BY Zenon, <1>3 DEF Min

\* A new proposal is the last capability of the log; a repeated one was there before.
LEMMA ProposeStep ==
    ASSUME SettingsInv, NEW w \in Writers, proposeCapability(w)
    PROVE  SettingsInv'
<1> USE SessionFacts
<1>1. /\ w = live /\ live > 0 /\ publication = NoPublication /\ "publish" # "none" /\ "publish" # "recover"
      /\ publication.step # "recover"
    BY Zenon DEF proposeCapability, CanEffect, Live, NoPublication
<1>2. UNCHANGED <<live, authorised, registered, open, capability, cached, setting, clients, routing, executing, shown,
                  unrecovered>>
    BY Zenon DEF proposeCapability
<1>3. CASE UNCHANGED <<log, unacked, granted, readBack>> /\ replay # {}
              /\ publication' = [w |-> w, seq |-> Min(replay), step |-> "publish"] /\ replay' = replay \ {Min(replay)}
  <2>1. Min(replay) \in replay /\ IsCaps(Min(replay))
    <3>1. \A i \in replay : i \in Nat /\ IsCaps(i)
        BY DEF SettingsShape, IsCaps
    <3> QED
        BY Zenon, <1>3, <3>1, LeastOfNat
  <2>2. /\ publication'.w = live' /\ publication'.seq = Min(replay) /\ publication'.step = "publish"
        /\ publication' \in Publication /\ live' > 0
      BY <1>1, <1>2, <1>3, <2>1 DEF Publication, IsCaps
  <2>3. IsCaps(publication.seq)' /\ publication'.seq \notin replay'
      BY Zenon, <1>3, <2>1, <2>2 DEF IsCaps
  <2>4. PublicationOK'
      BY Zenon, <1>1, <2>2, <2>3 DEF PublicationOK
  <2>5. SessionTypeOK' /\ Queued' = Queued /\ replay' \subseteq unacked'
      BY Zenon, <1>2, <1>3 DEF SettingsShape, SessionTypeOK, Room, Queued
  <2> QED
      BY Zenon, <1>1, <1>2, <1>3, <2>4, <2>5, QuietStep
<1>4. CASE /\ Room(2) /\ UNCHANGED replay
           /\ \E done \in SUBSET {c \in granted : setting[c].writer = w /\ Answers(w)} :
                granted' = granted \ done /\ readBack' = readBack \cup done
           /\ \E k \in Capability : log' = Append(log, [type |-> "caps", fp |-> k.fp, eff |-> k.eff, writer |-> w])
           /\ publication' = [w |-> w, seq |-> Len(log) + 1, step |-> "publish"]
           /\ unacked' = unacked \cup {Len(log) + 1}
  <2>0. PICK n \in Nat : n = Len(log) + 1
      OBVIOUS
  <2>1. PICK k \in Capability : log' = Append(log, [type |-> "caps", fp |-> k.fp, eff |-> k.eff, writer |-> w])
      BY Zenon, <1>4
  <2> DEFINE e == [type |-> "caps", fp |-> k.fp, eff |-> k.eff, writer |-> w]
  <2>2. e \in SettingsEvent /\ e.type = "caps" /\ e.writer = w
    <3>1. w \in Nat
        BY Zenon, <1>1
    <3> QED
        BY Zenon, <3>1 DEF SettingsEvent, Fingerprints, Readback
  <2>3. Room(1)
      BY <1>4, LedgerBounds DEF Room
  <2> HIDE DEF e
  <2>4. /\ LogExtends /\ Len(log') = n /\ log'[n] = e /\ NewEvents = {n}
        /\ \A i \in 1..Len(log) : log'[i] = log[i]
      BY Zenon, <2>1, <2>2, <2>3, <2>0, Appends DEF e, LogExtends
  <2>5. n \in Nat /\ n \in 1..n /\ 1..Len(log') = 1..n /\ \A i \in 1..n : i = n \/ i \in 1..Len(log)
      BY <2>0, <2>4
  <2>6. IsCaps(n)' /\ log'[n].writer = live
      BY Zenon, <1>1, <2>2, <2>4, <2>5 DEF IsCaps
  <2>7. \A i : IsCaps(i)' => i = n \/ (IsCaps(i) /\ i \in 1..Len(log) /\ log'[i] = log[i])
      BY Zenon, <2>4, <2>5 DEF IsCaps
  <2>8. PublicationOK'
    <3>1. /\ publication'.w = live' /\ publication'.seq = n /\ publication'.step = "publish"
          /\ publication' \in Publication /\ live' > 0
        BY Zenon, <1>1, <1>2, <1>4, <2>0, <2>5 DEF Publication
    <3>2. IsCaps(publication.seq)'
        BY Zenon, <2>6, <3>1 DEF IsCaps
    <3>3. n \notin replay'
      <4>1. \A i \in replay : i \in 1..Len(log)
          BY Zenon DEF SettingsShape, IsCaps
      <4> QED
          BY <1>4, <2>0, <4>1
    <3> QED
        BY Zenon, <1>1, <3>1, <3>2, <3>3 DEF PublicationOK
  <2>9. SameRows /\ Rows' = Rows /\ RowsOK' /\ OneUnfinished'
    <3>1. SameRows /\ Rows' = Rows /\ OneUnfinished'
        BY Zenon, <1>2 DEF SettingsInv, SettingsShape, SameRows, Rows, OneUnfinished, Waiting
    <3>2. "caps" # "effective"
        OBVIOUS
    <3>3. ASSUME NEW c \in Setting PROVE Ended(c)' /\ ReadBackBy(c)' /\ Unadopted(c)'
        BY Zenon, <1>2, <2>2, <2>4, <3>2, RowKept DEF SettingsInv, RowsOK
    <3> QED
        BY Zenon, <3>1, <3>3 DEF RowsOK
  <2>10. SettingsShape'
    <3>1. SessionTypeOK'
      <4>1. Room(0)'
          BY <2>4, LedgerBounds DEF Room, LogExtends
      <4> QED
          BY Zenon, <1>2, <4>1 DEF SettingsShape, SessionTypeOK
    <3>2. Queued' \subseteq Rows'
        BY Zenon, <1>2, <1>4, <2>9 DEF SettingsShape, Queued
    <3>3. replay' \subseteq unacked' /\ \A i \in unacked' : IsCaps(i)'
        BY Zenon, <1>4, <2>0, <2>4, <2>6, CapsKept DEF SettingsShape
    <3>4. capability' = capability /\ cached' = cached /\ capability.seq <= n
      <4>1. capability.seq \in Nat /\ capability.seq <= Len(log)
          BY DEF SettingsShape, NoCapability, StoredCapability
      <4> QED
          BY <1>2, <2>0, <4>1
    <3>5. cached' \in {NoCapability, capability'} /\ capability' \in {NoCapability} \cup StoredCapability
          /\ capability'.seq <= Len(log')
        BY Zenon, <2>4, <3>4 DEF SettingsShape
    <3> QED
        BY Zenon, <1>2, <2>4, <2>9, <3>1, <3>2, <3>3, <3>5, ShapeKept
  <2>11. ReadingsOK'
    <3>0. \A i : IsCaps(i) => log[i].writer <= live /\ i \in 1..Len(log)
        BY Zenon DEF SettingsInv, ReadingsOK, IsCaps
    <3>1. ASSUME NEW i \in 1..Len(log'), NEW j \in 1..Len(log'), IsCaps(i)', IsCaps(j)', i <= j
          PROVE  log'[i].writer <= log'[j].writer
      <4>1. CASE j = n
          BY Zenon, <2>6, <2>7, <3>0, <3>1, <4>1
      <4>2. CASE j # n
        <5>1. i # n
            BY <2>5, <2>7, <3>1, <4>2
        <5> QED
            BY Zenon, <2>7, <3>1, <4>2, <5>1 DEF SettingsInv, ReadingsOK
      <4> QED
          BY Zenon, <4>1, <4>2
    <3>2. \A i \in 1..Len(log') : IsCaps(i)' => log'[i].writer <= live'
        BY Zenon, <1>2, <2>6, <2>7, <3>0
    <3>3. ASSUME NEW c \in readBack'
          PROVE  \E i \in 1..Len(log') : IsCaps(i)' /\ i > setting'[c].seq /\ log'[i].writer = setting'[c].writer
      <4>1. CASE c \in readBack
        <5>1. PICK i \in 1..Len(log) : IsCaps(i) /\ i > setting[c].seq /\ log[i].writer = setting[c].writer
            BY Zenon, <4>1 DEF SettingsInv, ReadingsOK
        <5>2. IsCaps(i)' /\ log'[i] = log[i] /\ i \in 1..Len(log')
            BY Zenon, <2>4, <5>1, CapsKept DEF IsCaps
        <5> QED
            BY Zenon, <1>2, <5>1, <5>2
      <4>2. CASE c \notin readBack
        <5>1. c \in granted /\ setting[c].writer = live
            BY Zenon, <1>1, <1>4, <3>3, <4>2
        <5>2. c \in Rows
            BY Zenon, <5>1 DEF SettingsShape
        <5>3. setting[c].seq \in Nat /\ setting[c].seq <= Len(log)
            BY Zenon, <5>2 DEF Rows, SettingRow, SettingsShape
        <5>4. n > setting[c].seq
            BY <2>0, <5>3
        <5> QED
            BY Zenon, <1>2, <2>4, <2>5, <2>6, <5>1, <5>4
      <4> QED
          BY Zenon, <4>1, <4>2
    <3> QED
        BY Zenon, <3>1, <3>2, <3>3 DEF ReadingsOK
  <2>12. RecoveredOK'
      BY Zenon, <1>1, <1>2 DEF SettingsInv, RecoveredOK, Recovered
  <2> QED
      BY Zenon, <2>8, <2>9, <2>10, <2>11, <2>12 DEF SettingsInv
<1> QED
    BY Zenon, <1>3, <1>4 DEF proposeCapability

LEMMA ReceiptNext ==
    ASSUME PublicationOK, LogExtends, publication.step # "none", advance("receipt"), UNCHANGED <<live, replay>>
    PROVE  PublicationOK' /\ publication'.step # "recover"
<1>1. /\ publication' \in Publication /\ publication'.step = "receipt"
      /\ publication'.w = publication.w /\ publication'.seq = publication.seq
    BY Zenon DEF PublicationOK, Publication, advance
<1>2. "receipt" # "none" /\ "receipt" # "recover"
    OBVIOUS
<1>3. \A i : IsCaps(i) => IsCaps(i)'
    BY Zenon, CapsKept
<1>4. IsCaps(publication.seq)'
    BY Zenon, <1>1, <1>3 DEF PublicationOK, IsCaps
<1> QED
    BY Zenon, <1>1, <1>2, <1>4 DEF PublicationOK

\* A step that ends the session's only unfinished request.
LEMMA FinalStep ==
    ASSUME SettingsInv, NEW c \in Waiting, NEW o \in SettingsTerminal,
           NEW eff \in Readback, Finalize(c, o, eff),
           o = "applied" => \E m \in 1..Len(log) :
                /\ LastCaps(m, Len(log)) /\ m > setting[c].seq /\ log[m].writer = setting[c].writer
                /\ eff = log[m].eff
                /\ \A k \in DOMAIN setting[c].req.want : eff[k] = setting[c].req.want[k]
                /\ \A k \in DOMAIN setting[c].eff \ DOMAIN setting[c].req.want : eff[k] = setting[c].eff[k],
           o \in {"applied", "mismatched_effective"} =>
                \A i \in 1..Len(log) : log[i].type = "caps" => log[i].writer <= setting[c].writer,
           UNCHANGED <<live, authorised, capability, cached, unacked, replay>>,
           open' \subseteq 1..live, registered' \in {0} \cup open',
           Queued' \subseteq Queued, readBack' \subseteq readBack, LogExtends => PublicationOK',
           unrecovered' \in BOOLEAN
    PROVE  SettingsInv'
<1> USE SessionFacts
<1>1. /\ LogExtends /\ \A i \in NewEvents : log'[i].type # "caps"
      /\ SameRows /\ RowsOK' /\ Waiting' = {}
    BY Zenon, Finalized DEF SettingsInv
<1>2. SessionTypeOK'
  <2>1. Room(0)'
      BY <1>1, LedgerBounds DEF Room, LogExtends
  <2> QED
      BY Zenon, <2>1 DEF SettingsShape, SessionTypeOK
<1>3. Rows \subseteq Rows' /\ Rows' \subseteq Rows /\ Queued' \subseteq Rows'
  <2>1. \A d \in Setting : d # c => setting'[d] = setting[d]
      BY Zenon DEF Finalize, SettingsShape
  <2>2. c \in Rows
      BY DEF Waiting, SettingsShape, Rows, NoSetting, Nonterminal
  <2>3. Rows \subseteq Rows' /\ Rows' \subseteq Rows
      BY Zenon, <1>1, <2>1, <2>2 DEF SameRows, Rows
  <2> QED
      BY Zenon, <2>3 DEF SettingsShape, Queued
<1>4. SettingsShape'
  <2>1. capability.seq <= Len(log')
    <3>1. capability.seq \in Nat /\ capability.seq <= Len(log)
        BY DEF SettingsShape, NoCapability, StoredCapability
    <3>2. Len(log) <= Len(log') /\ Len(log') \in Nat
        BY Zenon, <1>1 DEF LogExtends
    <3> QED
        BY <3>1, <3>2
  <2>2. replay' \subseteq unacked' /\ \A i \in unacked' : IsCaps(i)'
      BY Zenon, <1>1, CapsKept DEF SettingsShape
  <2>3. /\ capability' \in {NoCapability} \cup StoredCapability /\ capability'.seq <= Len(log')
        /\ cached' \in {NoCapability, capability'}
      BY Zenon, <2>1 DEF SettingsShape
  <2> QED
      BY Zenon, <1>1, <1>2, <1>3, <2>2, <2>3, ShapeKept
<1>5. ReadingsOK'
    BY Zenon, <1>1, ReadingsKept DEF SettingsInv
<1>6. OneUnfinished' /\ RecoveredOK'
  <2>1. {"pending", "recovery_pending"} \subseteq Nonterminal
      BY Zenon DEF Nonterminal
  <2>2. \A d \in Setting : setting'[d].status \notin Nonterminal
      BY Zenon, <1>1 DEF Waiting
  <2> QED
      BY Zenon, <1>1, <2>1, <2>2 DEF OneUnfinished, RecoveredOK, Recovered
<1> QED
    BY Zenon, <1>1, <1>4, <1>5, <1>6 DEF SettingsInv

\* The recovery of another writer's request, after a publication.
LEMMA RecoverStep ==
    ASSUME SettingsInv, recoverSettings
    PROVE  SettingsInv'
<1> USE SessionFacts
<1>0. /\ UNCHANGED <<live, authorised, registered, open, capability, cached, clients, routing,
                  executing, shown, granted, readBack, unacked, replay>>
      /\ unrecovered' \in BOOLEAN
    BY Zenon DEF recoverSettings
<1>1. /\ publication.step = "recover" /\ publication.step # "none" /\ publication \in Publication
      /\ capability = Published /\ cached = Published
      /\ publication.w = live /\ live > 0
    BY Zenon DEF recoverSettings, PublicationOK
<1>2. Published.writer = live /\ Published.seq = publication.seq /\ Published \in StoredCapability
  <2>1. Published.writer = live /\ Published.seq = publication.seq
      BY Zenon, <1>1 DEF Published
  <2>2. Published # NoCapability
      BY <1>1, <2>1 DEF NoCapability
  <2> QED
      BY Zenon, <1>1, <2>1, <2>2 DEF SettingsShape
<1>3. /\ Queued' = Queued /\ open' \subseteq 1..live /\ registered' \in {0} \cup open'
      /\ (log' = log => SessionTypeOK')
    BY Zenon, <1>0 DEF Queued, SettingsShape, SessionTypeOK, Room
<1>4. ASSUME UNCHANGED <<log, setting>>, authorised => \A c \in Setting : Recovered(c),
             publication'.step # "recover", PublicationOK'
      PROVE  SettingsInv'
  <2>1. /\ SettingsShape' /\ ReadingsOK' /\ RowsOK' /\ OneUnfinished'
        /\ \A c \in Setting : Recovered(c) \/ cached' = NoCapability => Recovered(c)'
      BY Zenon, <1>0, <1>3, <1>4, Quiet
  <2>2. RecoveredOK'
      BY Zenon, <1>0, <1>4, <2>1 DEF RecoveredOK
  <2> QED
      BY Zenon, <1>4, <2>1, <2>2 DEF SettingsInv
<1>5. ASSUME advance("receipt"), LogExtends PROVE PublicationOK' /\ publication'.step # "recover"
    BY Zenon, <1>0, <1>1, <1>5, ReceiptNext
<1>6. UNCHANGED log => LogExtends
    BY Zenon, Unchanged
<1>7. ASSUME publication' = NoPublication PROVE PublicationOK' /\ publication'.step # "recover"
  <2>1. "none" # "recover"
      OBVIOUS
  <2> QED
      BY Zenon, <1>7, <2>1, NoPublicationOK
<1>8. {"pending", "recovery_pending"} \subseteq Nonterminal
    BY Zenon DEF Nonterminal
<1>9. CASE Stale = {} /\ advance("receipt") /\ UNCHANGED <<log, setting>>
  <2>1. \A c \in Setting : Recovered(c)
      BY Zenon, <1>1, <1>2, <1>8, <1>9 DEF Stale, Waiting, Recovered
  <2> QED
      BY Zenon, <1>4, <1>5, <1>6, <1>9, <2>1
<1>10. ASSUME NEW c \in Stale, rejectUndelivered(c) \/ RecoverSettingsCommand(c) \/ giveUpSettings(c)
       PROVE  SettingsInv'
  <2>1. c \in Waiting /\ c \in Setting /\ setting[c].writer # live
      BY Zenon, <1>1 DEF Stale, Waiting
  <2>2. setting[c] \in SettingRow /\ c \in Rows /\ setting[c].status \notin SettingsTerminal
      BY <2>1 DEF Waiting, SettingsShape, Rows, NoSetting, Nonterminal, SettingsTerminal
  <2>3. setting[c].writer \in 1..live /\ setting[c].seq <= Len(log)
      BY Zenon, <2>2 DEF SettingsShape
  <2>4. ASSUME Recovered(c) PROVE \A d \in Setting : Recovered(d)
    <3>1. ASSUME NEW d \in Setting, d # c PROVE Recovered(d)
        BY Zenon, <1>8, <2>1, <3>1 DEF SettingsInv, OneUnfinished, Waiting, Recovered
    <3> QED
        BY Zenon, <2>4, <3>1
  <2>5. CASE rejectUndelivered(c)
    <3>1. CASE setting[c].late
      <4>1. Finalize(c, "rejected", setting[c].eff) /\ advance("receipt")
          BY Zenon, <2>5, <3>1 DEF rejectUndelivered
      <4>2. setting[c].eff \in Readback
          BY Zenon, <2>2 DEF SettingRow
      <4>3. "rejected" \in SettingsTerminal /\ "rejected" \notin {"applied", "mismatched_effective"} /\ "rejected" # "applied"
          BY Zenon DEF SettingsTerminal
      <4> QED
          BY Zenon, <1>0, <1>3, <1>5, <2>1, <4>1, <4>2, <4>3, FinalStep
    <3>2. CASE ~setting[c].late
      <4>1. UNCHANGED <<log, setting>> /\ advance("receipt")
          BY Zenon, <2>5, <3>2 DEF rejectUndelivered
      <4>2. "delivery_pending" \notin {"pending", "recovery_pending"}
          OBVIOUS
      <4>3. Recovered(c)
          BY Zenon, <2>5, <4>2 DEF rejectUndelivered, Recovered
      <4> QED
          BY Zenon, <1>4, <1>5, <1>6, <2>4, <4>1, <4>3
    <3> QED
        BY Zenon, <3>1, <3>2
  <2>6. CASE RecoverSettingsCommand(c)
    <3>1. CASE setting' = [setting EXCEPT ![c].status = "recovery_pending"] /\ UNCHANGED publication
      <4> DEFINE row == [setting[c] EXCEPT !.status = "recovery_pending"]
      <4>1. setting' = [setting EXCEPT ![c] = row]
          BY Zenon, <2>1, <3>1 DEF SettingsShape
      <4>2. "recovery_pending" \in Nonterminal
          BY Zenon DEF Nonterminal
      <4>3. /\ row \in SettingRow /\ row.status \in Nonterminal
            /\ row.writer = setting[c].writer /\ row.seq = setting[c].seq
          BY Zenon, <2>2, <4>2 DEF SettingRow
      <4>4. UNCHANGED <<sessionVars, unrecovered>> /\ Queued' \subseteq Queued \cup {c}
          BY Zenon, <1>0, <1>3, <2>6, <3>1 DEF RecoverSettingsCommand, sessionVars, recoverSettings
      <4> HIDE DEF row
      <4> QED
          BY Zenon, <1>0, <1>1, <2>1, <2>2, <2>3, <3>1, <4>1, <4>3, <4>4, RowStep
    <3>2. CASE ~(capability.writer # setting[c].writer /\ capability.seq > setting[c].seq /\ Live(capability.writer))
      <4>1. publication' = NoPublication /\ UNCHANGED <<log, setting>>
          BY Zenon, <2>6, <3>2 DEF RecoverSettingsCommand
      <4>2. authorised => Recovered(c)
          BY Zenon, <1>1, <1>2, <2>1, <3>2 DEF Live, Recovered
      <4> QED
          BY Zenon, <1>4, <1>7, <2>4, <4>1, <4>2
    <3> QED
        BY Zenon, <2>6, <3>1, <3>2 DEF RecoverSettingsCommand
  <2>7. CASE giveUpSettings(c)
    <3>1. CASE FinalizeSettingsCommand(c, "recovery_pending", FALSE, "outcome_unknown", Published) /\ advance("receipt")
      <4>1. Finalize(c, "outcome_unknown", Published.eff)
          BY Zenon, <3>1 DEF FinalizeSettingsCommand
      <4>2. Published.eff \in Readback
          BY Zenon, <1>2 DEF StoredCapability
      <4>3. /\ "outcome_unknown" \in SettingsTerminal /\ "outcome_unknown" # "applied"
            /\ "outcome_unknown" \notin {"applied", "mismatched_effective"}
          BY Zenon DEF SettingsTerminal
      <4> QED
          BY Zenon, <1>0, <1>3, <1>5, <2>1, <3>1, <4>1, <4>2, <4>3, FinalStep
    <3>2. CASE /\ ~validateSettingsFinalization(setting[c], Published, FALSE, "outcome_unknown")
               /\ publication' = NoPublication
               /\ UNCHANGED <<log, setting>>
      <4>1. "outcome_unknown" # "applied"
          OBVIOUS
      <4>2. Recovered(c)
          BY Zenon, <1>1, <1>2, <2>1, <2>7, <3>2, <4>1 DEF validateSettingsFinalization, giveUpSettings, Recovered
      <4> QED
          BY Zenon, <1>4, <1>7, <2>4, <3>2, <4>2
    <3> QED
        BY Zenon, <2>7, <3>1, <3>2 DEF giveUpSettings
  <2> QED
      BY Zenon, <1>10, <2>5, <2>6, <2>7
<1> QED
    BY Zenon, <1>9, <1>10 DEF recoverSettings

LEMMA Greatest ==
    ASSUME NEW n \in Nat, NEW S, S \subseteq 1..n, S # {}
    PROVE  \E x \in S : \A y \in S : y <= x
<1> DEFINE T == {n - y : y \in S}
<1>1. T \subseteq Nat /\ T # {}
  <2>1. \A y \in S : n - y \in Nat
      OBVIOUS
  <2> QED
      BY Zenon, <2>1
<1>2. PICK t \in T : \A u \in T : ~(<<u, t>> \in OpToRel(<, Nat))
  <2> HIDE DEF T
  <2> QED
    BY Zenon, <1>1, NatLessThanWellFounded, WFMin
<1>3. PICK x \in S : t = n - x
    BY Zenon, <1>2
<1>4. ASSUME NEW y \in S, ~(y <= x) PROVE FALSE
  <2>1. n - y \in T
      BY Zenon
  <2>2. <<n - y, t>> \in Nat \X Nat /\ <<n - y, t>>[1] < <<n - y, t>>[2]
      BY <1>3, <1>4
  <2>3. <<n - y, t>> \in OpToRel(<, Nat)
      BY Zenon, <2>2 DEF OpToRel
  <2> QED
      BY Zenon, <1>2, <2>1, <2>3
<1> QED
    BY Zenon, <1>4

\* The Adapter's report ends its request with what it read back.
LEMMA ReportStep ==
    ASSUME SettingsInv, NEW c \in Setting, NEW report \in SettingsReport, finalizeSettingsEffective(c, report)
    PROVE  SettingsInv'
<1> USE SessionFacts
<1> DEFINE s == setting[c]
           w == s.writer
           hits == {i \in DOMAIN log : log[i].type = "caps" /\ log[i].writer = w}
           p == LastEvent(LAMBDA e : e.type = "caps" /\ e.writer = w)
           outcome == settingsFinalizationOutcome(s, cached, report)
<1>1. /\ c \in readBack /\ publication = NoPublication /\ readBack' \subseteq readBack
      /\ UNCHANGED <<live, authorised, capability, cached, clients, routing, executing, shown,
                     granted, publication, unacked, replay, unrecovered>>
    BY Zenon DEF finalizeSettingsEffective
<1>2. Queued' \subseteq Queued /\ open' \subseteq 1..live /\ registered' \in {0} \cup open'
  <2>1. Queued' \subseteq Queued
      BY Zenon, <1>1 DEF Queued
  <2>2. UNCHANGED <<registered, open>> \/ (unregister(w) /\ open' = open \ {w})
      BY Zenon DEF finalizeSettingsEffective
  <2> QED
      BY Zenon, <2>1, <2>2 DEF unregister
<1>3. LogExtends => PublicationOK'
    BY Zenon, <1>1, NoPublicationOK
<1>4. CASE UNCHANGED <<log, setting>>
  <2>1. LogExtends
      BY Zenon, <1>4, Unchanged
  <2>2. SessionTypeOK'
      BY Zenon, <1>1, <1>2, <1>4 DEF SettingsShape, SessionTypeOK, Room
  <2> QED
      BY Zenon, <1>1, <1>2, <1>3, <1>4, <2>1, <2>2, QuietStep
<1>5. CASE /\ cached.writer = w /\ cached.fp = log[p].fp /\ cached.eff = log[p].eff
           /\ FinalizeSettingsCommand(c, "pending", TRUE, outcome, cached)
  <2>1. /\ s.status = "pending" /\ w > 0 /\ w = live /\ capability = cached /\ cached.writer = w
        /\ validateSettingsFinalization(s, cached, TRUE, outcome) /\ Finalize(c, outcome, cached.eff)
      BY Zenon, <1>5 DEF FinalizeSettingsCommand, MayFinalize, CurrentWriter, Live
  <2>2. c \in Waiting /\ s \in SettingRow
      BY <2>1 DEF Waiting, SettingsShape, NoSetting, Nonterminal
  <2>3. cached \in StoredCapability /\ cached.eff \in Readback
    <3>1. cached # NoCapability
        BY <2>1 DEF NoCapability
    <3> QED
        BY Zenon, <2>1, <3>1 DEF SettingsShape, StoredCapability
  <2>4. outcome \in SettingsTerminal
      BY Zenon DEF settingsFinalizationOutcome, SettingsReport, SettingsTerminal
  <2>5. DOMAIN log = 1..Len(log) /\ hits \subseteq 1..Len(log) /\ \A i \in hits : IsCaps(i) /\ log[i].writer = w
      BY DEF SettingsShape, IsCaps
  <2>6. PICK i \in 1..Len(log) : IsCaps(i) /\ i > s.seq /\ log[i].writer = w
      BY Zenon, <1>1 DEF SettingsInv, ReadingsOK
  <2>7. i \in hits
      BY Zenon, <2>5, <2>6 DEF IsCaps
  <2>8. p \in hits /\ \A j \in hits : j <= p
    <3>1. \E x \in hits : \A j \in hits : j <= x
      <4> HIDE DEF hits
      <4> QED
        BY Zenon, <2>5, <2>7, Greatest
    <3>2. p = CHOOSE x \in hits : \A j \in hits : j <= x
        BY Zenon, <2>7 DEF LastEvent
    <3> HIDE DEF hits, p
    <3> QED
        BY Zenon, <3>1, <3>2
  <2> HIDE DEF hits, p, outcome
  <2>9. \A j \in 1..Len(log) : IsCaps(j) => log[j].writer <= w
      BY Zenon, <2>1 DEF SettingsInv, ReadingsOK
  <2>10. p \in 1..Len(log) /\ LastCaps(p, Len(log)) /\ p > s.seq /\ log[p].writer = w
    <3>1. p \in 1..Len(log) /\ IsCaps(p) /\ log[p].writer = w /\ i <= p
        BY Zenon, <2>5, <2>7, <2>8
    <3>2. p > s.seq
      <4>1. s.seq \in Nat
          BY Zenon, <2>2 DEF SettingRow
      <4> QED
          BY <2>6, <3>1, <4>1
    <3>3. ASSUME NEW j \in (p + 1)..Len(log), log[j].type = "caps" PROVE FALSE
      <4>1. j \in 1..Len(log) /\ p <= j /\ ~(j <= p)
          BY <3>1
      <4>2. IsCaps(j) /\ log[j].writer <= w /\ w <= log[j].writer
          BY Zenon, <2>9, <3>1, <3>3, <4>1 DEF IsCaps, SettingsInv, ReadingsOK
      <4>3. log[j].writer \in Nat /\ w \in Nat
          BY <2>1, <3>3, <4>1 DEF SettingsShape, SettingsEvent
      <4>4. log[j].writer = w
          BY <4>2, <4>3
      <4>5. j \in hits
          BY Zenon, <2>5, <3>3, <4>1, <4>4 DEF hits
      <4> QED
          BY Zenon, <2>8, <4>1, <4>5
    <3> QED
        BY Zenon, <3>1, <3>2, <3>3 DEF LastCaps
  <2>11. ASSUME outcome = "applied"
         PROVE  /\ \A k \in DOMAIN s.req.want : cached.eff[k] = s.req.want[k]
                /\ \A k \in DOMAIN s.eff \ DOMAIN s.req.want : cached.eff[k] = s.eff[k]
    <3>1. Fulfils(cached.eff, s)
        BY Zenon, <2>1, <2>11 DEF validateSettingsFinalization
    <3>2. s.eff \in Readback /\ s.req \in SettingsRequest
        BY Zenon, <2>2 DEF SettingRow
    <3>3. DOMAIN s.eff = DOMAIN cached.eff /\ DOMAIN s.req.want \subseteq DOMAIN cached.eff
        BY Zenon, <2>3, <3>2, SettingsConstants DEF Readback
    <3> QED
        BY Zenon, <3>1, <3>3 DEF Fulfils
  <2>12. \A j \in 1..Len(log) : log[j].type = "caps" => log[j].writer <= w
      BY Zenon, <2>9 DEF IsCaps
  <2>13. cached.eff = log[p].eff
      BY Zenon, <1>5
  <2> QED
      BY Zenon, <1>1, <1>2, <1>3, <2>1, <2>2, <2>3, <2>4, <2>10, <2>11, <2>12, <2>13, FinalStep
<1> QED
    BY Zenon, <1>4, <1>5 DEF finalizeSettingsEffective

-----------------------------------------------------------------------------
LEMMA SettingsStart == SettingsInit => SettingsInv
<1> SUFFICES ASSUME SettingsInit PROVE SettingsInv
    OBVIOUS
<1>1. /\ log = <<>> /\ Len(log) = 0 /\ live = 0 /\ authorised = TRUE
      /\ setting = [c \in Setting |-> NoSetting] /\ publication = NoPublication
      /\ capability = NoCapability /\ cached = NoCapability
    BY Zenon DEF SettingsInit, SessionInit
<1>2. /\ NoSetting \notin SettingRow /\ NoSetting.status = "none" /\ "none" \notin SettingsTerminal
      /\ "none" \notin Nonterminal /\ "none" \notin {"pending", "recovery_pending"}
      /\ "none" \notin {"applied", "mismatched_effective"} /\ "none" # "applied"
    BY Zenon DEF NoSetting, SettingRow, SettingsTerminal, Nonterminal
<1>3. \A c \in Setting : setting[c] = NoSetting
    BY Zenon, <1>1
<1>4. SessionTypeOK
    BY LedgerBounds, <1>1 DEF SettingsInit, SessionInit, SessionTypeOK, Room
<1>5. Rows = {} /\ Waiting = {}
    BY Zenon, <1>2, <1>3 DEF Rows, Waiting
<1>6. SettingsShape
  <2>1. log \in Seq(SettingsEvent) /\ capability.seq <= Len(log)
      BY <1>1 DEF NoCapability
  <2>2. setting \in [Setting -> {NoSetting} \cup SettingRow]
      BY Zenon, <1>1
  <2> QED
      BY Zenon, <1>1, <1>4, <1>5, <2>1, <2>2 DEF SettingsInit, SettingsShape
<1>7. PublicationOK
    BY Zenon, <1>1 DEF PublicationOK, NoPublication, Publication
<1>8. \A i : ~IsCaps(i)
    BY <1>1 DEF IsCaps
<1>9. ReadingsOK
    BY Zenon, <1>8 DEF ReadingsOK, SettingsInit
<1>10. RowsOK
  <2>1. \A c \in Setting : EffectiveEvents(c) = {}
      BY <1>1 DEF EffectiveEvents
  <2> QED
      BY Zenon, <1>2, <1>3, <2>1 DEF RowsOK, Ended, ReadBackBy, Unadopted
<1>11. OneUnfinished /\ RecoveredOK
    BY Zenon, <1>2, <1>3, <1>5 DEF OneUnfinished, RecoveredOK, Recovered
<1> QED
    BY Zenon, <1>6, <1>7, <1>9, <1>10, <1>11 DEF SettingsInv

LEMMA SettingsStep == SettingsInv /\ [SettingsNext]_allSettingsVars => SettingsInv'
<1> SUFFICES ASSUME SettingsInv, [SettingsNext]_allSettingsVars PROVE SettingsInv'
    OBVIOUS
<1>1. CASE UNCHANGED allSettingsVars
  <2>1. UNCHANGED <<live, authorised, registered, open, log, capability, cached, setting, clients, routing,
                    executing, shown, granted, readBack, publication, unacked, replay, unrecovered>>
      BY Zenon, <1>1 DEF allSettingsVars, sessionVars, settingsVars
  <2>2. LogExtends
      BY Zenon, <2>1, SessionFacts, Unchanged
  <2>3. SessionTypeOK' /\ Queued' = Queued /\ PublicationOK'
      BY Zenon, <2>1, <2>2, SessionFacts, PublicationKept DEF SettingsShape, SessionTypeOK, Room, Queued
  <2> QED
      BY Zenon, <2>1, <2>3, SessionFacts, QuietStep
<1>2. CASE SettingsNext
  <2>1. ASSUME NEW w \in Writers, settingsDrop(w) \/ proposeCapability(w) PROVE SettingsInv'
      BY Zenon, <2>1, ConnectionSteps, ProposeStep
  <2>2. ASSUME NEW c \in Setting,
               \/ \E r \in SettingsRequest : handleSettingsChange(c, r)
               \/ routeSettings(c)
               \/ \E accepts \in BOOLEAN : handleAdapterCommandAck(c, accepts)
               \/ executeSettings(c)
               \/ \E report \in SettingsReport : finalizeSettingsEffective(c, report)
               \/ settingsElapse(c)
        PROVE  SettingsInv'
      BY Zenon, <2>2, RequestSteps, FrameSteps, ReportStep
  <2> QED
      BY Zenon, <1>2, <2>1, <2>2, ConnectionSteps, FrameSteps, PublishStep, FailStep, RecoverStep DEF SettingsNext
<1> QED
    BY Zenon, <1>1, <1>2

\* The ledger keeps its types, one unfinished request at a time, and only known
\* commands in its queues (SettingsTypeOK).
THEOREM SettingsTypes == SettingsSpec => []SettingsTypeOK
<1>1. SettingsInv => SettingsTypeOK
  <2> SUFFICES ASSUME SettingsInv PROVE SettingsTypeOK
      OBVIOUS
  <2>1. SettingsShape /\ PublicationOK /\ Len(log) \in Nat
      BY Zenon, SessionFacts
  <2>2. OneUnfinished
      BY Zenon DEF SettingsInv, OneUnfinished
  <2>3. \A c \in Setting : setting[c].status \in {"none"} \cup Nonterminal \cup SettingsTerminal
      BY <2>1 DEF SettingsShape, NoSetting, SettingRow
  <2>4. {capability.seq, cached.seq} \subseteq 0..Len(log)
      BY <2>1 DEF SettingsShape, NoCapability, StoredCapability
  <2>5. publication.step \in {"none", "publish", "recover", "receipt"}
      BY Zenon, <2>1 DEF PublicationOK, Publication
  <2> QED
      BY Zenon, <2>1, <2>2, <2>3, <2>4, <2>5 DEF SettingsTypeOK, SettingsShape, IsCaps
<1> QED
    BY <1>1, SettingsStart, SettingsStep, PTL DEF SettingsSpec

\* A request's row is terminal exactly when the log holds its effective event, and then
\* one, the one the row names, with the row's outcome: the compare-and-swap of row and
\* event (FinalizeSettingsCommand, RecoverSettingsCommand) never ends a request twice.
THEOREM OneTerminal == SettingsSpec => []SettingsOneTerminal
<1>1. SettingsInv => SettingsOneTerminal
    BY Zenon DEF SettingsInv, RowsOK, Ended, SettingsOneTerminal
<1> QED
    BY <1>1, SettingsStart, SettingsStep, PTL DEF SettingsSpec

\* "applied" is what the request's own Adapter read back after it was reserved, with no
\* other capability in between (validateSettingsFinalization).
THEOREM ReadBackApplied == SettingsSpec => []AppliedIsReadBack
<1>1. SettingsInv => AppliedIsReadBack
  <2> SUFFICES ASSUME SettingsInv, NEW c \in Setting, setting[c].status = "applied"
               PROVE  LET s == setting[c]
                          readings == {i \in 1..s.end : log[i].type = "caps"}
                          last == log[Max(readings)]
                      IN  /\ Max(readings) > s.seq /\ last.writer = s.writer
                          /\ log[s.end].eff = last.eff
                          /\ \A k \in DOMAIN s.req.want : last.eff[k] = s.req.want[k]
                          /\ \A k \in DOMAIN s.eff \ DOMAIN s.req.want : last.eff[k] = s.eff[k]
      BY Zenon DEF AppliedIsReadBack
  <2> DEFINE s == setting[c]
             readings == {i \in 1..s.end : log[i].type = "caps"}
  <2>1. PICK m \in 1..s.end : ReadAt(c, m)
      BY Zenon DEF SettingsInv, RowsOK, ReadBackBy
  <2>2. s.end \in Nat
      BY DEF SettingsInv, SettingsShape, NoSetting, SettingRow
  <2>3. m \in readings /\ \A i \in (m + 1)..s.end : log[i].type # "caps"
      BY Zenon, <2>1 DEF ReadAt, LastCaps, IsCaps
  <2>4. \A i \in readings : i \in Nat /\ i <= m
    <3>1. ASSUME NEW i \in 1..s.end, ~(i <= m) PROVE i \in (m + 1)..s.end
        BY <2>2, <3>1
    <3>2. \A i \in 1..s.end : i \in Nat
        OBVIOUS
    <3> QED
        BY Zenon, <2>3, <3>1, <3>2
  <2> HIDE DEF readings
  <2>5. Max(readings) = m
    <3>1. \A y \in readings : m >= y
        BY Zenon, <2>4
    <3>2. Max(readings) \in readings /\ \A y \in readings : Max(readings) >= y
        BY Zenon, <2>3, <3>1 DEF Max
    <3> QED
        BY <2>3, <2>4, <3>2
  <2> QED
      BY Zenon, <2>1, <2>5 DEF ReadAt, readings
<1> QED
    BY <1>1, SettingsStart, SettingsStep, PTL DEF SettingsSpec

\* A replaced writer's requests end with it: no later writer answers for one, and none is
\* left pending once a later writer's publication is done and its recovery has not failed
\* (commitSettingsCapabilityProposal).
THEOREM EndsWithWriter == SettingsSpec => []RequestsEndWithWriter
<1>1. SettingsInv => RequestsEndWithWriter
  <2> SUFFICES ASSUME SettingsInv PROVE RequestsEndWithWriter
      OBVIOUS
  <2>1. NoAdoption
      BY Zenon DEF SettingsInv, RowsOK, Unadopted, NoAdoption
  <2>2. NoPublication.step # "recover"
      BY Zenon DEF NoPublication
  <2>3. PublishedMeansRecovered
      BY Zenon, <2>2 DEF SettingsInv, RecoveredOK, Recovered, PublishedMeansRecovered
  <2> QED
      BY Zenon, <2>1, <2>3 DEF RequestsEndWithWriter
<1> QED
    BY <1>1, SettingsStart, SettingsStep, PTL DEF SettingsSpec
=============================================================================
