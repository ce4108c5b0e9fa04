-------------------------- MODULE RunControlProofs --------------------------
(***************************************************************************)
(* Proofs, for any run-control commands and capabilities, that the rows of *)
(* RunControlLedger agree with the session's log, that a completed control *)
(* changed the state it was reserved in, and that no Adapter can answer    *)
(* for a control of an earlier one.                                        *)
(***************************************************************************)
EXTENDS RunControlLedger, TLAPS

ControlRow == [status : {"pending", "completed", "rejected", "outcome_unknown"}, op : Operation,
               writer : Nat, cap : Nat, pre : Nat, late : BOOLEAN, end : Nat]

ControlEvent == [type : {"state"}, state : RunState]
                   \cup [type : {"outcome"}, cmd : Control, outcome : Outcome]
                   \cup [type : {"runcaps"}, ops : Supported]

Proposal == [w : Nat, seq : Nat, step : {"none", "publish", "finalize"}]

ControlShape ==
    /\ SessionTypeOK
    /\ log \in Seq(ControlEvent)
    /\ sealed \in BOOLEAN
    /\ control \in [Control -> {NoControl} \cup ControlRow]
    /\ controlStep \in [Control -> {"idle", "route", "recover"}]
    /\ controlClients \cup ordered \subseteq {c \in Control : control[c].writer \in 1..live}
    /\ runCapability.seq \in 0..Len(log)
    /\ proposal \in Proposal
    /\ proposal.seq \in 0..Len(log)
    /\ unreceipted \subseteq {i \in 1..Len(log) : log[i].type = "runcaps"}

\* A sealed outcome waits in the log to end its row.
SealedOutcome ==
    proposal.step = "finalize" =>
        /\ sealed
        /\ log[proposal.seq].type = "outcome" /\ proposal.seq \in 1..Len(log)

\* The session has one pending control, of the live writer.
OneControl ==
    /\ \A c, d \in ControlPending : c = d
    /\ PendingControlIsLive

\* Position m is the latest state of the log, or 0.
StateAt(m) ==
    /\ m = 0 \/ log[m].type = "state"
    /\ \A k \in (m + 1)..Len(log) : log[k].type # "state"

\* What the log shows of command c: how it ended, the state it was reserved in
\* and, when it was completed, that no other state came in between.
Ends(c) ==
    LET r == control[c]
    IN  IF r.status \in Outcome
        THEN /\ r.end \in OutcomeEvents(c)
             /\ log[r.end].outcome = r.status
             /\ sealed \/ OutcomeEvents(c) = {r.end}
        ELSE sealed \/ OutcomeEvents(c) = {}

Begins(c) ==
    LET r == control[c]
    IN  r.status \in {"pending", "completed"} =>
            /\ r.pre \in 1..Len(log) /\ log[r.pre].type = "state"
            /\ validRunControlState(r.op, log[r.pre].state)

Completes(c) ==
    LET r == control[c]
    IN  r.status = "completed" =>
            /\ r.end \in 1..Len(log)
            /\ \A i \in (r.pre + 1)..r.end : log[i].type = "state" => ~sealed /\ i = r.end - 1
            /\ ~sealed => /\ r.end - 1 \in (r.pre + 1)..r.end /\ log[r.end - 1].type = "state"
                          /\ log[r.end - 1].state = completionState(r.op)

ControlInv ==
    /\ ControlShape /\ SealedOutcome /\ OneControl
    /\ \E m \in 0..Len(log) : StateAt(m)
    /\ \A c \in Control : Ends(c) /\ Begins(c) /\ Completes(c)
-----------------------------------------------------------------------------
\* How a step may change the log.
LogExtends ==
    /\ log' \in Seq(ControlEvent) /\ Len(log) \in Nat /\ Len(log') \in Nat
    /\ Len(log) <= Len(log') /\ Len(log') <= MaxLog
    /\ \A i \in 1..Len(log) : log'[i] = log[i]

NewEvents == (Len(log) + 1)..Len(log')

LEMMA Unchanged ==
    ASSUME ControlShape, UNCHANGED log
    PROVE  LogExtends /\ NewEvents = {}
    BY LedgerBounds DEF ControlShape, LogExtends, SessionTypeOK, Room, NewEvents

LEMMA Appends ==
    ASSUME ControlShape, NEW e \in ControlEvent, Room(1), log' = Append(log, e)
    PROVE  /\ LogExtends /\ Len(log') = Len(log) + 1 /\ log'[Len(log) + 1] = e
           /\ NewEvents = {Len(log) + 1}
<1>1. log \in Seq(ControlEvent) /\ Len(log) \in Nat
    BY DEF ControlShape
<1>2. /\ log' \in Seq(ControlEvent) /\ Len(log') = Len(log) + 1 /\ log'[Len(log) + 1] = e
      /\ \A i \in 1..Len(log) : log'[i] = log[i]
    BY <1>1
<1> QED
    BY <1>1, <1>2, LedgerBounds DEF LogExtends, Room, NewEvents

LEMMA AppendsTwo ==
    ASSUME ControlShape, NEW d \in ControlEvent, NEW e \in ControlEvent, Room(2),
           log' = log \o <<d, e>>
    PROVE  /\ LogExtends /\ Len(log') = Len(log) + 2
           /\ log'[Len(log) + 1] = d /\ log'[Len(log) + 2] = e
           /\ NewEvents = {Len(log) + 1, Len(log) + 2}
<1>1. log \in Seq(ControlEvent) /\ Len(log) \in Nat
    BY DEF ControlShape
<1>2. <<d, e>> \in Seq(ControlEvent) /\ Len(<<d, e>>) = 2 /\ <<d, e>>[1] = d /\ <<d, e>>[2] = e
    OBVIOUS
<1>3. /\ log' \in Seq(ControlEvent) /\ Len(log') = Len(log) + 2
      /\ log'[Len(log) + 1] = d /\ log'[Len(log) + 2] = e
      /\ \A i \in 1..Len(log) : log'[i] = log[i]
    BY <1>1, <1>2
<1> QED
    BY <1>1, <1>3, LedgerBounds DEF LogExtends, Room, NewEvents

\* What a longer log shows of a command whose row did not change.
LEMMA RowKept ==
    ASSUME ControlShape, LogExtends, NEW c \in Control, Ends(c), Begins(c), Completes(c),
           control'[c] = control[c], UNCHANGED sealed,
           sealed \/ \A i \in NewEvents : ~(log'[i].type = "outcome" /\ log'[i].cmd = c)
    PROVE  Ends(c)' /\ Begins(c)' /\ Completes(c)'
<1> DEFINE r == control[c]
<1>0. DOMAIN log = 1..Len(log) /\ DOMAIN log' = 1..Len(log')
    BY DEF ControlShape, LogExtends
<1>1. \A i \in 1..Len(log') : i \in 1..Len(log) \/ i \in NewEvents
    BY DEF LogExtends, NewEvents
<1>2. \A i \in 1..Len(log) : i \in 1..Len(log') /\ log'[i] = log[i]
    BY DEF LogExtends
<1>3. OutcomeEvents(c) \subseteq OutcomeEvents(c)' /\ OutcomeEvents(c) \subseteq 1..Len(log)
    BY Zenon, <1>0, <1>2 DEF OutcomeEvents
<1>4. sealed \/ OutcomeEvents(c)' = OutcomeEvents(c)
    BY Zenon, <1>0, <1>1, <1>2 DEF OutcomeEvents
<1>5. Ends(c)'
    BY Zenon, <1>2, <1>3, <1>4 DEF Ends
<1>6. Begins(c)'
    BY Zenon, <1>2 DEF Begins
<1>7. Completes(c)'
  <2>1. CASE r.status = "completed"
    <3>1. r.end \in 1..Len(log) /\ r.pre \in 1..Len(log) /\ Len(log) \in Nat
        BY Zenon, <2>1 DEF Completes, Begins, LogExtends
    <3>2. \A i \in (r.pre + 1)..r.end : i \in 1..Len(log)
        BY <3>1
    <3> QED
        BY Zenon, <1>2, <2>1, <3>1, <3>2 DEF Completes
  <2> QED
      BY Zenon, <2>1 DEF Completes
<1> QED
    BY Zenon, <1>5, <1>6, <1>7

\* What it shows of a row that ends at position q.
LEMMA RowEnds ==
    ASSUME ControlShape, LogExtends, NEW c \in Control, Ends(c), Begins(c),
           control[c].status = "pending", UNCHANGED sealed,
           NEW o \in {"completed", "rejected", "outcome_unknown"}, NEW q \in 1..Len(log'),
           control'[c].status = o, control'[c].end = q,
           control'[c].op = control[c].op, control'[c].pre = control[c].pre,
           log'[q].type = "outcome", log'[q].cmd = c, log'[q].outcome = o,
           sealed \/ /\ q \in NewEvents
                     /\ \A i \in NewEvents : log'[i].type = "outcome" /\ log'[i].cmd = c => i = q,
           o = "completed" => Completes(c)'
    PROVE  Ends(c)' /\ Begins(c)' /\ Completes(c)'
<1>0. DOMAIN log = 1..Len(log) /\ DOMAIN log' = 1..Len(log')
    BY DEF ControlShape, LogExtends
<1>1. \A i \in 1..Len(log') : i \in 1..Len(log) \/ i \in NewEvents
    BY DEF LogExtends, NewEvents
<1>2. \A i \in 1..Len(log) : i \in 1..Len(log') /\ log'[i] = log[i]
    BY DEF LogExtends
<1>3. sealed \/ OutcomeEvents(c) = {}
    BY Zenon DEF Ends, Outcome
<1>4. q \in OutcomeEvents(c)'
    BY Zenon, <1>0 DEF OutcomeEvents
<1>5. sealed \/ OutcomeEvents(c)' = {q}
    BY <1>0, <1>1, <1>2, <1>3, <1>4 DEF OutcomeEvents
<1>6. Ends(c)'
    BY Zenon, <1>4, <1>5 DEF Ends, Outcome
<1>7. Begins(c)'
    BY Zenon, <1>2 DEF Begins
<1>8. Completes(c)'
    BY Zenon DEF Completes
<1> QED
    BY Zenon, <1>6, <1>7, <1>8

\* The latest state.
LEMMA LatestIs ==
    ASSUME ControlShape, NEW m \in 0..Len(log), StateAt(m)
    PROVE  LatestState = m
<1> DEFINE hits == {i \in DOMAIN log : log[i].type = "state"}
<1>0. Len(log) \in Nat /\ DOMAIN log = 1..Len(log)
    BY DEF ControlShape
<1>1. LatestState = IF hits = {} THEN 0 ELSE CHOOSE i \in hits : \A j \in hits : j <= i
    BY Zenon DEF LatestState, LastEvent
<1>2. \A j \in hits : j \in Nat /\ j <= m
    BY <1>0 DEF StateAt
<1>3. CASE m = 0
  <2>1. hits = {}
      BY <1>0, <1>2, <1>3
  <2> QED
      BY Zenon, <1>1, <1>3, <2>1
<1>4. CASE m # 0
  <2>1. m \in hits /\ m \in Nat
      BY <1>0, <1>4 DEF StateAt
  <2> HIDE DEF hits
  <2>2. PICK x : x = CHOOSE i \in hits : \A j \in hits : j <= i
      OBVIOUS
  <2>3. x \in hits /\ \A j \in hits : j <= x
      BY Zenon, <1>2, <2>1, <2>2
  <2>4. x = m
      BY <1>2, <2>1, <2>3
  <2> QED
      BY Zenon, <1>1, <2>1, <2>2, <2>4
<1> QED
    BY Zenon, <1>3, <1>4

LEMMA StateKept ==
    ASSUME ControlShape, LogExtends, NEW m \in 0..Len(log), StateAt(m),
           \A i \in NewEvents : log'[i].type # "state"
    PROVE  StateAt(m)' /\ m \in 0..Len(log')
<1>1. \A k \in (m + 1)..Len(log') : k \in NewEvents \/ (k \in (m + 1)..Len(log) /\ log'[k] = log[k])
    BY DEF LogExtends, NewEvents
<1>2. m = 0 \/ log'[m] = log[m]
    BY DEF LogExtends
<1>3. m \in 0..Len(log')
    BY DEF LogExtends
<1> QED
    BY Zenon, <1>1, <1>2, <1>3 DEF StateAt

LEMMA FunctionSeq ==
    ASSUME NEW S, NEW n \in Nat, NEW t \in [1..n -> S]
    PROVE  t \in Seq(S) /\ Len(t) = n
    OBVIOUS

LEMMA LogConcat ==
    ASSUME log \in Seq(ControlEvent), NEW t \in Seq(ControlEvent), log' = log \o t
    PROVE  /\ log' \in Seq(ControlEvent) /\ Len(log') = Len(log) + Len(t)
           /\ \A i \in 1..Len(log) : log'[i] = log[i]
           /\ \A i \in 1..Len(t) : log'[Len(log) + i] = t[i]
    OBVIOUS

LEMMA OutcomeFields ==
    ASSUME NEW c, NEW o
    PROVE  /\ OutcomeEvent(c, o).type = "outcome" /\ OutcomeEvent(c, o).cmd = c
           /\ OutcomeEvent(c, o).outcome = o
    BY Zenon DEF OutcomeEvent

\* Rows that are given up.
LEMMA GaveUp ==
    ASSUME ControlInv, NEW cs \in SUBSET ControlPending, GiveUp(cs), UNCHANGED sealed
    PROVE  /\ LogExtends /\ \A i \in NewEvents : log'[i].type = "outcome"
           /\ control' \in [Control -> {NoControl} \cup ControlRow]
           /\ \A c \in Control : /\ c \notin cs => control'[c] = control[c]
                                 /\ c \in cs => control'[c].status = "outcome_unknown"
                                 /\ control'[c].writer = control[c].writer
           /\ \A c \in Control : Ends(c)' /\ Begins(c)' /\ Completes(c)'
<1>0. /\ Len(log) \in Nat /\ log \in Seq(ControlEvent) /\ Len(log) <= MaxLog
      /\ control \in [Control -> {NoControl} \cup ControlRow] /\ cs \subseteq Control
      /\ \A c \in cs : control[c].status = "pending"
    BY DEF ControlInv, ControlShape, SessionTypeOK, Room, ControlPending
<1>1. PICK n \in 0..(MaxLog - Len(log)) : \E s \in [1..n -> cs] :
        /\ \A c \in cs : \E i \in 1..n : s[i] = c
        /\ \A i, j \in 1..n : s[i] = s[j] => i = j
        /\ log' = log \o [i \in 1..n |-> OutcomeEvent(s[i], "outcome_unknown")]
        /\ control' = [c \in Control |->
              IF c \in cs
              THEN [control[c] EXCEPT !.status = "outcome_unknown",
                                      !.end = Len(log) + CHOOSE i \in 1..n : s[i] = c]
              ELSE control[c]]
    BY Zenon DEF GiveUp
<1>2. PICK s \in [1..n -> cs] :
        /\ \A c \in cs : \E i \in 1..n : s[i] = c
        /\ \A i, j \in 1..n : s[i] = s[j] => i = j
        /\ log' = log \o [i \in 1..n |-> OutcomeEvent(s[i], "outcome_unknown")]
        /\ control' = [c \in Control |->
              IF c \in cs
              THEN [control[c] EXCEPT !.status = "outcome_unknown",
                                      !.end = Len(log) + CHOOSE i \in 1..n : s[i] = c]
              ELSE control[c]]
    BY Zenon, <1>1
<1> DEFINE t == [i \in 1..n |-> OutcomeEvent(s[i], "outcome_unknown")]
           row(c) == IF c \in cs
                     THEN [control[c] EXCEPT !.status = "outcome_unknown",
                                             !.end = Len(log) + CHOOSE i \in 1..n : s[i] = c]
                     ELSE control[c]
<1>a. /\ \A c \in cs : \E i \in 1..n : s[i] = c
      /\ \A i, j \in 1..n : s[i] = s[j] => i = j
    BY Zenon, <1>2
<1>b. control' = [c \in Control |-> row(c)]
    BY Zenon, <1>2
<1>3. n \in Nat
    BY <1>0, LedgerBounds
<1>4. \A c \in cs : OutcomeEvent(c, "outcome_unknown") \in ControlEvent
    BY Zenon, <1>0 DEF OutcomeEvent, ControlEvent, Outcome
<1>5. t \in Seq(ControlEvent) /\ Len(t) = n /\ \A i \in 1..n : t[i] = OutcomeEvent(s[i], "outcome_unknown")
  <2>1. t \in [1..n -> ControlEvent]
      BY Zenon, <1>4
  <2>2. t \in Seq(ControlEvent) /\ Len(t) = n
      BY <1>3, <2>1, FunctionSeq
  <2> QED
      BY Zenon, <2>2
<1>6. log' = log \o t
    BY Zenon, <1>2
<1> HIDE DEF t
<1>7. /\ log' \in Seq(ControlEvent) /\ Len(log') = Len(log) + n
      /\ \A i \in 1..Len(log) : log'[i] = log[i]
      /\ \A i \in 1..n : log'[Len(log) + i] = t[i]
  <2>1. log \in Seq(ControlEvent) /\ t \in Seq(ControlEvent) /\ Len(t) = n
      BY Zenon, <1>0, <1>5
  <2> QED
      BY Zenon, <1>6, <2>1, LogConcat
<1>8. LogExtends
    BY <1>0, <1>3, <1>7, LedgerBounds DEF LogExtends
<1>9. \A i \in NewEvents : i - Len(log) \in 1..n /\ i = Len(log) + (i - Len(log))
    BY <1>0, <1>3, <1>7 DEF NewEvents
<1>10. \A i \in NewEvents : log'[i] = OutcomeEvent(s[i - Len(log)], "outcome_unknown")
    BY Zenon, <1>5, <1>7, <1>9
<1>11. \A i \in NewEvents : /\ log'[i].type = "outcome" /\ log'[i].outcome = "outcome_unknown"
                            /\ log'[i].cmd = s[i - Len(log)]
    BY <1>10, OutcomeFields
<1>12. ASSUME NEW c \in cs
       PROVE  /\ control'[c] \in ControlRow /\ control'[c].writer = control[c].writer
              /\ control'[c].status = "outcome_unknown"
              /\ Ends(c)' /\ Begins(c)' /\ Completes(c)'
  <2>1. PICK k : k = CHOOSE i \in 1..n : s[i] = c
      OBVIOUS
  <2>2. k \in 1..n /\ s[k] = c
      BY Zenon, <1>a, <2>1
  <2>3. control[c] \in ControlRow /\ c \in Control
      BY <1>0 DEF NoControl
  <2>4. control'[c] = [control[c] EXCEPT !.status = "outcome_unknown", !.end = Len(log) + k]
      BY Zenon, <1>b, <2>1, <2>3
  <2>5. Len(log) + k \in Nat /\ Len(log) + k \in NewEvents /\ Len(log) + k \in 1..Len(log')
      BY <1>0, <1>3, <1>7, <2>2 DEF NewEvents
  <2>6. /\ control'[c] \in ControlRow
        /\ control'[c].status = "outcome_unknown" /\ control'[c].end = Len(log) + k
        /\ control'[c].op = control[c].op /\ control'[c].pre = control[c].pre
        /\ control'[c].writer = control[c].writer
      BY Zenon, <2>3, <2>4, <2>5 DEF ControlRow
  <2>7. /\ log'[Len(log) + k].type = "outcome" /\ log'[Len(log) + k].cmd = c
        /\ log'[Len(log) + k].outcome = "outcome_unknown"
      BY <1>5, <1>7, <2>2, OutcomeFields
  <2>8. \A i \in NewEvents : log'[i].type = "outcome" /\ log'[i].cmd = c => i = Len(log) + k
    <3>1. ASSUME NEW i \in NewEvents, log'[i].cmd = c
          PROVE  i = Len(log) + k
      <4>1. i - Len(log) \in 1..n /\ s[i - Len(log)] = s[k] /\ i = Len(log) + (i - Len(log))
          BY Zenon, <1>9, <1>11, <2>2, <3>1
      <4>2. i - Len(log) = k
          BY Zenon, <1>a, <2>2, <4>1
      <4> QED
          BY Zenon, <4>1, <4>2
    <3> QED
        BY Zenon, <3>1
  <2>9. Ends(c) /\ Begins(c) /\ control[c].status = "pending"
      BY Zenon, <1>0, <2>3 DEF ControlInv
  <2>10. Ends(c)' /\ Begins(c)' /\ Completes(c)'
      BY Zenon, <1>8, <2>3, <2>5, <2>6, <2>7, <2>8, <2>9, RowEnds DEF ControlInv
  <2> QED
      BY Zenon, <2>6, <2>10
<1>13. ASSUME NEW c \in Control, c \notin cs
       PROVE  /\ control'[c] = control[c]
              /\ Ends(c)' /\ Begins(c)' /\ Completes(c)'
  <2>1. control'[c] = control[c]
      BY Zenon, <1>b, <1>13
  <2>2. \A i \in NewEvents : log'[i].cmd # c
    <3>1. \A i \in 1..n : s[i] # c
        BY Zenon, <1>13
    <3> QED
        BY Zenon, <1>9, <1>11, <3>1
  <2> QED
      BY Zenon, <1>8, <2>1, <2>2, RowKept DEF ControlInv
<1>14. control' \in [Control -> {NoControl} \cup ControlRow]
  <2>1. \A c \in Control : control'[c] \in {NoControl} \cup ControlRow
      BY Zenon, <1>0, <1>12, <1>13
  <2>2. control' = [c \in Control |-> control'[c]]
    <3> HIDE DEF row
    <3> QED
        BY Zenon, <1>b
  <2> QED
      BY Zenon, <2>1, <2>2
<1> QED
    BY Zenon, <1>8, <1>11, <1>12, <1>13, <1>14

\* A step that leaves the log and the rows alone.
LEMMA Quiet ==
    ASSUME ControlInv, UNCHANGED <<log, control, sealed, live, runCapability>>,
           ControlShape', SealedOutcome'
    PROVE  ControlInv'
<1>1. LogExtends /\ NewEvents = {}
    BY Zenon, Unchanged DEF ControlInv
<1>2. \A c \in Control : Ends(c)' /\ Begins(c)' /\ Completes(c)'
    BY Zenon, <1>1, RowKept DEF ControlInv
<1>3. \E m \in 0..Len(log') : StateAt(m)'
    BY Zenon, <1>1, StateKept DEF ControlInv
<1>4. OneControl'
    BY Zenon DEF ControlInv, OneControl, ControlPending, PendingControlIsLive
<1> QED
    BY Zenon, <1>2, <1>3, <1>4 DEF ControlInv

\* A step that appends one event and leaves the rows alone.
LEMMA Logged ==
    ASSUME ControlInv, NEW e \in ControlEvent, Room(1), log' = Append(log, e),
           e.type = "outcome" => sealed,
           UNCHANGED <<control, sealed, live, runCapability>>,
           ControlShape', SealedOutcome'
    PROVE  ControlInv'
<1>1. /\ LogExtends /\ Len(log') = Len(log) + 1 /\ log'[Len(log) + 1] = e
      /\ NewEvents = {Len(log) + 1} /\ Len(log) \in Nat
    BY Appends DEF ControlInv, ControlShape
<1>2. \A c \in Control : Ends(c)' /\ Begins(c)' /\ Completes(c)'
    BY Zenon, <1>1, RowKept DEF ControlInv
<1>3. \E m \in 0..Len(log') : StateAt(m)'
  <2>1. CASE e.type = "state"
    <3>1. PICK k \in Nat : k = Len(log) + 1
        BY <1>1
    <3>2. StateAt(k)'
        BY <1>1, <2>1, <3>1 DEF StateAt
    <3> QED
        BY <1>1, <3>1, <3>2
  <2>2. CASE e.type # "state"
      BY Zenon, <1>1, <2>2, StateKept DEF ControlInv
  <2> QED
      BY Zenon, <2>1, <2>2
<1>4. OneControl'
    BY Zenon DEF ControlInv, OneControl, ControlPending, PendingControlIsLive
<1> QED
    BY Zenon, <1>2, <1>3, <1>4 DEF ControlInv

\* What an Adapter may do needs the live writer's registration.
LEMMA Proposer ==
    ASSUME ControlInv, NEW w, CanPropose(w)
    PROVE  w \in Nat /\ w = live /\ w \in open /\ authorised /\ registered = w /\ proposal.step = "none"
    BY LedgerBounds DEF ControlInv, ControlShape, SessionTypeOK, CanPropose, CanEffect, Live, NoProposal

LEMMA StateStep ==
    ASSUME ControlInv, NEW w \in Writers, NEW s \in RunState, proposeState(w, s)
    PROVE  ControlInv'
<1> DEFINE e == StateEvent(s)
<1>1. e \in ControlEvent /\ e.type = "state"
    BY Zenon DEF StateEvent, ControlEvent
<1>2. /\ Room(1) /\ log' = Append(log, e) /\ authorised' \in BOOLEAN
      /\ UNCHANGED <<live, registered, open, controlVars>>
    BY Zenon DEF proposeState
<1> HIDE DEF e
<1>3. /\ LogExtends /\ Len(log') = Len(log) + 1 /\ Len(log) \in Nat
    BY <1>1, <1>2, Appends DEF ControlInv, ControlShape
<1>4. ControlShape'
    BY <1>2, <1>3 DEF ControlInv, ControlShape, LogExtends, SessionTypeOK, Room, controlVars
<1>5. SealedOutcome'
    BY <1>2, <1>3 DEF ControlInv, ControlShape, SealedOutcome, LogExtends, controlVars, Proposal
<1> QED
    BY Zenon, <1>1, <1>2, <1>4, <1>5, Logged DEF controlVars

LEMMA CapabilityStep ==
    ASSUME ControlInv, NEW w \in Writers, NEW ops \in Supported, proposeRunCapability(w, ops)
    PROVE  ControlInv'
<1>0. w \in Nat /\ UNCHANGED <<live, authorised, registered, open, sealed, runCapability, control,
                              controlClients, controlStep, ordered>>
    BY Zenon, Proposer DEF proposeRunCapability
<1>1. CASE /\ Room(1)
           /\ log' = Append(log, [type |-> "runcaps", ops |-> ops])
           /\ proposal' = [w |-> w, seq |-> Len(log) + 1, step |-> "publish"]
           /\ unreceipted' = unreceipted \cup {Len(log) + 1}
  <2> DEFINE e == [type |-> "runcaps", ops |-> ops]
  <2>1. e \in ControlEvent /\ e.type = "runcaps"
      BY Zenon DEF ControlEvent
  <2>2. log' = Append(log, e) /\ Room(1)
      BY Zenon, <1>1
  <2> HIDE DEF e
  <2>3. /\ LogExtends /\ Len(log') = Len(log) + 1 /\ Len(log) \in Nat /\ log'[Len(log) + 1] = e
      BY <2>1, <2>2, Appends DEF ControlInv, ControlShape
  <2>4. proposal' \in Proposal /\ proposal'.step = "publish" /\ proposal'.seq = Len(log) + 1
    <3>1. proposal' = [w |-> w, seq |-> Len(log) + 1, step |-> "publish"]
        BY Zenon, <1>1
    <3>2. Len(log) + 1 \in Nat
        BY <2>3
    <3> QED
        BY Zenon, <1>0, <3>1, <3>2 DEF Proposal
  <2>5. unreceipted' \subseteq {i \in 1..Len(log') : log'[i].type = "runcaps"}
    <3>1. unreceipted' = unreceipted \cup {Len(log) + 1}
        BY Zenon, <1>1
    <3>2. \A i \in unreceipted : i \in 1..Len(log') /\ log'[i].type = "runcaps"
        BY <2>3 DEF ControlInv, ControlShape, LogExtends
    <3> QED
        BY <2>1, <2>3, <3>1, <3>2
  <2>6. ControlShape'
      BY <1>0, <2>3, <2>4, <2>5 DEF ControlInv, ControlShape, LogExtends, SessionTypeOK, Room
  <2>7. SealedOutcome'
      BY Zenon, <2>4 DEF SealedOutcome
  <2> QED
      BY Zenon, <1>0, <2>1, <2>2, <2>6, <2>7, Logged
<1>2. CASE /\ \E s \in unreceipted : proposal' = [w |-> w, seq |-> s, step |-> "publish"]
           /\ UNCHANGED <<log, unreceipted>>
  <2>1. proposal' \in Proposal /\ proposal'.step = "publish" /\ proposal'.seq \in 0..Len(log)
      BY <1>0, <1>2 DEF Proposal, ControlInv, ControlShape
  <2>2. ControlShape' /\ SealedOutcome'
      BY Zenon, <1>0, <1>2, <2>1 DEF ControlInv, ControlShape, SessionTypeOK, Room, SealedOutcome
  <2> QED
      BY Zenon, <1>0, <1>2, <2>2, Quiet
<1> QED
    BY Zenon, <1>1, <1>2 DEF proposeRunCapability

\* A step that touches the connections, the routing and the proposal only.
LEMMA Aside ==
    ASSUME ControlInv, UNCHANGED <<log, control, sealed, live, runCapability>>, SessionTypeOK',
           controlStep' \in [Control -> {"idle", "route", "recover"}],
           controlClients' \cup ordered' \subseteq {c \in Control : control[c].writer \in 1..live},
           proposal' = proposal \/ proposal' = NoProposal, UNCHANGED unreceipted
    PROVE  ControlInv'
<1>1. NoProposal \in Proposal /\ NoProposal.seq = 0 /\ NoProposal.step = "none"
    BY Zenon DEF NoProposal, Proposal
<1>2. ControlShape'
    BY <1>1 DEF ControlInv, ControlShape
<1>3. SealedOutcome'
    BY Zenon, <1>1 DEF ControlInv, SealedOutcome
<1> QED
    BY Zenon, <1>2, <1>3, Quiet

LEMMA RouteStep ==
    ASSUME ControlInv, NEW c \in Control, routeRunControl(c)
    PROVE  ControlInv'
<1>1. /\ UNCHANGED <<live, authorised, open, log, sealed, runCapability, control, proposal, unreceipted>>
      /\ controlStep' \in [Control -> {"idle", "route", "recover"}]
    BY Zenon DEF routeRunControl, ControlInv, ControlShape
<1>2. registered' \in {0, registered}
    BY Zenon DEF routeRunControl, unregister
<1>3. /\ ordered' \subseteq ordered \cup {c} /\ controlClients' \subseteq controlClients
      /\ c \in ordered' => c \in ordered \/ (Live(control[c].writer) /\ control[c].writer \in open)
    BY Zenon DEF routeRunControl
<1>4. c \in ordered' => control[c].writer \in 1..live
    BY Zenon, <1>3 DEF ControlInv, ControlShape, SessionTypeOK
<1>5. SessionTypeOK'
    BY Zenon, <1>1, <1>2 DEF ControlInv, ControlShape, SessionTypeOK, Room
<1>6. controlClients' \cup ordered' \subseteq {d \in Control : control[d].writer \in 1..live}
    BY Zenon, <1>3, <1>4 DEF ControlInv, ControlShape
<1> QED
    BY Zenon, <1>1, <1>5, <1>6, Aside

LEMMA AckStep ==
    ASSUME ControlInv, NEW c \in Control, handleRunControlCommandAck(c)
    PROVE  ControlInv'
<1>1. SessionTypeOK'
    BY Zenon DEF handleRunControlCommandAck, sessionVars, ControlInv, ControlShape, SessionTypeOK, Room
<1> QED
    BY Zenon, <1>1, Aside DEF handleRunControlCommandAck, sessionVars, ControlInv, ControlShape

LEMMA DropStep ==
    ASSUME ControlInv, NEW w \in Writers, controlDrop(w)
    PROVE  ControlInv'
<1>1. SessionTypeOK'
    BY Zenon DEF controlDrop, dropConnection, unregister, ControlInv, ControlShape, SessionTypeOK, Room
<1> QED
    BY Zenon, <1>1, Aside DEF controlDrop, dropConnection, controlVars, ControlInv, ControlShape

LEMMA LapseStep ==
    ASSUME ControlInv, controlLapse
    PROVE  ControlInv'
<1>1. SessionTypeOK'
    BY Zenon DEF controlLapse, lapse, ControlInv, ControlShape, SessionTypeOK, Room
<1> QED
    BY Zenon, <1>1, Aside DEF controlLapse, lapse, controlVars, ControlInv, ControlShape

LEMMA CrashStep ==
    ASSUME ControlInv, controlCrash
    PROVE  ControlInv'
<1>1. SessionTypeOK'
    BY Zenon DEF controlCrash, crashHub, ControlInv, ControlShape, SessionTypeOK, Room
<1>2. controlStep' \in [Control -> {"idle", "route", "recover"}]
    BY Zenon DEF controlCrash
<1> QED
    BY Zenon, <1>1, <1>2, Aside DEF controlCrash, crashHub, ControlInv, ControlShape

LEMMA ElapseStep ==
    ASSUME ControlInv, NEW c \in Control, controlElapse(c)
    PROVE  ControlInv'
<1>0. /\ UNCHANGED <<sessionVars, sealed, runCapability, controlClients, controlStep, ordered,
                     proposal, unreceipted>>
      /\ control[c].status = "pending" /\ control' = [control EXCEPT ![c].late = TRUE]
      /\ control \in [Control -> {NoControl} \cup ControlRow]
    BY Zenon DEF controlElapse, ControlInv, ControlShape
<1>1. control[c] \in ControlRow
    BY <1>0 DEF NoControl
<1>2. /\ [control[c] EXCEPT !.late = TRUE] \in ControlRow
      /\ \A f \in {"status", "op", "writer", "pre", "end"} : [control[c] EXCEPT !.late = TRUE][f] = control[c][f]
    BY Zenon, <1>1 DEF ControlRow
<1>3. /\ control' \in [Control -> {NoControl} \cup ControlRow]
      /\ \A d \in Control \ {c} : control'[d] = control[d]
      /\ control'[c] = [control[c] EXCEPT !.late = TRUE]
    BY Zenon, <1>0, <1>2
<1>4. \A d \in Control : /\ control'[d].status = control[d].status /\ control'[d].op = control[d].op
                         /\ control'[d].writer = control[d].writer /\ control'[d].pre = control[d].pre
                         /\ control'[d].end = control[d].end
    BY Zenon, <1>2, <1>3
<1>5. ControlShape' /\ SealedOutcome'
    BY <1>0, <1>3, <1>4 DEF sessionVars, ControlInv, ControlShape, SessionTypeOK, Room, SealedOutcome
<1>6. OneControl'
    BY <1>0, <1>4 DEF sessionVars, ControlInv, OneControl, ControlPending, PendingControlIsLive
<1>7. \E m \in 0..Len(log') : StateAt(m)'
    BY Zenon, <1>0 DEF sessionVars, ControlInv, StateAt
<1>8. ASSUME NEW d \in Control PROVE Ends(d)' /\ Begins(d)' /\ Completes(d)'
  <2>1. Ends(d) /\ Begins(d) /\ Completes(d) /\ OutcomeEvents(d)' = OutcomeEvents(d)
        /\ UNCHANGED <<log, sealed>>
      BY Zenon, <1>0 DEF ControlInv, OutcomeEvents, sessionVars
  <2> QED
      BY Zenon, <1>4, <2>1 DEF Ends, Begins, Completes
<1> QED
    BY Zenon, <1>5, <1>6, <1>7, <1>8 DEF ControlInv

\* A row is reserved in the latest state, for the live writer.
LEMMA ReserveStep ==
    ASSUME ControlInv, NEW c \in Control, NEW op \in Operation, handleRunControl(c, op)
    PROVE  ControlInv'
<1>1. PICK m \in 0..Len(log) : StateAt(m)
    BY Zenon DEF ControlInv
<1>2. LatestState = m
    BY Zenon, <1>1, LatestIs DEF ControlInv
<1> DEFINE r == [status |-> "pending", op |-> op, writer |-> registered, cap |-> runCapability.seq,
                 pre |-> m, late |-> FALSE, end |-> 0]
<1>3. /\ Live(registered) /\ control[c] = NoControl /\ ControlPending = {}
      /\ m > 0 /\ validRunControlState(op, log[m].state)
      /\ control' = [control EXCEPT ![c] = r]
      /\ controlClients' = controlClients \cup {c}
      /\ controlStep' = [controlStep EXCEPT ![c] = "route"]
      /\ UNCHANGED <<sessionVars, sealed, runCapability, ordered, proposal, unreceipted>>
    BY Zenon, <1>2 DEF handleRunControl, RunControlReserve
<1>4. /\ registered = live /\ live \in Nat /\ live > 0 /\ runCapability.seq \in Nat /\ m \in Nat
      /\ Len(log) \in Nat /\ DOMAIN log = 1..Len(log)
      /\ control \in [Control -> {NoControl} \cup ControlRow]
    BY <1>3, LedgerBounds DEF Live, ControlInv, ControlShape, SessionTypeOK
<1>5. r \in ControlRow
    BY Zenon, <1>4 DEF ControlRow
<1>6. r.status = "pending" /\ r.op = op /\ r.writer = live /\ r.pre = m
    BY Zenon, <1>4
<1> HIDE DEF r
<1>7. /\ control' \in [Control -> {NoControl} \cup ControlRow]
      /\ control'[c] = r /\ \A d \in Control \ {c} : control'[d] = control[d]
    BY Zenon, <1>3, <1>4, <1>5
<1>8. ControlShape' /\ SealedOutcome'
    BY <1>3, <1>4, <1>6, <1>7 DEF sessionVars, ControlInv, ControlShape, SessionTypeOK, Room, SealedOutcome
<1>9. OneControl'
  <2>1. ControlPending' = {c}
      BY Zenon, <1>3, <1>6, <1>7 DEF ControlPending
  <2> QED
      BY Zenon, <1>3, <1>6, <1>7, <2>1 DEF sessionVars, ControlInv, OneControl, PendingControlIsLive
<1>10. LogExtends /\ NewEvents = {} /\ UNCHANGED <<log, sealed>>
    BY Zenon, <1>3, Unchanged DEF ControlInv, sessionVars
<1>11. \E k \in 0..Len(log') : StateAt(k)'
    BY Zenon, <1>10, StateKept DEF ControlInv
<1>12. ASSUME NEW d \in Control \ {c} PROVE Ends(d)' /\ Begins(d)' /\ Completes(d)'
    BY Zenon, <1>7, <1>10, RowKept DEF ControlInv
<1>13. Ends(c)' /\ Begins(c)' /\ Completes(c)'
  <2>1. sealed \/ OutcomeEvents(c) = {}
      BY <1>3 DEF ControlInv, Ends, NoControl, Outcome
  <2>2. Ends(c)'
      BY Zenon, <1>6, <1>7, <1>10, <2>1 DEF Ends, Outcome, OutcomeEvents
  <2>3. Begins(c)'
      BY <1>1, <1>3, <1>4, <1>6, <1>7, <1>10 DEF Begins, StateAt
  <2>4. Completes(c)'
      BY Zenon, <1>6, <1>7 DEF Completes
  <2> QED
      BY Zenon, <2>2, <2>3, <2>4
<1> QED
    BY Zenon, <1>8, <1>9, <1>11, <1>12, <1>13 DEF ControlInv

\* Rows are given up, whatever happens to the connections meanwhile.
LEMMA GiveUpStep ==
    ASSUME ControlInv, NEW cs \in SUBSET ControlPending, GiveUp(cs), UNCHANGED sealed,
           SessionTypeOK', controlStep' \in [Control -> {"idle", "route", "recover"}],
           live' >= live, controlClients' = controlClients, ordered' = ordered,
           runCapability'.seq \in 0..Len(log), runCapability'.writer \in {0, live'},
           \A c \in ControlPending \ cs : control[c].writer = live',
           proposal' = NoProposal \/ proposal' = proposal,
           unreceipted' \subseteq unreceipted
    PROVE  ControlInv'
<1>1. /\ LogExtends /\ \A i \in NewEvents : log'[i].type = "outcome"
      /\ control' \in [Control -> {NoControl} \cup ControlRow]
      /\ \A c \in Control : /\ c \notin cs => control'[c] = control[c]
                            /\ c \in cs => control'[c].status = "outcome_unknown"
                            /\ control'[c].writer = control[c].writer
      /\ \A c \in Control : Ends(c)' /\ Begins(c)' /\ Completes(c)'
    BY Zenon, GaveUp
<1>2. live \in Nat /\ live' \in Nat
    BY LedgerBounds DEF ControlInv, ControlShape, SessionTypeOK
<1>3. NoProposal \in Proposal /\ NoProposal.seq = 0 /\ NoProposal.step = "none"
    BY Zenon DEF NoProposal, Proposal
<1>4. /\ proposal' \in Proposal /\ proposal'.seq \in 0..Len(log') /\ Len(log) \in Nat
    BY <1>1, <1>3 DEF ControlInv, ControlShape, LogExtends
<1>5. ControlShape'
  <2>1. controlClients' \cup ordered' \subseteq {c \in Control : control'[c].writer \in 1..live'}
      BY <1>1, <1>2 DEF ControlInv, ControlShape
  <2>2. unreceipted' \subseteq {i \in 1..Len(log') : log'[i].type = "runcaps"}
      BY <1>1 DEF ControlInv, ControlShape, LogExtends
  <2>3. runCapability'.seq \in 0..Len(log')
      BY <1>1, <1>4 DEF LogExtends
  <2> QED
      BY Zenon, <1>1, <1>4, <2>1, <2>2, <2>3 DEF ControlInv, ControlShape, LogExtends
<1>6. SealedOutcome'
    BY <1>1, <1>3 DEF ControlInv, ControlShape, SealedOutcome, LogExtends
<1>7. OneControl'
  <2>1. ControlPending' \subseteq ControlPending \ cs
      BY Zenon, <1>1 DEF ControlPending
  <2>2. \A c \in ControlPending' : control'[c].writer = live'
      BY Zenon, <1>1, <2>1 DEF ControlPending
  <2> QED
      BY Zenon, <2>1, <2>2 DEF ControlInv, OneControl, PendingControlIsLive
<1>8. \E m \in 0..Len(log') : StateAt(m)'
    BY Zenon, <1>1, StateKept DEF ControlInv
<1> QED
    BY Zenon, <1>1, <1>5, <1>6, <1>7, <1>8 DEF ControlInv

LEMMA RecoverStep ==
    ASSUME ControlInv, NEW c \in Control, RecoverRunControl(c)
    PROVE  ControlInv'
<1>1. /\ GiveUp({c} \cap ControlPending)
      /\ controlStep' \in [Control -> {"idle", "route", "recover"}]
      /\ UNCHANGED <<live, authorised, registered, open, sealed, runCapability, controlClients,
                     ordered, proposal, unreceipted>>
    BY Zenon DEF RecoverRunControl, ControlInv, ControlShape
<1>2. LogExtends
    BY Zenon, <1>1, GaveUp
<1>3. SessionTypeOK'
    BY <1>1, <1>2 DEF ControlInv, ControlShape, SessionTypeOK, Room, LogExtends
<1>4. /\ runCapability'.seq \in 0..Len(log) /\ runCapability'.writer \in {0, live'}
      /\ \A d \in ControlPending : control[d].writer = live' /\ live' >= live
    BY <1>1 DEF ControlInv, ControlShape, OneControl, PendingControlIsLive, SessionTypeOK
<1>5. live' >= live
    BY <1>1, LedgerBounds DEF ControlInv, ControlShape, SessionTypeOK
<1> QED
    BY Zenon, <1>1, <1>3, <1>4, <1>5, GiveUpStep

LEMMA HelloStep ==
    ASSUME ControlInv, controlHello
    PROVE  ControlInv'
<1>1. /\ GiveUp(ControlPending) /\ acceptHello /\ runCapability' = NoRunCapability
      /\ UNCHANGED <<sealed, controlClients, controlStep, ordered, proposal, unreceipted>>
    BY Zenon DEF controlHello
<1>2. LogExtends
    BY Zenon, <1>1, GaveUp
<1>3. SessionTypeOK'
    BY <1>1, <1>2, LedgerBounds
    DEF acceptHello, ControlInv, ControlShape, SessionTypeOK, Room, LogExtends
<1>4. /\ runCapability'.seq \in 0..Len(log) /\ runCapability'.writer \in {0, live'} /\ live' >= live
    BY <1>1, <1>2, LedgerBounds
    DEF acceptHello, NoRunCapability, LogExtends, ControlInv, ControlShape, SessionTypeOK
<1>5. controlStep' \in [Control -> {"idle", "route", "recover"}]
    BY Zenon, <1>1 DEF ControlInv, ControlShape
<1> QED
    BY Zenon, <1>1, <1>3, <1>4, <1>5, GiveUpStep

LEMMA PublishStep ==
    ASSUME ControlInv, PublishRunControlCapability
    PROVE  ControlInv'
<1>1. CASE Live(proposal.w) /\ proposal.seq > runCapability.seq
  <2> DEFINE cs == {c \in ControlPending : control[c].writer # proposal.w}
  <2>1. /\ GiveUp(cs) /\ proposal' = NoProposal
        /\ runCapability' = [seq |-> proposal.seq, writer |-> proposal.w, ops |-> log[proposal.seq].ops]
        /\ UNCHANGED <<live, authorised, sealed, controlClients, controlStep, ordered>>
      BY Zenon, <1>1 DEF PublishRunControlCapability
  <2>2. /\ unreceipted' \subseteq unreceipted
        /\ \/ UNCHANGED <<registered, open>>
           \/ unregister(proposal.w) /\ open' = open \ {proposal.w}
      BY Zenon, <1>1 DEF PublishRunControlCapability
  <2>3. proposal.w = live
      BY Zenon, <1>1 DEF Live
  <2>4. LogExtends
      BY Zenon, <2>1, GaveUp
  <2>5. SessionTypeOK'
    <3>1. UNCHANGED <<live, authorised>> /\ Room(0)'
        BY <2>1, <2>4, LedgerBounds DEF Room, LogExtends
    <3>2. open' \subseteq open /\ registered' \in {0} \cup open'
        BY Zenon, <2>2 DEF unregister, ControlInv, ControlShape, SessionTypeOK
    <3> QED
        BY Zenon, <3>1, <3>2 DEF ControlInv, ControlShape, SessionTypeOK
  <2>6. /\ runCapability'.seq \in 0..Len(log) /\ runCapability'.writer \in {0, live'} /\ live' >= live
        /\ \A d \in ControlPending : control[d].writer = live'
      BY <2>1, <2>3, LedgerBounds
      DEF ControlInv, ControlShape, OneControl, PendingControlIsLive, SessionTypeOK
  <2>7. controlStep' \in [Control -> {"idle", "route", "recover"}]
      BY Zenon, <2>1 DEF ControlInv, ControlShape
  <2> HIDE DEF cs
  <2>8. cs \in SUBSET ControlPending
      BY Zenon DEF cs
  <2> QED
      BY Zenon, <2>1, <2>2, <2>5, <2>6, <2>7, <2>8, GiveUpStep
<1>2. CASE ~(Live(proposal.w) /\ proposal.seq > runCapability.seq)
  <2>1. /\ UNCHANGED <<runCapability, log, control, unreceipted, registered, open, live, authorised,
                       sealed, controlClients, controlStep, ordered>>
        /\ proposal' = NoProposal
      BY Zenon, <1>2 DEF PublishRunControlCapability
  <2>2. SessionTypeOK'
      BY Zenon, <2>1 DEF ControlInv, ControlShape, SessionTypeOK, Room
  <2> QED
      BY Zenon, <2>1, <2>2, Aside DEF ControlInv, ControlShape
<1> QED
    BY Zenon, <1>1, <1>2

\* The sealed outcome of a command at the Adapter.
LEMMA CommitStep ==
    ASSUME ControlInv, NEW c \in Control, NEW w \in Writers, NEW o \in Outcome,
           commitEncryptedRunControlOutcome(c, w, o)
    PROVE  ControlInv'
<1> DEFINE e == OutcomeEvent(c, o)
<1>1. e \in ControlEvent /\ e.type = "outcome"
    BY Zenon DEF OutcomeEvent, ControlEvent
<1>2. /\ Room(1) /\ log' = Append(log, e) /\ sealed /\ ordered' = ordered \ {c}
      /\ proposal' = [w |-> w, seq |-> Len(log) + 1, step |-> "finalize"]
      /\ UNCHANGED <<live, authorised, registered, open, sealed, runCapability, control,
                     controlClients, controlStep, unreceipted>>
    BY Zenon DEF commitEncryptedRunControlOutcome
<1>3. w \in Nat
    BY Zenon, Proposer DEF commitEncryptedRunControlOutcome
<1> HIDE DEF e
<1>4. /\ LogExtends /\ Len(log') = Len(log) + 1 /\ Len(log) \in Nat /\ log'[Len(log) + 1] = e
    BY <1>1, <1>2, Appends DEF ControlInv, ControlShape
<1>5. proposal' \in Proposal /\ proposal'.step = "finalize" /\ proposal'.seq = Len(log) + 1
  <2>1. Len(log) + 1 \in Nat
      BY <1>4
  <2> QED
      BY Zenon, <1>2, <1>3, <2>1 DEF Proposal
<1>6. unreceipted' \subseteq {i \in 1..Len(log') : log'[i].type = "runcaps"}
    BY <1>2, <1>4 DEF ControlInv, ControlShape, LogExtends
<1>7. ControlShape'
    BY <1>2, <1>4, <1>5, <1>6 DEF ControlInv, ControlShape, LogExtends, SessionTypeOK, Room
<1>8. SealedOutcome'
    BY <1>1, <1>2, <1>4, <1>5 DEF SealedOutcome
<1> QED
    BY Zenon, <1>1, <1>2, <1>7, <1>8, Logged

\* A row ends with the outcome of its own writer.
LEMMA Finalizes ==
    ASSUME ControlInv, NEW c \in Control, NEW w, NEW o \in Outcome, MayFinalizeControl(c, w, o),
           LogExtends, NEW q \in 1..Len(log'), EndControl(c, o, q), UNCHANGED sealed,
           log'[q].type = "outcome", log'[q].cmd = c, log'[q].outcome = o,
           \A i \in NewEvents : log'[i].type = "outcome" => sealed \/ log'[i].cmd = c,
           sealed \/ /\ q \in NewEvents
                     /\ \A i \in NewEvents : log'[i].type = "outcome" /\ log'[i].cmd = c => i = q,
           o = "completed" => \A m \in 0..Len(log) : m = control[c].pre /\ StateAt(m) =>
                                 /\ \A i \in (m + 1)..q : log'[i].type = "state" => ~sealed /\ i = q - 1
                                 /\ ~sealed => /\ q - 1 \in (m + 1)..q /\ log'[q - 1].type = "state"
                                               /\ log'[q - 1].state = completionState(control[c].op)
    PROVE  /\ control' \in [Control -> {NoControl} \cup ControlRow]
           /\ \A d \in Control : control'[d].writer = control[d].writer
           /\ \A d \in Control : control'[d].status = "pending" => control[d].status = "pending"
           /\ \A d \in Control : Ends(d)' /\ Begins(d)' /\ Completes(d)'
<1>0. /\ control[c].status = "pending" /\ o \in {"completed", "rejected"}
      /\ o = "completed" => LatestState = control[c].pre
      /\ control' = [control EXCEPT ![c].status = o, ![c].end = q]
      /\ control \in [Control -> {NoControl} \cup ControlRow] /\ q \in Nat
    BY DEF MayFinalizeControl, EndControl, ControlInv, ControlShape, LogExtends
<1>1. control[c] \in ControlRow
    BY <1>0 DEF NoControl
<1> DEFINE r == [control[c] EXCEPT !.status = o, !.end = q]
<1>2. /\ r \in ControlRow /\ r.status = o /\ r.end = q /\ r.op = control[c].op
      /\ r.pre = control[c].pre /\ r.writer = control[c].writer
    BY Zenon, <1>0, <1>1 DEF ControlRow
<1>3. control' = [control EXCEPT ![c] = r]
    BY Zenon, <1>0, <1>1 DEF ControlRow
<1> HIDE DEF r
<1>4. /\ control' \in [Control -> {NoControl} \cup ControlRow]
      /\ control'[c] = r /\ \A d \in Control \ {c} : control'[d] = control[d]
  <2>1. control \in [Control -> {NoControl} \cup ControlRow] /\ r \in ControlRow
      BY Zenon, <1>0, <1>2
  <2> QED
      BY Zenon, <1>3, <2>1
<1>5. ASSUME NEW d \in Control \ {c} PROVE Ends(d)' /\ Begins(d)' /\ Completes(d)'
  <2>1. sealed \/ \A i \in NewEvents : ~(log'[i].type = "outcome" /\ log'[i].cmd = d)
      OBVIOUS
  <2> QED
      BY Zenon, <1>4, <2>1, RowKept DEF ControlInv
<1>6. o = "completed" => Completes(c)'
  <2> SUFFICES ASSUME o = "completed" PROVE Completes(c)'
      OBVIOUS
  <2>1. PICK m \in 0..Len(log) : StateAt(m)
      BY Zenon DEF ControlInv
  <2>2. m = control[c].pre
      BY Zenon, <1>0, <2>1, LatestIs DEF ControlInv
  <2>3. /\ \A i \in (m + 1)..q : log'[i].type = "state" => ~sealed /\ i = q - 1
        /\ ~sealed => /\ q - 1 \in (m + 1)..q /\ log'[q - 1].type = "state"
                      /\ log'[q - 1].state = completionState(control[c].op)
      BY Zenon, <2>1, <2>2
  <2>4. control'[c].pre = m /\ control'[c].end = q /\ control'[c].op = control[c].op
      BY Zenon, <1>2, <1>4, <2>2
  <2> QED
      BY Zenon, <2>3, <2>4 DEF Completes
<1>7. Ends(c)' /\ Begins(c)' /\ Completes(c)'
    BY <1>0, <1>2, <1>4, <1>6, RowEnds DEF ControlInv
<1> QED
    BY <1>0, <1>2, <1>4, <1>5, <1>7

LEMMA FinalizeSealedStep ==
    ASSUME ControlInv, finalizeEncryptedRunControl
    PROVE  ControlInv'
<1>0. /\ proposal.step = "finalize" /\ proposal' = NoProposal
      /\ UNCHANGED <<sessionVars, sealed, runCapability, controlClients, controlStep, ordered, unreceipted>>
    BY Zenon DEF finalizeEncryptedRunControl
<1>1. PICK q \in 1..Len(log) : q = proposal.seq /\ log[q].type = "outcome" /\ sealed
    BY Zenon, <1>0 DEF ControlInv, SealedOutcome
<1>2. log[q] \in ControlEvent
    BY <1>1 DEF ControlInv, ControlShape
<1>3. PICK c \in Control, o \in Outcome : log[q].cmd = c /\ log[q].outcome = o
    BY Zenon, <1>1, <1>2 DEF ControlEvent
<1>4. SessionTypeOK' /\ UNCHANGED <<log, live>>
    BY Zenon, <1>0 DEF sessionVars, ControlInv, ControlShape, SessionTypeOK, Room
<1>5. CASE MayFinalizeControl(c, proposal.w, o)
  <2>1. EndControl(c, o, q)
      BY Zenon, <1>1, <1>3, <1>5 DEF finalizeEncryptedRunControl
  <2>2. LogExtends /\ NewEvents = {} /\ q \in 1..Len(log')
      BY Zenon, <1>4, Unchanged DEF ControlInv
  <2>3. \A m \in 0..Len(log) : StateAt(m) => \A i \in (m + 1)..q : log'[i].type # "state"
      BY <1>4 DEF StateAt, ControlInv, ControlShape
  <2>4. /\ control' \in [Control -> {NoControl} \cup ControlRow]
        /\ \A d \in Control : control'[d].writer = control[d].writer
        /\ \A d \in Control : control'[d].status = "pending" => control[d].status = "pending"
        /\ \A d \in Control : Ends(d)' /\ Begins(d)' /\ Completes(d)'
    <3>1. log'[q].type = "outcome" /\ log'[q].cmd = c /\ log'[q].outcome = o /\ UNCHANGED sealed
        BY Zenon, <1>0, <1>1, <1>3, <1>4
    <3> QED
        BY <1>1, <1>5, <2>1, <2>2, <2>3, <3>1, Finalizes
  <2>5. NoProposal \in Proposal /\ NoProposal.seq = 0 /\ NoProposal.step = "none"
      BY Zenon DEF NoProposal, Proposal
  <2>6. ControlShape' /\ SealedOutcome'
    <3>1. /\ proposal' \in Proposal /\ proposal'.seq \in 0..Len(log) /\ proposal'.step = "none"
          /\ Len(log) \in Nat
        BY <1>0, <2>5 DEF ControlInv, ControlShape
    <3>2. controlClients' \cup ordered' \subseteq {d \in Control : control'[d].writer \in 1..live'}
        BY Zenon, <1>0, <1>4, <2>4 DEF ControlInv, ControlShape
    <3> QED
        BY Zenon, <1>0, <1>4, <2>4, <3>1, <3>2 DEF ControlInv, ControlShape, SealedOutcome
  <2>7. OneControl'
      BY Zenon, <1>0, <1>4, <2>4 DEF ControlInv, OneControl, ControlPending, PendingControlIsLive
  <2>8. \E m \in 0..Len(log') : StateAt(m)'
      BY Zenon, <1>4 DEF ControlInv, StateAt
  <2> QED
      BY Zenon, <2>4, <2>6, <2>7, <2>8 DEF ControlInv
<1>6. CASE ~MayFinalizeControl(c, proposal.w, o)
  <2>1. UNCHANGED control
      BY Zenon, <1>1, <1>3, <1>6 DEF finalizeEncryptedRunControl
  <2> QED
      BY Zenon, <1>0, <1>4, <2>1, Aside DEF ControlInv, ControlShape
<1> QED
    BY Zenon, <1>5, <1>6

\* An outcome in the clear ends its row and is appended in one transaction.
LEMMA FinalizeStep ==
    ASSUME ControlInv, NEW c \in Control, NEW w \in Writers, NEW o \in Outcome,
           finalizeRunControlOutcome(c, w, o)
    PROVE  ControlInv'
<1>0. /\ ~sealed /\ ordered' = ordered \ {c}
      /\ UNCHANGED <<live, authorised, registered, open, sealed, runCapability, controlClients,
                     controlStep, proposal, unreceipted>>
    BY Zenon DEF finalizeRunControlOutcome
<1>1. Len(log) \in Nat /\ log \in Seq(ControlEvent)
    BY DEF ControlInv, ControlShape
<1>2. ASSUME LogExtends, NEW q \in 1..Len(log'), MayFinalizeControl(c, w, o), EndControl(c, o, q),
             log'[q] = OutcomeEvent(c, o), q = Len(log'), q \in NewEvents,
             \A i \in NewEvents : i = q \/ log'[i].type = "state",
             \A m \in 0..Len(log) : StateAt(m) => \E k \in 0..Len(log') : StateAt(k)',
             o = "completed" => \A m \in 0..Len(log) : StateAt(m) =>
                                 /\ \A i \in (m + 1)..q : log'[i].type = "state" => i = q - 1
                                 /\ q - 1 \in (m + 1)..q /\ log'[q - 1].type = "state"
                                 /\ log'[q - 1].state = completionState(control[c].op)
      PROVE  ControlInv'
  <2>1. log'[q].type = "outcome" /\ log'[q].cmd = c /\ log'[q].outcome = o
      BY <1>2, OutcomeFields
  <2>2. /\ control' \in [Control -> {NoControl} \cup ControlRow]
        /\ \A d \in Control : control'[d].writer = control[d].writer
        /\ \A d \in Control : control'[d].status = "pending" => control[d].status = "pending"
        /\ \A d \in Control : Ends(d)' /\ Begins(d)' /\ Completes(d)'
    <3>1. \A i \in NewEvents : log'[i].type = "outcome" => i = q
        BY Zenon, <1>2
    <3>2. o = "completed" => \A m \in 0..Len(log) : m = control[c].pre /\ StateAt(m) =>
             /\ \A i \in (m + 1)..q : log'[i].type = "state" => ~sealed /\ i = q - 1
             /\ ~sealed => /\ q - 1 \in (m + 1)..q /\ log'[q - 1].type = "state"
                           /\ log'[q - 1].state = completionState(control[c].op)
        BY Zenon, <1>0, <1>2
    <3>3. /\ \A i \in NewEvents : log'[i].type = "outcome" => sealed \/ log'[i].cmd = c
          /\ sealed \/ /\ q \in NewEvents
                       /\ \A i \in NewEvents : log'[i].type = "outcome" /\ log'[i].cmd = c => i = q
        BY Zenon, <1>2, <2>1, <3>1
    <3>4. UNCHANGED sealed /\ MayFinalizeControl(c, w, o) /\ LogExtends /\ EndControl(c, o, q)
        BY Zenon, <1>0, <1>2
    <3> HIDE DEF MayFinalizeControl, LogExtends, EndControl
    <3> QED
        BY Zenon, <2>1, <3>2, <3>3, <3>4, Finalizes
  <2>a. LogExtends
      BY Zenon, <1>2
  <2>3. SessionTypeOK'
      BY <1>0, <2>a DEF ControlInv, ControlShape, SessionTypeOK, Room, LogExtends
  <2>4. unreceipted' \subseteq {i \in 1..Len(log') : log'[i].type = "runcaps"}
      BY <1>0, <2>a DEF ControlInv, ControlShape, LogExtends
  <2>5. controlClients' \cup ordered' \subseteq {d \in Control : control'[d].writer \in 1..live'}
    <3>1. \A d \in Control : control'[d].writer = control[d].writer
        BY Zenon, <2>2
    <3> QED
        BY Zenon, <1>0, <3>1 DEF ControlInv, ControlShape
  <2>6. runCapability'.seq \in 0..Len(log') /\ proposal'.seq \in 0..Len(log') /\ proposal' \in Proposal
      BY <1>0, <2>a DEF ControlInv, ControlShape, LogExtends
  <2>7. ControlShape'
      BY Zenon, <1>0, <2>a, <2>2, <2>3, <2>4, <2>5, <2>6 DEF ControlInv, ControlShape, LogExtends
  <2>8. SealedOutcome'
      BY Zenon, <1>0 DEF ControlInv, SealedOutcome
  <2>9. OneControl'
      BY Zenon, <1>0, <2>2 DEF ControlInv, OneControl, ControlPending, PendingControlIsLive
  <2>10. \E k \in 0..Len(log') : StateAt(k)'
      BY Zenon, <1>2 DEF ControlInv
  <2> QED
      BY Zenon, <2>2, <2>7, <2>8, <2>9, <2>10 DEF ControlInv
<1> DEFINE d == StateEvent(completionState(control[c].op))
           e == OutcomeEvent(c, o)
<1>3. /\ e \in ControlEvent /\ e.type = "outcome"
      /\ d \in ControlEvent /\ d.type = "state" /\ d.state = completionState(control[c].op)
    BY Zenon DEF OutcomeEvent, StateEvent, ControlEvent, RunState, completionState
<1>4. CASE RunControlFinalize(c, w, o) /\ o = "completed"
  <2>0. Len(<<d, e>>) = 2
      OBVIOUS
  <2>1. MayFinalizeControl(c, w, o) /\ Room(2) /\ log' = log \o <<d, e>> /\ EndControl(c, o, Len(log) + 2)
      BY Zenon, <1>4, <2>0 DEF RunControlFinalize
  <2> HIDE DEF d, e
  <2>2. PICK q : q = Len(log) + 2
      OBVIOUS
  <2>3. /\ LogExtends /\ Len(log') = q /\ log'[q - 1] = d /\ log'[q] = e /\ q - 1 = Len(log) + 1
        /\ NewEvents = {q - 1, q} /\ q \in Nat
    <3>1. /\ LogExtends /\ Len(log') = Len(log) + 2
          /\ log'[Len(log) + 1] = d /\ log'[Len(log) + 2] = e
          /\ NewEvents = {Len(log) + 1, Len(log) + 2}
        BY Zenon, <1>3, <2>1, AppendsTwo DEF ControlInv
    <3>2. q \in Nat /\ q - 1 = Len(log) + 1
        BY <1>1, <2>2
    <3> QED
        BY Zenon, <2>2, <3>1, <3>2
  <2>4. ASSUME NEW m \in 0..Len(log), StateAt(m)
        PROVE  /\ \A i \in (m + 1)..q : log'[i].type = "state" => i = q - 1
               /\ q - 1 \in (m + 1)..q /\ StateAt(q - 1)' /\ q - 1 \in 0..Len(log')
    <3>1. \A i \in (m + 1)..q : i = q \/ i = q - 1 \/ (i \in (m + 1)..Len(log) /\ log'[i] = log[i])
        BY <1>1, <2>3 DEF LogExtends
    <3>2. \A i \in (m + 1)..q : log'[i].type = "state" => i = q - 1
        BY Zenon, <1>3, <2>3, <2>4, <3>1 DEF StateAt
    <3>3. \A k \in ((q - 1) + 1)..Len(log') : k = q
        BY <2>3
    <3>4. StateAt(q - 1)'
        BY Zenon, <1>3, <2>3, <3>3 DEF StateAt
    <3> QED
        BY <1>1, <2>3, <3>2, <3>4
  <2>5. q \in 1..Len(log') /\ EndControl(c, o, q) /\ log'[q] = OutcomeEvent(c, o)
      BY <2>1, <2>2, <2>3 DEF e
  <2>6. q \in NewEvents /\ q = Len(log') /\ \A i \in NewEvents : i = q \/ log'[i].type = "state"
      BY Zenon, <1>3, <2>3
  <2>7. \A m \in 0..Len(log) : StateAt(m) => \E k \in 0..Len(log') : StateAt(k)'
      BY Zenon, <2>4
  <2>8. \A m \in 0..Len(log) : StateAt(m) =>
            /\ \A i \in (m + 1)..q : log'[i].type = "state" => i = q - 1
            /\ q - 1 \in (m + 1)..q /\ log'[q - 1].type = "state"
            /\ log'[q - 1].state = completionState(control[c].op)
      BY Zenon, <1>3, <2>3, <2>4
  <2> QED
      BY Zenon, <1>2, <2>1, <2>3, <2>5, <2>6, <2>7, <2>8
<1>5. CASE RunControlFinalize(c, w, o) /\ o # "completed"
  <2>0. Len(<<e>>) = 1
      OBVIOUS
  <2>1. MayFinalizeControl(c, w, o) /\ Room(1) /\ log' = log \o <<e>> /\ EndControl(c, o, Len(log) + 1)
      BY Zenon, <1>5, <2>0 DEF RunControlFinalize
  <2> HIDE DEF d, e
  <2>2. log' = Append(log, e)
    <3>1. e \in ControlEvent /\ log \in Seq(ControlEvent) /\ log' = log \o <<e>>
        BY Zenon, <1>1, <1>3, <2>1
    <3> QED
        BY <3>1
  <2>3. PICK q : q = Len(log) + 1
      OBVIOUS
  <2>4. LogExtends /\ Len(log') = q /\ log'[q] = e /\ NewEvents = {q} /\ q \in Nat
      BY <1>1, <1>3, <2>1, <2>2, <2>3, Appends DEF ControlInv
  <2>5. q \in 1..Len(log') /\ EndControl(c, o, q) /\ log'[q] = OutcomeEvent(c, o)
      BY <1>1, <2>1, <2>3, <2>4 DEF e
  <2>6. \A m \in 0..Len(log) : StateAt(m) => \E k \in 0..Len(log') : StateAt(k)'
      BY Zenon, <1>3, <2>4, StateKept DEF ControlInv
  <2> QED
      BY Zenon, <1>2, <1>5, <2>1, <2>4, <2>5, <2>6
<1>6. CASE UNCHANGED <<log, control>>
  <2>1. SessionTypeOK'
      BY Zenon, <1>0, <1>6 DEF ControlInv, ControlShape, SessionTypeOK, Room
  <2> QED
      BY Zenon, <1>0, <1>6, <2>1, Aside DEF ControlInv, ControlShape
<1> QED
    BY Zenon, <1>4, <1>5, <1>6 DEF finalizeRunControlOutcome

-----------------------------------------------------------------------------
LEMMA ControlStart ==
    ASSUME ControlInit
    PROVE  ControlInv
<1>1. SessionTypeOK /\ Len(log) = 0 /\ log \in Seq(ControlEvent) /\ DOMAIN log = {}
    BY LedgerBounds DEF ControlInit, SessionInit, SessionTypeOK, Room
<1>2. NoProposal \in Proposal /\ NoProposal.seq = 0 /\ NoProposal.step = "none"
    BY Zenon DEF NoProposal, Proposal
<1>3. control \in [Control -> {NoControl} \cup ControlRow] /\ \A c \in Control : control[c].status = "none"
    BY Zenon DEF ControlInit, NoControl
<1>4. runCapability.seq = 0 /\ runCapability.writer = 0
    BY Zenon DEF ControlInit, NoRunCapability
<1>5. ControlShape /\ SealedOutcome
    BY <1>1, <1>2, <1>3, <1>4 DEF ControlInit, ControlShape, SealedOutcome
<1>6. OneControl
    BY Zenon, <1>3, <1>4 DEF OneControl, ControlPending, PendingControlIsLive
<1>7. 0 \in 0..Len(log) /\ StateAt(0)
    BY <1>1 DEF StateAt
<1>8. \A c \in Control : Ends(c) /\ Begins(c) /\ Completes(c)
    BY Zenon, <1>1, <1>3 DEF Ends, Begins, Completes, OutcomeEvents, Outcome
<1> QED
    BY Zenon, <1>5, <1>6, <1>7, <1>8 DEF ControlInv

LEMMA ControlStep ==
    ASSUME ControlInv, [ControlNext]_allControlVars
    PROVE  ControlInv'
<1>1. CASE ControlNext
    BY Zenon, <1>1, HelloStep, LapseStep, CrashStep, PublishStep, FinalizeSealedStep, DropStep, StateStep,
       CapabilityStep, ReserveStep, RouteStep, RecoverStep, AckStep, FinalizeStep, CommitStep, ElapseStep
    DEF ControlNext
<1>2. CASE UNCHANGED allControlVars
  <2>1. SessionTypeOK'
      BY Zenon, <1>2 DEF allControlVars, sessionVars, ControlInv, ControlShape, SessionTypeOK, Room
  <2> QED
      BY Zenon, <1>2, <2>1, Aside DEF allControlVars, sessionVars, controlVars, ControlInv, ControlShape
<1> QED
    BY Zenon, <1>1, <1>2

LEMMA ControlInvHolds == ControlSpec => []ControlInv
    BY ControlStart, ControlStep, PTL DEF ControlSpec

\* The rows, the connections and the proposals keep their types, and the session has one
\* pending control at a time (the unique index behind RunControlReserve).
THEOREM ControlTypes == ControlSpec => []ControlTypeOK
<1>1. ControlInv => ControlTypeOK
  <2> SUFFICES ASSUME ControlInv PROVE ControlTypeOK
      OBVIOUS
  <2>1. \A c \in Control :
           /\ control[c].status \in {"none", "pending", "completed", "rejected", "outcome_unknown"}
           /\ controlStep[c] \in {"idle", "route", "recover"}
      BY DEF ControlInv, ControlShape, NoControl, ControlRow
  <2>2. proposal.step \in {"none", "publish", "finalize"}
      BY Zenon DEF ControlInv, ControlShape, Proposal
  <2> QED
      BY Zenon, <2>1, <2>2 DEF ControlInv, ControlShape, OneControl, ControlTypeOK
<1> QED
    BY <1>1, ControlInvHolds, PTL

\* No Adapter can adopt the control of an earlier one: a pending control is the live
\* writer's (fenceRunControlsAfterWriterReplacement in the transaction of the hello).
THEOREM NoAdoptedControl == ControlSpec => []PendingControlIsLive
<1>1. ControlInv => PendingControlIsLive
    BY Zenon DEF ControlInv, OneControl
<1> QED
    BY <1>1, ControlInvHolds, PTL

\* What the ledger says of a control that ended is what the log shows: its own outcome
\* event, once, and for a completed one that no other state came between the state it was
\* reserved in and its completion (RunControlReserve, RunControlFinalize).
THEOREM TrueControlOutcome == ControlSpec => []ControlOutcomeIsTrue
<1>1. ControlInv => ControlEndsWithItsEvent
    BY Zenon DEF ControlInv, Ends, ControlEndsWithItsEvent
<1>2. ControlInv => CompletedFromItsState
  <2> SUFFICES ASSUME ControlInv, NEW c \in Control, control[c].status = "completed"
               PROVE  LET r == control[c]
                          between == {i \in (r.pre + 1)..r.end : log[i].type = "state"}
                      IN  /\ validRunControlState(r.op, log[r.pre].state)
                          /\ between = IF sealed THEN {} ELSE {r.end - 1}
                          /\ sealed \/ log[r.end - 1].state = completionState(r.op)
      BY Zenon DEF CompletedFromItsState
  <2>1. Begins(c) /\ Completes(c)
      BY Zenon DEF ControlInv
  <2> QED
      BY Zenon, <2>1 DEF Begins, Completes
<1> QED
    BY <1>1, <1>2, ControlInvHolds, PTL DEF ControlOutcomeIsTrue
=============================================================================
