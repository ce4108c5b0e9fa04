------------------------- MODULE FileReferenceProofs -------------------------
(***************************************************************************)
(* Proofs, for any commands, client handlers and capabilities, that the    *)
(* rows of FileReferenceLedger agree with the session's log and that no    *)
(* row outlives the Adapter it is bound to.                                *)
(***************************************************************************)
EXTENDS FileReferenceLedger, TLAPS

FileRow == [status : {"delivery_pending", "pending"} \cup FileOutcome, writer : Nat,
            fp : Fingerprint, late : BOOLEAN, end : Nat]

BusySender == [step : {"commit", "bind", "route", "recover"}, cmd : FileCommand, w : Nat,
               fp : Fingerprint]

FileEvent == [type : {"message"}, cmd : FileCommand]
                \cup [type : {"outcome"}, cmd : FileCommand, outcome : FileOutcome]
                \cup [type : {"filecaps"}, fp : Fingerprint, writer : Nat]

FileShape ==
    /\ live \in Nat /\ registered \in Nat
    /\ log \in Seq(FileEvent)
    /\ fileCommand \in [FileCommand -> {NoFileCommand} \cup FileRow]
    /\ handler \in [Sender -> {Idle} \cup BusySender]
    /\ sent \in [FileCommand -> Nat]

\* The session has one unfinished row; one that was never bound was never
\* written to an Adapter, and a bound one is the live writer's.
FileRows ==
    /\ \A c, d \in FileWaiting : c = d
    /\ \A c \in FileCommand :
        /\ fileCommand[c].status \in {"none", "delivery_pending"} => sent[c] = 0
        /\ fileCommand[c].status = "pending" => fileCommand[c].writer = live

\* A handler writes a frame only for a row that is or was bound.
FileRouted ==
    \A h \in Sender : handler[h].step \in {"route", "recover"} =>
        fileCommand[handler[h].cmd].status \notin {"none", "delivery_pending"}

\* The capability that stands at position i of the log.
CapAt(i, fp, w) ==
    \E j \in 1..i :
        /\ log[j].type = "filecaps" /\ log[j].fp = fp /\ log[j].writer = w
        /\ \A k \in (j + 1)..i : log[k].type # "filecaps"

\* The message of a command is in the log once, if the command has a row.
MessageOnce(c) ==
    IF fileCommand[c] = NoFileCommand
    THEN FileEvents("message", c) = {}
    ELSE \E i \in 1..Len(log) : FileEvents("message", c) = {i}

\* Its outcome is there once, behind it, when the row has ended.
OutcomeOnce(c) ==
    LET r == fileCommand[c]
    IN  IF r.status \in FileOutcome
        THEN /\ FileEvents("outcome", c) = {r.end}
             /\ log[r.end].outcome = r.status
             /\ \A i \in FileEvents("message", c) : i < r.end
        ELSE FileEvents("outcome", c) = {}

\* An unfinished row was inserted under the live writer's capability, and an
\* answered one was inserted and answered under the capability of its writer.
UnderCapability(c) ==
    LET r == fileCommand[c]
    IN  /\ r.status \in {"delivery_pending", "pending"} =>
              \A i \in FileEvents("message", c) : CapAt(i, r.fp, live)
        /\ r.status \in {"delivered", "rejected"} =>
              /\ r.end \in 1..Len(log)
              /\ \A i \in FileEvents("message", c) \cup {r.end} : CapAt(i, r.fp, r.writer)

FileLog ==
    /\ \A c \in FileCommand : MessageOnce(c) /\ OutcomeOnce(c) /\ UnderCapability(c)
    /\ \/ fileCapability = NoFileCapability
       \/ /\ fileCapability.writer = live
          /\ fileCapability.writer # 0
          /\ CapAt(Len(log), fileCapability.fp, live)

FileInv == FileShape /\ FileRows /\ FileRouted /\ FileLog
-----------------------------------------------------------------------------
\* What a new event leaves of the log.
LEMMA LogGrows ==
    ASSUME FileShape, NEW e \in FileEvent, log' = Append(log, e)
    PROVE  /\ log' \in Seq(FileEvent) /\ Len(log) \in Nat /\ Len(log') = Len(log) + 1
           /\ DOMAIN log = 1..Len(log) /\ DOMAIN log' = 1..(Len(log) + 1)
           /\ log'[Len(log) + 1] = e /\ \A i \in 1..Len(log) : log'[i] = log[i]
    BY DEF FileShape

LEMMA EventsGrow ==
    ASSUME FileShape, NEW e \in FileEvent, log' = Append(log, e), NEW t, NEW c
    PROVE  /\ e.type = t /\ e.cmd = c => FileEvents(t, c)' = FileEvents(t, c) \cup {Len(log) + 1}
           /\ ~(e.type = t /\ e.cmd = c) => FileEvents(t, c)' = FileEvents(t, c)
           /\ FileEvents(t, c) \subseteq 1..Len(log)
           /\ \A i \in FileEvents(t, c) : i # Len(log) + 1
    BY LogGrows DEF FileEvents

LEMMA CapKept ==
    ASSUME FileShape, NEW e \in FileEvent, log' = Append(log, e), NEW n, n = Len(log),
           NEW fp, NEW w
    PROVE  /\ \A i \in 1..n : CapAt(i, fp, w) => CapAt(i, fp, w)'
           /\ e.type # "filecaps" /\ CapAt(n, fp, w) => CapAt(n + 1, fp, w)'
           /\ e.type = "filecaps" /\ e.fp = fp /\ e.writer = w => CapAt(n + 1, fp, w)'
<1>1. /\ n \in Nat /\ log'[n + 1] = e /\ \A i \in 1..n : log'[i] = log[i]
    BY Zenon, LogGrows
<1>2. ASSUME NEW i \in 1..n, CapAt(i, fp, w)
      PROVE  CapAt(i, fp, w)'
  <2>1. PICK j \in 1..i : /\ log[j].type = "filecaps" /\ log[j].fp = fp /\ log[j].writer = w
                          /\ \A k \in (j + 1)..i : log[k].type # "filecaps"
      BY Zenon, <1>2 DEF CapAt
  <2>2. log'[j] = log[j] /\ \A k \in (j + 1)..i : log'[k] = log[k]
      BY <1>1, <2>1
  <2> QED
      BY Zenon, <2>1, <2>2 DEF CapAt
<1>3. ASSUME e.type # "filecaps", CapAt(n, fp, w)
      PROVE  CapAt(n + 1, fp, w)'
  <2>1. PICK j \in 1..n : /\ log[j].type = "filecaps" /\ log[j].fp = fp /\ log[j].writer = w
                          /\ \A k \in (j + 1)..n : log[k].type # "filecaps"
      BY Zenon, <1>3 DEF CapAt
  <2>2. j \in 1..(n + 1) /\ log'[j] = log[j] /\ \A k \in (j + 1)..(n + 1) :
                               log'[k] = e \/ (k \in (j + 1)..n /\ log'[k] = log[k])
      BY <1>1, <2>1
  <2>3. \A k \in (j + 1)..(n + 1) : log'[k].type # "filecaps"
      BY Zenon, <1>3, <2>1, <2>2
  <2> QED
      BY Zenon, <2>1, <2>2, <2>3 DEF CapAt
<1>4. ASSUME e.type = "filecaps", e.fp = fp, e.writer = w
      PROVE  CapAt(n + 1, fp, w)'
  <2>1. n + 1 \in 1..(n + 1) /\ ((n + 1) + 1)..(n + 1) = {}
      BY <1>1
  <2> QED
      BY Zenon, <1>1, <1>4, <2>1 DEF CapAt
<1> QED
    BY Zenon, <1>2, <1>3, <1>4

\* An event that is not about command c leaves what the log says of c.
LEMMA RowKept ==
    ASSUME FileShape, FileLog, NEW e \in FileEvent, log' = Append(log, e),
           NEW c \in FileCommand, ~(e.type \in {"message", "outcome"} /\ e.cmd = c),
           fileCommand'[c] = fileCommand[c],
           fileCommand[c].status \in {"delivery_pending", "pending"} => UNCHANGED live
    PROVE  (MessageOnce(c) /\ OutcomeOnce(c) /\ UnderCapability(c))'
<1> DEFINE r == fileCommand[c]
<1>1. /\ FileEvents("message", c)' = FileEvents("message", c)
      /\ FileEvents("outcome", c)' = FileEvents("outcome", c)
      /\ FileEvents("message", c) \subseteq 1..Len(log)
      /\ FileEvents("outcome", c) \subseteq 1..Len(log)
    BY EventsGrow
<1>2. /\ Len(log) \in Nat /\ Len(log') = Len(log) + 1
      /\ \A i \in 1..Len(log) : i \in 1..Len(log') /\ log'[i] = log[i]
    BY LogGrows
<1>3. MessageOnce(c)'
    BY Zenon, <1>1, <1>2 DEF FileLog, MessageOnce
<1>4. OutcomeOnce(c)'
    BY <1>1, <1>2 DEF FileLog, OutcomeOnce
<1>5. \A i \in 1..Len(log) : \A fp, w : CapAt(i, fp, w) => CapAt(i, fp, w)'
    BY Zenon, CapKept
<1>6. UnderCapability(c)'
    BY Zenon, <1>1, <1>2, <1>5 DEF FileLog, UnderCapability
<1> QED
    BY Zenon, <1>3, <1>4, <1>6

\* A row never becomes unbound again.
RowsAdvance ==
    \A c \in FileCommand : fileCommand[c].status \notin {"none", "delivery_pending"} =>
        fileCommand'[c].status \notin {"none", "delivery_pending"}

LEMMA RoutedKept ==
    ASSUME FileRouted, RowsAdvance, FileShape,
           \A h \in Sender : \/ handler'[h].step \notin {"route", "recover"}
                             \/ /\ handler'[h].cmd = handler[h].cmd
                                /\ handler[h].step \in {"route", "recover"}
                             \/ /\ handler'[h].cmd \in FileCommand
                                /\ fileCommand'[handler'[h].cmd].status = "pending"
    PROVE  FileRouted'
<1>1. \A h \in Sender : handler[h].step \in {"route", "recover"} => handler[h].cmd \in FileCommand
    BY DEF FileShape, Idle, BusySender
<1> QED
    BY Zenon, <1>1 DEF FileRouted, RowsAdvance

LEMMA HandlerMoves ==
    ASSUME FileShape, NEW h \in Sender, Done(h)
    PROVE  /\ handler' \in [Sender -> {Idle} \cup BusySender]
           /\ handler'[h].step = "idle" /\ \A g \in Sender : g # h => handler'[g] = handler[g]
    BY Zenon DEF FileShape, Done, Idle

LEMMA HandlerGoes ==
    ASSUME FileShape, NEW h \in Sender, handler[h].step # "idle",
           NEW s \in {"commit", "bind", "route", "recover"}, Goto(h, s)
    PROVE  /\ handler' \in [Sender -> {Idle} \cup BusySender]
           /\ handler'[h].step = s /\ handler'[h].cmd = handler[h].cmd
           /\ \A g \in Sender : g # h => handler'[g] = handler[g]
<1>1. handler[h] \in BusySender
    BY DEF FileShape, Idle
<1>2. [handler[h] EXCEPT !.step = s] \in BusySender
    BY Zenon, <1>1 DEF BusySender
<1>3. handler' = [handler EXCEPT ![h] = [handler[h] EXCEPT !.step = s]]
    BY Zenon DEF Goto
<1>4. handler'[h] = [handler[h] EXCEPT !.step = s]
    BY Zenon, <1>3 DEF FileShape
<1>5. handler'[h].step = s /\ handler'[h].cmd = handler[h].cmd
    BY Zenon, <1>1, <1>4 DEF BusySender
<1> QED
    BY Zenon, <1>2, <1>3, <1>5 DEF FileShape

\* A row that ends.
LEMMA EndEffect ==
    ASSUME FileShape, NEW c \in FileWaiting, NEW o \in FileOutcome, EndFile(c, o)
    PROVE  /\ FileOutcomeEvent(c, o) \in FileEvent /\ log' = Append(log, FileOutcomeEvent(c, o))
           /\ fileCommand' \in [FileCommand -> {NoFileCommand} \cup FileRow]
           /\ \A d \in FileCommand : d # c => fileCommand'[d] = fileCommand[d]
           /\ fileCommand[c] \in FileRow /\ fileCommand'[c].status = o
           /\ fileCommand'[c].end = Len(log) + 1 /\ fileCommand'[c] # NoFileCommand
           /\ fileCommand'[c].fp = fileCommand[c].fp
           /\ fileCommand'[c].writer = fileCommand[c].writer
<1>0. c \in FileCommand /\ fileCommand[c].status \in {"delivery_pending", "pending"}
    BY Zenon DEF FileWaiting
<1>1. fileCommand[c] \in FileRow
    BY <1>0 DEF FileShape, NoFileCommand
<1>2. Len(log) + 1 \in Nat
    BY DEF FileShape
<1>3. [fileCommand[c] EXCEPT !.status = o, !.end = Len(log) + 1] \in FileRow
    BY Zenon, <1>1, <1>2 DEF FileRow
<1>4. fileCommand' = [fileCommand EXCEPT ![c] =
                        [fileCommand[c] EXCEPT !.status = o, !.end = Len(log) + 1]]
    BY Zenon DEF EndFile
<1>5. /\ fileCommand' \in [FileCommand -> {NoFileCommand} \cup FileRow]
      /\ \A d \in FileCommand : d # c => fileCommand'[d] = fileCommand[d]
      /\ fileCommand'[c] = [fileCommand[c] EXCEPT !.status = o, !.end = Len(log) + 1]
    BY Zenon, <1>0, <1>3, <1>4 DEF FileShape
<1>6. /\ fileCommand'[c].status = o /\ fileCommand'[c].end = Len(log) + 1
      /\ fileCommand'[c].fp = fileCommand[c].fp
      /\ fileCommand'[c].writer = fileCommand[c].writer
    BY Zenon, <1>1, <1>5 DEF FileRow
<1>7. fileCommand'[c] # NoFileCommand
    BY <1>6 DEF FileOutcome, NoFileCommand
<1>8. FileOutcomeEvent(c, o) \in FileEvent
    BY Zenon, <1>0 DEF FileEvent, FileOutcomeEvent
<1> QED
    BY Zenon, <1>1, <1>5, <1>6, <1>7, <1>8 DEF EndFile

LEMMA RowEnds ==
    ASSUME FileShape, FileLog, NEW c \in FileWaiting, NEW o \in FileOutcome, EndFile(c, o),
           o # "outcome_unknown" => /\ fileCommand[c].writer = live
                                    /\ CapAt(Len(log), fileCommand[c].fp, live)
    PROVE  (MessageOnce(c) /\ OutcomeOnce(c) /\ UnderCapability(c))'
<1> DEFINE e == FileOutcomeEvent(c, o)  r == fileCommand[c]
<1>0. /\ c \in FileCommand /\ r.status \in {"delivery_pending", "pending"}
      /\ r # NoFileCommand /\ r.status \notin FileOutcome
    BY DEF FileWaiting, FileOutcome, NoFileCommand
<1>1. /\ e \in FileEvent /\ log' = Append(log, e)
      /\ fileCommand'[c].status = o /\ fileCommand'[c].end = Len(log) + 1
      /\ fileCommand'[c] # NoFileCommand
      /\ fileCommand'[c].fp = r.fp /\ fileCommand'[c].writer = r.writer
    BY Zenon, EndEffect
<1>2. e.type = "outcome" /\ e.cmd = c /\ e.outcome = o
    BY Zenon DEF FileOutcomeEvent
<1> HIDE DEF e
<1>3. /\ Len(log) \in Nat /\ Len(log') = Len(log) + 1 /\ log'[Len(log) + 1] = e
      /\ \A i \in 1..Len(log) : i \in 1..Len(log') /\ log'[i] = log[i]
    BY <1>1, LogGrows
<1>4. /\ FileEvents("message", c)' = FileEvents("message", c)
      /\ FileEvents("outcome", c)' = FileEvents("outcome", c) \cup {Len(log) + 1}
      /\ FileEvents("message", c) \subseteq 1..Len(log)
    BY <1>1, <1>2, EventsGrow
<1>5. MessageOnce(c)'
    BY Zenon, <1>0, <1>1, <1>3, <1>4 DEF FileLog, MessageOnce
<1>6. FileEvents("outcome", c) = {}
    BY Zenon, <1>0 DEF FileLog, OutcomeOnce
<1>7. OutcomeOnce(c)'
  <2>1. FileEvents("outcome", c)' = {Len(log) + 1} /\ log'[Len(log) + 1].outcome = o
      BY Zenon, <1>2, <1>3, <1>4, <1>6
  <2>2. \A i \in FileEvents("message", c)' : i < Len(log) + 1
      BY <1>3, <1>4
  <2> QED
      BY Zenon, <1>1, <2>1, <2>2 DEF OutcomeOnce
<1>8. CASE o = "outcome_unknown"
    BY Zenon, <1>1, <1>5, <1>7, <1>8 DEF UnderCapability
<1>9. CASE o # "outcome_unknown"
  <2>1. PICK n, fp, w : n = Len(log) /\ fp = r.fp /\ w = r.writer
      BY Zenon
  <2>2. /\ \A i \in 1..n : CapAt(i, fp, w) => CapAt(i, fp, w)'
        /\ CapAt(n, fp, w) => CapAt(n + 1, fp, w)'
      BY Zenon, <1>1, <1>2, <2>1, CapKept
  <2>3. w = live /\ CapAt(n, fp, w)
      BY Zenon, <1>9, <2>1
  <2>4. \A i \in FileEvents("message", c) : CapAt(i, fp, w)
      BY Zenon, <1>0, <2>1, <2>3 DEF FileLog, UnderCapability
  <2>5. \A i \in FileEvents("message", c)' \cup {n + 1} : CapAt(i, fp, w)'
      BY Zenon, <1>4, <2>1, <2>2, <2>3, <2>4
  <2>6. /\ fileCommand'[c].fp = fp /\ fileCommand'[c].writer = w /\ fileCommand'[c].end = n + 1
        /\ n + 1 \in 1..Len(log')
      BY <1>1, <1>3, <2>1
  <2>7. fileCommand'[c].status \notin {"delivery_pending", "pending"}
      BY Zenon, <1>1 DEF FileOutcome
  <2>8. UnderCapability(c)'
      BY Zenon, <2>5, <2>6, <2>7 DEF UnderCapability
  <2> QED
      BY Zenon, <1>5, <1>7, <2>8
<1> QED
    BY Zenon, <1>8, <1>9
LEMMA LogFrame ==
    ASSUME FileLog, UNCHANGED <<log, live, fileCapability, fileCommand>>
    PROVE  FileLog'
    BY DEF FileLog, MessageOnce, OutcomeOnce, UnderCapability, FileEvents, CapAt

LEMMA RowsFrame ==
    ASSUME FileRows, UNCHANGED <<live, fileCommand, sent>>
    PROVE  FileRows' /\ RowsAdvance
    BY Zenon DEF FileRows, FileWaiting, RowsAdvance

\* What the end of a row leaves of the invariant.
LEMMA EndKeeps ==
    ASSUME FileShape, FileRows, FileLog, NEW c \in FileWaiting, NEW o \in FileOutcome, EndFile(c, o),
           o # "outcome_unknown" => /\ fileCommand[c].writer = live
                                    /\ CapAt(Len(log), fileCommand[c].fp, live),
           UNCHANGED sent,
           \/ UNCHANGED <<live, fileCapability>>
           \/ fileCapability' = NoFileCapability
    PROVE  /\ log' \in Seq(FileEvent) /\ fileCommand' \in [FileCommand -> {NoFileCommand} \cup FileRow]
           /\ FileRows' /\ RowsAdvance /\ FileLog'
<1> DEFINE e == FileOutcomeEvent(c, o)
<1>0. c \in FileCommand
    BY Zenon DEF FileWaiting
<1>1. /\ e \in FileEvent /\ log' = Append(log, e)
      /\ fileCommand' \in [FileCommand -> {NoFileCommand} \cup FileRow]
      /\ \A d \in FileCommand : d # c => fileCommand'[d] = fileCommand[d]
      /\ fileCommand'[c].status = o
    BY Zenon, EndEffect
<1>2. e.type = "outcome" /\ e.cmd = c
    BY Zenon DEF FileOutcomeEvent
<1> HIDE DEF e
<1>3. o \notin {"none", "delivery_pending", "pending"}
    BY Zenon DEF FileOutcome
<1>4. \A d \in FileCommand : d # c => fileCommand[d].status \notin {"delivery_pending", "pending"}
    BY Zenon DEF FileRows, FileWaiting
<1>5. FileRows' /\ RowsAdvance
    BY Zenon, <1>0, <1>1, <1>3, <1>4 DEF FileRows, FileWaiting, RowsAdvance
<1>6. ASSUME NEW d \in FileCommand
      PROVE  (MessageOnce(d) /\ OutcomeOnce(d) /\ UnderCapability(d))'
  <2>1. CASE d = c
      BY Zenon, <2>1, RowEnds
  <2>2. CASE d # c
      BY Zenon, <1>1, <1>2, <1>4, <2>2, RowKept
  <2> QED
      BY Zenon, <2>1, <2>2
<1>7. \/ fileCapability' = NoFileCapability
      \/ /\ fileCapability'.writer = live'
         /\ fileCapability'.writer # 0
         /\ CapAt(Len(log), fileCapability.fp, live)'
  <2>1. CASE fileCapability' # NoFileCapability
    <3>1. PICK n, fp, w : n = Len(log) /\ fp = fileCapability.fp /\ w = live
        BY Zenon
    <3>2. /\ fileCapability.writer = live /\ fileCapability.writer # 0 /\ CapAt(n, fp, w)
          /\ UNCHANGED <<live, fileCapability>>
        BY Zenon, <2>1, <3>1 DEF FileLog
    <3>3. Len(log') = n + 1 /\ CapAt(n + 1, fp, w)'
        BY Zenon, <1>1, <1>2, <3>1, <3>2, LogGrows, CapKept
    <3> QED
        BY Zenon, <3>1, <3>2, <3>3
  <2> QED
      BY Zenon, <2>1
<1>8. FileLog'
    BY Zenon, <1>6, <1>7 DEF FileLog
<1> QED
    BY Zenon, <1>1, <1>5, <1>8, LogGrows

\* The message of a new command.
LEMMA InsertKeeps ==
    ASSUME FileShape, FileRows, FileLog, NEW c \in FileCommand, NEW fp \in Fingerprint,
           fileCommand[c] = NoFileCommand, FileWaiting = {},
           fileCapability.fp = fp, Live(fileCapability.writer),
           log' = Append(log, FileMessage(c)),
           fileCommand' = [fileCommand EXCEPT ![c] =
              [status |-> "delivery_pending", writer |-> 0, fp |-> fp, late |-> FALSE, end |-> 0]],
           UNCHANGED <<live, fileCapability, sent>>
    PROVE  /\ log' \in Seq(FileEvent) /\ fileCommand' \in [FileCommand -> {NoFileCommand} \cup FileRow]
           /\ FileRows' /\ RowsAdvance /\ FileLog'
<1> DEFINE e == FileMessage(c)
           r == [status |-> "delivery_pending", writer |-> 0, fp |-> fp, late |-> FALSE, end |-> 0]
<1>1. e \in FileEvent /\ e.type = "message" /\ e.cmd = c
    BY Zenon DEF FileMessage, FileEvent
<1>2. /\ r \in FileRow /\ r # NoFileCommand /\ r.status = "delivery_pending" /\ r.fp = fp
      /\ r.status \notin FileOutcome
    BY Zenon DEF FileRow, NoFileCommand, FileOutcome
<1>3. /\ fileCommand' \in [FileCommand -> {NoFileCommand} \cup FileRow]
      /\ fileCommand'[c] = r /\ \A d \in FileCommand : d # c => fileCommand'[d] = fileCommand[d]
    BY Zenon, <1>2 DEF FileShape
<1>4. log' = Append(log, e)
    OBVIOUS
<1> HIDE DEF e, r
<1>5. FileRows' /\ RowsAdvance
    BY <1>2, <1>3 DEF FileRows, FileWaiting, RowsAdvance, NoFileCommand
<1>6. PICK n, w : n = Len(log) /\ w = live
    OBVIOUS
<1>7. /\ n \in Nat /\ Len(log') = n + 1 /\ log' \in Seq(FileEvent)
      /\ \A i \in 1..n : i \in 1..Len(log') /\ log'[i] = log[i]
    BY <1>1, <1>4, <1>6, LogGrows
<1>8. fileCapability.writer = live /\ fileCapability.writer # 0 /\ CapAt(n, fp, w)
    BY <1>6 DEF FileLog, Live, NoFileCapability
<1>9. CapAt(n + 1, fp, w)'
    BY Zenon, <1>1, <1>4, <1>6, <1>8, CapKept
<1>10. /\ FileEvents("message", c)' = {n + 1}
       /\ FileEvents("outcome", c)' = {}
  <2>1. /\ FileEvents("message", c)' = FileEvents("message", c) \cup {n + 1}
        /\ FileEvents("outcome", c)' = FileEvents("outcome", c)
      BY Zenon, <1>1, <1>4, <1>6, EventsGrow
  <2>2. FileEvents("message", c) = {} /\ FileEvents("outcome", c) = {}
      BY DEF FileLog, MessageOnce, OutcomeOnce, NoFileCommand, FileOutcome
  <2> QED
      BY Zenon, <2>1, <2>2
<1>11. MessageOnce(c)' /\ OutcomeOnce(c)' /\ UnderCapability(c)'
  <2>1. n + 1 \in 1..Len(log')
      BY <1>7
  <2>2. MessageOnce(c)'
      BY Zenon, <1>2, <1>3, <1>10, <2>1 DEF MessageOnce
  <2>3. OutcomeOnce(c)'
      BY Zenon, <1>2, <1>3, <1>10 DEF OutcomeOnce
  <2>4. UnderCapability(c)'
      BY Zenon, <1>2, <1>3, <1>6, <1>9, <1>10 DEF UnderCapability
  <2> QED
      BY Zenon, <2>2, <2>3, <2>4
<1>12. ASSUME NEW d \in FileCommand, d # c
       PROVE  (MessageOnce(d) /\ OutcomeOnce(d) /\ UnderCapability(d))'
    BY Zenon, <1>1, <1>3, <1>4, <1>12, RowKept
<1>13. FileLog'
    BY Zenon, <1>6, <1>7, <1>8, <1>9, <1>11, <1>12 DEF FileLog
<1> QED
    BY Zenon, <1>3, <1>5, <1>7, <1>13

\* A row that is bound, or grows late, keeps its place in the log.
LEMMA RowMoves ==
    ASSUME FileShape, FileLog, UNCHANGED <<log, live, fileCapability>>,
           \A c \in FileCommand :
              \/ fileCommand'[c] = fileCommand[c]
              \/ /\ fileCommand[c] # NoFileCommand /\ fileCommand'[c] # NoFileCommand
                 /\ fileCommand[c].status \in {"delivery_pending", "pending"}
                 /\ fileCommand'[c].status \in {"delivery_pending", "pending"}
                 /\ fileCommand'[c].fp = fileCommand[c].fp
    PROVE  FileLog'
<1>1. \A t, c : FileEvents(t, c)' = FileEvents(t, c)
    BY Zenon DEF FileEvents
<1>2. \A i, fp, w : CapAt(i, fp, w)' = CapAt(i, fp, w)
    BY Zenon DEF CapAt
<1>3. ASSUME NEW c \in FileCommand
      PROVE  MessageOnce(c)' /\ OutcomeOnce(c)' /\ UnderCapability(c)'
  <2>1. CASE fileCommand'[c] = fileCommand[c]
      BY Zenon, <1>1, <1>2, <2>1 DEF FileLog, MessageOnce, OutcomeOnce, UnderCapability
  <2>2. CASE fileCommand'[c] # fileCommand[c]
    <3>1. MessageOnce(c)'
        BY Zenon, <1>1, <2>2 DEF FileLog, MessageOnce
    <3>2. OutcomeOnce(c)'
        BY Zenon, <1>1, <2>2 DEF FileLog, OutcomeOnce, FileOutcome
    <3>3. UnderCapability(c)'
        BY Zenon, <1>1, <1>2, <2>2 DEF FileLog, UnderCapability
    <3> QED
        BY Zenon, <3>1, <3>2, <3>3
  <2> QED
      BY Zenon, <2>1, <2>2
<1>4. CapAt(Len(log), fileCapability.fp, live)' = CapAt(Len(log), fileCapability.fp, live)
    BY Zenon DEF CapAt
<1> QED
    BY Zenon, <1>3, <1>4 DEF FileLog

LEMMA BindStep ==
    ASSUME FileInv, NEW h \in Sender, AcknowledgeFileReferenceDelivery(h)
    PROVE  FileInv'
<1> DEFINE c == handler[h].cmd  w == handler[h].w
<1> USE DEF sessionVars
<1>0. handler[h] \in BusySender
    BY DEF FileInv, FileShape, Idle, AcknowledgeFileReferenceDelivery
<1>1. c \in FileCommand /\ w \in Nat
    BY Zenon, <1>0 DEF BusySender
<1>2. CASE Done(h) /\ UNCHANGED fileCommand
  <2>1. FileLog' /\ FileRows' /\ RowsAdvance
      BY Zenon, <1>2, LogFrame, RowsFrame DEF AcknowledgeFileReferenceDelivery, FileInv
  <2>2. /\ handler' \in [Sender -> {Idle} \cup BusySender]
        /\ handler'[h].step = "idle" /\ \A g \in Sender : g # h => handler'[g] = handler[g]
      BY Zenon, <1>2, HandlerMoves DEF FileInv
  <2>3. FileRouted'
      BY Zenon, <2>1, <2>2, RoutedKept DEF FileInv
  <2> QED
      BY Zenon, <1>2, <2>1, <2>2, <2>3 DEF AcknowledgeFileReferenceDelivery, FileInv, FileShape
<1>3. CASE /\ Live(w) /\ fileCommand[c].status = "delivery_pending"
           /\ fileCommand' = [fileCommand EXCEPT ![c].status = "pending", ![c].writer = w]
           /\ Goto(h, "route")
  <2>1. fileCommand[c] \in FileRow
      BY <1>1, <1>3 DEF FileInv, FileShape, NoFileCommand
  <2>2. [fileCommand[c] EXCEPT !.status = "pending", !.writer = w] \in FileRow
      BY Zenon, <1>1, <2>1 DEF FileRow
  <2>3. /\ fileCommand' \in [FileCommand -> {NoFileCommand} \cup FileRow]
        /\ \A d \in FileCommand : d # c => fileCommand'[d] = fileCommand[d]
        /\ fileCommand'[c] = [fileCommand[c] EXCEPT !.status = "pending", !.writer = w]
      BY Zenon, <1>1, <1>3, <2>2 DEF FileInv, FileShape
  <2>4. /\ fileCommand'[c].status = "pending" /\ fileCommand'[c].writer = w
        /\ fileCommand'[c].fp = fileCommand[c].fp
      BY Zenon, <2>1, <2>3 DEF FileRow
  <2>5. UNCHANGED <<log, live, registered, fileCapability, sent>>
      BY Zenon DEF AcknowledgeFileReferenceDelivery
  <2>6. FileRows' /\ RowsAdvance
    <3>1. w = live /\ fileCommand[c].status = "delivery_pending"
        BY Zenon, <1>3 DEF Live
    <3>2. \A d \in FileCommand : d # c => fileCommand[d].status \notin {"delivery_pending", "pending"}
        BY Zenon, <1>1, <3>1 DEF FileInv, FileRows, FileWaiting
    <3>3. \A d \in FileCommand : /\ d = c => fileCommand'[d].status = "pending" /\ fileCommand'[d].writer = live
                                 /\ d # c => fileCommand'[d] = fileCommand[d]
        BY Zenon, <1>1, <2>3, <2>4, <3>1
    <3> HIDE DEF c
    <3> QED
        BY Zenon, <2>5, <3>1, <3>2, <3>3 DEF FileInv, FileRows, FileWaiting, RowsAdvance
  <2>7. FileLog'
    <3>0. fileCommand[c].status = "delivery_pending" /\ fileCommand'[c].status = "pending"
        BY Zenon, <1>3, <2>4
    <3>1. fileCommand[c] # NoFileCommand /\ fileCommand'[c] # NoFileCommand
        BY <3>0 DEF NoFileCommand
    <3> QED
        BY Zenon, <1>1, <1>3, <2>3, <2>4, <2>5, <3>1, RowMoves DEF FileInv
  <2>8. /\ handler' \in [Sender -> {Idle} \cup BusySender]
        /\ handler'[h].step = "route" /\ handler'[h].cmd = handler[h].cmd
        /\ \A g \in Sender : g # h => handler'[g] = handler[g]
      BY Zenon, <1>3, HandlerGoes DEF FileInv, AcknowledgeFileReferenceDelivery
  <2>9. FileRouted'
      BY Zenon, <1>1, <2>4, <2>6, <2>8, RoutedKept DEF FileInv
  <2> QED
      BY Zenon, <2>3, <2>5, <2>6, <2>7, <2>8, <2>9 DEF FileInv, FileShape
<1> QED
    BY Zenon, <1>2, <1>3 DEF AcknowledgeFileReferenceDelivery

LEMMA CommitStep ==
    ASSUME FileInv, NEW h \in Sender, CommitFileReferenceCommand(h)
    PROVE  FileInv'
<1> DEFINE c == handler[h].cmd  fp == handler[h].fp
<1>0. handler[h] \in BusySender
    BY DEF FileInv, FileShape, Idle, CommitFileReferenceCommand
<1>1. c \in FileCommand /\ fp \in Fingerprint
    BY Zenon, <1>0 DEF BusySender
<1>2. UNCHANGED <<live, registered, fileCapability, sent>>
    BY Zenon DEF CommitFileReferenceCommand
<1>3. CASE UNCHANGED <<log, fileCommand>> /\ Done(h)
  <2>1. FileLog' /\ FileRows' /\ RowsAdvance
      BY Zenon, <1>2, <1>3, LogFrame, RowsFrame DEF FileInv
  <2>2. /\ handler' \in [Sender -> {Idle} \cup BusySender]
        /\ handler'[h].step = "idle" /\ \A g \in Sender : g # h => handler'[g] = handler[g]
      BY Zenon, <1>3, HandlerMoves DEF FileInv
  <2>3. FileRouted'
      BY Zenon, <2>1, <2>2, RoutedKept DEF FileInv
  <2> QED
      BY Zenon, <1>2, <1>3, <2>1, <2>2, <2>3 DEF FileInv, FileShape
<1>4. CASE UNCHANGED <<log, fileCommand>> /\ Goto(h, "route") /\ fileCommand[c].status = "pending"
  <2>1. FileLog' /\ FileRows' /\ RowsAdvance
      BY Zenon, <1>2, <1>4, LogFrame, RowsFrame DEF FileInv
  <2>2. /\ handler' \in [Sender -> {Idle} \cup BusySender]
        /\ handler'[h].step = "route" /\ handler'[h].cmd = handler[h].cmd
        /\ \A g \in Sender : g # h => handler'[g] = handler[g]
      BY Zenon, <1>4, HandlerGoes DEF FileInv, CommitFileReferenceCommand
  <2>3. FileRouted'
      BY Zenon, <1>1, <1>4, <2>1, <2>2, RoutedKept DEF FileInv
  <2> QED
      BY Zenon, <1>2, <1>4, <2>1, <2>2, <2>3 DEF FileInv, FileShape
<1>5. CASE /\ fileCommand[c] = NoFileCommand
           /\ fileCapability.fp = fp /\ Live(fileCapability.writer) /\ FileWaiting = {}
           /\ log' = Append(log, FileMessage(c))
           /\ fileCommand' = [fileCommand EXCEPT ![c] =
                [status |-> "delivery_pending", writer |-> 0, fp |-> fp, late |-> FALSE, end |-> 0]]
           /\ Goto(h, "bind")
  <2>1. /\ log' \in Seq(FileEvent) /\ fileCommand' \in [FileCommand -> {NoFileCommand} \cup FileRow]
        /\ FileRows' /\ RowsAdvance /\ FileLog'
      BY Zenon, <1>1, <1>2, <1>5, InsertKeeps DEF FileInv
  <2>2. /\ handler' \in [Sender -> {Idle} \cup BusySender]
        /\ handler'[h].step = "bind" /\ handler'[h].cmd = handler[h].cmd
        /\ \A g \in Sender : g # h => handler'[g] = handler[g]
      BY Zenon, <1>5, HandlerGoes DEF FileInv, CommitFileReferenceCommand
  <2>3. FileRouted'
      BY Zenon, <2>1, <2>2, RoutedKept DEF FileInv
  <2> QED
      BY Zenon, <1>2, <2>1, <2>2, <2>3 DEF FileInv, FileShape
<1> QED
    BY Zenon, <1>3, <1>4, <1>5 DEF CommitFileReferenceCommand

LEMMA RouteStep ==
    ASSUME FileInv, NEW h \in Sender, routeFileReference(h)
    PROVE  FileInv'
<1> DEFINE c == handler[h].cmd
<1> USE DEF sessionVars
<1>0. handler[h] \in BusySender
    BY DEF FileInv, FileShape, Idle, routeFileReference
<1>1. c \in FileCommand /\ fileCommand[c].status \notin {"none", "delivery_pending"}
    BY Zenon, <1>0 DEF BusySender, FileInv, FileRouted, routeFileReference
<1>2. UNCHANGED <<log, live, registered, fileCapability, fileCommand>>
    BY Zenon DEF routeFileReference
<1>3. sent' \in [FileCommand -> Nat] /\ \A d \in FileCommand : d # c => sent'[d] = sent[d]
    BY <1>1 DEF routeFileReference, Arrives, FileInv, FileShape
<1>4. FileRows' /\ RowsAdvance
    BY Zenon, <1>1, <1>2, <1>3 DEF FileInv, FileRows, FileWaiting, RowsAdvance
<1>5. FileLog'
    BY Zenon, <1>2, LogFrame DEF FileInv
<1>6. CASE Done(h)
  <2>1. /\ handler' \in [Sender -> {Idle} \cup BusySender]
        /\ handler'[h].step = "idle" /\ \A g \in Sender : g # h => handler'[g] = handler[g]
      BY Zenon, <1>6, HandlerMoves DEF FileInv
  <2>2. FileRouted'
      BY Zenon, <1>4, <2>1, RoutedKept DEF FileInv
  <2> QED
      BY Zenon, <1>2, <1>3, <1>4, <1>5, <2>1, <2>2 DEF FileInv, FileShape
<1>7. CASE Goto(h, "recover")
  <2>1. /\ handler' \in [Sender -> {Idle} \cup BusySender]
        /\ handler'[h].step = "recover" /\ handler'[h].cmd = handler[h].cmd
        /\ \A g \in Sender : g # h => handler'[g] = handler[g]
      BY Zenon, <1>7, HandlerGoes DEF FileInv, routeFileReference
  <2>2. handler[h].step = "route"
      BY Zenon DEF routeFileReference
  <2>3. FileRouted'
      BY Zenon, <1>4, <2>1, <2>2, RoutedKept DEF FileInv
  <2> QED
      BY Zenon, <1>2, <1>3, <1>4, <1>5, <2>1, <2>3 DEF FileInv, FileShape
<1> QED
    BY Zenon, <1>6, <1>7 DEF routeFileReference

LEMMA RecoverStep ==
    ASSUME FileInv, NEW h \in Sender, RecoverFileReferenceCommand(h)
    PROVE  FileInv'
<1> DEFINE c == handler[h].cmd
<1>0. handler[h] \in BusySender
    BY DEF FileInv, FileShape, Idle, RecoverFileReferenceCommand
<1>1. c \in FileCommand
    BY Zenon, <1>0 DEF BusySender
<1>2. UNCHANGED <<live, registered, fileCapability, sent>>
    BY Zenon DEF RecoverFileReferenceCommand
<1>3. /\ log' \in Seq(FileEvent) /\ fileCommand' \in [FileCommand -> {NoFileCommand} \cup FileRow]
      /\ FileRows' /\ RowsAdvance /\ FileLog'
  <2>1. CASE fileCommand[c].status = "pending"
    <3>1. c \in FileWaiting /\ EndFile(c, "outcome_unknown") /\ "outcome_unknown" \in FileOutcome
        BY Zenon, <1>1, <2>1 DEF FileWaiting, RecoverFileReferenceCommand, FileOutcome
    <3> QED
        BY Zenon, <1>2, <3>1, EndKeeps DEF FileInv
  <2>2. CASE fileCommand[c].status # "pending"
    <3>1. UNCHANGED <<log, fileCommand>>
        BY Zenon, <2>2 DEF RecoverFileReferenceCommand
    <3> QED
        BY Zenon, <1>2, <3>1, LogFrame, RowsFrame DEF FileInv, FileShape
  <2> QED
      BY Zenon, <2>1, <2>2
<1>4. /\ handler' \in [Sender -> {Idle} \cup BusySender]
      /\ handler'[h].step = "idle" /\ \A g \in Sender : g # h => handler'[g] = handler[g]
    BY Zenon, HandlerMoves DEF FileInv, RecoverFileReferenceCommand
<1>5. FileRouted'
    BY Zenon, <1>3, <1>4, RoutedKept DEF FileInv
<1> QED
    BY Zenon, <1>2, <1>3, <1>4, <1>5 DEF FileInv, FileShape

LEMMA FinalizeStep ==
    ASSUME FileInv, NEW c \in FileCommand, NEW w, NEW o \in FileOutcome,
           finalizeFileReferenceOutcome(c, w, o)
    PROVE  FileInv'
<1>1. UNCHANGED <<live, registered, fileCapability, sent, handler>>
    BY Zenon DEF finalizeFileReferenceOutcome
<1>2. /\ log' \in Seq(FileEvent) /\ fileCommand' \in [FileCommand -> {NoFileCommand} \cup FileRow]
      /\ FileRows' /\ RowsAdvance /\ FileLog'
  <2>1. CASE MayFinalizeFile(c, w, o) /\ EndFile(c, o)
    <3>1. c \in FileWaiting /\ fileCommand[c].writer = live
        BY Zenon, <2>1 DEF FileWaiting, MayFinalizeFile, FileInv, FileRows
    <3>2. o # "outcome_unknown" => CapAt(Len(log), fileCommand[c].fp, live)
      <4>1. ASSUME o # "outcome_unknown"
            PROVE  CapAt(Len(log), fileCommand[c].fp, live)
        <5>1. fileCapability = [fp |-> fileCommand[c].fp, writer |-> w] /\ w > 0
            BY Zenon, <2>1, <4>1 DEF MayFinalizeFile, Live
        <5>2. fileCapability # NoFileCapability /\ fileCapability.fp = fileCommand[c].fp
            BY <5>1 DEF NoFileCapability
        <5> QED
            BY Zenon, <5>2 DEF FileInv, FileLog
      <4> QED
          BY Zenon, <4>1
    <3> QED
        BY Zenon, <1>1, <2>1, <3>1, <3>2, EndKeeps DEF FileInv
  <2>2. CASE UNCHANGED <<log, fileCommand>>
      BY Zenon, <1>1, <2>2, LogFrame, RowsFrame DEF FileInv, FileShape
  <2> QED
      BY Zenon, <2>1, <2>2 DEF finalizeFileReferenceOutcome
<1>3. FileRouted'
    BY Zenon, <1>1, <1>2, RoutedKept DEF FileInv
<1> QED
    BY Zenon, <1>1, <1>2, <1>3 DEF FileInv, FileShape

\* fenceFileReferenceCommandsAfterWriterReplacement: no row stays open over a
\* hello.
LEMMA HelloStep ==
    ASSUME FileInv, fileHello
    PROVE  FileInv'
<1>1. /\ live' \in Nat /\ registered' \in Nat /\ UNCHANGED <<sent, handler>>
      /\ fileCapability' = NoFileCapability
    BY DEF fileHello, acceptHello, FileInv, FileShape
<1>2. /\ log' \in Seq(FileEvent) /\ fileCommand' \in [FileCommand -> {NoFileCommand} \cup FileRow]
      /\ FileRows' /\ RowsAdvance /\ FileLog'
  <2>1. ASSUME NEW c \in FileWaiting, EndFile(c, "outcome_unknown")
        PROVE  /\ log' \in Seq(FileEvent) /\ fileCommand' \in [FileCommand -> {NoFileCommand} \cup FileRow]
               /\ FileRows' /\ RowsAdvance /\ FileLog'
    <3>1. "outcome_unknown" \in FileOutcome
        BY Zenon DEF FileOutcome
    <3> QED
        BY Zenon, <1>1, <2>1, <3>1, EndKeeps DEF FileInv
  <2>2. CASE FileWaiting = {} /\ UNCHANGED <<log, fileCommand>>
    <3>1. \A c \in FileCommand : fileCommand[c].status \notin {"delivery_pending", "pending"}
        BY Zenon, <2>2 DEF FileWaiting
    <3>2. FileRows' /\ RowsAdvance
        BY Zenon, <1>1, <2>2, <3>1 DEF FileInv, FileRows, FileWaiting, RowsAdvance
    <3>3. \A c \in FileCommand : MessageOnce(c)' /\ OutcomeOnce(c)' /\ UnderCapability(c)'
        BY <2>2, <3>1 DEF FileInv, FileLog, MessageOnce, OutcomeOnce, UnderCapability, FileEvents, CapAt
    <3> QED
        BY Zenon, <1>1, <2>2, <3>2, <3>3 DEF FileInv, FileShape, FileLog
  <2> QED
      BY Zenon, <2>1, <2>2 DEF fileHello
<1>3. FileRouted'
    BY Zenon, <1>1, <1>2, RoutedKept DEF FileInv
<1> QED
    BY Zenon, <1>1, <1>2, <1>3 DEF FileInv, FileShape

LEMMA CapabilityStep ==
    ASSUME FileInv, NEW w, NEW fp \in Fingerprint, commitFileReferenceCapabilityProposal(w, fp)
    PROVE  FileInv'
<1> DEFINE e == [type |-> "filecaps", fp |-> fp, writer |-> w]
<1>1. w = live /\ w # 0 /\ w \in Nat
    BY DEF commitFileReferenceCapabilityProposal, PublishFileReferenceCapability, CanEffect, Live, FileInv, FileShape
<1>2. e \in FileEvent /\ e.type = "filecaps" /\ e.fp = fp /\ e.writer = w
    BY Zenon, <1>1 DEF FileEvent
<1>3. log' = Append(log, e) /\ fileCapability' = [fp |-> fp, writer |-> w]
    BY Zenon DEF commitFileReferenceCapabilityProposal, PublishFileReferenceCapability
<1>4. UNCHANGED <<live, registered, fileCommand, handler, sent>>
    BY Zenon DEF commitFileReferenceCapabilityProposal, PublishFileReferenceCapability
<1> HIDE DEF e
<1>5. \A c \in FileCommand : (MessageOnce(c) /\ OutcomeOnce(c) /\ UnderCapability(c))'
    BY Zenon, <1>2, <1>3, <1>4, RowKept DEF FileInv
<1>6. PICK n : n = Len(log)
    BY Zenon
<1>7. Len(log') = n + 1 /\ log' \in Seq(FileEvent) /\ CapAt(n + 1, fp, w)'
    BY Zenon, <1>2, <1>3, <1>6, LogGrows, CapKept DEF FileInv
<1>8. fileCapability'.fp = fp /\ fileCapability'.writer = w
    BY Zenon, <1>3
<1>9. FileLog'
    BY Zenon, <1>1, <1>4, <1>5, <1>7, <1>8 DEF FileLog
<1>10. FileRows' /\ RowsAdvance
    BY Zenon, <1>4, RowsFrame DEF FileInv
<1>11. FileRouted'
    BY Zenon, <1>4, <1>10, RoutedKept DEF FileInv
<1> QED
    BY Zenon, <1>4, <1>7, <1>9, <1>10, <1>11 DEF FileInv, FileShape

LEMMA ElapseStep ==
    ASSUME FileInv, NEW c \in FileCommand, fileElapse(c)
    PROVE  FileInv'
<1> USE DEF sessionVars
<1>0. fileCommand[c].status = "delivery_pending"
    BY Zenon DEF fileElapse
<1>1. fileCommand[c] \in FileRow
    BY <1>0 DEF FileInv, FileShape, NoFileCommand
<1>2. [fileCommand[c] EXCEPT !.late = TRUE] \in FileRow
    BY Zenon, <1>1 DEF FileRow
<1>3. fileCommand' = [fileCommand EXCEPT ![c] = [fileCommand[c] EXCEPT !.late = TRUE]]
    BY Zenon DEF fileElapse
<1>4. /\ fileCommand' \in [FileCommand -> {NoFileCommand} \cup FileRow]
      /\ \A d \in FileCommand : d # c => fileCommand'[d] = fileCommand[d]
      /\ fileCommand'[c] = [fileCommand[c] EXCEPT !.late = TRUE]
    BY Zenon, <1>2, <1>3 DEF FileInv, FileShape
<1>5. /\ fileCommand'[c].status = "delivery_pending" /\ fileCommand'[c].writer = fileCommand[c].writer
      /\ fileCommand'[c].fp = fileCommand[c].fp
    BY Zenon, <1>0, <1>1, <1>4 DEF FileRow
<1>6. UNCHANGED <<log, live, registered, fileCapability, sent, handler>>
    BY Zenon DEF fileElapse
<1>7. FileRows' /\ RowsAdvance
  <2>1. \A d \in FileCommand : fileCommand'[d].status = fileCommand[d].status
                               /\ fileCommand'[d].writer = fileCommand[d].writer
      BY Zenon, <1>0, <1>4, <1>5
  <2> QED
      BY Zenon, <1>6, <2>1 DEF FileInv, FileRows, FileWaiting, RowsAdvance
<1>8. FileLog'
  <2>1. fileCommand[c] # NoFileCommand /\ fileCommand'[c] # NoFileCommand
      BY <1>0, <1>5 DEF NoFileCommand
  <2> QED
      BY Zenon, <1>0, <1>4, <1>5, <1>6, <2>1, RowMoves DEF FileInv
<1>9. FileRouted'
    BY Zenon, <1>6, <1>7, RoutedKept DEF FileInv
<1> QED
    BY Zenon, <1>4, <1>6, <1>7, <1>8, <1>9 DEF FileInv, FileShape

\* The steps that touch neither the log nor a row.
LEMMA QuietStep ==
    ASSUME FileInv,
           \/ fileLapse \/ fileCrash \/ UNCHANGED allFileVars
           \/ \E w \in Writers : fileDrop(w)
           \/ \E h \in Sender, c \in FileCommand, fp \in Fingerprint : handleFileReferenceSend(h, c, fp)
    PROVE  FileInv'
<1> USE DEF sessionVars
<1>1. UNCHANGED <<log, live, fileCapability, fileCommand, sent>>
    BY Zenon DEF fileLapse, lapse, fileCrash, crashHub, fileDrop, dropConnection, handleFileReferenceSend,
           fileVars, allFileVars
<1>2. registered' \in Nat
  <2>1. \/ UNCHANGED registered \/ registered' = 0
        \/ \E w \in Writers : registered' = IF registered = w THEN 0 ELSE registered
      BY Zenon DEF fileLapse, lapse, fileCrash, crashHub, fileDrop, dropConnection, unregister,
             handleFileReferenceSend, allFileVars
  <2> QED
      BY <2>1 DEF FileInv, FileShape
<1>3. FileLog' /\ FileRows' /\ RowsAdvance
    BY Zenon, <1>1, LogFrame, RowsFrame DEF FileInv
<1>4. /\ handler' \in [Sender -> {Idle} \cup BusySender]
      /\ \A h \in Sender : handler'[h] = handler[h] \/ handler'[h].step \in {"idle", "commit"}
  <2>1. CASE fileLapse \/ (\E w \in Writers : fileDrop(w)) \/ UNCHANGED allFileVars
    <3>1. UNCHANGED handler
        BY Zenon, <2>1 DEF fileLapse, fileDrop, fileVars, allFileVars
    <3> QED
        BY Zenon, <3>1 DEF FileInv, FileShape
  <2>2. CASE fileCrash
      BY Zenon, <2>2 DEF fileCrash, Idle
  <2>3. ASSUME NEW h \in Sender, NEW c \in FileCommand, NEW fp \in Fingerprint,
               handleFileReferenceSend(h, c, fp)
        PROVE  /\ handler' \in [Sender -> {Idle} \cup BusySender]
               /\ \A g \in Sender : handler'[g] = handler[g] \/ handler'[g].step \in {"idle", "commit"}
    <3>1. [step |-> "commit", cmd |-> c, w |-> registered, fp |-> fp] \in BusySender
        BY Zenon DEF BusySender, FileInv, FileShape
    <3> QED
        BY Zenon, <2>3, <3>1 DEF handleFileReferenceSend, FileInv, FileShape
  <2> QED
      BY Zenon, <2>1, <2>2, <2>3
<1>5. FileRouted'
    BY Zenon, <1>3, <1>4, RoutedKept DEF FileInv
<1> QED
    BY Zenon, <1>1, <1>2, <1>3, <1>4, <1>5 DEF FileInv, FileShape

LEMMA FileStart == FileInit => FileInv
<1> SUFFICES ASSUME FileInit PROVE FileInv
    OBVIOUS
<1>1. FileShape
    BY DEF FileInit, SessionInit, FileShape
<1>2. \A c \in FileCommand : fileCommand[c] = NoFileCommand
    BY Zenon DEF FileInit
<1>3. \A h \in Sender : handler[h].step = "idle"
    BY Zenon DEF FileInit, Idle
<1>4. FileRows
    BY Zenon, <1>2 DEF FileInit, FileRows, FileWaiting, NoFileCommand
<1>5. FileRouted
    BY Zenon, <1>3 DEF FileRouted
<1>6. \A t, c : FileEvents(t, c) = {}
    BY DEF FileInit, FileEvents
<1>7. \A c \in FileCommand : MessageOnce(c) /\ OutcomeOnce(c) /\ UnderCapability(c)
    BY <1>2, <1>6 DEF MessageOnce, OutcomeOnce, UnderCapability, NoFileCommand, FileOutcome
<1> QED
    BY Zenon, <1>1, <1>4, <1>5, <1>7 DEF FileInv, FileLog, FileInit

LEMMA FileStep == FileInv /\ [FileNext]_allFileVars => FileInv'
<1> SUFFICES ASSUME FileInv, [FileNext]_allFileVars PROVE FileInv'
    OBVIOUS
<1>1. CASE \/ fileLapse \/ fileCrash \/ UNCHANGED allFileVars
           \/ \E w \in Writers : fileDrop(w)
           \/ \E h \in Sender, c \in FileCommand, fp \in Fingerprint : handleFileReferenceSend(h, c, fp)
    BY Zenon, <1>1, QuietStep
<1>2. CASE fileHello
    BY Zenon, <1>2, HelloStep
<1>3. ASSUME NEW w \in Writers, NEW fp \in Fingerprint, commitFileReferenceCapabilityProposal(w, fp)
      PROVE  FileInv'
    BY Zenon, <1>3, CapabilityStep
<1>4. ASSUME NEW h \in Sender,
             \/ CommitFileReferenceCommand(h) \/ AcknowledgeFileReferenceDelivery(h)
             \/ routeFileReference(h) \/ RecoverFileReferenceCommand(h)
      PROVE  FileInv'
    BY Zenon, <1>4, CommitStep, BindStep, RouteStep, RecoverStep
<1>5. ASSUME NEW c \in FileCommand, NEW w \in Writers, NEW o \in FileOutcome,
             finalizeFileReferenceOutcome(c, w, o)
      PROVE  FileInv'
    BY Zenon, <1>5, FinalizeStep
<1>6. ASSUME NEW c \in FileCommand, fileElapse(c)
      PROVE  FileInv'
    BY Zenon, <1>6, ElapseStep
<1> QED
    BY Zenon, <1>1, <1>2, <1>3, <1>4, <1>5, <1>6 DEF FileNext

LEMMA FileInvHolds == FileSpec => []FileInv
    BY FileStart, FileStep, PTL DEF FileSpec

\* A bound row belongs to the live writer and an unbound one was at no Adapter,
\* whatever connections come and go: a hello ends every open row in its own
\* transaction (fenceFileReferenceCommandsAfterWriterReplacement).
THEOREM NoAdoptedFile == FileSpec => []BoundFileIsLive
<1>1. FileInv => BoundFileIsLive
    BY Zenon DEF FileInv, FileRows, BoundFileIsLive, FileWaiting
<1> QED
    BY <1>1, FileInvHolds, PTL

\* The ledger and the log tell the same story: a message and its outcome once
\* each, in that order, and an Adapter's answer under the capability that stood
\* when the row was made and when it was answered.
THEOREM TrueFileOutcome == FileSpec => []FileOutcomeIsTrue
<1>1. FileInv => FileLedgerMatchesLog
    BY Zenon DEF FileInv, FileLog, FileLedgerMatchesLog, MessageOnce, OutcomeOnce
<1>2. FileInv => FileUnderItsCapability
  <2> SUFFICES ASSUME FileInv, NEW c \in FileCommand, fileCommand[c].status \in {"delivered", "rejected"},
                      NEW i \in FileEvents("message", c) \cup {fileCommand[c].end}
               PROVE  LET j == Max({j \in 1..i : log[j].type = "filecaps"})
                      IN  log[j].fp = fileCommand[c].fp /\ log[j].writer = fileCommand[c].writer
      BY Zenon DEF FileUnderItsCapability
  <2>1. CapAt(i, fileCommand[c].fp, fileCommand[c].writer)
      BY Zenon DEF FileInv, FileLog, UnderCapability
  <2>2. i \in 1..Len(log) /\ Len(log) \in Nat
      BY DEF FileInv, FileLog, UnderCapability, FileShape, FileEvents
  <2>3. PICK j \in 1..i : /\ log[j].type = "filecaps"
                          /\ log[j].fp = fileCommand[c].fp /\ log[j].writer = fileCommand[c].writer
                          /\ \A k \in (j + 1)..i : log[k].type # "filecaps"
      BY Zenon, <2>1 DEF CapAt
  <2>4. PICK S : S = {k \in 1..i : log[k].type = "filecaps"}
      BY Zenon
  <2>5. j \in S /\ \A k \in S : k \in Int /\ j >= k
      BY <2>2, <2>3, <2>4
  <2>6. Max(S) \in S /\ \A k \in S : Max(S) >= k
      BY Zenon, <2>5 DEF Max
  <2>7. Max(S) = j
    <3>1. PICK m : m = Max(S)
        OBVIOUS
    <3>2. m \in Int /\ j \in Int /\ j >= m /\ m >= j
        BY Zenon, <2>5, <2>6, <3>1
    <3> QED
        BY <3>1, <3>2
  <2> QED
      BY Zenon, <2>3, <2>4, <2>7
<1> QED
    BY <1>1, <1>2, FileInvHolds, PTL DEF FileOutcomeIsTrue
=============================================================================
