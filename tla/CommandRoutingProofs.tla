------------------------ MODULE CommandRoutingProofs ------------------------
(***************************************************************************)
(* Proofs, for any commands, requests, windows, buffer and Adapters, that  *)
(* the permission decisions the Hub accepts are final: the first stands,   *)
(* the log has the accepted ones, and none of them is lost.                *)
(***************************************************************************)
EXTENDS CommandRouting, TLAPS

\* A command on its way has room in the buffer and no decision on its request
\* in the window.
OnItsWayHasRoom ==
    /\ mu.op \in {"persist", "buffer"} => mu.cmd \in Responses
    /\ mu.op \in {"route", "write"} => mu.cmd \in RoutedCmd
    /\ mu.op \in {"persist", "route", "write", "buffer"} /\ mu.cmd \in Responses =>
         Len(pendingCommands) < BufferCap /\ ~Holds(decisionOrder, RequestOf[mu.cmd])

\* h.decisions has the requests that were decided last.
WindowIsLatest ==
    /\ Len(decisionOrder) <= Len(decided)
    /\ Len(decisionOrder) < DecisionWindow => Len(decisionOrder) = Len(decided)
    /\ \A k \in 1..Len(decisionOrder) :
          decisionOrder[k] = decided[Len(decided) - Len(decisionOrder) + k]

\* What waits, and what was written whole, was accepted; what waits twice was
\* accepted twice.
WaitingWasRuled ==
    /\ \A i \in 1..Len(pendingCommands) : Holds(ruled, pendingCommands[i])
    /\ \A c \in Responses : c \in sentToAdapter => c \in torn \/ Holds(ruled, c)
    /\ \A i, j \in 1..Len(pendingCommands) :
          i < j /\ pendingCommands[i] = pendingCommands[j] => RuledTwice(pendingCommands[i])

RoutingInv ==
    /\ RoutingTypeOK /\ OnItsWayHasRoom /\ WindowIsLatest /\ WaitingWasRuled /\ DecisionsAreFinal

-----------------------------------------------------------------------------
(***************************************************************************)
(* The buffer and the windows.                                             *)
(***************************************************************************)

\* What is left of the buffer, and where.
LEMMA PrunedBuffer ==
    ASSUME RoutingTypeOK, NEW added \in Seq(Responses), prunePendingCommandsLocked(added)
    PROVE  /\ pendingCommands' \in Seq(Responses) /\ late' = 0
           /\ Len(pendingCommands') = Len(pendingCommands) - late + Len(added)
           /\ \A i \in 1..(Len(pendingCommands) - late) : pendingCommands'[i] = pendingCommands[i + late]
           /\ \A i \in 1..Len(added) :
                 pendingCommands'[Len(pendingCommands) - late + i] = added[i]
           /\ lapsed \subseteq lapsed' /\ lapsed' \subseteq Responses
           /\ \A i \in 1..late : pendingCommands[i] \in lapsed'
<1> DEFINE p == pendingCommands
           q == PendingNow
<1>1. p \in Seq(Responses) /\ late \in 0..Len(p) /\ Len(p) \in Nat /\ lapsed \subseteq Responses
    BY DEF RoutingTypeOK
<1>2. q \in Seq(Responses) /\ Len(q) = Len(p) - late /\ \A i \in 1..(Len(p) - late) : q[i] = p[i + late]
    BY <1>1 DEF PendingNow
<1>3. pendingCommands' = q \o added /\ late' = 0 /\ lapsed' = lapsed \cup LateCommands
    BY Zenon DEF prunePendingCommandsLocked
<1>4. LateCommands \subseteq Responses /\ \A i \in 1..late : p[i] \in LateCommands
    BY <1>1 DEF LateCommands
<1> HIDE DEF q
<1>5. /\ pendingCommands' \in Seq(Responses)
      /\ Len(pendingCommands') = Len(q) + Len(added)
      /\ \A i \in 1..Len(q) : pendingCommands'[i] = q[i]
      /\ \A i \in 1..Len(added) : pendingCommands'[Len(q) + i] = added[i]
  <2>1. q \in Seq(Responses)
      BY Zenon, <1>2
  <2>2. pendingCommands' = q \o added
      BY <1>3, Zenon
  <2>3. \A i \in 1..Len(added) : pendingCommands'[Len(q) + i] = added[i]
      BY <2>1, <2>2
  <2> QED
      BY <2>1, <2>2, <2>3
<1> QED
    BY <1>1, <1>2, <1>3, <1>4, <1>5

\* A decided request becomes the latest of the window, and its decision stands.
LEMMA DecisionStands ==
    ASSUME RoutingTypeOK, WindowIsLatest, FirstDecisionStands,
           NEW x \in Requests \cup Elsewhere, ~Holds(decisionOrder, x),
           decided' = Append(decided, x), decisionOrder' = Remember(decisionOrder, x, DecisionWindow)
    PROVE  /\ decided' \in Seq(Requests \cup Elsewhere)
           /\ decisionOrder' \in Seq(Requests \cup Elsewhere) /\ Len(decisionOrder') <= DecisionWindow
           /\ WindowIsLatest' /\ FirstDecisionStands'
<1> DEFINE Request == Requests \cup Elsewhere
           n == Len(decided)
           d == Len(decisionOrder)
<1>0. n \in Nat /\ d \in Nat /\ d <= DecisionWindow /\ DecisionWindow \in Nat
    BY RoutingConstants DEF RoutingTypeOK
<1>1. decided \in Seq(Request) /\ decisionOrder \in Seq(Request) /\ x \in Request
    BY Zenon DEF RoutingTypeOK
<1> HIDE DEF Request
<1>2. decided' = Append(decided, x) /\ decisionOrder' = Remember(decisionOrder, x, DecisionWindow)
    OBVIOUS
<1>3. /\ decided' \in Seq(Request) /\ Len(decided') = n + 1 /\ decided'[n + 1] = x
      /\ \A i \in 1..n : decided'[i] = decided[i]
    BY <1>1, <1>2
<1>4. d <= n /\ (d < DecisionWindow => d = n)
    BY Zenon DEF WindowIsLatest
<1>8. \A k \in 1..d : decisionOrder[k] = decided[n - d + k]
    BY Zenon DEF WindowIsLatest
<1>5. /\ decisionOrder' \in Seq(Request) /\ Len(decisionOrder') <= DecisionWindow
      /\ WindowIsLatest'
  <2>1. CASE d < DecisionWindow
    <3>1. /\ decisionOrder' \in Seq(Request) /\ Len(decisionOrder') = d + 1
          /\ decisionOrder'[d + 1] = x /\ \A k \in 1..d : decisionOrder'[k] = decisionOrder[k]
        BY <1>0, <1>1, <1>2, <2>1 DEF Remember
    <3>2. ASSUME NEW k \in 1..(d + 1)
          PROVE  decisionOrder'[k] = decided'[k]
      <4>1. CASE k = d + 1
          BY Zenon, <1>3, <1>4, <2>1, <3>1, <4>1
      <4>2. CASE k # d + 1
        <5>1. k \in 1..d /\ k \in 1..n /\ n - d + k = k
            BY <1>0, <1>4, <2>1, <4>2
        <5> QED
            BY <1>3, <1>8, <3>1, <5>1, SMT
      <4> QED
          BY Zenon, <4>1, <4>2
    <3>3. n + 1 - (d + 1) = 0 /\ d + 1 <= n + 1 /\ d + 1 <= DecisionWindow /\ d + 1 = n + 1
        BY <1>0, <1>4, <2>1
    <3>4. \A k \in 1..(d + 1) : n + 1 - (d + 1) + k = k
        BY <1>0, <3>3
    <3>5. \A k \in 1..Len(decisionOrder') :
             decisionOrder'[k] = decided'[Len(decided') - Len(decisionOrder') + k]
      <4>1. Len(decided') = n + 1 /\ Len(decisionOrder') = d + 1
          BY Zenon, <1>3, <3>1
      <4> HIDE DEF n, d
      <4>2. \A k \in 1..(d + 1) : decisionOrder'[k] = decided'[n + 1 - (d + 1) + k]
          BY Zenon, <3>2, <3>4
      <4> SUFFICES ASSUME NEW k \in 1..Len(decisionOrder')
                   PROVE  decisionOrder'[k] = decided'[Len(decided') - Len(decisionOrder') + k]
          OBVIOUS
      <4>3. k \in 1..(d + 1) /\ Len(decided') - Len(decisionOrder') + k = n + 1 - (d + 1) + k
          BY <1>0, <4>1
      <4> QED
          BY Zenon, <4>2, <4>3
    <3>6. Len(decisionOrder') <= DecisionWindow /\ Len(decisionOrder') = Len(decided')
          /\ Len(decisionOrder') <= Len(decided')
        BY Zenon, <1>3, <3>1, <3>3
    <3> QED
        BY Zenon, <3>1, <3>5, <3>6 DEF WindowIsLatest
  <2>2. CASE d = DecisionWindow
    <3>1. /\ decisionOrder' \in Seq(Request) /\ Len(decisionOrder') = d
          /\ decisionOrder'[d] = x
          /\ \A k \in 1..(d - 1) : decisionOrder'[k] = decisionOrder[k + 1]
        BY <1>0, <1>1, <1>2, <2>2, RoutingConstants DEF Remember
    <3>2. ASSUME NEW k \in 1..d
          PROVE  decisionOrder'[k] = decided'[n + 1 - d + k]
      <4>1. CASE k = d
        <5>1. n + 1 - d + k = n + 1
            BY <1>0, <4>1
        <5> QED
            BY Zenon, <1>3, <3>1, <4>1, <5>1
      <4>2. CASE k # d
        <5>1. k \in 1..(d - 1) /\ k + 1 \in 1..d /\ n - d + (k + 1) \in 1..n
              /\ n + 1 - d + k = n - d + (k + 1)
            BY <1>0, <1>4, <4>2
        <5>2. decisionOrder'[k] = decisionOrder[k + 1]
              /\ decisionOrder[k + 1] = decided[n - d + (k + 1)]
            BY <1>8, <3>1, <5>1, Zenon
        <5>3. decided'[n - d + (k + 1)] = decided[n - d + (k + 1)]
            BY <1>3, <5>1, Zenon
        <5> QED
            BY <5>1, <5>2, <5>3, Zenon
      <4> QED
          BY Zenon, <4>1, <4>2
    <3>3. d <= n + 1 /\ ~(d < DecisionWindow)
        BY <1>0, <1>4, <2>2
    <3>4. \A k \in 1..Len(decisionOrder') :
             decisionOrder'[k] = decided'[Len(decided') - Len(decisionOrder') + k]
      <4>1. Len(decided') = n + 1 /\ Len(decisionOrder') = d
          BY Zenon, <1>3, <3>1
      <4> HIDE DEF n, d
      <4> SUFFICES ASSUME NEW k \in 1..Len(decisionOrder')
                   PROVE  decisionOrder'[k] = decided'[Len(decided') - Len(decisionOrder') + k]
          OBVIOUS
      <4>3. k \in 1..d /\ Len(decided') - Len(decisionOrder') + k = n + 1 - d + k
          BY <1>0, <4>1
      <4> QED
          BY Zenon, <3>2, <4>3
    <3>5. Len(decisionOrder') <= DecisionWindow /\ ~(Len(decisionOrder') < DecisionWindow)
          /\ Len(decisionOrder') <= Len(decided')
        BY Zenon, <1>0, <1>3, <3>1, <3>3
    <3> QED
        BY Zenon, <3>1, <3>4, <3>5 DEF WindowIsLatest
  <2> QED
      BY <1>0, <2>1, <2>2
<1>6. ASSUME NEW i \in 1..n, decided[i] = x
      PROVE  n + 1 - i > DecisionWindow
  <2>1. ~(i > n - d)
    <3> SUFFICES ASSUME i > n - d PROVE FALSE
        OBVIOUS
    <3>1. i - (n - d) \in 1..d /\ n - d + (i - (n - d)) = i
        BY <1>0
    <3>2. decisionOrder[i - (n - d)] = x
        BY <1>8, <1>6, <3>1, Zenon
    <3> QED
        BY Zenon, <3>1, <3>2 DEF Holds
  <2> QED
      BY <1>0, <1>4, <2>1
<1>7. FirstDecisionStands'
  <2> SUFFICES ASSUME NEW i \in 1..(n + 1), NEW j \in 1..(n + 1), i < j,
                      decided'[i] = decided'[j]
               PROVE  j - i > DecisionWindow
      BY Zenon, <1>3 DEF FirstDecisionStands
  <2>1. CASE j = n + 1
    <3>1. i \in 1..n /\ decided'[i] = decided[i] /\ decided'[j] = x
        BY <1>0, <1>3, <2>1
    <3>2. decided[i] = x
        BY Zenon, <3>1
    <3> QED
        BY <1>6, <2>1, <3>1, <3>2
  <2>2. CASE j # n + 1
    <3>1. i \in 1..n /\ j \in 1..n
        BY <1>0, <2>2
    <3>2. decided'[i] = decided[i] /\ decided'[j] = decided[j]
        BY Zenon, <1>3, <3>1
    <3> QED
        BY Zenon, <3>1, <3>2 DEF FirstDecisionStands
  <2> QED
      BY Zenon, <2>1, <2>2
<1> QED
    BY Zenon, <1>3, <1>5, <1>7 DEF Request

\* So does an accepted response.
LEMMA RulingStands ==
    ASSUME RoutingTypeOK, WindowIsLatest, FirstDecisionStands,
           NEW c \in Responses, ~Holds(decisionOrder, RequestOf[c]), markAccepted(c)
    PROVE  /\ ruled' = Append(ruled, c) /\ ruled' \in Seq(Responses)
           /\ Len(ruled') = Len(ruled) + 1 /\ ruled'[Len(ruled) + 1] = c
           /\ \A i \in 1..Len(ruled) : ruled'[i] = ruled[i]
           /\ decided' \in Seq(Requests \cup Elsewhere)
           /\ decisionOrder' \in Seq(Requests \cup Elsewhere) /\ Len(decisionOrder') <= DecisionWindow
           /\ WindowIsLatest' /\ FirstDecisionStands'
<1>1. /\ ruled' = Append(ruled, c) /\ decided' = Append(decided, RequestOf[c])
      /\ decisionOrder' = Remember(decisionOrder, RequestOf[c], DecisionWindow)
    BY Zenon DEF markAccepted
<1>2. RequestOf[c] \in Requests \cup Elsewhere /\ ruled \in Seq(Responses)
    BY RoutingConstants DEF RoutingTypeOK
<1>3. /\ decided' \in Seq(Requests \cup Elsewhere)
      /\ decisionOrder' \in Seq(Requests \cup Elsewhere) /\ Len(decisionOrder') <= DecisionWindow
      /\ WindowIsLatest' /\ FirstDecisionStands'
    BY <1>1, <1>2, DecisionStands, Zenon
<1>4. /\ ruled' \in Seq(Responses) /\ Len(ruled') = Len(ruled) + 1 /\ ruled'[Len(ruled) + 1] = c
      /\ \A i \in 1..Len(ruled) : ruled'[i] = ruled[i]
    BY <1>1, <1>2
<1> QED
    BY <1>1, <1>3, <1>4, Zenon

-----------------------------------------------------------------------------
(***************************************************************************)
(* What waits, what was written and what lapsed.                           *)
(***************************************************************************)

\* Commands leave the buffer from the front, written or late, and another
\* that was written was torn.
LEMMA FrontDropped ==
    ASSUME RoutingInv, NEW d \in 0..Len(pendingCommands),
           pendingCommands' \in Seq(Responses), Len(pendingCommands') = Len(pendingCommands) - d,
           \A i \in 1..(Len(pendingCommands) - d) : pendingCommands'[i] = pendingCommands[i + d],
           \A i \in 1..d : pendingCommands[i] \in sentToAdapter' \cup lapsed',
           ruled' = ruled, sentToAdapter \subseteq sentToAdapter', torn \subseteq torn',
           lapsed \subseteq lapsed',
           \A c \in Responses : c \in sentToAdapter' =>
               c \in sentToAdapter \/ c \in torn' \/ (d = 1 /\ c = pendingCommands[1])
    PROVE  NoDecisionLost' /\ RewrittenOnlyIfTorn' /\ WaitingWasRuled'
<1> DEFINE p == pendingCommands
           q == pendingCommands'
<1>1. Len(p) \in Nat /\ Len(q) \in Nat /\ d \in 0..Len(p) /\ Len(q) = Len(p) - d
    BY DEF RoutingInv, RoutingTypeOK
<1>2. ASSUME NEW i \in 1..Len(q)
      PROVE  i + d \in 1..Len(p) /\ q[i] = p[i + d] /\ q[i] \in Responses
    BY <1>1
<1>3. \A c : RuledTwice(c)' <=> RuledTwice(c)
    BY Zenon DEF RuledTwice
<1>4. NoDecisionLost'
  <2> SUFFICES ASSUME NEW i \in 1..Len(ruled)
               PROVE  ruled[i] \in sentToAdapter' \/ Buffered(ruled[i])' \/ ruled[i] \in lapsed'
      BY Zenon DEF NoDecisionLost
  <2>1. ruled[i] \in sentToAdapter \/ Buffered(ruled[i]) \/ ruled[i] \in lapsed
      BY Zenon DEF RoutingInv, DecisionsAreFinal, NoDecisionLost
  <2>2. ASSUME NEW k \in 1..Len(p), p[k] = ruled[i]
        PROVE  ruled[i] \in sentToAdapter' \/ Buffered(ruled[i])' \/ ruled[i] \in lapsed'
    <3>1. CASE k <= d
      <4>1. k \in 1..d
          BY <1>1, <3>1
      <4> QED
          BY Zenon, <2>2, <4>1
    <3>2. CASE k > d
      <4>1. k - d \in 1..Len(q) /\ (k - d) + d = k
          BY <1>1, <3>2
      <4>2. q[k - d] = ruled[i]
          BY Zenon, <1>2, <2>2, <4>1
      <4> QED
          BY Zenon, <4>1, <4>2 DEF Buffered, Holds
    <3> QED
        BY <1>1, <3>1, <3>2
  <2> QED
      BY Zenon, <2>1, <2>2 DEF Buffered, Holds
<1>5. ASSUME NEW c \in Responses, Buffered(c)', c \in sentToAdapter'
      PROVE  c \in torn' \/ RuledTwice(c)
  <2>1. PICK i \in 1..Len(q) : q[i] = c
      BY <1>5, Zenon DEF Buffered, Holds
  <2>2. i + d \in 1..Len(p) /\ p[i + d] = c
      BY <1>2, <2>1, Zenon
  <2>3. Buffered(c)
      BY <2>2, Zenon DEF Buffered, Holds
  <2>4. CASE c \in sentToAdapter
      BY Zenon, <2>3, <2>4 DEF RoutingInv, DecisionsAreFinal, RewrittenOnlyIfTorn
  <2>5. CASE d = 1 /\ c = p[1]
    <3>1. 1 \in 1..Len(p) /\ 1 < i + d
        BY <1>1, <2>2, <2>5
    <3>2. p[1] = p[i + d]
        BY Zenon, <2>2, <2>5
    <3> QED
        BY <2>2, <2>5, <3>1, <3>2, Zenon DEF RoutingInv, WaitingWasRuled
  <2> QED
      BY Zenon, <1>5, <2>4, <2>5
<1>6. RewrittenOnlyIfTorn'
    BY <1>3, <1>5, Zenon DEF RewrittenOnlyIfTorn
<1>7. WaitingWasRuled'
  <2>1. ASSUME NEW i \in 1..Len(q)
        PROVE  Holds(ruled, q[i])
      BY <1>2, Zenon DEF RoutingInv, WaitingWasRuled
  <2>2. ASSUME NEW c \in Responses, c \in sentToAdapter'
        PROVE  c \in torn' \/ Holds(ruled, c)
    <3>1. CASE c \in sentToAdapter
        BY Zenon, <3>1 DEF RoutingInv, WaitingWasRuled
    <3>2. CASE d = 1 /\ c = p[1]
      <4>1. 1 \in 1..Len(p)
          BY <1>1, <3>2
      <4> QED
          BY Zenon, <3>2, <4>1 DEF RoutingInv, WaitingWasRuled
    <3> QED
        BY Zenon, <2>2, <3>1, <3>2
  <2>3. ASSUME NEW i \in 1..Len(q), NEW j \in 1..Len(q), i < j, q[i] = q[j]
        PROVE  RuledTwice(q[i])
    <3>1. i + d \in 1..Len(p) /\ j + d \in 1..Len(p) /\ p[i + d] = p[j + d] /\ p[i + d] = q[i]
        BY <1>2, <2>3, Zenon
    <3>2. i + d < j + d
        BY <1>1, <2>3
    <3>3. RuledTwice(p[i + d])
        BY <3>1, <3>2, Zenon DEF RoutingInv, WaitingWasRuled
    <3> QED
        BY <3>1, <3>3, Zenon
  <2> QED
      BY <2>1, <2>2, <2>3, Zenon DEF WaitingWasRuled, Holds, RuledTwice
<1> QED
    BY Zenon, <1>4, <1>6, <1>7

\* The accepted responses only grow.
LEMMA RuledMore ==
    ASSUME NEW c, Len(ruled) \in Nat, Len(ruled') = Len(ruled) + 1, ruled'[Len(ruled) + 1] = c,
           \A i \in 1..Len(ruled) : ruled'[i] = ruled[i]
    PROVE  /\ \A x : Holds(ruled, x) => Holds(ruled', x)
           /\ \A x : RuledTwice(x) => RuledTwice(x)'
           /\ Holds(ruled', c) /\ (Holds(ruled, c) => RuledTwice(c)')
<1> DEFINE n == Len(ruled)
<1>1. 1..n \subseteq 1..Len(ruled') /\ n + 1 \in 1..Len(ruled') /\ \A i \in 1..n : i < n + 1
    OBVIOUS
<1>2. Holds(ruled', c) /\ \A x : Holds(ruled, x) => Holds(ruled', x)
    BY <1>1, Zenon DEF Holds
<1>3. \A x : RuledTwice(x) => RuledTwice(x)'
    BY <1>1, Zenon DEF RuledTwice
<1>4. Holds(ruled, c) => RuledTwice(c)'
    BY <1>1, Zenon DEF RuledTwice, Holds
<1> QED
    BY Zenon, <1>2, <1>3, <1>4

\* A response that the socket took is accepted.
LEMMA SentRuling ==
    ASSUME RoutingInv, NEW c \in Responses,
           Len(ruled') = Len(ruled) + 1, ruled'[Len(ruled) + 1] = c,
           \A i \in 1..Len(ruled) : ruled'[i] = ruled[i],
           sentToAdapter' = sentToAdapter \cup {c}, torn' = torn,
           pendingCommands' = pendingCommands, lapsed' = lapsed
    PROVE  NoDecisionLost' /\ RewrittenOnlyIfTorn' /\ WaitingWasRuled'
<1> DEFINE n == Len(ruled)
<1>1. n \in Nat /\ NoDecisionLost /\ RewrittenOnlyIfTorn /\ WaitingWasRuled
    BY DEF RoutingInv, DecisionsAreFinal, RoutingTypeOK
<1>2. /\ \A x : Holds(ruled, x) => Holds(ruled', x)
      /\ \A x : RuledTwice(x) => RuledTwice(x)'
      /\ Holds(ruled', c) /\ (Holds(ruled, c) => RuledTwice(c)')
    BY <1>1, RuledMore, Zenon
<1>3. \A x : Buffered(x)' <=> Buffered(x)
    BY Zenon DEF Buffered, Holds
<1>4. NoDecisionLost'
  <2> SUFFICES ASSUME NEW i \in 1..(n + 1)
               PROVE  ruled'[i] \in sentToAdapter' \/ Buffered(ruled'[i]) \/ ruled'[i] \in lapsed
      BY Zenon, <1>1 DEF NoDecisionLost, Buffered, Holds
  <2>1. CASE i = n + 1
      BY Zenon, <2>1
  <2>2. CASE i # n + 1
    <3>1. i \in 1..n
        BY <1>1, <2>2
    <3> QED
        BY Zenon, <1>1, <3>1 DEF NoDecisionLost
  <2> QED
      BY Zenon, <2>1, <2>2
<1>5. ASSUME NEW x \in Responses, Buffered(x), x \in sentToAdapter'
      PROVE  x \in torn \/ RuledTwice(x)'
  <2>1. CASE x \in sentToAdapter
      BY <1>1, <1>2, <1>5, <2>1, Zenon DEF RewrittenOnlyIfTorn
  <2>2. CASE x = c
    <3>1. Holds(ruled, c)
        BY <1>1, <1>5, <2>2, Zenon DEF WaitingWasRuled, Buffered, Holds
    <3> QED
        BY <1>2, <2>2, <3>1, Zenon
  <2> QED
      BY Zenon, <1>5, <2>1, <2>2
<1>6. RewrittenOnlyIfTorn'
    BY <1>3, <1>5, Zenon DEF RewrittenOnlyIfTorn
<1>7. WaitingWasRuled'
  <2>1. \A i \in 1..Len(pendingCommands) : Holds(ruled', pendingCommands[i])
      BY <1>1, <1>2, Zenon DEF WaitingWasRuled
  <2>2. \A x \in Responses : x \in sentToAdapter' => x \in torn' \/ Holds(ruled', x)
      BY <1>1, <1>2, Zenon DEF WaitingWasRuled
  <2>3. ASSUME NEW i \in 1..Len(pendingCommands), NEW j \in 1..Len(pendingCommands),
               i < j, pendingCommands[i] = pendingCommands[j]
        PROVE  RuledTwice(pendingCommands[i])'
    <3>1. RuledTwice(pendingCommands[i])
        BY <1>1, <2>3, Zenon DEF WaitingWasRuled
    <3> DEFINE x == pendingCommands[i]
    <3>2. pendingCommands'[i] = x
        OBVIOUS
    <3> QED
        BY <1>2, <3>1, <3>2, Zenon DEF RuledTwice
  <2> QED
      BY <2>1, <2>2, <2>3, Zenon DEF WaitingWasRuled
<1> QED
    BY Zenon, <1>4, <1>6, <1>7

\* A response that waits is accepted.
LEMMA BufferedRuling ==
    ASSUME RoutingInv, NEW c \in Responses,
           Len(ruled') = Len(ruled) + 1, ruled'[Len(ruled) + 1] = c,
           \A i \in 1..Len(ruled) : ruled'[i] = ruled[i],
           sentToAdapter' = sentToAdapter, torn' = torn, prunePendingCommandsLocked(<<c>>)
    PROVE  NoDecisionLost' /\ RewrittenOnlyIfTorn' /\ WaitingWasRuled'
<1> DEFINE n == Len(ruled)
           p == pendingCommands
           q == pendingCommands'
           m == Len(p) - late
<1>1. n \in Nat /\ NoDecisionLost /\ RewrittenOnlyIfTorn /\ WaitingWasRuled
    BY DEF RoutingInv, DecisionsAreFinal, RoutingTypeOK
<1>2. /\ \A x : Holds(ruled, x) => Holds(ruled', x)
      /\ \A x : RuledTwice(x) => RuledTwice(x)'
      /\ Holds(ruled', c) /\ (Holds(ruled, c) => RuledTwice(c)')
    BY <1>1, RuledMore, Zenon
<1>3. /\ Len(p) \in Nat /\ late \in 0..Len(p) /\ Len(q) = m + 1 /\ q[m + 1] = c
      /\ \A i \in 1..m : q[i] = p[i + late]
      /\ lapsed \subseteq lapsed' /\ \A i \in 1..late : p[i] \in lapsed'
  <2>1. <<c>> \in Seq(Responses) /\ Len(<<c>>) = 1 /\ <<c>>[1] = c
      OBVIOUS
  <2>2. RoutingTypeOK /\ Len(p) \in Nat /\ late \in 0..Len(p)
      BY DEF RoutingInv, RoutingTypeOK
  <2>3. /\ Len(q) = m + Len(<<c>>) /\ \A i \in 1..m : q[i] = p[i + late]
        /\ \A i \in 1..Len(<<c>>) : q[m + i] = <<c>>[i]
        /\ lapsed \subseteq lapsed' /\ \A i \in 1..late : p[i] \in lapsed'
      BY <2>1, <2>2, PrunedBuffer, Zenon
  <2> QED
      BY <2>1, <2>2, <2>3
<1>4. ASSUME NEW i \in 1..m
      PROVE  i + late \in 1..Len(p) /\ i \in 1..Len(q) /\ q[i] = p[i + late]
    BY <1>3
<1>5. m + 1 \in 1..Len(q)
    BY <1>3
<1>6. ASSUME NEW i \in 1..Len(q), i # m + 1
      PROVE  i \in 1..m
  <2>1. m \in Nat /\ Len(q) = m + 1
      BY <1>3
  <2> QED
      BY <1>6, <2>1
<1>7. NoDecisionLost'
  <2> SUFFICES ASSUME NEW i \in 1..(n + 1)
               PROVE  ruled'[i] \in sentToAdapter \/ Holds(q, ruled'[i]) \/ ruled'[i] \in lapsed'
      BY Zenon, <1>1 DEF NoDecisionLost, Buffered
  <2>1. CASE i = n + 1
      BY Zenon, <1>3, <1>5, <2>1 DEF Holds
  <2>2. CASE i # n + 1
    <3>1. i \in 1..n /\ ruled'[i] = ruled[i]
        BY <1>1, <2>2
    <3>2. ruled[i] \in sentToAdapter \/ Holds(p, ruled[i]) \/ ruled[i] \in lapsed
        BY <1>1, <3>1, Zenon DEF NoDecisionLost, Buffered
    <3>3. ASSUME NEW k \in 1..Len(p), p[k] = ruled[i]
          PROVE  Holds(q, ruled[i]) \/ ruled[i] \in lapsed'
      <4>1. k \in 1..late \/ (k - late \in 1..m /\ (k - late) + late = k)
          BY <1>3
      <4>2. CASE k \in 1..late
          BY <1>3, <3>3, <4>2, Zenon
      <4>3. CASE k - late \in 1..m /\ (k - late) + late = k
        <5>1. q[k - late] = ruled[i] /\ k - late \in 1..Len(q)
            BY <1>4, <3>3, <4>3, Zenon
        <5> QED
            BY <5>1, Zenon DEF Holds
      <4> QED
          BY Zenon, <4>1, <4>2, <4>3
    <3> QED
        BY Zenon, <1>3, <3>1, <3>2, <3>3 DEF Holds
  <2> QED
      BY Zenon, <2>1, <2>2
<1>8. ASSUME NEW x \in Responses, Buffered(x)', x \in sentToAdapter
      PROVE  x \in torn \/ RuledTwice(x)'
  <2>1. PICK i \in 1..Len(q) : q[i] = x
      BY <1>8, Zenon DEF Buffered, Holds
  <2>2. CASE i = m + 1
    <3>1. x = c
        BY Zenon, <1>3, <2>1, <2>2
    <3>2. x \in torn \/ Holds(ruled, x)
        BY <1>1, <1>8, Zenon DEF WaitingWasRuled
    <3> QED
        BY <1>2, <3>1, <3>2, Zenon
  <2>3. CASE i # m + 1
    <3>1. i + late \in 1..Len(p) /\ p[i + late] = x
        BY <1>4, <1>6, <2>1, <2>3, Zenon
    <3>2. Buffered(x)
        BY <3>1, Zenon DEF Buffered, Holds
    <3> QED
        BY <1>1, <1>2, <1>8, <3>2, Zenon DEF RewrittenOnlyIfTorn
  <2> QED
      BY Zenon, <2>2, <2>3
<1>9. RewrittenOnlyIfTorn'
    BY <1>8, Zenon DEF RewrittenOnlyIfTorn
<1>10. WaitingWasRuled'
  <2>1. ASSUME NEW i \in 1..Len(q)
        PROVE  Holds(ruled', q[i])
    <3>1. CASE i = m + 1
        BY Zenon, <1>2, <1>3, <3>1
    <3>2. CASE i # m + 1
      <4>1. i + late \in 1..Len(p) /\ q[i] = p[i + late]
          BY <1>4, <1>6, <3>2, Zenon
      <4>2. Holds(ruled, p[i + late])
          BY <1>1, <4>1, Zenon DEF WaitingWasRuled
      <4> QED
          BY <1>2, <4>1, <4>2, Zenon
    <3> QED
        BY Zenon, <3>1, <3>2
  <2>2. \A x \in Responses : x \in sentToAdapter' => x \in torn' \/ Holds(ruled', x)
      BY <1>1, <1>2, Zenon DEF WaitingWasRuled
  <2>3. ASSUME NEW i \in 1..Len(q), NEW j \in 1..Len(q), i < j, NEW x, x = q[i], x = q[j]
        PROVE  RuledTwice(x)'
    <3>1. i # m + 1
        BY <1>3, <2>3
    <3>2. i + late \in 1..Len(p) /\ p[i + late] = x
        BY <1>4, <1>6, <2>3, <3>1, Zenon
    <3>3. CASE j = m + 1
      <4>1. x = c
          BY Zenon, <1>3, <2>3, <3>3
      <4>2. Holds(ruled, x)
          BY <1>1, <3>2, Zenon DEF WaitingWasRuled
      <4> QED
          BY <1>2, <4>1, <4>2, Zenon
    <3>4. CASE j # m + 1
      <4>1. j + late \in 1..Len(p) /\ p[j + late] = x
          BY <1>4, <1>6, <2>3, <3>4, Zenon
      <4>2. i + late < j + late
          BY <1>3, <2>3
      <4>3. RuledTwice(x)
          BY <1>1, <3>2, <4>1, <4>2, Zenon DEF WaitingWasRuled
      <4> QED
          BY <1>2, <4>3, Zenon
    <3> QED
        BY Zenon, <3>3, <3>4
  <2>4. \A i, j \in 1..Len(q) : i < j /\ q[i] = q[j] =>
            \E k, l \in 1..Len(ruled') : k < l /\ ruled'[k] = q[i] /\ ruled'[l] = q[i]
    <3> SUFFICES ASSUME NEW i \in 1..Len(q), NEW j \in 1..Len(q), i < j, q[i] = q[j]
                 PROVE  \E k, l \in 1..Len(ruled') : k < l /\ ruled'[k] = q[i] /\ ruled'[l] = q[i]
        BY Zenon
    <3>1. PICK x : x = q[i]
        BY Zenon
    <3>2. RuledTwice(x)'
        BY <2>3, <3>1, Zenon
    <3> QED
        BY <3>1, <3>2, Zenon DEF RuledTwice
  <2> QED
      BY <2>1, <2>2, <2>4, Zenon DEF WaitingWasRuled, RuledTwice
<1> QED
    BY Zenon, <1>7, <1>9, <1>10

-----------------------------------------------------------------------------
(***************************************************************************)
(* The steps.                                                              *)
(***************************************************************************)

Mu == [op : {"free", "persist", "route", "write", "buffer", "flush"},
       cmd : RoutedCmd \cup {NoCmd}, conn : 0..MaxAdapters]

LEMMA RoutingStart == RoutingInit => RoutingInv
<1> SUFFICES ASSUME RoutingInit PROVE RoutingInv
    OBVIOUS
<1> USE RoutingConstants
<1>1. mu = Unlocked /\ mu.op = "free" /\ mu \in Mu
    BY DEF RoutingInit, Unlocked, Mu
<1>2. RoutingTypeOK
    BY <1>1 DEF RoutingInit, RoutingTypeOK, Mu
<1>3. OnItsWayHasRoom /\ OnItsWay = <<>>
    BY Zenon, <1>1 DEF OnItsWayHasRoom, OnItsWay
<1>4. WindowIsLatest /\ FirstDecisionStands /\ LogIsTheRuling
    BY <1>3 DEF RoutingInit, WindowIsLatest, FirstDecisionStands, LogIsTheRuling
<1>5. NoDecisionLost /\ RewrittenOnlyIfTorn /\ WaitingWasRuled
    BY DEF RoutingInit, NoDecisionLost, RewrittenOnlyIfTorn, WaitingWasRuled
<1> QED
    BY Zenon, <1>2, <1>3, <1>4, <1>5 DEF RoutingInv, DecisionsAreFinal

\* What waits and what was written concern the buffer, the rulings and the writes.
LEMMA WaitingKept ==
    ASSUME NoDecisionLost, RewrittenOnlyIfTorn, WaitingWasRuled,
           UNCHANGED <<pendingCommands, ruled, sentToAdapter, torn, lapsed>>
    PROVE  NoDecisionLost' /\ RewrittenOnlyIfTorn' /\ WaitingWasRuled'
<1>1. NoDecisionLost'
    BY Zenon DEF NoDecisionLost, Buffered, Holds
<1>2. RewrittenOnlyIfTorn'
    BY Zenon DEF RewrittenOnlyIfTorn, Buffered, Holds, RuledTwice
<1>3. WaitingWasRuled'
    BY DEF WaitingWasRuled, Holds, RuledTwice
<1> QED
    BY <1>1, <1>2, <1>3, Zenon

\* Adapters come and go, and time passes, beside the decisions.
LEMMA WorldKeeps ==
    ASSUME RoutingInv, RoutingTypeOK',
           UNCHANGED <<mu, decisionOrder, pendingCommands, decisionLog, ruled, decided, sentToAdapter, torn, lapsed>>
    PROVE  RoutingInv'
<1>1. OnItsWayHasRoom' /\ WindowIsLatest' /\ FirstDecisionStands'
    BY Zenon DEF RoutingInv, DecisionsAreFinal, OnItsWayHasRoom, WindowIsLatest, FirstDecisionStands, Holds
<1>2. LogIsTheRuling'
    BY Zenon DEF RoutingInv, DecisionsAreFinal, LogIsTheRuling, OnItsWay
<1>3. NoDecisionLost' /\ RewrittenOnlyIfTorn' /\ WaitingWasRuled'
    BY Zenon, WaitingKept DEF RoutingInv, DecisionsAreFinal
<1> QED
    BY Zenon, <1>1, <1>2, <1>3 DEF RoutingInv, DecisionsAreFinal

LEMMA AdaptersKeep ==
    ASSUME RoutingInv,
           admitAdapter \/ publishAdapterHello \/ Lapse \/ \E n \in 1..MaxAdapters : unregisterAdapter(n)
    PROVE  RoutingInv'
<1> USE RoutingConstants
<1>1. RoutingTypeOK
    BY Zenon DEF RoutingInv
<1>2. CASE admitAdapter
  <2>1. adapterEpoch' \in 0..MaxAdapters /\ joining' \in 0..MaxAdapters
      BY <1>1, <1>2 DEF RoutingTypeOK, admitAdapter
  <2>2. RoutingTypeOK'
      BY Zenon, <1>1, <1>2, <2>1 DEF RoutingTypeOK, admitAdapter
  <2> QED
      BY <1>2, <2>2, WorldKeeps, Zenon DEF admitAdapter
<1>3. CASE publishAdapterHello
  <2>1. liveAdapter' \in 0..MaxAdapters /\ due' \subseteq 1..MaxAdapters /\ joining' \in 0..MaxAdapters
      BY <1>1, <1>3 DEF RoutingTypeOK, publishAdapterHello
  <2>2. RoutingTypeOK'
      BY Zenon, <1>1, <1>3, <2>1 DEF RoutingTypeOK, publishAdapterHello
  <2> QED
      BY <1>3, <2>2, WorldKeeps, Zenon DEF publishAdapterHello
<1>4. CASE Lapse
  <2>1. late' \in 0..Len(pendingCommands)
      BY <1>1, <1>4 DEF RoutingTypeOK, Lapse
  <2>2. RoutingTypeOK'
      BY Zenon, <1>1, <1>4, <2>1 DEF RoutingTypeOK, Lapse, liveVars
  <2> QED
      BY <1>4, <2>2, WorldKeeps, Zenon DEF Lapse
<1>5. ASSUME NEW n \in 1..MaxAdapters, unregisterAdapter(n)
      PROVE  RoutingInv'
  <2>1. liveAdapter' \in 0..MaxAdapters /\ due' \subseteq 1..MaxAdapters /\ joining' \in 0..MaxAdapters
      BY <1>1, <1>5 DEF RoutingTypeOK, unregisterAdapter
  <2>2. RoutingTypeOK'
      BY Zenon, <1>1, <1>5, <2>1 DEF RoutingTypeOK, unregisterAdapter
  <2> QED
      BY <1>5, <2>2, WorldKeeps, Zenon DEF unregisterAdapter
<1> QED
    BY Zenon, <1>2, <1>3, <1>4, <1>5

\* The lock moves on, and what is on its way with it.
LEMMA LockMoves ==
    ASSUME RoutingInv, mu' \in Mu,
           UNCHANGED <<acceptedCommandOrder, decisionOrder, pendingCommands, late, liveVars, ruled, decided,
                       sentToAdapter, torn, lapsed, routed>>,
           decisionLog' \in Seq(Responses),
           OnItsWayHasRoom', LogIsTheRuling'
    PROVE  RoutingInv'
<1>1. RoutingTypeOK'
    BY DEF RoutingInv, RoutingTypeOK, Mu, liveVars
<1>2. WindowIsLatest' /\ FirstDecisionStands'
    BY Zenon DEF RoutingInv, DecisionsAreFinal, WindowIsLatest, FirstDecisionStands
<1>3. NoDecisionLost' /\ RewrittenOnlyIfTorn' /\ WaitingWasRuled'
    BY Zenon, WaitingKept DEF RoutingInv, DecisionsAreFinal
<1> QED
    BY Zenon, <1>1, <1>2, <1>3 DEF RoutingInv, DecisionsAreFinal

LEMMA PersistKeeps ==
    ASSUME RoutingInv, NEW ok \in BOOLEAN, persistCommandEvent(ok)
    PROVE  RoutingInv'
<1> DEFINE c == mu.cmd
<1>1. /\ mu \in Mu /\ mu.op = "persist" /\ c \in Responses /\ decisionLog \in Seq(Responses)
      /\ ruled \in Seq(Responses) /\ OnItsWay = <<>>
    BY Zenon DEF persistCommandEvent, RoutingInv, RoutingTypeOK, OnItsWayHasRoom, OnItsWay, Mu
<1>2. decisionLog = ruled
    BY <1>1 DEF RoutingInv, DecisionsAreFinal, LogIsTheRuling
<1>3. Len(pendingCommands) < BufferCap /\ ~Holds(decisionOrder, RequestOf[c])
    BY Zenon, <1>1 DEF RoutingInv, OnItsWayHasRoom
<1>4. UNCHANGED <<acceptedCommandOrder, decisionOrder, pendingCommands, late, liveVars, ruled, decided,
                  sentToAdapter, torn, lapsed, routed>>
    BY Zenon DEF persistCommandEvent
<1>5. CASE ok
  <2>1. mu' \in Mu /\ mu'.op = "route" /\ mu'.cmd = c /\ decisionLog' = Append(decisionLog, c)
      BY Zenon, <1>1, <1>5 DEF persistCommandEvent, Mu
  <2>2. OnItsWay' = <<c>>
      BY Zenon, <1>1, <2>1 DEF OnItsWay
  <2>3. decisionLog' \in Seq(Responses) /\ decisionLog' = ruled' \o <<c>>
      BY <1>1, <1>2, <1>4, <2>1
  <2>4. OnItsWayHasRoom'
      BY Zenon, <1>1, <1>3, <1>4, <2>1 DEF OnItsWayHasRoom, RoutedCmd, Holds
  <2> QED
      BY <1>4, <2>1, <2>2, <2>3, <2>4, LockMoves, Zenon DEF LogIsTheRuling
<1>6. CASE ~ok
  <2>1. mu' = Unlocked /\ mu' \in Mu /\ mu'.op = "free" /\ decisionLog' = decisionLog
    <3>1. mu' = Unlocked /\ decisionLog' = decisionLog
        BY <1>6, Zenon DEF persistCommandEvent
    <3>2. 0 \in 0..MaxAdapters
        BY RoutingConstants
    <3> QED
        BY Zenon, <3>1, <3>2 DEF Mu, Unlocked
  <2>2. OnItsWay' = <<>>
      BY Zenon, <2>1 DEF OnItsWay
  <2>3. decisionLog' \in Seq(Responses) /\ decisionLog' = ruled' \o <<>>
      BY <1>1, <1>2, <1>4, <2>1
  <2>4. OnItsWayHasRoom'
      BY Zenon, <2>1 DEF OnItsWayHasRoom
  <2> QED
      BY <1>4, <2>1, <2>2, <2>3, <2>4, LockMoves, Zenon DEF LogIsTheRuling
<1> QED
    BY Zenon, <1>5, <1>6

LEMMA RouteKeeps ==
    ASSUME RoutingInv, routeCommand
    PROVE  RoutingInv'
<1> DEFINE c == mu.cmd
<1>1. /\ mu \in Mu /\ mu.op = "route" /\ c \in RoutedCmd /\ decisionLog \in Seq(Responses)
      /\ liveAdapter \in 0..MaxAdapters
    BY Zenon DEF routeCommand, RoutingInv, RoutingTypeOK, OnItsWayHasRoom, Mu
<1>2. /\ OnItsWay = (IF c \in Responses THEN <<c>> ELSE <<>>) /\ decisionLog = ruled \o OnItsWay
      /\ c \in Responses => Len(pendingCommands) < BufferCap /\ ~Holds(decisionOrder, RequestOf[c])
    BY Zenon, <1>1 DEF RoutingInv, DecisionsAreFinal, LogIsTheRuling, OnItsWay, OnItsWayHasRoom
<1>3. UNCHANGED <<acceptedCommandOrder, decisionOrder, pendingCommands, late, liveVars, ruled, decided,
                  sentToAdapter, torn, lapsed, routed>> /\ decisionLog' = decisionLog
    BY Zenon DEF routeCommand
<1>4. CASE liveAdapter # 0 \/ c \in Responses
  <2>1. mu' \in Mu /\ mu'.cmd = c /\ (mu'.op = "write" \/ (mu'.op = "buffer" /\ c \in Responses))
    <3>1. CASE liveAdapter # 0
      <4>1. mu' = [mu EXCEPT !.op = "write", !.conn = liveAdapter]
          BY Zenon, <3>1 DEF routeCommand
      <4> QED
          BY <1>1, <4>1 DEF Mu
    <3>2. CASE liveAdapter = 0
      <4>1. mu' = [mu EXCEPT !.op = "buffer"] /\ c \in Responses
          BY Zenon, <1>4, <3>2 DEF routeCommand
      <4> QED
          BY Zenon, <1>1, <4>1 DEF Mu
    <3> QED
        BY Zenon, <3>1, <3>2
  <2>2. OnItsWay' = OnItsWay
      BY Zenon, <1>2, <2>1 DEF OnItsWay
  <2>3. OnItsWayHasRoom'
      BY Zenon, <1>1, <1>2, <1>3, <2>1 DEF OnItsWayHasRoom, Holds
  <2>4. LogIsTheRuling' /\ decisionLog' \in Seq(Responses)
      BY Zenon, <1>1, <1>2, <1>3, <2>2 DEF LogIsTheRuling
  <2> QED
      BY <1>3, <2>1, <2>3, <2>4, LockMoves, Zenon
<1>5. CASE ~(liveAdapter # 0 \/ c \in Responses)
  <2>1. mu' \in Mu /\ mu'.op = "free"
      BY Zenon, <1>1, <1>5 DEF routeCommand, Mu, Unlocked
  <2>2. OnItsWay' = OnItsWay
      BY Zenon, <1>2, <1>5, <2>1 DEF OnItsWay
  <2>3. OnItsWayHasRoom'
      BY Zenon, <2>1 DEF OnItsWayHasRoom
  <2>4. LogIsTheRuling' /\ decisionLog' \in Seq(Responses)
      BY Zenon, <1>1, <1>2, <1>3, <2>2 DEF LogIsTheRuling
  <2> QED
      BY <1>3, <2>1, <2>3, <2>4, LockMoves, Zenon
<1> QED
    BY Zenon, <1>4, <1>5

LEMMA FlushEnds ==
    ASSUME RoutingInv, deliverDone
    PROVE  RoutingInv'
<1>1. mu.op = "flush" /\ decisionLog \in Seq(Responses) /\ OnItsWay = <<>>
    BY Zenon DEF deliverDone, RoutingInv, RoutingTypeOK, OnItsWay
<1>2. mu' \in Mu /\ mu'.op = "free" /\ OnItsWay' = <<>>
    BY RoutingConstants DEF deliverDone, Mu, Unlocked, OnItsWay
<1>3. UNCHANGED <<acceptedCommandOrder, decisionOrder, pendingCommands, late, liveVars, ruled, decided,
                  sentToAdapter, torn, lapsed, routed>> /\ decisionLog' = decisionLog
    BY Zenon DEF deliverDone
<1>4. LogIsTheRuling' /\ decisionLog' \in Seq(Responses)
    BY Zenon, <1>1, <1>2, <1>3 DEF RoutingInv, DecisionsAreFinal, LogIsTheRuling
<1>5. OnItsWayHasRoom'
    BY Zenon, <1>2 DEF OnItsWayHasRoom
<1> QED
    BY <1>2, <1>3, <1>4, <1>5, LockMoves, Zenon

\* Pruning the buffer loses nothing but what is late.
LEMMA Pruned ==
    ASSUME RoutingInv, prunePendingCommandsLocked(<<>>), UNCHANGED <<ruled, sentToAdapter, torn>>
    PROVE  /\ NoDecisionLost' /\ RewrittenOnlyIfTorn' /\ WaitingWasRuled'
           /\ pendingCommands' \in Seq(Responses) /\ late' \in 0..Len(pendingCommands')
           /\ Len(pendingCommands') = Len(PendingNow) /\ Len(pendingCommands') <= BufferCap
           /\ lapsed' \subseteq Responses
<1> DEFINE d == late
<1>1. /\ RoutingTypeOK /\ Len(pendingCommands) \in Nat /\ d \in 0..Len(pendingCommands)
      /\ pendingCommands \in Seq(Responses)
    BY DEF RoutingInv, RoutingTypeOK
<1>2. <<>> \in Seq(Responses) /\ Len(<<>>) = 0
    OBVIOUS
<1>3. /\ pendingCommands' \in Seq(Responses) /\ late' = 0
      /\ Len(pendingCommands') = Len(pendingCommands) - d + Len(<<>>)
      /\ \A i \in 1..(Len(pendingCommands) - d) : pendingCommands'[i] = pendingCommands[i + d]
      /\ lapsed \subseteq lapsed' /\ lapsed' \subseteq Responses
      /\ \A i \in 1..d : pendingCommands[i] \in lapsed'
    BY <1>1, <1>2, PrunedBuffer, Zenon
<1>4. Len(pendingCommands') = Len(pendingCommands) - d
    BY <1>1, <1>2, <1>3
<1>5. /\ \A i \in 1..d : pendingCommands[i] \in sentToAdapter' \cup lapsed'
      /\ sentToAdapter \subseteq sentToAdapter' /\ torn \subseteq torn' /\ ruled' = ruled
      /\ \A c \in Responses : c \in sentToAdapter' => c \in sentToAdapter
    BY <1>3, Zenon
<1>6. NoDecisionLost' /\ RewrittenOnlyIfTorn' /\ WaitingWasRuled'
    BY <1>1, <1>3, <1>4, <1>5, FrontDropped, Zenon
<1>7. Len(PendingNow) = Len(pendingCommands) - d
    BY <1>1 DEF PendingNow
<1>8. Len(pendingCommands') <= BufferCap /\ 0 \in 0..Len(pendingCommands')
    BY <1>1, <1>4, RoutingConstants DEF RoutingTypeOK
<1> QED
    BY Zenon, <1>3, <1>4, <1>6, <1>7, <1>8

LEMMA PreflightKeeps ==
    ASSUME RoutingInv, NEW c \in RoutedCmd, preflightCommandRouteLocked(c)
    PROVE  RoutingInv'
<1> USE RoutingConstants
<1>1. mu = Unlocked /\ mu.op = "free" /\ mu \in Mu /\ OnItsWay = <<>> /\ decisionLog = ruled \o <<>>
  <2>1. mu = Unlocked /\ mu.op = "free" /\ mu \in Mu
      BY DEF preflightCommandRouteLocked, Unlocked, Mu
  <2>2. OnItsWay = <<>>
      BY Zenon, <2>1 DEF OnItsWay
  <2> QED
      BY <2>1, <2>2, Zenon DEF RoutingInv, DecisionsAreFinal, LogIsTheRuling
<1>2. UNCHANGED <<acceptedCommandOrder, decisionOrder, liveVars, decisionLog, ruled, decided, sentToAdapter, torn>>
    BY Zenon DEF preflightCommandRouteLocked
<1>3. routed' \in 0..MaxRouted
    BY DEF preflightCommandRouteLocked, RoutingInv, RoutingTypeOK
<1>4. WindowIsLatest' /\ FirstDecisionStands'
    BY Zenon, <1>2 DEF RoutingInv, DecisionsAreFinal, WindowIsLatest, FirstDecisionStands
<1>5. CASE c \in Responses
  <2>1. /\ prunePendingCommandsLocked(<<>>)
        /\ mu' = IF Len(PendingNow) >= BufferCap
                 THEN mu ELSE [op |-> "persist", cmd |-> c, conn |-> 0]
        /\ ~Holds(decisionOrder, RequestOf[c])
      BY <1>5, Zenon DEF preflightCommandRouteLocked, Duplicate
  <2>2. /\ NoDecisionLost' /\ RewrittenOnlyIfTorn' /\ WaitingWasRuled'
        /\ pendingCommands' \in Seq(Responses) /\ late' \in 0..Len(pendingCommands')
        /\ Len(pendingCommands') = Len(PendingNow) /\ Len(pendingCommands') <= BufferCap
        /\ lapsed' \subseteq Responses
      BY <1>2, <2>1, Pruned, Zenon
  <2>3. mu' \in Mu /\ OnItsWay' = <<>> /\ OnItsWayHasRoom'
    <3>1. CASE Len(PendingNow) >= BufferCap
      <4>1. mu' = mu
          BY Zenon, <2>1, <3>1
      <4> QED
          BY Zenon, <1>1, <4>1 DEF OnItsWay, OnItsWayHasRoom
    <3>2. CASE ~(Len(PendingNow) >= BufferCap)
      <4>1. mu' = [op |-> "persist", cmd |-> c, conn |-> 0]
          BY Zenon, <2>1, <3>2
      <4>2. mu' \in Mu /\ mu'.op = "persist" /\ mu'.cmd = c
          BY <1>5, <4>1 DEF Mu
      <4>3. Len(pendingCommands') < BufferCap
          BY <2>2, <3>2
      <4>4. ~Holds(decisionOrder, RequestOf[c])'
          BY Zenon, <1>2, <2>1 DEF Holds
      <4> QED
          BY Zenon, <1>5, <4>2, <4>3, <4>4 DEF OnItsWay, OnItsWayHasRoom
    <3> QED
        BY Zenon, <3>1, <3>2
  <2>4. LogIsTheRuling'
      BY Zenon, <1>1, <1>2, <2>3 DEF LogIsTheRuling
  <2>5. RoutingTypeOK'
      BY Zenon, <1>2, <1>3, <2>2, <2>3 DEF RoutingInv, RoutingTypeOK, Mu, liveVars
  <2> QED
      BY Zenon, <1>4, <2>2, <2>3, <2>4, <2>5 DEF RoutingInv, DecisionsAreFinal
<1>6. CASE c \notin Responses
  <2>1. mu' = [op |-> "route", cmd |-> c, conn |-> 0] /\ UNCHANGED <<pendingCommands, late, lapsed>>
      BY <1>6, Zenon DEF preflightCommandRouteLocked
  <2>2. mu' \in Mu /\ mu'.op = "route" /\ mu'.cmd = c
      BY <2>1 DEF Mu
  <2>3. OnItsWay' = <<>> /\ OnItsWayHasRoom'
      BY Zenon, <1>6, <2>2 DEF OnItsWay, OnItsWayHasRoom
  <2>4. LogIsTheRuling'
      BY Zenon, <1>1, <1>2, <2>3 DEF LogIsTheRuling
  <2>5. NoDecisionLost' /\ RewrittenOnlyIfTorn' /\ WaitingWasRuled'
      BY Zenon, <1>2, <2>1, WaitingKept DEF RoutingInv, DecisionsAreFinal
  <2>6. RoutingTypeOK'
      BY Zenon, <1>2, <1>3, <2>1, <2>2 DEF RoutingInv, RoutingTypeOK, Mu, liveVars
  <2> QED
      BY Zenon, <1>4, <2>3, <2>4, <2>5, <2>6 DEF RoutingInv, DecisionsAreFinal
<1> QED
    BY Zenon, <1>5, <1>6

LEMMA FlushBegins ==
    ASSUME RoutingInv, NEW n \in 1..MaxAdapters, deliverPendingCommands(n)
    PROVE  RoutingInv'
<1> USE RoutingConstants
<1>1. mu.op = "free" /\ OnItsWay = <<>>
    BY Zenon DEF deliverPendingCommands, Unlocked, OnItsWay
<1>2. /\ prunePendingCommandsLocked(<<>>)
      /\ UNCHANGED <<acceptedCommandOrder, decisionOrder, liveAdapter, adapterEpoch, joining,
                     decisionLog, ruled, decided, sentToAdapter, torn, routed>>
    BY Zenon DEF deliverPendingCommands
<1>3. /\ NoDecisionLost' /\ RewrittenOnlyIfTorn' /\ WaitingWasRuled'
      /\ pendingCommands' \in Seq(Responses) /\ late' \in 0..Len(pendingCommands')
      /\ Len(pendingCommands') <= BufferCap /\ lapsed' \subseteq Responses
    BY <1>2, Pruned, Zenon
<1>4. mu' \in Mu /\ mu'.op = "flush" /\ due' \subseteq 1..MaxAdapters
    BY DEF deliverPendingCommands, Mu, RoutingInv, RoutingTypeOK
<1>5. OnItsWay' = <<>> /\ OnItsWayHasRoom'
    BY Zenon, <1>4 DEF OnItsWay, OnItsWayHasRoom
<1>6. LogIsTheRuling'
    BY <1>1, <1>2, <1>5 DEF RoutingInv, DecisionsAreFinal, LogIsTheRuling
<1>7. WindowIsLatest' /\ FirstDecisionStands'
    BY Zenon, <1>2 DEF RoutingInv, DecisionsAreFinal, WindowIsLatest, FirstDecisionStands
<1>8. RoutingTypeOK'
    BY Zenon, <1>2, <1>3, <1>4 DEF RoutingInv, RoutingTypeOK, Mu
<1> QED
    BY Zenon, <1>3, <1>5, <1>6, <1>7, <1>8 DEF RoutingInv, DecisionsAreFinal

\* What a write leaves of the Adapters and of the written commands.
LEMMA WriteTypes ==
    ASSUME RoutingTypeOK, NEW c \in RoutedCmd, NEW n, NEW result \in WriteResult,
           writeAdapterFrame(c, n, result)
    PROVE  /\ sentToAdapter' \subseteq RoutedCmd /\ torn' \subseteq sentToAdapter'
           /\ sentToAdapter \subseteq sentToAdapter' /\ torn \subseteq torn'
           /\ liveAdapter' \in 0..MaxAdapters /\ UNCHANGED <<adapterEpoch, joining, due>>
           /\ result = "ok" => sentToAdapter' = sentToAdapter \cup {c} /\ torn' = torn
           /\ result # "ok" => \A x \in sentToAdapter' : x \in sentToAdapter \/ x \in torn'
<1>1. liveAdapter' \in 0..MaxAdapters /\ UNCHANGED <<adapterEpoch, joining, due>>
    BY RoutingConstants DEF writeAdapterFrame, RoutingTypeOK
<1>2. /\ sentToAdapter' = IF result = "error" THEN sentToAdapter ELSE sentToAdapter \cup {c}
      /\ torn' = IF result = "torn" THEN torn \cup {c} ELSE torn
      /\ sentToAdapter \subseteq RoutedCmd /\ torn \subseteq sentToAdapter
    BY Zenon DEF writeAdapterFrame, RoutingTypeOK
<1> QED
    BY Zenon, <1>1, <1>2 DEF WriteResult

LEMMA DeliverKeeps ==
    ASSUME RoutingInv, NEW result \in WriteResult, deliverNext(result)
    PROVE  RoutingInv'
<1> USE RoutingConstants
<1> DEFINE p == pendingCommands
           c == Head(pendingCommands)
<1>1. /\ RoutingTypeOK /\ p \in Seq(Responses) /\ p # <<>> /\ Len(p) \in Nat /\ Len(p) >= 1
      /\ late \in 0..Len(p) /\ c = p[1] /\ c \in Responses /\ Len(p) <= BufferCap
  <2>1. /\ RoutingTypeOK /\ p \in Seq(Responses) /\ p # <<>>
        /\ late \in 0..Len(p) /\ Len(p) <= BufferCap
      BY Zenon DEF RoutingInv, RoutingTypeOK, deliverNext
  <2>2. Len(p) \in Nat /\ Len(p) >= 1 /\ c = p[1]
      BY <2>1
  <2>3. c \in Responses
      BY <2>1, <2>2
  <2> QED
      BY Zenon, <2>1, <2>2, <2>3
<1>2. mu \in Mu /\ mu.op = "flush" /\ OnItsWay = <<>>
    BY Zenon DEF RoutingInv, RoutingTypeOK, Mu, deliverNext, OnItsWay
<1>3. UNCHANGED <<acceptedCommandOrder, decisionOrder, decisionLog, ruled, decided, lapsed, routed>>
    BY Zenon DEF deliverNext
<1>4. /\ sentToAdapter' \subseteq RoutedCmd /\ torn' \subseteq sentToAdapter'
      /\ sentToAdapter \subseteq sentToAdapter' /\ torn \subseteq torn'
      /\ liveAdapter' \in 0..MaxAdapters /\ UNCHANGED <<adapterEpoch, joining, due>>
      /\ result = "ok" => sentToAdapter' = sentToAdapter \cup {c} /\ torn' = torn
      /\ result # "ok" => \A x \in sentToAdapter' : x \in sentToAdapter \/ x \in torn'
  <2>1. c \in RoutedCmd /\ writeAdapterFrame(c, mu.conn, result)
      BY Zenon, <1>1 DEF RoutedCmd, deliverNext
  <2> QED
      BY <1>1, <2>1, WriteTypes, Zenon
<1>5. /\ NoDecisionLost' /\ RewrittenOnlyIfTorn' /\ WaitingWasRuled'
      /\ p' \in Seq(Responses) /\ late' \in 0..Len(p') /\ Len(p') <= BufferCap
  <2>1. CASE result = "ok"
    <3>1. /\ p' = Tail(p) /\ late' = IF late = 0 THEN 0 ELSE late - 1
          /\ sentToAdapter' = sentToAdapter \cup {c} /\ torn' = torn
        BY Zenon, <1>4, <2>1 DEF deliverNext
    <3>2. /\ p' \in Seq(Responses) /\ Len(p') = Len(p) - 1
          /\ \A i \in 1..(Len(p) - 1) : p'[i] = p[i + 1]
        BY <1>1, <3>1
    <3>3. 1 \in 0..Len(p) /\ late' \in 0..Len(p') /\ Len(p') <= BufferCap
        BY <1>1, <3>1, <3>2
    <3>4. \A i \in 1..1 : p[i] \in sentToAdapter' \cup lapsed'
        BY <1>1, <3>1
    <3>5. /\ \A x \in Responses : x \in sentToAdapter' =>
                x \in sentToAdapter \/ x \in torn' \/ (1 = 1 /\ x = p[1])
          /\ lapsed \subseteq lapsed'
        BY Zenon, <1>1, <1>3, <3>1
    <3>6. NoDecisionLost' /\ RewrittenOnlyIfTorn' /\ WaitingWasRuled'
        BY <1>3, <1>4, <3>2, <3>3, <3>4, <3>5, FrontDropped, Zenon
    <3> QED
        BY Zenon, <3>2, <3>3, <3>6
  <2>2. CASE result # "ok"
    <3>1. p' = p /\ late' = late
        BY Zenon, <2>2 DEF deliverNext
    <3>2. /\ p' \in Seq(Responses) /\ Len(p') = Len(p) - 0 /\ 0 \in 0..Len(p)
          /\ \A i \in 1..(Len(p) - 0) : p'[i] = p[i + 0]
          /\ \A i \in 1..0 : p[i] \in sentToAdapter' \cup lapsed'
        BY <1>1, <3>1
    <3>3. \A x \in Responses : x \in sentToAdapter' =>
              x \in sentToAdapter \/ x \in torn' \/ (0 = 1 /\ x = p[1])
        BY <1>4, <2>2, Zenon
    <3>4. lapsed \subseteq lapsed'
        BY Zenon, <1>3
    <3>5. NoDecisionLost' /\ RewrittenOnlyIfTorn' /\ WaitingWasRuled'
        BY <1>3, <1>4, <3>2, <3>3, <3>4, FrontDropped, Zenon
    <3> QED
        BY Zenon, <1>1, <3>1, <3>5
  <2> QED
      BY Zenon, <2>1, <2>2
<1>6. mu' \in Mu /\ (mu'.op = "flush" \/ mu'.op = "free")
  <2>1. mu' = mu \/ mu' = Unlocked
      BY Zenon DEF deliverNext
  <2>2. Unlocked \in Mu /\ Unlocked.op = "free"
      BY DEF Unlocked, Mu
  <2> QED
      BY <1>2, <2>1, <2>2, Zenon
<1>7. OnItsWay' = <<>> /\ OnItsWayHasRoom'
    BY Zenon, <1>6 DEF OnItsWay, OnItsWayHasRoom
<1>8. LogIsTheRuling'
    BY <1>2, <1>3, <1>7 DEF RoutingInv, DecisionsAreFinal, LogIsTheRuling
<1>9. WindowIsLatest' /\ FirstDecisionStands'
    BY Zenon, <1>3 DEF RoutingInv, DecisionsAreFinal, WindowIsLatest, FirstDecisionStands
<1>10. RoutingTypeOK'
    BY <1>1, <1>3, <1>4, <1>5, <1>6 DEF RoutingTypeOK, Mu
<1> QED
    BY Zenon, <1>5, <1>7, <1>8, <1>9, <1>10 DEF RoutingInv, DecisionsAreFinal

\* The window of command ids stays within its size.
LEMMA CommandWindowKept ==
    ASSUME RoutingTypeOK, NEW c \in RoutedCmd \cup Elsewhere,
           acceptedCommandOrder' = Remember(acceptedCommandOrder, c, CommandWindow)
    PROVE  /\ acceptedCommandOrder' \in Seq(RoutedCmd \cup Elsewhere)
           /\ Len(acceptedCommandOrder') <= CommandWindow
<1>1. acceptedCommandOrder \in Seq(RoutedCmd \cup Elsewhere) /\ Len(acceptedCommandOrder) <= CommandWindow
    BY DEF RoutingTypeOK
<1> QED
    BY <1>1, RoutingConstants DEF Remember

LEMMA ElsewhereKeeps ==
    ASSUME RoutingInv, NEW x \in Elsewhere, decideElsewhere(x)
    PROVE  RoutingInv'
<1> USE RoutingConstants
<1>1. RoutingTypeOK /\ WindowIsLatest /\ FirstDecisionStands /\ mu = Unlocked /\ mu.op = "free"
    BY DEF RoutingInv, DecisionsAreFinal, decideElsewhere, Unlocked
<1>2. /\ acceptedCommandOrder' \in Seq(RoutedCmd \cup Elsewhere)
      /\ Len(acceptedCommandOrder') <= CommandWindow
    BY <1>1, CommandWindowKept, Zenon DEF decideElsewhere
<1>3. /\ decided' \in Seq(Requests \cup Elsewhere)
      /\ decisionOrder' \in Seq(Requests \cup Elsewhere) /\ Len(decisionOrder') <= DecisionWindow
      /\ WindowIsLatest' /\ FirstDecisionStands'
    BY <1>1, DecisionStands, Zenon DEF decideElsewhere
<1>4. /\ routed' \in 0..MaxRouted
      /\ UNCHANGED <<mu, pendingCommands, late, liveVars, decisionLog, ruled, sentToAdapter, torn, lapsed>>
    BY <1>1 DEF decideElsewhere, RoutingTypeOK
<1>5. OnItsWayHasRoom'
    BY <1>1, <1>4 DEF OnItsWayHasRoom
<1>6. LogIsTheRuling'
    BY <1>4 DEF RoutingInv, DecisionsAreFinal, LogIsTheRuling, OnItsWay
<1>7. NoDecisionLost' /\ RewrittenOnlyIfTorn' /\ WaitingWasRuled'
    BY Zenon, <1>4, WaitingKept DEF RoutingInv, DecisionsAreFinal
<1>8. RoutingTypeOK'
    BY <1>1, <1>2, <1>3, <1>4 DEF RoutingTypeOK, liveVars
<1> QED
    BY <1>3, <1>5, <1>6, <1>7, <1>8 DEF RoutingInv, DecisionsAreFinal

LEMMA WriteKeeps ==
    ASSUME RoutingInv, NEW result \in WriteResult, routeOrBufferCommand(result)
    PROVE  RoutingInv'
<1> USE RoutingConstants
<1> DEFINE c == mu.cmd
           p == pendingCommands
<1>1. /\ RoutingTypeOK /\ WindowIsLatest /\ FirstDecisionStands
      /\ mu \in Mu /\ mu.op = "write" /\ c \in RoutedCmd
    BY DEF RoutingInv, DecisionsAreFinal, RoutingTypeOK, Mu, OnItsWayHasRoom, routeOrBufferCommand
<1>2. /\ OnItsWay = (IF c \in Responses THEN <<c>> ELSE <<>>) /\ decisionLog = ruled \o OnItsWay
      /\ c \in Responses => Len(p) < BufferCap /\ ~Holds(decisionOrder, RequestOf[c])
    BY Zenon, <1>1 DEF RoutingInv, DecisionsAreFinal, LogIsTheRuling, OnItsWay, OnItsWayHasRoom
<1>3. UNCHANGED <<pendingCommands, late, decisionLog, lapsed, routed>>
    BY Zenon DEF routeOrBufferCommand
<1>4. /\ sentToAdapter' \subseteq RoutedCmd /\ torn' \subseteq sentToAdapter'
      /\ sentToAdapter \subseteq sentToAdapter' /\ torn \subseteq torn'
      /\ liveAdapter' \in 0..MaxAdapters /\ UNCHANGED <<adapterEpoch, joining, due>>
      /\ result = "ok" => sentToAdapter' = sentToAdapter \cup {c} /\ torn' = torn
      /\ result # "ok" => \A x \in sentToAdapter' : x \in sentToAdapter \/ x \in torn'
  <2>1. writeAdapterFrame(c, mu.conn, result)
      BY Zenon DEF routeOrBufferCommand
  <2> QED
      BY <1>1, <2>1, WriteTypes, Zenon
<1>5. Unlocked \in Mu /\ Unlocked.op = "free"
    BY DEF Unlocked, Mu
<1>6. /\ p' \in Seq(Responses) /\ Len(p') = Len(p) - 0 /\ 0 \in 0..Len(p)
      /\ \A i \in 1..(Len(p) - 0) : p'[i] = p[i + 0]
      /\ \A i \in 1..0 : p[i] \in sentToAdapter' \cup lapsed'
      /\ lapsed \subseteq lapsed'
    BY <1>1, <1>3 DEF RoutingTypeOK
<1>7. CASE result = "ok" /\ c \in Responses
  <2>1. markAccepted(c) /\ mu' = Unlocked
      BY <1>7, Zenon DEF routeOrBufferCommand, markAccepted
  <2>2. /\ ruled' = Append(ruled, c) /\ ruled' \in Seq(Responses)
        /\ Len(ruled') = Len(ruled) + 1 /\ ruled'[Len(ruled) + 1] = c
        /\ \A i \in 1..Len(ruled) : ruled'[i] = ruled[i]
        /\ decided' \in Seq(Requests \cup Elsewhere)
      /\ decisionOrder' \in Seq(Requests \cup Elsewhere) /\ Len(decisionOrder') <= DecisionWindow
        /\ WindowIsLatest' /\ FirstDecisionStands'
      BY <1>1, <1>2, <1>7, <2>1, RulingStands, Zenon
  <2>3. NoDecisionLost' /\ RewrittenOnlyIfTorn' /\ WaitingWasRuled'
      BY <1>3, <1>4, <1>7, <2>2, SentRuling, Zenon
  <2>4. OnItsWay' = <<>> /\ OnItsWayHasRoom'
      BY Zenon, <1>5, <2>1 DEF OnItsWay, OnItsWayHasRoom
  <2>5. ruled \in Seq(Responses) /\ decisionLog = ruled \o <<c>>
      BY Zenon, <1>1, <1>2, <1>7 DEF RoutingTypeOK
  <2>6. LogIsTheRuling'
      BY <1>3, <1>7, <2>2, <2>4, <2>5 DEF LogIsTheRuling
  <2>7. acceptedCommandOrder' \in Seq(RoutedCmd \cup Elsewhere) /\ Len(acceptedCommandOrder') <= CommandWindow
      BY <1>1, <2>1, CommandWindowKept, Zenon DEF markAccepted
  <2>8. RoutingTypeOK'
      BY <1>1, <1>3, <1>4, <1>5, <2>1, <2>2, <2>7 DEF RoutingTypeOK, Mu
  <2> QED
      BY Zenon, <2>2, <2>3, <2>4, <2>6, <2>8 DEF RoutingInv, DecisionsAreFinal
<1>8. CASE result = "ok" /\ c \notin Responses
  <2>1. markAccepted(c) /\ mu' = Unlocked /\ UNCHANGED <<decisionOrder, ruled, decided>>
      BY <1>8, Zenon DEF routeOrBufferCommand, markAccepted
  <2>2. \A x \in Responses : x \in sentToAdapter' =>
            x \in sentToAdapter \/ x \in torn' \/ (0 = 1 /\ x = p[1])
      BY Zenon, <1>4, <1>8
  <2>3. NoDecisionLost' /\ RewrittenOnlyIfTorn' /\ WaitingWasRuled'
      BY <1>4, <1>6, <2>1, <2>2, FrontDropped, Zenon
  <2>4. OnItsWay' = <<>> /\ OnItsWayHasRoom'
      BY Zenon, <1>5, <2>1 DEF OnItsWay, OnItsWayHasRoom
  <2>5. LogIsTheRuling'
      BY Zenon, <1>2, <1>3, <1>8, <2>1, <2>4 DEF LogIsTheRuling
  <2>6. acceptedCommandOrder' \in Seq(RoutedCmd \cup Elsewhere) /\ Len(acceptedCommandOrder') <= CommandWindow
      BY <1>1, <2>1, CommandWindowKept, Zenon DEF markAccepted
  <2>7. WindowIsLatest' /\ FirstDecisionStands'
      BY Zenon, <1>1, <2>1 DEF WindowIsLatest, FirstDecisionStands
  <2>8. RoutingTypeOK'
      BY Zenon, <1>1, <1>3, <1>4, <1>5, <2>1, <2>6 DEF RoutingTypeOK, Mu
  <2> QED
      BY Zenon, <2>3, <2>4, <2>5, <2>7, <2>8 DEF RoutingInv, DecisionsAreFinal
<1>9. CASE result # "ok"
  <2>1. /\ mu' = IF c \in Responses THEN [mu EXCEPT !.op = "buffer", !.conn = 0] ELSE Unlocked
        /\ UNCHANGED <<acceptedCommandOrder, decisionOrder, ruled, decided>>
      BY <1>9, Zenon DEF routeOrBufferCommand
  <2>2. \A x \in Responses : x \in sentToAdapter' =>
            x \in sentToAdapter \/ x \in torn' \/ (0 = 1 /\ x = p[1])
      BY <1>4, <1>9, Zenon
  <2>3. NoDecisionLost' /\ RewrittenOnlyIfTorn' /\ WaitingWasRuled'
      BY <1>4, <1>6, <2>1, <2>2, FrontDropped, Zenon
  <2>4. mu' \in Mu /\ OnItsWay' = OnItsWay /\ OnItsWayHasRoom'
    <3>1. CASE c \in Responses
      <4>1. mu' \in Mu /\ mu'.op = "buffer" /\ mu'.cmd = c
        <5>1. mu' = [mu EXCEPT !.op = "buffer", !.conn = 0] /\ 0 \in 0..MaxAdapters
            BY <2>1, <3>1
        <5> QED
            BY <1>1, <5>1 DEF Mu
      <4> QED
        <5>1. OnItsWay' = OnItsWay
            BY Zenon, <1>2, <3>1, <4>1 DEF OnItsWay
        <5>2. Len(p') < BufferCap /\ ~Holds(decisionOrder, RequestOf[c])'
            BY <1>2, <1>3, <2>1, <3>1 DEF Holds
        <5> QED
            BY Zenon, <3>1, <4>1, <5>1, <5>2 DEF OnItsWayHasRoom
    <3>2. CASE c \notin Responses
        BY Zenon, <1>2, <1>5, <2>1, <3>2 DEF OnItsWay, OnItsWayHasRoom
    <3> QED
        BY Zenon, <3>1, <3>2
  <2>5. LogIsTheRuling'
      BY Zenon, <1>2, <1>3, <2>1, <2>4 DEF LogIsTheRuling
  <2>6. WindowIsLatest' /\ FirstDecisionStands'
      BY Zenon, <1>1, <2>1 DEF WindowIsLatest, FirstDecisionStands
  <2>7. RoutingTypeOK'
      BY <1>1, <1>3, <1>4, <2>1, <2>4 DEF RoutingTypeOK, Mu
  <2> QED
      BY Zenon, <2>3, <2>4, <2>5, <2>6, <2>7 DEF RoutingInv, DecisionsAreFinal
<1> QED
    BY Zenon, <1>7, <1>8, <1>9

LEMMA BufferKeeps ==
    ASSUME RoutingInv, bufferCommandLocked
    PROVE  RoutingInv'
<1> USE RoutingConstants
<1> DEFINE c == mu.cmd
           p == pendingCommands
<1>1. /\ RoutingTypeOK /\ WindowIsLatest /\ FirstDecisionStands
      /\ mu.op = "buffer" /\ c \in Responses /\ c \in RoutedCmd
      /\ Len(p) < BufferCap /\ ~Holds(decisionOrder, RequestOf[c])
    BY Zenon DEF RoutingInv, DecisionsAreFinal, OnItsWayHasRoom, bufferCommandLocked, RoutedCmd
<1>2. p \in Seq(Responses) /\ late \in 0..Len(p) /\ ruled \in Seq(Responses)
    BY Zenon, <1>1 DEF RoutingTypeOK
<1>3. Len(PendingNow) = Len(p) - late /\ ~(Len(PendingNow) >= BufferCap)
    BY <1>1, <1>2 DEF PendingNow
<1>4. /\ prunePendingCommandsLocked(<<c>>) /\ markAccepted(c) /\ mu' = Unlocked
      /\ UNCHANGED <<liveVars, decisionLog, sentToAdapter, torn, routed>>
    BY <1>3, Zenon DEF bufferCommandLocked, markAccepted
<1>5. /\ ruled' = Append(ruled, c) /\ ruled' \in Seq(Responses)
      /\ Len(ruled') = Len(ruled) + 1 /\ ruled'[Len(ruled) + 1] = c
      /\ \A i \in 1..Len(ruled) : ruled'[i] = ruled[i]
      /\ decided' \in Seq(Requests \cup Elsewhere)
      /\ decisionOrder' \in Seq(Requests \cup Elsewhere) /\ Len(decisionOrder') <= DecisionWindow
      /\ WindowIsLatest' /\ FirstDecisionStands'
    BY <1>1, <1>4, RulingStands, Zenon
<1>6. NoDecisionLost' /\ RewrittenOnlyIfTorn' /\ WaitingWasRuled'
    BY <1>1, <1>4, <1>5, BufferedRuling, Zenon
<1>7. /\ p' \in Seq(Responses) /\ late' \in 0..Len(p') /\ Len(p') <= BufferCap
      /\ lapsed' \subseteq Responses
  <2>1. <<c>> \in Seq(Responses) /\ Len(<<c>>) = 1
      BY <1>1
  <2>2. /\ p' \in Seq(Responses) /\ late' = 0 /\ Len(p') = Len(p) - late + Len(<<c>>)
        /\ lapsed' \subseteq Responses
      BY <1>1, <1>4, <2>1, PrunedBuffer, Zenon
  <2> QED
      BY <1>1, <1>2, <2>1, <2>2
<1>8. Unlocked \in Mu /\ mu'.op = "free"
    BY <1>4 DEF Unlocked, Mu
<1>9. OnItsWay' = <<>> /\ OnItsWay = <<c>> /\ OnItsWayHasRoom'
    BY Zenon, <1>1, <1>8 DEF OnItsWay, OnItsWayHasRoom
<1>10. LogIsTheRuling'
  <2>1. decisionLog = ruled \o <<c>>
      BY Zenon, <1>9 DEF RoutingInv, DecisionsAreFinal, LogIsTheRuling
  <2> QED
      BY <1>1, <1>2, <1>4, <1>5, <1>9, <2>1 DEF LogIsTheRuling
<1>11. acceptedCommandOrder' \in Seq(RoutedCmd \cup Elsewhere) /\ Len(acceptedCommandOrder') <= CommandWindow
    BY <1>1, <1>4, CommandWindowKept, Zenon DEF markAccepted
<1>12. RoutingTypeOK'
    BY <1>1, <1>4, <1>5, <1>7, <1>8, <1>11 DEF RoutingTypeOK, Mu, liveVars
<1> QED
    BY Zenon, <1>5, <1>6, <1>9, <1>10, <1>12 DEF RoutingInv, DecisionsAreFinal

\* The invariant is inductive.
LEMMA RoutingStep == RoutingInv /\ [RoutingNext]_routingVars => RoutingInv'
<1> SUFFICES ASSUME RoutingInv, [RoutingNext]_routingVars PROVE RoutingInv'
    OBVIOUS
<1>1. CASE UNCHANGED routingVars
  <2>1. RoutingTypeOK'
      BY Zenon, <1>1 DEF routingVars, RoutingInv, RoutingTypeOK
  <2> QED
      BY <1>1, <2>1, WorldKeeps, Zenon DEF routingVars
<1>2. CASE RoutingNext
    BY <1>2, PreflightKeeps, PersistKeeps, RouteKeeps, WriteKeeps, BufferKeeps, AdaptersKeep, FlushBegins,
       DeliverKeeps, FlushEnds, ElsewhereKeeps, Zenon DEF RoutingNext
<1> QED
    BY Zenon, <1>1, <1>2

\* Command routing keeps its types, whatever the windows and the buffer.
THEOREM RoutingTypes == RoutingSpec => []RoutingTypeOK
<1>1. RoutingInv => RoutingTypeOK
    BY Zenon DEF RoutingInv
<1> QED
    BY <1>1, RoutingStart, RoutingStep, PTL DEF RoutingSpec

\* Permission decisions (handleClientCommand, bufferCommandLocked and
\* deliverPendingCommands): of the accepted ones the first stands for a window of
\* others, the log has exactly them, and each was written, waits or is late.
THEOREM FinalDecisions == RoutingSpec => []DecisionsAreFinal
<1>1. RoutingInv => DecisionsAreFinal
    BY Zenon DEF RoutingInv
<1> QED
    BY <1>1, RoutingStart, RoutingStep, PTL DEF RoutingSpec
=============================================================================
