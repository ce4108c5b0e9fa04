-------------------------- MODULE EventStreamProofs --------------------------
(***************************************************************************)
(* Proofs, for any publishers and client connections, that the publication *)
(* gate lets one goroutine publish at a time, that a client is sent events *)
(* of the log and none twice but for a number a file message borrowed.     *)
(***************************************************************************)
EXTENDS EventStream, TLAPS

Token == [owner : Publisher, state : {"open", "relay"}]

PublisherState ==
    [pc : {"idle", "wait", "after", "receipt", "publish", "fan", "write", "mark"},
     kind : Kinds, todo : Seq(Nat), targets : SUBSET Viewer, to : SUBSET Viewer]

ViewState ==
    [pc : {"new", "tail", "replay", "rows", "finish", "live", "closed"},
     replaying : BOOLEAN, lastSeq : Nat, first : Nat, buffered : Seq(Nat),
     ephemeral : Nat, todo : Seq(Nat), sent : Seq(Nat)]

Writing == {"write", "mark"}

\* A publisher with state r: its numbers are among the first n, it has one while it fans
\* out, and a connection while it writes.
GoodPub(r, n) ==
    /\ r \in PublisherState
    /\ \A i \in 1..Len(r.todo) : r.todo[i] > 0 /\ r.todo[i] <= n
    /\ r.pc \in {"fan", "write", "mark"} => r.todo # <<>>
    /\ r.pc = "after" => r.todo # <<>>
    /\ r.pc \in {"idle", "wait"} => r.todo = <<>> /\ r.kind # "recover"
    /\ r.pc \in Writing => \E c \in Viewer : r.to = {c}
    /\ r.pc \notin Writing => r.to = {}

Under(s, n) == \A i \in 1..Len(s) : s[i] <= n

\* A connection with state v, likewise: it replays until it is live, its replay continues
\* its last number, and its buffer is bounded and holds the ephemeral event it points at.
GoodView(v, n) ==
    /\ v \in ViewState
    /\ Under(v.buffered, n) /\ Under(v.todo, n) /\ Under(v.sent, n)
    /\ v.lastSeq <= n /\ v.first <= n
    /\ v.replaying <=> v.pc \in {"new", "tail", "replay", "rows", "finish"}
    /\ v.pc \in {"new", "tail", "replay"} => v.lastSeq = v.first /\ v.sent = <<>>
    /\ v.pc = "rows" => \A i \in 1..Len(v.todo) : v.todo[i] = v.lastSeq + i
    /\ v.pc \notin {"rows", "finish"} => v.todo = <<>>
    /\ ~v.replaying => v.buffered = <<>>
    /\ Len(v.buffered) <= MaxBuffered
    /\ v.ephemeral # 0 => v.ephemeral \in 1..Len(v.buffered) /\ v.buffered[v.ephemeral] = 0

StreamShape ==
    /\ latest \in 0..MaxSeq
    /\ receipts \subseteq 1..latest
    /\ pub \in [Publisher -> PublisherState] /\ \A p \in Publisher : GoodPub(pub[p], latest)
    /\ view \in [Viewer -> ViewState] /\ \A c \in Viewer : GoodView(view[c], latest)
    /\ subscribers \subseteq Viewer

\* p went through Acquire and still has its token.
Queueing(p) == pub[p].pc # "idle" /\ pub[p].kind # "recover"

\* An open token is its owner's only one; a publisher past its commit has the first.
\* A closed token is forgotten at once, because only the first one is ever closed.
GateOK ==
    /\ gate \in Seq(Token)
    /\ \A i \in 1..Len(gate) : gate[i].state = "open" => Queueing(gate[i].owner)
    /\ \A i, j \in 1..Len(gate) :
          gate[i].state = "open" /\ gate[j].state = "open" /\ gate[i].owner = gate[j].owner => i = j
    /\ \A p \in Publisher : Queueing(p) =>
          \E i \in 1..Len(gate) : gate[i].state = "open" /\ gate[i].owner = p
    /\ \A p \in Publisher : Publishing(p) => Len(gate) > 0 /\ gate[1].state = "open" /\ gate[1].owner = p

\* Nobody publishes to a connection that replays.
Apart == \A c \in Viewer, p \in Publisher : view[c].replaying => c \notin pub[p].to

Has(s, n) == \E i \in 1..Len(s) : s[i] = n

\* No number is published by two goroutines, unless one of them borrowed it.
OwnNumbers ==
    /\ \A p, q \in Publisher : p # q =>
          \A i \in 1..Len(pub[p].todo) : ~Has(pub[q].todo, pub[p].todo[i]) \/ pub[p].todo[i] \in borrowed
    /\ \A p, q \in Publisher : pub[p].kind = "recover" /\ pub[q].kind = "recover" => p = q
    /\ \A p \in Publisher : pub[p].kind = "recover" => \A n \in receipts : ~Has(pub[p].todo, n)

\* Publisher p has written n to connection c and not yet counted it.
Marks(p, c, n) == pub[p].pc = "mark" /\ c \in pub[p].to /\ Head(pub[p].todo) = n

\* What was written to a connection was written once, unless it is borrowed, and is
\* counted by it or about to be; what is about to be written was not written before,
\* with the same exception.
SentOK(c) ==
    /\ \A i, j \in 1..Len(view[c].sent) :
          view[c].sent[i] = view[c].sent[j] => i = j \/ view[c].sent[i] \in borrowed
    /\ \A i \in 1..Len(view[c].sent) :
          view[c].sent[i] <= view[c].lastSeq \/ \E p \in Publisher : Marks(p, c, view[c].sent[i])
    /\ \A p \in Publisher : pub[p].pc = "write" /\ c \in pub[p].to =>
          ~Has(view[c].sent, Head(pub[p].todo)) \/ Head(pub[p].todo) \in borrowed

StreamInv == StreamShape /\ GateOK /\ Apart /\ OwnNumbers /\ \A c \in Viewer : SentOK(c)
-----------------------------------------------------------------------------
\* Sequences.

LEMMA SeqIsFunction ==
    ASSUME NEW S, NEW s \in Seq(S)
    PROVE  DOMAIN s = 1..Len(s) /\ s = [i \in 1..Len(s) |-> s[i]]
    OBVIOUS

LEMMA EmptySeq ==
    ASSUME NEW S, NEW s \in Seq(S)
    PROVE  Len(s) = 0 <=> s = <<>>
    OBVIOUS

LEMMA TailFacts ==
    ASSUME NEW S, NEW s \in Seq(S), s # <<>>
    PROVE  /\ Tail(s) \in Seq(S) /\ Len(Tail(s)) = Len(s) - 1 /\ Len(s) \in Nat /\ Len(s) > 0
           /\ \A i \in 1..(Len(s) - 1) : Tail(s)[i] = s[i + 1]
           /\ Tail(s) = [i \in 1..(Len(s) - 1) |-> s[i + 1]]
           /\ Head(s) = s[1] /\ 1 \in 1..Len(s) /\ s[1] \in S
<1>1. Len(s) \in Nat /\ Len(s) > 0
    OBVIOUS
<1>2. Tail(s) \in Seq(S) /\ Len(Tail(s)) = Len(s) - 1
    OBVIOUS
<1>3. \A i \in 1..(Len(s) - 1) : Tail(s)[i] = s[i + 1]
    BY <1>1
<1>4. Tail(s) = [i \in 1..(Len(s) - 1) |-> Tail(s)[i]]
    BY Zenon, <1>2, SeqIsFunction
<1>5. [i \in 1..(Len(s) - 1) |-> Tail(s)[i]] = [i \in 1..(Len(s) - 1) |-> s[i + 1]]
    BY Zenon, <1>3
<1>6. Head(s) = s[1] /\ 1 \in 1..Len(s) /\ s[1] \in S
    BY <1>1
<1> QED
    BY Zenon, <1>1, <1>2, <1>3, <1>4, <1>5, <1>6

\* The gate.

LEMMA MyTokenIs ==
    ASSUME GateOK, NEW p \in Publisher, Queueing(p)
    PROVE  /\ MyToken(p) \in 1..Len(gate) /\ gate[MyToken(p)].owner = p /\ gate[MyToken(p)].state = "open"
           /\ \A i \in 1..Len(gate) : gate[i].owner = p /\ gate[i].state = "open" => i = MyToken(p)
<1>1. DOMAIN gate = 1..Len(gate)
    BY DEF GateOK
<1>2. \E i \in DOMAIN gate : gate[i].owner = p /\ gate[i].state = "open"
  <2>1. \E i \in 1..Len(gate) : gate[i].state = "open" /\ gate[i].owner = p
      BY Zenon DEF GateOK
  <2> QED
      BY Zenon, <1>1, <2>1
<1>3. MyToken(p) \in 1..Len(gate) /\ gate[MyToken(p)].owner = p /\ gate[MyToken(p)].state = "open"
    BY Zenon, <1>1, <1>2 DEF MyToken
<1>4. ASSUME NEW i \in 1..Len(gate), gate[i].owner = p, gate[i].state = "open" PROVE i = MyToken(p)
    BY Zenon, <1>3, <1>4 DEF GateOK
<1> QED
    BY Zenon, <1>3, <1>4

LEMMA Tokens ==
    ASSUME GateOK
    PROVE  /\ gate \in Seq(Token) /\ Len(gate) \in Nat /\ DOMAIN gate = 1..Len(gate)
           /\ \A j \in 1..Len(gate) : gate[j] \in Token /\ gate[j].state # "closed"
<1>1. gate \in Seq(Token) /\ Len(gate) \in Nat /\ DOMAIN gate = 1..Len(gate)
    BY DEF GateOK
<1>2. \A j \in 1..Len(gate) : gate[j] \in Token
    BY <1>1
<1>3. \A u \in Token : u.state # "closed"
    BY Zenon DEF Token
<1> QED
    BY Zenon, <1>1, <1>2, <1>3

LEMMA TurnIsFirst ==
    ASSUME GateOK, NEW i \in 1..Len(gate), Turn(i)
    PROVE  i = 1
<1>1. DOMAIN gate = 1..Len(gate) /\ Len(gate) \in Nat /\ \A j \in 1..Len(gate) : gate[j].state # "closed"
    BY Zenon, Tokens
<1>2. i # 1 => i - 1 \in 1..Len(gate)
    BY <1>1
<1> QED
    BY Zenon, <1>1, <1>2 DEF Turn

LEMMA CloseFirst ==
    ASSUME GateOK, Len(gate) > 0
    PROVE  Close(gate, 1) = Tail(gate)
<1> DEFINE g == [gate EXCEPT ![1].state = "closed"]
           open == {i \in DOMAIN g : g[i].state # "closed"}
<1>1. gate \in Seq(Token) /\ Len(gate) \in Nat /\ DOMAIN gate = 1..Len(gate) /\ 1 \in 1..Len(gate)
    BY Tokens
<1>2. \A j \in 1..Len(gate) : gate[j].state # "closed" /\ gate[j] \in Token
    BY Zenon, Tokens
<1>3. DOMAIN g = 1..Len(gate) /\ g[1].state = "closed" /\ \A j \in 1..Len(gate) : j # 1 => g[j] = gate[j]
    BY Zenon, <1>1, <1>2 DEF Token
<1>4. open = 2..Len(gate)
    BY <1>1, <1>2, <1>3
<1>5. Len(g) = Len(gate) /\ g \in Seq({g[k] : k \in 1..Len(gate)})
  <2> DEFINE n == Len(gate)
             T == {g[k] : k \in 1..n}
  <2>1. g = [k \in 1..n |-> g[k]]
      BY Zenon, <1>3
  <2>2. n \in Nat /\ \A k \in 1..n : g[k] \in T
      BY Zenon, <1>1
  <2> HIDE DEF g, n, T
  <2>3. [k \in 1..n |-> g[k]] \in Seq(T) /\ Len([k \in 1..n |-> g[k]]) = n
      BY <2>2
  <2> QED
      BY Zenon, <2>1, <2>3 DEF n, T
<1> HIDE DEF g, open
<1>8. gate # <<>>
    BY <1>1
<1>6. CASE Len(gate) = 1
  <2>1. open = {}
      BY <1>4, <1>6
  <2>2. Tail(gate) = <<>>
    <3>1. Tail(gate) \in Seq(Token) /\ Len(Tail(gate)) = 0
        BY <1>1, <1>6, <1>8, TailFacts
    <3> QED
        BY Zenon, <3>1, EmptySeq
  <2> QED
      BY Zenon, <2>1, <2>2 DEF Close, Forget, g, open
<1>7. CASE Len(gate) # 1
  <2>1. 2 \in open /\ \A j \in open : 2 <= j
      BY <1>1, <1>4, <1>7
  <2>2. (CHOOSE i \in open : \A j \in open : i <= j) = 2
    <3>1. \A i \in open : (\A j \in open : i <= j) => i = 2
        BY <1>1, <1>4, <2>1
    <3> QED
        BY Zenon, <2>1, <3>1
  <2>3. SubSeq(g, 2, Len(g)) = Tail(gate)
    <3>1. SubSeq(g, 2, Len(g)) = [k \in 1..(Len(gate) - 1) |-> g[k + 1]]
        BY <1>1, <1>5, <1>7
    <3>2. Tail(gate) = [k \in 1..(Len(gate) - 1) |-> gate[k + 1]]
        BY Zenon, <1>1, <1>8, TailFacts
    <3>3. \A k \in 1..(Len(gate) - 1) : g[k + 1] = gate[k + 1]
        BY <1>1, <1>3
    <3> QED
        BY Zenon, <3>1, <3>2, <3>3
  <2>4. open # {}
      BY Zenon, <2>1
  <2> QED
      BY Zenon, <2>2, <2>3, <2>4 DEF Close, Forget, g, open
<1> QED
    BY Zenon, <1>6, <1>7

LEMMA HoldsFirst ==
    ASSUME GateOK, NEW p \in Publisher, Publishing(p) \/ (Queueing(p) /\ Holds(p))
    PROVE  MyToken(p) = 1 /\ Len(gate) > 0 /\ gate[1].owner = p /\ gate[1].state = "open"
<1>1. Publishing(p) => Queueing(p)
    BY Zenon DEF Publishing, Queueing
<1>2. /\ MyToken(p) \in 1..Len(gate) /\ gate[MyToken(p)].owner = p /\ gate[MyToken(p)].state = "open"
      /\ \A i \in 1..Len(gate) : gate[i].owner = p /\ gate[i].state = "open" => i = MyToken(p)
    BY Zenon, <1>1, MyTokenIs
<1>3. Len(gate) \in Nat /\ Len(gate) > 0 /\ 1 \in 1..Len(gate)
    BY <1>2, Tokens
<1>4. MyToken(p) = 1
    BY Zenon, <1>2, <1>3, TurnIsFirst DEF Holds, GateOK
<1> QED
    BY Zenon, <1>2, <1>3, <1>4

\* A publisher that keeps its token, or has none.
LEMMA GateKept ==
    ASSUME GateOK, NEW p \in Publisher, NEW r, UNCHANGED gate,
           pub'[p] = r, \A q \in Publisher : q # p => pub'[q] = pub[q],
           r.pc # "idle" /\ r.kind # "recover" <=> Queueing(p),
           r.pc \notin {"idle", "wait"} /\ r.kind # "recover" =>
              Len(gate) > 0 /\ gate[1].owner = p /\ gate[1].state = "open"
    PROVE  GateOK'
<1>1. \A q \in Publisher : Queueing(q)' <=> Queueing(q)
    BY Zenon DEF Queueing
<1>2. \A q \in Publisher : Publishing(q)' => Len(gate) > 0 /\ gate[1].owner = q /\ gate[1].state = "open"
    BY Zenon DEF Publishing, GateOK
<1>3. \A i \in 1..Len(gate) : gate[i].owner \in Publisher
    BY Zenon, Tokens DEF Token
<1> QED
    BY Zenon, <1>1, <1>2, <1>3 DEF GateOK

\* The first token is closed: its owner is done, or had given it up.
LEMMA FirstCloses ==
    ASSUME GateOK, Len(gate) > 0, gate' = Tail(gate),
           \A q \in Publisher : pub'[q] = pub[q] \/ (q = gate[1].owner /\ gate[1].state = "open"),
           gate[1].state = "open" => pub'[gate[1].owner].pc = "idle"
    PROVE  GateOK'
<1>0. gate \in Seq(Token) /\ Len(gate) \in Nat /\ gate # <<>> /\ 1 \in 1..Len(gate)
    BY Tokens
<1>1. /\ gate' \in Seq(Token) /\ Len(gate') = Len(gate) - 1
      /\ \A i \in 1..(Len(gate) - 1) : gate'[i] = gate[i + 1]
    BY Zenon, <1>0, TailFacts
<1>2. \A i \in 1..Len(gate') : gate'[i] = gate[i + 1] /\ i + 1 \in 1..Len(gate) /\ i + 1 # 1
    BY <1>0, <1>1
<1>3. \A i \in 1..Len(gate) : i = 1 \/ (i - 1 \in 1..Len(gate') /\ (i - 1) + 1 = i)
    BY <1>0, <1>1
<1>4. \A i \in 1..Len(gate) : gate[i].owner \in Publisher
    BY Zenon, <1>0, Tokens DEF Token
<1>5. ASSUME NEW i \in 1..Len(gate), i # 1, gate[i].state = "open" PROVE pub'[gate[i].owner] = pub[gate[i].owner]
    BY Zenon, <1>0, <1>4, <1>5 DEF GateOK
<1>6. \A i \in 1..Len(gate') : gate'[i].state = "open" => (pub'[gate'[i].owner].pc # "idle" /\ pub'[gate'[i].owner].kind # "recover")
  <2>1. SUFFICES ASSUME NEW i \in 1..Len(gate'), gate'[i].state = "open" PROVE (pub'[gate'[i].owner].pc # "idle" /\ pub'[gate'[i].owner].kind # "recover")
      BY Zenon
  <2>2. gate'[i] = gate[i + 1] /\ i + 1 \in 1..Len(gate) /\ i + 1 # 1
      BY Zenon, <1>2
  <2>3. Queueing(gate[i + 1].owner) /\ pub'[gate[i + 1].owner] = pub[gate[i + 1].owner]
      BY Zenon, <1>5, <2>1, <2>2 DEF GateOK
  <2> QED
      BY Zenon, <2>2, <2>3 DEF Queueing
<1>7. \A i, j \in 1..Len(gate') :
         gate'[i].state = "open" /\ gate'[j].state = "open" /\ gate'[i].owner = gate'[j].owner => i = j
  <2>1. SUFFICES ASSUME NEW i \in 1..Len(gate'), NEW j \in 1..Len(gate'),
                        gate'[i].state = "open", gate'[j].state = "open", gate'[i].owner = gate'[j].owner
                 PROVE  i = j
      BY Zenon
  <2>2. i + 1 = j + 1
      BY Zenon, <1>2, <2>1 DEF GateOK
  <2> QED
      BY <2>2
<1>8. ASSUME NEW q \in Publisher, Queueing(q)'
      PROVE  \E i \in 1..Len(gate') : gate'[i].state = "open" /\ gate'[i].owner = q
  <2>1. pub'[q] = pub[q] /\ ~(q = gate[1].owner /\ gate[1].state = "open")
      BY Zenon, <1>8 DEF Queueing
  <2>2. PICK i \in 1..Len(gate) : gate[i].state = "open" /\ gate[i].owner = q
      BY Zenon, <1>8, <2>1 DEF Queueing, GateOK
  <2>3. i - 1 \in 1..Len(gate') /\ (i - 1) + 1 = i
      BY Zenon, <1>3, <2>1, <2>2
  <2>4. gate'[i - 1] = gate[i]
      BY Zenon, <1>2, <2>3
  <2> QED
      BY Zenon, <2>2, <2>3, <2>4
<1>9. ASSUME NEW q \in Publisher, Publishing(q)' PROVE FALSE
  <2>1. "idle" \in {"idle", "wait"}
      OBVIOUS
  <2> QED
      BY Zenon, <1>9, <2>1 DEF Publishing, GateOK
<1> QED
    BY Zenon, <1>1, <1>6, <1>7, <1>8, <1>9 DEF GateOK, Queueing

LEMMA LeavesKeepsGate ==
    ASSUME GateOK, DOMAIN pub = Publisher, NEW p \in Publisher, Leaves(p), pub[p].pc # "idle",
           Publishing(p) \/ pub[p].kind = "recover" \/ Holds(p)
    PROVE  GateOK'
<1>1. pub'[p] = IdlePublisher /\ \A q \in Publisher : q # p => pub'[q] = pub[q]
    BY Zenon DEF Leaves
<1>2. IdlePublisher.pc = "idle" /\ IdlePublisher.pc \in {"idle", "wait"}
    BY Zenon DEF IdlePublisher
<1>3. CASE pub[p].kind = "recover"
    BY Zenon, <1>1, <1>2, <1>3, GateKept DEF Leaves, Queueing
<1>4. CASE pub[p].kind # "recover"
  <2>1. MyToken(p) = 1 /\ Len(gate) > 0 /\ gate[1].owner = p /\ gate[1].state = "open"
      BY Zenon, <1>4, HoldsFirst DEF Queueing
  <2>2. gate' = Tail(gate)
      BY Zenon, <1>4, <2>1, CloseFirst DEF Leaves
  <2> QED
      BY Zenon, <1>1, <1>2, <2>1, <2>2, FirstCloses
<1> QED
    BY Zenon, <1>3, <1>4

LEMMA AcquireKeepsGate ==
    ASSUME GateOK, DOMAIN pub = Publisher, NEW p \in Publisher, NEW k \in Kinds \ {"recover"},
           pub \in [Publisher -> PublisherState], Acquire(p, k)
    PROVE  GateOK'
<1> DEFINE t == [owner |-> p, state |-> "open"]
<1>0. gate \in Seq(Token) /\ Len(gate) \in Nat /\ t \in Token
    BY Zenon, Tokens DEF Token
<1>1. /\ gate' \in Seq(Token) /\ Len(gate') = Len(gate) + 1 /\ gate'[Len(gate) + 1] = t
      /\ \A i \in 1..Len(gate) : gate'[i] = gate[i]
    BY <1>0 DEF Acquire
<1>2. \A i \in 1..Len(gate') : i = Len(gate) + 1 \/ i \in 1..Len(gate)
    BY <1>0, <1>1
<1>3. /\ Len(gate) + 1 \in 1..Len(gate') /\ \A i \in 1..Len(gate) : i \in 1..Len(gate')
      /\ Len(gate') > 0 /\ (Len(gate) > 0 => 1 \in 1..Len(gate))
    BY <1>0, <1>1
<1>4. t.owner = p /\ t.state = "open"
    OBVIOUS
<1> HIDE DEF t
<1>5. pub'[p].pc = "wait" /\ pub'[p].kind = k /\ \A q \in Publisher : q # p => pub'[q] = pub[q]
    BY Zenon DEF Acquire, PublisherState
<1>6. ~Queueing(p) /\ Queueing(p)' /\ ~Publishing(p)'
  <2>1. "wait" # "idle" /\ "wait" \in {"idle", "wait"}
      OBVIOUS
  <2> QED
      BY Zenon, <1>5, <2>1 DEF Queueing, Publishing, Acquire
<1>7. \A q \in Publisher : q # p => (Queueing(q)' <=> Queueing(q)) /\ (Publishing(q)' <=> Publishing(q))
    BY Zenon, <1>5 DEF Queueing, Publishing
<1>8. \A i \in 1..Len(gate) : gate[i].owner \in Publisher
    BY Zenon, <1>0, Tokens DEF Token
<1>9. \A i \in 1..Len(gate) : gate[i].state = "open" => gate[i].owner # p
  <2>1. SUFFICES ASSUME NEW i \in 1..Len(gate), gate[i].state = "open", gate[i].owner = p PROVE FALSE
      BY Zenon
  <2>2. pub[gate[i].owner].pc # "idle"
      BY Zenon, <2>1 DEF GateOK, Queueing
  <2> QED
      BY Zenon, <2>1, <2>2 DEF Acquire
<1>10. \A i \in 1..Len(gate') : gate'[i].state = "open" => (pub'[gate'[i].owner].pc # "idle" /\ pub'[gate'[i].owner].kind # "recover")
  <2>1. SUFFICES ASSUME NEW i \in 1..Len(gate'), gate'[i].state = "open" PROVE (pub'[gate'[i].owner].pc # "idle" /\ pub'[gate'[i].owner].kind # "recover")
      BY Zenon
  <2>2. CASE gate'[i] = t
      BY Zenon, <1>4, <1>6, <2>2 DEF Queueing
  <2>3. CASE i \in 1..Len(gate) /\ gate'[i] = gate[i]
    <3>1. Queueing(gate[i].owner) /\ gate[i].owner # p /\ gate[i].owner \in Publisher
        BY Zenon, <1>8, <1>9, <2>1, <2>3 DEF GateOK
    <3> QED
        BY Zenon, <1>5, <2>3, <3>1 DEF Queueing
  <2> QED
      BY Zenon, <1>1, <1>2, <2>2, <2>3
<1>11. \A i, j \in 1..Len(gate') :
         gate'[i].state = "open" /\ gate'[j].state = "open" /\ gate'[i].owner = gate'[j].owner => i = j
  <2>1. \A i, j \in 1..Len(gate) :
         gate'[i].state = "open" /\ gate'[j].state = "open" /\ gate'[i].owner = gate'[j].owner => i = j
      BY Zenon, <1>1 DEF GateOK
  <2>2. \A i \in 1..Len(gate) : gate'[i].state = "open" => gate'[i].owner # gate'[Len(gate) + 1].owner
      BY Zenon, <1>1, <1>4, <1>9
  <2> QED
      BY Zenon, <1>2, <2>1, <2>2
<1>12. ASSUME NEW q \in Publisher, Queueing(q)'
       PROVE  \E i \in 1..Len(gate') : gate'[i].state = "open" /\ gate'[i].owner = q
  <2>1. CASE q = p
      BY Zenon, <1>1, <1>3, <1>4, <2>1
  <2>2. CASE q # p
    <3>1. Queueing(q)
        BY Zenon, <1>7, <1>12, <2>2
    <3>2. PICK i \in 1..Len(gate) : gate[i].state = "open" /\ gate[i].owner = q
        BY Zenon, <3>1 DEF GateOK
    <3> QED
        BY Zenon, <1>1, <1>3, <3>2
  <2> QED
      BY Zenon, <2>1, <2>2
<1>13. \A q \in Publisher : Publishing(q)' => Len(gate') > 0 /\ gate'[1].state = "open" /\ gate'[1].owner = q
  <2>1. SUFFICES ASSUME NEW q \in Publisher, Publishing(q)'
                 PROVE  Len(gate') > 0 /\ gate'[1].state = "open" /\ gate'[1].owner = q
      BY Zenon
  <2>2. q # p /\ Publishing(q)
      BY Zenon, <1>6, <1>7, <2>1
  <2>3. Len(gate) > 0 /\ gate[1].state = "open" /\ gate[1].owner = q
      BY Zenon, <2>2 DEF GateOK
  <2> QED
      BY Zenon, <1>1, <1>3, <2>3
<1> QED
    BY Zenon, <1>1, <1>10, <1>11, <1>12, <1>13 DEF GateOK, Queueing

LEMMA CancelKeepsGate ==
    ASSUME GateOK, pub \in [Publisher -> PublisherState], NEW p \in Publisher, CancelWait(p),
           pub[p].kind # "recover"
    PROVE  GateOK'
<1>0. gate \in Seq(Token) /\ Len(gate) \in Nat /\ DOMAIN gate = 1..Len(gate) /\ \A j \in 1..Len(gate) : gate[j] \in Token
    BY Zenon, Tokens
<1>1. Queueing(p) /\ ~Publishing(p)
  <2>1. "wait" # "idle" /\ "wait" \in {"idle", "wait"}
      OBVIOUS
  <2> QED
      BY Zenon, <2>1 DEF Queueing, Publishing, CancelWait
<1>2. PICK m \in 1..Len(gate) : m = MyToken(p) /\ gate[m].owner = p /\ gate[m].state = "open"
          /\ \A i \in 1..Len(gate) : gate[i].owner = p /\ gate[i].state = "open" => i = m
    BY Zenon, <1>1, MyTokenIs
<1>3. /\ \A i \in 1..Len(gate) : i # m => gate'[i] = gate[i]
      /\ gate'[m] = [gate[m] EXCEPT !.state = "relay"]
      /\ gate' = [gate EXCEPT ![m] = [gate[m] EXCEPT !.state = "relay"]]
    BY Zenon, <1>0, <1>2 DEF CancelWait, relayToken
<1>4. gate'[m].state = "relay" /\ gate'[m] \in Token /\ "relay" # "open"
    BY Zenon, <1>0, <1>3 DEF Token
<1>5. gate' \in Seq(Token) /\ Len(gate') = Len(gate)
    BY <1>0, <1>3, <1>4
<1>6. pub'[p] = IdlePublisher /\ IdlePublisher.pc = "idle" /\ \A q \in Publisher : q # p => pub'[q] = pub[q]
    BY Zenon DEF CancelWait, IdlePublisher
<1>7. "idle" \in {"idle", "wait"} /\ ~Queueing(p)' /\ ~Publishing(p)'
    BY Zenon, <1>6 DEF Queueing, Publishing
<1>8. \A q \in Publisher : q # p => (Queueing(q)' <=> Queueing(q)) /\ (Publishing(q)' <=> Publishing(q))
    BY Zenon, <1>6 DEF Queueing, Publishing
<1>9. ASSUME NEW i \in 1..Len(gate), gate'[i].state = "open"
      PROVE  i # m /\ gate'[i] = gate[i] /\ gate[i].owner # p /\ gate[i].owner \in Publisher
  <2>1. i # m
      BY Zenon, <1>4, <1>9
  <2>2. gate[i].owner \in Publisher
      BY Zenon, <1>0 DEF Token
  <2> QED
      BY Zenon, <1>2, <1>3, <1>9, <2>1, <2>2
<1>10. \A i \in 1..Len(gate) : gate'[i].state = "open" => (pub'[gate'[i].owner].pc # "idle" /\ pub'[gate'[i].owner].kind # "recover")
  <2>1. SUFFICES ASSUME NEW i \in 1..Len(gate), gate'[i].state = "open" PROVE (pub'[gate'[i].owner].pc # "idle" /\ pub'[gate'[i].owner].kind # "recover")
      BY Zenon
  <2>2. gate'[i] = gate[i] /\ gate[i].owner # p /\ gate[i].owner \in Publisher
      BY Zenon, <1>9, <2>1
  <2>3. Queueing(gate[i].owner)
      BY Zenon, <2>1, <2>2 DEF GateOK
  <2> QED
      BY Zenon, <1>6, <2>2, <2>3 DEF Queueing
<1>11. \A i, j \in 1..Len(gate) :
         gate'[i].state = "open" /\ gate'[j].state = "open" /\ gate'[i].owner = gate'[j].owner => i = j
    BY Zenon, <1>9 DEF GateOK
<1>12. ASSUME NEW q \in Publisher, Queueing(q)'
       PROVE  \E i \in 1..Len(gate) : gate'[i].state = "open" /\ gate'[i].owner = q
  <2>1. q # p /\ Queueing(q)
      BY Zenon, <1>7, <1>8, <1>12
  <2>2. PICK i \in 1..Len(gate) : gate[i].state = "open" /\ gate[i].owner = q
      BY Zenon, <2>1 DEF GateOK
  <2> QED
      BY Zenon, <1>2, <1>3, <2>1, <2>2
<1>13. ASSUME NEW q \in Publisher, Publishing(q)'
       PROVE  Len(gate) > 0 /\ gate'[1].state = "open" /\ gate'[1].owner = q
  <2>1. q # p /\ Publishing(q)
      BY Zenon, <1>7, <1>8, <1>13
  <2>2. Len(gate) > 0 /\ gate[1].state = "open" /\ gate[1].owner = q
      BY Zenon, <2>1 DEF GateOK
  <2>3. 1 \in 1..Len(gate)
      BY <1>0, <2>2
  <2> QED
      BY Zenon, <1>2, <1>3, <2>1, <2>2, <2>3
<1> QED
    BY Zenon, <1>5, <1>10, <1>11, <1>12, <1>13 DEF GateOK, Queueing

LEMMA RelayKeepsGate ==
    ASSUME GateOK, Relay
    PROVE  GateOK'
<1>1. PICK i \in DOMAIN gate : gate[i].state = "relay" /\ Turn(i) /\ gate' = Close(gate, i)
    BY Zenon DEF Relay
<1>2. i = 1 /\ Len(gate) > 0
  <2>1. i \in 1..Len(gate)
      BY Zenon, <1>1, Tokens
  <2>2. i = 1
      BY Zenon, <1>1, <2>1, TurnIsFirst
  <2> QED
      BY <2>1, <2>2, Tokens
<1>3. gate' = Tail(gate) /\ gate[1].state # "open"
  <2>1. "relay" # "open"
      OBVIOUS
  <2> QED
      BY Zenon, <1>1, <1>2, <2>1, CloseFirst
<1> QED
    BY Zenon, <1>2, <1>3, FirstCloses DEF Relay
-----------------------------------------------------------------------------
\* Connections: what the operations on a subscription's state keep.

LEMMA ClosedIsGood ==
    ASSUME NEW n \in Nat
    PROVE  GoodView(Closed, n) /\ Closed.sent = <<>> /\ ~Closed.replaying /\ Closed.pc = "closed"
<1>1. <<>> \in Seq(Nat) /\ Len(<<>>) = 0 /\ MaxBuffered \in Nat
    BY StreamAssumption
<1>2. /\ Closed.pc = "closed" /\ Closed.replaying = FALSE /\ Closed.lastSeq = 0 /\ Closed.first = 0
      /\ Closed.buffered = <<>> /\ Closed.ephemeral = 0 /\ Closed.todo = <<>> /\ Closed.sent = <<>>
    BY Zenon DEF Closed, Fresh
<1>3. Closed \in ViewState
    BY Zenon, <1>1 DEF ViewState, Closed, Fresh
<1>4. \A i \in 1..Len(<<>>) : FALSE
    BY <1>1
<1> QED
    BY <1>1, <1>2, <1>3, <1>4 DEF GoodView, Under

LEMMA FreshIsGood ==
    ASSUME NEW n \in Nat
    PROVE  GoodView(Fresh, n)
<1>1. <<>> \in Seq(Nat) /\ Len(<<>>) = 0 /\ MaxBuffered \in Nat
    BY StreamAssumption
<1>3. Fresh \in ViewState
    BY Zenon, <1>1 DEF ViewState, Fresh
<1>4. \A i \in 1..Len(<<>>) : FALSE
    BY <1>1
<1> QED
    BY <1>1, <1>3, <1>4 DEF GoodView, Under, Fresh

LEMMA AppendFacts ==
    ASSUME NEW s \in Seq(Nat), NEW h \in Nat
    PROVE  /\ Append(s, h) \in Seq(Nat) /\ Len(s) \in Nat /\ Len(Append(s, h)) = Len(s) + 1
           /\ \A i \in 1..Len(s) : Append(s, h)[i] = s[i]
           /\ Append(s, h)[Len(s) + 1] = h
           /\ \A i \in 1..(Len(s) + 1) : i \in 1..Len(s) \/ i = Len(s) + 1
           /\ \A n \in Nat : Under(s, n) /\ h <= n => Under(Append(s, h), n)
<1>1. Append(s, h) \in Seq(Nat) /\ Len(s) \in Nat /\ Len(Append(s, h)) = Len(s) + 1
    OBVIOUS
<1>2. /\ \A i \in 1..Len(s) : Append(s, h)[i] = s[i]
      /\ Append(s, h)[Len(s) + 1] = h
    OBVIOUS
<1>3. \A i \in 1..(Len(s) + 1) : i \in 1..Len(s) \/ i = Len(s) + 1
    BY <1>1
<1> QED
    BY Zenon, <1>1, <1>2, <1>3 DEF Under

LEMMA BufferIsGood ==
    ASSUME NEW n \in Nat, NEW v, NEW seq \in 0..n,
           GoodView(v, n), v.replaying, ~Overflows(v, seq)
    PROVE  /\ GoodView(Buffer(v, seq), n)
           /\ Buffer(v, seq).sent = v.sent /\ Buffer(v, seq).lastSeq = v.lastSeq
           /\ Buffer(v, seq).replaying
           /\ \A f \in {"pc", "first", "todo"} : Buffer(v, seq)[f] = v[f]
<1> DEFINE w == Buffer(v, seq)
<1>0. v \in ViewState /\ v.buffered \in Seq(Nat) /\ Len(v.buffered) \in Nat /\ v.ephemeral \in Nat
      /\ MaxBuffered \in Nat
    BY StreamAssumption DEF GoodView, ViewState
<1>1. CASE seq = 0 /\ v.ephemeral # 0
  <2>1. w = [v EXCEPT !.buffered = [v.buffered EXCEPT ![v.ephemeral] = 0]]
      BY Zenon, <1>1 DEF Buffer
  <2>2. v.ephemeral \in 1..Len(v.buffered) /\ v.buffered[v.ephemeral] = 0
      BY Zenon, <1>1 DEF GoodView
  <2>3. [v.buffered EXCEPT ![v.ephemeral] = 0] = v.buffered
      BY SMTT(20), <1>0, <2>2
  <2>4. w = v
      BY <1>0, <2>1, <2>3 DEF ViewState
  <2> QED
      BY Zenon, <2>4
<1>2. CASE ~(seq = 0 /\ v.ephemeral # 0)
  <2> DEFINE e == IF seq = 0 THEN Len(v.buffered) + 1 ELSE v.ephemeral
  <2>1. w = [v EXCEPT !.buffered = Append(v.buffered, seq), !.ephemeral = e]
      BY Zenon, <1>2 DEF Buffer
  <2>2. e \in Nat
      BY <1>0
  <2>3. Append(v.buffered, seq) \in Seq(Nat) /\ Len(Append(v.buffered, seq)) = Len(v.buffered) + 1
      BY <1>0
  <2>4. /\ w \in ViewState /\ w.buffered = Append(v.buffered, seq) /\ w.ephemeral = e
        /\ w.pc = v.pc /\ w.replaying = v.replaying /\ w.lastSeq = v.lastSeq /\ w.first = v.first
        /\ w.todo = v.todo /\ w.sent = v.sent
      BY Zenon, <1>0, <2>1, <2>2, <2>3 DEF ViewState
  <2>5. Under(w.buffered, n)
    <3>1. seq \in Nat /\ seq <= n
        OBVIOUS
    <3>2. Under(v.buffered, n)
        BY Zenon DEF GoodView
    <3>3. Under(Append(v.buffered, seq), n)
        BY Zenon, <1>0, <3>1, <3>2, AppendFacts
    <3> QED
        BY Zenon, <2>4, <3>3
  <2>6. Len(w.buffered) <= MaxBuffered
      BY <1>0, <1>2, <2>3, <2>4 DEF Overflows
  <2>7. w.ephemeral # 0 => w.ephemeral \in 1..Len(w.buffered) /\ w.buffered[w.ephemeral] = 0
    <3>1. seq \in Nat
        OBVIOUS
    <3>2. Append(v.buffered, seq)[Len(v.buffered) + 1] = seq
        BY Zenon, <1>0, <3>1, AppendFacts
    <3>3. seq = 0 => e = Len(v.buffered) + 1 /\ Len(v.buffered) + 1 \in 1..(Len(v.buffered) + 1)
        BY <1>0
    <3>4. seq # 0 => e = v.ephemeral
        OBVIOUS
    <3>5. \A i \in 1..Len(v.buffered) : i \in 1..(Len(v.buffered) + 1) /\ Append(v.buffered, seq)[i] = v.buffered[i]
        BY <1>0, <3>1, AppendFacts
    <3> HIDE DEF w, e
    <3>6. seq # 0 /\ v.ephemeral # 0 => v.ephemeral \in 1..Len(v.buffered) /\ v.buffered[v.ephemeral] = 0
        BY Zenon DEF GoodView
    <3> QED
        BY Zenon, <1>2, <2>3, <2>4, <3>2, <3>3, <3>4, <3>5, <3>6
  <2> HIDE DEF w, e
  <2>8. GoodView(w, n)
      BY Zenon, <2>4, <2>5, <2>6, <2>7 DEF GoodView
  <2>9. \A f \in {"pc", "first", "todo"} : w[f] = v[f]
      BY Zenon, <2>4
  <2> QED
      BY Zenon, <2>4, <2>8, <2>9 DEF w
<1> QED
    BY Zenon, <1>1, <1>2

\* What the steps of a connection that replays make of its state v.
Begun(v, next, m) == [v EXCEPT !.pc = next, !.lastSeq = m, !.first = m]
WithRows(v, n) == [v EXCEPT !.pc = "rows", !.todo = [i \in 1..(n - v.first) |-> v.first + i]]
AllRows(v) == [v EXCEPT !.pc = "finish"]
Skipped(v) == [v EXCEPT !.todo = Tail(@)]
Wrote(v, h) == [v EXCEPT !.sent = Append(v.sent, h), !.lastSeq = h, !.todo = Tail(v.todo)]

LEMMA RegisterIsGood ==
    ASSUME NEW n \in Nat, NEW v, GoodView(v, n), v.pc = "new", NEW m \in 0..n, NEW next \in {"replay", "tail"}
    PROVE  /\ GoodView(Begun(v, next, m), n) /\ Begun(v, next, m).replaying /\ v.replaying
           /\ Begun(v, next, m).sent = <<>> /\ Begun(v, next, m).lastSeq = m
<1> DEFINE w == Begun(v, next, m)
<1>1. v \in ViewState /\ v.todo = <<>> /\ v.replaying /\ v.sent = <<>>
    BY Zenon DEF GoodView
<1>2. /\ w \in ViewState /\ w.pc = next /\ w.lastSeq = m /\ w.first = m /\ w.replaying = v.replaying
      /\ w.buffered = v.buffered /\ w.todo = v.todo /\ w.sent = v.sent /\ w.ephemeral = v.ephemeral
  <2>1. next \in {"new", "tail", "replay", "rows", "finish", "live", "closed"} /\ m \in Nat
      OBVIOUS
  <2> QED
      BY Zenon, <1>1, <2>1 DEF ViewState, Begun
<1> HIDE DEF w
<1>3. m <= n /\ w.pc \in {"new", "tail", "replay"} /\ w.pc \notin {"rows", "finish"} /\ w.pc # "rows"
      /\ w.pc \in {"new", "tail", "replay", "rows", "finish"}
    BY <1>2
<1> QED
    BY Zenon, <1>1, <1>2, <1>3 DEF GoodView, w

LEMMA TailIsGood ==
    ASSUME NEW n \in Nat, NEW v, GoodView(v, n), v.pc = "tail"
    PROVE  /\ GoodView(Begun(v, "finish", n), n) /\ Begun(v, "finish", n).replaying /\ v.replaying
           /\ Begun(v, "finish", n).sent = <<>> /\ Begun(v, "finish", n).lastSeq = n
<1> DEFINE w == Begun(v, "finish", n)
<1>1. v \in ViewState /\ v.todo = <<>> /\ v.replaying /\ v.sent = <<>>
    BY Zenon DEF GoodView
<1>2. /\ w \in ViewState /\ w.pc = "finish" /\ w.lastSeq = n /\ w.first = n /\ w.replaying = v.replaying
      /\ w.buffered = v.buffered /\ w.todo = v.todo /\ w.sent = v.sent /\ w.ephemeral = v.ephemeral
    BY Zenon, <1>1 DEF ViewState, Begun
<1> HIDE DEF w
<1>3. n <= n /\ w.pc \notin {"new", "tail", "replay"} /\ w.pc \in {"rows", "finish"} /\ w.pc # "rows"
      /\ w.pc \in {"new", "tail", "replay", "rows", "finish"}
    BY <1>2
<1> QED
    BY Zenon, <1>1, <1>2, <1>3 DEF GoodView, w

LEMMA RowsAreGood ==
    ASSUME NEW n \in Nat, NEW v, GoodView(v, n), v.pc = "replay",
           NEW w, w = WithRows(v, n)
    PROVE  /\ GoodView(w, n) /\ w.replaying /\ v.replaying /\ w.sent = v.sent /\ w.lastSeq = v.lastSeq
           /\ w.first = v.first /\ w.buffered = v.buffered /\ w.pc = "rows"
           /\ w.todo = [i \in 1..(n - v.first) |-> v.first + i] /\ Len(w.todo) = n - v.first
<1> DEFINE s == [i \in 1..(n - v.first) |-> v.first + i]
<1>1. v \in ViewState /\ v.todo = <<>> /\ v.replaying /\ v.sent = <<>> /\ v.first \in Nat /\ v.first <= n
      /\ v.lastSeq = v.first
    BY Zenon DEF GoodView, ViewState
<1>2. s \in Seq(Nat) /\ Len(s) = n - v.first /\ \A i \in 1..Len(s) : s[i] = v.first + i /\ s[i] <= n
    BY <1>1
<1>3. /\ w \in ViewState /\ w.pc = "rows" /\ w.lastSeq = v.lastSeq /\ w.first = v.first /\ w.replaying = v.replaying
      /\ w.buffered = v.buffered /\ w.todo = s /\ w.sent = v.sent /\ w.ephemeral = v.ephemeral
    BY Zenon, <1>1, <1>2 DEF ViewState, WithRows
<1>4. w.pc \notin {"new", "tail", "replay"} /\ w.pc \in {"rows", "finish"}
      /\ w.pc \in {"new", "tail", "replay", "rows", "finish"}
    BY Zenon, <1>3
<1>5. w.todo = [i \in 1..(n - v.first) |-> v.first + i]
    BY Zenon, <1>3
<1> HIDE DEF s
<1>6. Under(w.todo, n) /\ \A i \in 1..Len(w.todo) : w.todo[i] = w.lastSeq + i
    BY Zenon, <1>1, <1>2, <1>3 DEF Under
<1>7. GoodView(w, n)
    BY Zenon, <1>1, <1>3, <1>4, <1>6 DEF GoodView
<1> QED
    BY Zenon, <1>1, <1>2, <1>3, <1>5, <1>7

LEMMA UnderTail ==
    ASSUME NEW s \in Seq(Nat), s # <<>>, NEW n \in Nat, Under(s, n)
    PROVE  Under(Tail(s), n) /\ Head(s) <= n
<1>1. /\ Len(Tail(s)) = Len(s) - 1 /\ Len(s) \in Nat /\ Head(s) = s[1] /\ 1 \in 1..Len(s)
      /\ \A i \in 1..(Len(s) - 1) : Tail(s)[i] = s[i + 1]
    BY Zenon, TailFacts
<1>2. \A i \in 1..(Len(s) - 1) : i + 1 \in 1..Len(s)
    BY <1>1
<1> QED
    BY Zenon, <1>1, <1>2 DEF Under

LEMMA SkipIsGood ==
    ASSUME NEW n \in Nat, NEW v, GoodView(v, n), v.pc = "finish", v.todo # <<>>,
           NEW w, w = Skipped(v)
    PROVE  /\ GoodView(w, n) /\ w.replaying /\ v.replaying /\ w.sent = v.sent /\ w.lastSeq = v.lastSeq
           /\ w.pc = v.pc /\ w.first = v.first /\ w.buffered = v.buffered /\ w.todo = Tail(v.todo)
<1>1. v \in ViewState /\ v.replaying /\ v.todo \in Seq(Nat)
    BY Zenon DEF GoodView, ViewState
<1>2. Tail(v.todo) \in Seq(Nat)
    BY Zenon, <1>1, TailFacts
<1>3. Under(Tail(v.todo), n)
    BY Zenon, <1>1, UnderTail DEF GoodView
<1>4. /\ w \in ViewState /\ w.pc = v.pc /\ w.lastSeq = v.lastSeq /\ w.first = v.first /\ w.replaying = v.replaying
      /\ w.buffered = v.buffered /\ w.todo = Tail(v.todo) /\ w.sent = v.sent /\ w.ephemeral = v.ephemeral
    BY Zenon, <1>1, <1>2 DEF ViewState, Skipped
<1>5. w.pc # "rows" /\ w.pc \in {"rows", "finish"}
    BY Zenon, <1>4
<1>6. GoodView(w, n)
    BY Zenon, <1>1, <1>3, <1>4, <1>5 DEF GoodView
<1> QED
    BY Zenon, <1>1, <1>4, <1>6

LEMMA WroteIs ==
    ASSUME NEW v \in ViewState, NEW h \in Nat, h = Head(v.todo), h > v.lastSeq
    PROVE  /\ writeRow(v) = Wrote(v, h)
           /\ markSent(WriteSeq(Skipped(v), h), h) = Wrote(v, h)
<1>1. h # 0 /\ v.lastSeq \in Nat
    BY DEF ViewState
<1>2. WriteSeq(v, h) = [v EXCEPT !.sent = Append(v.sent, h)] /\ WriteSeq(v, h).lastSeq = v.lastSeq
    BY Zenon, <1>1 DEF WriteSeq, ViewState
<1>3. markSent(WriteSeq(v, h), h) = [WriteSeq(v, h) EXCEPT !.lastSeq = h]
    BY Zenon, <1>2 DEF markSent
<1>8. [markSent(WriteSeq(v, h), h) EXCEPT !.todo = Tail(v.todo)] = Wrote(v, h)
    BY Zenon, <1>2, <1>3 DEF Wrote, ViewState
<1>4. writeRow(v) = Wrote(v, h)
    BY Zenon, <1>8 DEF writeRow
<1>5. WriteSeq(Skipped(v), h) = [Skipped(v) EXCEPT !.sent = Append(v.sent, h)] /\ WriteSeq(Skipped(v), h).lastSeq = v.lastSeq
    BY Zenon, <1>1 DEF WriteSeq, ViewState, Skipped
<1>6. markSent(WriteSeq(Skipped(v), h), h) = [WriteSeq(Skipped(v), h) EXCEPT !.lastSeq = h]
    BY Zenon, <1>5 DEF markSent
<1>7. markSent(WriteSeq(Skipped(v), h), h) = Wrote(v, h)
    BY Zenon, <1>5, <1>6 DEF Wrote, ViewState, Skipped
<1> QED
    BY Zenon, <1>4, <1>7

\* w is v after h, the next number it had to write.
Follows(v, w, h, n) ==
    /\ GoodView(w, n) /\ w.replaying /\ v.replaying /\ h \in Nat
    /\ w.sent = Append(v.sent, h) /\ w.lastSeq = h
    /\ w.pc = v.pc /\ w.first = v.first /\ w.buffered = v.buffered /\ w.todo = Tail(v.todo)

\* The next event of a replay or of a drained buffer is written and counted.
LEMMA WriteNextIsGood ==
    ASSUME NEW n \in Nat, NEW v, GoodView(v, n), v.pc \in {"rows", "finish"}, v.todo # <<>>,
           Head(v.todo) > v.lastSeq,
           NEW h, NEW w, h = Head(v.todo), w = Wrote(v, h)
    PROVE  Follows(v, w, h, n)
<1>1. v \in ViewState /\ v.todo \in Seq(Nat) /\ v.sent \in Seq(Nat) /\ v.lastSeq \in Nat
    BY Zenon DEF GoodView, ViewState
<1>2. /\ Tail(v.todo) \in Seq(Nat) /\ h \in Nat /\ h = v.todo[1] /\ 1 \in 1..Len(v.todo)
      /\ Len(Tail(v.todo)) = Len(v.todo) - 1 /\ Len(v.todo) \in Nat
      /\ \A i \in 1..(Len(v.todo) - 1) : Tail(v.todo)[i] = v.todo[i + 1]
    BY Zenon, <1>1, TailFacts
<1>3. h <= n /\ Under(Tail(v.todo), n)
    BY Zenon, <1>1, <1>2, UnderTail DEF GoodView
<1>4. Append(v.sent, h) \in Seq(Nat) /\ Under(Append(v.sent, h), n)
    BY Zenon, <1>1, <1>2, <1>3, AppendFacts DEF GoodView
<1>7. /\ w \in ViewState /\ w.pc = v.pc /\ w.lastSeq = h /\ w.first = v.first /\ w.replaying = v.replaying
      /\ w.buffered = v.buffered /\ w.todo = Tail(v.todo) /\ w.sent = Append(v.sent, h) /\ w.ephemeral = v.ephemeral
    BY Zenon, <1>1, <1>2, <1>4 DEF ViewState, Wrote
<1>8. w.pc \notin {"new", "tail", "replay"} /\ v.pc \in {"new", "tail", "replay", "rows", "finish"}
    BY Zenon, <1>7
<1>9. v.pc = "rows" => \A i \in 1..Len(Tail(v.todo)) : Tail(v.todo)[i] = h + i
  <2>1. SUFFICES ASSUME v.pc = "rows", NEW i \in 1..Len(Tail(v.todo)) PROVE Tail(v.todo)[i] = h + i
      BY Zenon
  <2>2. \A k \in 1..Len(v.todo) : v.todo[k] = v.lastSeq + k
      BY Zenon, <2>1 DEF GoodView
  <2>3. i + 1 \in 1..Len(v.todo) /\ i \in 1..(Len(v.todo) - 1) /\ i \in Nat
      BY <1>2
  <2>4. v.todo[i + 1] = v.lastSeq + (i + 1) /\ h = v.lastSeq + 1
      BY Zenon, <1>2, <2>2, <2>3
  <2>5. Tail(v.todo)[i] = v.lastSeq + (i + 1)
      BY Zenon, <1>2, <2>3, <2>4
  <2>6. v.lastSeq + (i + 1) = (v.lastSeq + 1) + i
    <3>1. v.lastSeq \in Nat
        BY Zenon, <1>1
    <3> QED
        BY <2>3, <3>1
  <2> QED
      BY Zenon, <2>4, <2>5, <2>6
<1>10. GoodView(w, n)
    BY ZenonT(40), <1>3, <1>4, <1>7, <1>8, <1>9 DEF GoodView
<1>11. v.replaying
    BY Zenon, <1>8 DEF GoodView
<1> QED
    BY Zenon, <1>2, <1>7, <1>10, <1>11 DEF Follows

LEMMA RowsEndIsGood ==
    ASSUME NEW n \in Nat, NEW v, GoodView(v, n), v.pc = "rows", NEW w, w = AllRows(v)
    PROVE  /\ GoodView(w, n) /\ w.replaying /\ v.replaying /\ w.sent = v.sent /\ w.lastSeq = v.lastSeq
           /\ w.pc = "finish" /\ w.first = v.first /\ w.buffered = v.buffered /\ w.todo = v.todo
<1>1. v \in ViewState /\ v.replaying
    BY Zenon DEF GoodView
<1>2. /\ w \in ViewState /\ w.pc = "finish" /\ w.lastSeq = v.lastSeq /\ w.first = v.first /\ w.replaying = v.replaying
      /\ w.buffered = v.buffered /\ w.todo = v.todo /\ w.sent = v.sent /\ w.ephemeral = v.ephemeral
    BY Zenon, <1>1 DEF ViewState, AllRows
<1>3. w.pc # "rows" /\ w.pc \in {"rows", "finish"} /\ w.pc \in {"new", "tail", "replay", "rows", "finish"}
      /\ w.pc \notin {"new", "tail", "replay"}
    BY Zenon, <1>2
<1>4. GoodView(w, n)
    BY Zenon, <1>1, <1>2, <1>3 DEF GoodView
<1> QED
    BY Zenon, <1>1, <1>2, <1>4

LEMMA RoundState ==
    ASSUME NEW v \in ViewState
    PROVE  /\ [v EXCEPT !.replaying = FALSE, !.pc = "live", !.ephemeral = 0] \in ViewState
           /\ [v EXCEPT !.todo = v.buffered, !.buffered = <<>>, !.ephemeral = 0] \in ViewState
<1>1. [v EXCEPT !.replaying = FALSE, !.pc = "live", !.ephemeral = 0] \in ViewState
    BY Zenon DEF ViewState
<1>2. v.buffered \in Seq(Nat) /\ <<>> \in Seq(Nat)
    BY DEF ViewState
<1>3. [v EXCEPT !.todo = v.buffered, !.buffered = <<>>, !.ephemeral = 0] \in ViewState
    BY Zenon, <1>2 DEF ViewState
<1> QED
    BY Zenon, <1>1, <1>3

LEMMA RoundIsGood ==
    ASSUME NEW n \in Nat, NEW v, GoodView(v, n), v.pc = "finish", v.todo = <<>>, NEW w, w = finishRound(v)
    PROVE  /\ GoodView(w, n) /\ v.replaying /\ w.sent = v.sent /\ w.lastSeq = v.lastSeq /\ w.first = v.first
           /\ w.todo = v.buffered /\ w.buffered = <<>>
           /\ v.buffered = <<>> => w.pc = "live" /\ ~w.replaying
           /\ v.buffered # <<>> => w.pc = "finish" /\ w.replaying
<1>0. <<>> \in Seq(Nat) /\ Len(<<>>) = 0 /\ Len(<<>>) <= MaxBuffered
    BY StreamAssumption
<1>1. v \in ViewState /\ v.replaying
    BY Zenon DEF GoodView
<1>2. Under(<<>>, n)
    BY <1>0 DEF Under
<1>3. CASE v.buffered = <<>>
  <2>1. w = [v EXCEPT !.replaying = FALSE, !.pc = "live", !.ephemeral = 0]
      BY Zenon, <1>3 DEF finishRound
  <2>5. w \in ViewState
      BY Zenon, <1>1, <2>1, RoundState
  <2>2. /\ w \in ViewState /\ w.pc = "live" /\ w.lastSeq = v.lastSeq /\ w.first = v.first /\ w.replaying = FALSE
        /\ w.buffered = v.buffered /\ w.todo = v.todo /\ w.sent = v.sent /\ w.ephemeral = 0
      BY Zenon, <1>1, <2>1, <2>5 DEF ViewState
  <2>3. w.pc # "rows" /\ w.pc \notin {"new", "tail", "replay", "rows", "finish"}
        /\ w.pc \notin {"new", "tail", "replay"}
      BY Zenon, <2>2
  <2>4. GoodView(w, n)
      BY Zenon, <1>0, <1>3, <2>2, <2>3 DEF GoodView
  <2> QED
      BY Zenon, <1>1, <1>3, <2>2, <2>4
<1>4. CASE v.buffered # <<>>
  <2>1. w = [v EXCEPT !.todo = v.buffered, !.buffered = <<>>, !.ephemeral = 0]
      BY Zenon, <1>4 DEF finishRound, takeBuffered
  <2>5. w \in ViewState
      BY Zenon, <1>1, <2>1, RoundState
  <2>2. /\ w \in ViewState /\ w.pc = "finish" /\ w.lastSeq = v.lastSeq /\ w.first = v.first /\ w.replaying = v.replaying
        /\ w.buffered = <<>> /\ w.todo = v.buffered /\ w.sent = v.sent /\ w.ephemeral = 0
      BY Zenon, <1>1, <2>1, <2>5 DEF ViewState
  <2>3. w.pc # "rows" /\ w.pc \in {"rows", "finish"} /\ w.pc \in {"new", "tail", "replay", "rows", "finish"}
        /\ w.pc \notin {"new", "tail", "replay"}
      BY Zenon, <2>2
  <2>4. GoodView(w, n)
      BY Zenon, <1>0, <1>1, <1>2, <2>2, <2>3 DEF GoodView
  <2> QED
      BY Zenon, <1>1, <1>4, <2>2, <2>4
<1> QED
    BY Zenon, <1>3, <1>4

\* A live connection, or one that was closed meanwhile: w is v with h written, and with h counted.
LiveWrote(v, w, h, n) ==
    /\ GoodView(w, n) /\ ~w.replaying /\ w.sent = Append(v.sent, h) /\ w.lastSeq = v.lastSeq
    /\ w.pc = v.pc /\ w.first = v.first

LiveCounted(v, w, h, n) ==
    /\ GoodView(w, n) /\ ~w.replaying /\ w.sent = v.sent /\ w.lastSeq >= v.lastSeq /\ w.lastSeq >= h
    /\ w.lastSeq = IF h > v.lastSeq THEN h ELSE v.lastSeq
    /\ w.pc = v.pc /\ w.first = v.first

LEMMA LiveWriteIsGood ==
    ASSUME NEW n \in Nat, NEW v, GoodView(v, n), ~v.replaying, NEW h \in Nat, h > 0, h <= n,
           NEW w, w = WriteSeq(v, h)
    PROVE  LiveWrote(v, w, h, n)
<1>1. v \in ViewState /\ v.sent \in Seq(Nat)
    BY Zenon DEF GoodView, ViewState
<1>2. Append(v.sent, h) \in Seq(Nat) /\ Under(Append(v.sent, h), n)
    BY Zenon, <1>1, AppendFacts DEF GoodView
<1>3. w = [v EXCEPT !.sent = Append(v.sent, h)]
    BY DEF WriteSeq
<1>4. /\ w \in ViewState /\ w.pc = v.pc /\ w.lastSeq = v.lastSeq /\ w.first = v.first /\ w.replaying = v.replaying
      /\ w.buffered = v.buffered /\ w.todo = v.todo /\ w.sent = Append(v.sent, h) /\ w.ephemeral = v.ephemeral
    BY Zenon, <1>1, <1>2, <1>3 DEF ViewState
<1>5. v.pc \notin {"new", "tail", "replay"} /\ v.pc # "rows"
  <2>1. v.pc \notin {"new", "tail", "replay", "rows", "finish"}
      BY Zenon DEF GoodView
  <2> QED
      BY Zenon, <2>1
<1>6. GoodView(w, n)
    BY Zenon, <1>2, <1>4, <1>5 DEF GoodView
<1> QED
    BY Zenon, <1>4, <1>6 DEF LiveWrote

LEMMA LiveMarkIsGood ==
    ASSUME NEW n \in Nat, NEW v, GoodView(v, n), ~v.replaying, NEW h \in Nat, h <= n,
           NEW w, w = markSent(v, h)
    PROVE  LiveCounted(v, w, h, n)
<1> DEFINE m == IF h > v.lastSeq THEN h ELSE v.lastSeq
<1>1. v \in ViewState /\ v.lastSeq \in Nat /\ v.lastSeq <= n
    BY Zenon DEF GoodView, ViewState
<1>2. m \in Nat /\ m <= n /\ m >= h /\ m >= v.lastSeq
    BY <1>1
<1>3. w = [v EXCEPT !.lastSeq = m]
    BY Zenon DEF markSent
<1>4. /\ w \in ViewState /\ w.pc = v.pc /\ w.lastSeq = m /\ w.first = v.first /\ w.replaying = v.replaying
      /\ w.buffered = v.buffered /\ w.todo = v.todo /\ w.sent = v.sent /\ w.ephemeral = v.ephemeral
    BY Zenon, <1>1, <1>2, <1>3 DEF ViewState
<1>5. v.pc \notin {"new", "tail", "replay"} /\ v.pc # "rows"
  <2>1. v.pc \notin {"new", "tail", "replay", "rows", "finish"}
      BY Zenon DEF GoodView
  <2> QED
      BY Zenon, <2>1
<1>6. GoodView(w, n)
    BY Zenon, <1>2, <1>4, <1>5 DEF GoodView
<1> QED
    BY Zenon, <1>2, <1>4, <1>6 DEF LiveCounted
-----------------------------------------------------------------------------
\* The steps of a connection.

LEMMA GateUnmoved ==
    ASSUME GateOK, gate' = gate, pub' = pub
    PROVE  GateOK'
    BY Zenon DEF GateOK, Queueing, Publishing

LEMMA OwnUnmoved ==
    ASSUME OwnNumbers, receipts' = receipts, borrowed \subseteq borrowed', pub' = pub
    PROVE  OwnNumbers'
<1>1. \A p, q \in Publisher : p # q =>
         \A i \in 1..Len(pub'[p].todo) : ~Has(pub'[q].todo, pub'[p].todo[i]) \/ pub'[p].todo[i] \in borrowed'
    BY Zenon DEF OwnNumbers
<1>2. \A p \in Publisher : pub'[p].kind = "recover" => \A n \in receipts' : ~Has(pub'[p].todo, n)
    BY Zenon DEF OwnNumbers
<1> QED
    BY Zenon, <1>1, <1>2 DEF OwnNumbers, Has

\* A connection that another one's step leaves alone.
LEMMA SentUnmoved ==
    ASSUME NEW d \in Viewer, SentOK(d), view'[d] = view[d], pub' = pub, borrowed \subseteq borrowed'
    PROVE  SentOK(d)'
    BY Zenon DEF SentOK, Has, Marks

LEMMA SentEmpty ==
    ASSUME NEW c \in Viewer, view'[c].sent = <<>>
    PROVE  SentOK(c)'
<1>1. \A i \in 1..Len(view'[c].sent) : FALSE
    BY SMT
<1> QED
    BY Zenon, <1>1 DEF SentOK, Has

\* Nothing was written to it, and it counts at least as far.
LEMMA SentCounted ==
    ASSUME NEW c \in Viewer, SentOK(c), view[c].sent \in Seq(Nat),
           view'[c].sent = view[c].sent, pub' = pub, borrowed \subseteq borrowed',
           view[c].lastSeq \in Nat, view'[c].lastSeq \in Nat, view'[c].lastSeq >= view[c].lastSeq
    PROVE  SentOK(c)'
<1>1. \A i \in 1..Len(view[c].sent) : view[c].sent[i] <= view[c].lastSeq => view[c].sent[i] <= view'[c].lastSeq
    BY SMTT(20)
<1> QED
    BY Zenon, <1>1 DEF SentOK, Has, Marks

\* A replaying connection, which nobody else writes to, gets a number past its last.
LEMMA SentReplayed ==
    ASSUME NEW c \in Viewer, SentOK(c), view[c].sent \in Seq(Nat), pub' = pub, borrowed \subseteq borrowed',
           \A p \in Publisher : c \notin pub[p].to,
           view[c].lastSeq \in Nat, NEW h \in Nat, h > view[c].lastSeq, view'[c].lastSeq = h,
           view'[c].sent = Append(view[c].sent, h)
    PROVE  SentOK(c)'
<1> DEFINE s == view[c].sent
           z == Append(view[c].sent, h)
<1>1. \A i \in 1..Len(s) : s[i] <= view[c].lastSeq
    BY Zenon DEF SentOK, Marks
<1>2. /\ Len(s) \in Nat /\ Len(z) = Len(s) + 1 /\ z[Len(s) + 1] = h
      /\ \A i \in 1..Len(s) : z[i] = s[i]
      /\ \A i \in 1..(Len(s) + 1) : i \in 1..Len(s) \/ i = Len(s) + 1
    BY Zenon, AppendFacts
<1>3. \A i \in 1..Len(s) : s[i] < h /\ s[i] <= h /\ s[i] # h
    BY SMTT(20), <1>1
<1>4. h <= h
    OBVIOUS
<1>5. \A i, j \in 1..Len(s) : s[i] = s[j] => i = j \/ s[i] \in borrowed'
    BY Zenon DEF SentOK
<1>8. view'[c].sent = z
    OBVIOUS
<1> HIDE DEF s, z
<1>6. \A i, j \in 1..Len(z) : z[i] = z[j] => i = j \/ z[i] \in borrowed'
    BY Zenon, <1>2, <1>3, <1>5
<1>7. \A i \in 1..Len(z) : z[i] <= view'[c].lastSeq
    BY Zenon, <1>2, <1>3, <1>4
<1> QED
    BY Zenon, <1>6, <1>7, <1>8 DEF SentOK

LEMMA ViewStep ==
    ASSUME StreamInv, NEW c \in Viewer, NEW v, view' = [view EXCEPT ![c] = v],
           latest' = latest, receipts' = receipts, borrowed \subseteq borrowed',
           gate' = gate, pub' = pub, subscribers' \subseteq Viewer,
           GoodView(v, latest), v.replaying => view[c].replaying,
           \/ v.sent = <<>>
           \/ v.sent = view[c].sent /\ v.lastSeq >= view[c].lastSeq
           \/ /\ view[c].replaying /\ v.lastSeq > view[c].lastSeq
              /\ v.sent = Append(view[c].sent, v.lastSeq)
    PROVE  StreamInv'
<1>1. v \in ViewState /\ v.lastSeq \in Nat
    BY Zenon DEF GoodView, ViewState
<1>2. view \in [Viewer -> ViewState] /\ view[c] \in ViewState /\ view[c].lastSeq \in Nat /\ view[c].sent \in Seq(Nat)
    BY Zenon DEF StreamInv, StreamShape, ViewState
<1>3. view'[c] = v /\ \A d \in Viewer : d # c => view'[d] = view[d]
    BY Zenon, <1>2
<1>4. view' \in [Viewer -> ViewState]
    BY Zenon, <1>1, <1>2
<1>5. StreamShape'
  <2>1. \A d \in Viewer : GoodView(view'[d], latest)
      BY Zenon, <1>3 DEF StreamInv, StreamShape
  <2>2. \A d \in Viewer : GoodView(view[d], latest)'
      BY Zenon, <2>1
  <2>3. \A p \in Publisher : GoodPub(pub[p], latest)'
      BY Zenon DEF StreamInv, StreamShape
  <2> QED
      BY Zenon, <1>4, <2>2, <2>3 DEF StreamInv, StreamShape
<1>6. Apart'
    BY Zenon, <1>3 DEF StreamInv, Apart
<1>7. GateOK' /\ OwnNumbers'
    BY Zenon, GateUnmoved, OwnUnmoved DEF StreamInv
<1>8. SentOK(c)
    BY Zenon DEF StreamInv
<1>9. SentOK(c)'
  <2>1. CASE v.sent = <<>>
      BY Zenon, <1>3, <2>1, SentEmpty
  <2>2. CASE v.sent = view[c].sent /\ v.lastSeq >= view[c].lastSeq
      BY Zenon, <1>1, <1>2, <1>3, <1>8, <2>2, SentCounted
  <2>3. CASE /\ view[c].replaying /\ v.lastSeq > view[c].lastSeq
             /\ v.sent = Append(view[c].sent, v.lastSeq)
    <3>1. \A p \in Publisher : c \notin pub[p].to
        BY Zenon, <2>3 DEF StreamInv, Apart
    <3> QED
        BY Zenon, <1>1, <1>2, <1>3, <1>8, <2>3, <3>1, SentReplayed
  <2> QED
      BY Zenon, <2>1, <2>2, <2>3
<1>10. \A d \in Viewer : SentOK(d)'
    BY Zenon, <1>3, <1>9, SentUnmoved DEF StreamInv
<1> QED
    BY Zenon, <1>5, <1>6, <1>7, <1>10 DEF StreamInv

LEMMA ShapeOf ==
    ASSUME StreamInv, NEW c \in Viewer
    PROVE  /\ latest \in Nat /\ GoodView(view[c], latest) /\ view[c] \in ViewState
           /\ view \in [Viewer -> ViewState] /\ DOMAIN view = Viewer
           /\ view[c].lastSeq \in Nat /\ view[c].first \in Nat /\ view[c].todo \in Seq(Nat)
           /\ view[c].lastSeq <= view[c].lastSeq /\ view[c].lastSeq <= latest
           /\ subscribers \subseteq Viewer /\ subscribers \cup {c} \subseteq Viewer /\ subscribers \ {c} \subseteq Viewer
           /\ view[c].replaying \in BOOLEAN
<1>1. latest \in Nat
    BY StreamAssumption DEF StreamInv, StreamShape
<1>2. GoodView(view[c], latest) /\ view \in [Viewer -> ViewState] /\ subscribers \subseteq Viewer
    BY Zenon DEF StreamInv, StreamShape
<1>3. view[c] \in ViewState
    BY Zenon, <1>2
<1>4. view[c].lastSeq \in Nat /\ view[c].first \in Nat /\ view[c].todo \in Seq(Nat) /\ view[c].replaying \in BOOLEAN
    BY Zenon, <1>3 DEF ViewState
<1>5. view[c].lastSeq <= view[c].lastSeq
    BY <1>4
<1>6. view[c].lastSeq <= latest
    BY Zenon, <1>2 DEF GoodView
<1> QED
    BY Zenon, <1>1, <1>2, <1>3, <1>4, <1>5, <1>6

LEMMA SendReplayingKeeps ==
    ASSUME StreamInv, NEW c \in Viewer, NEW seq \in 0..latest, view[c].replaying,
           sendWhileReplaying(c, seq), latest' = latest, receipts' = receipts, borrowed \subseteq borrowed', gate' = gate, pub' = pub
    PROVE  StreamInv'
<1>1. CASE Overflows(view[c], seq)
  <2>1. view' = [view EXCEPT ![c] = Closed] /\ subscribers' = subscribers \ {c}
      BY Zenon, <1>1 DEF sendWhileReplaying, DropViewer
  <2> QED
      BY Zenon, <2>1, ShapeOf, ClosedIsGood, ViewStep
<1>2. CASE ~Overflows(view[c], seq)
  <2>1. view' = [view EXCEPT ![c] = Buffer(view[c], seq)] /\ subscribers' = subscribers
      BY Zenon, <1>2 DEF sendWhileReplaying
  <2>2. /\ GoodView(Buffer(view[c], seq), latest) /\ Buffer(view[c], seq).sent = view[c].sent
        /\ Buffer(view[c], seq).lastSeq = view[c].lastSeq
      BY <1>2, ShapeOf, BufferIsGood
  <2>3. Buffer(view[c], seq).lastSeq >= view[c].lastSeq
      BY Zenon, <2>2, ShapeOf
  <2> QED
      BY Zenon, <2>1, <2>2, <2>3, ShapeOf, ViewStep
<1> QED
    BY Zenon, <1>1, <1>2

LEMMA ViewerKeeps ==
    ASSUME StreamInv, NEW c \in Viewer,
           Serve(c) \/ RegisterPeer(c) \/ EmitEphemeral(c) \/ SocketDies(c)
    PROVE  StreamInv'
<1> DEFINE st == view[c]
<1>0. latest \in Nat /\ GoodView(st, latest) /\ st.lastSeq \in Nat
    BY Zenon, ShapeOf
<1>1. CASE PrepareTailBootstrap(c)
  <2> DEFINE w == Begun(st, "finish", latest)
  <2>1. view' = [view EXCEPT ![c] = w] /\ st.pc = "tail"
      BY Zenon, <1>1, ShapeOf DEF PrepareTailBootstrap, Begun
  <2>2. GoodView(w, latest) /\ st.replaying /\ w.sent = <<>>
      BY Zenon, <1>0, <2>1, TailIsGood
  <2> QED
      BY Zenon, <1>1, <2>1, <2>2, ShapeOf, ViewStep DEF PrepareTailBootstrap
<1>2. CASE Replay(c)
  <2> DEFINE w == WithRows(st, latest)
  <2>1. view' = [view EXCEPT ![c] = w] /\ st.pc = "replay"
      BY Zenon, <1>2, ShapeOf DEF Replay, replaysFrom, WithRows
  <2>2. GoodView(w, latest) /\ st.replaying /\ w.sent = st.sent /\ w.lastSeq = st.lastSeq
    <3>1. st.pc = "replay" /\ w = WithRows(st, latest)
        BY Zenon, <2>1
    <3> HIDE DEF w
    <3> QED
        BY ZenonT(40), <1>0, <3>1, RowsAreGood
  <2>3. w.lastSeq >= st.lastSeq
      BY Zenon, <2>2, ShapeOf
  <2> QED
      BY Zenon, <1>2, <2>1, <2>2, <2>3, ShapeOf, ViewStep DEF Replay
<1>3. CASE WriteReplayEvent(c) /\ st.todo = <<>>
  <2> DEFINE w == AllRows(st)
  <2>1. view' = [view EXCEPT ![c] = w] /\ st.pc = "rows"
      BY Zenon, <1>3 DEF WriteReplayEvent, AllRows
  <2>2. GoodView(w, latest) /\ st.replaying /\ w.sent = st.sent /\ w.lastSeq = st.lastSeq
      BY Zenon, <1>0, <2>1, RowsEndIsGood
  <2>3. w.lastSeq >= st.lastSeq
      BY Zenon, <2>2, ShapeOf
  <2> HIDE DEF w
  <2> QED
      BY Zenon, <1>3, <2>1, <2>2, <2>3, ShapeOf, ViewStep DEF WriteReplayEvent
<1>4. CASE WriteReplayEvent(c) /\ st.todo # <<>>
  <2> DEFINE h == Head(st.todo)
             w == Wrote(st, h)
  <2>1. st.pc = "rows" /\ st.pc \in {"rows", "finish"}
      BY Zenon, <1>4 DEF WriteReplayEvent
  <2>2. h > st.lastSeq /\ h \in Nat
    <3>1. h = st.todo[1] /\ 1 \in 1..Len(st.todo) /\ h \in Nat
        BY Zenon, <1>4, ShapeOf, TailFacts
    <3>2. h = st.lastSeq + 1
        BY Zenon, <1>0, <2>1, <3>1 DEF GoodView
    <3> QED
        BY <1>0, <3>1, <3>2
  <2>3. view' = [view EXCEPT ![c] = w]
    <3>1. view' = [view EXCEPT ![c] = writeRow(st)]
        BY Zenon, <1>4 DEF WriteReplayEvent
    <3>2. writeRow(st) = w
        BY Zenon, <2>2, ShapeOf, WroteIs
    <3> QED
        BY Zenon, <3>1, <3>2
  <2>5. w = Wrote(st, h) /\ h = Head(st.todo) /\ Head(st.todo) > st.lastSeq
      BY Zenon, <2>2
  <2> HIDE DEF w, h
  <2>4. GoodView(w, latest) /\ st.replaying /\ w.sent = Append(st.sent, h) /\ w.lastSeq = h
    <3>1. Follows(st, w, h, latest)
        BY Zenon, <1>0, <1>4, <2>1, <2>5, WriteNextIsGood
    <3> QED
        BY Zenon, <3>1 DEF Follows
  <2> HIDE DEF w, h
  <2> QED
      BY Zenon, <1>4, <2>2, <2>3, <2>4, ShapeOf, ViewStep DEF WriteReplayEvent
<1>5. CASE FinishReplay(c)
  <2> DEFINE w == finishRound(st)
  <2>1. view' = [view EXCEPT ![c] = w] /\ st.pc = "finish" /\ st.todo = <<>>
      BY Zenon, <1>5 DEF FinishReplay
  <2>2. GoodView(w, latest) /\ st.replaying /\ w.sent = st.sent /\ w.lastSeq = st.lastSeq
      BY Zenon, <1>0, <2>1, RoundIsGood
  <2>3. w.lastSeq >= st.lastSeq
      BY Zenon, <2>2, ShapeOf
  <2> HIDE DEF w
  <2> QED
      BY Zenon, <1>5, <2>1, <2>2, <2>3, ShapeOf, ViewStep DEF FinishReplay
<1>6. CASE WriteBufferedEvent(c) /\ Head(st.todo) <= st.lastSeq
  <2> DEFINE w == Skipped(st)
  <2>1. st.pc = "finish" /\ st.todo # <<>>
      BY Zenon, <1>6 DEF WriteBufferedEvent
  <2>2. view' = [view EXCEPT ![c] = w]
    <3>1. w.lastSeq = st.lastSeq /\ w \in ViewState
        BY Zenon, <1>0, <2>1, SkipIsGood DEF GoodView
    <3>2. Head(st.todo) = 0 => markSent(WriteSeq(w, 0), 0) = w
      <4>1. w.lastSeq = IF 0 > w.lastSeq THEN 0 ELSE w.lastSeq
          BY <1>0, <3>1
      <4>2. [w EXCEPT !.lastSeq = w.lastSeq] = w
          BY Zenon, <3>1 DEF ViewState
      <4> HIDE DEF w
      <4> QED
          BY Zenon, <4>1, <4>2 DEF markSent, WriteSeq
    <3>3. view' = [view EXCEPT ![c] = IF alreadySent(w, Head(st.todo)) THEN w
                                      ELSE markSent(WriteSeq(w, Head(st.todo)), Head(st.todo))]
        BY Zenon, <1>6 DEF WriteBufferedEvent, Skipped
    <3> HIDE DEF w
    <3> QED
        BY Zenon, <1>6, <3>1, <3>2, <3>3 DEF alreadySent
  <2>3. GoodView(w, latest) /\ st.replaying /\ w.sent = st.sent /\ w.lastSeq = st.lastSeq
      BY <1>0, <2>1, SkipIsGood
  <2>4. w.lastSeq >= st.lastSeq
      BY Zenon, <2>3, ShapeOf
  <2> HIDE DEF w
  <2> QED
      BY Zenon, <1>6, <2>2, <2>3, <2>4, ShapeOf, ViewStep DEF WriteBufferedEvent
<1>7. CASE WriteBufferedEvent(c) /\ ~(Head(st.todo) <= st.lastSeq)
  <2> DEFINE h == Head(st.todo)
             w == Wrote(st, h)
  <2>1. st.pc = "finish" /\ st.todo # <<>> /\ st.pc \in {"rows", "finish"}
      BY Zenon, <1>7 DEF WriteBufferedEvent
  <2>2. h > st.lastSeq /\ h \in Nat
    <3>1. h \in Nat
        BY Zenon, <2>1, ShapeOf, TailFacts
    <3> QED
        BY <1>0, <1>7, <3>1
  <2>3. view' = [view EXCEPT ![c] = w]
    <3>1. Skipped(st).lastSeq = st.lastSeq
        BY <1>0, <2>1, SkipIsGood
    <3>2. markSent(WriteSeq(Skipped(st), h), h) = w
        BY Zenon, <2>2, ShapeOf, WroteIs
    <3>3. view' = [view EXCEPT ![c] = IF alreadySent(Skipped(st), h) THEN Skipped(st)
                                      ELSE markSent(WriteSeq(Skipped(st), h), h)]
        BY Zenon, <1>7 DEF WriteBufferedEvent, Skipped
    <3> QED
        BY Zenon, <1>7, <3>1, <3>2, <3>3 DEF alreadySent
  <2>5. w = Wrote(st, h) /\ h = Head(st.todo) /\ Head(st.todo) > st.lastSeq
      BY Zenon, <2>2
  <2> HIDE DEF w, h
  <2>4. GoodView(w, latest) /\ st.replaying /\ w.sent = Append(st.sent, h) /\ w.lastSeq = h
    <3>1. Follows(st, w, h, latest)
        BY Zenon, <1>0, <2>1, <2>5, WriteNextIsGood
    <3> QED
        BY Zenon, <3>1 DEF Follows
  <2> QED
      BY Zenon, <1>7, <2>2, <2>3, <2>4, ShapeOf, ViewStep DEF WriteBufferedEvent
<1>8. CASE UnregisterClient(c)
  <2>1. view' = [view EXCEPT ![c] = st]
      BY Zenon, <1>8, ShapeOf DEF UnregisterClient
  <2> QED
      BY Zenon, <1>0, <1>8, <2>1, ShapeOf, ViewStep DEF UnregisterClient
<1>9. CASE RegisterPeer(c)
  <2>1. PICK m \in 0..latest, next \in {"replay", "tail"} :
           view' = [view EXCEPT ![c].pc = next, ![c].lastSeq = m, ![c].first = m]
      BY ZenonT(40), <1>9 DEF RegisterPeer
  <2> DEFINE w == Begun(st, next, m)
  <2>2. view' = [view EXCEPT ![c] = w] /\ st.pc = "new"
      BY Zenon, <1>9, <2>1, ShapeOf DEF RegisterPeer, Begun
  <2>3. GoodView(w, latest) /\ st.replaying /\ w.sent = <<>>
      BY <1>0, <2>2, RegisterIsGood
  <2> QED
      BY Zenon, <1>9, <2>2, <2>3, ShapeOf, ViewStep DEF RegisterPeer
<1>10. CASE EmitEphemeral(c)
  <2>1. 0 \in 0..latest
      BY <1>0
  <2> QED
      BY Zenon, <1>10, <2>1, SendReplayingKeeps DEF EmitEphemeral
<1>11. CASE SocketDies(c)
    BY Zenon, <1>0, <1>11, ShapeOf, ClosedIsGood, ViewStep DEF SocketDies
<1> QED
    BY Zenon, <1>1, <1>2, <1>3, <1>4, <1>5, <1>6, <1>7, <1>8, <1>9, <1>10, <1>11 DEF Serve
-----------------------------------------------------------------------------
\* The steps of a publisher that do not touch a connection.

LEMMA UnderMore ==
    ASSUME NEW s \in Seq(Nat), NEW n \in Nat, NEW m \in Nat, Under(s, n), n <= m
    PROVE  Under(s, m)
    BY DEF Under

LEMMA ViewMore ==
    ASSUME NEW n \in Nat, NEW m \in Nat, n <= m, NEW v, GoodView(v, n)
    PROVE  GoodView(v, m)
<1>1. v.buffered \in Seq(Nat) /\ v.todo \in Seq(Nat) /\ v.sent \in Seq(Nat) /\ v.lastSeq \in Nat /\ v.first \in Nat
    BY Zenon DEF GoodView, ViewState
<1>2. Under(v.buffered, m) /\ Under(v.todo, m) /\ Under(v.sent, m)
    BY Zenon, <1>1, UnderMore DEF GoodView
<1>3. v.lastSeq <= m /\ v.first <= m
  <2>1. v.lastSeq <= n /\ v.first <= n
      BY Zenon DEF GoodView
  <2> QED
      BY <1>1, <2>1
<1> QED
    BY Zenon, <1>2, <1>3 DEF GoodView

LEMMA PubMore ==
    ASSUME NEW n \in Nat, NEW m \in Nat, n <= m, NEW r, GoodPub(r, n)
    PROVE  GoodPub(r, m)
<1>1. r.todo \in Seq(Nat)
    BY Zenon DEF GoodPub, PublisherState
<1>2. \A i \in 1..Len(r.todo) : r.todo[i] > 0 /\ r.todo[i] <= n
    BY Zenon DEF GoodPub
<1>3. \A i \in 1..Len(r.todo) : r.todo[i] > 0 /\ r.todo[i] <= m
    BY <1>1, <1>2
<1> QED
    BY Zenon, <1>3 DEF GoodPub

LEMMA IdleIsGood ==
    ASSUME NEW n \in Nat
    PROVE  GoodPub(IdlePublisher, n) /\ IdlePublisher.pc = "idle" /\ IdlePublisher.todo = <<>>
           /\ IdlePublisher.kind # "recover" /\ IdlePublisher.pc \notin Writing
<1>1. <<>> \in Seq(Nat) /\ \A i \in 1..Len(<<>>) : FALSE
    OBVIOUS
<1>2. /\ IdlePublisher.pc = "idle" /\ IdlePublisher.todo = <<>> /\ IdlePublisher.kind = "append"
      /\ IdlePublisher.to = {}
    BY Zenon DEF IdlePublisher
<1>3. IdlePublisher \in PublisherState
    BY Zenon, <1>1 DEF IdlePublisher, PublisherState, Kinds
<1>4. IdlePublisher.pc \notin {"fan", "write", "mark"} /\ IdlePublisher.pc \notin Writing /\ IdlePublisher.kind # "recover"
    BY Zenon, <1>2 DEF Writing
<1> QED
    BY Zenon, <1>1, <1>2, <1>3, <1>4 DEF GoodPub

\* A publisher with state r goes on: to x, with the numbers s and the targets T.
Turned(r, x, s, T) == [r EXCEPT !.pc = x, !.todo = s, !.targets = T]

GoesOn(r, w, x, s, n) ==
    GoodPub(w, n) /\ w.pc = x /\ w.pc \notin Writing /\ w.kind = r.kind /\ w.todo = s

LEMMA TurnedIsGood ==
    ASSUME NEW n \in Nat, NEW r, r \in PublisherState, r.to = {},
           NEW x \in {"after", "receipt", "publish", "fan"}, NEW s \in Seq(Nat), NEW T \in SUBSET Viewer,
           \A i \in 1..Len(s) : s[i] > 0 /\ s[i] <= n,
           x = "fan" => s # <<>>, x = "after" => s # <<>>
    PROVE  GoesOn(r, Turned(r, x, s, T), x, s, n)
<1> DEFINE w == Turned(r, x, s, T)
<1>1. x \in {"idle", "wait", "after", "receipt", "publish", "fan", "write", "mark"} /\ x \notin Writing
      /\ x \notin {"idle", "wait"} /\ (x \in {"fan", "write", "mark"} => x = "fan")
    BY Zenon DEF Writing
<1>2. w \in PublisherState /\ w.pc = x /\ w.todo = s /\ w.to = r.to /\ w.kind = r.kind
    BY Zenon, <1>1 DEF Turned, PublisherState
<1> HIDE DEF w
<1>3. GoodPub(w, n)
    BY Zenon, <1>1, <1>2 DEF GoodPub
<1> QED
    BY Zenon, <1>1, <1>2, <1>3 DEF w, GoesOn

\* r is a next state of publisher p whose numbers nobody else has, but for borrowed ones.
OwnOf(p, r) ==
    \A q \in Publisher : q # p =>
        \A i \in 1..Len(r.todo) : ~Has(pub[q].todo, r.todo[i]) \/ r.todo[i] \in borrowed'

LEMMA OwnStep ==
    ASSUME StreamShape, OwnNumbers, NEW p \in Publisher, NEW r, borrowed \subseteq borrowed',
           pub'[p] = r, \A q \in Publisher : q # p => pub'[q] = pub[q], OwnOf(p, r),
           r.kind = "recover" => /\ \A q \in Publisher : q # p => pub[q].kind # "recover"
                                 /\ \A n \in receipts' : ~Has(r.todo, n),
           \A n \in receipts' : n \in receipts \/ n > latest
    PROVE  OwnNumbers'
<1>1. \A a, b \in Publisher : a # b =>
         \A i \in 1..Len(pub'[a].todo) : ~Has(pub'[b].todo, pub'[a].todo[i]) \/ pub'[a].todo[i] \in borrowed'
  <2>1. SUFFICES ASSUME NEW a \in Publisher, NEW b \in Publisher, a # b,
                        NEW i \in 1..Len(pub'[a].todo), NEW j \in 1..Len(pub'[b].todo),
                        pub'[b].todo[j] = pub'[a].todo[i], pub'[a].todo[i] \notin borrowed'
                 PROVE  FALSE
      BY Zenon DEF Has
  <2>2. CASE a = p
    <3>1. pub'[a] = r /\ pub'[b] = pub[b] /\ b # p
        BY Zenon, <2>1, <2>2
    <3>2. Has(pub[b].todo, r.todo[i])
        BY Zenon, <2>1, <3>1 DEF Has
    <3> QED
        BY Zenon, <2>1, <3>1, <3>2 DEF OwnOf
  <2>3. CASE b = p
    <3>1. pub'[b] = r /\ pub'[a] = pub[a] /\ a # p
        BY Zenon, <2>1, <2>3
    <3>2. Has(pub[a].todo, r.todo[j])
        BY Zenon, <2>1, <3>1 DEF Has
    <3> QED
        BY Zenon, <2>1, <3>1, <3>2 DEF OwnOf
  <2>4. CASE a # p /\ b # p
    <3>1. pub'[b] = pub[b] /\ pub'[a] = pub[a]
        BY Zenon, <2>4
    <3>2. Has(pub[b].todo, pub[a].todo[i])
        BY Zenon, <2>1, <3>1 DEF Has
    <3> QED
        BY Zenon, <2>1, <3>1, <3>2 DEF OwnNumbers
  <2> QED
      BY Zenon, <2>2, <2>3, <2>4
<1>2. \A a, b \in Publisher : pub'[a].kind = "recover" /\ pub'[b].kind = "recover" => a = b
    BY Zenon DEF OwnNumbers
<1>3. ASSUME NEW a \in Publisher, pub'[a].kind = "recover", NEW n \in receipts'
      PROVE  ~Has(pub'[a].todo, n)
  <2>1. CASE a = p
      BY Zenon, <1>3, <2>1
  <2>2. CASE a # p /\ n \in receipts
      BY Zenon, <1>3, <2>2 DEF OwnNumbers
  <2>3. CASE a # p /\ n > latest
    <3>1. GoodPub(pub[a], latest) /\ pub'[a] = pub[a] /\ pub[a].todo \in Seq(Nat) /\ latest \in Nat
        BY <2>3, StreamAssumption DEF StreamShape, PublisherState
    <3>2. \A i \in 1..Len(pub[a].todo) : pub[a].todo[i] <= latest /\ pub[a].todo[i] \in Nat
        BY <3>1 DEF GoodPub
    <3>3. \A i \in 1..Len(pub[a].todo) : pub[a].todo[i] # n
        BY <2>3, <3>1, <3>2
    <3> QED
        BY Zenon, <3>1, <3>3 DEF Has
  <2> QED
      BY Zenon, <1>3, <2>1, <2>2, <2>3
<1> QED
    BY Zenon, <1>1, <1>2, <1>3 DEF OwnNumbers, Has

\* Numbers it had before, and new ones.
LEMMA OwnedBefore ==
    ASSUME StreamShape, OwnNumbers, NEW p \in Publisher, NEW r, r.todo \in Seq(Nat), borrowed \subseteq borrowed',
           \A i \in 1..Len(r.todo) : Has(pub[p].todo, r.todo[i]) \/ r.todo[i] > latest
    PROVE  OwnOf(p, r)
<1>1. SUFFICES ASSUME NEW q \in Publisher, q # p, NEW i \in 1..Len(r.todo), Has(pub[q].todo, r.todo[i]),
                      r.todo[i] \notin borrowed'
               PROVE  FALSE
    BY Zenon DEF OwnOf
<1>2. PICK j \in 1..Len(pub[q].todo) : pub[q].todo[j] = r.todo[i]
    BY Zenon, <1>1 DEF Has
<1>3. CASE Has(pub[p].todo, r.todo[i])
    BY Zenon, <1>1, <1>2, <1>3 DEF OwnNumbers, Has
<1>4. CASE r.todo[i] > latest
  <2>1. GoodPub(pub[q], latest) /\ pub[q].todo \in Seq(Nat) /\ latest \in Nat
      BY StreamAssumption DEF StreamShape, PublisherState
  <2>2. pub[q].todo[j] <= latest /\ pub[q].todo[j] \in Nat
      BY SMTT(20), <2>1 DEF GoodPub
  <2> QED
      BY <1>2, <1>4, <2>1, <2>2
<1> QED
    BY Zenon, <1>3, <1>4

\* Neither writes to a connection before or after.
LEMMA PubStep ==
    ASSUME StreamInv, NEW p \in Publisher, NEW r, pub' = [pub EXCEPT ![p] = r],
           view' = view, subscribers' = subscribers, borrowed \subseteq borrowed',
           latest' \in 0..MaxSeq, latest' >= latest, receipts' \subseteq 1..latest',
           GoodPub(r, latest'), pub[p].pc \notin Writing, r.pc \notin Writing,
           GateOK', OwnNumbers'
    PROVE  StreamInv'
<1>1. latest \in Nat /\ latest' \in Nat /\ latest <= latest' /\ pub \in [Publisher -> PublisherState]
    BY StreamAssumption DEF StreamInv, StreamShape
<1>2. pub'[p] = r /\ \A q \in Publisher : q # p => pub'[q] = pub[q]
    BY Zenon, <1>1
<1>3. r \in PublisherState /\ r.to = {} /\ pub[p].to = {}
    BY Zenon DEF GoodPub, StreamInv, StreamShape
<1>4. StreamShape'
  <2>1. \A q \in Publisher : GoodPub(pub'[q], latest')
      BY Zenon, <1>1, <1>2, PubMore DEF StreamInv, StreamShape
  <2>2. \A c \in Viewer : GoodView(view[c], latest')
      BY Zenon, <1>1, ViewMore DEF StreamInv, StreamShape
  <2>3. pub' \in [Publisher -> PublisherState]
      BY Zenon, <1>1, <1>3
  <2>4. \A q \in Publisher : GoodPub(pub[q], latest)'
      BY Zenon, <2>1
  <2>5. \A c \in Viewer : GoodView(view[c], latest)'
      BY Zenon, <2>2
  <2> QED
      BY Zenon, <2>3, <2>4, <2>5 DEF StreamInv, StreamShape
<1>5. Apart'
    BY Zenon, <1>2, <1>3 DEF StreamInv, Apart
<1>6. ASSUME NEW c \in Viewer PROVE SentOK(c)'
  <2>1. SentOK(c) /\ view'[c] = view[c]
      BY Zenon DEF StreamInv
  <2>2. pub[p].pc # "mark"
      BY Zenon DEF Writing
  <2>3. \A q \in Publisher : \A n : Marks(q, c, n) => pub'[q] = pub[q]
      BY Zenon, <1>2, <2>2 DEF Marks
  <2>4. \A q \in Publisher : c \in pub'[q].to => pub'[q] = pub[q]
      BY Zenon, <1>2, <1>3
  <2>5. \A i \in 1..Len(view'[c].sent) :
            view'[c].sent[i] <= view'[c].lastSeq \/ \E q \in Publisher : Marks(q, c, view[c].sent[i])'
    <3>1. SUFFICES ASSUME NEW i \in 1..Len(view[c].sent), ~(view[c].sent[i] <= view[c].lastSeq)
                   PROVE  \E q \in Publisher : Marks(q, c, view[c].sent[i])'
        BY Zenon, <2>1
    <3>2. PICK q \in Publisher : Marks(q, c, view[c].sent[i])
        BY Zenon, <2>1, <3>1 DEF SentOK
    <3>3. pub'[q] = pub[q]
        BY Zenon, <2>3, <3>2
    <3>4. Marks(q, c, view[c].sent[i])'
        BY Zenon, <2>1, <3>2, <3>3 DEF Marks
    <3> QED
        BY Zenon, <3>4
  <2>6. \A q \in Publisher : pub'[q].pc = "write" /\ c \in pub'[q].to =>
            ~Has(view'[c].sent, Head(pub'[q].todo)) \/ Head(pub'[q].todo) \in borrowed'
      BY Zenon, <2>1, <2>4 DEF SentOK
  <2>7. \A i, j \in 1..Len(view'[c].sent) :
            view'[c].sent[i] = view'[c].sent[j] => i = j \/ view'[c].sent[i] \in borrowed'
      BY Zenon, <2>1 DEF SentOK
  <2> QED
      BY Zenon, <2>5, <2>6, <2>7 DEF SentOK, Has
<1> QED
    BY Zenon, <1>4, <1>5, <1>6 DEF StreamInv

LEMMA GrowStep ==
    ASSUME StreamInv, latest' \in 0..MaxSeq, latest' >= latest,
           UNCHANGED <<receipts, borrowed, gate, pub, view, subscribers>>
    PROVE  StreamInv'
<1>1. latest \in Nat /\ latest' \in Nat /\ latest <= latest' /\ receipts \subseteq 1..latest'
    BY StreamAssumption DEF StreamInv, StreamShape
<1>2. StreamShape'
  <2>1. \A q \in Publisher : GoodPub(pub[q], latest)'
      BY Zenon, <1>1, PubMore DEF StreamInv, StreamShape
  <2>2. \A c \in Viewer : GoodView(view[c], latest)'
      BY Zenon, <1>1, ViewMore DEF StreamInv, StreamShape
  <2> QED
      BY Zenon, <1>1, <2>1, <2>2 DEF StreamInv, StreamShape
<1>3. GateOK' /\ OwnNumbers'
    BY Zenon, GateUnmoved, OwnUnmoved DEF StreamInv
<1>4. Apart'
    BY Zenon DEF StreamInv, Apart
<1>5. \A c \in Viewer : SentOK(c)'
    BY Zenon, SentUnmoved DEF StreamInv
<1> QED
    BY Zenon, <1>2, <1>3, <1>4, <1>5 DEF StreamInv

LEMMA PubOf ==
    ASSUME StreamInv, NEW p \in Publisher
    PROVE  /\ latest \in Nat /\ latest \in 0..MaxSeq /\ latest >= latest /\ MaxSeq \in Nat
           /\ receipts \subseteq 1..latest /\ receipts \subseteq Nat
           /\ pub \in [Publisher -> PublisherState] /\ DOMAIN pub = Publisher
           /\ GoodPub(pub[p], latest) /\ pub[p] \in PublisherState
           /\ pub[p].todo \in Seq(Nat) /\ pub[p].targets \in SUBSET Viewer
           /\ StreamShape /\ GateOK /\ OwnNumbers /\ subscribers \in SUBSET Viewer
<1>1. latest \in Nat /\ latest \in 0..MaxSeq /\ latest >= latest /\ MaxSeq \in Nat
      /\ receipts \subseteq 1..latest /\ receipts \subseteq Nat
    BY StreamAssumption DEF StreamInv, StreamShape
<1>2. pub \in [Publisher -> PublisherState] /\ GoodPub(pub[p], latest)
      /\ StreamShape /\ GateOK /\ OwnNumbers /\ subscribers \in SUBSET Viewer
    BY Zenon DEF StreamInv, StreamShape
<1>3. pub[p] \in PublisherState /\ DOMAIN pub = Publisher
    BY Zenon, <1>2
<1>4. pub[p].todo \in Seq(Nat) /\ pub[p].targets \in SUBSET Viewer
    BY Zenon, <1>3 DEF PublisherState
<1> QED
    BY Zenon, <1>1, <1>2, <1>3, <1>4

\* Every number of s was publisher p's before, or is new.
Grown(p, s) == \A i \in 1..Len(s) : Has(pub[p].todo, s[i]) \/ s[i] > latest

LEMMA TurnStep ==
    ASSUME StreamInv, NEW p \in Publisher,
           NEW x \in {"after", "receipt", "publish", "fan"}, NEW s \in Seq(Nat), NEW T \in SUBSET Viewer,
           \A i \in 1..Len(s) : s[i] > 0 /\ s[i] <= latest',
           x = "fan" => s # <<>>, x = "after" => s # <<>>,
           pub' = [pub EXCEPT ![p] = Turned(pub[p], x, s, T)],
           view' = view, subscribers' = subscribers, gate' = gate, borrowed \subseteq borrowed',
           latest' \in 0..MaxSeq, latest' >= latest, receipts' \subseteq 1..latest',
           \A n \in receipts' : n \in receipts \/ n > latest,
           pub[p].pc \in {"wait", "after", "receipt", "publish", "fan"},
           pub[p].pc = "wait" => Holds(p),
           Grown(p, s) \/ (pub[p].kind # "recover" /\ OwnOf(p, Turned(pub[p], x, s, T))),
           pub[p].kind = "recover" => receipts' = receipts
    PROVE  StreamInv'
<1> DEFINE r == Turned(pub[p], x, s, T)
<1>1. latest' \in Nat /\ pub[p].pc \notin Writing /\ pub[p].pc # "idle"
    BY StreamAssumption DEF Writing
<1>2. pub[p].to = {} /\ pub[p] \in PublisherState /\ pub \in [Publisher -> PublisherState]
    BY Zenon, <1>1, PubOf DEF GoodPub
<1>3. GoodPub(r, latest') /\ r.pc = x /\ r.pc \notin Writing /\ r.kind = pub[p].kind /\ r.todo = s
  <2>1. GoesOn(pub[p], r, x, s, latest')
      BY Zenon, <1>1, <1>2, TurnedIsGood
  <2> QED
      BY Zenon, <2>1 DEF GoesOn
<1>4. x # "idle"
    OBVIOUS
<1>5. pub'[p] = r /\ \A q \in Publisher : q # p => pub'[q] = pub[q]
    BY Zenon, <1>2
<1> HIDE DEF r
<1>6. GateOK'
  <2>1. r.pc # "idle" /\ r.kind # "recover" <=> Queueing(p)
      BY Zenon, <1>1, <1>3, <1>4 DEF Queueing
  <2>2. r.kind # "recover" => Publishing(p) \/ (Queueing(p) /\ Holds(p))
    <3>1. pub[p].pc # "wait" => pub[p].pc \notin {"idle", "wait"}
        BY Zenon, <1>1
    <3> QED
        BY Zenon, <1>3, <1>4, <2>1, <3>1 DEF Publishing
  <2>3. r.kind # "recover" => Len(gate) > 0 /\ gate[1].owner = p /\ gate[1].state = "open"
      BY Zenon, <2>2, HoldsFirst, PubOf
  <2> QED
      BY Zenon, <1>5, <2>1, <2>3, GateKept, PubOf
<1>7. OwnNumbers'
  <2>1. OwnOf(p, r)
      BY Zenon, <1>3, OwnedBefore, PubOf DEF Grown, r
  <2>2. r.kind = "recover" => \A q \in Publisher : q # p => pub[q].kind # "recover"
      BY Zenon, <1>3, PubOf DEF OwnNumbers
  <2>3. ASSUME r.kind = "recover", NEW n \in receipts', Has(r.todo, n) PROVE FALSE
    <3>1. Grown(p, s) /\ n \in receipts /\ n \in 1..latest
        BY Zenon, <1>3, <2>3, PubOf
    <3>2. PICK i \in 1..Len(s) : s[i] = n
        BY Zenon, <1>3, <2>3 DEF Has
    <3>3. ~Has(pub[p].todo, n)
        BY Zenon, <1>3, <2>3, <3>1, PubOf DEF OwnNumbers
    <3>4. n > latest
        BY Zenon, <3>1, <3>2, <3>3 DEF Grown
    <3>5. latest \in Nat
        BY Zenon, PubOf
    <3> QED
        BY <3>1, <3>4, <3>5
  <2> QED
      BY Zenon, <1>5, <2>1, <2>2, <2>3, OwnStep, PubOf
<1> QED
    BY Zenon, <1>1, <1>3, <1>6, <1>7, PubStep DEF r

LEMMA LeaveStep ==
    ASSUME StreamInv, NEW p \in Publisher, Leaves(p), UNCHANGED <<latest, receipts, borrowed, view, subscribers>>,
           pub[p].pc # "idle", pub[p].pc \notin Writing, pub[p].pc = "wait" => Holds(p)
    PROVE  StreamInv'
<1>1. pub' = [pub EXCEPT ![p] = IdlePublisher]
    BY Zenon DEF Leaves
<1>2. pub'[p] = IdlePublisher /\ \A q \in Publisher : q # p => pub'[q] = pub[q]
    BY Zenon, <1>1, PubOf
<1>3. /\ GoodPub(IdlePublisher, latest) /\ IdlePublisher.pc \notin Writing
      /\ IdlePublisher.todo = <<>> /\ IdlePublisher.kind # "recover"
    BY Zenon, IdleIsGood, PubOf
<1>4. Publishing(p) \/ pub[p].kind = "recover" \/ Holds(p)
    BY Zenon DEF Publishing
<1>5. GateOK'
    BY Zenon, <1>4, LeavesKeepsGate, PubOf
<1>6. OwnOf(p, IdlePublisher)
  <2>1. \A i \in 1..Len(<<>>) : FALSE
      OBVIOUS
  <2> QED
      BY Zenon, <1>3, <2>1 DEF OwnOf
<1>7. OwnNumbers'
    BY Zenon, <1>2, <1>3, <1>6, OwnStep, PubOf
<1>8. GoodPub(IdlePublisher, latest')
    BY Zenon, <1>3
<1> QED
    BY Zenon, <1>1, <1>3, <1>5, <1>7, <1>8, PubStep, PubOf

LEMMA WaitStep ==
    ASSUME StreamInv, NEW p \in Publisher,
           CancelWait(p) \/ \E k \in Kinds \ {"recover"} : Acquire(p, k)
    PROVE  StreamInv'
<1>0. pub \in [Publisher -> PublisherState] /\ DOMAIN pub = Publisher /\ StreamShape /\ GateOK /\ OwnNumbers
      /\ GoodPub(pub[p], latest) /\ pub[p] \in PublisherState
    BY Zenon, PubOf
<1>1. CASE CancelWait(p)
  <2>1. pub' = [pub EXCEPT ![p] = IdlePublisher] /\ pub[p].pc = "wait" /\ pub[p].pc \in {"idle", "wait"}
        /\ UNCHANGED <<latest, receipts, borrowed, view, subscribers>>
      BY Zenon, <1>1 DEF CancelWait
  <2>2. pub[p].kind # "recover" /\ pub[p].pc \notin Writing
    <3>1. pub[p].kind # "recover"
        BY Zenon, <1>0, <2>1 DEF GoodPub
    <3> QED
        BY Zenon, <2>1, <3>1 DEF Writing
  <2>3. pub'[p] = IdlePublisher /\ \A q \in Publisher : q # p => pub'[q] = pub[q]
      BY Zenon, <1>0, <2>1
  <2>4. /\ GoodPub(IdlePublisher, latest) /\ IdlePublisher.pc \notin Writing
        /\ IdlePublisher.todo = <<>> /\ IdlePublisher.kind # "recover"
      BY Zenon, IdleIsGood, PubOf
  <2>5. GateOK'
      BY Zenon, <1>0, <1>1, <2>2, CancelKeepsGate
  <2>6. OwnOf(p, IdlePublisher)
    <3>1. \A i \in 1..Len(<<>>) : FALSE
        OBVIOUS
    <3> QED
        BY Zenon, <2>4, <3>1 DEF OwnOf
  <2>7. OwnNumbers'
      BY Zenon, <1>0, <2>1, <2>3, <2>4, <2>6, OwnStep
  <2>8. GoodPub(IdlePublisher, latest')
      BY Zenon, <2>1, <2>4
  <2> QED
      BY Zenon, <2>1, <2>2, <2>4, <2>5, <2>7, <2>8, PubStep, PubOf
<1>2. ASSUME NEW k \in Kinds \ {"recover"}, Acquire(p, k) PROVE StreamInv'
  <2>0. PICK r : r = [pub[p] EXCEPT !.pc = "wait", !.kind = k]
      BY Zenon
  <2>1. pub' = [pub EXCEPT ![p] = r]
      BY Zenon, <1>0, <1>2, <2>0 DEF Acquire, PublisherState
  <2>2. pub[p].pc = "idle" /\ pub[p].pc \in {"idle", "wait"} /\ UNCHANGED <<latest, receipts, borrowed, view, subscribers>>
      BY Zenon, <1>2 DEF Acquire
  <2>3. pub[p].pc \notin Writing
      BY Zenon, <2>2 DEF Writing
  <2>4. pub[p].todo = <<>> /\ pub[p].to = {}
      BY Zenon, <1>0, <2>2, <2>3 DEF GoodPub
  <2>5. r \in PublisherState /\ r.pc = "wait" /\ r.kind = k /\ r.todo = pub[p].todo /\ r.to = pub[p].to
      BY Zenon, <1>0, <2>0 DEF PublisherState
  <2>6. r.pc \notin Writing /\ r.pc \notin {"fan", "write", "mark"} /\ r.kind # "recover"
      BY Zenon, <2>5 DEF Writing
  <2>7. \A i \in 1..Len(<<>>) : FALSE
      OBVIOUS
  <2>8. GoodPub(r, latest)
      BY Zenon, <2>4, <2>5, <2>6, <2>7 DEF GoodPub
  <2>9. GateOK'
      BY Zenon, <1>0, <1>2, AcquireKeepsGate
  <2>10. OwnOf(p, r)
      BY Zenon, <2>4, <2>5, <2>7 DEF OwnOf
  <2>11. pub'[p] = r /\ \A q \in Publisher : q # p => pub'[q] = pub[q]
      BY Zenon, <1>0, <2>1
  <2>12. OwnNumbers'
      BY Zenon, <1>0, <2>2, <2>6, <2>10, <2>11, OwnStep
  <2>13. GoodPub(r, latest')
      BY Zenon, <2>2, <2>8
  <2> QED
      BY Zenon, <2>1, <2>2, <2>3, <2>6, <2>9, <2>12, <2>13, PubStep, PubOf
<1> QED
    BY Zenon, <1>1, <1>2

LEMMA NumbersFacts ==
    ASSUME latest \in Nat, NEW n \in Nat, MaxSeq \in Nat, RoomFor(n)
    PROVE  /\ Numbers(n) \in Seq(Nat) /\ Len(Numbers(n)) = n
           /\ \A i \in 1..Len(Numbers(n)) : Numbers(n)[i] = latest + i
           /\ \A i \in 1..Len(Numbers(n)) :
                 Numbers(n)[i] > 0 /\ Numbers(n)[i] > latest /\ Numbers(n)[i] <= latest + n
           /\ latest + n \in 0..MaxSeq /\ latest + n >= latest
<1>1. Numbers(n) \in Seq(Nat) /\ Len(Numbers(n)) = n
    BY DEF Numbers
<1>2. \A i \in 1..Len(Numbers(n)) : Numbers(n)[i] = latest + i
    BY Zenon, <1>1 DEF Numbers
<1>3. \A i \in 1..n : latest + i > 0 /\ latest + i > latest /\ latest + i <= latest + n
    OBVIOUS
<1>4. latest + n \in 0..MaxSeq /\ latest + n >= latest
    BY DEF RoomFor
<1> QED
    BY Zenon, <1>1, <1>2, <1>3, <1>4

LEMMA ConcatFacts ==
    ASSUME NEW s \in Seq(Nat), NEW t \in Seq(Nat)
    PROVE  s \o t \in Seq(Nat) /\ \A i \in 1..Len(s \o t) : Has(s, (s \o t)[i]) \/ Has(t, (s \o t)[i])
<1>1. s \o t \in Seq(Nat) /\ Len(s \o t) = Len(s) + Len(t) /\ Len(s) \in Nat /\ Len(t) \in Nat
    OBVIOUS
<1>2. /\ \A i \in 1..Len(s) : (s \o t)[i] = s[i]
      /\ \A i \in 1..(Len(s) + Len(t)) : i \notin 1..Len(s) => (s \o t)[i] = t[i - Len(s)] /\ i - Len(s) \in 1..Len(t)
    BY <1>1
<1> QED
    BY Zenon, <1>1, <1>2 DEF Has

LEMMA AppendStep ==
    ASSUME StreamInv, NEW p \in Publisher, AppendEvents(p)
    PROVE  StreamInv'
<1>1. PICK n \in 1..MaxBatch :
         /\ RoomFor(n) /\ latest' = latest + n
         /\ pub' = [pub EXCEPT ![p].todo = Numbers(n),
                               ![p].pc = IF pub[p].kind = "finalize" THEN "receipt" ELSE "publish"]
    BY Zenon DEF AppendEvents
<1>2. pub[p].pc = "wait" /\ Holds(p) /\ UNCHANGED <<receipts, borrowed, gate, view, subscribers>>
    BY Zenon DEF AppendEvents
<1>3. n \in Nat
    BY StreamAssumption
<1>4. /\ Numbers(n) \in Seq(Nat) /\ \A i \in 1..Len(Numbers(n)) : Numbers(n)[i] > 0 /\ Numbers(n)[i] <= latest'
      /\ \A i \in 1..Len(Numbers(n)) : Numbers(n)[i] > latest
      /\ latest' \in 0..MaxSeq /\ latest' >= latest
    BY Zenon, <1>1, <1>3, NumbersFacts, PubOf
<1>5. PICK x \in {"after", "receipt", "publish", "fan"} :
         x = (IF pub[p].kind = "finalize" THEN "receipt" ELSE "publish") /\ x # "fan" /\ x # "after"
    OBVIOUS
<1>6. pub' = [pub EXCEPT ![p] = Turned(pub[p], x, Numbers(n), pub[p].targets)]
    BY Zenon, <1>1, <1>5, PubOf DEF Turned, PublisherState
<1>7. receipts' \subseteq 1..latest'
    BY <1>1, <1>2, <1>3, PubOf
<1>8. Grown(p, Numbers(n))
    BY Zenon, <1>4 DEF Grown
<1>9. pub[p].pc \in {"wait", "after", "receipt", "publish", "fan"}
    BY Zenon, <1>2
<1> QED
    BY Zenon, <1>2, <1>4, <1>5, <1>6, <1>7, <1>8, <1>9, TurnStep, PubOf

LEMMA ProposalStep ==
    ASSUME StreamInv, NEW p \in Publisher, CommitProposal(p)
    PROVE  StreamInv'
<1>1. pub[p].pc = "wait" /\ Holds(p) /\ pub[p].kind = "proposal" /\ UNCHANGED <<borrowed, gate, view, subscribers>>
    BY Zenon DEF CommitProposal
<1>2. /\ pub[p].pc \in {"wait", "after", "receipt", "publish", "fan"} /\ pub[p].kind # "recover"
      /\ pub[p].pc # "idle" /\ "after" # "fan" /\ "after" \in {"after", "receipt", "publish", "fan"}
    BY Zenon, <1>1
<1>3. CASE /\ RoomFor(1) /\ latest' = latest + 1 /\ receipts' = receipts \cup {latest + 1}
           /\ pub' = [pub EXCEPT ![p].pc = "after", ![p].todo = Numbers(1)]
  <2>1. /\ Numbers(1) \in Seq(Nat) /\ \A i \in 1..Len(Numbers(1)) : Numbers(1)[i] > 0 /\ Numbers(1)[i] <= latest'
        /\ \A i \in 1..Len(Numbers(1)) : Numbers(1)[i] > latest
        /\ latest' \in 0..MaxSeq /\ latest' >= latest /\ Numbers(1) # <<>>
    <3>1. 1 \in Nat /\ Numbers(1) # <<>>
        BY PubOf DEF Numbers
    <3> QED
        BY Zenon, <1>3, <3>1, NumbersFacts, PubOf
  <2>2. pub' = [pub EXCEPT ![p] = Turned(pub[p], "after", Numbers(1), pub[p].targets)]
      BY Zenon, <1>3, PubOf DEF Turned, PublisherState
  <2>3. receipts' \subseteq 1..latest' /\ \A n \in receipts' : n \in receipts \/ n > latest
      BY <1>3, PubOf
  <2>4. Grown(p, Numbers(1))
      BY Zenon, <2>1 DEF Grown
  <2> QED
      BY Zenon, <1>1, <1>2, <2>1, <2>2, <2>3, <2>4, TurnStep, PubOf
<1>4. ASSUME NEW seq \in receipts, pub' = [pub EXCEPT ![p].pc = "after", ![p].todo = <<seq>>],
             UNCHANGED <<latest, receipts>>
      PROVE  StreamInv'
  <2>0. PICK s : s = <<seq>>
      BY Zenon
  <2>1. seq \in Nat /\ seq > 0 /\ seq <= latest
      BY PubOf
  <2>2. s \in Seq(Nat) /\ s # <<>> /\ \A i \in 1..Len(s) : s[i] = seq
      BY <2>0, <2>1
  <2>3. pub' = [pub EXCEPT ![p] = Turned(pub[p], "after", s, pub[p].targets)]
      BY Zenon, <1>4, <2>0, PubOf DEF Turned, PublisherState
  <2>4. Turned(pub[p], "after", s, pub[p].targets).todo = s
      BY Zenon, PubOf DEF Turned, PublisherState
  <2>5. ASSUME NEW q \in Publisher, q # p PROVE ~Has(pub[q].todo, seq)
    <3>1. CASE pub[q].kind = "recover"
        BY Zenon, <3>1, PubOf DEF OwnNumbers
    <3>2. CASE pub[q].kind # "recover"
      <4>1. gate[1].owner = p
          BY Zenon, <1>1, <1>2, HoldsFirst, PubOf DEF Queueing
      <4>2. pub[q].pc \in {"idle", "wait"}
          BY Zenon, <2>5, <3>2, <4>1, PubOf DEF GateOK, Publishing
      <4>3. pub[q].todo = <<>>
          BY Zenon, <4>2, PubOf DEF GoodPub
      <4>4. \A i \in 1..Len(<<>>) : FALSE
          OBVIOUS
      <4> QED
          BY Zenon, <4>3, <4>4 DEF Has
    <3> QED
        BY Zenon, <3>1, <3>2
  <2>6. OwnOf(p, Turned(pub[p], "after", s, pub[p].targets))
      BY Zenon, <2>2, <2>4, <2>5 DEF OwnOf
  <2>7. /\ latest' \in 0..MaxSeq /\ latest' >= latest /\ receipts' \subseteq 1..latest'
        /\ \A i \in 1..Len(s) : s[i] > 0 /\ s[i] <= latest'
        /\ \A n \in receipts' : n \in receipts
      BY Zenon, <1>4, <2>1, <2>2, PubOf
  <2> QED
      BY Zenon, <1>1, <1>2, <2>2, <2>3, <2>6, <2>7, TurnStep, PubOf
<1> QED
    BY Zenon, <1>3, <1>4 DEF CommitProposal

\* A file message: its commit, and the number it reads afterwards, which is its own or
\* counts as borrowed from then on.
LEMMA FileStep ==
    ASSUME StreamInv, NEW p \in Publisher, CommitFileMessage(p) \/ ReadLatestSeq(p)
    PROVE  StreamInv'
<1>0. /\ "after" # "fan" /\ "publish" # "fan" /\ "after" \in {"after", "receipt", "publish", "fan"}
      /\ "publish" \in {"after", "receipt", "publish", "fan"} /\ "file" # "recover" /\ "after" # "wait"
      /\ "publish" # "after"
    OBVIOUS
<1>1. CASE CommitFileMessage(p)
  <2>1. /\ pub[p].pc = "wait" /\ Holds(p) /\ pub[p].kind = "file" /\ RoomFor(1) /\ latest' = latest + 1
        /\ pub' = [pub EXCEPT ![p].pc = "after", ![p].todo = Numbers(1)]
        /\ UNCHANGED <<receipts, borrowed, gate, view, subscribers>>
      BY Zenon, <1>1 DEF CommitFileMessage
  <2>2. /\ Numbers(1) \in Seq(Nat) /\ \A i \in 1..Len(Numbers(1)) : Numbers(1)[i] > 0 /\ Numbers(1)[i] <= latest'
        /\ \A i \in 1..Len(Numbers(1)) : Numbers(1)[i] > latest
        /\ latest' \in 0..MaxSeq /\ latest' >= latest /\ Numbers(1) # <<>>
    <3>1. 1 \in Nat /\ Numbers(1) # <<>>
        BY PubOf DEF Numbers
    <3> QED
        BY Zenon, <2>1, <3>1, NumbersFacts, PubOf
  <2>3. pub' = [pub EXCEPT ![p] = Turned(pub[p], "after", Numbers(1), pub[p].targets)]
      BY Zenon, <2>1, PubOf DEF Turned, PublisherState
  <2>4. receipts' \subseteq 1..latest'
      BY <2>1, PubOf
  <2>5. Grown(p, Numbers(1)) /\ pub[p].pc \in {"wait", "after", "receipt", "publish", "fan"}
      BY Zenon, <2>1, <2>2 DEF Grown
  <2> QED
      BY Zenon, <1>0, <2>1, <2>2, <2>3, <2>4, <2>5, TurnStep, PubOf
<1>2. CASE ReadLatestSeq(p)
  <2>0. PICK s : s = <<latest>>
      BY Zenon
  <2>1. /\ pub[p].pc = "after" /\ pub[p].kind = "file" /\ UNCHANGED <<latest, receipts, gate, view, subscribers>>
        /\ pub' = [pub EXCEPT ![p].pc = "publish", ![p].todo = s]
        /\ borrowed' = borrowed \cup ({latest} \ {Head(pub[p].todo)})
      BY Zenon, <1>2, <2>0 DEF ReadLatestSeq
  <2>2. pub[p].todo # <<>> /\ latest > 0
    <3>1. pub[p].todo # <<>>
        BY Zenon, <2>1, PubOf DEF GoodPub
    <3>2. pub[p].todo[1] > 0 /\ pub[p].todo[1] <= latest /\ pub[p].todo[1] \in Nat
        BY Zenon, <3>1, TailFacts, PubOf DEF GoodPub
    <3> QED
        BY <3>1, <3>2, PubOf
  <2>3. s \in Seq(Nat) /\ \A i \in 1..Len(s) : s[i] = latest
      BY <2>0, PubOf
  <2>4. pub' = [pub EXCEPT ![p] = Turned(pub[p], "publish", s, pub[p].targets)]
      BY Zenon, <2>1, PubOf DEF Turned, PublisherState
  <2>5. Turned(pub[p], "publish", s, pub[p].targets).todo = s
      BY Zenon, PubOf DEF Turned, PublisherState
  <2>6. ASSUME NEW q \in Publisher, q # p PROVE ~Has(pub[q].todo, latest) \/ latest \in borrowed'
    <3>1. CASE latest = Head(pub[p].todo)
      <4>1. latest = pub[p].todo[1] /\ 1 \in 1..Len(pub[p].todo)
          BY Zenon, <2>2, <3>1, TailFacts, PubOf
      <4> QED
          BY Zenon, <2>1, <2>6, <4>1, PubOf DEF OwnNumbers
    <3>2. CASE latest # Head(pub[p].todo)
        BY Zenon, <2>1, <3>2
    <3> QED
        BY Zenon, <3>1, <3>2
  <2>7. OwnOf(p, Turned(pub[p], "publish", s, pub[p].targets))
      BY Zenon, <2>3, <2>5, <2>6 DEF OwnOf
  <2>8. /\ latest' \in 0..MaxSeq /\ latest' >= latest /\ receipts' \subseteq 1..latest'
        /\ \A i \in 1..Len(s) : s[i] > 0 /\ s[i] <= latest'
        /\ \A n \in receipts' : n \in receipts
    <3>1. latest <= latest
        BY PubOf
    <3> QED
        BY Zenon, <2>1, <2>2, <2>3, <3>1, PubOf
  <2>9. pub[p].pc \in {"wait", "after", "receipt", "publish", "fan"} /\ borrowed \subseteq borrowed'
        /\ pub[p].kind # "recover" /\ pub[p].pc # "wait"
        /\ view' = view /\ subscribers' = subscribers /\ gate' = gate
      BY Zenon, <1>0, <2>1
  <2>10. pub[p].targets \in SUBSET Viewer
      BY Zenon, PubOf
  <2> QED
      BY Zenon, <1>0, <2>3, <2>4, <2>7, <2>8, <2>9, <2>10, TurnStep
<1> QED
    BY Zenon, <1>1, <1>2

LEMMA AfterStep ==
    ASSUME StreamInv, NEW p \in Publisher, AfterCommit(p)
    PROVE  StreamInv'
<1>1. PICK n \in 0..1 :
         /\ RoomFor(n) /\ latest' = latest + n
         /\ pub' = [pub EXCEPT ![p].pc = "publish", ![p].todo = pub[p].todo \o Numbers(n)]
    BY Zenon DEF AfterCommit
<1>2. pub[p].pc = "after" /\ UNCHANGED <<receipts, borrowed, gate, view, subscribers>>
    BY Zenon DEF AfterCommit
<1>3. n \in Nat /\ "publish" # "fan" /\ "publish" # "after" /\ pub[p].pc # "wait" /\ "publish" \in {"after", "receipt", "publish", "fan"}
      /\ pub[p].pc \in {"wait", "after", "receipt", "publish", "fan"}
    BY <1>2
<1>4. /\ Numbers(n) \in Seq(Nat)
      /\ \A i \in 1..Len(Numbers(n)) : Numbers(n)[i] > 0 /\ Numbers(n)[i] <= latest' /\ Numbers(n)[i] > latest
      /\ latest' \in 0..MaxSeq /\ latest' >= latest
    BY Zenon, <1>1, <1>3, NumbersFacts, PubOf
<1>5. PICK s \in Seq(Nat) : s = pub[p].todo \o Numbers(n)
    BY Zenon, <1>4, ConcatFacts, PubOf
<1>6. \A i \in 1..Len(s) : Has(pub[p].todo, s[i]) \/ Has(Numbers(n), s[i])
    BY Zenon, <1>4, <1>5, ConcatFacts, PubOf
<1>7. \A k \in Nat : Has(Numbers(n), k) => k > 0 /\ k <= latest' /\ k > latest
    BY Zenon, <1>4 DEF Has
<1>8. \A k \in Nat : Has(pub[p].todo, k) => k > 0 /\ k <= latest'
  <2>1. SUFFICES ASSUME NEW k \in Nat, Has(pub[p].todo, k) PROVE k > 0 /\ k <= latest'
      BY Zenon
  <2>2. k > 0 /\ k <= latest
      BY Zenon, <2>1, PubOf DEF Has, GoodPub
  <2>3. latest \in Nat /\ latest' \in Nat /\ latest <= latest'
      BY <1>1, <1>3, PubOf
  <2> QED
      BY <2>2, <2>3
<1>9. \A i \in 1..Len(s) : s[i] \in Nat
    OBVIOUS
<1>10. (\A i \in 1..Len(s) : s[i] > 0 /\ s[i] <= latest') /\ Grown(p, s)
    BY Zenon, <1>6, <1>7, <1>8, <1>9 DEF Grown
<1>11. pub' = [pub EXCEPT ![p] = Turned(pub[p], "publish", s, pub[p].targets)]
    BY Zenon, <1>1, <1>5, PubOf DEF Turned, PublisherState
<1>12. receipts' \subseteq 1..latest'
    BY <1>1, <1>2, <1>3, PubOf
<1> QED
    BY Zenon, <1>2, <1>3, <1>4, <1>10, <1>11, <1>12, TurnStep, PubOf

LEMMA RecoveredStep ==
    ASSUME StreamInv, NEW p \in Publisher, PublishRecovered(p)
    PROVE  StreamInv'
<1>0. PICK r : r = [IdlePublisher EXCEPT !.pc = "publish", !.kind = "recover", !.todo = Numbers(1)]
    BY Zenon
<1>1. /\ pub' = [pub EXCEPT ![p] = r] /\ "recover" \in Paths /\ pub[p].pc = "idle" /\ RoomFor(1) /\ latest' = latest + 1
      /\ \A q \in Publisher : pub[q].kind # "recover"
      /\ UNCHANGED <<receipts, borrowed, gate, view, subscribers>>
    BY Zenon, <1>0 DEF PublishRecovered
<1>2. /\ Numbers(1) \in Seq(Nat) /\ \A i \in 1..Len(Numbers(1)) : Numbers(1)[i] > 0 /\ Numbers(1)[i] <= latest'
      /\ \A i \in 1..Len(Numbers(1)) : Numbers(1)[i] > latest
      /\ latest' \in 0..MaxSeq /\ latest' >= latest
  <2>1. 1 \in Nat
      OBVIOUS
  <2> QED
      BY Zenon, <1>1, <2>1, NumbersFacts, PubOf
<1>3. "recover" \in Kinds
    BY Zenon, <1>1 DEF Kinds
<1>4. r \in PublisherState /\ r.pc = "publish" /\ r.kind = "recover" /\ r.todo = Numbers(1) /\ r.to = {}
    BY Zenon, <1>0, <1>2, <1>3 DEF IdlePublisher, PublisherState
<1>5. r.pc \notin Writing /\ r.pc \notin {"fan", "write", "mark"} /\ r.pc \notin {"idle", "wait"} /\ pub[p].pc \notin Writing
      /\ r.pc # "after"
    BY Zenon, <1>1, <1>4 DEF Writing
<1>6. GoodPub(r, latest')
    BY Zenon, <1>2, <1>4, <1>5 DEF GoodPub
<1>7. pub'[p] = r /\ \A q \in Publisher : q # p => pub'[q] = pub[q]
    BY Zenon, <1>1, PubOf
<1>8. GateOK'
    BY Zenon, <1>1, <1>4, <1>7, GateKept, PubOf DEF Queueing
<1>9. OwnNumbers'
  <2>1. OwnOf(p, r)
      BY Zenon, <1>1, <1>2, <1>4, OwnedBefore, PubOf
  <2>2. \A n \in receipts' : ~Has(r.todo, n)
    <3>1. \A n \in receipts : ~(n > latest)
        BY PubOf
    <3> QED
        BY Zenon, <1>1, <1>2, <1>4, <3>1 DEF Has
  <2> QED
      BY Zenon, <1>1, <1>7, <2>1, <2>2, OwnStep, PubOf
<1>10. receipts' \subseteq 1..latest'
    BY <1>1, PubOf
<1> QED
    BY Zenon, <1>1, <1>2, <1>5, <1>6, <1>8, <1>9, <1>10, PubStep

LEMMA PublishingStep ==
    ASSUME StreamInv, NEW p \in Publisher, WriteReceipt(p) \/ Broadcast(p) \/ HasPublished(p)
    PROVE  StreamInv'
<1>0. UNCHANGED <<latest, receipts, borrowed, gate, view, subscribers>>
    BY Zenon DEF WriteReceipt, Broadcast, HasPublished
<1>1. /\ latest' \in 0..MaxSeq /\ latest' >= latest /\ receipts' \subseteq 1..latest'
      /\ \A n \in receipts' : n \in receipts
    BY Zenon, <1>0, PubOf
<1>2. \A i \in 1..Len(pub[p].todo) : pub[p].todo[i] > 0 /\ pub[p].todo[i] <= latest'
    BY Zenon, <1>0, PubOf DEF GoodPub
<1>3. Grown(p, pub[p].todo)
    BY Zenon DEF Grown, Has
<1>4. CASE WriteReceipt(p)
  <2>1. pub[p].pc = "receipt" /\ pub' = [pub EXCEPT ![p].pc = "publish"]
      BY Zenon, <1>4 DEF WriteReceipt
  <2>2. pub[p].pc # "wait" /\ pub[p].pc \in {"wait", "after", "receipt", "publish", "fan"} /\ "publish" # "fan"
        /\ "publish" # "after" /\ "publish" \in {"after", "receipt", "publish", "fan"}
      BY Zenon, <2>1
  <2>3. pub' = [pub EXCEPT ![p] = Turned(pub[p], "publish", pub[p].todo, pub[p].targets)]
      BY Zenon, <2>1, PubOf DEF Turned, PublisherState
  <2> QED
      BY Zenon, <1>0, <1>1, <1>2, <1>3, <2>2, <2>3, TurnStep, PubOf
<1>5. CASE Broadcast(p)
  <2>1. pub[p].pc = "publish" /\ pub[p].todo # <<>> /\ pub' = [pub EXCEPT ![p].pc = "fan", ![p].targets = subscribers]
      BY Zenon, <1>5 DEF Broadcast
  <2>2. pub[p].pc # "wait" /\ pub[p].pc \in {"wait", "after", "receipt", "publish", "fan"}
        /\ "fan" # "after" /\ "fan" \in {"after", "receipt", "publish", "fan"}
      BY Zenon, <2>1
  <2>3. pub' = [pub EXCEPT ![p] = Turned(pub[p], "fan", pub[p].todo, subscribers)]
      BY Zenon, <2>1, PubOf DEF Turned, PublisherState
  <2> QED
      BY Zenon, <1>0, <1>1, <1>2, <1>3, <2>1, <2>2, <2>3, TurnStep, PubOf
<1>6. CASE HasPublished(p)
  <2>1. pub[p].pc = "fan" /\ pub' = [pub EXCEPT ![p].pc = "publish", ![p].todo = Tail(pub[p].todo)]
      BY Zenon, <1>6 DEF HasPublished
  <2>2. pub[p].pc # "wait" /\ pub[p].pc \in {"wait", "after", "receipt", "publish", "fan"} /\ "publish" # "fan"
        /\ "publish" # "after" /\ "publish" \in {"after", "receipt", "publish", "fan"} /\ pub[p].pc \in {"fan", "write", "mark"}
      BY Zenon, <2>1
  <2>3. pub' = [pub EXCEPT ![p] = Turned(pub[p], "publish", Tail(pub[p].todo), pub[p].targets)]
      BY Zenon, <2>1, PubOf DEF Turned, PublisherState
  <2>4. pub[p].todo # <<>>
      BY Zenon, <2>2, PubOf DEF GoodPub
  <2>5. /\ Tail(pub[p].todo) \in Seq(Nat) /\ Len(Tail(pub[p].todo)) = Len(pub[p].todo) - 1 /\ Len(pub[p].todo) \in Nat
        /\ \A i \in 1..(Len(pub[p].todo) - 1) : Tail(pub[p].todo)[i] = pub[p].todo[i + 1]
      BY Zenon, <2>4, TailFacts, PubOf
  <2>6. \A i \in 1..(Len(pub[p].todo) - 1) : i + 1 \in 1..Len(pub[p].todo)
      BY <2>5
  <2>7. /\ \A i \in 1..Len(Tail(pub[p].todo)) : Tail(pub[p].todo)[i] > 0 /\ Tail(pub[p].todo)[i] <= latest'
        /\ Grown(p, Tail(pub[p].todo))
      BY Zenon, <1>2, <2>5, <2>6 DEF Grown, Has
  <2> QED
      BY Zenon, <1>0, <1>1, <2>2, <2>3, <2>5, <2>7, TurnStep, PubOf
<1> QED
    BY Zenon, <1>4, <1>5, <1>6

LEMMA LeavingStep ==
    ASSUME StreamInv, NEW p \in Publisher,
           CommitFails(p) \/ AfterCommitFails(p) \/ ReceiptFails(p) \/ Release(p)
    PROVE  StreamInv'
<1>1. /\ Leaves(p) /\ UNCHANGED <<latest, receipts, borrowed, view, subscribers>>
      /\ \/ pub[p].pc = "wait" /\ Holds(p)
         \/ pub[p].pc \in {"after", "receipt", "publish"}
    BY Zenon DEF CommitFails, AfterCommitFails, ReceiptFails, Release
<1>2. pub[p].pc # "idle" /\ pub[p].pc \notin Writing /\ (pub[p].pc \in {"after", "receipt", "publish"} => pub[p].pc # "wait")
    BY Zenon, <1>1 DEF Writing
<1> QED
    BY Zenon, <1>1, <1>2, LeaveStep

LEMMA RelayStep ==
    ASSUME StreamInv, Relay
    PROVE  StreamInv'
<1>1. GateOK'
    BY Zenon, RelayKeepsGate DEF StreamInv
<1>2. UNCHANGED <<latest, receipts, borrowed, pub, view, subscribers>>
    BY Zenon DEF Relay
<1>3. OwnNumbers'
    BY Zenon, <1>2, OwnUnmoved DEF StreamInv
<1>4. Apart'
    BY Zenon, <1>2 DEF StreamInv, Apart
<1>5. \A c \in Viewer : SentOK(c)'
    BY Zenon, <1>2, SentUnmoved DEF StreamInv
<1>6. StreamShape'
    BY Zenon, <1>2 DEF StreamInv, StreamShape
<1> QED
    BY Zenon, <1>1, <1>3, <1>4, <1>5, <1>6 DEF StreamInv
-----------------------------------------------------------------------------
\* broadcastEvent: a publisher and a connection at once.

\* Publisher p is in state r now; nothing was written to connection d.
LEMMA SentMove ==
    ASSUME NEW d \in Viewer, SentOK(d), view[d].sent \in Seq(Nat), view'[d].sent = view[d].sent,
           view[d].lastSeq \in Nat, view'[d].lastSeq \in Nat, view'[d].lastSeq >= view[d].lastSeq,
           NEW p \in Publisher, NEW r, pub'[p] = r, \A q \in Publisher : q # p => pub'[q] = pub[q], borrowed \subseteq borrowed',
           \A n \in Nat : Marks(p, d, n) =>
              (r.pc = "mark" /\ d \in r.to /\ Head(r.todo) = n) \/ n <= view'[d].lastSeq,
           r.pc = "write" /\ d \in r.to => ~Has(view[d].sent, Head(r.todo)) \/ Head(r.todo) \in borrowed'
    PROVE  SentOK(d)'
<1>1. \A i \in 1..Len(view[d].sent) : view[d].sent[i] \in Nat /\
         (view[d].sent[i] <= view[d].lastSeq => view[d].sent[i] <= view'[d].lastSeq)
    BY SMTT(20)
<1>2. ASSUME NEW i \in 1..Len(view[d].sent)
      PROVE  view[d].sent[i] <= view'[d].lastSeq \/
             \E q \in Publisher : pub'[q].pc = "mark" /\ d \in pub'[q].to /\ Head(pub'[q].todo) = view[d].sent[i]
  <2>1. CASE view[d].sent[i] <= view[d].lastSeq
      BY Zenon, <1>1, <2>1
  <2>2. ASSUME NEW q \in Publisher, Marks(q, d, view[d].sent[i])
        PROVE  view[d].sent[i] <= view'[d].lastSeq \/
               (pub'[q].pc = "mark" /\ d \in pub'[q].to /\ Head(pub'[q].todo) = view[d].sent[i])
    <3>1. CASE q = p
      <4>1. Marks(p, d, view[d].sent[i])
          BY Zenon, <2>2, <3>1 DEF Marks
      <4>2. (r.pc = "mark" /\ d \in r.to /\ Head(r.todo) = view[d].sent[i]) \/ view[d].sent[i] <= view'[d].lastSeq
          BY Zenon, <1>1, <4>1
      <4> QED
          BY Zenon, <3>1, <4>2
    <3>2. CASE q # p
        BY Zenon, <2>2, <3>2 DEF Marks
    <3> QED
        BY Zenon, <3>1, <3>2
  <2> QED
      BY Zenon, <2>1, <2>2 DEF SentOK
<1>3. \A q \in Publisher : pub'[q].pc = "write" /\ d \in pub'[q].to =>
         ~Has(view[d].sent, Head(pub'[q].todo)) \/ Head(pub'[q].todo) \in borrowed'
    BY Zenon DEF SentOK
<1>4. \A i, j \in 1..Len(view[d].sent) : view[d].sent[i] = view[d].sent[j] => i = j \/ view[d].sent[i] \in borrowed'
    BY Zenon DEF SentOK
<1>5. \A i \in 1..Len(view'[d].sent) : view'[d].sent[i] <= view'[d].lastSeq \/
         \E q \in Publisher : pub'[q].pc = "mark" /\ d \in pub'[q].to /\ Head(pub'[q].todo) = view'[d].sent[i]
    BY Zenon, <1>2
<1>6. /\ \A q \in Publisher : pub'[q].pc = "write" /\ d \in pub'[q].to =>
            ~Has(view'[d].sent, Head(pub'[q].todo)) \/ Head(pub'[q].todo) \in borrowed'
      /\ \A i, j \in 1..Len(view'[d].sent) : view'[d].sent[i] = view'[d].sent[j] => i = j \/ view'[d].sent[i] \in borrowed'
    BY Zenon, <1>3, <1>4
<1> QED
    BY Zenon, <1>5, <1>6 DEF SentOK, Marks, Has

LEMMA BothStep ==
    ASSUME StreamInv, NEW p \in Publisher, NEW r, pub' = [pub EXCEPT ![p] = r],
           NEW c \in Viewer, NEW v, view' = [view EXCEPT ![c] = v],
           latest' = latest, receipts' = receipts, borrowed \subseteq borrowed', gate' = gate,
           subscribers' \subseteq Viewer, GoodPub(r, latest), GoodView(v, latest),
           r.todo = pub[p].todo, r.kind = pub[p].kind,
           r.pc \notin {"idle", "wait"}, pub[p].pc \notin {"idle", "wait"},
           v.replaying => view[c].replaying, v.replaying => c \notin r.to,
           \A d \in Viewer : d \in r.to => d \in pub[p].to \/ d = c,
           \A d \in Viewer : SentOK(d)'
    PROVE  StreamInv'
<1>1. pub'[p] = r /\ \A q \in Publisher : q # p => pub'[q] = pub[q]
    BY Zenon, PubOf
<1>2. view'[c] = v /\ \A d \in Viewer : d # c => view'[d] = view[d]
    BY Zenon, ShapeOf
<1>3. r \in PublisherState /\ v \in ViewState
    BY Zenon DEF GoodPub, GoodView
<1>4. StreamShape'
  <2>1. pub' \in [Publisher -> PublisherState] /\ view' \in [Viewer -> ViewState]
      BY Zenon, <1>3, PubOf, ShapeOf
  <2>2. \A q \in Publisher : GoodPub(pub'[q], latest)
      BY Zenon, <1>1 DEF StreamInv, StreamShape
  <2>3. \A d \in Viewer : GoodView(view'[d], latest)
      BY Zenon, <1>2 DEF StreamInv, StreamShape
  <2>4. (\A q \in Publisher : GoodPub(pub[q], latest)') /\ \A d \in Viewer : GoodView(view[d], latest)'
      BY Zenon, <2>2, <2>3
  <2> QED
      BY Zenon, <2>1, <2>4 DEF StreamInv, StreamShape
<1>5. GateOK'
  <2>1. "idle" \in {"idle", "wait"}
      OBVIOUS
  <2>2. r.pc # "idle" /\ r.kind # "recover" <=> Queueing(p)
      BY Zenon, <2>1 DEF Queueing
  <2>3. r.kind # "recover" => Len(gate) > 0 /\ gate[1].owner = p /\ gate[1].state = "open"
      BY Zenon, HoldsFirst, PubOf DEF Publishing
  <2> QED
      BY Zenon, <1>1, <2>2, <2>3, GateKept, PubOf
<1>6. OwnNumbers'
  <2>1. \A i \in 1..Len(r.todo) : Has(pub[p].todo, r.todo[i])
      BY Zenon DEF Has
  <2>2. OwnOf(p, r)
      BY Zenon, <2>1, OwnedBefore, PubOf
  <2>3. r.kind = "recover" => /\ \A q \in Publisher : q # p => pub[q].kind # "recover"
                              /\ \A n \in receipts' : ~Has(r.todo, n)
      BY Zenon, PubOf DEF OwnNumbers
  <2>4. \A n \in receipts' : n \in receipts
      BY Zenon
  <2> QED
      BY Zenon, <1>1, <2>2, <2>3, <2>4, OwnStep, PubOf
<1>7. Apart'
  <2>1. SUFFICES ASSUME NEW d \in Viewer, NEW q \in Publisher, view'[d].replaying, d \in pub'[q].to PROVE FALSE
      BY Zenon DEF Apart
  <2>2. view[d].replaying
      BY Zenon, <1>2, <2>1
  <2>3. d \notin pub[q].to
      BY Zenon, <2>2 DEF StreamInv, Apart
  <2>4. q = p /\ d \in r.to
      BY Zenon, <1>1, <2>1, <2>3
  <2>5. d = c
      BY Zenon, <2>3, <2>4
  <2> QED
      BY Zenon, <1>2, <2>1, <2>4, <2>5
<1> QED
    BY Zenon, <1>4, <1>5, <1>6, <1>7 DEF StreamInv

\* Two publishers of connections, with numbers left, have different next ones, or a borrowed one.
LEMMA HeadsDiffer ==
    ASSUME StreamInv, NEW p \in Publisher, NEW q \in Publisher, p # q,
           pub[p].pc \in {"fan", "write", "mark"}, pub[q].pc \in {"fan", "write", "mark"}
    PROVE  Head(pub[p].todo) # Head(pub[q].todo) \/ Head(pub[p].todo) \in borrowed
<1>1. pub[p].todo # <<>> /\ pub[q].todo # <<>>
    BY Zenon, PubOf DEF GoodPub
<1>2. /\ Head(pub[p].todo) = pub[p].todo[1] /\ 1 \in 1..Len(pub[p].todo)
      /\ Head(pub[q].todo) = pub[q].todo[1] /\ 1 \in 1..Len(pub[q].todo)
    BY Zenon, <1>1, TailFacts, PubOf
<1> QED
    BY Zenon, <1>2, PubOf DEF OwnNumbers, Has

LEMMA HeadOf ==
    ASSUME StreamInv, NEW p \in Publisher, pub[p].pc \in {"fan", "write", "mark"}
    PROVE  LET h == Head(pub[p].todo) IN h \in Nat /\ h > 0 /\ h <= latest /\ h \in 0..latest
<1>1. pub[p].todo # <<>>
    BY Zenon, PubOf DEF GoodPub
<1>2. Head(pub[p].todo) = pub[p].todo[1] /\ 1 \in 1..Len(pub[p].todo) /\ pub[p].todo[1] \in Nat
    BY Zenon, <1>1, TailFacts, PubOf
<1>3. Head(pub[p].todo) > 0 /\ Head(pub[p].todo) <= latest /\ Head(pub[p].todo) \in Nat /\ latest \in Nat
    BY ZenonT(40), <1>2, PubOf DEF GoodPub
<1> QED
    BY <1>3

\* A publisher with state r that fans out goes on, to connections W.
Served(r, x, T, W) == [r EXCEPT !.pc = x, !.targets = T, !.to = W]

ServesOn(r, w, x, W, n) ==
    GoodPub(w, n) /\ w.pc = x /\ w.to = W /\ w.kind = r.kind /\ w.todo = r.todo /\ w.pc \notin {"idle", "wait"}

LEMMA ServedState ==
    ASSUME NEW r \in PublisherState, NEW T \in SUBSET Viewer, NEW W \in SUBSET Viewer,
           NEW x \in {"idle", "wait", "after", "receipt", "publish", "fan", "write", "mark"}
    PROVE  Served(r, x, T, W) \in PublisherState
    BY Zenon DEF Served, PublisherState

LEMMA ServedIsGood ==
    ASSUME NEW n \in Nat, NEW r, GoodPub(r, n), r.pc \in {"fan", "write", "mark"},
           NEW x \in {"fan", "write", "mark"}, NEW T \in SUBSET Viewer, NEW W \in SUBSET Viewer,
           \/ x = "fan" /\ W = {}
           \/ x # "fan" /\ \E c \in Viewer : W = {c}
    PROVE  ServesOn(r, Served(r, x, T, W), x, W, n)
<1> DEFINE w == Served(r, x, T, W)
<1>1. r \in PublisherState /\ r.todo # <<>>
    BY Zenon DEF GoodPub
<1>2. x \in {"idle", "wait", "after", "receipt", "publish", "fan", "write", "mark"}
      /\ (x = "fan" => x \notin Writing) /\ (x # "fan" => x \in Writing) /\ x \notin {"idle", "wait"}
    BY Zenon DEF Writing
<1>3. w \in PublisherState /\ w.pc = x /\ w.to = W /\ w.kind = r.kind /\ w.todo = r.todo
  <2>1. w \in PublisherState
      BY Zenon, <1>1, <1>2, ServedState
  <2> QED
      BY Zenon, <1>1, <2>1 DEF Served, PublisherState
<1> HIDE DEF w
<1>4. GoodPub(w, n)
    BY Zenon, <1>1, <1>2, <1>3 DEF GoodPub
<1> QED
    BY Zenon, <1>2, <1>3, <1>4 DEF w, ServesOn

\* What is past a connection's last number was not written to it, unless by the publisher itself.
LEMMA NotSentYet ==
    ASSUME StreamInv, NEW p \in Publisher, NEW c \in Viewer, pub[p].pc = "fan",
           Head(pub[p].todo) > view[c].lastSeq
    PROVE  ~Has(view[c].sent, Head(pub[p].todo)) \/ Head(pub[p].todo) \in borrowed
<1>1. pub[p].pc \in {"fan", "write", "mark"} /\ pub[p].pc # "mark"
    OBVIOUS
<1>2. SUFFICES ASSUME NEW i \in 1..Len(view[c].sent), view[c].sent[i] = Head(pub[p].todo) PROVE Head(pub[p].todo) \in borrowed
    BY Zenon DEF Has
<1>3. ~(view[c].sent[i] <= view[c].lastSeq)
  <2>1. Head(pub[p].todo) \in Nat /\ view[c].lastSeq \in Nat
      BY Zenon, <1>1, HeadOf, ShapeOf
  <2> QED
      BY <1>2, <2>1
<1>4. PICK q \in Publisher : Marks(q, c, view[c].sent[i])
    BY Zenon, <1>2, <1>3 DEF StreamInv, SentOK
<1>5. pub[q].pc = "mark" /\ pub[q].pc \in {"fan", "write", "mark"} /\ Head(pub[q].todo) = Head(pub[p].todo)
    BY Zenon, <1>2, <1>4 DEF Marks
<1>6. q # p
    BY Zenon, <1>1, <1>5
<1> QED
    BY Zenon, <1>1, <1>5, <1>6, HeadsDiffer

LEMMA SendStep ==
    ASSUME StreamInv, NEW p \in Publisher, NEW c \in Viewer, SendLive(p, c)
    PROVE  StreamInv'
<1> DEFINE h == Head(pub[p].todo)
           T == pub[p].targets \ {c}
<1>0. /\ pub[p].pc = "fan" /\ UNCHANGED <<latest, receipts, borrowed, gate>>
      /\ pub[p].pc \in {"fan", "write", "mark"} /\ pub[p].pc # "mark" /\ pub[p].pc \notin Writing
      /\ pub[p].pc \notin {"idle", "wait"}
    BY Zenon DEF SendLive, Writing
<1>1. /\ latest \in Nat /\ GoodPub(pub[p], latest) /\ pub[p].to = {} /\ T \in SUBSET Viewer
      /\ {} \in SUBSET Viewer /\ {c} \in SUBSET Viewer /\ DOMAIN pub = Publisher /\ DOMAIN view = Viewer
  <2>1. latest \in Nat /\ GoodPub(pub[p], latest) /\ pub[p].targets \in SUBSET Viewer /\ DOMAIN pub = Publisher
        /\ DOMAIN view = Viewer
      BY Zenon, PubOf, ShapeOf
  <2>2. pub[p].to = {}
      BY Zenon, <1>0, <2>1 DEF GoodPub
  <2> QED
      BY Zenon, <2>1, <2>2
<1>2. "fan" \in {"fan", "write", "mark"} /\ "write" \in {"fan", "write", "mark"} /\ "write" # "fan"
      /\ "fan" # "write" /\ "write" # "mark"
    OBVIOUS
<1>3. h \in Nat /\ h \in 0..latest /\ view[c].lastSeq \in Nat
    BY Zenon, <1>0, HeadOf, ShapeOf
<1>4. CASE view[c].replaying \/ ~(h > view[c].lastSeq)
  <2> DEFINE r == Served(pub[p], "fan", T, {})
  <2>1. pub' = [pub EXCEPT ![p] = r]
    <3>1. pub' = [pub EXCEPT ![p].targets = pub[p].targets \ {c}, ![p].pc = "fan", ![p].to = {}]
        BY Zenon, <1>4 DEF SendLive
    <3>2. pub \in [Publisher -> PublisherState] /\ pub[p] \in PublisherState
        BY Zenon, PubOf
    <3> QED
        BY Zenon, <3>1, <3>2 DEF Served, PublisherState
  <2>2. ServesOn(pub[p], r, "fan", {}, latest)
      BY Zenon, <1>0, <1>1, <1>2, ServedIsGood
  <2>3. GoodPub(r, latest) /\ r.pc = "fan" /\ r.to = {} /\ r.kind = pub[p].kind /\ r.todo = pub[p].todo
        /\ r.pc \notin {"idle", "wait"}
      BY Zenon, <2>2 DEF ServesOn
  <2> HIDE DEF r
  <2>4. pub'[p] = r /\ \A q \in Publisher : q # p => pub'[q] = pub[q]
      BY Zenon, <1>1, <2>1
  <2>5. ASSUME NEW v, view' = [view EXCEPT ![c] = v], GoodView(v, latest), v.replaying => view[c].replaying,
               subscribers' \subseteq Viewer,
               v.sent = <<>> \/ (v.sent = view[c].sent /\ v.lastSeq = view[c].lastSeq)
        PROVE  StreamInv'
    <3>1. view'[c] = v /\ \A d \in Viewer : d # c => view'[d] = view[d]
        BY Zenon, <1>1, <2>5
    <3>2. ASSUME NEW d \in Viewer, view'[d].sent = view[d].sent, view'[d].lastSeq = view[d].lastSeq PROVE SentOK(d)'
      <4>1. SentOK(d) /\ view[d].sent \in Seq(Nat) /\ view[d].lastSeq \in Nat /\ view[d].lastSeq >= view[d].lastSeq
          BY Zenon, ShapeOf DEF StreamInv, ViewState
      <4>2. (\A n \in Nat : ~Marks(p, d, n)) /\ ~(r.pc = "write" /\ d \in r.to)
          BY Zenon, <1>0, <1>2, <2>3 DEF Marks
      <4> QED
          BY Zenon, <1>0, <2>4, <3>2, <4>1, <4>2, SentMove
    <3>3. SentOK(c)'
        BY Zenon, <2>5, <3>1, <3>2, SentEmpty
    <3>4. \A d \in Viewer : SentOK(d)'
        BY Zenon, <3>1, <3>2, <3>3
    <3>5. c \notin r.to /\ \A d \in Viewer : d \notin r.to
        BY Zenon, <2>3
    <3> QED
        BY Zenon, <1>0, <2>1, <2>3, <2>5, <3>4, <3>5, BothStep
  <2>6. CASE view[c].replaying /\ Overflows(view[c], h)
    <3>1. view' = [view EXCEPT ![c] = Closed] /\ subscribers' = subscribers \ {c}
        BY Zenon, <2>6 DEF SendLive, sendWhileReplaying, DropViewer
    <3> QED
        BY Zenon, <1>1, <2>5, <3>1, ClosedIsGood, ShapeOf
  <2>7. CASE view[c].replaying /\ ~Overflows(view[c], h)
    <3>1. view' = [view EXCEPT ![c] = Buffer(view[c], h)] /\ subscribers' = subscribers
        BY Zenon, <2>7 DEF SendLive, sendWhileReplaying
    <3>2. /\ GoodView(Buffer(view[c], h), latest) /\ Buffer(view[c], h).sent = view[c].sent
          /\ Buffer(view[c], h).lastSeq = view[c].lastSeq
      <4> HIDE DEF h
      <4>1. GoodView(view[c], latest)
          BY Zenon, ShapeOf
      <4> QED
          BY <1>1, <1>3, <2>7, <4>1, BufferIsGood
    <3> QED
        BY Zenon, <2>5, <2>7, <3>1, <3>2, ShapeOf
  <2>8. CASE ~view[c].replaying
    <3>1. view' = view /\ subscribers' = subscribers
        BY Zenon, <2>8 DEF SendLive
    <3>2. view' = [view EXCEPT ![c] = view[c]]
        BY Zenon, <3>1, ShapeOf
    <3> QED
        BY Zenon, <2>5, <3>1, <3>2, ShapeOf
  <2> QED
      BY Zenon, <2>6, <2>7, <2>8
<1>5. CASE ~view[c].replaying /\ h > view[c].lastSeq
  <2> DEFINE r == Served(pub[p], "write", T, {c})
  <2>1. pub' = [pub EXCEPT ![p] = r]
    <3>1. pub' = [pub EXCEPT ![p].targets = pub[p].targets \ {c}, ![p].pc = "write", ![p].to = {c}]
        BY Zenon, <1>5 DEF SendLive
    <3>2. pub \in [Publisher -> PublisherState] /\ pub[p] \in PublisherState
        BY Zenon, PubOf
    <3> QED
        BY Zenon, <3>1, <3>2 DEF Served, PublisherState
  <2>2. ServesOn(pub[p], r, "write", {c}, latest)
      BY Zenon, <1>0, <1>1, <1>2, ServedIsGood
  <2>3. GoodPub(r, latest) /\ r.pc = "write" /\ r.to = {c} /\ r.kind = pub[p].kind /\ r.todo = pub[p].todo
        /\ r.pc \notin {"idle", "wait"}
      BY Zenon, <2>2 DEF ServesOn
  <2> HIDE DEF r
  <2>4. pub'[p] = r /\ \A q \in Publisher : q # p => pub'[q] = pub[q]
      BY Zenon, <1>1, <2>1
  <2>5. view' = view /\ subscribers' = subscribers
      BY Zenon, <1>5 DEF SendLive
  <2>6. view' = [view EXCEPT ![c] = view[c]]
      BY Zenon, <2>5, ShapeOf
  <2>7. ASSUME NEW d \in Viewer PROVE SentOK(d)'
    <3>1. SentOK(d) /\ view[d].sent \in Seq(Nat) /\ view[d].lastSeq \in Nat /\ view[d].lastSeq >= view[d].lastSeq
        BY Zenon, ShapeOf DEF StreamInv, ViewState
    <3>2. /\ \A n \in Nat : ~Marks(p, d, n)
          /\ d \in r.to => ~Has(view[d].sent, Head(r.todo)) \/ Head(r.todo) \in borrowed'
      <4>1. ~Has(view[c].sent, Head(pub[p].todo)) \/ Head(pub[p].todo) \in borrowed'
          BY Zenon, <1>0, <1>5, NotSentYet
      <4> QED
          BY Zenon, <1>0, <2>3, <4>1 DEF Marks
    <3> QED
        BY Zenon, <1>0, <2>4, <2>5, <3>1, <3>2, SentMove
  <2>8. \A d \in Viewer : d \in r.to => d = c
      BY Zenon, <2>3
  <2> QED
      BY Zenon, <1>0, <1>5, <2>1, <2>3, <2>5, <2>6, <2>7, <2>8, BothStep, ShapeOf
<1> QED
    BY Zenon, <1>4, <1>5

\* A connection other than the one publisher p was writing to.
LEMMA SentElsewhere ==
    ASSUME StreamInv, NEW p \in Publisher, NEW r, NEW c \in Viewer, NEW d \in Viewer, d # c,
           pub'[p] = r, \A q \in Publisher : q # p => pub'[q] = pub[q],
           pub[p].to = {c}, r.to \subseteq {c}, view'[d] = view[d], borrowed \subseteq borrowed'
    PROVE  SentOK(d)'
<1>1. SentOK(d) /\ view[d].sent \in Seq(Nat) /\ view[d].lastSeq \in Nat /\ view[d].lastSeq >= view[d].lastSeq
    BY Zenon, ShapeOf DEF StreamInv, ViewState
<1>2. d \notin pub[p].to /\ d \notin r.to
    BY Zenon
<1> QED
    BY Zenon, <1>1, <1>2, SentMove DEF Marks

\* The number publisher p was about to write is written.
LEMMA SentWritten ==
    ASSUME StreamInv, NEW p \in Publisher, NEW r, NEW c \in Viewer, NEW h \in Nat,
           pub'[p] = r, \A q \in Publisher : q # p => pub'[q] = pub[q],
           pub[p].pc = "write", c \in pub[p].to, h = Head(pub[p].todo),
           r.pc = "mark", c \in r.to, Head(r.todo) = h,
           view'[c].lastSeq = view[c].lastSeq, view'[c].sent = Append(view[c].sent, h), borrowed \subseteq borrowed'
    PROVE  SentOK(c)'
<1> DEFINE s == view[c].sent
           z == Append(view[c].sent, h)
<1>0. SentOK(c) /\ s \in Seq(Nat)
    BY Zenon, ShapeOf DEF StreamInv, ViewState
<1>1. /\ Len(s) \in Nat /\ Len(z) = Len(s) + 1 /\ z[Len(s) + 1] = h
      /\ \A i \in 1..Len(s) : z[i] = s[i]
      /\ \A i \in 1..(Len(s) + 1) : i \in 1..Len(s) \/ i = Len(s) + 1
    BY Zenon, <1>0, AppendFacts
<1>2. pub[p].pc # "mark" /\ pub[p].pc \in {"fan", "write", "mark"} /\ r.pc # "write"
    OBVIOUS
<1>3. ~Has(s, h) \/ h \in borrowed'
    BY Zenon, <1>0 DEF SentOK
<1>4. view'[c].sent = z
    OBVIOUS
<1>5. \A i, j \in 1..Len(s) : s[i] = s[j] => i = j \/ s[i] \in borrowed'
    BY Zenon, <1>0 DEF SentOK
<1>6. ASSUME NEW i \in 1..Len(s)
      PROVE  s[i] <= view'[c].lastSeq \/
             \E q \in Publisher : pub'[q].pc = "mark" /\ c \in pub'[q].to /\ Head(pub'[q].todo) = s[i]
  <2>1. CASE s[i] <= view[c].lastSeq
      BY Zenon, <2>1
  <2>2. ASSUME NEW q \in Publisher, Marks(q, c, s[i])
        PROVE  pub'[q].pc = "mark" /\ c \in pub'[q].to /\ Head(pub'[q].todo) = s[i]
    <3>1. q # p
        BY Zenon, <1>2, <2>2 DEF Marks
    <3> QED
        BY Zenon, <2>2, <3>1 DEF Marks
  <2> QED
      BY Zenon, <1>0, <2>1, <2>2 DEF SentOK
<1>7. ASSUME NEW q \in Publisher, pub'[q].pc = "write", c \in pub'[q].to 
      PROVE  Head(pub'[q].todo) \in borrowed' \/ (~Has(s, Head(pub'[q].todo)) /\ Head(pub'[q].todo) # h)
  <2>1. q # p
      BY Zenon, <1>2, <1>7
  <2>2. pub'[q] = pub[q] /\ pub[q].pc \in {"fan", "write", "mark"}
      BY Zenon, <1>7, <2>1
  <2> QED
      BY Zenon, <1>0, <1>2, <1>7, <2>1, <2>2, HeadsDiffer DEF SentOK
<1> HIDE DEF s, z
<1>8. \A i, j \in 1..Len(z) : z[i] = z[j] => i = j \/ z[i] \in borrowed'
  <2>1. \A i \in 1..Len(s) : s[i] = h => s[i] \in borrowed'
      BY Zenon, <1>3 DEF Has
  <2>2. ASSUME NEW i \in 1..Len(z), NEW j \in 1..Len(z), z[i] = z[j] PROVE i = j \/ z[i] \in borrowed'
    <3>1. CASE i \in 1..Len(s) /\ j \in 1..Len(s)
        BY ZenonT(40), <1>1, <1>5, <2>2, <3>1
    <3>2. CASE i \in 1..Len(s) /\ j = Len(s) + 1
        BY Zenon, <1>1, <2>1, <2>2, <3>2
    <3>3. CASE i = Len(s) + 1 /\ j \in 1..Len(s)
        BY Zenon, <1>1, <2>1, <2>2, <3>3
    <3>4. CASE i = Len(s) + 1 /\ j = Len(s) + 1
        BY Zenon, <3>4
    <3> QED
        BY Zenon, <1>1, <3>1, <3>2, <3>3, <3>4
  <2> QED
      BY Zenon, <2>2
<1>9. \A i \in 1..Len(z) : z[i] <= view'[c].lastSeq \/
         \E q \in Publisher : pub'[q].pc = "mark" /\ c \in pub'[q].to /\ Head(pub'[q].todo) = z[i]
  <2>1. pub'[p].pc = "mark" /\ c \in pub'[p].to /\ Head(pub'[p].todo) = h
      BY Zenon
  <2> QED
      BY Zenon, <1>1, <1>6, <2>1
<1>10. \A q \in Publisher : pub'[q].pc = "write" /\ c \in pub'[q].to =>
          ~Has(z, Head(pub'[q].todo)) \/ Head(pub'[q].todo) \in borrowed'
    BY Zenon, <1>1, <1>7 DEF Has
<1> QED
    BY Zenon, <1>4, <1>8, <1>9, <1>10 DEF SentOK, Marks, Has

LEMMA WriteStep ==
    ASSUME StreamInv, NEW p \in Publisher, WriteLive(p) \/ MarkLive(p)
    PROVE  StreamInv'
<1> DEFINE h == Head(pub[p].todo)
           T == pub[p].targets
<1>0. /\ pub[p].pc \in Writing /\ pub[p].pc \in {"fan", "write", "mark"} /\ pub[p].pc \notin {"idle", "wait"}
      /\ UNCHANGED <<latest, receipts, borrowed, gate>>
    BY Zenon DEF WriteLive, MarkLive, Writing
<1>1. PICK c \in Viewer : pub[p].to = {c}
    BY Zenon, <1>0, PubOf DEF GoodPub
<1>2. /\ latest \in Nat /\ GoodPub(pub[p], latest) /\ T \in SUBSET Viewer
      /\ {} \in SUBSET Viewer /\ {c} \in SUBSET Viewer /\ DOMAIN pub = Publisher /\ DOMAIN view = Viewer
      /\ pub \in [Publisher -> PublisherState] /\ pub[p] \in PublisherState
    BY Zenon, PubOf, ShapeOf
<1>3. h \in Nat /\ h > 0 /\ h <= latest /\ GoodView(view[c], latest) /\ view[c].lastSeq \in Nat
    BY Zenon, <1>0, HeadOf, ShapeOf
<1>4. ~view[c].replaying
    BY Zenon, <1>1 DEF StreamInv, Apart
<1>5. "fan" \in {"fan", "write", "mark"} /\ "mark" \in {"fan", "write", "mark"} /\ "mark" # "fan"
    OBVIOUS
<1>6. CASE /\ pub[p].pc = "write" /\ view[c].pc # "closed"
           /\ view' = [view EXCEPT ![c] = WriteSeq(view[c], h)]
           /\ pub' = [pub EXCEPT ![p].pc = "mark"]
           /\ subscribers' = subscribers
  <2> DEFINE r == Served(pub[p], "mark", T, {c})
             v == WriteSeq(view[c], h)
  <2>1. pub' = [pub EXCEPT ![p] = r]
      BY Zenon, <1>1, <1>2, <1>6 DEF Served, PublisherState
  <2>2. ServesOn(pub[p], r, "mark", {c}, latest)
      BY Zenon, <1>0, <1>2, <1>5, ServedIsGood
  <2>3. GoodPub(r, latest) /\ r.pc = "mark" /\ r.to = {c} /\ r.kind = pub[p].kind /\ r.todo = pub[p].todo
        /\ r.pc \notin {"idle", "wait"}
      BY Zenon, <2>2 DEF ServesOn
  <2>4. GoodView(v, latest) /\ ~v.replaying /\ v.sent = Append(view[c].sent, h) /\ v.lastSeq = view[c].lastSeq
    <3> HIDE DEF h
    <3>1. v = WriteSeq(view[c], h)
        OBVIOUS
    <3>2. h \in Nat /\ h > 0 /\ h <= latest /\ GoodView(view[c], latest) /\ latest \in Nat
        BY Zenon, <1>2, <1>3
    <3> HIDE DEF v
    <3>3. LiveWrote(view[c], v, h, latest)
        BY Zenon, <1>4, <3>1, <3>2, LiveWriteIsGood
    <3> QED
        BY Zenon, <3>3 DEF LiveWrote
  <2> HIDE DEF r, v
  <2>5. pub'[p] = r /\ \A q \in Publisher : q # p => pub'[q] = pub[q]
      BY Zenon, <1>2, <2>1
  <2>6. view'[c] = v /\ \A d \in Viewer : d # c => view'[d] = view[d]
      BY Zenon, <1>2, <1>6 DEF v
  <2>7. SentOK(c)'
      BY Zenon, <1>0, <1>1, <1>3, <1>6, <2>3, <2>4, <2>5, <2>6, SentWritten
  <2>8. \A d \in Viewer : SentOK(d)'
      BY Zenon, <1>0, <1>1, <2>3, <2>5, <2>6, <2>7, SentElsewhere
  <2>9. view' = [view EXCEPT ![c] = v] /\ subscribers' \subseteq Viewer
      BY Zenon, <1>6, ShapeOf DEF v
  <2>10. \A d \in Viewer : d \in r.to => d = c
      BY Zenon, <2>3
  <2> QED
      BY Zenon, <1>0, <2>1, <2>3, <2>4, <2>8, <2>9, <2>10, BothStep
<1>7. ASSUME pub' = [pub EXCEPT ![p].pc = "fan", ![p].to = {}], NEW v, view' = [view EXCEPT ![c] = v],
             subscribers' \subseteq Viewer, GoodView(v, latest), ~v.replaying,
             \/ v.sent = <<>>
             \/ v.sent = view[c].sent /\ v.lastSeq >= view[c].lastSeq /\ v.lastSeq >= h
      PROVE  StreamInv'
  <2> DEFINE r == Served(pub[p], "fan", T, {})
  <2>1. pub' = [pub EXCEPT ![p] = r]
      BY Zenon, <1>2, <1>7 DEF Served, PublisherState
  <2>2. ServesOn(pub[p], r, "fan", {}, latest)
      BY Zenon, <1>0, <1>2, <1>5, ServedIsGood
  <2>3. GoodPub(r, latest) /\ r.pc = "fan" /\ r.to = {} /\ r.kind = pub[p].kind /\ r.todo = pub[p].todo
        /\ r.pc \notin {"idle", "wait"}
      BY Zenon, <2>2 DEF ServesOn
  <2> HIDE DEF r
  <2>5. pub'[p] = r /\ \A q \in Publisher : q # p => pub'[q] = pub[q]
      BY Zenon, <1>2, <2>1
  <2>6. view'[c] = v /\ \A d \in Viewer : d # c => view'[d] = view[d]
      BY Zenon, <1>2, <1>7
  <2>7. SentOK(c)'
    <3>1. CASE v.sent = <<>>
        BY Zenon, <2>6, <3>1, SentEmpty
    <3>2. CASE v.sent = view[c].sent /\ v.lastSeq >= view[c].lastSeq /\ v.lastSeq >= h
      <4>1. SentOK(c) /\ view[c].sent \in Seq(Nat) /\ v.lastSeq \in Nat
          BY Zenon, <1>7, ShapeOf DEF StreamInv, ViewState, GoodView
      <4>2. \A n \in Nat : Marks(p, c, n) => n <= v.lastSeq
        <5>1. \A n \in Nat : Marks(p, c, n) => n = h
            BY Zenon DEF Marks
        <5> QED
            BY Zenon, <1>3, <3>2, <4>1, <5>1
      <4>3. c \notin r.to
          BY Zenon, <2>3
      <4> QED
          BY Zenon, <1>0, <1>3, <2>5, <2>6, <3>2, <4>1, <4>2, <4>3, SentMove
    <3> QED
        BY Zenon, <1>7, <3>1, <3>2
  <2>8. \A d \in Viewer : SentOK(d)'
    <3>1. r.to \subseteq {c}
        BY Zenon, <2>3
    <3> QED
        BY Zenon, <1>0, <1>1, <2>5, <2>6, <2>7, <3>1, SentElsewhere
  <2>9. \A d \in Viewer : d \notin r.to
      BY Zenon, <2>3
  <2> QED
      BY Zenon, <1>0, <1>7, <2>1, <2>3, <2>8, <2>9, BothStep
<1>8. CASE DropViewer(c) /\ pub' = [pub EXCEPT ![p].pc = "fan", ![p].to = {}]
    BY Zenon, <1>2, <1>7, <1>8, ClosedIsGood, ShapeOf DEF DropViewer
<1>9. CASE /\ view' = [view EXCEPT ![c] = markSent(view[c], h)] /\ subscribers' = subscribers
           /\ pub' = [pub EXCEPT ![p].pc = "fan", ![p].to = {}]
  <2> DEFINE v == markSent(view[c], h)
  <2>1. GoodView(v, latest) /\ ~v.replaying /\ v.sent = view[c].sent /\ v.lastSeq >= view[c].lastSeq /\ v.lastSeq >= h
    <3> HIDE DEF h
    <3>1. v = markSent(view[c], h)
        OBVIOUS
    <3>2. h \in Nat /\ h <= latest /\ GoodView(view[c], latest) /\ latest \in Nat
        BY Zenon, <1>2, <1>3
    <3> HIDE DEF v
    <3>3. LiveCounted(view[c], v, h, latest)
        BY Zenon, <1>4, <3>1, <3>2, LiveMarkIsGood
    <3> QED
        BY Zenon, <3>3 DEF LiveCounted
  <2> QED
      BY Zenon, <1>7, <1>9, <2>1, ShapeOf
<1>10. CASE WriteLive(p)
  <2>1. \/ /\ view[c].pc # "closed" /\ view' = [view EXCEPT ![c] = WriteSeq(view[c], h)]
           /\ pub' = [pub EXCEPT ![p].pc = "mark"] /\ subscribers' = subscribers
        \/ DropViewer(c) /\ pub' = [pub EXCEPT ![p].pc = "fan", ![p].to = {}]
      BY Zenon, <1>1, <1>10 DEF WriteLive
  <2>2. pub[p].pc = "write"
      BY Zenon, <1>10 DEF WriteLive
  <2> QED
      BY Zenon, <1>6, <1>8, <2>1, <2>2
<1>11. CASE MarkLive(p)
    BY Zenon, <1>1, <1>9, <1>11 DEF MarkLive
<1> QED
    BY Zenon, <1>10, <1>11
-----------------------------------------------------------------------------
\* The invariant, and what follows from it.

LEMMA StreamStarts ==
    ASSUME StreamInit
    PROVE  StreamInv
<1>1. latest \in Nat /\ latest \in 0..MaxSeq /\ receipts \subseteq 1..latest
    BY StreamAssumption DEF StreamInit
<1>2. \A p \in Publisher : pub[p] = IdlePublisher
    BY Zenon DEF StreamInit
<1>3. \A c \in Viewer : view[c] = Fresh
    BY Zenon DEF StreamInit
<1>4. \A p \in Publisher : GoodPub(pub[p], latest) /\ pub[p].pc = "idle" /\ pub[p].todo = <<>>
                           /\ pub[p].kind # "recover" /\ pub[p].pc \notin Writing
    BY Zenon, <1>1, <1>2, IdleIsGood
<1>5. \A c \in Viewer : GoodView(view[c], latest)
    BY Zenon, <1>1, <1>3, FreshIsGood
<1>6. \A p \in Publisher : pub[p] \in PublisherState /\ pub[p].to = {}
    BY Zenon, <1>4 DEF GoodPub
<1>7. \A c \in Viewer : view[c] \in ViewState
    BY Zenon, <1>5 DEF GoodView
<1>8. StreamShape
  <2>1. pub \in [Publisher -> PublisherState]
      BY Zenon, <1>2, <1>6 DEF StreamInit
  <2>2. view \in [Viewer -> ViewState]
      BY Zenon, <1>3, <1>7 DEF StreamInit
  <2>3. subscribers \subseteq Viewer
      BY Zenon DEF StreamInit
  <2> QED
      BY Zenon, <1>1, <1>4, <1>5, <2>1, <2>2, <2>3 DEF StreamShape
<1>9. GateOK
  <2>1. gate = <<>> /\ gate \in Seq(Token) /\ \A i \in 1..Len(gate) : FALSE
      BY DEF StreamInit
  <2>2. \A p \in Publisher : ~Queueing(p) /\ ~Publishing(p)
      BY Zenon, <1>4 DEF Queueing, Publishing
  <2> QED
      BY Zenon, <2>1, <2>2 DEF GateOK
<1>10. Apart
    BY Zenon, <1>6 DEF Apart
<1>11. OwnNumbers
  <2>1. \A i \in 1..Len(<<>>) : FALSE
      BY SMT
  <2> QED
      BY Zenon, <1>4, <2>1 DEF OwnNumbers
<1>12. \A c \in Viewer : SentOK(c)
  <2>1. \A i \in 1..Len(<<>>) : FALSE
      BY SMT
  <2>2. \A c \in Viewer : view[c].sent = <<>>
      BY <1>3 DEF Fresh
  <2> QED
      BY Zenon, <2>1, <2>2 DEF SentOK, Has
<1> QED
    BY Zenon, <1>8, <1>9, <1>10, <1>11, <1>12 DEF StreamInv

LEMMA StreamGoesOn ==
    ASSUME StreamInv, [StreamNext]_streamVars
    PROVE  StreamInv'
<1>1. CASE UNCHANGED streamVars
  <2>1. UNCHANGED <<latest, receipts, borrowed, gate, pub, view, subscribers>>
      BY Zenon, <1>1 DEF streamVars
  <2>2. latest' \in 0..MaxSeq /\ latest' >= latest
      BY <2>1 DEF StreamInv, StreamShape
  <2> QED
      BY Zenon, <2>1, <2>2, GrowStep
<1>2. ASSUME NEW p \in Publisher, PublishStep(p) PROVE StreamInv'
    BY Zenon, <1>2, WaitStep, AppendStep, ProposalStep, FileStep, AfterStep, RecoveredStep, LeavingStep DEF PublishStep
<1>3. ASSUME NEW p \in Publisher, FanOut(p) PROVE StreamInv'
    BY Zenon, <1>3, PublishingStep, LeavingStep, SendStep, WriteStep DEF FanOut
<1>4. CASE Relay
    BY Zenon, <1>4, RelayStep
<1>5. CASE FenceCommands
  <2>1. UNCHANGED <<receipts, borrowed, gate, pub, view, subscribers>>
      BY Zenon, <1>5 DEF FenceCommands
  <2>2. latest' \in 0..MaxSeq /\ latest' >= latest
    <3>1. latest \in 0..MaxSeq
        BY Zenon DEF StreamInv, StreamShape
    <3> QED
        BY <1>5, <3>1, StreamAssumption DEF FenceCommands, RoomFor
  <2> QED
      BY Zenon, <2>1, <2>2, GrowStep
<1>6. ASSUME NEW c \in Viewer, Serve(c) \/ RegisterPeer(c) \/ EmitEphemeral(c) \/ SocketDies(c) PROVE StreamInv'
    BY Zenon, <1>6, ViewerKeeps
<1> QED
    BY Zenon, <1>1, <1>2, <1>3, <1>4, <1>5, <1>6 DEF StreamNext

\* The inductive invariant of the event path: StreamInv holds in every state.
THEOREM StreamInvariant == StreamSpec => []StreamInv
<1>1. StreamInit => StreamInv
    BY Zenon, StreamStarts
<1>2. StreamInv /\ [StreamNext]_streamVars => StreamInv'
    BY Zenon, StreamGoesOn
<1> QED
    BY <1>1, <1>2, PTL DEF StreamSpec

\* The publication gate (acquirePublication): of the goroutines that take it, at most
\* one is between its commit and the end of its fan-out, for any number of them and
\* whoever gave up waiting in between.
THEOREM GateIsExclusive == StreamSpec => []OnePublisher
<1>1. StreamInv => OnePublisher
    BY Zenon DEF StreamInv, GateOK, OnePublisher
<1> QED
    BY <1>1, StreamInvariant, PTL

\* What broadcastEvent and the replay write to a client are numbers of the log, each once,
\* and its subscription never counts past the log, on every publishing path; only a number
\* that a file message borrowed from another event (handleFileReferenceSend) may come twice.
THEOREM ClientsSeeTheLog == StreamSpec => []SentFromLog
<1>1. ASSUME StreamInv PROVE SentFromLog
  <2>1. \A c \in Viewer : DOMAIN view[c].sent = 1..Len(view[c].sent)
    <3>1. \A c \in Viewer : view[c].sent \in Seq(Nat)
        BY Zenon, <1>1, ShapeOf DEF ViewState
    <3> QED
        BY Zenon, <3>1, SeqIsFunction
  <2>2. NoDuplicates
      BY Zenon, <1>1, <2>1 DEF NoDuplicates, StreamInv, SentOK
  <2>3. DurableBeforeSeen
      BY Zenon, <1>1, <2>1 DEF DurableBeforeSeen, StreamInv, StreamShape, GoodView, Under
  <2> QED
      BY Zenon, <2>2, <2>3 DEF SentFromLog
<1> QED
    BY <1>1, StreamInvariant, PTL

\* The types of the event path, with the bound maxReplayBufferedEvents of the replay
\* buffer and the index of the ephemeral event queued in it.
THEOREM StreamTypes == StreamSpec => []StreamTypeOK
<1>1. ASSUME StreamInv PROVE StreamTypeOK
  <2>0. latest \in 0..MaxSeq /\ latest \in Nat /\ receipts \subseteq 1..latest /\ subscribers \subseteq Viewer
      BY <1>1, StreamAssumption DEF StreamInv, StreamShape
  <2>1. \A i \in DOMAIN gate : gate[i].owner \in Publisher /\ gate[i].state \in {"open", "relay", "closed"}
    <3>1. gate \in Seq(Token)
        BY Zenon, <1>1 DEF StreamInv, GateOK
    <3>2. \A i \in DOMAIN gate : gate[i] \in Token
        BY <3>1
    <3> QED
        BY Zenon, <3>2 DEF Token
  <2>2. ASSUME NEW p \in Publisher
        PROVE  /\ pub[p].pc \in {"idle", "wait", "after", "receipt", "publish", "fan", "write", "mark"}
               /\ pub[p].kind \in Kinds
               /\ pub[p].targets \subseteq Viewer /\ pub[p].to \subseteq Viewer
               /\ \A i \in DOMAIN pub[p].todo : pub[p].todo[i] \in 1..latest
    <3>1. pub[p] \in PublisherState /\ \A i \in 1..Len(pub[p].todo) : pub[p].todo[i] > 0 /\ pub[p].todo[i] <= latest
        BY Zenon, <1>1 DEF StreamInv, StreamShape, GoodPub
    <3>2. pub[p].todo \in Seq(Nat)
        BY Zenon, <3>1 DEF PublisherState
    <3>3. DOMAIN pub[p].todo = 1..Len(pub[p].todo) /\ \A i \in DOMAIN pub[p].todo : pub[p].todo[i] \in Nat
        BY <3>2
    <3>4. \A i \in DOMAIN pub[p].todo : pub[p].todo[i] \in 1..latest
        BY <2>0, <3>1, <3>3
    <3> QED
        BY Zenon, <3>1, <3>4 DEF PublisherState
  <2>3. ASSUME NEW c \in Viewer
        PROVE  /\ view[c].pc \in {"new", "tail", "replay", "rows", "finish", "live", "closed"}
               /\ view[c].replaying \in BOOLEAN
               /\ view[c].lastSeq \in 0..latest /\ view[c].first \in 0..latest
               /\ Len(view[c].buffered) <= MaxBuffered
               /\ view[c].ephemeral # 0 =>
                     /\ view[c].ephemeral \in DOMAIN view[c].buffered
                     /\ view[c].buffered[view[c].ephemeral] = 0
    <3>1. view[c] \in ViewState /\ GoodView(view[c], latest)
        BY Zenon, <1>1, ShapeOf
    <3>2. DOMAIN view[c].buffered = 1..Len(view[c].buffered)
      <4>1. view[c].buffered \in Seq(Nat)
          BY Zenon, <3>1 DEF ViewState
      <4> QED
          BY Zenon, <4>1, SeqIsFunction
    <3>3. view[c].lastSeq \in 0..latest /\ view[c].first \in 0..latest
        BY <2>0, <3>1 DEF ViewState, GoodView
    <3>4. view[c].pc \in {"new", "tail", "replay", "rows", "finish", "live", "closed"} /\ view[c].replaying \in BOOLEAN
        BY Zenon, <3>1 DEF ViewState
    <3> QED
        BY Zenon, <3>1, <3>2, <3>3, <3>4 DEF GoodView
  <2> QED
      BY Zenon, <2>0, <2>1, <2>2, <2>3 DEF StreamTypeOK
<1> QED
    BY <1>1, StreamInvariant, PTL
=============================================================================
