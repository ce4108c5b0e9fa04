---------------------------- MODULE LedgerSession ----------------------------
(***************************************************************************)
(* What the settings, run-control and file-reference ledgers of a session  *)
(* have in common: the Adapter that may write to them, the connections the *)
(* Hub serves, and the session's event log.                                *)
(*                                                                         *)
(* A writer is the tuple of connection epoch, credential generation and    *)
(* lease that a hello produces.  Every accepted hello makes a new one, so  *)
(* it is the number of that hello.  Module AdapterConnection shows how the *)
(* rows behind `live' come about; here a hello and its registration in the *)
(* Hub are one step, because every ledger call checks the live writer      *)
(* again in its own transaction.                                           *)
(***************************************************************************)
EXTENDS Integers, Sequences

CONSTANTS
    MaxWriter,      \* bound on accepted hellos
    MaxLog          \* bound on the log

ASSUME LedgerBounds == MaxWriter \in Nat /\ MaxLog \in Nat

VARIABLES
    live,           \* session_settings_live_writers: the last accepted hello, or 0
    authorised,     \* the credential is neither expired nor revoked, the session not ended
    registered,     \* h.adapters: the writer commands are sent to, or 0
    open,           \* writers whose socket is still read
    log             \* session_events

sessionVars == <<live, authorised, registered, open, log>>

Writers == 1..MaxWriter

Room(n) == Len(log) + n <= MaxLog

SessionInit ==
    /\ live = 0
    /\ authorised = TRUE
    /\ registered = 0
    /\ open = {}

SessionTypeOK ==
    /\ live \in 0..MaxWriter
    /\ authorised \in BOOLEAN
    /\ open \subseteq 1..live
    /\ registered \in {0} \cup open
    /\ Room(0)

\* lockCommandAuthority and validateLiveSettingsWriter.
Live(w) == w > 0 /\ w = live /\ authorised

\* validateAdapter: what an Adapter's own frames need, beside its effectMu.
CanEffect(w) == Live(w) /\ registered = w

LastEvent(P(_)) ==
    LET hits == {i \in DOMAIN log : P(log[i])}
    IN  IF hits = {} THEN 0 ELSE CHOOSE i \in hits : \A j \in hits : j <= i

-----------------------------------------------------------------------------
\* An accepted hello replaces the writer.  What it does to the ledgers, and to the
\* log, is up to each ledger.
acceptHello ==
    /\ authorised
    /\ live < MaxWriter
    /\ live' = live + 1
    /\ registered' = live + 1
    /\ open' = open \cup {live + 1}
    /\ UNCHANGED authorised

\* unregisterAdapter: commands are no longer sent to w; its socket stays.
unregister(w) == registered' = IF registered = w THEN 0 ELSE registered

\* Mutant: the read loop ends without unregisterAdapter.
dropStillRegistered(w) ==
    /\ w \in open
    /\ open' = open \ {w}
    /\ UNCHANGED <<live, authorised, registered, log>>

\* The read loop of w ends.
dropConnection(w) ==
    /\ w \in open
    /\ open' = open \ {w}
    /\ unregister(w)
    /\ UNCHANGED <<live, authorised, log>>

\* The Hub process dies; the store keeps its rows.
crashHub ==
    /\ registered' = 0
    /\ open' = {}
    /\ UNCHANGED <<live, authorised, log>>

\* The credential expires, or an event of a terminal state revokes it.
lapse ==
    /\ authorised
    /\ authorised' = FALSE
    /\ UNCHANGED <<live, registered, open, log>>

=============================================================================
