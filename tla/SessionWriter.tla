--------------------------- MODULE SessionWriter ---------------------------
(***************************************************************************)
(* What the Hub and the store promise about the Adapters of a Session,     *)
(* without epochs, fences, grants or databases: at any time at most one    *)
(* connected holder speaks for a Session, and a holder that has been       *)
(* superseded, rotated away, expired or closed is benched for good: while  *)
(* it stays connected it never speaks again.  AdapterConnection implements *)
(* this specification.                                                     *)
(***************************************************************************)
CONSTANTS Session, Lease

VARIABLES
    speakers,   \* the leases that may speak for each Session
    benched     \* leases still connected that may not speak any more

handover == <<speakers, benched>>

Quiet ==
    /\ speakers = [s \in Session |-> {}]
    /\ benched = {}

\* A holder that is not benched starts to speak for a silent Session.
Speak(s, l) ==
    /\ speakers[s] = {} /\ l \notin benched
    /\ speakers' = [speakers EXCEPT ![s] = {l}]
    /\ UNCHANGED benched

\* Speakers may stop, staying on the bench or leaving; others may leave the
\* bench, and holders that never got to speak may join it.
Stop ==
    /\ speakers' \in [Session -> SUBSET Lease]
    /\ \A s \in Session : speakers'[s] \subseteq speakers[s] \ benched'
    /\ benched' \subseteq Lease

Handover == (\E s \in Session, l \in Lease : Speak(s, l)) \/ Stop

HandoverSpec == Quiet /\ [][Handover]_handover
=============================================================================
