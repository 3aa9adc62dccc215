---------------------------- MODULE AtLeastOnce ----------------------------
(***************************************************************************)
(* What pg_tide promises to the users of one (relay group, pipeline,       *)
(* outbox) triple, with every mechanism removed: an ordered at-least-once  *)
(* channel.  ADR-011 and ADR-012 state it as "a source checkpoint may      *)
(* advance only after everything below it has a durable terminal           *)
(* disposition".  OutboxRelay implements this specification.               *)
(***************************************************************************)
EXTENDS Integers

VARIABLES
    sent,       \* ids of the events whose publishing transaction committed
    disposed,   \* ids the sink acknowledged or the dead-letter queue holds
    frontier    \* the durable checkpoint: the relay will not look below it

vars == <<sent, disposed, frontier>>

Init ==
    /\ sent = {}
    /\ disposed = {}
    /\ frontier = 0

\* A transaction commits events.  None of them may be born behind the
\* checkpoint, whatever order the transactions took their ids in.
Send ==
    /\ sent \subseteq sent'
    /\ \A id \in sent' \ sent : id > frontier
    /\ UNCHANGED <<disposed, frontier>>

\* Events reach a terminal disposition: only committed ones, again and again
\* if need be.
Dispose ==
    /\ disposed \subseteq disposed'
    /\ disposed' \subseteq sent
    /\ UNCHANGED <<sent, frontier>>

\* The checkpoint moves forward over disposed events only.
Advance ==
    /\ frontier' > frontier
    /\ \A id \in sent : id <= frontier' => id \in disposed
    /\ UNCHANGED <<sent, disposed>>

\* An operator asks for events to be delivered once more.
Rewind ==
    /\ frontier' < frontier
    /\ UNCHANGED <<sent, disposed>>

Next == Send \/ Dispose \/ Advance \/ Rewind

Spec == Init /\ [][Next]_vars

=============================================================================
