---------------------------- MODULE SpanDelivery ----------------------------
(***************************************************************************)
(* What the ingestion pipeline promises, without saying how: accepted      *)
(* entries are taken in order, and one is forgotten only when it can be    *)
(* queried or has been refused.                                            *)
(***************************************************************************)
EXTENDS Integers, Sequences

CONSTANT Span

VARIABLES
    accepted,   \* the entries taken from clients, in order
    taken,      \* how many of them the writer has been handed
    owed,       \* the entries handed out and not yet settled
    readable,   \* the spans a query finds with all their bodies
    refused     \* the entries given up on

vars == <<accepted, taken, owed, readable, refused>>

Init ==
    /\ accepted = << >> /\ taken = 0 /\ owed = {}
    /\ readable \subseteq Span /\ refused = {}

Accept ==
    /\ \E s \in Span : accepted' = Append(accepted, s)
    /\ UNCHANGED <<taken, owed, readable, refused>>

Take ==
    /\ \E n \in taken .. Len(accepted) :
          /\ taken' = n
          /\ owed' = owed \cup ((taken + 1) .. n)
    /\ UNCHANGED <<accepted, readable, refused>>

\* Rows become visible, and never vanish.
Store ==
    /\ readable \subseteq readable'
    /\ readable' \subseteq Span
    /\ UNCHANGED <<accepted, taken, owed, refused>>

\* Only an entry still owed can be given up.
Refuse ==
    /\ \E i \in owed : refused' = refused \cup {i}
    /\ UNCHANGED <<accepted, taken, owed, readable>>

Settle ==
    /\ \E done \in SUBSET owed :
          /\ \A i \in done : accepted[i] \in readable \/ i \in refused
          /\ owed' = owed \ done
    /\ UNCHANGED <<accepted, taken, readable, refused>>

Next == Accept \/ Take \/ Store \/ Refuse \/ Settle

Spec == Init /\ [][Next]_vars
=============================================================================
