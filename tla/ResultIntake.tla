---------------------------- MODULE ResultIntake ----------------------------
(***************************************************************************)
(* What a collector of check results promises to those who report them,    *)
(* whatever buffers, goroutines and retries it is made of: a result that   *)
(* was accepted is held until it is delivered, it is delivered as long as  *)
(* the collector stays open, and it may be delivered more than once.  A    *)
(* result that comes after Close is held but perhaps never delivered.      *)
(***************************************************************************)
CONSTANT Items \* what a result is about

VARIABLES
    accepted,  \* items that were ever reported
    held,      \* items with a result that is still to be delivered
    delivered, \* items of which a result has been delivered
    open       \* Close has not been called

intakeVars == <<accepted, held, delivered, open>>

\* A report about an item that has been delivered may be ignored.
Accept(i) ==
    /\ accepted' = accepted \cup {i}
    /\ held' = IF i \in delivered THEN held ELSE held \cup {i}
    /\ UNCHANGED <<delivered, open>>

\* Results of B are delivered; K is what is not held any more.  An item of B stays
\* held when a second result about it is.
Deliver(B) ==
    /\ B \subseteq held
    /\ delivered' = delivered \cup B
    /\ \E K \in SUBSET B : held' = held \ K
    /\ UNCHANGED <<accepted, open>>

Close == open /\ open' = FALSE /\ UNCHANGED <<accepted, held, delivered>>

IntakeInit == accepted = {} /\ held = {} /\ delivered = {} /\ open = TRUE

IntakeNext ==
    \/ \E i \in Items : Accept(i)
    \/ \E B \in SUBSET Items : Deliver(B)
    \/ Close

IntakeSafe == IntakeInit /\ [][IntakeNext]_intakeVars

\* An item that is held does not stay undelivered while the collector is open.
IntakeFairness ==
    \A i \in Items :
        WF_intakeVars(open /\ i \notin delivered /\ \E B \in SUBSET Items : i \in B /\ Deliver(B))

IntakeSpec == IntakeSafe /\ IntakeFairness
=============================================================================
