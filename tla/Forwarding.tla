----------------------------- MODULE Forwarding -----------------------------
(***************************************************************************)
(* What a store-and-forward transport promises its publisher: an accepted  *)
(* event may reach the sink any number of times, and it is given up only   *)
(* after it reached the sink or the dead-letter topic.                     *)
(***************************************************************************)
CONSTANT Event

VARIABLES
    accepted,   \* events whose publish has committed
    delivered,  \* events the sink has received at least once
    parked,     \* events the dead-letter topic has received at least once
    retired     \* accepted events the transport no longer works on

fvars == <<accepted, delivered, parked, retired>>

FInit ==
    /\ accepted = {}
    /\ delivered = {}
    /\ parked = {}
    /\ retired = {}

Accept(e) ==
    /\ e \notin accepted
    /\ accepted' = accepted \cup {e}
    /\ UNCHANGED <<delivered, parked, retired>>

Deliver(e) ==
    /\ e \in accepted
    /\ delivered' = delivered \cup {e}
    /\ UNCHANGED <<accepted, parked, retired>>

Park(e) ==
    /\ e \in accepted
    /\ parked' = parked \cup {e}
    /\ UNCHANGED <<accepted, delivered, retired>>

Retire(e) ==
    /\ e \in (delivered \cup parked) \ retired
    /\ retired' = retired \cup {e}
    /\ UNCHANGED <<accepted, delivered, parked>>

FNext == \E e \in Event : Accept(e) \/ Deliver(e) \/ Park(e) \/ Retire(e)

FSpec == FInit /\ [][FNext]_fvars
=============================================================================
