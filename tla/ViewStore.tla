----------------------------- MODULE ViewStore -----------------------------
(***************************************************************************)
(* What a store of immutable views promises to those who read from it,      *)
(* whatever it does with disks, reference counts, ages and budgets: a lease *)
(* is granted only on a complete view, a view stays while anyone holds a    *)
(* lease on it, and a restart ends every lease without taking away what was *)
(* in use at that moment.                                                   *)
(***************************************************************************)
CONSTANTS
    Views,       \* snapshot keys
    Owners,      \* those who may hold one lease each
    NoView       \* what an owner without a lease holds

VARIABLES
    avail,       \* the complete views the store offers
    held         \* the view each owner has a lease on

vars == <<avail, held>>

TypeOK ==
    /\ avail \subseteq Views
    /\ held \in [Owners -> Views \cup {NoView}]

InUse == {v \in Views : \E o \in Owners : held[o] = v}

Init ==
    /\ avail = {}
    /\ held = [o \in Owners |-> NoView]

\* SnapshotReader and Lease: an owner obtains a complete view, and gives it back.
Lease(o, v) ==
    /\ held[o] = NoView
    /\ v \in avail
    /\ held' = [held EXCEPT ![o] = v]
    /\ UNCHANGED avail

Return(o) ==
    /\ held[o] # NoView
    /\ held' = [held EXCEPT ![o] = NoView]
    /\ UNCHANGED avail

\* Views are published, collected or lost, never one that is in use.
Restock ==
    \E stock \in SUBSET Views :
        /\ InUse \subseteq stock
        /\ avail' = stock
        /\ UNCHANGED held

\* The owning process ends; what was in use outlives it.
Restart ==
    \E stock \in SUBSET Views :
        /\ InUse \subseteq stock
        /\ avail' = stock
        /\ held' = [o \in Owners |-> NoView]

Next ==
    \/ \E o \in Owners : Return(o) \/ \E v \in Views : Lease(o, v)
    \/ Restock
    \/ Restart

Spec == Init /\ [][Next]_vars

=============================================================================
