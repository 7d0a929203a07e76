------------------------- MODULE MCOutboundDelivery -------------------------
(* Small instances of OutboundDelivery.                                     *)
EXTENDS OutboundDelivery, TLC

\* Pollers, and callers, are only compared with one another.
Symmetry == Permutations(Pollers) \cup Permutations(Callers)

=============================================================================
