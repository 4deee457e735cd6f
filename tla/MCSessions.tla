----------------------------- MODULE MCSessions -----------------------------
(* Instances of TrackerSessions for TLC. *)
EXTENDS TrackerSessions, TLC

\* Groups, connections and addresses are never compared by order.
Symmetry == Permutations(Connection)

=============================================================================
