--------------------------- MODULE MCManagedLines ---------------------------
(* One line and two administrators. *)
EXTENDS ManagedLines

CONSTANTS a1, a2
=============================================================================
