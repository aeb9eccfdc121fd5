------------------------------ MODULE Pointers ------------------------------
(* What a pointer may hold that is not the address of an object.           *)
CONSTANTS
  NULL,
  Junk          \* what is in memory nobody has written, or somebody else has

ASSUME PointersAssumption == NULL # Junk
=============================================================================
