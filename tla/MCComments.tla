----------------------------- MODULE MCComments -----------------------------
(* Small instances of Comments.                                             *)
EXTENDS Comments

CONSTANTS a1, a2, r1, r2
=============================================================================
