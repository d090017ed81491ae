------------------------------- MODULE MCKeys -------------------------------
(***************************************************************************)
(* Small instances of Keys for TLC: two keys of one name and one of        *)
(* another, and a command that revokes each name.                          *)
(***************************************************************************)
EXTENDS Keys

CONSTANTS c1, c2, c3, r1, r2

TwoNames == [c \in Commands |-> IF c \in {c1, c2, r1} THEN "n" ELSE "m"]
=============================================================================
