------------------------------ MODULE MCPull ------------------------------
(***************************************************************************)
(* A small instance of Pull for TLC.                                       *)
(***************************************************************************)
EXTENDS Pull, TLC

CONSTANTS f1, f2, a, b, old, new

\* The files of the old revision have the same bytes, so that one partial download
\* serves both; the new one has other bytes for the first and no second file.
Entries == old :> (f1 :> a @@ f2 :> a) @@ new :> (f1 :> b)

===========================================================================
