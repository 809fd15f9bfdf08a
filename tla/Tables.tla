------------------------------- MODULE Tables -------------------------------
(***************************************************************************)
(* What the modules of the services share: a table is a function from the  *)
(* keys its rows may have, and a key without a row, like a column that is  *)
(* NULL, is Absent.                                                        *)
(***************************************************************************)
EXTENDS Integers, FiniteSets

CONSTANT Absent

OrAbsent(S) == S \cup {Absent}

\* The keys that have a row.
Rows(table) == {k \in DOMAIN table : table[k] # Absent}
=============================================================================
