------------------------------ MODULE MCRoster ------------------------------
(* Small instances of Roster. *)
EXTENDS Roster

CONSTANTS alice, bob, a1, b1

\* alice has the session a1, bob has b1.
Owners == [s \in Session |-> IF s = b1 THEN bob ELSE alice]

\* Each about the other.
EachOther == [s \in Session |-> IF s = b1 THEN {alice} ELSE {bob}]

\* What the stored rows depend on: no handler writes a row by what a client was
\* sent, so states that differ in the other variables only have the same futures
\* of these two.
Rows == <<db, pending>>
=============================================================================
