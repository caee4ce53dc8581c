----------------------------- MODULE MCDesktop -----------------------------
(* Instances of Desktop for TLC. *)
EXTENDS Desktop, TLC

CONSTANTS appA, appB

\* Settings files: auto-lock on or off, on with another dummy mode; no
\* other file than the defaults.
OnOrOff == {NoSettings, [delay |-> 10, dummy |-> "off"]}
WithDummy == {NoSettings, [delay |-> 10, dummy |-> "on"]}
JustOff == {NoSettings}

\* The names are interchangeable (runs that check invariants only).
NameSymmetry == Permutations(Names)
=============================================================================
