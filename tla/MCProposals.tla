---------------------------- MODULE MCProposals ----------------------------
(* Small instances of Proposals for TLC. *)
EXTENDS Proposals

CONSTANTS c1, c2, c3

\* Two acceptances and a submission may meet.
ThreeSlots == {c1, c2, c3}
=============================================================================
