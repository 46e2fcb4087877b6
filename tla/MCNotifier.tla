----------------------------- MODULE MCNotifier -----------------------------
(* Model values for the consumer-group members; the members are            *)
(* interchangeable, so their permutations are a symmetry.                  *)
EXTENDS Notifier, TLC

CONSTANTS n1, n2

MCMember == {n1, n2}

MemberSymmetry == Permutations(MCMember)

=============================================================================
