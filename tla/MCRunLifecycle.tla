---------------------------- MODULE MCRunLifecycle ----------------------------
(* Small instances of RunLifecycle for TLC. *)
EXTENDS RunLifecycle, TLC

CONSTANTS r1, r2, a1, a2, q1, q2

MCDowngrade == [r \in {r1} |-> "plan_downgrade"]
MCReadOnly  == [r \in {r1} |-> "read_only"]

\* Calls of the API are interchangeable.
RequestSymmetry == Permutations(Requests)

\* So are the identities of approval requests.
ApprovalSymmetry == Permutations(Approvals)
=============================================================================
