----------------------------- MODULE MCAuditChain -----------------------------
(* Small instances of AuditChain for TLC. *)
EXTENDS AuditChain, TLC

CONSTANTS p1, p2, w1, w2, w3, s1

MCOneProcess   == [w \in {w1, w2, w3} |-> p1]
MCTwoProcesses == (w1 :> p1) @@ (w2 :> p1) @@ (w3 :> p2)
=============================================================================
