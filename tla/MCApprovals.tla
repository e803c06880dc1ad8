----------------------------- MODULE MCApprovals -----------------------------
(* Small instances of Approvals: two devices that print the same job, a     *)
(* delete or keep that competes with them, and the admin console.           *)
EXTENDS Approvals, TLC

CONSTANTS h1, h2, main, pA, pB, pl, del, adm, jx, jl

\* jx: a job of the Pi.  jl: a job a device made for itself.
MCJobOf ==
  [a \in Approvals |-> IF a = pl THEN jl ELSE jx]

MCActionOf ==
  [a \in Approvals |->
     CASE a \in {pA, pB, pl, adm} -> "print" [] a = del -> "delete"]

\* Request threads are interchangeable, and so are the two devices' prints.
InstanceSymmetry == Permutations({h1, h2}) \union Permutations({pA, pB})
=============================================================================
