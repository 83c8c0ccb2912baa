---------------------------- MODULE MCDecisions ----------------------------
(* Instances of Decisions for TLC.                                         *)
EXTENDS Decisions

(* All CCUs hold the exchanged seed.                                       *)
SharedSeed == [u \in CCUs |-> "s1"]

(* One CCU holds a seed of its own.                                        *)
OddSeed == [u \in CCUs |-> IF u = CHOOSE v \in CCUs : TRUE THEN "s1" ELSE "s2"]

(* Consenting patients of 30, whose files give no sum.         *)
ThirtyYears ==
    [d \in Docs |-> [f \in Fields |->
        CASE f = "Age" -> 30 [] f = "ConsentFormSigned" -> TRUE [] OTHER -> 0]]

Symmetry == Permutations(Docs)

(* What a step, its fairness and RequestReturns depend on: the histories,  *)
(* and what was read, decide nothing a handler does next.                  *)
LiveView == <<ipfsVars, pc, log, doc, prev, cid, slow, begun, request>>
=============================================================================
