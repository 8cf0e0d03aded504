----------------------------- MODULE MCProcess -----------------------------
(***************************************************************************)
(* Small instances of the process-backed kernel.  The agents are a (a      *)
(* producer or a parent), b (its consumer or its child) and d (a           *)
(* competitor for the quota).                                              *)
(***************************************************************************)
EXTENDS ProcessProps

CONSTANTS w1, w2, c1, a, b, d, p1, p2

MCThreads == Workers \cup Callers

\* Workers run the same code, and so do processes; used where no liveness is
\* checked.
PoolSymmetry == Permutations(Workers) \cup Permutations(OsPids)

Alone == [x \in Agents |-> NoAgent]
AtoB == [x \in Agents |-> IF x = a THEN b ELSE NoAgent]
BfromA == [x \in Agents |-> IF x = b THEN a ELSE NoAgent]

Plain == [x \in Agents |-> "plain"]
FirstReact == [x \in Agents |-> IF x = a THEN "react" ELSE "plain"]
=============================================================================
