------------------------------ MODULE MCKernel ------------------------------
(***************************************************************************)
(* Small instances of the kernel.  The agents are a (a producer, or the    *)
(* root of a family), b (its consumer, or its child) and d (a second       *)
(* producer, or the grandchild).                                           *)
(***************************************************************************)
EXTENDS KernelProps

CONSTANTS w1, w2, c1, c2, a, b, d

MCThreads == Workers \cup Callers

\* Workers run the same code; used where no liveness is checked.
WorkerSymmetry == Permutations(Workers)

\* Wirings: every agent on its own; a feeds b; a and d both feed b.
Alone == [x \in Agents |-> NoAgent]
AtoB == [x \in Agents |-> IF x = a THEN b ELSE NoAgent]
BfromA == [x \in Agents |-> IF x = b THEN a ELSE NoAgent]
FanIn == [x \in Agents |-> IF x = b THEN NoAgent ELSE b]

\* Families: b under a; the chain a, b, d.
Family == [x \in Agents |-> IF x = b THEN a ELSE NoAgent]
Chain == [x \in Agents |-> CASE x = b -> a [] x = d -> b [] OTHER -> NoAgent]

\* Step runners: all plain; a multi-step, the others plain; b a coder.
Plain == [x \in Agents |-> "plain"]
FirstReact == [x \in Agents |-> IF x = a THEN "react" ELSE "plain"]
ReactAndCoder ==
    [x \in Agents |-> CASE x = a -> "react" [] x = b -> "coder" [] OTHER -> "plain"]
=============================================================================
