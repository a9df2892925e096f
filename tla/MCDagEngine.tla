----------------------------- MODULE MCDagEngine -----------------------------
(***************************************************************************)
(* Workflow shapes for the engine: a set of nodes and a sequence of edges  *)
(* per question.                                                           *)
(***************************************************************************)
EXTENDS DagEngine

Plain(a, b) == [src |-> a, dst |-> b, handle |-> "none"]
On(a, b, h) == [src |-> a, dst |-> b, handle |-> h]

\* An IF and a plain root: the branches of the IF meet again below the root, so
\* the join has live, dead and late parents, and the root has two children.
FlowNodes == {"i", "s", "t", "f", "u", "m"}
FlowEdges == <<On("i", "t", "true"), On("i", "f", "false"), Plain("t", "m"),
               Plain("f", "m"), Plain("s", "u"), Plain("s", "m")>>

\* A root whose child fails over to the handler they share, and a wait below that:
\* rejections climb through parents whose rows said SUCCESS, into both catch blocks.
RecoverNodes == {"r", "c", "h", "w"}
RecoverEdges == <<Plain("r", "c"), On("r", "h", "error"), On("c", "h", "error"), Plain("h", "w")>>

\* A wait between two nodes.
WaitNodes == {"r", "w", "a"}
WaitEdges == <<Plain("r", "w"), Plain("w", "a")>>

=============================================================================
