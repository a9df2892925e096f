------------------------- MODULE MCExecutionLifecycle -------------------------
(* Small instances of ExecutionLifecycle. *)
EXTENDS ExecutionLifecycle

OneFlow   == {"main"}
TwoFlows  == {"main", "onerror"}
LimitOne  == [f \in OneFlow |-> 1]
MainLimit == [f \in TwoFlows |-> IF f = "main" THEN 1 ELSE 0]
NoLimit1  == [f \in OneFlow |-> 0]
NoError   == [f \in OneFlow |-> "none"]
WithError == [f \in TwoFlows |-> IF f = "main" THEN "onerror" ELSE "none"]
=============================================================================
