--------------------------- MODULE DagEngineProofs ---------------------------
(***************************************************************************)
(* Theorems about the workflow engine, for every workflow, every number of *)
(* executions and every form of output.                                    *)
(***************************************************************************)
EXTENDS DagEngine, SequenceTheorems, FiniteSetTheorems, TLAPS

\* Edges join nodes, and parents, children and error children are nodes.
LEMMA GraphFacts ==
  /\ \A i \in Indices : EdgeSeq[i].src \in Nodes /\ EdgeSeq[i].dst \in Nodes
  /\ \A n \in Nodes : Parents[n] \subseteq Nodes /\ ErrorChildren[n] \subseteq Nodes
  /\ \A n, c \in Nodes : c \in ErrorChildren[n] => n \in Parents[c]
  /\ \A i \in Indices : EdgeSeq[i].src \in Parents[EdgeSeq[i].dst]
  /\ Roots = {n \in Nodes : Parents[n] = {}}
<1>1. \A i \in Indices : EdgeSeq[i].src \in Nodes /\ EdgeSeq[i].dst \in Nodes
  <2>1. \A i \in Indices : EdgeSeq[i] \in [src : Nodes, dst : Nodes, handle : Handles]
    <3>1. EdgeSeq \in Seq([src : Nodes, dst : Nodes, handle : Handles])
      BY WorkflowAssumption
    <3> QED BY <3>1, ElementOfSeq DEF Indices
  <2> QED BY <2>1
<1> QED
  BY <1>1 DEF Parents, ErrorChildren, Roots

\* What cascadeSkip does to a nodeStatus: pending nodes may become skipped,
\* and nothing else changes.
LEMMA SkipFacts ==
  ASSUME NEW st \in [Nodes -> Statuses], NEW S
  PROVE  /\ Skip(st, S) \in [Nodes -> Statuses]
         /\ \A n \in Nodes : \/ Skip(st, S)[n] = st[n]
                             \/ st[n] = "pending" /\ Skip(st, S)[n] = "skipped"
<1>1. Cascade(st, S) \subseteq {n \in Nodes : st[n] = "pending"}
  BY DEF Cascade
<1> QED
  BY <1>1 DEF Skip, Statuses

\* Skipping from more nodes skips more.
LEMMA SkipMonotone ==
  ASSUME NEW st \in [Nodes -> Statuses], NEW S, NEW S2, S \subseteq S2, NEW n \in Nodes,
         Skip(st, S)[n] = "skipped"
  PROVE  Skip(st, S2)[n] = "skipped"
<1>1. CASE st[n] = "skipped"
  BY <1>1, SkipFacts
<1>2. CASE st[n] # "skipped"
  <2>1. S # {} /\ n \in Cascade(st, S)
    BY <1>2 DEF Skip
  <2>2. Cascade(st, S) \subseteq Cascade(st, S2)
    BY DEF Cascade
  <2> QED
    BY <2>1, <2>2 DEF Skip
<1> QED
  BY <1>1, <1>2

\* The row a continuation adds.
LEMMA ContinueType ==
  ASSUME TypeOK, NEW x \in Execs, Continue(x)
  PROVE  phase' \in [Execs -> Phases] /\ prior' \in [Execs -> Execs \cup {0}]
<1>1. CASE UNCHANGED <<phase, prior>>
  BY <1>1 DEF TypeOK
<1>2. ASSUME NEW y \in Execs, phase' = [phase EXCEPT ![y] = "PENDING"],
             prior' = [prior EXCEPT ![y] = x]
      PROVE  phase' \in [Execs -> Phases] /\ prior' \in [Execs -> Execs \cup {0}]
  BY <1>2 DEF TypeOK, Phases
<1> QED
  BY <1>1, <1>2 DEF Continue

-----------------------------------------------------------------------------
\* The engine's variables keep their types.
THEOREM TypeCorrect == Spec => []TypeOK
<1>1. Init => TypeOK
  BY WorkflowAssumption DEF Init, TypeOK, Phases, Statuses, Stages, Forms
<1>2. TypeOK /\ [Next]_vars => TypeOK'
  <2> SUFFICES ASSUME TypeOK, [Next]_vars PROVE TypeOK'
    OBVIOUS
  <2> USE DEF TypeOK
  <2>1. ASSUME NEW x \in Execs, Start(x) PROVE TypeOK'
    <3>1. Restored(x) \subseteq Nodes
      BY DEF Restored
    <3>2. ASSUME NEW n \in Restored(x) PROVE Summary(out[prior[x]][n]) \in Forms
      <4>1. prior[x] \in Execs /\ n \in Nodes
        BY <3>2 DEF Restored
      <4> QED BY <4>1 DEF Summary, Forms
    <3>3. out' \in [Execs -> [Nodes -> Forms]]
      BY <2>1, <3>2 DEF Start, Forms
    <3> QED BY <2>1, <3>3 DEF Start, Phases, Statuses, Stages
  <2>2. ASSUME NEW x \in Execs, NEW n \in Nodes, NodeStep(x, n) PROVE TypeOK'
    <3>1. CASE Gather(x, n)
      <4> DEFINE lost == {p \in inputs[x][n] : out[x][p] = "spilled" /\ p \notin files[x]}
                 self == {p \in inputs[x][n] : inputs[x][n] = {p} /\ out[x][p] # "spilled"}
      <4>1. self \subseteq Nodes
        OBVIOUS
      <4>2. CASE lost # {}
        <5>1. /\ pc' = [pc EXCEPT ![x][n] = "rejected"]
              /\ UNCHANGED <<phase, prior, status, inputs, kids, out, verdict, cyclic, tainted,
                            log, files>>
          BY <3>1, <4>2 DEF Gather
        <5>2. pc' \in [Execs -> [Nodes -> Stages]]
          BY <5>1 DEF Stages
        <5> QED BY <5>1, <5>2
      <4>3. CASE lost = {}
        <5>1. /\ pc' = [pc EXCEPT ![x][n] = "starting"]
              /\ status' = [status EXCEPT ![x][n] = "running"]
              /\ cyclic' = [cyclic EXCEPT ![x] = @ \cup self]
              /\ tainted' = IF self = {} THEN tainted ELSE [tainted EXCEPT ![x] = TRUE]
              /\ UNCHANGED <<phase, prior, inputs, kids, out, verdict, log, files>>
          BY <3>1, <4>3 DEF Gather
        <5> HIDE DEF self
        <5>2. pc' \in [Execs -> [Nodes -> Stages]] /\ status' \in [Execs -> [Nodes -> Statuses]]
          BY <5>1 DEF Stages, Statuses
        <5>3. cyclic' \in [Execs -> SUBSET Nodes] /\ tainted' \in [Execs -> BOOLEAN]
          BY <4>1, <5>1
        <5> QED BY <5>1, <5>2, <5>3
      <4> QED BY <4>2, <4>3
    <3>2. CASE Begin(x, n)
      <4>0. PICK p \in {"executing", "rejected"} : pc' = [pc EXCEPT ![x][n] = p]
        BY <3>2 DEF Begin
      <4>1. pc' \in [Execs -> [Nodes -> Stages]]
        BY <4>0 DEF Stages
      <4>2. log' \in [Execs -> [Nodes -> {"none", "RUNNING", "SUCCESS", "ERROR"}]]
        <5>1. log' = log \/ log' = [log EXCEPT ![x][n] = "RUNNING"]
          BY <3>2 DEF Begin
        <5>2. CASE log' = log
          BY <5>2
        <5>3. CASE log' = [log EXCEPT ![x][n] = "RUNNING"]
          BY <5>3
        <5> QED BY <5>1, <5>2, <5>3
      <4> QED BY <3>2, <4>1, <4>2 DEF Begin
    <3>3. CASE ExecuteOk(x, n)
      BY <3>3, WorkflowAssumption DEF ExecuteOk, Statuses, Stages, Forms
    <3>4. CASE ExecuteFails(x, n)
      BY <3>4 DEF ExecuteFails, Statuses, Stages, MayThrow
    <3>5. CASE WaitSignal(x, n)
      <4>1. phase' \in [Execs -> Phases] /\ prior' \in [Execs -> Execs \cup {0}]
        <5>1. CASE UNCHANGED <<phase, prior>>
          BY <5>1
        <5>2. CASE Continue(x)
          BY <5>2, ContinueType
        <5> QED BY <3>5, <5>1, <5>2 DEF WaitSignal
      <4>2. status' \in [Execs -> [Nodes -> Statuses]] /\ out' \in [Execs -> [Nodes -> Forms]]
        BY <3>5 DEF WaitSignal, Statuses, Forms
      <4>3. pc' \in [Execs -> [Nodes -> Stages]]
        <5>1. PICK p \in {"resolved", "rejected"} : pc' = [pc EXCEPT ![x][n] = p]
          BY <3>5 DEF WaitSignal
        <5> QED BY <5>1 DEF Stages
      <4>4. log' \in [Execs -> [Nodes -> {"none", "RUNNING", "SUCCESS", "ERROR"}]]
        <5>1. PICK l \in {"RUNNING", "SUCCESS"} : log' = [log EXCEPT ![x][n] = l]
          BY <3>5 DEF WaitSignal
        <5> QED BY <5>1
      <4> QED BY <3>5, <4>1, <4>2, <4>3, <4>4 DEF WaitSignal
    <3>6. CASE Route(x, n)
      <4> DEFINE h    == ActiveHandle(x, n)
                 next == NextNodes(x, n, h)
                 st   == Skip(status[x], SkippedBefore(n, h, Len(EdgeSeq) + 1))
      <4>1. next \subseteq Nodes
        BY DEF NextNodes
      <4>2. st \in [Nodes -> Statuses]
        <5> DEFINE sb == SkippedBefore(n, h, Len(EdgeSeq) + 1)
        <5>1. status[x] \in [Nodes -> Statuses]
          OBVIOUS
        <5>2. st = Skip(status[x], sb)
          OBVIOUS
        <5> HIDE DEF sb, st
        <5> QED BY <5>1, <5>2, SkipFacts
      <4>3. Launched(x, next) \in [Nodes -> Stages]
        BY DEF Launched, Stages
      <4>4. Gathered(x, next, st) \in [Nodes -> SUBSET Nodes]
        BY GraphFacts DEF Gathered
      <4>5. /\ log' = [log EXCEPT ![x][n] = "SUCCESS"]
            /\ status' = [status EXCEPT ![x] = st]
            /\ inputs' = [inputs EXCEPT ![x] = Gathered(x, next, st)]
            /\ pc' = [pc EXCEPT ![x] = [Launched(x, next) EXCEPT ![n] = "waiting"]]
            /\ kids' = [kids EXCEPT ![x][n] = next]
            /\ UNCHANGED <<phase, prior, out, verdict, cyclic, tainted, files>>
        BY <3>6 DEF Route
      <4> HIDE DEF h, next, st
      <4>6. pc' \in [Execs -> [Nodes -> Stages]]
        BY <4>3, <4>5 DEF Stages
      <4>7. log' \in [Execs -> [Nodes -> {"none", "RUNNING", "SUCCESS", "ERROR"}]]
        BY <4>5
      <4>8. status' \in [Execs -> [Nodes -> Statuses]] /\ inputs' \in [Execs -> [Nodes -> SUBSET Nodes]]
        BY <4>2, <4>4, <4>5
      <4>9. kids' \in [Execs -> [Nodes -> SUBSET Nodes]]
        BY <4>1, <4>5
      <4> QED BY <4>5, <4>6, <4>7, <4>8, <4>9
    <3>7. CASE RouteFails(x, n)
      BY <3>7 DEF RouteFails, Statuses, Stages
    <3>8. CASE KidsDone(x, n)
      BY <3>8 DEF KidsDone, Stages
    <3>9. CASE KidFails(x, n)
      BY <3>9 DEF KidFails, Statuses, Stages
    <3>10. CASE ErrorKidFails(x, n)
      BY <3>10 DEF ErrorKidFails, Stages
    <3>11. CASE Handle(x, n)
      <4> DEFINE st   == [status[x] EXCEPT ![n] = "done"]
                 next == {c \in ErrorChildren[n] : pc[x][c] = "idle" /\ Ready(st, c)}
      <4>1. next \subseteq Nodes /\ st \in [Nodes -> Statuses]
        BY GraphFacts DEF Statuses
      <4>2. Launched(x, next) \in [Nodes -> Stages] /\ Gathered(x, next, st) \in [Nodes -> SUBSET Nodes]
        BY GraphFacts DEF Launched, Gathered, Stages
      <4>3. log' \in [Execs -> [Nodes -> {"none", "RUNNING", "SUCCESS", "ERROR"}]]
        BY <3>11 DEF Handle
      <4>4. CASE HasErrorEdge(n)
        <5>1. /\ status' = [status EXCEPT ![x] = st]
              /\ out' = [out EXCEPT ![x][n] = "inline"]
              /\ cyclic' = [cyclic EXCEPT ![x] = @ \ {n}]
              /\ inputs' = [inputs EXCEPT ![x] = Gathered(x, next, st)]
              /\ pc' = [pc EXCEPT ![x] = [Launched(x, next) EXCEPT ![n] = "errwait"]]
              /\ kids' = [kids EXCEPT ![x][n] = next]
              /\ UNCHANGED <<phase, prior, verdict, tainted, files>>
          BY <3>11, <4>4 DEF Handle
        <5> HIDE DEF st, next
        <5>2. pc' \in [Execs -> [Nodes -> Stages]] /\ out' \in [Execs -> [Nodes -> Forms]]
          BY <4>2, <5>1 DEF Stages, Forms
        <5>3. status' \in [Execs -> [Nodes -> Statuses]] /\ cyclic' \in [Execs -> SUBSET Nodes]
          BY <4>1, <5>1
        <5>4. kids' \in [Execs -> [Nodes -> SUBSET Nodes]] /\ inputs' \in [Execs -> [Nodes -> SUBSET Nodes]]
          BY <4>1, <4>2, <5>1
        <5> QED BY <4>3, <5>1, <5>2, <5>3, <5>4
      <4>5. CASE ~HasErrorEdge(n)
        <5>1. /\ pc' = [pc EXCEPT ![x][n] = "rejected"]
              /\ UNCHANGED <<phase, prior, status, inputs, kids, out, verdict, cyclic, tainted,
                            files>>
          BY <3>11, <4>5 DEF Handle
        <5>2. pc' \in [Execs -> [Nodes -> Stages]]
          BY <5>1 DEF Stages
        <5> QED BY <4>3, <5>1, <5>2
      <4> QED BY <4>4, <4>5
    <3> QED
      BY <2>2, <3>1, <3>2, <3>3, <3>4, <3>5, <3>6, <3>7, <3>8, <3>9, <3>10, <3>11 DEF NodeStep
  <2>3. ASSUME NEW x \in Execs, Finish(x) PROVE TypeOK'
    BY <2>3 DEF Finish, Phases
  <2>4. ASSUME NEW x \in Execs, Timeout(x) PROVE TypeOK'
    BY <2>4 DEF Timeout, Phases
  <2>5. ASSUME NEW x \in Execs, Retry(x) PROVE TypeOK'
    BY <2>5, ContinueType DEF Retry
  <2>6. CASE UNCHANGED vars
    BY <2>6 DEF vars
  <2> QED
    BY <2>1, <2>2, <2>3, <2>4, <2>5, <2>6 DEF Next, WorkerStep
<1> QED
  BY <1>1, <1>2, PTL DEF Spec

-----------------------------------------------------------------------------
(***************************************************************************)
(* Joins and inputs.  The strengthening ties nodeStatus to the launched    *)
(* set: a node that runs, ran or failed is launched, a node about to route *)
(* its output is still done (so the children it launches find it), and an  *)
(* execution that has not started has neither launched nor logged a node.  *)
(***************************************************************************)
StageInv ==
  /\ \A x \in Execs, n \in Nodes :
       status[x][n] \in {"running", "done", "error"} => pc[x][n] # "idle"
  /\ \A x \in Execs, n \in Nodes : pc[x][n] = "stored" => status[x][n] = "done"
  /\ \A x \in Execs : phase[x] \in {"absent", "PENDING"} =>
       \A n \in Nodes : pc[x][n] = "idle" /\ log[x][n] = "none"

JoinInv == StageInv /\ JoinWaits /\ InputsFromParents

\* A step that launches nothing, keeps every skip of a node not launched and
\* takes up no node that was not taken up preserves joins and inputs.
LEMMA QuietStep ==
  ASSUME TypeOK, JoinWaits, InputsFromParents,
         inputs' = inputs,
         \A y \in Execs, m \in Nodes : pc[y][m] # "idle" => pc'[y][m] # "idle",
         \A y \in Execs, m \in Nodes : Taken(y, m)' => Taken(y, m),
         \A y \in Execs, m \in Nodes :
           status[y][m] = "skipped" => status'[y][m] = "skipped" \/ pc'[y][m] # "idle"
  PROVE  JoinWaits' /\ InputsFromParents'
<1>1. JoinWaits'
  <2> SUFFICES ASSUME NEW y \in Execs, NEW m \in Nodes, Taken(y, m)', NEW p \in Parents[m]
               PROVE  pc'[y][p] # "idle" \/ status'[y][p] = "skipped"
    BY DEF JoinWaits
  <2>1. p \in Nodes
    BY GraphFacts
  <2>2. pc[y][p] # "idle" \/ status[y][p] = "skipped"
    BY DEF JoinWaits
  <2> QED BY <2>1, <2>2
<1>2. InputsFromParents'
  <2> SUFFICES ASSUME NEW y \in Execs, NEW m \in Nodes \ Roots, Taken(y, m)'
               PROVE  inputs'[y][m] # {}
    BY DEF InputsFromParents
  <2>1. Taken(y, m)
    OBVIOUS
  <2>2. inputs[y][m] # {}
    BY <2>1 DEF InputsFromParents
  <2> QED BY <2>2
<1> QED
  BY <1>1, <1>2

\* A step of one launched node that only moves it on, with no launch: its
\* stage, its status and its row change, the rest of the engine does not.
LEMMA OneNodeStep ==
  ASSUME TypeOK, JoinInv, NEW x \in Execs, NEW n \in Nodes,
         NEW p \in Stages, NEW s \in Statuses, NEW l,
         pc[x][n] \notin {"idle", "resolved"}, p # "idle",
         p = "stored" => s = "done",
         pc' = [pc EXCEPT ![x][n] = p],
         status' = [status EXCEPT ![x][n] = s],
         log' = [log EXCEPT ![x][n] = l],
         inputs' = inputs,
         \A y \in Execs : phase'[y] \in {"absent", "PENDING"} => phase[y] \in {"absent", "PENDING"}
  PROVE  JoinInv'
<1>1. StageInv'
  <2>1. \A y \in Execs, m \in Nodes :
          status'[y][m] \in {"running", "done", "error"} => pc'[y][m] # "idle"
    BY DEF JoinInv, StageInv, TypeOK
  <2>2. \A y \in Execs, m \in Nodes : pc'[y][m] = "stored" => status'[y][m] = "done"
    BY DEF JoinInv, StageInv, TypeOK
  <2>3. ASSUME NEW y \in Execs, phase'[y] \in {"absent", "PENDING"}, NEW m \in Nodes
        PROVE  pc'[y][m] = "idle" /\ log'[y][m] = "none"
    <3>1. phase[y] \in {"absent", "PENDING"}
      BY <2>3
    <3>2. y # x
      BY <3>1 DEF JoinInv, StageInv
    <3> QED BY <3>1, <3>2 DEF JoinInv, StageInv, TypeOK
  <2> QED BY <2>1, <2>2, <2>3 DEF StageInv
<1>2. \A y \in Execs, m \in Nodes : pc[y][m] # "idle" => pc'[y][m] # "idle"
  BY DEF TypeOK
<1>3. \A y \in Execs, m \in Nodes : Taken(y, m)' => Taken(y, m)
  BY DEF Taken, Seeded, TypeOK
<1>4. \A y \in Execs, m \in Nodes :
        status[y][m] = "skipped" => status'[y][m] = "skipped" \/ pc'[y][m] # "idle"
  BY DEF TypeOK
<1> QED
  BY <1>1, <1>2, <1>3, <1>4, QuietStep DEF JoinInv

\* A step in which the done node n launches the nodes of next, each of them
\* idle, a child of n, with every parent launched or skipped.
LEMMA LaunchStep ==
  ASSUME TypeOK, JoinInv, NEW x \in Execs, NEW n \in Nodes,
         NEW next \in SUBSET Nodes, NEW st \in [Nodes -> Statuses],
         NEW p \in {"waiting", "errwait"}, NEW l \in {"SUCCESS", "ERROR"},
         pc[x][n] \in {"stored", "caught"}, st[n] = "done",
         \A m \in Nodes : \/ st[m] = status[x][m] \/ m = n
                          \/ status[x][m] = "pending" /\ st[m] = "skipped",
         \A c \in next : /\ pc[x][c] = "idle" /\ n \in Parents[c]
                         /\ \A q \in Parents[c] : pc[x][q] # "idle" \/ st[q] = "skipped",
         phase' = phase,
         log' = [log EXCEPT ![x][n] = l],
         status' = [status EXCEPT ![x] = st],
         inputs' = [inputs EXCEPT ![x] = Gathered(x, next, st)],
         pc' = [pc EXCEPT ![x] = [Launched(x, next) EXCEPT ![n] = p]]
  PROVE  JoinInv'
<1>1. \A m \in Nodes : pc'[x][m] = IF m = n THEN p ELSE IF m \in next THEN "gather" ELSE pc[x][m]
  BY DEF Launched, TypeOK
<1>2. \A y \in Execs \ {x} : /\ pc'[y] = pc[y] /\ status'[y] = status[y]
                             /\ inputs'[y] = inputs[y] /\ log'[y] = log[y]
  BY DEF TypeOK
<1>3. status'[x] = st
  BY DEF TypeOK
<1>4. \A m \in Nodes : log'[x][m] = IF m = n THEN l ELSE log[x][m]
  BY DEF TypeOK
<1>5. \A m \in Nodes : inputs'[x][m] =
        IF m \in next THEN {q \in Parents[m] : st[q] = "done"} ELSE inputs[x][m]
  BY DEF Gathered, TypeOK
<1>6. n \notin next
  OBVIOUS
<1>7. StageInv'
  <2>1. ASSUME NEW y \in Execs, NEW m \in Nodes,
               status'[y][m] \in {"running", "done", "error"}
        PROVE  pc'[y][m] # "idle"
    <3>1. CASE y = x
      BY <1>1, <1>3, <2>1, <3>1 DEF JoinInv, StageInv
    <3>2. CASE y # x
      BY <1>2, <2>1, <3>2 DEF JoinInv, StageInv
    <3> QED BY <3>1, <3>2
  <2>2. ASSUME NEW y \in Execs, NEW m \in Nodes, pc'[y][m] = "stored"
        PROVE  status'[y][m] = "done"
    <3>1. CASE y = x
      <4>1. m # n /\ pc[x][m] = "stored"
        BY <1>1, <2>2, <3>1
      <4>2. status[x][m] = "done"
        BY <4>1 DEF JoinInv, StageInv
      <4> QED BY <1>3, <3>1, <4>1, <4>2
    <3>2. CASE y # x
      BY <1>2, <2>2, <3>2 DEF JoinInv, StageInv
    <3> QED BY <3>1, <3>2
  <2>3. ASSUME NEW y \in Execs, phase'[y] \in {"absent", "PENDING"}, NEW m \in Nodes
        PROVE  pc'[y][m] = "idle" /\ log'[y][m] = "none"
    <3>1. y # x
      BY <2>3 DEF JoinInv, StageInv
    <3> QED BY <1>2, <2>3, <3>1 DEF JoinInv, StageInv
  <2> QED BY <2>1, <2>2, <2>3 DEF StageInv
<1>8. ASSUME NEW y \in Execs, NEW m \in Nodes, Taken(y, m)', NEW q \in Parents[m]
      PROVE  pc'[y][q] # "idle" \/ status'[y][q] = "skipped"
  <2>1. q \in Nodes
    BY GraphFacts
  <2>2. CASE y # x
    <3>1. Taken(y, m)
      BY <1>2, <1>8, <2>2 DEF Taken, Seeded
    <3> QED BY <1>2, <2>1, <2>2, <3>1 DEF JoinInv, JoinWaits
  <2>3. CASE y = x /\ m \in next
    BY <1>1, <1>3, <2>1, <2>3
  <2>4. CASE y = x /\ m \notin next
    <3>1. Taken(x, m)
      BY <1>1, <1>4, <1>8, <2>4 DEF Taken, Seeded
    <3>2. pc[x][q] # "idle" \/ status[x][q] = "skipped"
      BY <3>1 DEF JoinInv, JoinWaits
    <3> QED BY <1>1, <1>3, <2>1, <2>4, <3>2
  <2> QED BY <2>2, <2>3, <2>4
<1>9. ASSUME NEW y \in Execs, NEW m \in Nodes \ Roots, Taken(y, m)'
      PROVE  inputs'[y][m] # {}
  <2>1. CASE y # x
    <3>1. Taken(y, m)
      BY <1>2, <1>9, <2>1 DEF Taken, Seeded
    <3> QED BY <1>2, <2>1, <3>1 DEF JoinInv, InputsFromParents
  <2>2. CASE y = x /\ m \in next
    <3>1. n \in {q \in Parents[m] : st[q] = "done"}
      BY <2>2
    <3> QED BY <1>5, <2>2, <3>1
  <2>3. CASE y = x /\ m \notin next
    <3>1. Taken(x, m)
      BY <1>1, <1>4, <1>9, <2>3 DEF Taken, Seeded
    <3>2. inputs[x][m] # {}
      BY <3>1 DEF JoinInv, InputsFromParents
    <3>3. inputs'[x][m] = inputs[x][m]
      BY <1>5, <2>3
    <3> QED BY <2>3, <3>2, <3>3
  <2> QED BY <2>1, <2>2, <2>3
<1> QED
  BY <1>7, <1>8, <1>9 DEF JoinInv, JoinWaits, InputsFromParents

\* The launches of a success: every parent of a next node is launched, was
\* skipped before, or is skipped by this very routing step.
LEMMA RouteStep ==
  ASSUME TypeOK, JoinInv, NEW x \in Execs, NEW n \in Nodes, Route(x, n)
  PROVE  JoinInv'
<1> DEFINE h    == ActiveHandle(x, n)
           next == NextNodes(x, n, h)
           all  == SkippedBefore(n, h, Len(EdgeSeq) + 1)
           st   == Skip(status[x], all)
<1>1. status[x] \in [Nodes -> Statuses]
  BY DEF TypeOK
<1>2. /\ pc[x][n] = "stored"
      /\ log' = [log EXCEPT ![x][n] = "SUCCESS"]
      /\ status' = [status EXCEPT ![x] = st]
      /\ inputs' = [inputs EXCEPT ![x] = Gathered(x, next, st)]
      /\ pc' = [pc EXCEPT ![x] = [Launched(x, next) EXCEPT ![n] = "waiting"]]
      /\ phase' = phase
  BY DEF Route
<1>3. status[x][n] = "done"
  BY <1>2 DEF JoinInv, StageInv
<1>4. ASSUME NEW c \in next
      PROVE  /\ pc[x][c] = "idle" /\ n \in Parents[c]
             /\ \A q \in Parents[c] : pc[x][q] # "idle" \/ st[q] = "skipped"
  <2>1. PICK i \in Indices : /\ EdgeSeq[i].src = n /\ EdgeSeq[i].dst = c
                             /\ pc[x][c] = "idle"
                             /\ Ready(Skip(status[x], SkippedBefore(n, h, i)), c)
    BY <1>4 DEF NextNodes
  <2>2. c \in Nodes
    BY <1>4 DEF NextNodes
  <2> DEFINE before == SkippedBefore(n, h, i)
  <2>3. before \subseteq all
    <3>1. \A k \in Indices : k < Len(EdgeSeq) + 1
      <4>1. Len(EdgeSeq) \in Nat
        BY WorkflowAssumption, LenProperties
      <4> QED BY <4>1 DEF Indices
    <3> QED BY <3>1 DEF SkippedBefore
  <2>4. ASSUME NEW q \in Parents[c] PROVE pc[x][q] # "idle" \/ st[q] = "skipped"
    <3>1. q \in Nodes
      BY <2>2, GraphFacts
    <3>2. Skip(status[x], before)[q] \in {"done", "skipped"}
      BY <2>1 DEF Ready
    <3> HIDE DEF before, all
    <3>3. CASE Skip(status[x], before)[q] = "done"
      <4>1. status[x][q] = "done"
        BY <1>1, <3>1, <3>3, SkipFacts
      <4> QED BY <3>1, <4>1 DEF JoinInv, StageInv
    <3>4. CASE Skip(status[x], before)[q] = "skipped"
      BY <1>1, <2>3, <3>1, <3>4, SkipMonotone
    <3> QED BY <3>2, <3>3, <3>4
  <2> QED BY <2>1, <2>4, GraphFacts
<1>5. next \subseteq Nodes
  BY DEF NextNodes
<1> HIDE DEF next, all
<1>6. st \in [Nodes -> Statuses] /\ st[n] = "done"
  BY <1>1, <1>3, SkipFacts
<1>7. \A m \in Nodes : \/ st[m] = status[x][m]
                       \/ status[x][m] = "pending" /\ st[m] = "skipped"
  BY <1>1, SkipFacts
<1> HIDE DEF st
<1> QED
  BY <1>2, <1>4, <1>5, <1>6, <1>7, LaunchStep

\* The launches of a failure: the failed node counts as done again.
LEMMA HandleStep ==
  ASSUME TypeOK, JoinInv, NEW x \in Execs, NEW n \in Nodes, Handle(x, n)
  PROVE  JoinInv'
<1> DEFINE st   == [status[x] EXCEPT ![n] = "done"]
           next == {c \in ErrorChildren[n] : pc[x][c] = "idle" /\ Ready(st, c)}
<1>1. pc[x][n] = "caught" /\ phase' = phase /\ log' = [log EXCEPT ![x][n] = "ERROR"]
  BY DEF Handle
<1>2. CASE HasErrorEdge(n)
  <2>1. /\ status' = [status EXCEPT ![x] = st]
        /\ inputs' = [inputs EXCEPT ![x] = Gathered(x, next, st)]
        /\ pc' = [pc EXCEPT ![x] = [Launched(x, next) EXCEPT ![n] = "errwait"]]
    BY <1>2 DEF Handle
  <2>2. st \in [Nodes -> Statuses] /\ st[n] = "done"
    BY DEF TypeOK, Statuses
  <2>3. \A m \in Nodes : st[m] = status[x][m] \/ m = n
    BY DEF TypeOK
  <2>4. next \subseteq Nodes
    BY GraphFacts
  <2>5. ASSUME NEW c \in next
        PROVE  /\ pc[x][c] = "idle" /\ n \in Parents[c]
               /\ \A q \in Parents[c] : pc[x][q] # "idle" \/ st[q] = "skipped"
    <3>1. c \in Nodes /\ n \in Parents[c] /\ pc[x][c] = "idle" /\ Ready(st, c)
      BY <2>4, GraphFacts
    <3>2. ASSUME NEW q \in Parents[c] PROVE pc[x][q] # "idle" \/ st[q] = "skipped"
      <4>1. q \in Nodes /\ st[q] \in {"done", "skipped"}
        BY <3>1, GraphFacts DEF Ready
      <4>2. CASE q = n
        BY <1>1, <4>2
      <4>3. CASE q # n
        BY <2>3, <4>1, <4>3 DEF JoinInv, StageInv
      <4> QED BY <4>2, <4>3
    <3> QED BY <3>1, <3>2
  <2> HIDE DEF st, next
  <2>6. /\ pc[x][n] \in {"stored", "caught"}
        /\ \A m \in Nodes : \/ st[m] = status[x][m] \/ m = n
                            \/ status[x][m] = "pending" /\ st[m] = "skipped"
    BY <1>1, <2>3
  <2> QED
    BY <1>1, <2>1, <2>2, <2>4, <2>5, <2>6, LaunchStep
<1>3. CASE ~HasErrorEdge(n)
  <2>1. /\ pc' = [pc EXCEPT ![x][n] = "rejected"]
        /\ status' = [status EXCEPT ![x][n] = status[x][n]]
        /\ inputs' = inputs
    BY <1>3 DEF Handle, TypeOK
  <2>2. status[x][n] \in Statuses /\ "rejected" \in Stages
    BY DEF TypeOK, Stages
  <2> QED
    BY <1>1, <2>1, <2>2, OneNodeStep
<1> QED
  BY <1>2, <1>3

\* A continuation or a retry only turns an absent row PENDING.
LEMMA ContinueRows ==
  ASSUME TypeOK, NEW x \in Execs, Continue(x) \/ UNCHANGED phase
  PROVE  \A y \in Execs : phase'[y] \in {"absent", "PENDING"} => phase[y] \in {"absent", "PENDING"}
  BY DEF Continue, TypeOK

\* Every step of a node preserves joins and inputs.
LEMMA NodeStepJoin ==
  ASSUME TypeOK, JoinInv, NEW x \in Execs, NEW n \in Nodes, NodeStep(x, n)
  PROVE  JoinInv'
<1> DEFINE keep(f) == [f EXCEPT ![x][n] = f[x][n]]
<1>0. /\ pc[x][n] \in Stages /\ status[x][n] \in Statuses
      /\ keep(pc) = pc /\ keep(status) = status /\ keep(log) = log
  BY DEF TypeOK
<1>1. CASE Gather(x, n)
  <2>1. \/ /\ pc' = [pc EXCEPT ![x][n] = "rejected"]
           /\ status' = status
        \/ /\ pc' = [pc EXCEPT ![x][n] = "starting"]
           /\ status' = [status EXCEPT ![x][n] = "running"]
    BY <1>1 DEF Gather
  <2>2. pc[x][n] = "gather" /\ inputs' = inputs /\ log' = keep(log) /\ phase' = phase
    BY <1>0, <1>1 DEF Gather
  <2>3. CASE pc' = [pc EXCEPT ![x][n] = "rejected"] /\ status' = status
    <3>1. /\ pc[x][n] \notin {"idle", "resolved"}
          /\ status' = [status EXCEPT ![x][n] = status[x][n]]
          /\ log' = [log EXCEPT ![x][n] = log[x][n]]
      BY <1>0, <2>2, <2>3
    <3>2. "rejected" \in Stages
      BY DEF Stages
    <3>3. PICK s \in Statuses, l \in {log[x][n]} :
            status' = [status EXCEPT ![x][n] = s] /\ log' = [log EXCEPT ![x][n] = l]
      BY <1>0, <3>1
    <3>4. \A y \in Execs : phase'[y] \in {"absent", "PENDING"} => phase[y] \in {"absent", "PENDING"}
      BY <2>2
    <3>5. /\ pc[x][n] \notin {"idle", "resolved"}
          /\ pc' = [pc EXCEPT ![x][n] = "rejected"] /\ inputs' = inputs
      BY <2>2, <2>3
    <3> QED BY <3>2, <3>3, <3>4, <3>5, OneNodeStep
  <2>4. CASE /\ pc' = [pc EXCEPT ![x][n] = "starting"]
             /\ status' = [status EXCEPT ![x][n] = "running"]
    BY <2>2, <2>4, OneNodeStep DEF Stages, Statuses
  <2> QED BY <2>1, <2>3, <2>4
<1>2. CASE Begin(x, n)
  <2>1. PICK p \in {"executing", "rejected"}, l \in {"RUNNING", log[x][n]} :
          pc' = [pc EXCEPT ![x][n] = p] /\ log' = [log EXCEPT ![x][n] = l]
    BY <1>0, <1>2 DEF Begin
  <2>2. pc[x][n] = "starting" /\ inputs' = inputs /\ status' = keep(status) /\ phase' = phase
    BY <1>0, <1>2 DEF Begin
  <2> QED BY <1>0, <2>1, <2>2, OneNodeStep DEF Stages
<1>3. CASE ExecuteOk(x, n)
  <2>1. /\ pc[x][n] = "executing" /\ inputs' = inputs /\ log' = keep(log) /\ phase' = phase
        /\ pc' = [pc EXCEPT ![x][n] = "stored"] /\ status' = [status EXCEPT ![x][n] = "done"]
    BY <1>0, <1>3 DEF ExecuteOk
  <2> QED BY <2>1, OneNodeStep DEF Stages, Statuses
<1>4. CASE ExecuteFails(x, n) \/ RouteFails(x, n) \/ KidFails(x, n)
  <2>1. /\ pc[x][n] \in {"executing", "stored", "waiting"}
        /\ inputs' = inputs /\ log' = keep(log) /\ phase' = phase
        /\ pc' = [pc EXCEPT ![x][n] = "caught"] /\ status' = [status EXCEPT ![x][n] = "error"]
    BY <1>0, <1>4 DEF ExecuteFails, RouteFails, KidFails
  <2> QED BY <2>1, OneNodeStep DEF Stages, Statuses
<1>5. CASE WaitSignal(x, n)
  <2>1. PICK p \in {"resolved", "rejected"}, l \in {"RUNNING", "SUCCESS"} :
          pc' = [pc EXCEPT ![x][n] = p] /\ log' = [log EXCEPT ![x][n] = l]
    BY <1>5 DEF WaitSignal
  <2>2. /\ pc[x][n] = "executing" /\ inputs' = inputs
        /\ status' = [status EXCEPT ![x][n] = "done"]
    BY <1>5 DEF WaitSignal
  <2>3. Continue(x) \/ UNCHANGED phase
    BY <1>5 DEF WaitSignal
  <2>4. \A y \in Execs : phase'[y] \in {"absent", "PENDING"} => phase[y] \in {"absent", "PENDING"}
    BY <2>3, ContinueRows
  <2> QED BY <2>1, <2>2, <2>4, OneNodeStep DEF Stages, Statuses
<1>6. CASE Route(x, n)
  BY <1>6, RouteStep
<1>7. CASE KidsDone(x, n) \/ ErrorKidFails(x, n)
  <2>1. PICK p \in {"resolved", "rejected"} : pc' = [pc EXCEPT ![x][n] = p]
    BY <1>7 DEF KidsDone, ErrorKidFails
  <2>2. /\ pc[x][n] \in {"waiting", "errwait"} /\ inputs' = inputs
        /\ status' = keep(status) /\ log' = keep(log) /\ phase' = phase
    BY <1>0, <1>7 DEF KidsDone, ErrorKidFails
  <2> QED BY <1>0, <2>1, <2>2, OneNodeStep DEF Stages
<1>8. CASE Handle(x, n)
  BY <1>8, HandleStep
<1> QED
  BY <1>1, <1>2, <1>3, <1>4, <1>5, <1>6, <1>7, <1>8 DEF NodeStep

\* Starting an execution launches roots only, and restores nodes without a
\* row of their own.
LEMMA StartJoin ==
  ASSUME TypeOK, JoinInv, NEW x \in Execs, Start(x)
  PROVE  JoinInv'
<1>1. /\ phase[x] = "PENDING" /\ phase' = [phase EXCEPT ![x] = "RUNNING"]
      /\ log' = log /\ inputs' = inputs
  BY DEF Start
<1>2. \A n \in Nodes : log[x][n] = "none"
  BY <1>1 DEF JoinInv, StageInv
<1>3. /\ \A n \in Nodes : pc'[x][n] = IF n \in Restored(x) THEN "resolved"
                                      ELSE IF n \in Roots THEN "gather" ELSE "idle"
      /\ \A n \in Nodes : status'[x][n] = IF n \in Restored(x) THEN "done" ELSE "pending"
      /\ \A y \in Execs \ {x} : pc'[y] = pc[y] /\ status'[y] = status[y]
  BY DEF Start, TypeOK
<1>4. StageInv'
  <2>1. ASSUME NEW y \in Execs, NEW n \in Nodes
        PROVE  /\ status'[y][n] \in {"running", "done", "error"} => pc'[y][n] # "idle"
               /\ pc'[y][n] = "stored" => status'[y][n] = "done"
    BY <1>3 DEF JoinInv, StageInv
  <2>2. ASSUME NEW y \in Execs, phase'[y] \in {"absent", "PENDING"}
        PROVE  \A n \in Nodes : pc'[y][n] = "idle" /\ log'[y][n] = "none"
    <3>1. y # x /\ phase[y] \in {"absent", "PENDING"}
      BY <1>1, <2>2 DEF TypeOK
    <3> QED BY <1>1, <1>3, <3>1 DEF JoinInv, StageInv
  <2> QED BY <2>1, <2>2 DEF StageInv
<1>5. ASSUME NEW y \in Execs, NEW n \in Nodes, Taken(y, n)'
      PROVE  (y = x /\ n \in Roots) \/ (y # x /\ Taken(y, n))
  <2>1. CASE y = x
    <3>1. log'[x][n] = "none" /\ pc'[x][n] # "idle" /\ pc'[x][n] # "resolved"
      BY <1>1, <1>2, <1>5, <2>1 DEF Taken, Seeded
    <3> QED BY <1>3, <2>1, <3>1
  <2>2. CASE y # x
    BY <1>1, <1>3, <1>5, <2>2 DEF Taken, Seeded
  <2> QED BY <2>1, <2>2
<1>6. JoinWaits'
  <2> SUFFICES ASSUME NEW y \in Execs, NEW n \in Nodes, Taken(y, n)', NEW q \in Parents[n]
               PROVE  pc'[y][q] # "idle" \/ status'[y][q] = "skipped"
    BY DEF JoinWaits
  <2>1. q \in Nodes
    BY GraphFacts
  <2>2. n \notin Roots
    BY DEF Roots
  <2>3. y # x /\ Taken(y, n)
    BY <1>5, <2>2
  <2> QED BY <1>3, <2>1, <2>3 DEF JoinInv, JoinWaits
<1>7. InputsFromParents'
  <2> SUFFICES ASSUME NEW y \in Execs, NEW n \in Nodes \ Roots, Taken(y, n)'
               PROVE  inputs'[y][n] # {}
    BY DEF InputsFromParents
  <2>1. Taken(y, n)
    BY <1>5
  <2> QED BY <1>1, <2>1 DEF JoinInv, InputsFromParents
<1> QED
  BY <1>4, <1>6, <1>7 DEF JoinInv

\* Steps that only touch the rows and the files.
LEMMA RowStepJoin ==
  ASSUME JoinInv, UNCHANGED <<status, pc, inputs, log>>,
         \A y \in Execs : phase'[y] \in {"absent", "PENDING"} => phase[y] \in {"absent", "PENDING"}
  PROVE  JoinInv'
  BY DEF JoinInv, StageInv, JoinWaits, InputsFromParents, Taken, Seeded

LEMMA JoinInductive == Spec => []JoinInv
<1>1. Init => JoinInv
  BY DEF Init, JoinInv, StageInv, JoinWaits, InputsFromParents, Taken
<1>2. TypeOK /\ JoinInv /\ [Next]_vars => JoinInv'
  <2> SUFFICES ASSUME TypeOK, JoinInv, [Next]_vars PROVE JoinInv'
    OBVIOUS
  <2>1. ASSUME NEW x \in Execs, Start(x) PROVE JoinInv'
    BY <2>1, StartJoin
  <2>2. ASSUME NEW x \in Execs, NEW n \in Nodes, NodeStep(x, n) PROVE JoinInv'
    BY <2>2, NodeStepJoin
  <2>3. ASSUME NEW x \in Execs, Finish(x) \/ Timeout(x) PROVE JoinInv'
    <3>1. UNCHANGED <<status, pc, inputs, log>>
      BY <2>3 DEF Finish, Timeout
    <3>2. \E t \in Terminal : phase' = [phase EXCEPT ![x] = t]
      BY <2>3 DEF Finish, Timeout, Terminal
    <3>3. \A y \in Execs : phase'[y] \in {"absent", "PENDING"} => phase[y] \in {"absent", "PENDING"}
      BY <3>2 DEF TypeOK, Terminal
    <3> QED BY <3>1, <3>3, RowStepJoin
  <2>4. ASSUME NEW x \in Execs, Retry(x) PROVE JoinInv'
    BY <2>4, ContinueRows, RowStepJoin DEF Retry
  <2>5. CASE UNCHANGED vars
    BY <2>5, RowStepJoin DEF vars
  <2> QED
    BY <2>1, <2>2, <2>3, <2>4, <2>5 DEF Next, WorkerStep
<1> QED
  BY <1>1, <1>2, TypeCorrect, PTL DEF Spec

\* In every workflow, a join runs only after each of its parents was launched
\* or skipped: isReady and the launched set do their work under every
\* interleaving of completions, failures, skips and timeouts.
THEOREM JoinsWait == Spec => []JoinWaits
<1>1. JoinInv => JoinWaits
  BY DEF JoinInv
<1> QED
  BY <1>1, JoinInductive, PTL

\* In every workflow, a node that is not a root runs on the output of a parent
\* and never falls back to the trigger data.
THEOREM InputsComeFromParents == Spec => []InputsFromParents
<1>1. JoinInv => InputsFromParents
  BY DEF JoinInv
<1> QED
  BY <1>1, JoinInductive, PTL

-----------------------------------------------------------------------------
\* A set of numbers that is not empty has a least element.
LEMMA LeastNatural ==
  ASSUME NEW S \in SUBSET Nat, S # {}
  PROVE  \E i \in S : \A j \in S : i <= j
<1> DEFINE below(i) == 1..i
           T == {below(i) : i \in S}
           R == StrictSubsetOrdering(Nat)
<1>1. \A i \in S : below(i) \in SUBSET Nat /\ IsFiniteSet(below(i))
  BY FS_Interval
<1>2. T \subseteq FiniteSubsetsOf(Nat) /\ T # {}
  BY <1>1 DEF FiniteSubsetsOf
<1>3. IsWellFoundedOn(R, FiniteSubsetsOf(Nat))
  BY FS_StrictSubsetOrderingWellFounded
<1> HIDE DEF R, T
<1>4. PICK t \in T : \A u \in T : ~ (<<u, t>> \in R)
  BY <1>2, <1>3, WFMin
<1>5. PICK i \in S : t = below(i)
  BY DEF T
<1>6. ASSUME NEW j \in S, j < i PROVE FALSE
  <2>1. below(j) \subseteq below(i) /\ i \in below(i) /\ i \notin below(j)
    BY <1>6
  <2>2. below(j) \in T
    BY DEF T
  <2>3. <<below(j), t>> \in R
    BY <1>1, <1>5, <2>1 DEF R, StrictSubsetOrdering
  <2> QED BY <1>4, <2>2, <2>3
<1> QED
  BY <1>6

\* Children are the other side of parents.
LEMMA ChildFacts ==
  /\ \A n \in Nodes : Children[n] \subseteq Nodes /\ ErrorChildren[n] \subseteq Children[n]
  /\ \A n, c \in Nodes : c \in Children[n] <=> n \in Parents[c]
  BY GraphFacts DEF Children, Parents, ErrorChildren

\* The handle edges.find gives is the handle of some edge between the nodes.
LEMMA HandleFacts ==
  ASSUME NEW n \in Nodes, NEW c \in Nodes, c \in Children[n]
  PROVE  \E i \in Indices : /\ EdgeSeq[i].src = n /\ EdgeSeq[i].dst = c
                            /\ HandleOf[n][c] = EdgeSeq[i].handle
<1> DEFINE S == {i \in Indices : EdgeSeq[i].src = n /\ EdgeSeq[i].dst = c}
           First(i) == /\ EdgeSeq[i].src = n /\ EdgeSeq[i].dst = c
                       /\ \A j \in Indices :
                            EdgeSeq[j].src = n /\ EdgeSeq[j].dst = c => i <= j
<1>1. S \subseteq Nat /\ S # {}
  BY DEF Children, Indices
<1>2. \E i \in Indices : First(i)
  BY <1>1, LeastNatural
<1>3. First(CHOOSE i \in Indices : First(i)) /\ (CHOOSE i \in Indices : First(i)) \in Indices
  <2> HIDE DEF First
  <2> QED BY <1>2
<1>4. HandleOf[n][c] = EdgeSeq[CHOOSE i \in Indices : First(i)].handle
  BY DEF HandleOf
<1> QED
  BY <1>3, <1>4

\* Below holds n, is closed under edges and is transitive.
LEMMA BelowFacts ==
  /\ \A n \in Nodes : n \in Below[n] /\ Below[n] \subseteq Nodes
  /\ \A n \in Nodes, k \in Nodes : k \in Below[n] => Children[k] \subseteq Below[n]
  /\ \A n \in Nodes, k \in Nodes : k \in Below[n] => Below[k] \subseteq Below[n]
<1>1. \A n \in Nodes : n \in Below[n] /\ Below[n] \subseteq Nodes
  BY DEF Below
<1>2. ASSUME NEW n \in Nodes, NEW k \in Nodes, k \in Below[n], NEW c \in Children[k]
      PROVE  c \in Below[n]
  BY <1>2, ChildFacts DEF Below
<1>3. ASSUME NEW n \in Nodes, NEW k \in Nodes, k \in Below[n] PROVE Below[k] \subseteq Below[n]
  <2>1. \A j \in Below[n] : Children[j] \subseteq Below[n]
    BY <1>1, <1>2
  <2>2. Below[n] \in SUBSET Nodes
    BY <1>1
  <2>3. Below[k] = {m \in Nodes : \A T \in SUBSET Nodes :
                      k \in T /\ (\A j \in T : Children[j] \subseteq T) => m \in T}
    BY DEF Below
  <2> QED BY <1>3, <2>1, <2>2, <2>3
<1> QED
  BY <1>1, <1>2, <1>3

\* cascadeSkip goes all the way down: the pending children of a node it skips
\* are skipped with it, and it skips every pending node it is called on.
LEMMA CascadeFacts ==
  ASSUME NEW st \in [Nodes -> Statuses], NEW S
  PROVE  /\ \A q \in Cascade(st, S) : \A c \in Children[q] :
              st[c] = "pending" => Skip(st, S)[c] = "skipped"
         /\ \A c \in S \cap Nodes : st[c] = "pending" => Skip(st, S)[c] = "skipped"
<1> DEFINE pending == {m \in Nodes : st[m] = "pending"}
           Closed(T) == \A m \in T : Children[m] \cap pending \subseteq T
<1>1. Cascade(st, S) = {m \in pending : \A T \in SUBSET pending :
                          S \cap pending \subseteq T /\ Closed(T) => m \in T}
  BY DEF Cascade
<1>2. ASSUME NEW q \in Cascade(st, S), NEW c \in Children[q], st[c] = "pending"
      PROVE  Skip(st, S)[c] = "skipped"
  <2>1. q \in Nodes /\ c \in Nodes
    BY <1>1, ChildFacts
  <2>2. c \in Cascade(st, S)
    BY <1>1, <1>2, <2>1
  <2>3. S # {}
    <3>1. SUFFICES ASSUME S = {} PROVE FALSE
      OBVIOUS
    <3>2. {} \in SUBSET pending /\ Closed({}) /\ S \cap pending \subseteq {}
      BY <3>1
    <3> QED BY <1>1, <3>2
  <2> QED BY <2>1, <2>2, <2>3 DEF Skip
<1>3. ASSUME NEW c \in S \cap Nodes, st[c] = "pending" PROVE Skip(st, S)[c] = "skipped"
  <2>1. c \in Cascade(st, S) /\ S # {}
    BY <1>1, <1>3
  <2> QED BY <2>1 DEF Skip
<1> QED
  BY <1>2, <1>3

-----------------------------------------------------------------------------
(***************************************************************************)
(* What a step of one node does: to the node itself, and to the others,    *)
(* which it may skip or launch.                                            *)
(***************************************************************************)
Kept(x, n) ==
  /\ \A y \in Execs, m \in Nodes : y # x \/ m # n =>
       /\ kids'[y][m] = kids[y][m] /\ log'[y][m] = log[y][m]
       /\ \/ pc'[y][m] = pc[y][m]
          \/ /\ y = x /\ m \in kids'[x][n] /\ pc[y][m] = "idle" /\ pc'[y][m] = "gather"
             /\ pc'[x][n] \in {"waiting", "errwait"}
       /\ \/ status'[y][m] = status[y][m]
          \/ status[y][m] = "pending" /\ status'[y][m] = "skipped"

\* The moves that write no log row.
Silent(x, n) ==
  /\ kids'[x][n] = kids[x][n] /\ log'[x][n] = log[x][n]
  /\ \/ /\ pc[x][n] \in {"gather", "starting", "errwait"} /\ pc'[x][n] = "rejected"
        /\ status'[x][n] = status[x][n]
     \/ pc[x][n] = "gather" /\ pc'[x][n] = "starting" /\ status'[x][n] = "running"
     \/ pc[x][n] = "executing" /\ pc'[x][n] = "stored" /\ status'[x][n] = "done"
     \/ /\ pc[x][n] \in {"executing", "stored", "waiting"} /\ pc'[x][n] = "caught"
        /\ status'[x][n] = "error"
     \/ /\ pc[x][n] \in {"waiting", "errwait"} /\ pc'[x][n] = "resolved"
        /\ status'[x][n] = status[x][n]
        /\ \A c \in kids[x][n] : pc[x][c] = "resolved"

\* The moves that write one.
Logged(x, n) ==
  \/ /\ pc[x][n] = "starting" /\ pc'[x][n] = "executing" /\ log'[x][n] = "RUNNING"
     /\ kids'[x][n] = kids[x][n] /\ status'[x][n] = status[x][n]
  \/ /\ n \in Waits /\ pc[x][n] = "executing" /\ pc'[x][n] \in {"resolved", "rejected"}
     /\ log'[x][n] \in {"RUNNING", "SUCCESS"}
     /\ pc'[x][n] = "resolved" => log'[x][n] = "SUCCESS"
     /\ kids'[x][n] = kids[x][n] /\ status'[x][n] = "done"
  \/ /\ pc[x][n] = "stored" /\ pc'[x][n] = "waiting" /\ log'[x][n] = "SUCCESS"
     /\ kids'[x][n] \subseteq Children[n] /\ status'[x][n] = "done"
     /\ \A c \in kids'[x][n] : \E i \in Indices : EdgeSeq[i].dst = c /\ EdgeSeq[i].handle # "error"
  \/ /\ pc[x][n] = "caught" /\ pc'[x][n] = "errwait" /\ log'[x][n] = "ERROR"
     /\ HasErrorEdge(n)
     /\ kids'[x][n] \subseteq Children[n] /\ status'[x][n] = "done"
  \/ /\ pc[x][n] = "caught" /\ pc'[x][n] = "rejected" /\ log'[x][n] = "ERROR"
     /\ ~HasErrorEdge(n)
     /\ kids'[x][n] = kids[x][n] /\ status'[x][n] = status[x][n]

\* The shape of a step that launches the idle nodes of next.
Launching(x, n, next, p, l, st) ==
  /\ next \subseteq Nodes /\ st \in [Nodes -> Statuses]
  /\ \A m \in Nodes : \/ st[m] = status[x][m] \/ m = n
                      \/ status[x][m] = "pending" /\ st[m] = "skipped"
  /\ \A c \in next : pc[x][c] = "idle"
  /\ pc' = [pc EXCEPT ![x] = [Launched(x, next) EXCEPT ![n] = p]]
  /\ status' = [status EXCEPT ![x] = st]
  /\ log' = [log EXCEPT ![x][n] = l]
  /\ kids' = [kids EXCEPT ![x][n] = next]

\* Such a step keeps the other nodes but for skips and these launches.
LEMMA LaunchMove ==
  ASSUME TypeOK, NEW x \in Execs, NEW n \in Nodes, NEW next, NEW st,
         NEW p \in {"waiting", "errwait"}, NEW l \in {"SUCCESS", "ERROR"},
         Launching(x, n, next, p, l, st)
  PROVE  /\ Kept(x, n)
         /\ pc'[x][n] = p /\ status'[x][n] = st[n] /\ log'[x][n] = l
         /\ kids'[x][n] = next
<1> USE DEF Launching
<1>1. /\ kids'[x][n] = next /\ log'[x][n] = l /\ status'[x] = st
      /\ pc'[x] = [Launched(x, next) EXCEPT ![n] = p]
  BY DEF TypeOK
<1>2. \A m \in Nodes : pc'[x][m] = IF m = n THEN p ELSE IF m \in next THEN "gather" ELSE pc[x][m]
  BY DEF Launched, TypeOK
<1>3. \A y \in Execs \ {x} : /\ kids'[y] = kids[y] /\ log'[y] = log[y]
                             /\ pc'[y] = pc[y] /\ status'[y] = status[y]
  BY DEF TypeOK
<1>4. \A m \in Nodes \ {n} : kids'[x][m] = kids[x][m] /\ log'[x][m] = log[x][m]
  BY DEF TypeOK
<1>5. ASSUME NEW y \in Execs, NEW m \in Nodes, y # x \/ m # n
      PROVE  /\ kids'[y][m] = kids[y][m] /\ log'[y][m] = log[y][m]
             /\ \/ pc'[y][m] = pc[y][m]
                \/ /\ y = x /\ m \in kids'[x][n] /\ pc[y][m] = "idle" /\ pc'[y][m] = "gather"
                   /\ pc'[x][n] \in {"waiting", "errwait"}
             /\ \/ status'[y][m] = status[y][m]
                \/ status[y][m] = "pending" /\ status'[y][m] = "skipped"
  <2>1. CASE y # x
    BY <1>3, <2>1
  <2>2. CASE y = x
    <3>1. m # n
      BY <1>5, <2>2
    <3> QED BY <1>1, <1>2, <1>4, <2>2, <3>1
  <2> QED BY <2>1, <2>2
<1> QED
  BY <1>1, <1>2, <1>5 DEF Kept

\* A success launches children it has an edge to that is not an error edge.
LEMMA RouteMove ==
  ASSUME TypeOK, StageInv, NEW x \in Execs, NEW n \in Nodes, Route(x, n)
  PROVE  Kept(x, n) /\ Logged(x, n)
<1> DEFINE h    == ActiveHandle(x, n)
           next == NextNodes(x, n, h)
           all  == SkippedBefore(n, h, Len(EdgeSeq) + 1)
           st   == Skip(status[x], all)
<1>1. /\ pc[x][n] = "stored"
      /\ log' = [log EXCEPT ![x][n] = "SUCCESS"]
      /\ status' = [status EXCEPT ![x] = st]
      /\ pc' = [pc EXCEPT ![x] = [Launched(x, next) EXCEPT ![n] = "waiting"]]
      /\ kids' = [kids EXCEPT ![x][n] = next]
  BY DEF Route
<1>2. status[x] \in [Nodes -> Statuses] /\ status[x][n] = "done"
  BY <1>1 DEF TypeOK, StageInv
<1>3. ASSUME NEW c \in next
      PROVE  /\ c \in Nodes /\ pc[x][c] = "idle" /\ c \in Children[n]
             /\ \E i \in Indices : EdgeSeq[i].dst = c /\ EdgeSeq[i].handle # "error"
  <2>1. PICK i \in Indices : /\ EdgeSeq[i].src = n /\ EdgeSeq[i].dst = c
                             /\ HandleOf[n][c] # "error" /\ pc[x][c] = "idle"
    BY <1>3 DEF NextNodes
  <2>2. c \in Nodes /\ c \in Children[n]
    BY <2>1, GraphFacts DEF Children
  <2> QED BY <2>1, <2>2, HandleFacts
<1>4. /\ st \in [Nodes -> Statuses]
      /\ \A m \in Nodes : \/ st[m] = status[x][m]
                          \/ status[x][m] = "pending" /\ st[m] = "skipped"
  <2> HIDE DEF all
  <2> QED BY <1>2, SkipFacts
<1>5. next \subseteq Nodes
  BY DEF NextNodes
<1>8. \A m \in Nodes :
        \/ st[m] = status[x][m] \/ m = n
        \/ status[x][m] = "pending" /\ st[m] = "skipped"
  BY <1>4
<1>9. \A c \in next : pc[x][c] = "idle"
  BY <1>3
<1> HIDE DEF next, st
<1>6. /\ Kept(x, n) /\ pc'[x][n] = "waiting" /\ status'[x][n] = st[n]
      /\ log'[x][n] = "SUCCESS" /\ kids'[x][n] = next
  <2>1. Launching(x, n, next, "waiting", "SUCCESS", st)
    BY <1>1, <1>4, <1>5, <1>8, <1>9 DEF Launching
  <2> QED BY <2>1, LaunchMove
<1>7. st[n] = "done"
  BY <1>2, <1>4
<1> QED
  BY <1>1, <1>3, <1>6, <1>7 DEF Logged

\* A failure with an error edge launches children, one without launches none.
LEMMA HandleMove ==
  ASSUME TypeOK, NEW x \in Execs, NEW n \in Nodes, Handle(x, n)
  PROVE  Kept(x, n) /\ Logged(x, n)
<1> DEFINE st   == [status[x] EXCEPT ![n] = "done"]
           next == {c \in ErrorChildren[n] : pc[x][c] = "idle" /\ Ready(st, c)}
<1>1. pc[x][n] = "caught" /\ log' = [log EXCEPT ![x][n] = "ERROR"]
  BY DEF Handle
<1>2. CASE HasErrorEdge(n)
  <2>1. /\ status' = [status EXCEPT ![x] = st]
        /\ pc' = [pc EXCEPT ![x] = [Launched(x, next) EXCEPT ![n] = "errwait"]]
        /\ kids' = [kids EXCEPT ![x][n] = next]
    BY <1>2 DEF Handle
  <2>2. /\ st \in [Nodes -> Statuses] /\ st[n] = "done"
        /\ \A m \in Nodes : st[m] = status[x][m] \/ m = n
    BY DEF TypeOK, Statuses
  <2>3. next \subseteq Nodes /\ next \subseteq Children[n] /\ \A c \in next : pc[x][c] = "idle"
    BY ChildFacts
  <2>0. \A m \in Nodes :
          \/ st[m] = status[x][m] \/ m = n
          \/ status[x][m] = "pending" /\ st[m] = "skipped"
    BY <2>2
  <2> HIDE DEF st, next
  <2>4. /\ Kept(x, n) /\ pc'[x][n] = "errwait" /\ status'[x][n] = "done"
        /\ log'[x][n] = "ERROR" /\ kids'[x][n] = next
    <3>1. Launching(x, n, next, "errwait", "ERROR", st)
      BY <1>1, <2>0, <2>1, <2>2, <2>3 DEF Launching
    <3> QED BY <2>2, <3>1, LaunchMove
  <2> QED BY <1>1, <1>2, <2>3, <2>4 DEF Logged
<1>3. CASE ~HasErrorEdge(n)
  <2>1. /\ pc' = [pc EXCEPT ![x][n] = "rejected"]
        /\ status' = [status EXCEPT ![x][n] = status[x][n]]
        /\ kids' = kids
    BY <1>3 DEF Handle, TypeOK
  <2>2. /\ Kept(x, n) /\ pc'[x][n] = "rejected" /\ status'[x][n] = status[x][n]
        /\ log'[x][n] = "ERROR" /\ kids'[x][n] = kids[x][n]
    BY <1>1, <2>1 DEF TypeOK, Kept
  <2> QED BY <1>1, <1>3, <2>2 DEF Logged
<1> QED
  BY <1>2, <1>3

\* Every step of a node is one of these moves.
LEMMA NodeMoves ==
  ASSUME TypeOK, StageInv, NEW x \in Execs, NEW n \in Nodes, NodeStep(x, n)
  PROVE  Kept(x, n) /\ (Silent(x, n) \/ Logged(x, n))
<1> DEFINE keep(f) == [f EXCEPT ![x][n] = f[x][n]]
<1>0. keep(pc) = pc /\ keep(status) = status /\ keep(log) = log
  BY DEF TypeOK
<1>1. CASE Gather(x, n)
  <2>1. pc[x][n] = "gather" /\ log' = keep(log) /\ kids' = kids
    BY <1>0, <1>1 DEF Gather
  <2>2. \/ pc' = [pc EXCEPT ![x][n] = "rejected"] /\ status' = keep(status)
        \/ /\ pc' = [pc EXCEPT ![x][n] = "starting"]
           /\ status' = [status EXCEPT ![x][n] = "running"]
    BY <1>0, <1>1 DEF Gather
  <2>3. CASE pc' = [pc EXCEPT ![x][n] = "rejected"] /\ status' = keep(status)
    <3>1. /\ Kept(x, n) /\ pc'[x][n] = "rejected" /\ status'[x][n] = status[x][n]
          /\ log'[x][n] = log[x][n] /\ kids'[x][n] = kids[x][n]
      BY <2>1, <2>3 DEF TypeOK, Kept
    <3> QED BY <2>1, <3>1 DEF Silent
  <2>4. CASE /\ pc' = [pc EXCEPT ![x][n] = "starting"]
             /\ status' = [status EXCEPT ![x][n] = "running"]
    <3>1. /\ Kept(x, n) /\ pc'[x][n] = "starting" /\ status'[x][n] = "running"
          /\ log'[x][n] = log[x][n] /\ kids'[x][n] = kids[x][n]
      BY <2>1, <2>4 DEF TypeOK, Kept
    <3> QED BY <2>1, <3>1 DEF Silent
  <2> QED BY <2>2, <2>3, <2>4
<1>2. CASE Begin(x, n)
  <2>1. pc[x][n] = "starting" /\ status' = keep(status) /\ kids' = kids
    BY <1>0, <1>2 DEF Begin
  <2>2. \/ pc' = [pc EXCEPT ![x][n] = "executing"] /\ log' = [log EXCEPT ![x][n] = "RUNNING"]
        \/ pc' = [pc EXCEPT ![x][n] = "rejected"] /\ log' = keep(log)
    BY <1>0, <1>2 DEF Begin
  <2>3. CASE pc' = [pc EXCEPT ![x][n] = "executing"] /\ log' = [log EXCEPT ![x][n] = "RUNNING"]
    <3>1. /\ Kept(x, n) /\ pc'[x][n] = "executing" /\ status'[x][n] = status[x][n]
          /\ log'[x][n] = "RUNNING" /\ kids'[x][n] = kids[x][n]
      BY <2>1, <2>3 DEF TypeOK, Kept
    <3> QED BY <2>1, <3>1 DEF Logged
  <2>4. CASE pc' = [pc EXCEPT ![x][n] = "rejected"] /\ log' = keep(log)
    <3>1. /\ Kept(x, n) /\ pc'[x][n] = "rejected" /\ status'[x][n] = status[x][n]
          /\ log'[x][n] = log[x][n] /\ kids'[x][n] = kids[x][n]
      BY <2>1, <2>4 DEF TypeOK, Kept
    <3> QED BY <2>1, <3>1 DEF Silent
  <2> QED BY <2>2, <2>3, <2>4
<1>3. CASE ExecuteOk(x, n)
  <2>1. /\ pc[x][n] = "executing" /\ log' = keep(log) /\ kids' = kids
        /\ pc' = [pc EXCEPT ![x][n] = "stored"] /\ status' = [status EXCEPT ![x][n] = "done"]
    BY <1>0, <1>3 DEF ExecuteOk
  <2>2. /\ Kept(x, n) /\ pc'[x][n] = "stored" /\ status'[x][n] = "done"
        /\ log'[x][n] = log[x][n] /\ kids'[x][n] = kids[x][n]
    BY <2>1 DEF TypeOK, Kept
  <2> QED BY <2>1, <2>2 DEF Silent
<1>4. CASE ExecuteFails(x, n) \/ RouteFails(x, n) \/ KidFails(x, n)
  <2>1. /\ pc[x][n] \in {"executing", "stored", "waiting"} /\ log' = keep(log) /\ kids' = kids
        /\ pc' = [pc EXCEPT ![x][n] = "caught"] /\ status' = [status EXCEPT ![x][n] = "error"]
    BY <1>0, <1>4 DEF ExecuteFails, RouteFails, KidFails
  <2>2. /\ Kept(x, n) /\ pc'[x][n] = "caught" /\ status'[x][n] = "error"
        /\ log'[x][n] = log[x][n] /\ kids'[x][n] = kids[x][n]
    BY <2>1 DEF TypeOK, Kept
  <2> QED BY <2>1, <2>2 DEF Silent
<1>5. CASE WaitSignal(x, n)
  <2>1. PICK p \in {"resolved", "rejected"}, l \in {"RUNNING", "SUCCESS"} :
          /\ pc' = [pc EXCEPT ![x][n] = p] /\ log' = [log EXCEPT ![x][n] = l]
          /\ p = "resolved" => l = "SUCCESS"
    BY <1>5 DEF WaitSignal
  <2>2. /\ pc[x][n] = "executing" /\ kids' = kids /\ n \in Waits
        /\ status' = [status EXCEPT ![x][n] = "done"]
    BY <1>5 DEF WaitSignal
  <2>3. /\ Kept(x, n) /\ pc'[x][n] = p /\ status'[x][n] = "done"
        /\ log'[x][n] = l /\ kids'[x][n] = kids[x][n]
    BY <2>1, <2>2 DEF TypeOK, Kept
  <2> QED BY <2>1, <2>2, <2>3 DEF Logged
<1>6. CASE Route(x, n)
  BY <1>6, RouteMove
<1>7. CASE KidsDone(x, n)
  <2>1. /\ pc[x][n] \in {"waiting", "errwait"} /\ log' = keep(log) /\ kids' = kids
        /\ pc' = [pc EXCEPT ![x][n] = "resolved"] /\ status' = keep(status)
        /\ \A c \in kids[x][n] : pc[x][c] = "resolved"
    BY <1>0, <1>7 DEF KidsDone
  <2>2. /\ Kept(x, n) /\ pc'[x][n] = "resolved" /\ status'[x][n] = status[x][n]
        /\ log'[x][n] = log[x][n] /\ kids'[x][n] = kids[x][n]
    BY <2>1 DEF TypeOK, Kept
  <2> QED BY <2>1, <2>2 DEF Silent
<1>8. CASE ErrorKidFails(x, n)
  <2>1. /\ pc[x][n] = "errwait" /\ log' = keep(log) /\ kids' = kids
        /\ pc' = [pc EXCEPT ![x][n] = "rejected"] /\ status' = keep(status)
    BY <1>0, <1>8 DEF ErrorKidFails
  <2>2. /\ Kept(x, n) /\ pc'[x][n] = "rejected" /\ status'[x][n] = status[x][n]
        /\ log'[x][n] = log[x][n] /\ kids'[x][n] = kids[x][n]
    BY <2>1 DEF TypeOK, Kept
  <2> QED BY <2>1, <2>2 DEF Silent
<1>9. CASE Handle(x, n)
  BY <1>9, HandleMove
<1> QED
  BY <1>1, <1>2, <1>3, <1>4, <1>5, <1>6, <1>7, <1>8, <1>9 DEF NodeStep

-----------------------------------------------------------------------------
(***************************************************************************)
(* Where a node stands tells what its row says and whom it awaits.         *)
(***************************************************************************)
NodeFlow(x, n) ==
  /\ pc[x][n] = "gather" => status[x][n] \notin {"running", "done", "error"}
  /\ pc[x][n] \in {"starting", "executing"} => status[x][n] = "running"
  /\ pc[x][n] \in {"executing", "stored"} => log[x][n] = "RUNNING"
  /\ pc[x][n] \in {"idle", "gather", "starting", "executing", "stored"} =>
       kids[x][n] = {} /\ log[x][n] \in {"none", "RUNNING"}
  /\ pc[x][n] = "waiting" => log[x][n] = "SUCCESS" /\ status[x][n] = "done"
  /\ pc[x][n] = "errwait" => log[x][n] = "ERROR" /\ status[x][n] = "done"
  /\ pc[x][n] = "resolved" => log[x][n] # "RUNNING" /\ status[x][n] = "done"
  /\ log[x][n] = "ERROR" => pc[x][n] \in {"errwait", "resolved", "rejected"}
  /\ pc[x][n] # "rejected" /\ log[x][n] = "ERROR" => HasErrorEdge(n)
  /\ kids[x][n] \subseteq Children[n]
  /\ pc[x][n] = "resolved" => \A c \in kids[x][n] : pc[x][c] = "resolved"

\* A SUCCESS was written when the roots' promises had resolved, and they stay so.
FlowInv ==
  /\ \A x \in Execs, n \in Nodes : NodeFlow(x, n)
  /\ \A x \in Execs : phase[x] = "SUCCESS" => \A r \in Roots : pc[x][r] = "resolved"

\* No step of a node takes a settled node back.
LEMMA ResolvedStays ==
  ASSUME NEW x \in Execs, NEW n \in Nodes, Kept(x, n), Silent(x, n) \/ Logged(x, n),
         NEW y \in Execs, NEW m \in Nodes, pc[y][m] = "resolved"
  PROVE  pc'[y][m] = "resolved"
  BY DEF Kept, Silent, Logged

LEMMA NodeFlowStep ==
  ASSUME TypeOK, StageInv, \A y \in Execs, m \in Nodes : NodeFlow(y, m),
         NEW x \in Execs, NEW n \in Nodes, NodeStep(x, n), NEW y \in Execs, NEW m \in Nodes
  PROVE  NodeFlow(y, m)'
<1>1. Kept(x, n) /\ (Silent(x, n) \/ Logged(x, n))
  BY NodeMoves
<1>2. NodeFlow(y, m)
  OBVIOUS
<1>3. kids[y][m] \subseteq Nodes /\ Children[m] \subseteq Nodes
  BY ChildFacts DEF TypeOK
<1>4. CASE y # x \/ m # n
  <2>1. /\ kids'[y][m] = kids[y][m] /\ log'[y][m] = log[y][m]
        /\ \/ pc'[y][m] = pc[y][m]
           \/ pc[y][m] = "idle" /\ pc'[y][m] = "gather"
        /\ \/ status'[y][m] = status[y][m]
           \/ status[y][m] = "pending" /\ status'[y][m] = "skipped"
    BY <1>1, <1>4 DEF Kept
  <2>2. pc'[y][m] = "resolved" => \A c \in kids'[y][m] : pc'[y][c] = "resolved"
    BY <1>1, <1>2, <1>3, <2>1, ResolvedStays DEF NodeFlow
  <2>3. pc[y][m] = "idle" => status[y][m] \notin {"running", "done", "error"}
    BY DEF StageInv
  <2> QED BY <1>2, <2>1, <2>2, <2>3 DEF NodeFlow, HasErrorEdge
<1>5. CASE y = x /\ m = n
  <2>1. pc'[x][n] = "resolved" => \A c \in kids'[x][n] : pc'[x][c] = "resolved"
    BY <1>1, <1>2, <1>3, <1>5, ResolvedStays DEF NodeFlow, Silent, Logged
  <2>2. CASE Silent(x, n)
    BY <1>2, <1>5, <2>1, <2>2 DEF NodeFlow, Silent, HasErrorEdge
  <2>3. CASE Logged(x, n)
    BY <1>2, <1>5, <2>1, <2>3 DEF NodeFlow, Logged, HasErrorEdge
  <2> QED BY <1>1, <2>2, <2>3
<1> QED
  BY <1>4, <1>5

\* What Start does to the nodes of its execution, and that it touches no other.
LEMMA StartFacts ==
  ASSUME TypeOK, StageInv, NEW x \in Execs, Start(x)
  PROVE  /\ phase[x] = "PENDING" /\ phase' = [phase EXCEPT ![x] = "RUNNING"]
         /\ prior' = prior /\ kids' = kids /\ log' = log
         /\ \A n \in Nodes : pc[x][n] = "idle" /\ log[x][n] = "none"
         /\ \A n \in Nodes : \/ n \in Restored(x) /\ pc'[x][n] = "resolved" /\ status'[x][n] = "done"
                             \/ /\ n \notin Restored(x) /\ status'[x][n] = "pending"
                                /\ pc'[x][n] = IF n \in Roots THEN "gather" ELSE "idle"
         /\ \A y \in Execs \ {x} : pc'[y] = pc[y] /\ status'[y] = status[y]
  BY DEF Start, TypeOK, StageInv

LEMMA FlowStep ==
  ASSUME TypeOK, StageInv, FlowInv, [Next]_vars
  PROVE  FlowInv'
<1>1. ASSUME NEW x \in Execs, Start(x) PROVE FlowInv'
  <2>0. /\ phase[x] = "PENDING" /\ phase' = [phase EXCEPT ![x] = "RUNNING"]
        /\ prior' = prior /\ kids' = kids /\ log' = log
        /\ \A n \in Nodes : pc[x][n] = "idle" /\ log[x][n] = "none"
        /\ \A n \in Nodes : \/ n \in Restored(x) /\ pc'[x][n] = "resolved" /\ status'[x][n] = "done"
                            \/ /\ n \notin Restored(x) /\ status'[x][n] = "pending"
                               /\ pc'[x][n] = IF n \in Roots THEN "gather" ELSE "idle"
        /\ \A y \in Execs \ {x} : pc'[y] = pc[y] /\ status'[y] = status[y]
    BY <1>1, StartFacts
  <2>1. ASSUME NEW y \in Execs, NEW n \in Nodes PROVE NodeFlow(y, n)'
    <3>1. NodeFlow(y, n)
      BY DEF FlowInv
    <3>2. CASE y = x
      <4>1. kids'[x][n] = {} /\ log'[x][n] = "none"
        BY <2>0, <3>1, <3>2 DEF NodeFlow
      <4> QED BY <2>0, <3>2, <4>1 DEF NodeFlow
    <3>3. CASE y # x
      BY <2>0, <3>1, <3>3 DEF NodeFlow, HasErrorEdge
    <3> QED BY <3>2, <3>3
  <2>2. ASSUME NEW y \in Execs, phase'[y] = "SUCCESS", NEW r \in Roots PROVE pc'[y][r] = "resolved"
    <3>1. y # x /\ phase[y] = "SUCCESS"
      BY <2>0, <2>2 DEF TypeOK
    <3> QED BY <2>0, <3>1 DEF FlowInv
  <2> QED BY <2>1, <2>2 DEF FlowInv
<1>2. ASSUME NEW x \in Execs, NEW n \in Nodes, NodeStep(x, n) PROVE FlowInv'
  <2>1. Kept(x, n) /\ (Silent(x, n) \/ Logged(x, n))
    BY <1>2, NodeMoves
  <2>2. \A y \in Execs, m \in Nodes : NodeFlow(y, m)'
    BY <1>2, NodeFlowStep DEF FlowInv
  <2>3. \A y \in Execs : phase'[y] = "SUCCESS" => phase[y] = "SUCCESS"
    <3>1. UNCHANGED phase \/ Continue(x)
      BY <1>2 DEF NodeStep, Gather, Begin, ExecuteOk, ExecuteFails, WaitSignal, Route, RouteFails,
                  KidsDone, KidFails, ErrorKidFails, Handle
    <3>2. CASE UNCHANGED phase
      BY <3>2
    <3>3. CASE Continue(x)
      BY <3>3 DEF Continue, TypeOK
    <3> QED BY <3>1, <3>2, <3>3
  <2>4. ASSUME NEW y \in Execs, phase'[y] = "SUCCESS", NEW r \in Roots PROVE pc'[y][r] = "resolved"
    <3>1. r \in Nodes /\ pc[y][r] = "resolved"
      BY <2>3, <2>4 DEF FlowInv, Roots
    <3> QED BY <2>1, <3>1, ResolvedStays
  <2> QED BY <2>2, <2>4 DEF FlowInv
<1>3. ASSUME NEW x \in Execs, Finish(x) \/ Timeout(x) PROVE FlowInv'
  <2>1. /\ UNCHANGED <<pc, status, log, kids>>
        /\ \/ phase' = [phase EXCEPT ![x] = "FAILED"]
           \/ /\ phase' = [phase EXCEPT ![x] = "SUCCESS"]
              /\ \A r \in Roots : pc[x][r] = "resolved"
    BY <1>3 DEF Finish, Timeout
  <2>2. \A y \in Execs, n \in Nodes : NodeFlow(y, n)'
    BY <2>1 DEF FlowInv, NodeFlow, HasErrorEdge
  <2>3. ASSUME NEW y \in Execs, phase'[y] = "SUCCESS", NEW r \in Roots PROVE pc'[y][r] = "resolved"
    BY <2>1, <2>3 DEF FlowInv, TypeOK
  <2> QED BY <2>2, <2>3 DEF FlowInv
<1>4. ASSUME NEW x \in Execs, Retry(x) PROVE FlowInv'
  <2>1. UNCHANGED <<pc, status, log, kids>> /\ Continue(x)
    BY <1>4 DEF Retry
  <2>2. \A y \in Execs : phase'[y] = "SUCCESS" => phase[y] = "SUCCESS"
    BY <2>1 DEF Continue, TypeOK
  <2> QED BY <2>1, <2>2 DEF FlowInv, NodeFlow, HasErrorEdge
<1>5. CASE UNCHANGED vars
  BY <1>5 DEF vars, FlowInv, NodeFlow, HasErrorEdge
<1> QED
  BY <1>1, <1>2, <1>3, <1>4, <1>5 DEF Next, WorkerStep

LEMMA FlowInductive == Spec => []FlowInv
<1>1. Init => FlowInv
  BY DEF Init, FlowInv, NodeFlow
<1>2. TypeOK /\ JoinInv /\ FlowInv /\ [Next]_vars => FlowInv'
  BY FlowStep DEF JoinInv
<1> QED
  BY <1>1, <1>2, TypeCorrect, JoinInductive, PTL DEF Spec

\* A node is launched once in an execution, for every workflow and every order
\* in which its parents finish, fail, are skipped or time out.
THEOREM TakenUpOnce == Spec => TakenOnce
<1> DEFINE Once == \A x \in Execs, n \in Nodes :
                     pc'[x][n] = "gather" /\ pc[x][n] # "gather" => pc[x][n] = "idle"
<1>1. TypeOK /\ JoinInv /\ [Next]_vars => [Once]_vars
  <2> SUFFICES ASSUME TypeOK, JoinInv, Next, NEW y \in Execs, NEW m \in Nodes,
                      pc'[y][m] = "gather", pc[y][m] # "gather"
               PROVE  pc[y][m] = "idle"
    OBVIOUS
  <2>1. ASSUME NEW x \in Execs, Start(x) PROVE pc[y][m] = "idle"
    <3>1. /\ \A n \in Nodes : pc[x][n] = "idle"
          /\ \A z \in Execs \ {x} : pc'[z] = pc[z]
      BY <2>1, StartFacts DEF JoinInv
    <3> QED BY <3>1
  <2>2. ASSUME NEW x \in Execs, NEW n \in Nodes, NodeStep(x, n) PROVE pc[y][m] = "idle"
    <3>1. Kept(x, n) /\ (Silent(x, n) \/ Logged(x, n))
      BY <2>2, NodeMoves DEF JoinInv
    <3> QED BY <3>1 DEF Kept, Silent, Logged
  <2>3. ASSUME NEW x \in Execs, Finish(x) \/ Timeout(x) \/ Retry(x) PROVE FALSE
    BY <2>3 DEF Finish, Timeout, Retry
  <2> QED BY <2>1, <2>2, <2>3 DEF Next, WorkerStep
<1> QED
  BY <1>1, TypeCorrect, JoinInductive, PTL DEF Spec, TakenOnce

\* A node that is done, or restored as done, is never run again in the execution: a
\* failure below it can still turn it into an error, and a restored node stays as it was.
THEOREM DoneStaysDone == Spec => DoneNeverReruns
<1> DEFINE Kept2(x, n) == /\ status'[x][n] \in {"done", "error"}
                          /\ pc'[x][n] \notin {"gather", "starting", "executing"}
                          /\ Seeded(x, n) => pc'[x][n] = "resolved" /\ log'[x][n] = "none"
           Settled == \A x \in Execs, n \in Nodes : status[x][n] = "done" => Kept2(x, n)
<1>1. TypeOK /\ JoinInv /\ FlowInv /\ [Next]_vars => [Settled]_vars
  <2> SUFFICES ASSUME TypeOK, JoinInv, FlowInv, Next, NEW y \in Execs, NEW m \in Nodes,
                      status[y][m] = "done"
               PROVE  Kept2(y, m)
    OBVIOUS
  <2>0. /\ pc[y][m] \notin {"idle", "gather", "starting", "executing"}
        /\ Seeded(y, m) => pc[y][m] = "resolved" /\ log[y][m] = "none"
    BY DEF JoinInv, StageInv, FlowInv, NodeFlow, Seeded
  <2>1. ASSUME NEW x \in Execs, Start(x) PROVE Kept2(y, m)
    <3>1. /\ \A n \in Nodes : pc[x][n] = "idle"
          /\ \A z \in Execs \ {x} : status'[z] = status[z] /\ pc'[z] = pc[z]
          /\ log' = log
      BY <2>1, StartFacts DEF JoinInv
    <3>2. y # x
      BY <2>0, <3>1
    <3> QED BY <2>0, <3>1, <3>2
  <2>2. ASSUME NEW x \in Execs, NEW n \in Nodes, NodeStep(x, n)
        PROVE  Kept2(y, m)
    <3>1. Kept(x, n) /\ (Silent(x, n) \/ Logged(x, n))
      BY <2>2, NodeMoves DEF JoinInv
    <3>2. CASE y # x \/ m # n
      BY <2>0, <3>1, <3>2 DEF Kept
    <3>3. CASE y = x /\ m = n
      BY <2>0, <3>1, <3>3 DEF Silent, Logged
    <3> QED BY <3>2, <3>3
  <2>3. ASSUME NEW x \in Execs, Finish(x) \/ Timeout(x) \/ Retry(x)
        PROVE  status' = status /\ pc' = pc /\ log' = log
    BY <2>3 DEF Finish, Timeout, Retry
  <2> QED BY <2>0, <2>1, <2>2, <2>3 DEF Next, WorkerStep
<1> HIDE DEF Kept2
<1>2. Settled => \A x \in Execs, n \in Nodes : status[x][n] = "done" =>
                   /\ status'[x][n] \in {"done", "error"}
                   /\ pc'[x][n] \notin {"gather", "starting", "executing"}
                   /\ Seeded(x, n) => Seeded(x, n)'
  BY DEF Kept2, Seeded
<1> HIDE DEF Settled
<1>3. TypeOK /\ JoinInv /\ FlowInv /\ [Next]_vars =>
        [\A x \in Execs, n \in Nodes : status[x][n] = "done" =>
           /\ status'[x][n] \in {"done", "error"}
           /\ pc'[x][n] \notin {"gather", "starting", "executing"}
           /\ Seeded(x, n) => Seeded(x, n)']_vars
  BY <1>1, <1>2
<1> QED
  BY <1>3, TypeCorrect, JoinInductive, FlowInductive, PTL DEF Spec, DoneNeverReruns

-----------------------------------------------------------------------------
(***************************************************************************)
(* Errors.  How far the run got is followed from the roots: through the    *)
(* children each node awaits and, where a node's error took its error      *)
(* edge, through everything below it, for a node awaits only one set of    *)
(* children and the catch block replaces the set of the try block.         *)
(***************************************************************************)
Diverted(x) == {m \in Nodes : log[x][m] = "ERROR" /\ HasErrorEdge(m)}

\* A set of nodes that holds the roots and whatever its nodes lead on to.
Covers(x, T) ==
  /\ Roots \subseteq T
  /\ \A m \in T \ Diverted(x) : kids[x][m] \subseteq T
  /\ \A m \in T \cap Diverted(x) : Below[m] \subseteq T

\* Every node taken up is in every such set: there is no other way to it.
ReachInv ==
  \A x \in Execs : \A T \in SUBSET Nodes :
    Covers(x, T) => \A n \in Nodes : Taken(x, n) => n \in T

\* A node not taken up before a step of n is one of those that n launches.
LEMMA TakenFrom ==
  ASSUME TypeOK, FlowInv, NEW x \in Execs, NEW n \in Nodes,
         Kept(x, n), Silent(x, n) \/ Logged(x, n),
         NEW y \in Execs, NEW m \in Nodes, Taken(y, m)'
  PROVE  \/ Taken(y, m)
         \/ y = x /\ m \in kids'[x][n] /\ pc'[x][n] \in {"waiting", "errwait"}
<1>1. NodeFlow(x, n)
  BY DEF FlowInv
<1>2. CASE y = x /\ m = n
  BY <1>1, <1>2 DEF Silent, Logged, Taken, Seeded
<1>3. CASE y # x \/ m # n
  BY <1>3 DEF Kept, Taken, Seeded
<1> QED
  BY <1>2, <1>3

\* A step of a node takes it further along the way, and nothing else.
LEMMA ReachStep ==
  ASSUME TypeOK, StageInv, FlowInv, ReachInv, NEW x \in Execs, NEW n \in Nodes, NodeStep(x, n)
  PROVE  ReachInv'
<1>1. Kept(x, n) /\ (Silent(x, n) \/ Logged(x, n)) /\ NodeFlow(x, n)
  BY NodeMoves DEF FlowInv
<1>2. SUFFICES ASSUME NEW y \in Execs, NEW T \in SUBSET Nodes, Covers(y, T)',
                      NEW m \in Nodes, Taken(y, m)'
               PROVE  m \in T
  BY DEF ReachInv
<1>3. CASE y # x
  <2>1. \A k \in Nodes : kids'[y][k] = kids[y][k] /\ log'[y][k] = log[y][k]
    BY <1>1, <1>3 DEF Kept
  <2>0. Diverted(y)' = Diverted(y)
    BY <2>1 DEF Diverted, HasErrorEdge
  <2>2. Covers(y, T)
    BY <1>2, <2>0, <2>1 DEF Covers
  <2>3. Taken(y, m)
    BY <1>1, <1>2, <1>3, TakenFrom
  <2> QED BY <2>2, <2>3 DEF ReachInv
<1>4. CASE y = x
  <2>1. \A k \in Nodes \ {n} : kids'[x][k] = kids[x][k] /\ log'[x][k] = log[x][k]
    BY <1>1 DEF Kept
  <2>2. \A k \in Nodes \ {n} : k \in Diverted(x)' <=> k \in Diverted(x)
    BY <2>1 DEF Diverted, HasErrorEdge
  <2>3. Taken(x, n)
    BY <1>1 DEF Taken, Seeded, Silent, Logged
  <2>4. kids[x][n] \subseteq Children[n] /\ Children[n] \subseteq Below[n]
    BY <1>1, BelowFacts DEF NodeFlow
  <2>5. \/ /\ n \in Diverted(x)' /\ kids'[x][n] \subseteq Children[n]
           /\ n \notin Diverted(x)
        \/ (n \in Diverted(x)' <=> n \in Diverted(x)) /\ kids'[x][n] = kids[x][n]
        \/ n \notin Diverted(x)' /\ n \notin Diverted(x) /\ kids[x][n] = {}
    <3>1. CASE Silent(x, n)
      BY <3>1 DEF Silent, Diverted, HasErrorEdge
    <3>2. CASE Logged(x, n)
      BY <1>1, <3>2 DEF Logged, Diverted, NodeFlow, HasErrorEdge
    <3> QED BY <1>1, <3>1, <3>2
  <2>6. Covers(x, T)
    <3>1. Roots \subseteq T
      BY <1>2, <1>4 DEF Covers
    <3>2. ASSUME NEW k \in T \ Diverted(x) PROVE kids[x][k] \subseteq T
      <4>1. CASE k # n
        BY <1>2, <1>4, <2>1, <2>2, <3>2, <4>1 DEF Covers
      <4>2. CASE k = n
        <5>1. CASE n \in Diverted(x)'
          BY <1>2, <1>4, <2>4, <3>2, <4>2, <5>1 DEF Covers
        <5>2. CASE n \notin Diverted(x)'
          BY <1>2, <1>4, <2>5, <3>2, <4>2, <5>2 DEF Covers
        <5> QED BY <5>1, <5>2
      <4> QED BY <4>1, <4>2
    <3>3. ASSUME NEW k \in T \cap Diverted(x) PROVE Below[k] \subseteq T
      BY <1>2, <1>4, <2>2, <2>5, <3>3 DEF Covers
    <3> QED BY <3>1, <3>2, <3>3 DEF Covers
  <2>7. CASE Taken(x, m)
    BY <2>6, <2>7 DEF ReachInv
  <2>8. CASE m \in kids'[x][n]
    <3>1. n \in T
      BY <2>3, <2>6 DEF ReachInv
    <3>2. CASE n \in Diverted(x)'
      <4>1. Below[n] \subseteq T
        BY <1>2, <1>4, <3>1, <3>2 DEF Covers
      <4> QED BY <2>4, <2>5, <2>8, <3>2, <4>1
    <3>3. CASE n \notin Diverted(x)'
      BY <1>2, <1>4, <2>8, <3>1, <3>3 DEF Covers
    <3> QED BY <3>2, <3>3
  <2> QED BY <1>1, <1>2, <1>4, <2>7, <2>8, TakenFrom
<1> QED
  BY <1>3, <1>4

\* When an execution starts, only roots are taken up.
LEMMA TakenAtStart ==
  ASSUME TypeOK, StageInv, NEW x \in Execs, Start(x), NEW y \in Execs, NEW m \in Nodes, Taken(y, m)'
  PROVE  (y # x /\ Taken(y, m)) \/ (y = x /\ m \in Roots)
<1>1. /\ log' = log /\ \A n \in Nodes : log[x][n] = "none"
      /\ \A n \in Nodes : \/ n \in Restored(x) /\ pc'[x][n] = "resolved" /\ status'[x][n] = "done"
                          \/ /\ n \notin Restored(x) /\ status'[x][n] = "pending"
                             /\ pc'[x][n] = IF n \in Roots THEN "gather" ELSE "idle"
      /\ \A z \in Execs \ {x} : pc'[z] = pc[z]
  BY StartFacts
<1> QED
  BY <1>1 DEF Taken, Seeded

LEMMA ReachInductive == Spec => []ReachInv
<1>1. Init => ReachInv
  BY DEF Init, ReachInv, Taken
<1>2. TypeOK /\ JoinInv /\ FlowInv /\ ReachInv /\ [Next]_vars => ReachInv'
  <2> SUFFICES ASSUME TypeOK, JoinInv, FlowInv, ReachInv, [Next]_vars PROVE ReachInv'
    OBVIOUS
  <2>1. ASSUME NEW x \in Execs, Start(x) PROVE ReachInv'
    <3>1. kids' = kids /\ log' = log
      BY <2>1 DEF Start
    <3>2. SUFFICES ASSUME NEW y \in Execs, NEW T \in SUBSET Nodes, Covers(y, T)',
                          NEW m \in Nodes, Taken(y, m)'
                   PROVE  m \in T
      BY DEF ReachInv
    <3>3. Covers(y, T) /\ Roots \subseteq T
      BY <3>1, <3>2 DEF Covers, Diverted, HasErrorEdge
    <3> QED BY <2>1, <3>2, <3>3, TakenAtStart DEF ReachInv, JoinInv
  <2>2. ASSUME NEW x \in Execs, NEW n \in Nodes, NodeStep(x, n) PROVE ReachInv'
    BY <2>2, ReachStep DEF JoinInv
  <2>3. ASSUME UNCHANGED <<pc, kids, log>> PROVE ReachInv'
    BY <2>3 DEF ReachInv, Covers, Diverted, HasErrorEdge, Taken, Seeded
  <2>4. ASSUME NEW x \in Execs, Finish(x) \/ Timeout(x) \/ Retry(x)
        PROVE  UNCHANGED <<pc, kids, log>>
    BY <2>4 DEF Finish, Timeout, Retry
  <2>5. CASE UNCHANGED vars
    BY <2>3, <2>5 DEF vars
  <2> QED BY <2>1, <2>2, <2>3, <2>4, <2>5 DEF Next, WorkerStep
<1> QED
  BY <1>1, <1>2, TypeCorrect, JoinInductive, FlowInductive, PTL DEF Spec

\* The set the argument is used on: what has resolved, and all that lies
\* below a resolved node whose error took its error edge.
LEMMA SuccessReaches ==
  ASSUME FlowInv, ReachInv, NEW x \in Execs, phase[x] = "SUCCESS",
         NEW n \in Nodes, Taken(x, n), pc[x][n] # "resolved"
  PROVE  \E m \in Diverted(x) : pc[x][m] = "resolved" /\ n \in Below[m]
<1> DEFINE Over(k) == \E m \in Diverted(x) : pc[x][m] = "resolved" /\ k \in Below[m]
           T == {k \in Nodes : pc[x][k] = "resolved" \/ Over(k)}
<1>1. Roots \subseteq T
  BY DEF FlowInv, Roots
<1>2. ASSUME NEW k \in T \ Diverted(x), NEW c \in kids[x][k] PROVE c \in T
  <2>1. NodeFlow(x, k) /\ c \in Children[k] /\ c \in Nodes
    BY <1>2, ChildFacts DEF FlowInv, NodeFlow
  <2>2. CASE pc[x][k] = "resolved"
    BY <1>2, <2>1, <2>2 DEF NodeFlow
  <2>3. CASE Over(k)
    <3>1. PICK m \in Diverted(x) : pc[x][m] = "resolved" /\ k \in Below[m]
      BY <2>3
    <3>2. c \in Below[m]
      BY <2>1, <3>1, BelowFacts DEF Diverted
    <3> QED BY <2>1, <3>1, <3>2
  <2> QED BY <1>2, <2>2, <2>3
<1>3. ASSUME NEW k \in T \cap Diverted(x), NEW c \in Below[k] PROVE c \in T
  <2>1. c \in Nodes /\ k \in Nodes
    BY <1>3, BelowFacts
  <2>2. CASE pc[x][k] = "resolved"
    BY <1>3, <2>1, <2>2
  <2>3. CASE Over(k)
    <3>1. PICK m \in Diverted(x) : pc[x][m] = "resolved" /\ k \in Below[m]
      BY <2>3
    <3>2. c \in Below[m]
      BY <1>3, <2>1, <3>1, BelowFacts DEF Diverted
    <3> QED BY <2>1, <3>1, <3>2
  <2> QED BY <1>3, <2>2, <2>3
<1>4. T \in SUBSET Nodes /\ Covers(x, T)
  BY <1>1, <1>2, <1>3 DEF Covers
<1>5. n \in T
  BY <1>4 DEF ReachInv
<1> QED
  BY <1>5

\* A row that says ERROR keeps saying it: no node writes after that.
LEMMA ErrorRowStays ==
  ASSUME FlowInv, NEW x \in Execs, NEW n \in Nodes, Kept(x, n), Silent(x, n) \/ Logged(x, n),
         NEW y \in Execs, NEW m \in Nodes, log[y][m] = "ERROR"
  PROVE  log'[y][m] = "ERROR"
<1>1. NodeFlow(x, n)
  BY DEF FlowInv
<1>2. CASE y = x /\ m = n
  BY <1>1, <1>2 DEF Silent, Logged, NodeFlow
<1>3. CASE y # x \/ m # n
  BY <1>3 DEF Kept
<1> QED
  BY <1>2, <1>3

LEMMA ErrorBranchInductive == Spec => []ErrorBranchNeedsError
<1>1. Init => ErrorBranchNeedsError
  BY DEF Init, ErrorBranchNeedsError, Taken
<1>2. TypeOK /\ JoinInv /\ FlowInv /\ ErrorBranchNeedsError /\ [Next]_vars =>
        ErrorBranchNeedsError'
  <2> SUFFICES ASSUME TypeOK, JoinInv, FlowInv, ErrorBranchNeedsError, [Next]_vars
               PROVE  ErrorBranchNeedsError'
    OBVIOUS
  <2>1. ASSUME NEW x \in Execs, Start(x) PROVE ErrorBranchNeedsError'
    <3>1. log' = log
      BY <2>1 DEF Start
    <3>2. \A y \in Execs : \A m \in Nodes \ Roots : Taken(y, m)' => Taken(y, m)
      BY <2>1, TakenAtStart DEF JoinInv
    <3> QED BY <3>1, <3>2 DEF ErrorBranchNeedsError
  <2>2. ASSUME NEW x \in Execs, NEW n \in Nodes, NodeStep(x, n) PROVE ErrorBranchNeedsError'
    <3>1. Kept(x, n) /\ (Silent(x, n) \/ Logged(x, n)) /\ NodeFlow(x, n)
      BY <2>2, NodeMoves DEF JoinInv, FlowInv
    <3>2. SUFFICES ASSUME NEW y \in Execs, NEW m \in Nodes \ Roots, Taken(y, m)',
                          \A i \in Indices : EdgeSeq[i].dst = m => EdgeSeq[i].handle = "error"
                   PROVE  \E p \in Parents[m] : log'[y][p] = "ERROR"
      BY DEF ErrorBranchNeedsError
    <3>3. CASE Taken(y, m)
      <4>1. PICK p \in Parents[m] : log[y][p] = "ERROR"
        BY <3>2, <3>3 DEF ErrorBranchNeedsError
      <4>2. log'[y][p] = "ERROR"
        BY <3>1, <4>1, ErrorRowStays, GraphFacts
      <4> QED BY <4>2
    <3>4. CASE ~Taken(y, m)
      <4>1. y = x /\ m \in kids'[x][n] /\ pc'[x][n] \in {"waiting", "errwait"}
        BY <3>1, <3>2, <3>4, TakenFrom
      <4>2. CASE pc'[x][n] = "waiting"
        BY <3>1, <3>2, <4>1, <4>2 DEF Silent, Logged
      <4>3. CASE pc'[x][n] = "errwait"
        <5>1. log'[x][n] = "ERROR" /\ m \in Children[n]
          BY <3>1, <4>1, <4>3 DEF Silent, Logged
        <5> QED BY <4>1, <5>1, ChildFacts
      <4> QED BY <4>1, <4>2, <4>3
    <3> QED BY <3>3, <3>4
  <2>3. ASSUME UNCHANGED <<pc, log>> PROVE ErrorBranchNeedsError'
    BY <2>3 DEF ErrorBranchNeedsError, Taken, Seeded
  <2>4. ASSUME NEW x \in Execs, Finish(x) \/ Timeout(x) \/ Retry(x) PROVE UNCHANGED <<pc, log>>
    BY <2>4 DEF Finish, Timeout, Retry
  <2>5. CASE UNCHANGED vars
    BY <2>3, <2>5 DEF vars
  <2> QED BY <2>1, <2>2, <2>3, <2>4, <2>5 DEF Next, WorkerStep
<1> QED
  BY <1>1, <1>2, TypeCorrect, JoinInductive, FlowInductive, PTL DEF Spec

\* In every workflow, an error takes its error edge or fails the execution, and
\* an error branch runs only after an error.
THEOREM ErrorsTakeTheirEdge == Spec => []ErrorsAreRouted
<1>1. FlowInv /\ ReachInv => FailureSurfaces
  <2> SUFFICES ASSUME FlowInv, ReachInv, NEW x \in Execs, NEW n \in Nodes,
                      phase[x] = "SUCCESS", pc[x][n] = "rejected"
               PROVE  \E m \in Nodes : /\ n \in Below[m] /\ HasErrorEdge(m)
                                       /\ log[x][m] = "ERROR" /\ pc[x][m] = "resolved"
    BY DEF FailureSurfaces
  <2>1. Taken(x, n)
    BY DEF Taken, Seeded
  <2>2. PICK m \in Diverted(x) : pc[x][m] = "resolved" /\ n \in Below[m]
    BY <2>1, SuccessReaches
  <2> QED BY <2>2 DEF Diverted
<1> QED
  BY <1>1, FlowInductive, ReachInductive, ErrorBranchInductive, PTL DEF ErrorsAreRouted

-----------------------------------------------------------------------------
(***************************************************************************)
(* What a SUCCESS says of every node.  Skips spread to all that is still   *)
(* pending below, and in a workflow without error edges and waits a node   *)
(* whose parents are all done is launched by the last of them: the parent  *)
(* that has stored its output and not yet routed it.                       *)
(***************************************************************************)
NoErrorEdge == \A m \in Nodes : ~HasErrorEdge(m)

SkipsSpread ==
  \A x \in Execs, q \in Nodes : status[x][q] = "skipped" =>
    \A c \in Children[q] : status[x][c] # "pending"

Overdue(x, n) ==
  /\ prior[x] = 0 /\ pc[x][n] = "idle" /\ status[x][n] = "pending"
  /\ \A p \in Parents[n] : status[x][p] = "done"
PromptInv ==
  NoErrorEdge /\ Waits = {} =>
    \A x \in Execs : \A n \in Nodes \ Roots :
      Overdue(x, n) => \E p \in Parents[n] : pc[x][p] = "stored"

\* A node is pending from the start of the execution or not at all.
LEMMA PendingWasPending ==
  ASSUME NEW x \in Execs, NEW n \in Nodes, Kept(x, n), Silent(x, n) \/ Logged(x, n), StageInv,
         NEW y \in Execs, NEW m \in Nodes, pc'[y][m] = "idle", status'[y][m] = "pending"
  PROVE  pc[y][m] = "idle" /\ status[y][m] = "pending"
  BY DEF Kept, Silent, Logged

LEMMA SkipsSpreadInductive == Spec => []SkipsSpread
<1>1. Init => SkipsSpread
  BY DEF Init, SkipsSpread
<1>2. TypeOK /\ JoinInv /\ FlowInv /\ SkipsSpread /\ [Next]_vars => SkipsSpread'
  <2> SUFFICES ASSUME TypeOK, JoinInv, FlowInv, SkipsSpread, [Next]_vars PROVE SkipsSpread'
    OBVIOUS
  <2>0. \A q \in Nodes : Children[q] \subseteq Nodes
    BY ChildFacts
  <2>1. ASSUME NEW x \in Execs, Start(x) PROVE SkipsSpread'
    <3>1. /\ \A n \in Nodes : status'[x][n] # "skipped"
          /\ \A y \in Execs \ {x} : status'[y] = status[y]
      BY <2>1, StartFacts DEF JoinInv
    <3> QED BY <3>1 DEF SkipsSpread
  <2>2. ASSUME NEW x \in Execs, NEW n \in Nodes, NodeStep(x, n) PROVE SkipsSpread'
    <3>1. Kept(x, n) /\ (Silent(x, n) \/ Logged(x, n)) /\ NodeFlow(x, n)
      BY <2>2, NodeMoves DEF JoinInv, FlowInv
    <3>2. SUFFICES ASSUME NEW y \in Execs, NEW q \in Nodes, status'[y][q] = "skipped",
                          NEW c \in Children[q], status'[y][c] = "pending"
                   PROVE  FALSE
      BY DEF SkipsSpread
    <3>3. status[y][c] = "pending" /\ c \in Nodes
      BY <2>0, <3>1, <3>2 DEF Kept, Silent, Logged, SkipsSpread
    <3>4. status[y][q] # "skipped"
      BY <3>2, <3>3 DEF SkipsSpread
    <3>5. status[y][q] = "pending"
      BY <3>1, <3>2, <3>4 DEF Kept, Silent, Logged
    <3>6. CASE Route(x, n)
      <4> DEFINE all == SkippedBefore(n, ActiveHandle(x, n), Len(EdgeSeq) + 1)
      <4>1. status[x] \in [Nodes -> Statuses] /\ status' = [status EXCEPT ![x] = Skip(status[x], all)]
        BY <3>6 DEF Route, TypeOK
      <4> HIDE DEF all
      <4>2. y = x
        BY <3>2, <3>4, <4>1 DEF TypeOK
      <4>3. Skip(status[x], all)[q] = "skipped" /\ Skip(status[x], all)[c] = "pending"
        BY <3>2, <4>1, <4>2 DEF TypeOK
      <4>4. q \in Cascade(status[x], all)
        BY <3>5, <4>2, <4>3 DEF Skip
      <4> QED BY <3>3, <4>1, <4>2, <4>3, <4>4, CascadeFacts
    <3>7. CASE ~Route(x, n)
      <4>1. CASE status' = status
        BY <3>2, <3>5, <4>1
      <4>2. CASE \E s \in {"running", "done", "error"} : status' = [status EXCEPT ![x][n] = s]
        BY <3>2, <3>5, <4>2 DEF TypeOK
      <4>3. CASE status' = [status EXCEPT ![x] = [status[x] EXCEPT ![n] = "done"]]
        BY <3>2, <3>5, <4>3 DEF TypeOK
      <4>4. Gather(x, n) \/ Begin(x, n) \/ KidsDone(x, n) \/ ErrorKidFails(x, n) =>
              status' = status \/ status' = [status EXCEPT ![x][n] = "running"]
        BY DEF Gather, Begin, KidsDone, ErrorKidFails
      <4>5. ExecuteOk(x, n) \/ WaitSignal(x, n) => status' = [status EXCEPT ![x][n] = "done"]
        BY DEF ExecuteOk, WaitSignal
      <4>6. ExecuteFails(x, n) \/ RouteFails(x, n) \/ KidFails(x, n) =>
              status' = [status EXCEPT ![x][n] = "error"]
        BY DEF ExecuteFails, RouteFails, KidFails
      <4>7. Handle(x, n) =>
              \/ status' = status
              \/ status' = [status EXCEPT ![x] = [status[x] EXCEPT ![n] = "done"]]
        BY DEF Handle
      <4> QED BY <2>2, <3>7, <4>1, <4>2, <4>3, <4>4, <4>5, <4>6, <4>7 DEF NodeStep
    <3> QED BY <3>6, <3>7
  <2>3. ASSUME UNCHANGED status PROVE SkipsSpread'
    BY <2>3 DEF SkipsSpread
  <2>4. ASSUME NEW x \in Execs, Finish(x) \/ Timeout(x) \/ Retry(x) PROVE UNCHANGED status
    BY <2>4 DEF Finish, Timeout, Retry
  <2>5. CASE UNCHANGED vars
    BY <2>3, <2>5 DEF vars
  <2> QED BY <2>1, <2>2, <2>3, <2>4, <2>5 DEF Next, WorkerStep
<1> QED
  BY <1>1, <1>2, TypeCorrect, JoinInductive, FlowInductive, PTL DEF Spec

\* The last parent to route launches the child, unless it skips it.
LEMMA RouteLaunches ==
  ASSUME TypeOK, StageInv, NoErrorEdge, NEW x \in Execs, NEW p \in Nodes, Route(x, p),
         NEW m \in Nodes, p \in Parents[m], pc[x][m] = "idle", status[x][m] = "pending",
         \A q \in Parents[m] : status[x][q] = "done",
         status'[x][m] = "pending"
  PROVE  pc'[x][m] # "idle"
<1> DEFINE h    == ActiveHandle(x, p)
           next == NextNodes(x, p, h)
           all  == SkippedBefore(p, h, Len(EdgeSeq) + 1)
<1>1. /\ status[x] \in [Nodes -> Statuses] /\ pc[x][p] = "stored"
      /\ status' = [status EXCEPT ![x] = Skip(status[x], all)]
      /\ pc' = [pc EXCEPT ![x] = [Launched(x, next) EXCEPT ![p] = "waiting"]]
  BY DEF Route, TypeOK
<1>2. PICK i \in Indices : EdgeSeq[i].src = p /\ EdgeSeq[i].dst = m
  BY DEF Parents
<1>3. m \in Children[p]
  BY ChildFacts
<1>4. HandleOf[p][m] # "error"
  <2>1. PICK j \in Indices : /\ EdgeSeq[j].src = p /\ EdgeSeq[j].dst = m
                             /\ HandleOf[p][m] = EdgeSeq[j].handle
    BY <1>3, HandleFacts
  <2>2. ErrorChildren[p] = {}
    BY DEF NoErrorEdge, HasErrorEdge
  <2> QED BY <2>1, <2>2 DEF ErrorChildren
<1>5. ~Inactive(p, h, m)
  <2> SUFFICES ASSUME Inactive(p, h, m) PROVE FALSE
    OBVIOUS
  <2>1. Len(EdgeSeq) \in Nat
    BY WorkflowAssumption, LenProperties
  <2>2. i < Len(EdgeSeq) + 1
    BY <2>1 DEF Indices
  <2>3. m \in all
    BY <1>2, <2>2 DEF SkippedBefore
  <2> HIDE DEF all
  <2>4. Skip(status[x], all)[m] = "skipped"
    BY <1>1, <2>3, CascadeFacts
  <2> QED BY <1>1, <2>4 DEF TypeOK
<1>6. Ready(Skip(status[x], SkippedBefore(p, h, i)), m)
  <2> DEFINE before == SkippedBefore(p, h, i)
  <2> HIDE DEF before
  <2>1. \A q \in Parents[m] : Skip(status[x], before)[q] = "done"
    BY <1>1, SkipFacts, GraphFacts
  <2> QED BY <2>1 DEF Ready, before
<1>7. m \in next
  BY <1>2, <1>4, <1>5, <1>6 DEF NextNodes
<1> HIDE DEF next
<1> QED
  BY <1>1, <1>7 DEF Launched, TypeOK

LEMMA PromptStep ==
  ASSUME TypeOK, StageInv, FlowInv, PromptInv, NEW x \in Execs, NEW n \in Nodes, NodeStep(x, n)
  PROVE  PromptInv'
<1>1. Kept(x, n) /\ (Silent(x, n) \/ Logged(x, n)) /\ NodeFlow(x, n)
  BY NodeMoves DEF FlowInv
<1>2. SUFFICES ASSUME NoErrorEdge, Waits = {}, NEW y \in Execs, NEW m \in Nodes \ Roots,
                      Overdue(y, m)'
               PROVE  \E p \in Parents[m] : pc'[y][p] = "stored"
  BY DEF PromptInv, NoErrorEdge, HasErrorEdge
<1>3. /\ prior'[y] = 0 /\ pc'[y][m] = "idle" /\ status'[y][m] = "pending"
      /\ \A p \in Parents[m] : p \in Nodes /\ status'[y][p] = "done"
  BY <1>2, GraphFacts DEF Overdue
<1>4. pc[y][m] = "idle" /\ status[y][m] = "pending"
  BY <1>1, <1>3, PendingWasPending
<1>5. prior[y] = 0
  <2>1. n \notin Waits
    BY <1>2
  <2> QED BY <1>3, <2>1 DEF NodeStep, Gather, Begin, ExecuteOk, ExecuteFails, WaitSignal, Route,
                RouteFails, KidsDone, KidFails, ErrorKidFails, Handle
<1>6. CASE \E p \in Parents[m] : status[y][p] # "done"
  <2>1. PICK p \in Parents[m] : status[y][p] # "done"
    BY <1>6
  <2>2. p \in Nodes /\ status'[y][p] = "done"
    BY <1>3
  <2>3. y = x /\ p = n
    BY <1>1, <2>1, <2>2 DEF Kept
  <2>4. pc'[x][n] = "stored"
    <3>1. NodeFlow(x, n) /\ ~HasErrorEdge(n)
      BY <1>1, <1>2 DEF NoErrorEdge
    <3>2. pc[x][n] # "stored"
      BY <2>1, <2>3 DEF StageInv
    <3> QED BY <1>1, <1>2, <2>1, <2>2, <2>3, <3>1, <3>2 DEF Silent, Logged
  <2> QED BY <2>3, <2>4
<1>7. CASE \A p \in Parents[m] : status[y][p] = "done"
  <2>1. PICK p \in Parents[m] : pc[y][p] = "stored"
    BY <1>2, <1>4, <1>5, <1>7 DEF PromptInv, Overdue
  <2>2. p \in Nodes /\ status'[y][p] = "done"
    BY <1>3
  <2>3. CASE y # x \/ p # n
    BY <1>1, <2>1, <2>2, <2>3 DEF Kept
  <2>4. CASE y = x /\ p = n
    <3>1. Route(x, n) \/ RouteFails(x, n)
      BY <2>1, <2>4 DEF NodeStep, Gather, Begin, ExecuteOk, ExecuteFails, WaitSignal,
                KidsDone, KidFails, ErrorKidFails, Handle
    <3>2. CASE RouteFails(x, n)
      BY <2>2, <2>4, <3>2 DEF RouteFails, TypeOK
    <3>3. CASE Route(x, n)
      <4>1. pc'[x][m] # "idle"
        BY <1>2, <1>3, <1>4, <1>7, <2>4, <3>3, RouteLaunches
      <4> QED BY <1>3, <2>4, <4>1
    <3> QED BY <3>1, <3>2, <3>3
  <2> QED BY <2>1, <2>3, <2>4
<1> QED
  BY <1>6, <1>7

LEMMA PromptInductive == Spec => []PromptInv
<1>1. Init => PromptInv
  BY GraphFacts DEF Init, PromptInv, Overdue, Roots
<1>2. TypeOK /\ JoinInv /\ FlowInv /\ PromptInv /\ [Next]_vars => PromptInv'
  <2> SUFFICES ASSUME TypeOK, JoinInv, FlowInv, PromptInv, [Next]_vars PROVE PromptInv'
    OBVIOUS
  <2>1. ASSUME NEW x \in Execs, Start(x) PROVE PromptInv'
    <3>1. SUFFICES ASSUME NoErrorEdge, Waits = {}, NEW y \in Execs, NEW m \in Nodes \ Roots,
                          Overdue(y, m)'
                   PROVE  \E p \in Parents[m] : pc'[y][p] = "stored"
      BY DEF PromptInv, NoErrorEdge, HasErrorEdge
    <3>2. PICK p \in Parents[m] : p \in Nodes
      BY GraphFacts DEF Roots
    <3>3. CASE y = x
      <4>1. prior[x] = 0 /\ status'[x][p] = "done"
        BY <2>1, <3>1, <3>2, <3>3 DEF Overdue, Start
      <4>2. p \in Restored(x)
        BY <2>1, <3>2, <4>1, StartFacts DEF JoinInv
      <4> QED BY <4>1, <4>2 DEF Restored
    <3>4. CASE y # x
      <4>1. pc'[y] = pc[y] /\ status'[y] = status[y] /\ prior' = prior
        BY <2>1, <3>4, StartFacts DEF JoinInv
      <4> QED BY <3>1, <4>1 DEF PromptInv, Overdue
    <3> QED BY <3>3, <3>4
  <2>2. ASSUME NEW x \in Execs, NEW n \in Nodes, NodeStep(x, n) PROVE PromptInv'
    BY <2>2, PromptStep DEF JoinInv
  <2>3. ASSUME UNCHANGED <<pc, status>>, \A y \in Execs : prior'[y] = 0 => prior[y] = 0
        PROVE  PromptInv'
    BY <2>3 DEF PromptInv, Overdue, NoErrorEdge, HasErrorEdge
  <2>4. ASSUME NEW x \in Execs, Finish(x) \/ Timeout(x) PROVE PromptInv'
    BY <2>3, <2>4 DEF Finish, Timeout
  <2>5. ASSUME NEW x \in Execs, Retry(x) PROVE PromptInv'
    <3>1. x # 0 /\ UNCHANGED <<pc, status>> /\ Continue(x)
      BY <2>5, WorkflowAssumption DEF Retry
    <3>2. \A y \in Execs : prior'[y] = 0 => prior[y] = 0
      BY <3>1 DEF Continue, TypeOK
    <3> QED BY <2>3, <3>1, <3>2
  <2>6. CASE UNCHANGED vars
    BY <2>3, <2>6 DEF vars
  <2> QED BY <2>1, <2>2, <2>4, <2>5, <2>6 DEF Next, WorkerStep
<1> QED
  BY <1>1, <1>2, TypeCorrect, JoinInductive, FlowInductive, PTL DEF Spec

\* The nodes can be numbered along the edges: the workflow has no cycle.
Acyclic == \E rank \in [Nodes -> Nat] : \A i \in Indices : rank[EdgeSeq[i].src] < rank[EdgeSeq[i].dst]

\* With no error edge, what SUCCESS leaves behind has resolved.
LEMMA SuccessCompletes == TypeOK /\ FlowInv /\ ReachInv => SuccessIsComplete
<1> SUFFICES ASSUME TypeOK, FlowInv, ReachInv, NEW x \in Execs, NEW n \in Nodes,
                    phase[x] = "SUCCESS", NoErrorEdge, Taken(x, n)
             PROVE  pc[x][n] = "resolved" /\ log[x][n] = "SUCCESS"
  BY DEF SuccessIsComplete, NoErrorEdge
<1>1. pc[x][n] = "resolved"
  BY SuccessReaches DEF Diverted, NoErrorEdge
<1>2. NodeFlow(x, n) /\ ~HasErrorEdge(n) /\ log[x][n] \in {"none", "RUNNING", "SUCCESS", "ERROR"}
  BY DEF FlowInv, NoErrorEdge, TypeOK
<1> QED
  BY <1>1, <1>2 DEF Taken, Seeded, NodeFlow

\* The first node along the edges that is neither done nor skipped would have
\* been launched.
LEMMA SuccessAccounts ==
  ASSUME Acyclic, TypeOK, StageInv, FlowInv, ReachInv, SkipsSpread, PromptInv
  PROVE  EveryNodeAccountedFor
<1> SUFFICES ASSUME NEW x \in Execs, phase[x] = "SUCCESS", prior[x] = 0, Waits = {}, NoErrorEdge,
                    NEW n \in Nodes, status[x][n] \notin {"done", "skipped"}
             PROVE  FALSE
  BY DEF EveryNodeAccountedFor, NoErrorEdge
<1> DEFINE Bad == {m \in Nodes : status[x][m] \notin {"done", "skipped"}}
<1>1. PICK rank \in [Nodes -> Nat] :
        \A i \in Indices : rank[EdgeSeq[i].src] < rank[EdgeSeq[i].dst]
  BY DEF Acyclic
<1>2. PICK k \in {rank[m] : m \in Bad} : \A j \in {rank[m] : m \in Bad} : k <= j
  <2>1. {rank[m] : m \in Bad} \subseteq Nat /\ {rank[m] : m \in Bad} # {}
    OBVIOUS
  <2> QED BY <2>1, LeastNatural
<1>3. PICK b \in Bad : k = rank[b]
  BY <1>2
<1>4. b \in Nodes /\ status[x][b] \in Statuses /\ NodeFlow(x, b) /\ pc[x][b] \in Stages
  BY <1>3 DEF FlowInv, TypeOK
<1>5. \A m \in Nodes : pc[x][m] \in {"idle", "resolved"}
  <2>1. ASSUME NEW m \in Nodes, pc[x][m] # "idle" PROVE pc[x][m] = "resolved"
    <3>1. CASE Taken(x, m)
      BY <3>1, SuccessReaches DEF Diverted, NoErrorEdge
    <3>2. CASE ~Taken(x, m)
      BY <2>1, <3>2 DEF Taken, Seeded
    <3> QED BY <3>1, <3>2
  <2> QED BY <2>1
<1>6. pc[x][b] = "idle" /\ status[x][b] = "pending"
  <2>1. pc[x][b] # "resolved"
    BY <1>3, <1>4 DEF NodeFlow
  <2>2. pc[x][b] = "idle"
    BY <1>4, <1>5, <2>1
  <2> QED BY <1>3, <1>4, <2>2 DEF StageInv, Statuses
<1>7. b \in Nodes \ Roots
  BY <1>4, <1>6 DEF FlowInv
<1>8. ASSUME NEW p \in Parents[b] PROVE p \in Nodes /\ status[x][p] = "done"
  <2>1. p \in Nodes /\ b \in Children[p]
    BY <1>4, GraphFacts, ChildFacts
  <2>2. PICK i \in Indices : EdgeSeq[i].src = p /\ EdgeSeq[i].dst = b
    BY <1>4 DEF Parents
  <2>3. rank[p] < rank[b]
    BY <1>1, <2>2
  <2>4. p \notin Bad
    BY <1>1, <1>2, <1>3, <1>4, <2>1, <2>3
  <2>5. status[x][p] # "skipped"
    BY <1>6, <2>1 DEF SkipsSpread
  <2> QED BY <2>1, <2>4, <2>5
<1>9. \E p \in Parents[b] : pc[x][p] = "stored"
  BY <1>6, <1>7, <1>8 DEF PromptInv, Overdue
<1> QED
  BY <1>5, <1>8, <1>9

\* In every workflow without a cycle, the SUCCESS that is written when the roots
\* resolve holds for every node.  A cycle no root leads to is never run at all,
\* so the hypothesis cannot be dropped.
THEOREM SuccessSpeaksForAll ==
  ASSUME Acyclic PROVE Spec => []SuccessIsWhole
<1>1. TypeOK /\ JoinInv /\ FlowInv /\ ReachInv /\ SkipsSpread /\ PromptInv => SuccessIsWhole
  BY SuccessCompletes, SuccessAccounts DEF SuccessIsWhole, JoinInv
<1> QED
  BY <1>1, TypeCorrect, JoinInductive, FlowInductive, ReachInductive, SkipsSpreadInductive,
     PromptInductive, PTL
=============================================================================
