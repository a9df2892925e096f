----------------------------- MODULE Sandboxes -----------------------------
(* Vision (hdv-foundation/vision): sandbox sessions, stubs or gVisor containers,
   with the monitor that keeps account of them, the manager that rations them,
   and the engine that runs one tool of a persona in a session of its own.
   Docker is external: a launch may fail, or succeed after its caller gave up, a
   removal may fail, which nobody hears, and a container ends by itself when its
   keep-alive is over. *)
EXTENDS Naturals, FiniteSets, Sequences

CONSTANTS MaxConcurrent, MaxBoxes, MaxRuns  \* the manager's cap; bounds on sessions and on runs of one

ASSUME SandboxAssumption == MaxConcurrent \in Nat /\ MaxBoxes \in Nat /\ MaxRuns \in Nat

VARIABLES
  boxes,    \* the sessions made, each with what the monitor, the manager and docker hold of it
  rejected, \* sessions the manager refused
  gvisor,   \* cachedAvailable: isGvisorAvailable probes once
  strays    \* personas an execution left behind, by what it threw

sandboxVars == <<boxes, rejected, gvisor, strays>>

Usage == [runs |-> 0, timeouts |-> 0, killed |-> FALSE]
NewBox(real, by) ==
  [real |-> real, by |-> by, status |-> "created", own |-> Usage, handle |-> FALSE,  \* the session's containerId
   seen |-> Usage, ended |-> FALSE,                                               \* ResourceMonitor
   slot |-> by = "manager", docker |-> FALSE, astray |-> FALSE]                   \* the manager's set; its container, one it lost sight of

Started(b, launch) ==
  IF ~b.real \/ launch = "ok" THEN [b EXCEPT !.status = "running", !.handle = b.real, !.docker = b.real]
  ELSE [b EXCEPT !.astray = @ \/ launch = "late"]

Noted(u, timedOut) ==
  [u EXCEPT !.runs = @ + 1, !.timeouts = IF timedOut THEN @ + 1 ELSE @, !.killed = @ \/ timedOut]
account(b, timedOut) == [b EXCEPT !.own = Noted(@, timedOut), !.seen = Noted(@, timedOut)]

Stopped(b, removed) ==
  IF b.status = "stopped" THEN b
  ELSE [b EXCEPT !.status = "stopped", !.handle = FALSE, !.docker = FALSE, !.astray = @ \/ (b.docker /\ ~removed),
                 !.ended = TRUE, !.slot = FALSE]
Killed_KeepsSlot(b, removed) == [Stopped(b, removed) EXCEPT !.slot = b.slot]
Killed(b, removed) == Stopped(b, removed)

(* A runner that throws is a failed run; one over the time limit, by the
   duration it reports or by docker exec, kills the session. *)
Outcomes == {"ok", "fails", "throws", "slow"}
Ran(b, outcome, removed) == IF outcome = "slow" THEN Killed(account(b, TRUE), removed) ELSE account(b, FALSE)

-----------------------------------------------------------------------------
Add(b) == Len(boxes) < MaxBoxes /\ boxes' = Append(boxes, b)

SlotsTaken == Cardinality({i \in DOMAIN boxes : boxes[i].slot})
create ==
  /\ UNCHANGED <<gvisor, strays>>
  /\ \/ SlotsTaken >= MaxConcurrent /\ rejected < 1 /\ rejected' = rejected + 1 /\ UNCHANGED boxes
     \/ SlotsTaken < MaxConcurrent /\ Add(NewBox(FALSE, "manager")) /\ UNCHANGED rejected

isGvisorAvailable(yes) == /\ gvisor \in {"unknown", IF yes THEN "yes" ELSE "no"}
                          /\ gvisor' = IF yes THEN "yes" ELSE "no"
createSandboxSession(real) ==
  /\ isGvisorAvailable(real) /\ Add(NewBox(real, "caller"))
  /\ UNCHANGED <<rejected, strays>>

Step(i, b) == boxes' = [boxes EXCEPT ![i] = b] /\ UNCHANGED <<rejected, gvisor, strays>>
start(i) ==
  /\ boxes[i].status = "created" /\ boxes[i].by # "engine"  \* the engine keeps its sessions to itself
  /\ \E launch \in {"ok", "fails", "late"} : Step(i, Started(boxes[i], launch))
run(i) ==
  /\ boxes[i].status = "running" /\ boxes[i].own.runs < MaxRuns
  /\ \E outcome \in Outcomes, removed \in BOOLEAN : Step(i, Ran(boxes[i], outcome, removed))
stop(i) == boxes[i].status # "stopped" /\ \E removed \in BOOLEAN : Step(i, Stopped(boxes[i], removed))
KeepAliveEnds(i) == \/ boxes[i].docker /\ Step(i, [boxes[i] EXCEPT !.docker = FALSE])
                    \/ boxes[i].astray /\ Step(i, [boxes[i] EXCEPT !.astray = FALSE])

(* ExecutionEngine.execute: a launch that fails, or a persona whose strict live
   inference does, leaves the call with the persona never terminated. *)
Leaves(where) == strays' = strays \cup {where} /\ UNCHANGED rejected
Report(b, tool, removed) == Stopped(IF tool = "unknown" THEN b ELSE Ran(b, tool, removed), removed)
execute ==
  \/ Leaves("persona") /\ UNCHANGED <<boxes, gvisor>>
  \/ \E real \in BOOLEAN :
       /\ isGvisorAvailable(real)
       /\ \/ \E launch \in {"fails", "late"} : real /\ Add(Started(NewBox(real, "engine"), launch)) /\ Leaves("launch")
          \/ \E tool \in Outcomes \cup {"unknown"}, removed \in BOOLEAN :
               /\ Add(Report(Started(NewBox(real, "engine"), "ok"), tool, removed))
               /\ UNCHANGED <<rejected, strays>>

SandboxInit == boxes = <<>> /\ rejected = 0 /\ gvisor = "unknown" /\ strays = {}
SandboxNext ==
  \/ create \/ execute \/ \E real \in BOOLEAN : createSandboxSession(real)
  \/ \E i \in DOMAIN boxes : start(i) \/ run(i) \/ stop(i) \/ KeepAliveEnds(i)
SandboxSpec == SandboxInit /\ [][SandboxNext]_sandboxVars

-----------------------------------------------------------------------------
(* Manager: its slots are exactly its sessions that are not over, however they
   ended, and never more than the cap. *)
SlotsAreLive ==
  /\ \A i \in DOMAIN boxes : boxes[i].slot <=> boxes[i].by = "manager" /\ boxes[i].status # "stopped"
  /\ SlotsTaken <= MaxConcurrent

(* Monitor: its account of a session is the session's own, killed means a run
   timed out, and a session is closed there exactly when it has stopped. *)
MonitorAgrees ==
  \A i \in DOMAIN boxes :
    /\ boxes[i].seen = boxes[i].own
    /\ boxes[i].own.killed <=> boxes[i].own.timeouts > 0
    /\ boxes[i].own.killed => boxes[i].status = "stopped"
    /\ boxes[i].ended <=> boxes[i].status = "stopped"

(* Docker: a container is running that nobody lost sight of only while its
   session, which knows it, is running. *)
ContainersAreOwned ==
  \A i \in DOMAIN boxes : boxes[i].docker => boxes[i].real /\ boxes[i].handle /\ boxes[i].status = "running"

(* Engine: whatever a tool does, the session of an execution is over when it
   returns; only one whose launch threw stays open. *)
ExecutionsClose ==
  \A i \in DOMAIN boxes :
    boxes[i].by = "engine" /\ boxes[i].status # "stopped" => boxes[i].real /\ "launch" \in strays

\* Manager, monitor, engine and Docker agree on the sessions, however they end.
SessionsAreAccounted ==
  /\ SlotsAreLive
  /\ MonitorAgrees
  /\ ContainersAreOwned
  /\ ExecutionsClose

(* A session that has stopped keeps its account, its slot free and its status. *)
StoppedIsFinal ==  \* of a step
  \A i \in DOMAIN boxes :
    boxes[i].status = "stopped" =>
      /\ boxes'[i].status = "stopped" /\ boxes'[i].own = boxes[i].own
      /\ boxes'[i].seen = boxes[i].seen /\ ~boxes'[i].slot
=============================================================================
