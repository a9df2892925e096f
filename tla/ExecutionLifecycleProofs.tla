----------------------- MODULE ExecutionLifecycleProofs -----------------------
(***************************************************************************)
(* Theorems about executions and their jobs, for any number of workflows,  *)
(* executions and workers, any limits and error workflows, and any mix of  *)
(* requests, stalls and crashes.                                           *)
(***************************************************************************)
EXTENDS ExecutionLifecycle, FiniteSetTheorems, TLAPS

\* Run 0 is no run; the first delivery is run 1.
LEMMA RunsFacts == 0 \notin Runs /\ 1 \in Runs /\ Runs \subseteq Nat
  BY DEF Runs, Attempts, MaxStalled

\* A row that does not exist has no job; a lock is held on active jobs only; a
\* job that may still be delivered has attempts and stalls left.
JobInv ==
  \A x \in Execs :
    /\ row[x] = "absent" => job[x] = "none" /\ maker[x] = <<0, 0>>
                            /\ \A r \in Runs : run[x][r] = "free"
    /\ lock[x] # 0 => job[x] = "active"
    /\ job[x] \in {"none", "waiting", "active"} => tries[x] < Attempts /\ stalls[x] <= MaxStalled

\* A step that leaves the jobs and the runs alone and makes no row absent.
LEMMA JobsKept ==
  ASSUME JobInv, UNCHANGED <<job, lock, tries, stalls, run, maker>>,
         \A x \in Execs : row'[x] = "absent" => row[x] = "absent"
  PROVE  JobInv'
  BY DEF JobInv

\* A step of one run: its stage changes, and the row and the job of the
\* execution do not.
LEMMA StageKept ==
  ASSUME TypeOK, JobInv, NEW x \in Execs, NEW r \in Runs, NEW s,
         run[x][r] # "free", Stage(x, r, s),
         UNCHANGED <<job, lock, tries, stalls, maker>>,
         \A y \in Execs : row'[y] = "absent" => row[y] = "absent"
  PROVE  JobInv'
<1>1. \A y \in Execs : row'[y] = "absent" => y # x
  BY DEF JobInv
<1>2. \A y \in Execs \ {x} : run'[y] = run[y]
  BY DEF Stage, TypeOK
<1> QED
  BY <1>1, <1>2 DEF JobInv

\* The types of a stage change.
LEMMA StageType ==
  ASSUME TypeOK, NEW x \in Execs, NEW r \in Runs, NEW s \in Stages, Stage(x, r, s)
  PROVE  run' \in [Execs -> [Runs -> Stages]]
  BY DEF TypeOK, Stage

LEMMA EmitType ==
  ASSUME TypeOK, NEW x \in Execs, NEW k \in Kinds, Emit(x, k)
  PROVE  events' \subseteq Workers \X Execs \X Kinds
<1>1. {<<w, x, k>> : w \in {v \in Workers : watch[v] = "watching"}} \subseteq Workers \X Execs \X Kinds
  OBVIOUS
<1> QED
  BY <1>1 DEF Emit, TypeOK

\* A new row.
LEMMA CreateStep ==
  ASSUME TypeOK, JobInv, NEW y \in Execs, NEW f \in Workflows, NEW d \in {"none", "given"},
         NEW m \in (Execs \cup {0}) \X (Runs \cup {0}), Create(y, f, d, m)
  PROVE  /\ row' \in [Execs -> Rows] /\ flow' \in [Execs -> Workflows]
         /\ data' \in [Execs -> {"none", "given", "empty"}]
         /\ outputs' \subseteq Execs
         /\ maker' \in [Execs -> (Execs \cup {0}) \X (Runs \cup {0})]
         /\ \A x \in Execs : row'[x] = "absent" => row[x] = "absent" /\ maker'[x] = maker[x]
  BY DEF Create, TypeOK, Rows

\* One lemma per group of actions: types and jobs are preserved.
LEMMA RequestStep ==
  ASSUME TypeOK, JobInv, Request
  PROVE  TypeOK' /\ JobInv'
<1> USE DEF rowVars, jobVars, runVars, watchVars, hist
<1>1. ASSUME NEW y \in Execs, Submit(y) PROVE TypeOK' /\ JobInv'
  <2>1. PICK f \in Workflows, d \in Kept : Create(y, f, d, <<0, 0>>)
    BY <1>1 DEF Submit
  <2>2. d \in {"none", "given"} /\ <<0, 0>> \in (Execs \cup {0}) \X (Runs \cup {0})
    BY LifecycleAssumption
  <2>3. UNCHANGED <<jobVars, runVars, watchVars, events, cancels, notes, hist>>
    BY <1>1 DEF Submit
  <2>4. TypeOK'
    BY <2>1, <2>2, <2>3, CreateStep DEF TypeOK
  <2>5. JobInv'
    BY <2>1, <2>2, <2>3, CreateStep DEF JobInv
  <2> QED BY <2>4, <2>5
<1>2. ASSUME NEW x \in Execs, NEW y \in Execs, Retry(x, y) PROVE TypeOK' /\ JobInv'
  <2>1. Create(y, flow[x], "none", <<x, 0>>) /\ flow[x] \in Workflows
    BY <1>2 DEF Retry, TypeOK
  <2>2. <<x, 0>> \in (Execs \cup {0}) \X (Runs \cup {0})
    OBVIOUS
  <2>3. UNCHANGED <<job, lock, tries, stalls, runVars, watchVars, events, cancels, notes, hist>>
    BY <1>2 DEF Retry
  <2>4. trigger' \in [Execs -> {"given", "empty"}]
    BY <1>2 DEF Retry, TypeOK
  <2>5. TypeOK'
    BY <2>1, <2>2, <2>3, <2>4, CreateStep DEF TypeOK
  <2>6. JobInv'
    BY <2>1, <2>2, <2>3, CreateStep DEF JobInv
  <2> QED BY <2>5, <2>6
<1>3. ASSUME NEW x \in Execs, Enqueue(x) PROVE TypeOK' /\ JobInv'
  <2>1. TypeOK'
    BY <1>3 DEF Enqueue, TypeOK
  <2>2. JobInv'
    BY <1>3 DEF Enqueue, TypeOK, JobInv
  <2> QED BY <2>1, <2>2
<1>4. ASSUME NEW x \in Execs, CancelCheck(x) \/ Delete(x) PROVE TypeOK' /\ JobInv'
  <2>1. TypeOK'
    <3>1. CASE CancelCheck(x)
      BY <3>1 DEF CancelCheck, TypeOK
    <3>2. CASE Delete(x)
      <4>1. row' \in [Execs -> Rows]
        BY <3>2 DEF Delete, TypeOK, Rows
      <4> QED BY <3>2, <4>1 DEF Delete, TypeOK
    <3> QED BY <1>4, <3>1, <3>2
  <2>2. JobInv'
    BY <1>4, JobsKept DEF CancelCheck, Delete, TypeOK
  <2> QED BY <2>1, <2>2
<1>5. ASSUME NEW x \in Execs, CancelWrite(x) PROVE TypeOK' /\ JobInv'
  <2>1. UNCHANGED <<flow, maker, jobVars, runVars, watchVars, events, notes, crashes>>
        /\ cancels' \subseteq Execs
    BY <1>5 DEF CancelWrite, TypeOK
  <2>3. /\ row' \in [Execs -> Rows] /\ data' \in [Execs -> {"none", "given", "empty"}]
        /\ outputs' \subseteq Execs /\ cancelled' \subseteq Execs /\ forced' \subseteq Execs
    <3>1. CASE row[x] = "deleted"
      BY <1>5, <3>1 DEF CancelWrite, TypeOK
    <3>2. CASE row[x] # "deleted"
      <4>1. /\ row' = [row EXCEPT ![x] = "FAILED"] /\ data' = [data EXCEPT ![x] = "none"]
            /\ outputs' = outputs \ {x} /\ cancelled' = cancelled \cup {x} /\ forced' = forced \cup {x}
        BY <1>5, <3>2 DEF CancelWrite
      <4> QED BY <4>1 DEF TypeOK, Rows
    <3> QED BY <3>1, <3>2
  <2>4. TypeOK'
    BY <2>1, <2>3 DEF TypeOK
  <2>2. JobInv'
    BY <1>5, JobsKept DEF CancelWrite, TypeOK
  <2> QED BY <2>2, <2>4
<1>6. ASSUME NEW x \in Execs, NoteRead(x) PROVE TypeOK' /\ JobInv'
  <2>1. [exec |-> x, data |-> data[x], outputs |-> x \in outputs]
          \in [exec : Execs, data : {"none", "given", "empty"}, outputs : BOOLEAN]
    <3>1. (x \in outputs) \in BOOLEAN
      <4>1. CASE x \in outputs
        BY <4>1
      <4>2. CASE x \notin outputs
        BY <4>2
      <4> QED BY <4>1, <4>2
    <3> QED BY <3>1 DEF TypeOK
  <2>2. TypeOK'
    BY <1>6, <2>1 DEF NoteRead, TypeOK
  <2>3. JobInv'
    BY <1>6, JobsKept DEF NoteRead
  <2> QED BY <2>2, <2>3
<1>7. ASSUME NEW x \in Execs, NoteWrite(x) PROVE TypeOK' /\ JobInv'
  <2>1. PICK m \in notes :
          /\ notes' = notes \ {m}
          /\ \/ UNCHANGED <<data, outputs>>
             \/ /\ data' = [data EXCEPT ![x] = m.data]
                /\ outputs' = outputs \cup {x} \/ outputs' = outputs \ {x}
    BY <1>7 DEF NoteWrite
  <2>2. m.data \in {"none", "given", "empty"}
    BY DEF TypeOK
  <2>3. data' \in [Execs -> {"none", "given", "empty"}] /\ outputs' \subseteq Execs
    BY <2>1, <2>2 DEF TypeOK
  <2>4. UNCHANGED <<row, flow, maker, jobVars, runVars, watchVars, events, cancels, hist>>
    BY <1>7 DEF NoteWrite
  <2>5. TypeOK'
    BY <2>1, <2>3, <2>4 DEF TypeOK
  <2>6. JobInv'
    BY <2>4, JobsKept
  <2> QED BY <2>5, <2>6
<1> QED
  BY <1>1, <1>2, <1>3, <1>4, <1>5, <1>6, <1>7 DEF Request

LEMMA ThrowStep ==
  ASSUME TypeOK, JobInv, NEW x \in Execs, NEW r \in Runs, run[x][r] # "free", Throw(x, r)
  PROVE  TypeOK' /\ JobInv'
<1> USE DEF rowVars, watchVars, hist
<1>1. run' \in [Execs -> [Runs -> Stages]]
  BY StageType DEF Throw, Stages
<1>2. CASE lock[x] # r
  <2>1. UNCHANGED <<lock, tries, job, events, rowVars, trigger, stalls, host, watchVars, cancels, notes, hist>>
    BY <1>2 DEF Throw
  <2>2. TypeOK'
    BY <1>1, <2>1 DEF TypeOK
  <2>3. JobInv'
    BY <2>1, StageKept DEF Throw
  <2> QED BY <2>2, <2>3
<1>3. CASE lock[x] = r
  <2>1. /\ lock' = [lock EXCEPT ![x] = 0]
        /\ tries' = [tries EXCEPT ![x] = @ + 1]
        /\ UNCHANGED <<rowVars, trigger, stalls, host, watchVars, cancels, notes, hist>>
        /\ Stage(x, r, "ended")
    BY <1>3 DEF Throw
  <2>2. /\ job[x] = "active" /\ tries[x] < Attempts /\ stalls[x] <= MaxStalled /\ row[x] # "absent"
    BY <1>3, RunsFacts DEF JobInv
  <2>3. /\ tries' \in [Execs -> 0..Attempts] /\ lock' \in [Execs -> Runs \cup {0}]
    <3>1. tries[x] + 1 \in 0..Attempts
      <4>1. tries[x] \in 0..Attempts
        BY DEF TypeOK
      <4> QED BY <2>2, <4>1 DEF Attempts
    <3> QED BY <2>1, <3>1 DEF TypeOK
  <2>4. \/ job' = [job EXCEPT ![x] = "waiting"] /\ tries[x] + 1 < Attempts /\ events' = events
        \/ job' = [job EXCEPT ![x] = "failed"] /\ Emit(x, "failed")
    BY <1>3 DEF Throw
  <2>5. job' \in [Execs -> {"none", "waiting", "active", "completed", "failed"}]
    BY <2>4 DEF TypeOK
  <2>6. events' \subseteq Workers \X Execs \X Kinds
    BY <2>4, EmitType DEF TypeOK, Kinds
  <2>7. TypeOK'
    BY <1>1, <2>1, <2>3, <2>5, <2>6 DEF TypeOK
  <2>8. JobInv'
    <3>1. \A y \in Execs \ {x} : /\ job'[y] = job[y] /\ lock'[y] = lock[y] /\ tries'[y] = tries[y]
                                 /\ run'[y] = run[y]
      BY <2>1, <2>4 DEF TypeOK, Stage
    <3>2. /\ lock'[x] = 0 /\ job'[x] \in {"waiting", "failed"}
          /\ job'[x] = "waiting" => tries'[x] < Attempts
      BY <2>1, <2>4 DEF TypeOK
    <3> QED BY <2>1, <2>2, <3>1, <3>2 DEF JobInv
  <2> QED BY <2>7, <2>8
<1> QED
  BY <1>2, <1>3

\* A step of one run that may set the row, the data and the outputs of its
\* execution.
LEMMA RunStep ==
  ASSUME TypeOK, JobInv, NEW x \in Execs, NEW r \in Runs, NEW s \in Stages,
         run[x][r] # "free", Stage(x, r, s),
         \/ row' = row
         \/ \E v \in {"RUNNING", "SUCCESS", "FAILED"} : row' = [row EXCEPT ![x] = v],
         data' = data \/ data' = [data EXCEPT ![x] = trigger[x]],
         outputs' \subseteq outputs \cup {x},
         UNCHANGED <<flow, maker, jobVars, host, watchVars, events, cancels, notes, hist>>
  PROVE  TypeOK' /\ JobInv'
<1> USE DEF jobVars, watchVars, hist
<1>1. run' \in [Execs -> [Runs -> Stages]]
  BY StageType
<1>2. row' \in [Execs -> Rows] /\ outputs' \subseteq Execs
  <2>1. row \in [Execs -> Rows] /\ {"RUNNING", "SUCCESS", "FAILED"} \subseteq Rows
    BY DEF TypeOK, Rows
  <2>2. row' \in [Execs -> Rows]
    BY <2>1
  <2> QED BY <2>2 DEF TypeOK
<1>3. data' \in [Execs -> {"none", "given", "empty"}]
  <2>1. data \in [Execs -> {"none", "given", "empty"}] /\ trigger[x] \in {"none", "given", "empty"}
    BY DEF TypeOK
  <2> QED BY <2>1
<1>4. \A y \in Execs : row'[y] = "absent" => row[y] = "absent"
  BY DEF TypeOK
<1>5. TypeOK'
  BY <1>1, <1>2, <1>3 DEF TypeOK
<1>6. JobInv'
  BY <1>4, StageKept
<1> QED
  BY <1>5, <1>6

LEMMA ProcessorKeeps ==
  ASSUME TypeOK, JobInv, NEW x \in Execs, NEW r \in Runs, ProcessorStep(x, r)
  PROVE  TypeOK' /\ JobInv'
<1> USE DEF rowVars, jobVars, watchVars, hist
<1>1. CASE MarkFails(x, r) \/ CatchFails(x, r)
  BY <1>1, ThrowStep DEF MarkFails, CatchFails
<1>2. CASE MarkRunning(x, r)
  <2>1. "marked" \in Stages
    BY DEF Stages, Live
  <2> QED BY <1>2, <2>1, RunStep DEF MarkRunning
<1>3. CASE Guard(x, r) \/ Work(x, r)
  <2>1. PICK s \in {"catching", "working", "returned"} : Stage(x, r, s)
    BY <1>3 DEF Guard, Work
  <2>2. run[x][r] # "free" /\ s \in Stages
    BY <1>3 DEF Guard, Work, Stages, Live
  <2>3. UNCHANGED <<rowVars, jobVars, host, watchVars, events, cancels, notes, hist>>
    BY <1>3 DEF Guard, Work
  <2> QED BY <2>1, <2>2, <2>3, RunStep
<1>4. CASE WriteSuccess(x, r)
  <2>1. CASE row[x] = "deleted"
    <3>1. "catching" \in Stages
      BY DEF Stages, Live
    <3> QED BY <1>4, <2>1, <3>1, RunStep DEF WriteSuccess
  <2>2. CASE row[x] # "deleted"
    <3>1. "succeeded" \in Stages
      BY DEF Stages, Live
    <3>2. /\ row' = [row EXCEPT ![x] = "SUCCESS"] /\ data' = [data EXCEPT ![x] = trigger[x]]
          /\ outputs' = outputs \cup {x} /\ Stage(x, r, "succeeded") /\ run[x][r] # "free"
          /\ UNCHANGED <<flow, maker, jobVars, host, watchVars, events, cancels, notes, hist>>
      BY <1>4, <2>2 DEF WriteSuccess
    <3> QED BY <3>1, <3>2, RunStep
  <2> QED BY <2>1, <2>2
<1>5. CASE WriteFailed(x, r)
  <2>1. "failed" \in Stages
    BY DEF Stages, Live
  <2> QED BY <1>5, <2>1, RunStep DEF WriteFailed
<1>6. ASSUME NEW y \in Execs, ErrorCreate(x, r, y) PROVE TypeOK' /\ JobInv'
  <2>1. Create(y, ErrorOf[flow[x]], "given", <<x, r>>) /\ Stage(x, r, "erring") /\ run[x][r] = "failed"
    BY <1>6 DEF ErrorCreate
  <2>2. ErrorOf[flow[x]] \in Workflows
    BY <1>6, LifecycleAssumption DEF ErrorCreate, TypeOK
  <2>3. <<x, r>> \in (Execs \cup {0}) \X (Runs \cup {0})
    OBVIOUS
  <2>4. "erring" \in Stages
    BY DEF Stages, Live
  <2>5. UNCHANGED <<jobVars, host, watchVars, events, cancels, notes, hist>>
    BY <1>6 DEF ErrorCreate
  <2>6. TypeOK'
    <3>1. run' \in [Execs -> [Runs -> Stages]]
      BY <2>1, <2>4, StageType
    <3> QED BY <2>1, <2>2, <2>3, <2>5, <3>1, CreateStep DEF TypeOK
  <2>7. JobInv'
    <3>1. \A z \in Execs : row'[z] = "absent" => row[z] = "absent" /\ maker'[z] = maker[z]
      BY <2>1, <2>2, <2>3, CreateStep
    <3>2. row[x] # "absent"
      BY <2>1 DEF JobInv
    <3>3. \A z \in Execs \ {x} : run'[z] = run[z]
      BY <2>1 DEF Stage, TypeOK
    <3> QED BY <2>5, <3>1, <3>2, <3>3 DEF JobInv
  <2> QED BY <2>6, <2>7
<1>7. ASSUME NEW y \in Execs, ErrorEnqueue(x, r, y) PROVE TypeOK' /\ JobInv'
  <2>1. /\ run[x][r] = "erring" /\ maker[y] = <<x, r>> /\ job[y] = "none"
        /\ job' = [job EXCEPT ![y] = "waiting"] /\ Stage(x, r, "closing")
        /\ UNCHANGED <<rowVars, trigger, lock, tries, stalls, host, watchVars, events, cancels, notes, hist>>
    BY <1>7 DEF ErrorEnqueue
  <2>2. "closing" \in Stages
    BY DEF Stages, Live
  <2>3. TypeOK'
    <3>1. run' \in [Execs -> [Runs -> Stages]]
      BY <2>1, <2>2, StageType
    <3>2. job' \in [Execs -> {"none", "waiting", "active", "completed", "failed"}]
      BY <2>1 DEF TypeOK
    <3> QED BY <2>1, <3>1, <3>2 DEF TypeOK
  <2>4. JobInv'
    <3>1. row[x] # "absent" /\ row[y] # "absent"
      BY <2>1, RunsFacts DEF JobInv
    <3>2. \A z \in Execs \ {x} : run'[z] = run[z]
      BY <2>1 DEF Stage, TypeOK
    <3>3. lock[y] = 0 /\ tries[y] < Attempts /\ stalls[y] <= MaxStalled
      BY <2>1 DEF JobInv
    <3>4. job'[y] = "waiting" /\ \A z \in Execs \ {y} : job'[z] = job[z]
      BY <2>1 DEF TypeOK
    <3> QED BY <2>1, <3>1, <3>2, <3>3, <3>4 DEF JobInv
  <2> QED BY <2>3, <2>4
<1>8. CASE Complete(x, r)
  <2>1. run[x][r] # "free" /\ Stage(x, r, "ended") /\ "ended" \in Stages
    BY <1>8 DEF Complete, Stages
  <2>2. UNCHANGED <<rowVars, trigger, tries, stalls, host, watchVars, events, cancels, notes, hist>>
    BY <1>8 DEF Complete
  <2>3. CASE lock[x] # r
    BY <1>8, <2>1, <2>2, <2>3, RunStep DEF Complete
  <2>4. CASE lock[x] = r
    <3>1. lock' = [lock EXCEPT ![x] = 0] /\ job' = [job EXCEPT ![x] = "completed"]
      BY <1>8, <2>4 DEF Complete
    <3>2. TypeOK'
      <4>1. run' \in [Execs -> [Runs -> Stages]]
        BY <2>1, StageType
      <4>2. /\ job' \in [Execs -> {"none", "waiting", "active", "completed", "failed"}]
            /\ lock' \in [Execs -> Runs \cup {0}]
        BY <3>1 DEF TypeOK
      <4> QED BY <2>2, <4>1, <4>2 DEF TypeOK
    <3>3. JobInv'
      <4>1. row[x] # "absent"
        BY <2>1 DEF JobInv
      <4>2. \A z \in Execs \ {x} : run'[z] = run[z] /\ job'[z] = job[z] /\ lock'[z] = lock[z]
        BY <2>1, <3>1 DEF Stage, TypeOK
      <4>3. job'[x] = "completed" /\ lock'[x] = 0
        BY <3>1 DEF TypeOK
      <4> QED BY <2>2, <4>1, <4>2, <4>3 DEF JobInv
    <3> QED BY <3>2, <3>3
  <2> QED BY <2>3, <2>4
<1> QED
  BY <1>1, <1>2, <1>3, <1>4, <1>5, <1>6, <1>7, <1>8 DEF ProcessorStep

LEMMA TakeKeeps ==
  ASSUME TypeOK, JobInv, NEW x \in Execs, NEW r \in Runs, NEW w \in Workers, Take(x, r, w)
  PROVE  TypeOK' /\ JobInv'
<1> USE DEF rowVars, watchVars, hist
<1>1. /\ job[x] = "waiting" /\ job' = [job EXCEPT ![x] = "active"] /\ lock' = [lock EXCEPT ![x] = r]
      /\ Stage(x, r, "taken") /\ host' = [host EXCEPT ![x][r] = w] /\ "taken" \in Stages
      /\ UNCHANGED <<rowVars, trigger, tries, stalls, watchVars, events, cancels, notes, hist>>
  BY DEF Take, Stages, Live
<1>2. TypeOK'
  <2>1. run' \in [Execs -> [Runs -> Stages]]
    BY <1>1, StageType
  <2>2. /\ job' \in [Execs -> {"none", "waiting", "active", "completed", "failed"}]
        /\ lock' \in [Execs -> Runs \cup {0}]
        /\ host' \in [Execs -> [Runs -> Workers]]
    BY <1>1 DEF TypeOK
  <2> QED BY <1>1, <2>1, <2>2 DEF TypeOK
<1>3. JobInv'
  <2>1. row[x] # "absent" /\ tries[x] < Attempts /\ stalls[x] <= MaxStalled
    BY <1>1 DEF JobInv
  <2>2. \A z \in Execs \ {x} : run'[z] = run[z] /\ job'[z] = job[z] /\ lock'[z] = lock[z]
    BY <1>1 DEF Stage, TypeOK
  <2>3. job'[x] = "active"
    BY <1>1 DEF TypeOK
  <2> QED BY <1>1, <2>1, <2>2, <2>3 DEF JobInv
<1> QED
  BY <1>2, <1>3

LEMMA LoseLockKeeps ==
  ASSUME TypeOK, JobInv, NEW x \in Execs, LoseLock(x)
  PROVE  TypeOK' /\ JobInv'
<1> USE DEF rowVars, runVars, watchVars, hist
<1>1. /\ job[x] = "active" /\ lock' = [lock EXCEPT ![x] = 0] /\ stalls' = [stalls EXCEPT ![x] = @ + 1]
      /\ UNCHANGED <<rowVars, trigger, tries, runVars, watchVars, cancels, notes, hist>>
  BY DEF LoseLock
<1>2. \/ job' = [job EXCEPT ![x] = "waiting"] /\ stalls[x] < MaxStalled /\ Emit(x, "stalled")
      \/ job' = [job EXCEPT ![x] = "failed"] /\ Emit(x, "failed")
  BY DEF LoseLock
<1>3. row[x] # "absent" /\ tries[x] < Attempts /\ stalls[x] <= MaxStalled
  BY <1>1 DEF JobInv
<1>4. stalls[x] \in 0..(MaxStalled + 1) /\ stalls[x] + 1 \in 0..(MaxStalled + 1)
  <2>1. stalls[x] \in 0..(MaxStalled + 1)
    BY DEF TypeOK
  <2> QED BY <1>3, <2>1 DEF MaxStalled
<1>5. TypeOK'
  <2>1. events' \subseteq Workers \X Execs \X Kinds
    BY <1>2, EmitType DEF Kinds
  <2>2. /\ job' \in [Execs -> {"none", "waiting", "active", "completed", "failed"}]
        /\ lock' \in [Execs -> Runs \cup {0}]
    <3>1. PICK j \in {"waiting", "failed"} : job' = [job EXCEPT ![x] = j]
      BY <1>2
    <3> QED BY <1>1, <3>1 DEF TypeOK
  <2>3. stalls' \in [Execs -> 0..(MaxStalled + 1)]
    BY <1>1, <1>4 DEF TypeOK
  <2> QED BY <1>1, <2>1, <2>2, <2>3 DEF TypeOK
<1>6. JobInv'
  <2>1. \A z \in Execs \ {x} : job'[z] = job[z] /\ lock'[z] = lock[z] /\ stalls'[z] = stalls[z]
    BY <1>1, <1>2 DEF TypeOK
  <2>2. lock'[x] = 0 /\ job'[x] \in {"waiting", "failed"}
    BY <1>1, <1>2 DEF TypeOK
  <2>3. job'[x] = "waiting" => stalls'[x] <= MaxStalled
    <3>1. stalls'[x] = stalls[x] + 1
      BY <1>1 DEF TypeOK
    <3>2. job'[x] = "waiting" => stalls[x] < MaxStalled
      BY <1>2 DEF TypeOK
    <3> QED BY <1>4, <3>1, <3>2 DEF MaxStalled
  <2> QED BY <1>1, <1>3, <2>1, <2>2, <2>3 DEF JobInv
<1> QED
  BY <1>5, <1>6

LEMMA FailKeeps ==
  ASSUME TypeOK, NEW S \in SUBSET Execs, Fail(S)
  PROVE  /\ row' \in [Execs -> Rows] /\ data' \in [Execs -> {"none", "given", "empty"}]
         /\ outputs' \subseteq Execs /\ forced' \subseteq Execs
         /\ \A x \in Execs : row'[x] = "absent" => row[x] = "absent"
  BY DEF Fail, TypeOK, Rows

LEMMA RecoveryKeeps ==
  ASSUME TypeOK, JobInv, NEW w \in Workers, RecoveryStep(w)
  PROVE  TypeOK' /\ JobInv'
<1> USE DEF rowVars, jobVars, runVars, watchVars, hist
<1>1. CASE Boot(w) \/ ScanRows(w) \/ ScanJobs(w)
  <2>1. PICK t \in {"booting", "scanned", "crossed", "watching"} : watch' = [watch EXCEPT ![w] = t]
    BY <1>1 DEF Boot, ScanRows, ScanJobs
  <2>2. stale' = stale \/ \E S \in SUBSET Execs : stale' = [stale EXCEPT ![w] = S]
    <3>1. {x \in stale[w] : job[x] # "active"} \in SUBSET Execs
      BY DEF TypeOK
    <3> QED BY <1>1, <3>1 DEF Boot, ScanRows, ScanJobs
  <2>3. UNCHANGED <<rowVars, jobVars, runVars, events, cancels, notes, hist>>
    BY <1>1 DEF Boot, ScanRows, ScanJobs
  <2>4. /\ watch' \in [Workers -> {"down", "booting", "scanned", "crossed", "watching"}]
        /\ stale' \in [Workers -> SUBSET Execs]
    BY <2>1, <2>2 DEF TypeOK
  <2>5. TypeOK'
    BY <2>3, <2>4 DEF TypeOK
  <2>6. JobInv'
    BY <2>3, JobsKept
  <2> QED BY <2>5, <2>6
<1>2. CASE RecoverOrphans(w)
  <2> DEFINE S == {x \in stale[w] : row[x] # "deleted"}
  <2>1. S \in SUBSET Execs /\ Fail(S)
    BY <1>2 DEF RecoverOrphans, TypeOK
  <2> HIDE DEF S
  <2>2. /\ UNCHANGED <<flow, maker, jobVars, runVars, events, cancels, notes, cancelled, crashes>>
        /\ stale' \in [Workers -> SUBSET Execs]
        /\ watch' \in [Workers -> {"down", "booting", "scanned", "crossed", "watching"}]
    BY <1>2 DEF RecoverOrphans, TypeOK
  <2>3. TypeOK'
    BY <2>1, <2>2, FailKeeps DEF TypeOK
  <2>4. JobInv'
    BY <2>1, <2>2, FailKeeps, JobsKept
  <2> QED BY <2>3, <2>4
<1>3. ASSUME NEW x \in Execs, NEW k \in {"stalled", "failed"}, SyncFailedExecution(w, x, k)
      PROVE  TypeOK' /\ JobInv'
  <2> DEFINE S == IF row[x] \in {"RUNNING", "PENDING"} THEN {x} ELSE {}
  <2>1. S \in SUBSET Execs /\ Fail(S)
    BY <1>3 DEF SyncFailedExecution
  <2> HIDE DEF S
  <2>2. /\ UNCHANGED <<flow, maker, jobVars, runVars, watchVars, cancels, notes, cancelled, crashes>>
        /\ events' \subseteq events
    BY <1>3 DEF SyncFailedExecution
  <2>3. TypeOK'
    BY <2>1, <2>2, FailKeeps DEF TypeOK
  <2>4. JobInv'
    BY <2>1, <2>2, FailKeeps, JobsKept
  <2> QED BY <2>3, <2>4
<1> QED
  BY <1>1, <1>2, <1>3 DEF RecoveryStep

LEMMA CrashKeeps ==
  ASSUME TypeOK, JobInv, NEW w \in Workers, Crash(w)
  PROVE  TypeOK' /\ JobInv'
<1> USE DEF rowVars, jobVars
<1>1. /\ crashes' = crashes + 1 /\ crashes < MaxCrashes
      /\ watch' = [watch EXCEPT ![w] = "down"] /\ stale' = [stale EXCEPT ![w] = {}]
      /\ events' \subseteq events
      /\ UNCHANGED <<rowVars, jobVars, host, cancels, notes, cancelled, forced>>
  BY DEF Crash
<1>2. run' = [x \in Execs |-> [r \in Runs |->
               IF host[x][r] = w /\ run[x][r] \in Live THEN "dead" ELSE run[x][r]]]
  BY DEF Crash
<1>3. TypeOK'
  <2>1. run' \in [Execs -> [Runs -> Stages]]
    BY <1>2 DEF TypeOK, Stages
  <2>2. crashes' \in 0..MaxCrashes
    BY <1>1, LifecycleAssumption DEF TypeOK
  <2> QED BY <1>1, <2>1, <2>2 DEF TypeOK
<1>4. JobInv'
  <2>1. \A x \in Execs, r \in Runs : run[x][r] = "free" => run'[x][r] = "free"
    BY <1>2 DEF Live
  <2> QED BY <1>1, <2>1 DEF JobInv
<1> QED
  BY <1>3, <1>4

-----------------------------------------------------------------------------
\* Rows, jobs, runs and recovery state keep their types; in particular a job
\* is attempted and found stalled no more often than the queue allows.
LEMMA Inductive == Spec => [](TypeOK /\ JobInv)
<1> USE DEF rowVars, jobVars, runVars, watchVars, hist
<1>1. Init => TypeOK /\ JobInv
  <2> SUFFICES ASSUME Init PROVE TypeOK /\ JobInv
    OBVIOUS
  <2>1. (CHOOSE f \in Workflows : TRUE) \in Workflows /\ (CHOOSE w \in Workers : TRUE) \in Workers
    BY LifecycleAssumption
  <2>2. /\ flow \in [Execs -> Workflows] /\ host \in [Execs -> [Runs -> Workers]]
    BY <2>1 DEF Init
  <2>3. TypeOK
    BY <2>2, LifecycleAssumption DEF Init, TypeOK, Rows, Stages, Attempts, MaxStalled
  <2>4. JobInv
    BY DEF Init, JobInv, Attempts, MaxStalled
  <2> QED BY <2>3, <2>4
<1>2. TypeOK /\ JobInv /\ [Next]_vars => TypeOK' /\ JobInv'
  <2> SUFFICES ASSUME TypeOK, JobInv, [Next]_vars PROVE TypeOK' /\ JobInv'
    OBVIOUS
  <2>1. CASE Progress
    <3>1. ASSUME NEW x \in Execs, NEW r \in Runs, ProcessorStep(x, r) PROVE TypeOK' /\ JobInv'
      BY <3>1, ProcessorKeeps
    <3>2. ASSUME NEW x \in Execs, NEW r \in Runs, NEW w \in Workers, Take(x, r, w)
          PROVE  TypeOK' /\ JobInv'
      BY <3>2, TakeKeeps
    <3>3. ASSUME NEW w \in Workers, RecoveryStep(w) PROVE TypeOK' /\ JobInv'
      BY <3>3, RecoveryKeeps
    <3>4. ASSUME NEW x \in Execs, LoseLock(x) PROVE TypeOK' /\ JobInv'
      BY <3>4, LoseLockKeeps
    <3> QED BY <2>1, <3>1, <3>2, <3>3, <3>4 DEF Progress
  <2>2. CASE Request
    BY <2>2, RequestStep
  <2>3. ASSUME NEW x \in Execs, LoseLock(x) PROVE TypeOK' /\ JobInv'
    BY <2>3, LoseLockKeeps
  <2>4. ASSUME NEW w \in Workers, Crash(w) PROVE TypeOK' /\ JobInv'
    BY <2>4, CrashKeeps
  <2>5. CASE UNCHANGED vars
    BY <2>5 DEF vars, TypeOK, JobInv
  <2> QED
    BY <2>1, <2>2, <2>3, <2>4, <2>5 DEF Next
<1> QED
  BY <1>1, <1>2, PTL DEF Spec

\* In every instance rows, jobs, runs and recovery state keep their types: a
\* job is never attempted or stalled more often than the queue allows.
THEOREM TypeCorrect == Spec => []TypeOK
  BY Inductive, PTL

-----------------------------------------------------------------------------
\* An undisturbed execution that has passed its mark is RUNNING, so the others
\* count it: this is what makes the guard sound.
CountedInv ==
  \A x \in Execs : Undisturbed(x) /\ run[x][1] \in {"marked", "working"} => row[x] = "RUNNING"

\* What no step may do if the number of working executions is not to grow.
Quiet ==
  /\ \A x \in Execs : run'[x][1] = "working" => run[x][1] = "working"
  /\ \A x \in Execs, r \in Runs : run'[x][r] = "free" => run[x][r] = "free"
  /\ forced \subseteq forced'
  /\ \A x \in Execs : row[x] = "deleted" => row'[x] = "deleted"
  /\ \A x \in Execs : flow'[x] = flow[x] \/ row[x] = "absent"

LEMMA QuietKeepsLimit ==
  ASSUME TypeOK, JobInv, ConcurrencyLimit, Quiet
  PROVE  ConcurrencyLimit'
<1> SUFFICES ASSUME NEW f \in Workflows, Limit[f] # 0
             PROVE  Cardinality(Working(f)') <= Limit[f]
  BY DEF ConcurrencyLimit
<1>1. Working(f)' \subseteq Working(f)
  <2> SUFFICES ASSUME NEW x \in Execs, flow'[x] = f, Undisturbed(x)', run'[x][1] = "working"
               PROVE  flow[x] = f /\ Undisturbed(x) /\ run[x][1] = "working"
    BY DEF Working
  <2>1. run[x][1] = "working"
    BY DEF Quiet
  <2>2. flow[x] = f
    BY <2>1, RunsFacts DEF Quiet, JobInv
  <2>3. Undisturbed(x)
    BY DEF Undisturbed, Quiet
  <2> QED BY <2>1, <2>2, <2>3
<1>2. IsFiniteSet(Working(f))
  BY LifecycleAssumption, FS_Subset DEF Working
<1>3. Cardinality(Working(f)') <= Cardinality(Working(f))
  BY <1>1, <1>2, FS_Subset
<1>4. Cardinality(Working(f)) \in Nat /\ Cardinality(Working(f)') \in Nat
  BY <1>1, <1>2, FS_Subset, FS_CardinalityType
<1> QED
  BY <1>3, <1>4, LifecycleAssumption DEF ConcurrencyLimit

\* The guard admits an execution only below the limit, and whoever is at work
\* is among those it counted.
LEMMA GuardKeepsLimit ==
  ASSUME TypeOK, JobInv, CountedInv, ConcurrencyLimit, NEW x \in Execs, NEW r \in Runs, Guard(x, r)
  PROVE  ConcurrencyLimit' /\ CountedInv'
<1> USE DEF rowVars, jobVars, watchVars, hist
<1>1. /\ run[x][r] = "marked" /\ UNCHANGED <<row, flow, forced>>
      /\ \E s \in {"catching", "working"} : run' = [run EXCEPT ![x][r] = s]
  BY DEF Guard, Stage
<1>2. CountedInv'
  BY <1>1 DEF CountedInv, Undisturbed, TypeOK
<1>3. CASE r # 1 \/ run' = [run EXCEPT ![x][r] = "catching"]
  <2>1. Quiet
    BY <1>1, <1>3 DEF Quiet, TypeOK
  <2> QED BY <1>2, <2>1, QuietKeepsLimit
<1>4. CASE r = 1 /\ run' # [run EXCEPT ![x][r] = "catching"]
  <2>1. ~(Limit[flow[x]] # 0 /\ Cardinality(Running(x)) >= Limit[flow[x]])
    BY <1>4 DEF Guard, Stage
  <2> SUFFICES ASSUME NEW f \in Workflows, Limit[f] # 0
               PROVE  Cardinality(Working(f)') <= Limit[f]
    BY <1>2 DEF ConcurrencyLimit
  <2>2. Working(f)' \subseteq Working(f) \cup {x}
    BY <1>1 DEF Working, Undisturbed, TypeOK
  <2>3. IsFiniteSet(Working(f)) /\ IsFiniteSet(Running(x))
    BY LifecycleAssumption, FS_Subset DEF Working, Running
  <2>4. CASE flow[x] # f
    <3>1. Working(f)' \subseteq Working(f)
      BY <1>1, <2>2, <2>4 DEF Working
    <3>2. /\ Cardinality(Working(f)') <= Cardinality(Working(f))
          /\ Cardinality(Working(f)) \in Nat /\ Cardinality(Working(f)') \in Nat
      BY <2>3, <3>1, FS_Subset, FS_CardinalityType
    <3> QED BY <3>2, LifecycleAssumption DEF ConcurrencyLimit
  <2>5. CASE flow[x] = f
    <3>1. Working(f) \ {x} \subseteq Running(x)
      <4> SUFFICES ASSUME NEW y \in Working(f), y # x PROVE y \in Running(x)
        OBVIOUS
      <4>1. row[y] = "RUNNING" /\ y \in Execs /\ flow[y] = f
        BY DEF Working, CountedInv
      <4> QED BY <2>5, <4>1 DEF Running
    <3>2. Working(f)' \subseteq Running(x) \cup {x}
      BY <2>2, <3>1
    <3>3. x \notin Running(x)
      BY DEF Running
    <3>4. Cardinality(Running(x) \cup {x}) = Cardinality(Running(x)) + 1
      BY <2>3, <3>3, FS_AddElement
    <3>5. IsFiniteSet(Running(x) \cup {x})
      BY <2>3, FS_AddElement
    <3>6. /\ Cardinality(Working(f)') <= Cardinality(Running(x) \cup {x})
          /\ Cardinality(Working(f)') \in Nat /\ Cardinality(Running(x)) \in Nat
      BY <2>3, <3>2, <3>5, FS_Subset, FS_CardinalityType
    <3>7. Cardinality(Running(x)) < Limit[f] /\ Limit[f] \in Nat
      BY <2>1, <2>5, <3>6, LifecycleAssumption
    <3> QED BY <3>4, <3>6, <3>7
  <2> QED BY <2>4, <2>5
<1> QED
  BY <1>2, <1>3, <1>4

\* Every other step of a run leaves fewer executions working, and those that
\* have passed their mark RUNNING.
LEMMA ProcessorQuiet ==
  ASSUME TypeOK, JobInv, CountedInv, NEW x \in Execs, NEW r \in Runs,
         ProcessorStep(x, r), ~Guard(x, r)
  PROVE  Quiet /\ CountedInv'
<1> USE DEF rowVars, jobVars, watchVars, hist
<1>1. CASE MarkFails(x, r) \/ CatchFails(x, r) \/ Work(x, r) \/ Complete(x, r)
  <2>1. PICK s \in {"ended", "returned", "catching"} : run' = [run EXCEPT ![x][r] = s]
    BY <1>1 DEF MarkFails, CatchFails, Throw, Work, Complete, Stage
  <2>2. UNCHANGED <<row, flow, forced>>
    BY <1>1 DEF MarkFails, CatchFails, Throw, Work, Complete
  <2>3. Quiet
    BY <2>1, <2>2 DEF Quiet, TypeOK
  <2>4. CountedInv'
    BY <2>1, <2>2 DEF CountedInv, Undisturbed, TypeOK
  <2> QED BY <2>3, <2>4
<1>2. CASE MarkRunning(x, r)
  <2>1. /\ run[x][r] = "taken" /\ run' = [run EXCEPT ![x][r] = "marked"]
        /\ row[x] # "deleted" /\ row' = [row EXCEPT ![x] = "RUNNING"] /\ UNCHANGED <<flow, forced>>
    BY <1>2 DEF MarkRunning, Stage
  <2>2. Quiet
    BY <2>1 DEF Quiet, TypeOK
  <2>3. CountedInv'
    BY <2>1 DEF CountedInv, Undisturbed, TypeOK
  <2> QED BY <2>2, <2>3
<1>3. CASE WriteSuccess(x, r) \/ WriteFailed(x, r)
  <2>1. PICK s \in {"succeeded", "catching", "failed"} : run' = [run EXCEPT ![x][r] = s]
    BY <1>3 DEF WriteSuccess, WriteFailed, Stage
  <2>2. /\ run[x][r] \in {"returned", "catching"} /\ UNCHANGED <<flow, forced>>
        /\ \A y \in Execs \ {x} : row'[y] = row[y]
        /\ row[x] = "deleted" => row'[x] = "deleted"
    BY <1>3 DEF WriteSuccess, WriteFailed, TypeOK
  <2>3. Quiet
    BY <2>1, <2>2 DEF Quiet, TypeOK
  <2>4. ASSUME NEW y \in Execs, Undisturbed(y)', run'[y][1] \in {"marked", "working"}
        PROVE  row'[y] = "RUNNING"
    <3>1. CASE y = x
      <4>1. r # 1
        BY <2>1, <2>4, <3>1 DEF TypeOK
      <4>2. run'[x][r] = "free"
        BY <2>4, <3>1, <4>1 DEF Undisturbed
      <4> QED BY <2>1, <4>2 DEF TypeOK
    <3>2. CASE y # x
      <4>1. run'[y] = run[y] /\ row'[y] = row[y]
        BY <2>1, <2>2, <3>2 DEF TypeOK
      <4> QED BY <2>2, <2>4, <4>1 DEF CountedInv, Undisturbed
    <3> QED BY <3>1, <3>2
  <2> QED BY <2>3, <2>4 DEF CountedInv
<1>4. ASSUME NEW y \in Execs, ErrorCreate(x, r, y) \/ ErrorEnqueue(x, r, y)
      PROVE  Quiet /\ CountedInv'
  <2>1. PICK s \in {"erring", "closing"} : run' = [run EXCEPT ![x][r] = s]
    BY <1>4 DEF ErrorCreate, ErrorEnqueue, Stage
  <2>2. /\ forced' = forced
        /\ \/ UNCHANGED <<row, flow>>
           \/ /\ row[y] = "absent" /\ row' = [row EXCEPT ![y] = "PENDING"]
              /\ \A z \in Execs \ {y} : flow'[z] = flow[z]
    BY <1>4 DEF ErrorCreate, ErrorEnqueue, Create, TypeOK
  <2>3. Quiet
    BY <2>1, <2>2 DEF Quiet, TypeOK
  <2>4. row[y] = "absent" => run[y][1] = "free"
    BY RunsFacts DEF JobInv
  <2>5. CountedInv'
    BY <2>1, <2>2, <2>4, RunsFacts DEF CountedInv, Undisturbed, TypeOK
  <2> QED BY <2>3, <2>5
<1> QED
  BY <1>1, <1>2, <1>3, <1>4 DEF ProcessorStep

\* A step that leaves the runs alone may fail rows by force, delete them, or
\* create one.
LEMMA RowsQuiet ==
  ASSUME TypeOK, JobInv, CountedInv, run' = run, forced \subseteq forced',
         \A x \in Execs : \/ row'[x] = row[x] /\ flow'[x] = flow[x]
                          \/ row[x] = "absent"
                          \/ flow'[x] = flow[x] /\ row'[x] = "deleted"
                          \/ flow'[x] = flow[x] /\ row[x] # "deleted" /\ x \in forced'
  PROVE  Quiet /\ CountedInv'
<1>1. Quiet
  BY DEF Quiet
<1>2. ASSUME NEW x \in Execs, Undisturbed(x)', run'[x][1] \in {"marked", "working"}
      PROVE  row'[x] = "RUNNING"
  <2>1. row[x] # "absent"
    BY <1>2, RunsFacts DEF JobInv
  <2>2. row'[x] = row[x]
    BY <1>2, <2>1 DEF Undisturbed
  <2>3. Undisturbed(x)
    BY <1>2, <2>2 DEF Undisturbed
  <2> QED BY <1>2, <2>2, <2>3 DEF CountedInv
<1> QED
  BY <1>1, <1>2 DEF CountedInv

LEMMA RequestQuiet ==
  ASSUME TypeOK, JobInv, CountedInv, Request
  PROVE  Quiet /\ CountedInv'
<1> USE DEF rowVars, jobVars, runVars, watchVars, hist
<1>1. ASSUME NEW y \in Execs, Submit(y) PROVE Quiet /\ CountedInv'
  BY <1>1, RowsQuiet DEF Submit, Create, TypeOK
<1>2. ASSUME NEW x \in Execs, NEW y \in Execs, Retry(x, y) PROVE Quiet /\ CountedInv'
  BY <1>2, RowsQuiet DEF Retry, Create, TypeOK
<1>3. ASSUME NEW x \in Execs, Enqueue(x) \/ CancelCheck(x) \/ NoteRead(x) \/ NoteWrite(x)
      PROVE  Quiet /\ CountedInv'
  BY <1>3, RowsQuiet DEF Enqueue, CancelCheck, NoteRead, NoteWrite
<1>4. ASSUME NEW x \in Execs, CancelWrite(x) PROVE Quiet /\ CountedInv'
  BY <1>4, RowsQuiet DEF CancelWrite, TypeOK
<1>5. ASSUME NEW x \in Execs, Delete(x) PROVE Quiet /\ CountedInv'
  BY <1>5, RowsQuiet DEF Delete, TypeOK
<1> QED
  BY <1>1, <1>2, <1>3, <1>4, <1>5 DEF Request

LEMMA RecoveryQuiet ==
  ASSUME TypeOK, JobInv, CountedInv, NEW w \in Workers, RecoveryStep(w)
  PROVE  Quiet /\ CountedInv'
<1> USE DEF rowVars, jobVars, runVars, watchVars, hist
<1>1. CASE Boot(w) \/ ScanRows(w) \/ ScanJobs(w)
  BY <1>1, RowsQuiet DEF Boot, ScanRows, ScanJobs
<1>2. CASE RecoverOrphans(w)
  BY <1>2, RowsQuiet DEF RecoverOrphans, Fail
<1>3. ASSUME NEW x \in Execs, NEW k \in {"stalled", "failed"}, SyncFailedExecution(w, x, k)
      PROVE  Quiet /\ CountedInv'
  BY <1>3, RowsQuiet DEF SyncFailedExecution, Fail
<1> QED
  BY <1>1, <1>2, <1>3 DEF RecoveryStep

LEMMA OtherQuiet ==
  ASSUME TypeOK, JobInv, CountedInv,
         \/ \E x \in Execs, r \in Runs, w \in Workers : Take(x, r, w)
         \/ \E x \in Execs : LoseLock(x)
         \/ \E w \in Workers : Crash(w)
         \/ UNCHANGED vars
  PROVE  Quiet /\ CountedInv'
<1> USE DEF rowVars, jobVars, runVars, watchVars, hist
<1>1. ASSUME NEW x \in Execs, NEW r \in Runs, NEW w \in Workers, Take(x, r, w)
      PROVE  Quiet /\ CountedInv'
  <2>1. run' = [run EXCEPT ![x][r] = "taken"] /\ UNCHANGED <<row, flow, forced>>
    BY <1>1 DEF Take, Stage
  <2>2. Quiet
    BY <2>1 DEF Quiet, TypeOK
  <2>3. CountedInv'
    BY <1>1, <2>1 DEF Take, CountedInv, Undisturbed, TypeOK
  <2> QED BY <2>2, <2>3
<1>2. ASSUME NEW x \in Execs, LoseLock(x) PROVE Quiet /\ CountedInv'
  BY <1>2, RowsQuiet DEF LoseLock
<1>3. ASSUME NEW w \in Workers, Crash(w) PROVE Quiet /\ CountedInv'
  <2>1. /\ UNCHANGED <<row, flow, forced>>
        /\ \A x \in Execs, r \in Runs : run'[x][r] = run[x][r] \/ run'[x][r] = "dead"
    BY <1>3 DEF Crash
  <2>2. Quiet
    BY <2>1, RunsFacts DEF Quiet
  <2>3. CountedInv'
    BY <2>1, RunsFacts DEF CountedInv, Undisturbed
  <2> QED BY <2>2, <2>3
<1>4. CASE UNCHANGED vars
  BY <1>4, RowsQuiet DEF vars
<1> QED
  BY <1>1, <1>2, <1>3, <1>4

\* In every instance the concurrency guard keeps its promise: the processors
\* mark, count and start on their own, and yet no more undisturbed executions
\* of a workflow are at work than maxConcurrency allows.
THEOREM LimitHolds == Spec => []ConcurrencyLimit
<1>1. Init => CountedInv /\ ConcurrencyLimit
  <2> SUFFICES ASSUME Init PROVE CountedInv /\ ConcurrencyLimit
    OBVIOUS
  <2>1. \A x \in Execs : run[x][1] = "free"
    BY RunsFacts DEF Init
  <2>2. \A f \in Workflows : Working(f) = {}
    BY <2>1 DEF Working
  <2>3. CountedInv
    BY <2>1 DEF CountedInv
  <2>4. ASSUME NEW f \in Workflows PROVE Cardinality(Working(f)) <= Limit[f]
    <3>1. Cardinality(Working(f)) = 0 /\ Limit[f] \in Nat
      BY <2>2, FS_EmptySet, LifecycleAssumption
    <3> QED BY <3>1
  <2> QED
    BY <2>3, <2>4 DEF ConcurrencyLimit
<1>2. TypeOK /\ JobInv /\ CountedInv /\ ConcurrencyLimit /\ [Next]_vars
        => CountedInv' /\ ConcurrencyLimit'
  <2> SUFFICES ASSUME TypeOK, JobInv, CountedInv, ConcurrencyLimit, [Next]_vars
               PROVE  CountedInv' /\ ConcurrencyLimit'
    OBVIOUS
  <2>1. ASSUME NEW x \in Execs, NEW r \in Runs, Guard(x, r) PROVE CountedInv' /\ ConcurrencyLimit'
    BY <2>1, GuardKeepsLimit
  <2>2. ASSUME NEW x \in Execs, NEW r \in Runs, ProcessorStep(x, r), ~Guard(x, r)
        PROVE  CountedInv' /\ ConcurrencyLimit'
    BY <2>2, ProcessorQuiet, QuietKeepsLimit
  <2>3. CASE Request
    BY <2>3, RequestQuiet, QuietKeepsLimit
  <2>4. ASSUME NEW w \in Workers, RecoveryStep(w) PROVE CountedInv' /\ ConcurrencyLimit'
    BY <2>4, RecoveryQuiet, QuietKeepsLimit
  <2>5. CASE \/ \E x \in Execs, r \in Runs, w \in Workers : Take(x, r, w)
             \/ \E x \in Execs : LoseLock(x)
             \/ \E w \in Workers : Crash(w)
             \/ UNCHANGED vars
    BY <2>5, OtherQuiet, QuietKeepsLimit
  <2> QED
    BY <2>1, <2>2, <2>3, <2>4, <2>5 DEF Next, Progress
<1> QED
  BY <1>1, <1>2, Inductive, PTL DEF Spec

-----------------------------------------------------------------------------
\* What the next two theorems assume of the instance: that no worker crashes,
\* that no run outlives its lock.
NoCrash == Crashable = {} \/ MaxCrashes = 0
NoLateRuns == "stall" \notin Ops

\* Without crashes every worker hears of every event, and no run is dead.
AwakeInv ==
  /\ \A w \in Workers : watch[w] = "watching"
  /\ \A x \in Execs, r \in Runs : run[x][r] # "dead"

LEMMA NeverCrashes ==
  ASSUME TypeOK, NoCrash, NEW w \in Workers, Crash(w)
  PROVE  FALSE
<1>1. crashes \in 0..MaxCrashes /\ crashes < MaxCrashes /\ w \in Crashable /\ MaxCrashes \in Nat
  BY LifecycleAssumption DEF TypeOK, Crash
<1> QED BY <1>1 DEF NoCrash

\* All workers are past their start, so of the recovery only the events remain.
LEMMA RecoveryIsEvents ==
  ASSUME AwakeInv, NEW w \in Workers, RecoveryStep(w)
  PROVE  \E x \in Execs, k \in {"stalled", "failed"} : SyncFailedExecution(w, x, k)
BY DEF AwakeInv, RecoveryStep, Boot, ScanRows, ScanJobs, RecoverOrphans

LEMMA AwakeStep ==
  ASSUME TypeOK, NoCrash, AwakeInv, [Next]_vars
  PROVE  AwakeInv'
<1> USE DEF rowVars, jobVars, runVars, watchVars, hist
<1>1. ASSUME NEW x \in Execs, NEW r \in Runs, ProcessorStep(x, r) PROVE AwakeInv'
  <2>1. watch' = watch
    BY <1>1 DEF ProcessorStep, MarkRunning, MarkFails, Guard, Work, WriteSuccess, WriteFailed, CatchFails,
                ErrorCreate, ErrorEnqueue, Complete, Throw
  <2>2. PICK s \in {"marked", "ended", "working", "catching", "returned", "succeeded", "failed", "erring", "closing"} :
          run' = [run EXCEPT ![x][r] = s]
    BY <1>1 DEF ProcessorStep, MarkRunning, MarkFails, Guard, Work, WriteSuccess, WriteFailed, CatchFails,
                ErrorCreate, ErrorEnqueue, Complete, Throw, Stage
  <2> QED BY <2>1, <2>2 DEF AwakeInv, TypeOK
<1>2. ASSUME NEW x \in Execs, NEW r \in Runs, NEW w \in Workers, Take(x, r, w) PROVE AwakeInv'
  BY <1>2 DEF Take, Stage, AwakeInv, TypeOK
<1>3. ASSUME NEW w \in Workers, RecoveryStep(w) PROVE AwakeInv'
  BY <1>3, RecoveryIsEvents DEF SyncFailedExecution, AwakeInv
<1>4. ASSUME NEW x \in Execs, LoseLock(x) PROVE AwakeInv'
  BY <1>4 DEF LoseLock, AwakeInv
<1>5. CASE Request
  BY <1>5 DEF Request, Submit, Retry, Enqueue, CancelCheck, CancelWrite, NoteRead, NoteWrite, Delete, AwakeInv
<1>6. CASE UNCHANGED vars
  BY <1>6 DEF vars, AwakeInv
<1> QED BY <1>1, <1>2, <1>3, <1>4, <1>5, <1>6, NeverCrashes DEF Next, Progress

-----------------------------------------------------------------------------
\* Where a run is that has marked the row and has yet to write its end.
Busy == {"marked", "working", "returned", "catching"}

\* A RUNNING row has a run that will write its end, however many others have
\* written theirs; a PENDING one no run has touched, and if its job has failed
\* somebody has still to hear of it.
Settles(x) ==
  /\ row[x] = "RUNNING" => \E r \in Runs : run[x][r] \in Busy
  /\ row[x] = "PENDING" => job[x] # "completed" /\ \A r \in Runs : run[x][r] \in {"free", "taken"}
  /\ row[x] = "PENDING" /\ job[x] = "failed" => \E e \in events : e[2] = x
RestInv == \A x \in Execs : Settles(x)

\* An execution that a step does not concern.
LEMMA SettlesStill ==
  ASSUME NEW x \in Execs, Settles(x), row'[x] = row[x], run'[x] = run[x],
         job'[x] = job[x] \/ job'[x] \notin {"completed", "failed"},
         \A e \in events : e[2] = x => e \in events'
  PROVE  Settles(x)'
BY DEF Settles

\* A run goes on: busy to busy, or it was not busy and leaves no PENDING row.
LEMMA SettlesOn ==
  ASSUME TypeOK, NEW x \in Execs, NEW r \in Runs, NEW s, Settles(x), row'[x] = row[x],
         run' = [run EXCEPT ![x][r] = s], run[x][r] \notin {"free", "taken"},
         run[x][r] \in Busy => s \in Busy
  PROVE  Settles(x)'
<1>1. run[x][r] \in Stages /\ run'[x][r] = s /\ \A q \in Runs \ {r} : run'[x][q] = run[x][q]
  BY DEF TypeOK
<1>2. row[x] # "PENDING"
  BY DEF Settles
<1>3. ASSUME row[x] = "RUNNING" PROVE \E q \in Runs : run'[x][q] \in Busy
  <2>1. PICK q \in Runs : run[x][q] \in Busy
    BY <1>3 DEF Settles
  <2> QED BY <1>1, <2>1
<1> QED BY <1>2, <1>3 DEF Settles

\* A row that was given an end is settled, and a new one has no job yet.
LEMMA SettlesWritten ==
  ASSUME NEW x \in Execs, row'[x] \notin {"PENDING", "RUNNING"}
  PROVE  Settles(x)'
BY DEF Settles

LEMMA SettlesNew ==
  ASSUME TypeOK, JobInv, NEW x \in Execs, row[x] = "absent", row'[x] = "PENDING",
         job'[x] = job[x], run'[x] = run[x]
  PROVE  Settles(x)'
BY DEF Settles, JobInv

LEMMA ProcessorSettles ==
  ASSUME TypeOK, JobInv, RestInv, NEW x \in Execs, NEW r \in Runs, ProcessorStep(x, r)
  PROVE  RestInv'
<1> USE DEF rowVars, jobVars, watchVars, hist
<1> SUFFICES ASSUME NEW z \in Execs PROVE Settles(z)'
  BY DEF RestInv
<1>0. Settles(x) /\ Settles(z)
  BY DEF RestInv
<1>1. CASE MarkRunning(x, r)
  <2>1. /\ row' = [row EXCEPT ![x] = "RUNNING"] /\ run' = [run EXCEPT ![x][r] = "marked"]
        /\ UNCHANGED <<job, events>>
    BY <1>1 DEF MarkRunning, Stage
  <2>2. CASE z = x
    <3>1. row'[x] = "RUNNING" /\ run'[x][r] \in Busy
      BY <2>1 DEF TypeOK, Busy
    <3> QED BY <2>2, <3>1 DEF Settles
  <2>3. CASE z # x
    BY <1>0, <2>1, <2>3, SettlesStill DEF TypeOK
  <2> QED BY <2>2, <2>3
<1>2. CASE MarkFails(x, r) \/ CatchFails(x, r)
  <2>1. /\ row[x] = "deleted" /\ UNCHANGED row /\ run' = [run EXCEPT ![x][r] = "ended"]
        /\ \A y \in Execs \ {x} : job'[y] = job[y]
        /\ events \subseteq events'
    BY <1>2 DEF MarkFails, CatchFails, Throw, Stage, TypeOK, Emit
  <2>2. CASE z = x
    BY <2>1, <2>2, SettlesWritten
  <2>3. CASE z # x
    BY <1>0, <2>1, <2>3, SettlesStill DEF TypeOK
  <2> QED BY <2>2, <2>3
<1>3. CASE Guard(x, r) \/ Work(x, r)
  <2>1. PICK s \in {"working", "catching", "returned"} : run' = [run EXCEPT ![x][r] = s]
    BY <1>3 DEF Guard, Work, Stage
  <2>2. run[x][r] \in {"marked", "working"} /\ UNCHANGED <<row, job, events>>
    BY <1>3 DEF Guard, Work
  <2>3. CASE z = x
    BY <1>0, <2>1, <2>2, <2>3, SettlesOn DEF Busy
  <2>4. CASE z # x
    BY <1>0, <2>1, <2>2, <2>4, SettlesStill DEF TypeOK
  <2> QED BY <2>3, <2>4
<1>4. CASE WriteSuccess(x, r) \/ WriteFailed(x, r)
  <2>1. /\ row'[x] \in {"SUCCESS", "FAILED", "deleted"} /\ \A y \in Execs \ {x} : row'[y] = row[y]
        /\ UNCHANGED <<job, events>>
    BY <1>4 DEF WriteSuccess, WriteFailed, TypeOK
  <2>2. \A y \in Execs \ {x} : run'[y] = run[y]
    BY <1>4 DEF WriteSuccess, WriteFailed, Stage, TypeOK
  <2> QED BY <1>0, <2>1, <2>2, SettlesStill, SettlesWritten
<1>5. ASSUME NEW y \in Execs, ErrorCreate(x, r, y) PROVE Settles(z)'
  <2>1. /\ row[y] = "absent" /\ row' = [row EXCEPT ![y] = "PENDING"] /\ UNCHANGED <<job, events>>
        /\ run[x][r] = "failed" /\ run' = [run EXCEPT ![x][r] = "erring"]
    BY <1>5 DEF ErrorCreate, Create, Stage
  <2>2. y # x
    BY <2>1 DEF JobInv
  <2>3. CASE z = x
    BY <1>0, <2>1, <2>2, <2>3, SettlesOn DEF Busy, TypeOK
  <2>4. CASE z = y
    BY <2>1, <2>2, <2>4, SettlesNew DEF TypeOK
  <2>5. CASE z # x /\ z # y
    BY <1>0, <2>1, <2>5, SettlesStill DEF TypeOK
  <2> QED BY <2>3, <2>4, <2>5
<1>6. ASSUME NEW y \in Execs, ErrorEnqueue(x, r, y) PROVE Settles(z)'
  <2>1. /\ run[x][r] = "erring" /\ run' = [run EXCEPT ![x][r] = "closing"]
        /\ job' = [job EXCEPT ![y] = "waiting"] /\ UNCHANGED <<row, events>>
    BY <1>6 DEF ErrorEnqueue, Stage
  <2>2. CASE z = x
    BY <1>0, <2>1, <2>2, SettlesOn DEF Busy
  <2>3. CASE z # x
    <3>1. job'[z] \in {job[z], "waiting"} /\ run'[z] = run[z]
      BY <2>1, <2>3 DEF TypeOK
    <3> QED BY <1>0, <2>1, <3>1, SettlesStill
  <2> QED BY <2>2, <2>3
<1>7. CASE Complete(x, r)
  <2>1. /\ run[x][r] \in {"succeeded", "closing", "failed"} /\ run' = [run EXCEPT ![x][r] = "ended"]
        /\ UNCHANGED <<row, events>> /\ \A y \in Execs \ {x} : job'[y] = job[y]
    BY <1>7 DEF Complete, Stage, TypeOK
  <2>2. CASE z = x
    BY <1>0, <2>1, <2>2, SettlesOn DEF Busy
  <2>3. CASE z # x
    BY <1>0, <2>1, <2>3, SettlesStill DEF TypeOK
  <2> QED BY <2>2, <2>3
<1> QED BY <1>1, <1>2, <1>3, <1>4, <1>5, <1>6, <1>7 DEF ProcessorStep

LEMMA RequestSettles ==
  ASSUME TypeOK, JobInv, RestInv, Request
  PROVE  RestInv'
<1> USE DEF rowVars, jobVars, runVars, watchVars, hist
<1> SUFFICES ASSUME NEW z \in Execs PROVE Settles(z)'
  BY DEF RestInv
<1>0. Settles(z) /\ UNCHANGED <<run, events>>
  BY DEF RestInv, Request, Submit, Retry, Enqueue, CancelCheck, CancelWrite, NoteRead, NoteWrite, Delete
<1>1. ASSUME NEW x \in Execs, NEW y \in Execs, Submit(y) \/ Retry(x, y) PROVE Settles(z)'
  <2>1. row[y] = "absent" /\ row' = [row EXCEPT ![y] = "PENDING"] /\ UNCHANGED job
    BY <1>1 DEF Submit, Retry, Create
  <2> QED BY <1>0, <2>1, SettlesNew, SettlesStill DEF TypeOK
<1>2. ASSUME NEW x \in Execs, Enqueue(x) PROVE Settles(z)'
  <2>1. row' = row /\ job'[z] \in {job[z], "waiting"}
    BY <1>2 DEF Enqueue, TypeOK
  <2> QED BY <1>0, <2>1, SettlesStill
<1>3. ASSUME NEW x \in Execs, CancelWrite(x) \/ Delete(x) PROVE Settles(z)'
  <2>1. job' = job /\ row'[z] \in {row[z], "FAILED", "deleted"}
    BY <1>3 DEF CancelWrite, Delete, TypeOK
  <2> QED BY <1>0, <2>1, SettlesStill, SettlesWritten
<1>4. ASSUME NEW x \in Execs, CancelCheck(x) \/ NoteRead(x) \/ NoteWrite(x) PROVE Settles(z)'
  BY <1>0, <1>4, SettlesStill DEF CancelCheck, NoteRead, NoteWrite
<1> QED BY <1>1, <1>2, <1>3, <1>4 DEF Request

LEMMA QueueSettles ==
  ASSUME TypeOK, JobInv, AwakeInv, RestInv,
         \/ \E x \in Execs, r \in Runs, w \in Workers : Take(x, r, w)
         \/ \E x \in Execs : LoseLock(x)
         \/ \E w \in Workers : RecoveryStep(w)
         \/ UNCHANGED vars
  PROVE  RestInv'
<1> USE DEF rowVars, jobVars, runVars, watchVars, hist
<1> SUFFICES ASSUME NEW z \in Execs PROVE Settles(z)'
  BY DEF RestInv
<1>0. Settles(z)
  BY DEF RestInv
<1>1. ASSUME NEW x \in Execs, NEW r \in Runs, NEW w \in Workers, Take(x, r, w) PROVE Settles(z)'
  <2>1. /\ run[x][r] = "free" /\ run' = [run EXCEPT ![x][r] = "taken"]
        /\ job' = [job EXCEPT ![x] = "active"] /\ UNCHANGED <<row, events>>
    BY <1>1 DEF Take, Stage
  <2>2. CASE z = x
    <3>1. /\ job'[x] = "active"
          /\ \A q \in Runs : \/ run'[x][q] = run[x][q]
                             \/ run[x][q] = "free" /\ run'[x][q] = "taken"
      BY <2>1 DEF TypeOK
    <3> QED BY <1>0, <2>1, <2>2, <3>1 DEF Settles, Busy
  <2>3. CASE z # x
    BY <1>0, <2>1, <2>3, SettlesStill DEF TypeOK
  <2> QED BY <2>2, <2>3
<1>2. ASSUME NEW x \in Execs, LoseLock(x) PROVE Settles(z)'
  <2>1. /\ UNCHANGED <<row, run>> /\ events \subseteq events'
        /\ \A y \in Execs \ {x} : job'[y] = job[y]
        /\ job'[x] # "waiting" => job'[x] = "failed" /\ Emit(x, "failed")
    BY <1>2 DEF LoseLock, TypeOK, Emit
  <2>2. CASE z = x /\ job'[x] = "failed" /\ Emit(x, "failed")
    <3>1. PICK w \in Workers : TRUE
      BY LifecycleAssumption
    <3>2. <<w, x, "failed">> \in events'
      BY <2>2 DEF Emit, AwakeInv
    <3>3. \E e \in events' : e[2] = x
      BY <3>2
    <3> QED BY <1>0, <2>1, <2>2, <3>3 DEF Settles
  <2>3. CASE z # x \/ job'[x] = "waiting"
    BY <1>0, <2>1, <2>3, SettlesStill
  <2> QED BY <2>1, <2>2, <2>3
<1>3. ASSUME NEW w \in Workers, RecoveryStep(w) PROVE Settles(z)'
  <2>1. PICK x \in Execs, k \in {"stalled", "failed"} : SyncFailedExecution(w, x, k)
    BY <1>3, RecoveryIsEvents
  <2>2. /\ events' = events \ {<<w, x, k>>} /\ UNCHANGED <<run, job>>
        /\ \A y \in Execs \ {x} : row'[y] = row[y]
        /\ row'[x] \notin {"RUNNING", "PENDING"}
    BY <2>1 DEF SyncFailedExecution, Fail
  <2>3. CASE z = x
    BY <2>2, <2>3, SettlesWritten
  <2>4. CASE z # x
    <3>1. \A e \in events : e[2] = z => e \in events'
      BY <2>2, <2>4
    <3> QED BY <1>0, <2>2, <2>4, <3>1, SettlesStill
  <2> QED BY <2>3, <2>4
<1>4. CASE UNCHANGED vars
  BY <1>0, <1>4, SettlesStill DEF vars
<1> QED BY <1>1, <1>2, <1>3, <1>4

\* In every instance whose workers do not crash, when a job is over its row is
\* settled, whatever cancels, deletes, notes, redeliveries and runs that go on
\* without their lock do, and in whatever order.
THEOREM SettlesAtRest ==
  ASSUME NoCrash PROVE Spec => []SettledAtRest
<1>1. Init => AwakeInv /\ RestInv
  BY DEF Init, AwakeInv, RestInv, Settles
<1>2. TypeOK /\ JobInv /\ AwakeInv /\ RestInv /\ [Next]_vars => AwakeInv' /\ RestInv'
  <2> SUFFICES ASSUME TypeOK, JobInv, AwakeInv, RestInv, [Next]_vars PROVE AwakeInv' /\ RestInv'
    OBVIOUS
  <2>1. AwakeInv'
    BY AwakeStep
  <2>2. RestInv'
    BY ProcessorSettles, RequestSettles, QueueSettles, NeverCrashes DEF Next, Progress
  <2> QED BY <2>1, <2>2
<1>3. TypeOK /\ AwakeInv /\ RestInv => SettledAtRest
  <2> SUFFICES ASSUME RestInv, NEW x \in Execs, AtRest(x) PROVE row[x] \notin {"PENDING", "RUNNING"}
    BY DEF SettledAtRest
  <2>1. Settles(x) /\ \A r \in Runs : run[x][r] \notin Live
    BY DEF RestInv, AtRest, Alive
  <2> QED BY <2>1 DEF Settles, AtRest, Busy, Live
<1> QED BY <1>1, <1>2, <1>3, Inductive, PTL DEF Spec

-----------------------------------------------------------------------------
\* Where nothing crashes and no run outlives its lock, a job has at most one run
\* under way, and it holds the lock.
AloneInv ==
  \A x \in Execs :
    /\ \A r \in Runs : run[x][r] \notin {"free", "ended"} => job[x] = "active" /\ lock[x] = r
    /\ job[x] = "active" => lock[x] \in Runs /\ run[x][lock[x]] \in Live

\* An error execution is that of a run which has created it and has either queued
\* it or holds on until it has; once that run has ended, the job is over for good.
Made(y) ==
  LET x == maker[y][1]  r == maker[y][2]
  IN  IsError(y) =>
        /\ x \in Execs /\ r \in Runs
        /\ run[x][r] \in {"erring", "closing", "ended"}
        /\ run[x][r] = "ended" => job[x] = "completed"
        /\ run[x][r] # "erring" => job[y] # "none"

\* A failure has its error execution, or the run that is about to create it.
Followed(x) ==
  row[x] = "FAILED" /\ x \notin forced /\ ErrorOf[flow[x]] # "none" =>
    \/ \E r \in Runs : run[x][r] = "failed"
    \/ \E y \in Execs : IsError(y) /\ maker[y][1] = x
FailInv == ErrorOnce /\ \A x \in Execs : Made(x) /\ Followed(x)

LEMMA NeverLate ==
  ASSUME NoLateRuns, AwakeInv, AloneInv, NEW x \in Execs, LoseLock(x)
  PROVE  FALSE
BY DEF NoLateRuns, AwakeInv, AloneInv, LoseLock

\* One run moves from a stage to another.
Moves(x, r, s) == run' = [run EXCEPT ![x][r] = s]

LEMMA OtherRuns ==
  ASSUME TypeOK, NEW x \in Execs, NEW r \in Runs, NEW s, Moves(x, r, s)
  PROVE  /\ run'[x][r] = s
         /\ \A z \in Execs, q \in Runs : z # x \/ q # r => run'[z][q] = run[z][q]
         /\ \A z \in Execs \ {x} : run'[z] = run[z]
BY DEF Moves, TypeOK

\* The lock and the runs of a job that has a run under way.
LEMMA TheRun ==
  ASSUME TypeOK, AloneInv, NEW x \in Execs, NEW r \in Runs, run[x][r] \notin {"free", "ended"}
  PROVE  /\ job[x] = "active" /\ lock[x] = r
         /\ \A q \in Runs \ {r} : run[x][q] \in {"free", "ended"}
BY DEF AloneInv

LEMMA AloneOn ==
  ASSUME TypeOK, AloneInv, NEW x \in Execs, NEW r \in Runs, NEW s \in Live,
         run[x][r] \in Live, Moves(x, r, s), lock' = lock,
         \A z \in Execs : job'[z] = job[z] \/ (job[z] = "none" /\ job'[z] = "waiting")
  PROVE  AloneInv'
<1> SUFFICES ASSUME NEW z \in Execs
             PROVE  /\ \A q \in Runs : run'[z][q] \notin {"free", "ended"} => job'[z] = "active" /\ lock'[z] = q
                    /\ job'[z] = "active" => lock'[z] \in Runs /\ run'[z][lock'[z]] \in Live
  BY DEF AloneInv
<1>1. run[x][r] \notin {"free", "ended"}
  BY DEF Live
<1>2. CASE z = x
  BY <1>1, <1>2, TheRun, OtherRuns DEF AloneInv
<1>3. CASE z # x
  BY <1>3, OtherRuns DEF AloneInv
<1> QED BY <1>2, <1>3

LEMMA AloneOver ==
  ASSUME TypeOK, AloneInv, NEW x \in Execs, NEW r \in Runs, run[x][r] \in Live, Moves(x, r, "ended"),
         job'[x] # "active", \A z \in Execs \ {x} : job'[z] = job[z] /\ lock'[z] = lock[z]
  PROVE  AloneInv'
<1> SUFFICES ASSUME NEW z \in Execs
             PROVE  /\ \A q \in Runs : run'[z][q] \notin {"free", "ended"} => job'[z] = "active" /\ lock'[z] = q
                    /\ job'[z] = "active" => lock'[z] \in Runs /\ run'[z][lock'[z]] \in Live
  BY DEF AloneInv
<1>1. run[x][r] \notin {"free", "ended"}
  BY DEF Live
<1>2. CASE z = x
  BY <1>1, <1>2, TheRun, OtherRuns
<1>3. CASE z # x
  BY <1>3, OtherRuns DEF AloneInv
<1> QED BY <1>2, <1>3

\* The runs stand still, and no job becomes active.
LEMMA AloneStill ==
  ASSUME AloneInv, run' = run, lock' = lock,
         \A z \in Execs : job'[z] = job[z] \/ (job[z] = "none" /\ job'[z] = "waiting")
  PROVE  AloneInv'
<1> SUFFICES ASSUME NEW z \in Execs
             PROVE  /\ \A q \in Runs : run'[z][q] \notin {"free", "ended"} => job'[z] = "active" /\ lock'[z] = q
                    /\ job'[z] = "active" => lock'[z] \in Runs /\ run'[z][lock'[z]] \in Live
  BY DEF AloneInv
<1> QED BY DEF AloneInv

LEMMA AloneStep ==
  ASSUME TypeOK, NoCrash, NoLateRuns, AwakeInv, AloneInv, [Next]_vars
  PROVE  AloneInv'
<1> USE DEF rowVars, jobVars, runVars, watchVars, hist
<1>1. ASSUME NEW x \in Execs, NEW r \in Runs, MarkFails(x, r) \/ CatchFails(x, r) \/ Complete(x, r)
      PROVE  AloneInv'
  <2>1. run[x][r] \in Live /\ Moves(x, r, "ended")
    BY <1>1 DEF MarkFails, CatchFails, Complete, Throw, Stage, Moves, Live
  <2>2. lock[x] = r
    BY <2>1, TheRun DEF Live
  <2>3. job'[x] # "active" /\ \A z \in Execs \ {x} : job'[z] = job[z] /\ lock'[z] = lock[z]
    BY <1>1, <2>2 DEF MarkFails, CatchFails, Complete, Throw, TypeOK
  <2> QED BY <2>1, <2>3, AloneOver
<1>2. ASSUME NEW x \in Execs, NEW r \in Runs, ProcessorStep(x, r),
             ~(MarkFails(x, r) \/ CatchFails(x, r) \/ Complete(x, r))
      PROVE  AloneInv'
  <2>1. PICK s \in {"marked", "working", "catching", "returned", "succeeded", "failed", "erring", "closing"} :
          Moves(x, r, s)
    BY <1>2 DEF ProcessorStep, MarkRunning, Guard, Work, WriteSuccess, WriteFailed, ErrorCreate, ErrorEnqueue, Stage, Moves
  <2>2. /\ run[x][r] \in Live /\ lock' = lock
        /\ \A z \in Execs : job'[z] = job[z] \/ (job[z] = "none" /\ job'[z] = "waiting")
    BY <1>2 DEF ProcessorStep, MarkRunning, Guard, Work, WriteSuccess, WriteFailed, ErrorCreate, ErrorEnqueue, Live, TypeOK
  <2>3. s \in Live
    BY <2>1 DEF Live
  <2> QED BY <2>1, <2>2, <2>3, AloneOn
<1>3. ASSUME NEW x \in Execs, NEW r \in Runs, NEW w \in Workers, Take(x, r, w) PROVE AloneInv'
  <2>1. /\ job[x] = "waiting" /\ job' = [job EXCEPT ![x] = "active"] /\ lock' = [lock EXCEPT ![x] = r]
        /\ Moves(x, r, "taken")
    BY <1>3 DEF Take, Stage, Moves
  <2> SUFFICES ASSUME NEW z \in Execs
               PROVE  /\ \A q \in Runs : run'[z][q] \notin {"free", "ended"} => job'[z] = "active" /\ lock'[z] = q
                      /\ job'[z] = "active" => lock'[z] \in Runs /\ run'[z][lock'[z]] \in Live
    BY DEF AloneInv
  <2>2. CASE z = x
    <3>1. job'[x] = "active" /\ lock'[x] = r
      BY <2>1 DEF TypeOK
    <3>2. \A q \in Runs : run[x][q] \in {"free", "ended"}
      BY <2>1 DEF AloneInv
    <3> QED BY <2>1, <2>2, <3>1, <3>2, OtherRuns DEF Live
  <2>3. CASE z # x
    BY <2>1, <2>3, OtherRuns DEF AloneInv, TypeOK
  <2> QED BY <2>2, <2>3
<1>4. ASSUME NEW w \in Workers, RecoveryStep(w) PROVE AloneInv'
  BY <1>4, RecoveryIsEvents, AloneStill DEF SyncFailedExecution
<1>5. CASE Request
  <2>1. /\ UNCHANGED <<run, lock>>
        /\ \A z \in Execs : job'[z] = job[z] \/ (job[z] = "none" /\ job'[z] = "waiting")
    BY <1>5 DEF Request, Submit, Retry, Enqueue, CancelCheck, CancelWrite, NoteRead, NoteWrite, Delete, TypeOK
  <2> QED BY <2>1, AloneStill
<1>6. CASE UNCHANGED vars
  BY <1>6, AloneStill DEF vars
<1> QED BY <1>1, <1>2, <1>3, <1>4, <1>5, <1>6, NeverCrashes, NeverLate DEF Next, Progress

-----------------------------------------------------------------------------
\* The run that moves is not one that has made an error execution.
LEMMA MadeOn ==
  ASSUME TypeOK, NEW x \in Execs, NEW r \in Runs, NEW s, Moves(x, r, s),
         run[x][r] \notin {"erring", "closing", "ended"},
         NEW z \in Execs, Made(z), maker'[z] = maker[z], job[z] # "none" => job'[z] # "none",
         \A u \in Execs : job[u] = "completed" => job'[u] = "completed"
  PROVE  Made(z)'
<1> SUFFICES ASSUME IsError(z)'
             PROVE  LET u == maker[z][1]  q == maker[z][2]
                    IN  /\ u \in Execs /\ q \in Runs
                        /\ run'[u][q] \in {"erring", "closing", "ended"}
                        /\ run'[u][q] = "ended" => job'[u] = "completed"
                        /\ run'[u][q] # "erring" => job'[z] # "none"
  BY DEF Made
<1> DEFINE u == maker[z][1]
           q == maker[z][2]
<1>1. /\ u \in Execs /\ q \in Runs /\ run[u][q] \in {"erring", "closing", "ended"}
      /\ run[u][q] = "ended" => job[u] = "completed"
      /\ run[u][q] # "erring" => job[z] # "none"
  BY DEF Made, IsError
<1>2. u # x \/ q # r
  BY <1>1
<1>3. run'[u][q] = run[u][q]
  BY <1>1, <1>2, OtherRuns
<1> QED BY <1>1, <1>3

LEMMA MadeStill ==
  ASSUME run' = run, NEW z \in Execs, Made(z), maker'[z] = maker[z], job[z] # "none" => job'[z] # "none",
         \A u \in Execs : job[u] = "completed" => job'[u] = "completed"
  PROVE  Made(z)'
BY DEF Made, IsError

\* What Followed asks for is still there.
LEMMA FollowedOn ==
  ASSUME NEW z \in Execs, Followed(z), flow'[z] = flow[z], forced \subseteq forced',
         row'[z] = row[z] \/ row'[z] # "FAILED" \/ z \in forced',
         \A r \in Runs : run[z][r] = "failed" => run'[z][r] = "failed",
         \A y \in Execs : IsError(y) => maker'[y] = maker[y]
  PROVE  Followed(z)'
BY DEF Followed, IsError

\* A step that creates nothing, in terms of what it may do to the job and to one run.
LEMMA FailKept ==
  ASSUME FailInv, maker' = maker, \A z \in Execs : Made(z)' /\ Followed(z)'
  PROVE  FailInv'
BY DEF FailInv, ErrorOnce, IsError

\* A new row that is nobody's error execution.
LEMMA FailNew ==
  ASSUME TypeOK, JobInv, FailInv, NEW y \in Execs, row[y] = "absent",
         row' = [row EXCEPT ![y] = "PENDING"], \A z \in Execs \ {y} : flow'[z] = flow[z] /\ maker'[z] = maker[z],
         maker'[y][2] = 0, UNCHANGED <<run, job, forced>>
  PROVE  FailInv'
<1>1. ~IsError(y) /\ ~IsError(y)'
  BY DEF JobInv, IsError
<1>2. ErrorOnce'
  BY <1>1 DEF FailInv, ErrorOnce, IsError
<1>3. ASSUME NEW z \in Execs PROVE Made(z)' /\ Followed(z)'
  <2>1. CASE z = y
    <3>1. row'[z] = "PENDING"
      BY <2>1 DEF TypeOK
    <3> QED BY <1>1, <2>1, <3>1 DEF Made, Followed
  <2>2. CASE z # y
    <3>1. row'[z] = row[z] /\ maker'[z] = maker[z] /\ flow'[z] = flow[z]
      BY <2>2 DEF TypeOK
    <3>2. \A u \in Execs : IsError(u) => maker'[u] = maker[u]
      BY <1>1
    <3> QED BY <3>1, <3>2, MadeStill, FollowedOn DEF FailInv
  <2> QED BY <2>1, <2>2
<1> QED BY <1>2, <1>3 DEF FailInv

\* The run of x that is under way has made no error execution yet, so nobody has.
LEMMA NoneYet ==
  ASSUME TypeOK, AloneInv, FailInv, NEW x \in Execs, NEW r \in Runs,
         run[x][r] \notin {"free", "ended", "erring", "closing"},
         NEW y \in Execs, IsError(y)
  PROVE  maker[y][1] # x
<1> SUFFICES ASSUME maker[y][1] = x PROVE FALSE
  OBVIOUS
<1> DEFINE q == maker[y][2]
<1>1. /\ q \in Runs /\ run[x][q] \in {"erring", "closing", "ended"}
      /\ run[x][q] = "ended" => job[x] = "completed"
  BY DEF FailInv, Made
<1>2. job[x] = "active" /\ \A p \in Runs \ {r} : run[x][p] \in {"free", "ended"}
  BY TheRun
<1> QED BY <1>1, <1>2

LEMMA FailProcessor ==
  ASSUME TypeOK, JobInv, AloneInv, FailInv, NEW x \in Execs, NEW r \in Runs, ProcessorStep(x, r)
  PROVE  FailInv'
<1> USE DEF rowVars, jobVars, watchVars, hist
<1>1. CASE MarkFails(x, r) \/ CatchFails(x, r)
  <2>1. /\ run[x][r] \in {"taken", "catching"} /\ Moves(x, r, "ended") /\ UNCHANGED <<row, flow, maker, forced>>
        /\ \A u \in Execs \ {x} : job'[u] = job[u]
        /\ job'[x] \in {job[x], "waiting", "failed"}
    BY <1>1 DEF MarkFails, CatchFails, Throw, Stage, Moves, TypeOK
  <2>2. job[x] = "active"
    BY <2>1, TheRun
  <2>3. \A u \in Execs : /\ job[u] = "completed" => job'[u] = "completed"
                         /\ job[u] # "none" => job'[u] # "none"
    BY <2>1, <2>2
  <2>4. ASSUME NEW z \in Execs PROVE Made(z)' /\ Followed(z)'
    BY <2>1, <2>3, MadeOn, FollowedOn, OtherRuns DEF FailInv
  <2> QED BY <2>1, <2>4, FailKept
<1>2. CASE MarkRunning(x, r) \/ Guard(x, r) \/ Work(x, r) \/ WriteSuccess(x, r)
  <2>1. PICK s \in {"marked", "working", "catching", "returned", "succeeded"} : Moves(x, r, s)
    BY <1>2 DEF MarkRunning, Guard, Work, WriteSuccess, Stage, Moves
  <2>2. /\ run[x][r] \in {"taken", "marked", "working", "returned"} /\ UNCHANGED <<job, flow, maker, forced>>
        /\ \A u \in Execs : row'[u] = row[u] \/ row'[u] # "FAILED"
    BY <1>2 DEF MarkRunning, Guard, Work, WriteSuccess, TypeOK
  <2>3. ASSUME NEW z \in Execs PROVE Made(z)' /\ Followed(z)'
    BY <2>1, <2>2, MadeOn, FollowedOn, OtherRuns DEF FailInv
  <2> QED BY <2>2, <2>3, FailKept
<1>3. CASE WriteFailed(x, r)
  <2>1. /\ run[x][r] = "catching" /\ Moves(x, r, "failed") /\ UNCHANGED <<job, flow, maker, forced>>
        /\ \A u \in Execs \ {x} : row'[u] = row[u]
    BY <1>3 DEF WriteFailed, Stage, Moves, TypeOK
  <2>2. ASSUME NEW z \in Execs PROVE Made(z)'
    BY <2>1, MadeOn DEF FailInv
  <2>3. ASSUME NEW z \in Execs, z # x PROVE Followed(z)'
    BY <2>1, <2>3, FollowedOn, OtherRuns DEF FailInv
  <2>4. Followed(x)'
    BY <2>1, OtherRuns DEF Followed
  <2> QED BY <2>1, <2>2, <2>3, <2>4, FailKept
<1>4. ASSUME NEW y \in Execs, ErrorCreate(x, r, y) PROVE FailInv'
  <2>1. /\ run[x][r] = "failed" /\ Moves(x, r, "erring") /\ UNCHANGED <<job, forced>>
        /\ row[y] = "absent" /\ row' = [row EXCEPT ![y] = "PENDING"]
        /\ \A z \in Execs \ {y} : flow'[z] = flow[z] /\ maker'[z] = maker[z]
        /\ maker'[y] = <<x, r>>
    BY <1>4 DEF ErrorCreate, Create, Stage, Moves, TypeOK
  <2>2. ~IsError(y) /\ IsError(y)' /\ maker'[y][1] = x /\ maker'[y][2] = r
    BY <2>1, RunsFacts DEF JobInv, IsError
  <2>3. \A z \in Execs : IsError(z) => maker[z][1] # x
    BY <2>1, NoneYet
  <2>4. ErrorOnce'
    BY <2>1, <2>2, <2>3 DEF FailInv, ErrorOnce, IsError
  <2>5. Made(y)'
    BY <2>1, <2>2, OtherRuns DEF Made
  <2>6. ASSUME NEW z \in Execs, z # y PROVE Made(z)'
    BY <2>1, <2>6, MadeOn DEF FailInv
  <2>7. ASSUME NEW z \in Execs PROVE Followed(z)'
    <3>1. CASE z = x
      BY <2>2, <3>1 DEF Followed
    <3>2. CASE z = y
      <4>1. row'[z] = "PENDING"
        BY <2>1, <3>2 DEF TypeOK
      <4> QED BY <4>1 DEF Followed
    <3>3. CASE z # x /\ z # y
      <4>1. row'[z] = row[z] /\ flow'[z] = flow[z] /\ \A u \in Execs : IsError(u) => maker'[u] = maker[u]
        BY <2>1, <2>2, <3>3 DEF TypeOK
      <4> QED BY <2>1, <3>3, <4>1, FollowedOn, OtherRuns DEF FailInv
    <3> QED BY <3>1, <3>2, <3>3
  <2> QED BY <2>4, <2>5, <2>6, <2>7 DEF FailInv
<1>5. ASSUME NEW y \in Execs, ErrorEnqueue(x, r, y) PROVE FailInv'
  <2>1. /\ run[x][r] = "erring" /\ Moves(x, r, "closing") /\ maker[y] = <<x, r>> /\ job[y] = "none"
        /\ job' = [job EXCEPT ![y] = "waiting"] /\ UNCHANGED <<row, flow, maker, forced>>
    BY <1>5 DEF ErrorEnqueue, Stage, Moves
  <2>2. IsError(y) /\ maker[y][1] = x
    BY <2>1, RunsFacts DEF IsError
  <2>3. job'[y] = "waiting" /\ \A u \in Execs : /\ job[u] = "completed" => job'[u] = "completed"
                                                /\ job[u] # "none" => job'[u] # "none"
    BY <2>1 DEF TypeOK
  <2>4. ASSUME NEW z \in Execs PROVE Made(z)'
    <3> SUFFICES ASSUME IsError(z)
                 PROVE  LET u == maker[z][1]  q == maker[z][2]
                        IN  /\ u \in Execs /\ q \in Runs
                            /\ run'[u][q] \in {"erring", "closing", "ended"}
                            /\ run'[u][q] = "ended" => job'[u] = "completed"
                            /\ run'[u][q] # "erring" => job'[z] # "none"
      BY <2>1 DEF Made, IsError
    <3> DEFINE u == maker[z][1]
               q == maker[z][2]
    <3>1. /\ u \in Execs /\ q \in Runs /\ run[u][q] \in {"erring", "closing", "ended"}
          /\ run[u][q] = "ended" => job[u] = "completed"
          /\ run[u][q] # "erring" => job[z] # "none"
      BY DEF FailInv, Made
    <3>2. CASE u = x
      <4>1. z = y
        BY <2>2, <3>2 DEF FailInv, ErrorOnce
      <4>2. q = r
        BY <2>1, <4>1
      <4>3. run'[u][q] = "closing"
        BY <2>1, <3>2, <4>2, OtherRuns
      <4> QED BY <2>3, <3>1, <4>1, <4>3
    <3>3. CASE u # x
      <4>1. run'[u][q] = run[u][q]
        BY <2>1, <3>1, <3>3, OtherRuns
      <4> QED BY <2>3, <3>1, <4>1
    <3> QED BY <3>2, <3>3
  <2>5. ASSUME NEW z \in Execs PROVE Followed(z)'
    BY <2>1, FollowedOn, OtherRuns DEF FailInv
  <2> QED BY <2>1, <2>4, <2>5, FailKept
<1>6. CASE Complete(x, r)
  <2>1. /\ \/ run[x][r] \in {"succeeded", "closing"}
           \/ run[x][r] = "failed" /\ ErrorOf[flow[x]] = "none"
        /\ Moves(x, r, "ended") /\ UNCHANGED <<row, flow, maker, forced>>
    BY <1>6 DEF Complete, Stage, Moves
  <2>2. job[x] = "active" /\ lock[x] = r
    BY <2>1, TheRun
  <2>3. job' = [job EXCEPT ![x] = "completed"]
    BY <1>6, <2>2 DEF Complete
  <2>4. \A u \in Execs : /\ job[u] = "completed" => job'[u] = "completed"
                         /\ job[u] # "none" => job'[u] # "none"
    BY <2>3 DEF TypeOK
  <2>5. ASSUME NEW z \in Execs PROVE Made(z)'
    <3>1. CASE run[x][r] # "closing"
      BY <2>1, <2>4, <3>1, MadeOn DEF FailInv
    <3>2. CASE run[x][r] = "closing"
      <4> SUFFICES ASSUME IsError(z)
                   PROVE  LET u == maker[z][1]  q == maker[z][2]
                          IN  /\ u \in Execs /\ q \in Runs
                              /\ run'[u][q] \in {"erring", "closing", "ended"}
                              /\ run'[u][q] = "ended" => job'[u] = "completed"
                              /\ run'[u][q] # "erring" => job'[z] # "none"
        BY <2>1 DEF Made, IsError
      <4> DEFINE u == maker[z][1]
                 q == maker[z][2]
      <4>1. /\ u \in Execs /\ q \in Runs /\ run[u][q] \in {"erring", "closing", "ended"}
            /\ run[u][q] = "ended" => job[u] = "completed"
            /\ run[u][q] # "erring" => job[z] # "none"
        BY DEF FailInv, Made
      <4>2. CASE u = x /\ q = r
        <5>1. run'[u][q] = "ended" /\ job'[u] = "completed"
          BY <2>1, <2>3, <4>2, OtherRuns DEF TypeOK
        <5> QED BY <2>4, <3>2, <4>1, <4>2, <5>1
      <4>3. CASE u # x \/ q # r
        <5>1. run'[u][q] = run[u][q]
          BY <2>1, <4>1, <4>3, OtherRuns
        <5> QED BY <2>4, <4>1, <5>1
      <4> QED BY <4>2, <4>3
    <3> QED BY <3>1, <3>2
  <2>6. ASSUME NEW z \in Execs PROVE Followed(z)'
    <3>1. CASE z = x /\ ErrorOf[flow[x]] = "none"
      BY <2>1, <3>1 DEF Followed
    <3>2. CASE z # x \/ run[x][r] # "failed"
      BY <2>1, <3>2, FollowedOn, OtherRuns DEF FailInv
    <3> QED BY <2>1, <3>1, <3>2
  <2> QED BY <2>1, <2>5, <2>6, FailKept
<1> QED BY <1>1, <1>2, <1>3, <1>4, <1>5, <1>6 DEF ProcessorStep

LEMMA FailRequest ==
  ASSUME TypeOK, JobInv, FailInv, Request
  PROVE  FailInv'
<1> USE DEF rowVars, jobVars, runVars, watchVars, hist
<1>1. ASSUME NEW x \in Execs, NEW y \in Execs, Submit(y) \/ Retry(x, y) PROVE FailInv'
  <2>1. /\ row[y] = "absent" /\ row' = [row EXCEPT ![y] = "PENDING"] /\ UNCHANGED <<run, job, forced>>
        /\ \A z \in Execs \ {y} : flow'[z] = flow[z] /\ maker'[z] = maker[z]
        /\ maker'[y][2] = 0
    BY <1>1 DEF Submit, Retry, Create, TypeOK
  <2> QED BY <2>1, FailNew
<1>2. ASSUME NEW x \in Execs,
             Enqueue(x) \/ CancelWrite(x) \/ Delete(x) \/ CancelCheck(x) \/ NoteRead(x) \/ NoteWrite(x)
      PROVE  FailInv'
  <2>1. /\ UNCHANGED <<run, flow, maker>> /\ forced \subseteq forced'
        /\ \A z \in Execs : /\ row'[z] = row[z] \/ row'[z] # "FAILED" \/ z \in forced'
                            /\ job[z] = "completed" => job'[z] = "completed"
                            /\ job[z] # "none" => job'[z] # "none"
    BY <1>2 DEF Enqueue, CancelWrite, Delete, CancelCheck, NoteRead, NoteWrite, TypeOK
  <2>2. ASSUME NEW z \in Execs PROVE Made(z)' /\ Followed(z)'
    BY <2>1, MadeStill, FollowedOn DEF FailInv
  <2> QED BY <2>1, <2>2, FailKept
<1> QED BY <1>1, <1>2 DEF Request

LEMMA FailQueue ==
  ASSUME TypeOK, AwakeInv, AloneInv, FailInv,
         \/ \E x \in Execs, r \in Runs, w \in Workers : Take(x, r, w)
         \/ \E w \in Workers : RecoveryStep(w)
         \/ UNCHANGED vars
  PROVE  FailInv'
<1> USE DEF rowVars, jobVars, runVars, watchVars, hist
<1>1. ASSUME NEW x \in Execs, NEW r \in Runs, NEW w \in Workers, Take(x, r, w) PROVE FailInv'
  <2>1. /\ job[x] = "waiting" /\ job' = [job EXCEPT ![x] = "active"] /\ run[x][r] = "free"
        /\ Moves(x, r, "taken") /\ UNCHANGED <<row, flow, maker, forced>>
    BY <1>1 DEF Take, Stage, Moves
  <2>2. \A u \in Execs : /\ job[u] = "completed" => job'[u] = "completed"
                         /\ job[u] # "none" => job'[u] # "none"
    BY <2>1 DEF TypeOK
  <2>3. ASSUME NEW z \in Execs PROVE Made(z)' /\ Followed(z)'
    BY <2>1, <2>2, MadeOn, FollowedOn, OtherRuns DEF FailInv
  <2> QED BY <2>1, <2>3, FailKept
<1>2. ASSUME NEW w \in Workers, RecoveryStep(w) PROVE FailInv'
  <2>1. PICK x \in Execs, k \in {"stalled", "failed"} : SyncFailedExecution(w, x, k)
    BY <1>2, RecoveryIsEvents
  <2>2. /\ UNCHANGED <<run, job, flow, maker>> /\ forced \subseteq forced'
        /\ \A z \in Execs : row'[z] = row[z] \/ z \in forced'
    BY <2>1 DEF SyncFailedExecution, Fail
  <2>3. ASSUME NEW z \in Execs PROVE Made(z)' /\ Followed(z)'
    BY <2>2, MadeStill, FollowedOn DEF FailInv
  <2> QED BY <2>2, <2>3, FailKept
<1>3. CASE UNCHANGED vars
  <2>1. ASSUME NEW z \in Execs PROVE Made(z)' /\ Followed(z)'
    BY <1>3, MadeStill, FollowedOn DEF vars, FailInv
  <2> QED BY <1>3, <2>1, FailKept DEF vars
<1> QED BY <1>1, <1>2, <1>3

\* In every instance whose workers neither crash nor lose a lock to a run that
\* goes on, a failed execution has run its error workflow once its job is over,
\* and once only, although a job is attempted up to three times.
THEOREM ErrorsRunOnce ==
  ASSUME NoCrash, NoLateRuns PROVE Spec => []ErrorRunsOnce
<1>1. Init => AwakeInv /\ AloneInv /\ FailInv
  <2> SUFFICES ASSUME Init PROVE AwakeInv /\ AloneInv /\ FailInv
    OBVIOUS
  <2>1. \A x \in Execs : ~IsError(x) /\ row[x] = "absent" /\ \A r \in Runs : run[x][r] = "free"
    BY DEF Init, IsError
  <2> QED BY <2>1 DEF Init, AwakeInv, AloneInv, FailInv, ErrorOnce, Made, Followed
<1>2. TypeOK /\ JobInv /\ AwakeInv /\ AloneInv /\ FailInv /\ [Next]_vars => AwakeInv' /\ AloneInv' /\ FailInv'
  <2> SUFFICES ASSUME TypeOK, JobInv, AwakeInv, AloneInv, FailInv, [Next]_vars
               PROVE  AwakeInv' /\ AloneInv' /\ FailInv'
    OBVIOUS
  <2>1. AwakeInv' /\ AloneInv'
    BY AwakeStep, AloneStep
  <2>2. FailInv'
    BY FailProcessor, FailRequest, FailQueue, NeverCrashes, NeverLate DEF Next, Progress
  <2> QED BY <2>1, <2>2
<1>3. TypeOK /\ FailInv => ErrorRunsOnce
  <2> SUFFICES ASSUME FailInv, NEW x \in Execs, AtRest(x), row[x] = "FAILED", x \notin forced,
                      ErrorOf[flow[x]] # "none"
               PROVE  \E y \in Execs : IsError(y) /\ maker[y][1] = x /\ job[y] # "none"
    BY DEF ErrorRunsOnce, ErrorFollowsFailure, FailInv
  <2>1. \A r \in Runs : run[x][r] \notin Live
    BY DEF AtRest, Alive
  <2>2. PICK y \in Execs : IsError(y) /\ maker[y][1] = x
    BY <2>1 DEF FailInv, Followed, Live
  <2>3. maker[y][2] \in Runs /\ (run[x][maker[y][2]] # "erring" => job[y] # "none")
    BY <2>2 DEF FailInv, Made
  <2> QED BY <2>1, <2>2, <2>3 DEF Live
<1> QED BY <1>1, <1>2, <1>3, Inductive, PTL DEF Spec
=============================================================================
