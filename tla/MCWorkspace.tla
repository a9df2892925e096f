----------------------------- MODULE MCWorkspace -----------------------------
(* What a user of the API works with, one part at a time, as `focus` says: the
   workflow rows with their editors, the same with the scheduler and a call less,
   the editor's undo history, an execution as the canvas shows it, and accounts
   with their keys. *)
EXTENDS Workflows, EditorHistory, LiveCanvas, Accounts, TLC

CONSTANTS u1, u2, e1, stock, scheduled, theirs
VARIABLE focus

Authors == (stock :> Nobody) @@ (scheduled :> u1) @@ (theirs :> u2)
Schedules == (stock :> "hourly") @@ (scheduled :> "daily") @@ (theirs :> None)
WebhookIds == (stock :> None) @@ (scheduled :> "hook") @@ (theirs :> None)
FirstEmail == u1 :> e1
RunOutcomes == <<{"failure"}, {"branch", "timedOut"}>>

Init ==
  /\ focus \in {"workflows", "scheduler", "history", "canvas", "accounts"}
  /\ WorkflowInit /\ HistoryInit /\ CanvasInit /\ AccountInit

Next ==
  /\ UNCHANGED focus
  /\ \/ focus = "workflows" /\ RequestStep /\ UNCHANGED <<historyVars, canvasVars, accountVars>>
     \/ focus = "scheduler" /\ (RequestStep \/ SchedulerStep) /\ calls' < MaxCalls /\ UNCHANGED <<historyVars, canvasVars, accountVars>>
     \/ focus = "history" /\ HistoryStep /\ UNCHANGED <<workflowVars, canvasVars, accountVars>>
     \/ focus = "canvas" /\ CanvasStep /\ UNCHANGED <<workflowVars, historyVars, accountVars>>
     \/ focus = "accounts" /\ AccountStep /\ UNCHANGED <<workflowVars, historyVars, canvasVars>>

vars == <<focus, workflowVars, historyVars, canvasVars, accountVars>>
Spec == Init /\ [][Next]_vars

(* The refresh of the schedules runs every minute and its query is answered. *)
Refresh(s) == focus = "scheduler" /\ (SyncRead(s) \/ syncSchedules(s)) /\ UNCHANGED <<focus, historyVars, canvasVars, accountVars>>
FairSpec == Spec /\ \A s \in Syncs : WF_vars(Refresh(s))

(* However refreshes overlap, in the end a task runs exactly for the workflows that
   want one. *)
TasksFollow == focus = "scheduler" => TasksCatchUp
=============================================================================
