------------------------------ MODULE BrainEngine ------------------------------
(***************************************************************************)
(* The request lifecycle of engine/brain_engine.py: requests processed by  *)
(* worker threads on engines (the shared engine of routes/brain.py or the  *)
(* per-conversation forks of fork_for_conversation).  Every engine has its *)
(* own BrainStateMachine; the approval, task and plan managers are shared  *)
(* by all of them.                                                         *)
(*                                                                         *)
(* A worker's step ends where the code calls a shared manager, and where   *)
(* it tests or assigns the state machine's state, because another thread   *)
(* may run there: transition_to is two steps.  pc[w] names the             *)
(* call the worker makes next and todo[w] the transition_to calls it makes *)
(* before that; any exception ends the request in process_input's handler, *)
(* which leaves the state machine where it is.                             *)
(***************************************************************************)
EXTENDS Naturals, Sequences

CONSTANTS
  Engines,      \* BrainEngine objects that share the managers
  Workers,      \* threads that run process_input
  EngineOf,     \* EngineOf[w]: the engine whose requests w runs; an engine with
                \* one worker is serialised by its conversation's lock, as long
                \* as no turn of the conversation is cut off
  Actions,      \* tool actions
  Gated,        \* actions for which PermissionPolicy asks for approval
  Plans,        \* plan ids: the slug of a goal phrase, the same in every session
  NoPlan,       \* the plan of a task that no plan asked for
  Steps,        \* Steps[p]: the actions of plan p, in order
  Kinds,        \* kinds of request that are sent, see Requests
  Outcomes,     \* what executing a tool may do, see Dispatch
  Checked,      \* TRUE: approve and reject raise when the approval is decided
  MaxAsks       \* bound: requests that create tasks or save a plan

AllOutcomes == {"success", "failed", "no_driver", "raises"}

ASSUME ConstantsOK ==
  /\ EngineOf \in [Workers -> Engines]
  /\ Gated \subseteq Actions
  /\ NoPlan \notin Plans
  /\ Steps \in [Plans -> Seq(Actions)]
  /\ Outcomes \subseteq AllOutcomes
  /\ Checked \in BOOLEAN
  /\ MaxAsks \in Nat

VARIABLES
  sm,           \* sm[e]: current_state of engine e's BrainStateMachine
  tasks,        \* task memory, in creation order
  approvals,    \* ApprovalManager, in creation order
  planStatus,   \* plan memory: status of the saved plan
  stepStatus,   \* plan memory: status of each step of it
  pc,           \* pc[w]: next call of the request w runs, "idle" when none
  req,          \* req[w]: what the request asks
  todo,         \* todo[w]: state transitions to make before pc[w]
  passed,       \* passed[w]: transition_to has let the first of them pass
  step,         \* step[w]: index of the plan step being handled
  task,         \* task[w]: task being handled, 0 for none
  appr,         \* appr[w]: approval being decided, 0 for none
  out,          \* out[w]: status the tool adapter returned
  asks          \* requests admitted that create tasks or save a plan

managers == <<tasks, approvals, planStatus, stepStatus>>
locals   == <<req, step, task, appr, out>>
vars     == <<sm, tasks, approvals, planStatus, stepStatus, pc, req, todo, passed,
              step, task, appr, out, asks>>

(***************************************************************************)
(* engine/state_machine.py                                                 *)
(***************************************************************************)
BrainStates ==
  {"IDLE", "RECEIVED_REQUEST", "UNDERSTANDING", "DECIDING", "RISK_CHECKING",
   "WAITING_APPROVAL", "EXECUTING", "RESPONDING", "UPDATING_MEMORY",
   "COMPLETED", "FAILED"}

AllowedTransitions ==
  {<<"IDLE", "RECEIVED_REQUEST">>, <<"RECEIVED_REQUEST", "UNDERSTANDING">>,
   <<"UNDERSTANDING", "DECIDING">>, <<"DECIDING", "RISK_CHECKING">>,
   <<"RISK_CHECKING", "WAITING_APPROVAL">>, <<"RISK_CHECKING", "EXECUTING">>,
   <<"WAITING_APPROVAL", "EXECUTING">>, <<"EXECUTING", "RESPONDING">>,
   <<"RESPONDING", "UPDATING_MEMORY">>, <<"UPDATING_MEMORY", "COMPLETED">>,
   <<"COMPLETED", "IDLE">>}
  \cup (BrainStates \X {"FAILED"})

\* Mutant of FinishFlow: the flow is not completed.
UnfinishedFlow == <<"RESPONDING", "UPDATING_MEMORY">>

\* _finish_flow, and the transitions of _complete_simple_response_flow that
\* follow _start_new_flow.
FinishFlow == <<"RESPONDING", "UPDATING_MEMORY", "COMPLETED">>
SimpleFlow == <<"DECIDING", "RISK_CHECKING", "EXECUTING">> \o FinishFlow

(***************************************************************************)
(* Types                                                                   *)
(***************************************************************************)
\* "simple" stands for every request answered through
\* _complete_simple_response_flow without looking at the state machine first:
\* conversation, system status, operational context, knowledge, refusals;
\* "context" for those that look (_complete_context_response_flow); "world" for
\* a world briefing, whose handler calls that flow again when it raised.
Requests ==
  [kind : {"simple", "context", "world", "confirm", "reject"}]
  \cup [kind : {"action"}, action : Actions, force : BOOLEAN]
  \cup [kind : {"goal", "preview"}, plan : Plans]

NoRequest == [kind |-> "none"]

Labels ==
  {"idle", "context", "save_plan", "start", "understand", "reply",
   "create_task", "run_plan", "plan_step", "gate", "ask", "attach", "dispatch",
   "record", "complete_step", "fail_step", "plan_done", "read_pending",
   "decide", "cancel_task", "resume"}

TaskStatus     == {"pending", "completed", "cancelled"}
ApprovalStatus == {"required", "approved", "rejected"}
PlanStates     == {"absent", "pending", "running", "waiting_approval",
                   "completed", "failed", "cancelled"}

\* runs counts the tasks.<action>.request events published for the task.
\* gated records the verdict of the permission check made for it.
Task == [engine : Engines, action : Actions, plan : Plans \cup {NoPlan},
         step : Nat, status : TaskStatus, runs : Nat, gated : BOOLEAN]

\* details["action"] is there from the start, details["task_id"] (task) is
\* written by the caller after create_approval has returned.
Approval == [engine : Engines, action : Actions, task : Nat,
             status : ApprovalStatus, runs : Nat]

TypeOK ==
  /\ sm \in [Engines -> BrainStates]
  /\ tasks \in Seq(Task)
  /\ approvals \in Seq(Approval)
  /\ \A a \in 1..Len(approvals) : approvals[a].task \in 0..Len(tasks)
  /\ planStatus \in [Plans -> PlanStates]
  /\ stepStatus \in [Plans -> Seq(PlanStates)]
  /\ \A p \in Plans : Len(stepStatus[p]) = Len(Steps[p])
  /\ pc \in [Workers -> Labels]
  /\ req \in [Workers -> Requests \cup {NoRequest}]
  /\ todo \in [Workers -> Seq(BrainStates)]
  /\ passed \in [Workers -> BOOLEAN]
  /\ step \in [Workers -> Nat]
  /\ task \in [Workers -> 0..Len(tasks)]
  /\ appr \in [Workers -> 0..Len(approvals)]
  /\ out \in [Workers -> AllOutcomes \cup {"none"}]
  /\ asks \in 0..MaxAsks

Init ==
  /\ sm = [e \in Engines |-> "IDLE"]
  /\ tasks = <<>>
  /\ approvals = <<>>
  /\ planStatus = [p \in Plans |-> "absent"]
  /\ stepStatus = [p \in Plans |-> [i \in 1..Len(Steps[p]) |-> "pending"]]
  /\ pc = [w \in Workers |-> "idle"]
  /\ req = [w \in Workers |-> NoRequest]
  /\ todo = [w \in Workers |-> <<>>]
  /\ passed = [w \in Workers |-> FALSE]
  /\ step = [w \in Workers |-> 0]
  /\ task = [w \in Workers |-> 0]
  /\ appr = [w \in Workers |-> 0]
  /\ out = [w \in Workers |-> "none"]
  /\ asks = 0

(***************************************************************************)
(* Steps of a request                                                      *)
(***************************************************************************)
Kind(w)   == req[w].kind
Engine(w) == sm[EngineOf[w]]

\* w has made its transitions and is at call l.
At(w, l) == pc[w] = l /\ todo[w] = <<>>

\* The request goes on at call l after the transitions path.
Goto(w, path, l) ==
  /\ pc' = [pc EXCEPT ![w] = l]
  /\ todo' = [todo EXCEPT ![w] = path]
  /\ passed' = [passed EXCEPT ![w] = FALSE]

\* process_input returns, normally or from its exception handler.
Return(w) ==
  /\ Goto(w, <<>>, "idle")
  /\ req' = [req EXCEPT ![w] = NoRequest]
  /\ step' = [step EXCEPT ![w] = 0]
  /\ task' = [task EXCEPT ![w] = 0]
  /\ appr' = [appr EXCEPT ![w] = 0]
  /\ out' = [out EXCEPT ![w] = "none"]

\* The call to which process_input dispatches the request.
Entry(r) ==
  CASE r.kind \in {"confirm", "reject"} -> "read_pending"
    [] r.kind \in {"goal", "preview"}   -> "save_plan"
    [] r.kind \in {"context", "world"}  -> "context"
    [] OTHER                            -> "start"

Creates(r) == r.kind \in {"action", "goal", "preview"}

Receive(w, r) ==
  /\ pc[w] = "idle"
  /\ Creates(r) => asks < MaxAsks
  /\ asks' = IF Creates(r) THEN asks + 1 ELSE asks
  /\ req' = [req EXCEPT ![w] = r]
  /\ step' = [step EXCEPT ![w] = 1]
  /\ Goto(w, <<>>, Entry(r))
  /\ UNCHANGED <<sm, managers, task, appr, out>>

\* transition_to looks whether the transition is allowed ...
CheckTransition(w) ==
  /\ todo[w] # <<>> /\ ~passed[w]
  /\ <<Engine(w), Head(todo[w])>> \in AllowedTransitions
  /\ passed' = [passed EXCEPT ![w] = TRUE]
  /\ UNCHANGED <<sm, managers, pc, todo, locals, asks>>

\* ... and assigns current_state.  Nothing locks the state machine in between: the
\* state may no longer be the one that was looked at.
TransitionTo(w) ==
  /\ todo[w] # <<>> /\ passed[w]
  /\ sm' = [sm EXCEPT ![EngineOf[w]] = Head(todo[w])]
  /\ todo' = [todo EXCEPT ![w] = Tail(todo[w])]
  /\ passed' = [passed EXCEPT ![w] = FALSE]
  /\ UNCHANGED <<managers, pc, locals, asks>>

\* Mutant of InvalidTransition: transition_to waits for the state it needs.
BlockedTransition(w) == FALSE

\* transition_to raises ValueError.  Only _handle_world_intelligence_request
\* catches it, and completes the flow once more.
InvalidTransition(w) ==
  /\ todo[w] # <<>> /\ ~passed[w]
  /\ <<Engine(w), Head(todo[w])>> \notin AllowedTransitions
  /\ \/ /\ Kind(w) # "world"
        /\ Return(w)
     \/ /\ Kind(w) = "world"
        /\ req' = [req EXCEPT ![w] = [kind |-> "context"]]
        /\ Goto(w, <<>>, "context")
        /\ UNCHANGED <<step, task, appr, out>>
  /\ UNCHANGED <<sm, managers, asks>>

\* _start_new_flow: COMPLETED is left for IDLE ...
StartNewFlow(w) ==
  /\ At(w, "start")
  /\ Goto(w, IF Engine(w) = "COMPLETED" THEN <<"IDLE">> ELSE <<>>, "understand")
  /\ UNCHANGED <<sm, managers, locals, asks>>

\* ... and IDLE for UNDERSTANDING; in any other state it does nothing.  The
\* handler goes on with the transitions of its own flow.
Understand(w) ==
  LET intake == IF Engine(w) = "IDLE" THEN <<"RECEIVED_REQUEST", "UNDERSTANDING">>
                                      ELSE <<>>
  IN /\ At(w, "understand")
     /\ \/ /\ Kind(w) \in {"simple", "context", "world", "reject"}
           /\ Goto(w, intake \o SimpleFlow, "reply")
        \/ /\ Kind(w) = "action"
           /\ Goto(w, Append(intake, "DECIDING"), "create_task")
        \/ /\ Kind(w) = "goal"
           /\ Goto(w, intake, "run_plan")
        \/ /\ Kind(w) = "confirm"
           /\ Goto(w, intake \o <<"DECIDING", "RISK_CHECKING", "EXECUTING">>, "dispatch")
     /\ UNCHANGED <<sm, managers, locals, asks>>

\* The response is built and process_input returns it.
Reply(w) ==
  /\ At(w, "reply")
  /\ Return(w)
  /\ UNCHANGED <<sm, managers, asks>>

\* _complete_context_response_flow
ContextCommand(w) ==
  /\ At(w, "context")
  /\ \/ /\ Engine(w) = "WAITING_APPROVAL"
        /\ Return(w)
     \/ /\ Engine(w) # "WAITING_APPROVAL"
        /\ Goto(w, <<>>, "start")
        /\ UNCHANGED locals
  /\ UNCHANGED <<sm, managers, asks>>

(***************************************************************************)
(* Tasks and plans                                                         *)
(***************************************************************************)
\* The tool action that w handles: the one requested, the one of the plan
\* step, or the one of the approval it decides.
ActionOf(w) ==
  CASE Kind(w) = "action" -> req[w].action
    [] Kind(w) = "goal"   -> Steps[req[w].plan][step[w]]
    [] OTHER              -> approvals[appr[w]].action

\* Policy or the action firewall (force) asks for an approval.
NeedsApproval(w) ==
  \/ ActionOf(w) \in Gated
  \/ Kind(w) = "action" /\ req[w].force

PlanOf(w) == IF Kind(w) = "goal" THEN req[w].plan ELSE NoPlan

\* TaskMemoryManager.create_task
CreateTaskFor(w) ==
  /\ tasks' = Append(tasks, [engine |-> EngineOf[w], action |-> ActionOf(w),
                             plan |-> PlanOf(w), step |-> step[w],
                             status |-> "pending", runs |-> 0,
                             gated |-> NeedsApproval(w)])
  /\ task' = [task EXCEPT ![w] = Len(tasks) + 1]

\* Mutant of SetStep: the step is added to the plan instead of replaced.
AddStep(p, i, s) == stepStatus' = [stepStatus EXCEPT ![p] = Append(@, s)]

SetStep(p, i, s) == stepStatus' = [stepStatus EXCEPT ![p][i] = s]
SetPlan(p, s)    == planStatus' = [planStatus EXCEPT ![p] = s]

\* PlanMemoryManager.save_plan: a plan of that id saved before is replaced.
\* A preview (LLM-proposed plan) is only saved.
SavePlan(w) ==
  LET p == req[w].plan
  IN /\ At(w, "save_plan")
     /\ SetPlan(p, "pending")
     /\ stepStatus' = [stepStatus EXCEPT ![p] = [i \in DOMAIN Steps[p] |-> "pending"]]
     /\ \/ Kind(w) = "goal" /\ Goto(w, <<>>, "start") /\ UNCHANGED locals
        \/ Kind(w) = "preview" /\ Return(w)
     /\ UNCHANGED <<sm, tasks, approvals, asks>>

\* _handle_execution_plan up to its loop
RunPlan(w) ==
  /\ At(w, "run_plan")
  /\ SetPlan(req[w].plan, "running")
  /\ IF Steps[req[w].plan] # <<>>
     THEN Goto(w, <<"DECIDING", "RISK_CHECKING">>, "plan_step")
     ELSE Goto(w, <<"DECIDING", "RISK_CHECKING">> \o FinishFlow, "plan_done")
  /\ UNCHANGED <<sm, tasks, approvals, stepStatus, locals, asks>>

\* _handle_plan_step up to the permission check
PlanStep(w) ==
  /\ At(w, "plan_step")
  /\ SetStep(req[w].plan, step[w], "running")
  /\ CreateTaskFor(w)
  /\ Goto(w, <<>>, "gate")
  /\ UNCHANGED <<sm, approvals, planStatus, req, step, appr, out, asks>>

\* _handle_action_request up to the permission check
CreateTask(w) ==
  /\ At(w, "create_task")
  /\ CreateTaskFor(w)
  /\ Goto(w, <<"RISK_CHECKING">>, "gate")
  /\ UNCHANGED <<sm, approvals, planStatus, stepStatus, req, step, appr, out, asks>>

\* Risk classification and permission check, approval required.
GateCloses(w) ==
  /\ At(w, "gate")
  /\ NeedsApproval(w)
  /\ IF Kind(w) = "goal"
     THEN /\ SetStep(req[w].plan, step[w], "waiting_approval")
          /\ SetPlan(req[w].plan, "waiting_approval")
     ELSE UNCHANGED <<planStatus, stepStatus>>
  /\ Goto(w, <<>>, "ask")
  /\ UNCHANGED <<sm, tasks, approvals, locals, asks>>

\* No approval required: a plan enters EXECUTING with its first step.
GateOpens(w) ==
  /\ At(w, "gate")
  /\ ~NeedsApproval(w)
  /\ Goto(w, IF Kind(w) = "action" \/ Engine(w) = "RISK_CHECKING"
             THEN <<"EXECUTING">> ELSE <<>>, "dispatch")
  /\ UNCHANGED <<sm, managers, locals, asks>>

\* ApprovalManager.create_approval
CreateApproval(w) ==
  /\ At(w, "ask")
  /\ approvals' = Append(approvals, [engine |-> EngineOf[w], action |-> ActionOf(w),
                                     task |-> 0, status |-> "required", runs |-> 0])
  /\ appr' = [appr EXCEPT ![w] = Len(approvals) + 1]
  /\ Goto(w, <<>>, "attach")
  /\ UNCHANGED <<sm, tasks, planStatus, stepStatus, req, step, task, out, asks>>

\* approval.details is completed with the task (and through it the plan step);
\* the request ends in WAITING_APPROVAL.
AttachDetails(w) ==
  /\ At(w, "attach")
  /\ approvals' = [approvals EXCEPT ![appr[w]].task = task[w]]
  /\ Goto(w, <<"WAITING_APPROVAL">>, "reply")
  /\ UNCHANGED <<sm, tasks, planStatus, stepStatus, locals, asks>>

(***************************************************************************)
(* Execution: _execute_approved_action, _dispatch_tool_task                *)
(***************************************************************************)
\* The task is published and the tool runs.  The adapter manager answers
\* "success" or "failed"; "no_driver" is a failure for which the registry has no
\* driver, so that the audit after it raises ValueError; "raises" is any other
\* exception, which leaves for process_input's handler.
Dispatch(w, o) ==
  /\ At(w, "dispatch")
  /\ tasks' = IF task[w] = 0 THEN tasks ELSE [tasks EXCEPT ![task[w]].runs = @ + 1]
  /\ approvals' = IF Kind(w) # "confirm" THEN approvals
                  ELSE [approvals EXCEPT ![appr[w]].runs = @ + 1]
  /\ \/ /\ o = "raises"
        /\ Return(w)
     \/ /\ o # "raises"
        /\ out' = [out EXCEPT ![w] = o]
        /\ Goto(w, <<>>, "record")
        /\ UNCHANGED <<req, step, task, appr>>
  /\ UNCHANGED <<sm, planStatus, stepStatus, asks>>

\* The task takes the status of the result.
RecordResult(w) ==
  /\ At(w, "record")
  /\ tasks' = IF task[w] = 0 THEN tasks
              ELSE [tasks EXCEPT ![task[w]].status =
                      IF out[w] = "success" THEN "completed" ELSE "cancelled"]
  /\ \/ /\ Kind(w) = "action"
        /\ Goto(w, FinishFlow, "reply")
     \/ /\ Kind(w) # "action"
        /\ Goto(w, <<>>, IF out[w] = "no_driver" THEN "fail_step" ELSE "complete_step")
  /\ UNCHANGED <<sm, approvals, planStatus, stepStatus, locals, asks>>

\* The task that w handles belongs to a plan step.
OfPlan(w) == task[w] # 0 /\ tasks[task[w]].plan # NoPlan

\* End of _handle_plan_step, and the loop of _handle_execution_plan.
CompletePlanStep(w) ==
  LET p == req[w].plan
  IN /\ At(w, "complete_step") /\ Kind(w) = "goal"
     /\ SetStep(p, step[w], "completed")
     /\ \/ /\ step[w] < Len(Steps[p])
           /\ step' = [step EXCEPT ![w] = @ + 1]
           /\ Goto(w, <<>>, "plan_step")
        \/ /\ step[w] = Len(Steps[p])
           /\ UNCHANGED step
           /\ Goto(w, FinishFlow, "plan_done")
     /\ UNCHANGED <<sm, tasks, approvals, planStatus, req, task, appr, out, asks>>

PlanDone(w) ==
  /\ At(w, "plan_done")
  /\ SetPlan(req[w].plan, "completed")
  /\ Return(w)
  /\ UNCHANGED <<sm, tasks, approvals, stepStatus, asks>>

\* _mark_plan_step_completed
CompleteApprovedStep(w) ==
  LET t == tasks[task[w]]
      done == [stepStatus[t.plan] EXCEPT ![t.step] = "completed"]
  IN /\ At(w, "complete_step") /\ Kind(w) = "confirm"
     /\ IF OfPlan(w)
        THEN /\ SetStep(t.plan, t.step, "completed")
             /\ SetPlan(t.plan, IF \A i \in DOMAIN done : done[i] = "completed"
                                THEN "completed" ELSE "running")
        ELSE UNCHANGED <<planStatus, stepStatus>>
     /\ Goto(w, FinishFlow, "reply")
     /\ UNCHANGED <<sm, tasks, approvals, locals, asks>>

\* _mark_plan_step_failed, and the same in _handle_plan_step
FailStep(w) ==
  LET t == tasks[task[w]]
  IN /\ At(w, "fail_step")
     /\ IF OfPlan(w)
        THEN SetStep(t.plan, t.step, "failed") /\ SetPlan(t.plan, "failed")
        ELSE UNCHANGED <<planStatus, stepStatus>>
     /\ Goto(w, FinishFlow, "reply")
     /\ UNCHANGED <<sm, tasks, approvals, locals, asks>>

(***************************************************************************)
(* Decisions: _handle_approval_response, _handle_rejection_response        *)
(***************************************************************************)
Pending == {a \in DOMAIN approvals : approvals[a].status = "required"}

\* _get_next_pending_approval: the oldest one, whoever asked for it
ReadPending(w) ==
  /\ At(w, "read_pending")
  /\ \/ /\ Pending = {}
        /\ Return(w)
     \/ \E a \in Pending :
          /\ \A b \in Pending : a <= b
          /\ appr' = [appr EXCEPT ![w] = a]
          /\ Goto(w, <<>>, "decide")
          /\ UNCHANGED <<req, step, task, out>>
  /\ UNCHANGED <<sm, managers, asks>>

\* Mutant of Decidable: a decision is taken for an approval read before.
DecidableOnceRead(w) == TRUE

\* ApprovalManager's own check, see Checked.
Decidable(w) == Checked => appr[w] \in Pending

\* ApprovalManager.approve or .reject raises: the approval was decided since.
DecisionRefused(w) ==
  /\ At(w, "decide")
  /\ ~Decidable(w)
  /\ Return(w)
  /\ UNCHANGED <<sm, managers, asks>>

Decide(w, status, l) ==
  /\ At(w, "decide")
  /\ Decidable(w)
  /\ approvals' = [approvals EXCEPT ![appr[w]].status = status]
  /\ task' = [task EXCEPT ![w] = approvals[appr[w]].task]
  /\ Goto(w, <<>>, l)
  /\ UNCHANGED <<sm, tasks, planStatus, stepStatus, req, step, appr, out, asks>>

\* Mutants of Approve: the decision is not saved; the action is not executed.
ApproveUnsaved(w)    == Kind(w) = "confirm" /\ Decide(w, "required", "resume")
ApproveUnexecuted(w) == Kind(w) = "confirm" /\ Decide(w, "approved", "reply")

\* Mutant of Reject: the flow that asked is not closed.
RejectOnly(w) == Kind(w) = "reject" /\ Decide(w, "rejected", "reply")

Approve(w) == Kind(w) = "confirm" /\ Decide(w, "approved", "resume")
Reject(w)  == Kind(w) = "reject"  /\ Decide(w, "rejected", "cancel_task")

\* The rejected task, its plan step and its plan are cancelled.
CancelTask(w) ==
  LET t == tasks[task[w]]
  IN /\ At(w, "cancel_task")
     /\ tasks' = IF task[w] = 0 THEN tasks
                 ELSE [tasks EXCEPT ![task[w]].status = "cancelled"]
     /\ IF OfPlan(w)
        THEN SetStep(t.plan, t.step, "cancelled") /\ SetPlan(t.plan, "cancelled")
        ELSE UNCHANGED <<planStatus, stepStatus>>
     /\ Goto(w, <<>>, "resume")
     /\ UNCHANGED <<sm, approvals, locals, asks>>

\* Mutant of Resume: a rejection continues like an approval.
ResumeAny(w) ==
  /\ At(w, "resume")
  /\ Goto(w, <<"EXECUTING">>, "dispatch")
  /\ UNCHANGED <<sm, managers, locals, asks>>

\* The engine leaves WAITING_APPROVAL; one that is not waiting begins a flow.
Resume(w) ==
  /\ At(w, "resume")
  /\ IF Engine(w) # "WAITING_APPROVAL" THEN Goto(w, <<>>, "start")
     ELSE IF Kind(w) = "confirm" THEN Goto(w, <<"EXECUTING">>, "dispatch")
     ELSE Goto(w, <<"EXECUTING">> \o FinishFlow, "reply")
  /\ UNCHANGED <<sm, managers, locals, asks>>

Step(w) ==
  \/ CheckTransition(w) \/ TransitionTo(w) \/ InvalidTransition(w)
  \/ StartNewFlow(w) \/ Understand(w) \/ Reply(w) \/ ContextCommand(w)
  \/ SavePlan(w) \/ RunPlan(w) \/ PlanStep(w) \/ CreateTask(w)
  \/ GateCloses(w) \/ GateOpens(w) \/ CreateApproval(w) \/ AttachDetails(w)
  \/ \E o \in Outcomes : Dispatch(w, o)
  \/ RecordResult(w) \/ CompletePlanStep(w) \/ PlanDone(w)
  \/ CompleteApprovedStep(w) \/ FailStep(w)
  \/ ReadPending(w) \/ DecisionRefused(w) \/ Approve(w) \/ Reject(w)
  \/ CancelTask(w) \/ Resume(w)

Next ==
  \E w \in Workers :
    \/ \E r \in Requests : r.kind \in Kinds /\ Receive(w, r)
    \/ Step(w)

Spec == Init /\ [][Next]_vars

\* A thread that runs a request is scheduled until the request returns; nothing
\* obliges anybody to send another request.
FairSpec == Spec /\ \A w \in Workers : WF_vars(Step(w))

(***************************************************************************)
(* Properties                                                              *)
(***************************************************************************)
\* A task whose permission check asked for approval is published to the tools
\* only after somebody approved it: _dispatch_tool_task has no check of its own.
ApprovedBeforeRun ==
  \A t \in DOMAIN tasks :
    tasks[t].gated /\ tasks[t].runs > 0 =>
      \E a \in DOMAIN approvals :
        approvals[a].task = t /\ approvals[a].status = "approved"

\* However many sessions answer at once, an approval is executed at most once
\* and a task is published at most once (_get_next_pending_approval and approve
\* are two calls).
RunsAtMostOnce ==
  /\ \A a \in DOMAIN approvals : approvals[a].runs <= 1
  /\ \A t \in DOMAIN tasks : tasks[t].runs <= 1

\* What was rejected never runs, neither the approval nor its task.
RejectedNeverRuns ==
  \A a \in DOMAIN approvals :
    approvals[a].status = "rejected" =>
      /\ approvals[a].runs = 0
      /\ approvals[a].task # 0 => tasks[approvals[a].task].runs = 0

\* As long as an approval is open its task is, too: neither run nor settled.
OpenApprovalHasOpenTask ==
  \A a \in Pending :
    approvals[a].task # 0 =>
      /\ tasks[approvals[a].task].status = "pending"
      /\ tasks[approvals[a].task].runs = 0

\* A task that completed or was cancelled keeps that status.
SettledTasksStay ==
  [][\A t \in DOMAIN tasks :
       tasks[t].status # "pending" => tasks'[t].status = tasks[t].status]_vars

Quiet(e) == \A w \in Workers : EngineOf[w] = e => pc[w] = "idle"

\* Between requests an engine is in a state from which the next request can
\* start.  (No exception but ValueError: process_input's handler does not reset
\* the state machine.)
EngineAtRest ==
  \A e \in Engines : Quiet(e) => sm[e] \in {"IDLE", "COMPLETED", "WAITING_APPROVAL"}

\* An engine that waits for an approval has asked for one that is still open:
\* _complete_context_response_flow reads WAITING_APPROVAL as "approval is
\* pending", and only a decision leaves that state.
WaitingHasApproval ==
  \A e \in Engines :
    Quiet(e) /\ sm[e] = "WAITING_APPROVAL" =>
      \E a \in Pending : approvals[a].engine = e

\* A plan shown as waiting for approval has an open approval for one of its
\* steps once no request is being handled.
WaitingPlanHasApproval ==
  (\A e \in Engines : Quiet(e)) =>
    \A p \in Plans :
      planStatus[p] = "waiting_approval" =>
        \E a \in Pending :
          approvals[a].task # 0 /\ tasks[approvals[a].task].plan = p

\* A plan step is marked completed only if the tool did what its task asked.
CompletedStepSucceeded ==
  \A p \in Plans : \A i \in DOMAIN stepStatus[p] :
    stepStatus[p][i] = "completed" =>
      \E t \in DOMAIN tasks : /\ tasks[t].plan = p /\ tasks[t].step = i
                              /\ tasks[t].status = "completed"

\* The approvals of the engine, seen as an approval gate: an approval that has
\* been executed (its task was published) is done.
gateOf ==
  [a \in 1..MaxAsks |->
     IF a \notin DOMAIN approvals THEN "none"
     ELSE IF approvals[a].runs > 0 THEN "executed"
     ELSE approvals[a].status]

Gate == INSTANCE ApprovalGate WITH Slots <- 1..MaxAsks, gate <- gateOf

\* The engine implements the gate: approvals of concurrent sessions are each
\* decided once, and executed once and only after they were approved.
ImplementsGate == Gate!Spec

\* ... and what was approved is executed.
ImplementsFairGate == Gate!FairSpec

\* Every request is answered.
RequestReturns == \A w \in Workers : pc[w] # "idle" ~> pc[w] = "idle"

================================================================================
