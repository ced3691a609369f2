--------------------------- MODULE BrainEngineProofs ---------------------------
(***************************************************************************)
(* Theorems about BrainEngine, for any number of engines, workers and      *)
(* requests.  First its types; then that it implements ApprovalGate,       *)
(* provided that approve and reject refuse an approval that has been       *)
(* decided (Checked); then what the approvals mean for the tasks they are  *)
(* asked for.  The gate alone says nothing about tasks: a task is attached *)
(* to its approval after other sessions can already have decided it.  The  *)
(* last three sections are about the state machines: in which state an     *)
(* engine is left by its requests, and, for one conversation whose         *)
(* requests come one after the other, what an engine and a plan that wait  *)
(* for approval wait for.                                                  *)
(***************************************************************************)
EXTENDS BrainEngine, SequenceTheorems, TLAPS

(***************************************************************************)
(* Sequences                                                               *)
(***************************************************************************)
\* Appending to a sequence: its type, its length, its elements.
LEMMA AppendFacts ==
  ASSUME NEW S, NEW s \in Seq(S), NEW x \in S
  PROVE  /\ Append(s, x) \in Seq(S)
         /\ Len(Append(s, x)) = Len(s) + 1
         /\ \A i \in 1..Len(s) : Append(s, x)[i] = s[i]
         /\ Append(s, x)[Len(s) + 1] = x
OBVIOUS

\* A constant sequence.
LEMMA ConstantSeq ==
  ASSUME NEW S, NEW x \in S, NEW n \in Nat
  PROVE  /\ [i \in 1..n |-> x] \in Seq(S)
         /\ Len([i \in 1..n |-> x]) = n
OBVIOUS

\* The paths a request walks are sequences of states.
LEMMA PathsAreStates ==
  /\ FinishFlow \in Seq(BrainStates)
  /\ SimpleFlow \in Seq(BrainStates)
  /\ <<"EXECUTING">> \o FinishFlow \in Seq(BrainStates)
  /\ <<"DECIDING", "RISK_CHECKING">> \o FinishFlow \in Seq(BrainStates)
<1>1. FinishFlow \in Seq(BrainStates)
  BY DEF FinishFlow, BrainStates
<1>2. <<"DECIDING", "RISK_CHECKING", "EXECUTING">> \in Seq(BrainStates)
  BY DEF BrainStates
<1>3. <<"EXECUTING">> \in Seq(BrainStates) /\ <<"DECIDING", "RISK_CHECKING">> \in Seq(BrainStates)
  BY DEF BrainStates
<1> QED
  BY <1>1, <1>2, <1>3, ConcatProperties DEF SimpleFlow

(***************************************************************************)
(* Type correctness                                                        *)
(***************************************************************************)
\* What the request r of a worker at label l is, and which of the worker's
\* variables (step s, task t, approval a) are set there.
ShapeAt(l, r, s, t, a) ==
  /\ l # "idle" => r \in Requests
  /\ l = "context" => r.kind \in {"context", "world"}
  /\ l = "save_plan" => r.kind \in {"goal", "preview"}
  /\ l \in {"start", "understand"} => r.kind # "preview"
  /\ l = "create_task" => r.kind = "action"
  /\ l \in {"run_plan", "plan_step", "plan_done"} => r.kind = "goal"
  /\ l \in {"gate", "ask", "attach"} => r.kind \in {"action", "goal"} /\ t # 0
  /\ l \in {"dispatch", "record"} => r.kind \in {"action", "goal", "confirm"}
  /\ l \in {"complete_step", "fail_step"} => r.kind \in {"goal", "confirm"}
  /\ l \in {"read_pending", "decide", "resume"} => r.kind \in {"confirm", "reject"}
  /\ l = "cancel_task" => r.kind = "reject"
  /\ l \in {"save_plan", "start", "understand", "run_plan"} /\ r.kind = "goal" => s = 1
  /\ /\ l \in {"plan_step", "gate", "ask", "attach", "dispatch", "record",
               "complete_step", "fail_step"}
     /\ r.kind = "goal"
     => s \in 1..Len(Steps[r.plan])
  /\ l \notin {"idle", "read_pending"} /\ r.kind \in {"confirm", "reject"} => a # 0
  /\ l = "attach" => a # 0

Shape(w) == ShapeAt(pc[w], req[w], step[w], task[w], appr[w])

\* A task of a plan belongs to one of its steps.
TaskShape ==
  \A t \in 1..Len(tasks) :
    tasks[t].plan # NoPlan => tasks[t].step \in 1..Len(Steps[tasks[t].plan])

TypeInv == TypeOK /\ TaskShape /\ \A w \in Workers : Shape(w)

LEMMA InitTypeInv == Init => TypeInv
<1> SUFFICES ASSUME Init PROVE TypeInv
  OBVIOUS
<1>1. \A p \in Plans : Len(Steps[p]) \in Nat
  BY ConstantsOK, LenProperties
<1>2. \A p \in Plans : /\ [i \in 1..Len(Steps[p]) |-> "pending"] \in Seq(PlanStates)
                       /\ Len([i \in 1..Len(Steps[p]) |-> "pending"]) = Len(Steps[p])
  BY <1>1, ConstantSeq DEF PlanStates
<1>3. TypeOK
  BY <1>2, EmptySeq, ConstantsOK DEF TypeOK, Init, BrainStates, PlanStates, Labels
<1> QED
  BY <1>3 DEF TypeInv, TaskShape, Shape, ShapeAt, Init

\* Requests by kind.
LEMMA RequestFacts ==
  /\ \A r \in Requests : /\ r.kind = "action" => r.action \in Actions /\ r.force \in BOOLEAN
                         /\ r.kind \in {"goal", "preview"} => r.plan \in Plans
                         /\ r.kind \in {"simple", "context", "world", "confirm",
                                        "reject", "action", "goal", "preview"}
  /\ [kind |-> "context"] \in Requests
BY DEF Requests

\* The types of the variables that w shares with others, and of its own.
SharedTypes ==
  /\ sm \in [Engines -> BrainStates]
  /\ tasks \in Seq(Task)
  /\ approvals \in Seq(Approval)
  /\ \A a \in 1..Len(approvals) : approvals[a].task \in 0..Len(tasks)
  /\ planStatus \in [Plans -> PlanStates]
  /\ stepStatus \in [Plans -> Seq(PlanStates)]
  /\ \A p \in Plans : Len(stepStatus[p]) = Len(Steps[p])
  /\ asks \in 0..MaxAsks

LocalTypes ==
  /\ pc \in [Workers -> Labels]
  /\ req \in [Workers -> Requests \cup {NoRequest}]
  /\ todo \in [Workers -> Seq(BrainStates)]
  /\ passed \in [Workers -> BOOLEAN]
  /\ step \in [Workers -> Nat]
  /\ task \in [Workers -> 0..Len(tasks)]
  /\ appr \in [Workers -> 0..Len(approvals)]
  /\ out \in [Workers -> AllOutcomes \cup {"none"}]

LEMMA TypesSplit == TypeOK <=> SharedTypes /\ LocalTypes
BY DEF TypeOK, SharedTypes, LocalTypes

\* A step of w leaves the variables of every other worker alone.
Others(w) ==
  \A v \in Workers \ {w} :
    /\ pc'[v] = pc[v]     /\ req'[v] = req[v]    /\ step'[v] = step[v]
    /\ task'[v] = task[v] /\ appr'[v] = appr[v]

LEMMA StepKeepsOthers ==
  ASSUME TypeInv, NEW w \in Workers, Others(w),
         SharedTypes', LocalTypes', TaskShape', Shape(w)'
  PROVE  TypeInv'
<1>1. ASSUME NEW v \in Workers, v # w PROVE Shape(v)'
  BY <1>1 DEF TypeInv, Shape, Others
<1> QED
  BY <1>1, TypesSplit DEF TypeInv, TypeOK, SharedTypes, LocalTypes

(***************************************************************************)
(* The managers' operations                                                *)
(***************************************************************************)
LEMMA Lengths ==
  ASSUME SharedTypes
  PROVE  /\ Len(tasks) \in Nat /\ DOMAIN tasks = 1..Len(tasks)
         /\ Len(approvals) \in Nat /\ DOMAIN approvals = 1..Len(approvals)
         /\ \A p \in Plans : Len(Steps[p]) \in Nat
BY LenProperties, ConstantsOK DEF SharedTypes

\* Replacing one element of a sequence.
LEMMA UpdateFacts ==
  ASSUME NEW S, NEW s \in Seq(S), NEW i \in 1..Len(s), NEW x \in S
  PROVE  /\ [s EXCEPT ![i] = x] \in Seq(S)
         /\ Len([s EXCEPT ![i] = x]) = Len(s)
         /\ [s EXCEPT ![i] = x][i] = x
         /\ \A j \in 1..Len(s) : j # i => [s EXCEPT ![i] = x][j] = s[j]
BY ExceptSeq

\* Counting a run of a task, and settling it.
LEMMA TaskUpdates ==
  ASSUME tasks \in Seq(Task), NEW i \in 1..Len(tasks), NEW s \in TaskStatus
  PROVE  /\ [tasks EXCEPT ![i].runs = @ + 1] = [tasks EXCEPT ![i] = [tasks[i] EXCEPT !.runs = tasks[i].runs + 1]]
         /\ [tasks[i] EXCEPT !.runs = tasks[i].runs + 1] \in Task
         /\ [tasks EXCEPT ![i].status = s] = [tasks EXCEPT ![i] = [tasks[i] EXCEPT !.status = s]]
         /\ [tasks[i] EXCEPT !.status = s] \in Task
<1>1. tasks[i] \in Task
  BY ElementOfSeq
<1>2. [tasks[i] EXCEPT !.runs = tasks[i].runs + 1] \in Task
  <2>1. tasks[i].runs + 1 \in Nat
    BY <1>1 DEF Task
  <2> QED
    BY <1>1, <2>1 DEF Task
<1>3. [tasks[i] EXCEPT !.status = s] \in Task
  BY <1>1 DEF Task
<1>4. [tasks EXCEPT ![i].runs = @ + 1] = [tasks EXCEPT ![i] = [tasks[i] EXCEPT !.runs = tasks[i].runs + 1]]
  OBVIOUS
<1>5. [tasks EXCEPT ![i].status = s] = [tasks EXCEPT ![i] = [tasks[i] EXCEPT !.status = s]]
  OBVIOUS
<1> QED
  BY <1>2, <1>3, <1>4, <1>5

\* What is the same of every task after such an update.
SameTasks ==
  /\ Len(tasks') = Len(tasks)
  /\ \A t \in 1..Len(tasks) : /\ tasks'[t].plan = tasks[t].plan
                              /\ tasks'[t].step = tasks[t].step

LEMMA RunTask ==
  ASSUME tasks \in Seq(Task), NEW i \in 1..Len(tasks),
         tasks' = [tasks EXCEPT ![i].runs = @ + 1]
  PROVE  /\ tasks' \in Seq(Task)
         /\ SameTasks
         /\ tasks'[i] = [tasks[i] EXCEPT !.runs = tasks[i].runs + 1]
         /\ \A t \in 1..Len(tasks) : t # i => tasks'[t] = tasks[t]
<1>1. tasks[i] \in Task /\ [tasks[i] EXCEPT !.runs = tasks[i].runs + 1] \in Task
      /\ tasks' = [tasks EXCEPT ![i] = [tasks[i] EXCEPT !.runs = tasks[i].runs + 1]]
  BY TaskUpdates, ElementOfSeq DEF TaskStatus
<1>2. /\ tasks' \in Seq(Task)
      /\ Len(tasks') = Len(tasks)
      /\ tasks'[i] = [tasks[i] EXCEPT !.runs = tasks[i].runs + 1]
      /\ \A t \in 1..Len(tasks) : t # i => tasks'[t] = tasks[t]
  BY <1>1, UpdateFacts
<1>3. tasks'[i].plan = tasks[i].plan /\ tasks'[i].step = tasks[i].step
  BY <1>1, <1>2 DEF Task
<1> QED
  BY <1>2, <1>3 DEF SameTasks

LEMMA SettleTask ==
  ASSUME tasks \in Seq(Task), NEW i \in 1..Len(tasks), NEW s \in TaskStatus,
         tasks' = [tasks EXCEPT ![i].status = s]
  PROVE  /\ tasks' \in Seq(Task)
         /\ SameTasks
         /\ tasks'[i] = [tasks[i] EXCEPT !.status = s]
         /\ \A t \in 1..Len(tasks) : t # i => tasks'[t] = tasks[t]
<1>1. tasks[i] \in Task /\ [tasks[i] EXCEPT !.status = s] \in Task
      /\ tasks' = [tasks EXCEPT ![i] = [tasks[i] EXCEPT !.status = s]]
  BY TaskUpdates, ElementOfSeq
<1>2. /\ tasks' \in Seq(Task)
      /\ Len(tasks') = Len(tasks)
      /\ tasks'[i] = [tasks[i] EXCEPT !.status = s]
      /\ \A t \in 1..Len(tasks) : t # i => tasks'[t] = tasks[t]
  BY <1>1, UpdateFacts
<1>3. tasks'[i].plan = tasks[i].plan /\ tasks'[i].step = tasks[i].step
  BY <1>1, <1>2 DEF Task
<1> QED
  BY <1>2, <1>3 DEF SameTasks

\* Approvals: naming the task, deciding, counting a run.
LEMMA ApprovalUpdates ==
  ASSUME approvals \in Seq(Approval), NEW i \in 1..Len(approvals),
         NEW n \in Nat, NEW s \in ApprovalStatus
  PROVE  /\ [approvals EXCEPT ![i].task = n] = [approvals EXCEPT ![i] = [approvals[i] EXCEPT !.task = n]]
         /\ [approvals[i] EXCEPT !.task = n] \in Approval
         /\ [approvals EXCEPT ![i].status = s] = [approvals EXCEPT ![i] = [approvals[i] EXCEPT !.status = s]]
         /\ [approvals[i] EXCEPT !.status = s] \in Approval
         /\ [approvals EXCEPT ![i].runs = @ + 1] = [approvals EXCEPT ![i] = [approvals[i] EXCEPT !.runs = approvals[i].runs + 1]]
         /\ [approvals[i] EXCEPT !.runs = approvals[i].runs + 1] \in Approval
<1>1. approvals[i] \in Approval
  BY ElementOfSeq
<1>2. [approvals[i] EXCEPT !.task = n] \in Approval
  BY <1>1 DEF Approval
<1>3. [approvals[i] EXCEPT !.status = s] \in Approval
  BY <1>1 DEF Approval
<1>4. [approvals[i] EXCEPT !.runs = approvals[i].runs + 1] \in Approval
  <2>1. approvals[i].runs + 1 \in Nat
    BY <1>1 DEF Approval
  <2> QED
    BY <1>1, <2>1 DEF Approval
<1>5. [approvals EXCEPT ![i].task = n] = [approvals EXCEPT ![i] = [approvals[i] EXCEPT !.task = n]]
  OBVIOUS
<1>6. [approvals EXCEPT ![i].status = s] = [approvals EXCEPT ![i] = [approvals[i] EXCEPT !.status = s]]
  OBVIOUS
<1>7. [approvals EXCEPT ![i].runs = @ + 1] = [approvals EXCEPT ![i] = [approvals[i] EXCEPT !.runs = approvals[i].runs + 1]]
  OBVIOUS
<1> QED
  BY <1>2, <1>3, <1>4, <1>5, <1>6, <1>7

\* The plan memory after SetStep and SetPlan.
LEMMA SetStepTypes ==
  ASSUME SharedTypes, NEW p \in Plans, NEW i \in 1..Len(Steps[p]), NEW s \in PlanStates,
         SetStep(p, i, s)
  PROVE  /\ stepStatus' \in [Plans -> Seq(PlanStates)]
         /\ \A q \in Plans : Len(stepStatus'[q]) = Len(Steps[q])
<1>1. stepStatus' = [stepStatus EXCEPT ![p] = [stepStatus[p] EXCEPT ![i] = s]]
  BY DEF SetStep
<1>2. /\ [stepStatus[p] EXCEPT ![i] = s] \in Seq(PlanStates)
      /\ Len([stepStatus[p] EXCEPT ![i] = s]) = Len(Steps[p])
  BY UpdateFacts DEF SharedTypes
<1> QED
  BY <1>1, <1>2 DEF SharedTypes

LEMMA SetPlanTypes ==
  ASSUME SharedTypes, NEW p \in Plans, NEW s \in PlanStates, SetPlan(p, s)
  PROVE  planStatus' \in [Plans -> PlanStates]
BY DEF SharedTypes, SetPlan

(***************************************************************************)
(* One worker at a time                                                    *)
(***************************************************************************)
\* The effect of Goto and of Return.
LEMMA GotoTypes ==
  ASSUME LocalTypes, NEW w \in Workers, NEW path \in Seq(BrainStates),
         NEW l \in Labels, Goto(w, path, l)
  PROVE  /\ pc' \in [Workers -> Labels]
         /\ todo' \in [Workers -> Seq(BrainStates)]
         /\ passed' \in [Workers -> BOOLEAN]
         /\ pc'[w] = l
         /\ \A v \in Workers \ {w} : pc'[v] = pc[v]
BY DEF LocalTypes, Goto

LEMMA ReturnTypes ==
  ASSUME LocalTypes, NEW w \in Workers, Return(w),
         Len(tasks') = Len(tasks), Len(approvals') = Len(approvals),
         Len(tasks) \in Nat, Len(approvals) \in Nat
  PROVE  LocalTypes' /\ Others(w) /\ Shape(w)'
<1>1. Goto(w, <<>>, "idle") /\ <<>> \in Seq(BrainStates) /\ "idle" \in Labels
  BY EmptySeq DEF Return, Labels
<1>2. /\ pc' \in [Workers -> Labels]
      /\ todo' \in [Workers -> Seq(BrainStates)]
      /\ passed' \in [Workers -> BOOLEAN]
      /\ pc'[w] = "idle"
      /\ \A v \in Workers \ {w} : pc'[v] = pc[v]
  BY <1>1, GotoTypes
<1>3. /\ req' \in [Workers -> Requests \cup {NoRequest}]
      /\ step' \in [Workers -> Nat]
      /\ out' \in [Workers -> AllOutcomes \cup {"none"}]
  BY DEF LocalTypes, Return
<1>4. task' \in [Workers -> 0..Len(tasks')] /\ appr' \in [Workers -> 0..Len(approvals')]
  BY DEF LocalTypes, Return
<1>5. LocalTypes'
  BY <1>2, <1>3, <1>4 DEF LocalTypes
<1>6. Others(w)
  BY <1>2 DEF LocalTypes, Return, Others
<1> QED
  BY <1>2, <1>5, <1>6 DEF Shape, ShapeAt

LEMMA SameTasksShape == TypeInv /\ SameTasks => TaskShape'
BY DEF TypeInv, TaskShape, SameTasks

\* An index of w that is set, where the sequence it points into may have grown.
LEMMA IndexSet ==
  ASSUME NEW m \in Nat, NEW n \in Nat, m <= n, NEW f \in [Workers -> 0..m],
         NEW w \in Workers, NEW i \in 0..n, NEW g, g = [f EXCEPT ![w] = i]
  PROVE  g \in [Workers -> 0..n]
<1>1. \A v \in Workers : f[v] \in 0..n
  OBVIOUS
<1> QED
  BY <1>1

\* A step of w that assigns any of its own variables.
LEMMA AssignTypes ==
  ASSUME TypeInv, NEW w \in Workers, NEW path \in Seq(BrainStates), NEW l \in Labels,
         Goto(w, path, l),
         NEW r \in Requests, NEW s \in Nat, NEW t \in 0..Len(tasks'),
         NEW a \in 0..Len(approvals'), NEW o \in AllOutcomes \cup {"none"},
         req' = [req EXCEPT ![w] = r], step' = [step EXCEPT ![w] = s],
         task' = [task EXCEPT ![w] = t], appr' = [appr EXCEPT ![w] = a],
         out' = [out EXCEPT ![w] = o],
         SharedTypes', Len(tasks) <= Len(tasks'), Len(approvals) <= Len(approvals'),
         TaskShape', ShapeAt(l, r, s, t, a)
  PROVE  TypeInv'
<1>1. LocalTypes /\ SharedTypes
  BY TypesSplit DEF TypeInv
<1>2. /\ Len(tasks) \in Nat /\ Len(tasks') \in Nat
      /\ Len(approvals) \in Nat /\ Len(approvals') \in Nat
  BY <1>1, LenProperties DEF SharedTypes
<1>3. /\ pc' \in [Workers -> Labels]
      /\ todo' \in [Workers -> Seq(BrainStates)]
      /\ passed' \in [Workers -> BOOLEAN]
      /\ pc'[w] = l
      /\ \A v \in Workers \ {w} : pc'[v] = pc[v]
  BY <1>1, GotoTypes
<1>4. /\ req' \in [Workers -> Requests \cup {NoRequest}]
      /\ step' \in [Workers -> Nat]
      /\ out' \in [Workers -> AllOutcomes \cup {"none"}]
  BY <1>1 DEF LocalTypes
<1>5. task' \in [Workers -> 0..Len(tasks')]
  <2>1. task \in [Workers -> 0..Len(tasks)]
    BY <1>1 DEF LocalTypes
  <2> QED
    BY <1>2, <2>1, IndexSet
<1>6. appr' \in [Workers -> 0..Len(approvals')]
  <2>1. appr \in [Workers -> 0..Len(approvals)]
    BY <1>1 DEF LocalTypes
  <2> QED
    BY <1>2, <2>1, IndexSet
<1>7. LocalTypes'
  BY <1>3, <1>4, <1>5, <1>6 DEF LocalTypes
<1>8. Others(w)
  BY <1>1, <1>3 DEF LocalTypes, Others
<1>9. Shape(w)'
  BY <1>1, <1>3 DEF Shape, LocalTypes
<1> QED
  BY <1>7, <1>8, <1>9, StepKeepsOthers

\* A variable left alone is assigned its own value.
LEMMA Kept ==
  ASSUME LocalTypes, NEW w \in Workers
  PROVE  /\ req = [req EXCEPT ![w] = req[w]]    /\ step = [step EXCEPT ![w] = step[w]]
         /\ task = [task EXCEPT ![w] = task[w]] /\ appr = [appr EXCEPT ![w] = appr[w]]
         /\ out = [out EXCEPT ![w] = out[w]]
BY DEF LocalTypes

\* The values of w's own variables while it runs a request.
LEMMA LocalValues ==
  ASSUME TypeInv, NEW w \in Workers
  PROVE  /\ LocalTypes /\ SharedTypes
         /\ step[w] \in Nat /\ task[w] \in 0..Len(tasks) /\ appr[w] \in 0..Len(approvals)
         /\ out[w] \in AllOutcomes \cup {"none"}
         /\ pc[w] \in Labels /\ todo[w] \in Seq(BrainStates)
         /\ pc[w] # "idle" => req[w] \in Requests
         /\ Len(tasks) \in Nat /\ Len(approvals) \in Nat
<1>1. LocalTypes /\ SharedTypes
  BY TypesSplit DEF TypeInv
<1>2. pc[w] # "idle" => req[w] \in Requests
  BY DEF TypeInv, Shape, ShapeAt
<1> QED
  BY <1>1, <1>2, Lengths DEF LocalTypes

\* Steps of a request that leave w's own variables alone, but for pc and todo.
LEMMA FlowTypes ==
  ASSUME TypeInv, NEW w \in Workers, NEW path \in Seq(BrainStates), NEW l \in Labels,
         pc[w] # "idle", Goto(w, path, l), UNCHANGED locals,
         SharedTypes', SameTasks, Len(approvals') = Len(approvals),
         ShapeAt(l, req[w], step[w], task[w], appr[w])
  PROVE  TypeInv'
<1>1. /\ LocalTypes /\ req[w] \in Requests
      /\ step[w] \in Nat /\ task[w] \in 0..Len(tasks') /\ appr[w] \in 0..Len(approvals')
      /\ out[w] \in AllOutcomes \cup {"none"}
      /\ Len(tasks) <= Len(tasks') /\ Len(approvals) <= Len(approvals')
  BY LocalValues DEF SameTasks
<1>2. /\ req' = [req EXCEPT ![w] = req[w]]    /\ step' = [step EXCEPT ![w] = step[w]]
      /\ task' = [task EXCEPT ![w] = task[w]] /\ appr' = [appr EXCEPT ![w] = appr[w]]
      /\ out' = [out EXCEPT ![w] = out[w]]
  BY <1>1, Kept DEF locals
<1>3. TaskShape'
  BY SameTasksShape
<1> QED
  BY <1>1, <1>2, <1>3, AssignTypes

LEMMA KeptManagers ==
  ASSUME TypeInv, UNCHANGED <<sm, managers, asks>>
  PROVE  SharedTypes' /\ SameTasks /\ Len(approvals') = Len(approvals) /\ TaskShape'
<1>1. SharedTypes' /\ SameTasks /\ Len(approvals') = Len(approvals)
  BY TypesSplit DEF TypeInv, SharedTypes, SameTasks, managers
<1> QED
  BY <1>1, SameTasksShape

\* Steps that only move the worker on.
LEMMA MoveTypes ==
  ASSUME TypeInv, NEW w \in Workers, NEW path \in Seq(BrainStates),
         NEW l \in Labels, pc[w] # "idle", Goto(w, path, l),
         UNCHANGED <<sm, managers, locals, asks>>,
         ShapeAt(l, req[w], step[w], task[w], appr[w])
  PROVE  TypeInv'
<1>1. SharedTypes' /\ SameTasks /\ Len(approvals') = Len(approvals) /\ UNCHANGED locals
  BY KeptManagers
<1> QED
  BY <1>1, FlowTypes

\* Steps with which the request ends.
LEMMA EndTypes ==
  ASSUME TypeInv, NEW w \in Workers, Return(w),
         SharedTypes', SameTasks, Len(approvals') = Len(approvals)
  PROVE  TypeInv'
BY LocalValues, ReturnTypes, StepKeepsOthers, SameTasksShape DEF SameTasks

LEMMA StartNewFlowTypes ==
  ASSUME TypeInv, NEW w \in Workers, StartNewFlow(w)
  PROVE  TypeInv'
<1> DEFINE path == IF Engine(w) = "COMPLETED" THEN <<"IDLE">> ELSE <<>>
<1>0. <<>> \in Seq(BrainStates) /\ <<"IDLE">> \in Seq(BrainStates)
  BY EmptySeq DEF BrainStates
<1>1. path \in Seq(BrainStates) /\ "understand" \in Labels
  BY <1>0 DEF Labels
<1>2. Goto(w, path, "understand") /\ pc[w] = "start" /\ UNCHANGED <<sm, managers, locals, asks>>
  BY DEF StartNewFlow, At
<1> HIDE DEF path
<1>3. ShapeAt("understand", req[w], step[w], task[w], appr[w])
  BY <1>2 DEF TypeInv, Shape, ShapeAt
<1> QED
  BY <1>1, <1>2, <1>3, MoveTypes

LEMMA UnderstandTypes ==
  ASSUME TypeInv, NEW w \in Workers, Understand(w)
  PROVE  TypeInv'
<1> DEFINE intake == IF Engine(w) = "IDLE" THEN <<"RECEIVED_REQUEST", "UNDERSTANDING">>
                                           ELSE <<>>
           ShapeOf(l) == ShapeAt(l, req[w], step[w], task[w], appr[w])
<1>0. <<>> \in Seq(BrainStates) /\ <<"RECEIVED_REQUEST", "UNDERSTANDING">> \in Seq(BrainStates)
  BY EmptySeq DEF BrainStates
<1>1. intake \in Seq(BrainStates)
  BY <1>0
<1>2. <<"DECIDING", "RISK_CHECKING", "EXECUTING">> \in Seq(BrainStates) /\ "DECIDING" \in BrainStates
  BY DEF BrainStates
<1>3. pc[w] = "understand" /\ UNCHANGED <<sm, managers, locals, asks>>
  BY DEF Understand, At
<1>4. \/ Kind(w) \in {"simple", "context", "world", "reject"} /\ Goto(w, intake \o SimpleFlow, "reply")
      \/ Kind(w) = "action" /\ Goto(w, Append(intake, "DECIDING"), "create_task")
      \/ Kind(w) = "goal" /\ Goto(w, intake, "run_plan")
      \/ /\ Kind(w) = "confirm"
         /\ Goto(w, intake \o <<"DECIDING", "RISK_CHECKING", "EXECUTING">>, "dispatch")
  BY DEF Understand
<1> HIDE DEF intake
<1>5. intake \o SimpleFlow \in Seq(BrainStates) /\ Append(intake, "DECIDING") \in Seq(BrainStates)
      /\ intake \o <<"DECIDING", "RISK_CHECKING", "EXECUTING">> \in Seq(BrainStates)
  BY <1>1, <1>2, PathsAreStates, ConcatProperties, AppendFacts
<1>6. /\ Kind(w) \in {"simple", "context", "world", "reject"} => ShapeOf("reply")
      /\ Kind(w) = "action" => ShapeOf("create_task")
      /\ Kind(w) = "goal" => ShapeOf("run_plan")
      /\ Kind(w) = "confirm" => ShapeOf("dispatch")
  BY <1>3 DEF TypeInv, Shape, ShapeAt, Kind
<1>7. {"reply", "create_task", "run_plan", "dispatch"} \subseteq Labels
  BY DEF Labels
<1> QED
  BY <1>1, <1>3, <1>4, <1>5, <1>6, <1>7, MoveTypes

LEMMA GateOpensTypes ==
  ASSUME TypeInv, NEW w \in Workers, GateOpens(w)
  PROVE  TypeInv'
<1> DEFINE path == IF Kind(w) = "action" \/ Engine(w) = "RISK_CHECKING" THEN <<"EXECUTING">> ELSE <<>>
<1>0. <<>> \in Seq(BrainStates) /\ <<"EXECUTING">> \in Seq(BrainStates)
  BY EmptySeq DEF BrainStates
<1>1. path \in Seq(BrainStates) /\ "dispatch" \in Labels
  BY <1>0 DEF Labels
<1>2. Goto(w, path, "dispatch") /\ pc[w] = "gate" /\ UNCHANGED <<sm, managers, locals, asks>>
  BY DEF GateOpens, At
<1> HIDE DEF path
<1>3. ShapeAt("dispatch", req[w], step[w], task[w], appr[w])
  BY <1>2 DEF TypeInv, Shape, ShapeAt
<1> QED
  BY <1>1, <1>2, <1>3, MoveTypes

LEMMA ResumeTypes ==
  ASSUME TypeInv, NEW w \in Workers, Resume(w)
  PROVE  TypeInv'
<1> DEFINE ShapeOf(l) == ShapeAt(l, req[w], step[w], task[w], appr[w])
<1>1. <<>> \in Seq(BrainStates) /\ <<"EXECUTING">> \in Seq(BrainStates)
  BY EmptySeq DEF BrainStates
<1>2. pc[w] = "resume" /\ UNCHANGED <<sm, managers, locals, asks>>
  BY DEF Resume, At
<1>3. \/ Goto(w, <<>>, "start")
      \/ Kind(w) = "confirm" /\ Goto(w, <<"EXECUTING">>, "dispatch")
      \/ Goto(w, <<"EXECUTING">> \o FinishFlow, "reply")
  BY DEF Resume
<1>4. ShapeOf("start") /\ (Kind(w) = "confirm" => ShapeOf("dispatch")) /\ ShapeOf("reply")
  BY <1>2 DEF TypeInv, Shape, ShapeAt, Kind
<1>5. {"start", "dispatch", "reply"} \subseteq Labels
  BY DEF Labels
<1> QED
  BY <1>1, <1>2, <1>3, <1>4, <1>5, PathsAreStates, MoveTypes

LEMMA ReceiveTypes ==
  ASSUME TypeInv, NEW w \in Workers, NEW r \in Requests, Receive(w, r)
  PROVE  TypeInv'
<1>1. LocalTypes /\ pc[w] = "idle" /\ task[w] \in 0..Len(tasks) /\ appr[w] \in 0..Len(approvals)
      /\ out[w] \in AllOutcomes \cup {"none"}
  BY LocalValues DEF Receive
<1>2. /\ req' = [req EXCEPT ![w] = r] /\ step' = [step EXCEPT ![w] = 1]
      /\ task' = [task EXCEPT ![w] = task[w]] /\ appr' = [appr EXCEPT ![w] = appr[w]]
      /\ out' = [out EXCEPT ![w] = out[w]]
  BY <1>1, Kept DEF Receive
<1>3. SameTasks /\ Len(approvals') = Len(approvals) /\ Len(tasks) \in Nat /\ Len(approvals) \in Nat
  BY LocalValues DEF SameTasks, Receive, managers
<1>4. SharedTypes'
  <2>1. asks' \in 0..MaxAsks
    BY ConstantsOK DEF Receive, TypeInv, TypeOK
  <2> QED
    BY <2>1 DEF Receive, TypeInv, TypeOK, SharedTypes, managers
<1>5. ShapeAt(Entry(r), r, 1, task[w], appr[w]) /\ Entry(r) \in Labels
  BY RequestFacts DEF Entry, ShapeAt, Labels
<1>6. Goto(w, <<>>, Entry(r)) /\ <<>> \in Seq(BrainStates)
  BY EmptySeq DEF Receive
<1>7. /\ TaskShape' /\ task[w] \in 0..Len(tasks') /\ appr[w] \in 0..Len(approvals')
      /\ Len(tasks) <= Len(tasks') /\ Len(approvals) <= Len(approvals') /\ 1 \in Nat
  BY <1>1, <1>3, SameTasksShape DEF SameTasks
<1> QED
  BY <1>1, <1>2, <1>3, <1>4, <1>5, <1>6, <1>7, AssignTypes

LEMMA CheckTransitionTypes ==
  ASSUME TypeInv, NEW w \in Workers, CheckTransition(w)
  PROVE  TypeInv'
<1>1. LocalTypes
  BY LocalValues
<1>2. SharedTypes' /\ TaskShape'
  BY KeptManagers DEF CheckTransition
<1>3. LocalTypes'
  BY <1>1 DEF CheckTransition, LocalTypes, managers, locals
<1>4. Others(w) /\ Shape(w)'
  BY DEF CheckTransition, Others, Shape, TypeInv, managers, locals
<1> QED
  BY <1>2, <1>3, <1>4, StepKeepsOthers

LEMMA TransitionToTypes ==
  ASSUME TypeInv, NEW w \in Workers, TransitionTo(w)
  PROVE  TypeInv'
<1>1. LocalTypes /\ SharedTypes /\ todo[w] \in Seq(BrainStates) /\ todo[w] # <<>>
  BY LocalValues DEF TransitionTo
<1>2. Head(todo[w]) \in BrainStates /\ Tail(todo[w]) \in Seq(BrainStates)
  BY <1>1, HeadTailProperties
<1>3. SharedTypes'
  BY <1>1, <1>2, ConstantsOK DEF TransitionTo, SharedTypes, managers
<1>4. LocalTypes'
  BY <1>1, <1>2 DEF TransitionTo, LocalTypes, managers, locals
<1>5. SameTasks /\ Others(w) /\ Shape(w)'
  BY <1>1 DEF TransitionTo, SameTasks, Others, Shape, TypeInv, managers, locals
<1> QED
  BY <1>3, <1>4, <1>5, SameTasksShape, StepKeepsOthers

LEMMA InvalidTransitionTypes ==
  ASSUME TypeInv, NEW w \in Workers, InvalidTransition(w)
  PROVE  TypeInv'
<1>1. SharedTypes' /\ SameTasks /\ Len(approvals') = Len(approvals) /\ TaskShape'
  BY KeptManagers DEF InvalidTransition
<1>2. CASE Return(w)
  BY <1>1, <1>2, EndTypes
<1>3. CASE /\ req' = [req EXCEPT ![w] = [kind |-> "context"]]
           /\ Goto(w, <<>>, "context")
           /\ UNCHANGED <<step, task, appr, out>>
  <2>1. LocalTypes /\ step[w] \in Nat /\ task[w] \in 0..Len(tasks') /\ appr[w] \in 0..Len(approvals')
        /\ out[w] \in AllOutcomes \cup {"none"}
        /\ Len(tasks) <= Len(tasks') /\ Len(approvals) <= Len(approvals')
    BY <1>1, LocalValues DEF SameTasks
  <2>2. /\ step' = [step EXCEPT ![w] = step[w]]
        /\ task' = [task EXCEPT ![w] = task[w]] /\ appr' = [appr EXCEPT ![w] = appr[w]]
        /\ out' = [out EXCEPT ![w] = out[w]]
    BY <1>3, <2>1, Kept
  <2> DEFINE r == [kind |-> "context"]
  <2>3. /\ r \in Requests /\ <<>> \in Seq(BrainStates) /\ "context" \in Labels
        /\ ShapeAt("context", r, step[w], task[w], appr[w])
    BY RequestFacts, EmptySeq DEF ShapeAt, Labels
  <2>4. req' = [req EXCEPT ![w] = r] /\ Goto(w, <<>>, "context")
    BY <1>3
  <2> HIDE DEF r
  <2> QED
    BY <1>1, <2>1, <2>2, <2>3, <2>4, AssignTypes
<1> QED
  BY <1>2, <1>3 DEF InvalidTransition

LEMMA ReplyTypes ==
  ASSUME TypeInv, NEW w \in Workers, Reply(w)
  PROVE  TypeInv'
BY KeptManagers, EndTypes DEF Reply

LEMMA ContextCommandTypes ==
  ASSUME TypeInv, NEW w \in Workers, ContextCommand(w)
  PROVE  TypeInv'
<1>1. pc[w] = "context" /\ UNCHANGED <<sm, managers, asks>>
  BY DEF ContextCommand, At
<1>2. CASE Return(w)
  BY <1>1, <1>2, KeptManagers, EndTypes
<1>3. CASE Goto(w, <<>>, "start") /\ UNCHANGED locals
  <2>1. ShapeAt("start", req[w], step[w], task[w], appr[w])
    BY <1>1 DEF TypeInv, Shape, ShapeAt
  <2>2. <<>> \in Seq(BrainStates) /\ "start" \in Labels
    BY EmptySeq DEF Labels
  <2> QED
    BY <1>1, <1>3, <2>1, <2>2, MoveTypes
<1> QED
  BY <1>2, <1>3 DEF ContextCommand

LEMMA SavePlanTypes ==
  ASSUME TypeInv, NEW w \in Workers, SavePlan(w)
  PROVE  TypeInv'
<1> DEFINE p == req[w].plan
<1>1. pc[w] = "save_plan" /\ Kind(w) \in {"goal", "preview"} /\ p \in Plans /\ SharedTypes
      /\ Len(Steps[p]) \in Nat
  BY LocalValues, RequestFacts, Lengths DEF SavePlan, At, TypeInv, Shape, ShapeAt, Kind
<1>2. /\ DOMAIN Steps[p] = 1..Len(Steps[p])
  BY <1>1, LenProperties, ConstantsOK
<1>3. SharedTypes'
  <2>1. /\ [i \in DOMAIN Steps[p] |-> "pending"] \in Seq(PlanStates)
        /\ Len([i \in DOMAIN Steps[p] |-> "pending"]) = Len(Steps[p])
    BY <1>1, <1>2, ConstantSeq DEF PlanStates
  <2>2. planStatus' \in [Plans -> PlanStates]
    BY <1>1 DEF SavePlan, SetPlan, SharedTypes, PlanStates
  <2>3. /\ stepStatus' \in [Plans -> Seq(PlanStates)]
        /\ \A q \in Plans : Len(stepStatus'[q]) = Len(Steps[q])
    BY <1>1, <2>1 DEF SavePlan, SharedTypes
  <2> QED
    BY <1>1, <2>2, <2>3 DEF SavePlan, SharedTypes
<1>4. SameTasks /\ Len(approvals') = Len(approvals)
  BY DEF SavePlan, SameTasks
<1>5. CASE Return(w)
  BY <1>3, <1>4, <1>5, EndTypes
<1>6. CASE Kind(w) = "goal" /\ Goto(w, <<>>, "start") /\ UNCHANGED locals
  <2>1. ShapeAt("start", req[w], step[w], task[w], appr[w])
    BY <1>1, <1>6 DEF TypeInv, Shape, ShapeAt, Kind
  <2>2. <<>> \in Seq(BrainStates) /\ "start" \in Labels
    BY EmptySeq DEF Labels
  <2> QED
    BY <1>1, <1>3, <1>4, <1>6, <2>1, <2>2, FlowTypes
<1> QED
  BY <1>5, <1>6 DEF SavePlan

LEMMA RunPlanTypes ==
  ASSUME TypeInv, NEW w \in Workers, RunPlan(w)
  PROVE  TypeInv'
<1> DEFINE p == req[w].plan
<1>1. /\ pc[w] = "run_plan" /\ req[w].kind = "goal" /\ p \in Plans /\ step[w] = 1
      /\ SharedTypes /\ Len(Steps[p]) \in Nat /\ (Steps[p] # <<>> => 1 \in 1..Len(Steps[p]))
  <2>1. pc[w] = "run_plan" /\ req[w].kind = "goal" /\ step[w] = 1 /\ req[w] \in Requests
    BY DEF RunPlan, At, TypeInv, Shape, ShapeAt
  <2>2. p \in Plans /\ Steps[p] \in Seq(Actions)
    BY <2>1, RequestFacts, ConstantsOK
  <2> QED
    BY <2>1, <2>2, LocalValues, EmptySeq, LenProperties
<1>2. SharedTypes' /\ SameTasks /\ Len(approvals') = Len(approvals) /\ UNCHANGED locals
  <2>1. planStatus' \in [Plans -> PlanStates]
    BY <1>1, SetPlanTypes DEF RunPlan, PlanStates
  <2> QED
    BY <1>1, <2>1 DEF RunPlan, SharedTypes, SameTasks
<1>3. CASE Steps[p] # <<>> /\ Goto(w, <<"DECIDING", "RISK_CHECKING">>, "plan_step")
  <2>1. <<"DECIDING", "RISK_CHECKING">> \in Seq(BrainStates)
    BY DEF BrainStates
  <2>2. "plan_step" \in Labels /\ ShapeAt("plan_step", req[w], step[w], task[w], appr[w])
    BY <1>1, <1>3 DEF TypeInv, Shape, ShapeAt, Labels
  <2> QED
    BY <1>1, <1>2, <1>3, <2>1, <2>2, FlowTypes
<1>4. CASE Goto(w, <<"DECIDING", "RISK_CHECKING">> \o FinishFlow, "plan_done")
  <2>1. "plan_done" \in Labels /\ ShapeAt("plan_done", req[w], step[w], task[w], appr[w])
    BY <1>1 DEF TypeInv, Shape, ShapeAt, Labels
  <2> QED
    BY <1>1, <1>2, <1>4, <2>1, PathsAreStates, FlowTypes
<1> QED
  BY <1>3, <1>4 DEF RunPlan

\* What a worker that handles a requested action or a plan step works on.
LEMMA ActionFacts ==
  ASSUME TypeInv, NEW w \in Workers, Kind(w) \in {"action", "goal"},
         pc[w] \in {"create_task", "plan_step", "gate", "ask"}
  PROVE  /\ req[w] \in Requests
         /\ ActionOf(w) \in Actions
         /\ NeedsApproval(w) \in BOOLEAN
         /\ PlanOf(w) \in Plans \cup {NoPlan}
         /\ PlanOf(w) # NoPlan => step[w] \in 1..Len(Steps[PlanOf(w)])
         /\ Kind(w) = "goal" => /\ PlanOf(w) = req[w].plan /\ PlanOf(w) \in Plans
                                /\ step[w] \in 1..Len(Steps[PlanOf(w)])
<1>1. req[w] \in Requests /\ pc[w] # "idle"
  BY LocalValues
<1>2. CASE Kind(w) = "action"
  BY <1>1, <1>2, RequestFacts DEF Kind, ActionOf, NeedsApproval, PlanOf
<1>3. CASE Kind(w) = "goal"
  <2>1. req[w].plan \in Plans /\ Steps[req[w].plan] \in Seq(Actions)
    BY <1>1, <1>3, RequestFacts, ConstantsOK DEF Kind
  <2>2. step[w] \in 1..Len(Steps[req[w].plan])
    BY <1>3 DEF TypeInv, Shape, ShapeAt, Kind
  <2>3. Steps[req[w].plan][step[w]] \in Actions
    BY <2>1, <2>2, ElementOfSeq
  <2> QED
    BY <1>1, <1>3, <2>1, <2>2, <2>3 DEF ActionOf, NeedsApproval, PlanOf
<1> QED
  BY <1>2, <1>3

\* Creating a task.
LEMMA CreateTaskForFacts ==
  ASSUME TypeInv, NEW w \in Workers, Kind(w) \in {"action", "goal"},
         pc[w] \in {"create_task", "plan_step"}, CreateTaskFor(w)
  PROVE  /\ tasks' \in Seq(Task) /\ TaskShape'
         /\ Len(tasks') = Len(tasks) + 1 /\ Len(tasks) \in Nat
         /\ Len(tasks) + 1 \in 0..Len(tasks') /\ Len(tasks) + 1 # 0
         /\ task' = [task EXCEPT ![w] = Len(tasks) + 1]
         /\ \A t \in 1..Len(tasks) : tasks'[t] = tasks[t]
         /\ tasks'[Len(tasks) + 1].status = "pending" /\ tasks'[Len(tasks) + 1].runs = 0
         /\ ~NeedsApproval(w) => tasks'[Len(tasks) + 1].gated = FALSE
         /\ tasks'[Len(tasks) + 1].plan = PlanOf(w)
<1> DEFINE x == [engine |-> EngineOf[w], action |-> ActionOf(w),
                 plan |-> PlanOf(w), step |-> step[w],
                 status |-> "pending", runs |-> 0, gated |-> NeedsApproval(w)]
<1>1. x \in Task
  BY ActionFacts, LocalValues, ConstantsOK DEF Task, TaskStatus
<1>2. tasks' = Append(tasks, x) /\ task' = [task EXCEPT ![w] = Len(tasks) + 1]
  BY DEF CreateTaskFor
<1>3. /\ x.plan = PlanOf(w) /\ x.step = step[w] /\ x.status = "pending" /\ x.runs = 0
      /\ ~NeedsApproval(w) => x.gated = FALSE
  OBVIOUS
<1> HIDE DEF x
<1>4. tasks \in Seq(Task) /\ Len(tasks) \in Nat
  BY LocalValues DEF SharedTypes
<1>5. /\ tasks' \in Seq(Task) /\ Len(tasks') = Len(tasks) + 1
      /\ \A t \in 1..Len(tasks) : tasks'[t] = tasks[t]
      /\ tasks'[Len(tasks) + 1] = x
  BY <1>1, <1>2, <1>4, AppendFacts
<1>6. TaskShape'
  BY <1>3, <1>4, <1>5, ActionFacts DEF TypeInv, TaskShape
<1> QED
  BY <1>2, <1>3, <1>4, <1>5, <1>6

LEMMA PlanStepTypes ==
  ASSUME TypeInv, NEW w \in Workers, PlanStep(w)
  PROVE  TypeInv'
<1>1. pc[w] = "plan_step" /\ Kind(w) = "goal" /\ Goto(w, <<>>, "gate")
  BY DEF PlanStep, At, TypeInv, Shape, ShapeAt, Kind
<1>2. /\ req[w].plan \in Plans /\ step[w] \in 1..Len(Steps[req[w].plan]) /\ req[w] \in Requests
      /\ step[w] \in Nat /\ appr[w] \in 0..Len(approvals) /\ out[w] \in AllOutcomes \cup {"none"}
      /\ LocalTypes /\ SharedTypes
  BY <1>1, ActionFacts, LocalValues
<1>3. /\ tasks' \in Seq(Task) /\ TaskShape'
      /\ Len(tasks') = Len(tasks) + 1 /\ Len(tasks) \in Nat
      /\ Len(tasks) + 1 \in 0..Len(tasks') /\ Len(tasks) + 1 # 0
      /\ task' = [task EXCEPT ![w] = Len(tasks) + 1]
  BY <1>1, CreateTaskForFacts DEF PlanStep
<1>4. SharedTypes'
  <2>1. SetStep(req[w].plan, step[w], "running") /\ "running" \in PlanStates
        /\ UNCHANGED <<sm, approvals, planStatus, asks>>
    BY DEF PlanStep, PlanStates
  <2>2. /\ stepStatus' \in [Plans -> Seq(PlanStates)]
        /\ \A q \in Plans : Len(stepStatus'[q]) = Len(Steps[q])
    BY <1>2, <2>1, SetStepTypes
  <2>3. \A a \in 1..Len(approvals) : approvals[a].task \in 0..Len(tasks')
    BY <1>2, <1>3 DEF SharedTypes
  <2> QED
    BY <1>2, <1>3, <2>1, <2>2, <2>3 DEF SharedTypes
<1>5. /\ req' = [req EXCEPT ![w] = req[w]] /\ step' = [step EXCEPT ![w] = step[w]]
      /\ appr' = [appr EXCEPT ![w] = appr[w]] /\ out' = [out EXCEPT ![w] = out[w]]
  BY <1>2, Kept DEF PlanStep
<1>6. /\ <<>> \in Seq(BrainStates) /\ "gate" \in Labels
      /\ ShapeAt("gate", req[w], step[w], Len(tasks) + 1, appr[w])
  BY <1>1, <1>2, <1>3, EmptySeq DEF ShapeAt, Labels, Kind
<1>7. Len(tasks) <= Len(tasks') /\ Len(approvals) <= Len(approvals') /\ appr[w] \in 0..Len(approvals')
  BY <1>2, <1>3, LocalValues DEF PlanStep
<1> QED
  BY <1>1, <1>2, <1>3, <1>4, <1>5, <1>6, <1>7, AssignTypes

LEMMA CreateTaskTypes ==
  ASSUME TypeInv, NEW w \in Workers, CreateTask(w)
  PROVE  TypeInv'
<1>1. pc[w] = "create_task" /\ Kind(w) = "action" /\ Goto(w, <<"RISK_CHECKING">>, "gate")
  BY DEF CreateTask, At, TypeInv, Shape, ShapeAt, Kind
<1>2. /\ req[w] \in Requests
      /\ step[w] \in Nat /\ appr[w] \in 0..Len(approvals) /\ out[w] \in AllOutcomes \cup {"none"}
      /\ LocalTypes /\ SharedTypes
  BY <1>1, LocalValues
<1>3. /\ tasks' \in Seq(Task) /\ TaskShape'
      /\ Len(tasks') = Len(tasks) + 1 /\ Len(tasks) \in Nat
      /\ Len(tasks) + 1 \in 0..Len(tasks') /\ Len(tasks) + 1 # 0
      /\ task' = [task EXCEPT ![w] = Len(tasks) + 1]
  BY <1>1, CreateTaskForFacts DEF CreateTask
<1>4. SharedTypes'
  BY <1>2, <1>3 DEF CreateTask, SharedTypes
<1>5. /\ req' = [req EXCEPT ![w] = req[w]] /\ step' = [step EXCEPT ![w] = step[w]]
      /\ appr' = [appr EXCEPT ![w] = appr[w]] /\ out' = [out EXCEPT ![w] = out[w]]
  BY <1>2, Kept DEF CreateTask
<1>6. /\ <<"RISK_CHECKING">> \in Seq(BrainStates) /\ "gate" \in Labels
      /\ ShapeAt("gate", req[w], step[w], Len(tasks) + 1, appr[w])
  <2>1. <<"RISK_CHECKING">> \in Seq(BrainStates)
    BY DEF BrainStates
  <2> QED
    BY <1>1, <1>2, <1>3, <2>1 DEF ShapeAt, Labels, Kind
<1>7. Len(tasks) <= Len(tasks') /\ Len(approvals) <= Len(approvals') /\ appr[w] \in 0..Len(approvals')
  BY <1>2, <1>3, LocalValues DEF CreateTask
<1> QED
  BY <1>1, <1>2, <1>3, <1>4, <1>5, <1>6, <1>7, AssignTypes

LEMMA GateClosesTypes ==
  ASSUME TypeInv, NEW w \in Workers, GateCloses(w)
  PROVE  TypeInv'
<1>1. pc[w] = "gate" /\ Kind(w) \in {"action", "goal"} /\ Goto(w, <<>>, "ask") /\ UNCHANGED locals
  BY DEF GateCloses, At, TypeInv, Shape, ShapeAt, Kind
<1>2. /\ Kind(w) = "goal" => req[w].plan \in Plans /\ step[w] \in 1..Len(Steps[req[w].plan])
      /\ SharedTypes
  BY <1>1, ActionFacts, LocalValues
<1>3. SharedTypes'
  <2>1. CASE Kind(w) = "goal"
    BY <1>2, <2>1, SetStepTypes, SetPlanTypes DEF GateCloses, SharedTypes, PlanStates
  <2>2. CASE Kind(w) # "goal"
    BY <1>2, <2>2 DEF GateCloses, SharedTypes
  <2> QED
    BY <2>1, <2>2
<1>4. SameTasks /\ Len(approvals') = Len(approvals)
  BY DEF GateCloses, SameTasks
<1>5. <<>> \in Seq(BrainStates) /\ "ask" \in Labels
      /\ ShapeAt("ask", req[w], step[w], task[w], appr[w])
  BY <1>1, EmptySeq DEF TypeInv, Shape, ShapeAt, Labels
<1> QED
  BY <1>1, <1>3, <1>4, <1>5, FlowTypes

\* Asking for an approval.
LEMMA CreateApprovalFacts ==
  ASSUME TypeInv, NEW w \in Workers, CreateApproval(w)
  PROVE  /\ approvals' \in Seq(Approval)
         /\ Len(approvals') = Len(approvals) + 1 /\ Len(approvals) \in Nat
         /\ \A a \in 1..Len(approvals) : approvals'[a] = approvals[a]
         /\ approvals'[Len(approvals) + 1].status = "required"
         /\ approvals'[Len(approvals) + 1].runs = 0
         /\ approvals'[Len(approvals) + 1].task = 0
<1> DEFINE x == [engine |-> EngineOf[w], action |-> ActionOf(w),
                 task |-> 0, status |-> "required", runs |-> 0]
<1>1. Kind(w) \in {"action", "goal"} /\ pc[w] = "ask"
  BY DEF CreateApproval, At, TypeInv, Shape, ShapeAt, Kind
<1>2. x \in Approval
  BY <1>1, ActionFacts, ConstantsOK DEF Approval, ApprovalStatus
<1>3. x.status = "required" /\ x.runs = 0 /\ x.task = 0
  OBVIOUS
<1>4. approvals' = Append(approvals, x)
  BY DEF CreateApproval
<1> HIDE DEF x
<1>5. approvals \in Seq(Approval) /\ Len(approvals) \in Nat
  BY LocalValues DEF SharedTypes
<1> QED
  BY <1>2, <1>3, <1>4, <1>5, AppendFacts

LEMMA CreateApprovalTypes ==
  ASSUME TypeInv, NEW w \in Workers, CreateApproval(w)
  PROVE  TypeInv'
<1>1. pc[w] = "ask" /\ Goto(w, <<>>, "attach") /\ appr' = [appr EXCEPT ![w] = Len(approvals) + 1]
      /\ UNCHANGED <<sm, tasks, planStatus, stepStatus, req, step, task, out, asks>>
  BY DEF CreateApproval, At
<1>2. /\ approvals' \in Seq(Approval)
      /\ Len(approvals') = Len(approvals) + 1 /\ Len(approvals) \in Nat
      /\ \A a \in 1..Len(approvals) : approvals'[a] = approvals[a]
      /\ approvals'[Len(approvals) + 1].task = 0
  BY CreateApprovalFacts
<1>3. /\ req[w] \in Requests
      /\ step[w] \in Nat /\ task[w] \in 0..Len(tasks) /\ out[w] \in AllOutcomes \cup {"none"}
      /\ LocalTypes /\ SharedTypes /\ Len(tasks) \in Nat
  BY <1>1, LocalValues
<1>4. SharedTypes'
  <2>1. \A a \in 1..Len(approvals) : approvals[a].task \in 0..Len(tasks')
    BY <1>1, <1>3 DEF SharedTypes
  <2>2. \A a \in 1..Len(approvals') : a = Len(approvals) + 1 \/ a \in 1..Len(approvals)
    BY <1>2
  <2>3. 0 \in 0..Len(tasks')
    BY <1>1, <1>3
  <2>4. \A a \in 1..Len(approvals') : approvals'[a].task \in 0..Len(tasks')
    BY <1>2, <2>1, <2>2, <2>3
  <2> QED
    BY <1>1, <1>2, <1>3, <2>4 DEF SharedTypes
<1>5. /\ req' = [req EXCEPT ![w] = req[w]] /\ step' = [step EXCEPT ![w] = step[w]]
      /\ task' = [task EXCEPT ![w] = task[w]] /\ out' = [out EXCEPT ![w] = out[w]]
  BY <1>1, <1>3, Kept
<1>6. /\ <<>> \in Seq(BrainStates) /\ "attach" \in Labels
      /\ ShapeAt("attach", req[w], step[w], task[w], Len(approvals) + 1)
  BY <1>1, <1>2, <1>3, EmptySeq DEF TypeInv, Shape, ShapeAt, Labels
<1>7. /\ SameTasks /\ TaskShape' /\ Len(tasks) <= Len(tasks') /\ Len(approvals) <= Len(approvals')
      /\ Len(approvals) + 1 \in 0..Len(approvals') /\ task[w] \in 0..Len(tasks')
  BY <1>1, <1>2, <1>3, SameTasksShape DEF SameTasks
<1> DEFINE n == Len(approvals) + 1
<1>8. /\ Goto(w, <<>>, "attach") /\ appr' = [appr EXCEPT ![w] = n]
      /\ n \in 0..Len(approvals') /\ ShapeAt("attach", req[w], step[w], task[w], n)
  BY <1>1, <1>6, <1>7
<1>9. /\ req[w] \in Requests
      /\ step[w] \in Nat /\ task[w] \in 0..Len(tasks') /\ out[w] \in AllOutcomes \cup {"none"}
      /\ TaskShape' /\ Len(tasks) <= Len(tasks') /\ Len(approvals) <= Len(approvals')
      /\ <<>> \in Seq(BrainStates) /\ "attach" \in Labels
  BY <1>3, <1>6, <1>7
<1> HIDE DEF n
<1> QED
  BY <1>4, <1>5, <1>8, <1>9, AssignTypes

\* Completing the details of an approval, deciding it, counting its run.
SameApprovals(i) ==
  /\ approvals' \in Seq(Approval)
  /\ Len(approvals') = Len(approvals)
  /\ \A a \in 1..Len(approvals) : a # i => approvals'[a] = approvals[a]

LEMMA ApprovalPut ==
  ASSUME SharedTypes, NEW i \in 1..Len(approvals), NEW x \in Approval,
         approvals' = [approvals EXCEPT ![i] = x]
  PROVE  SameApprovals(i) /\ approvals'[i] = x
<1>1. approvals \in Seq(Approval)
  BY DEF SharedTypes
<1> QED
  BY <1>1, UpdateFacts DEF SameApprovals

LEMMA AttachFacts ==
  ASSUME SharedTypes, NEW i \in 1..Len(approvals), NEW n \in Nat,
         approvals' = [approvals EXCEPT ![i].task = n]
  PROVE  SameApprovals(i) /\ approvals'[i] = [approvals[i] EXCEPT !.task = n]
<1>1. approvals' = [approvals EXCEPT ![i] = [approvals[i] EXCEPT !.task = n]]
      /\ [approvals[i] EXCEPT !.task = n] \in Approval
  BY ApprovalUpdates DEF SharedTypes, ApprovalStatus
<1> QED
  BY <1>1, ApprovalPut

LEMMA DecideFacts ==
  ASSUME SharedTypes, NEW i \in 1..Len(approvals), NEW s \in ApprovalStatus,
         approvals' = [approvals EXCEPT ![i].status = s]
  PROVE  SameApprovals(i) /\ approvals'[i] = [approvals[i] EXCEPT !.status = s]
<1>1. approvals' = [approvals EXCEPT ![i] = [approvals[i] EXCEPT !.status = s]]
      /\ [approvals[i] EXCEPT !.status = s] \in Approval
  BY ApprovalUpdates DEF SharedTypes
<1> QED
  BY <1>1, ApprovalPut

LEMMA RunApproval ==
  ASSUME SharedTypes, NEW i \in 1..Len(approvals),
         approvals' = [approvals EXCEPT ![i].runs = @ + 1]
  PROVE  SameApprovals(i) /\ approvals'[i] = [approvals[i] EXCEPT !.runs = approvals[i].runs + 1]
<1>1. approvals' = [approvals EXCEPT ![i] = [approvals[i] EXCEPT !.runs = approvals[i].runs + 1]]
      /\ [approvals[i] EXCEPT !.runs = approvals[i].runs + 1] \in Approval
  BY ApprovalUpdates DEF SharedTypes, ApprovalStatus
<1> QED
  BY <1>1, ApprovalPut

\* A decision and a run leave the approval's task alone.
LEMMA ApprovalTaskKept ==
  ASSUME SharedTypes, NEW i \in 1..Len(approvals), SameApprovals(i), NEW s, NEW n,
         \/ approvals'[i] = [approvals[i] EXCEPT !.status = s]
         \/ approvals'[i] = [approvals[i] EXCEPT !.runs = n]
  PROVE  \A a \in 1..Len(approvals) : approvals'[a].task = approvals[a].task
<1>1. approvals[i] \in Approval
  BY ElementOfSeq DEF SharedTypes
<1> QED
  BY <1>1 DEF SameApprovals, Approval

LEMMA AttachDetailsTypes ==
  ASSUME TypeInv, NEW w \in Workers, AttachDetails(w)
  PROVE  TypeInv'
<1>1. pc[w] = "attach" /\ Goto(w, <<"WAITING_APPROVAL">>, "reply") /\ UNCHANGED locals
      /\ SharedTypes /\ appr[w] \in 1..Len(approvals) /\ task[w] \in 0..Len(tasks)
      /\ task[w] \in Nat
  BY LocalValues DEF AttachDetails, At, TypeInv, Shape, ShapeAt
<1>2. approvals' \in Seq(Approval) /\ Len(approvals') = Len(approvals)
      /\ \A a \in 1..Len(approvals) : \/ approvals'[a].task = approvals[a].task
                                      \/ approvals'[a].task = task[w]
  <2>1. SameApprovals(appr[w]) /\ approvals'[appr[w]] = [approvals[appr[w]] EXCEPT !.task = task[w]]
    BY <1>1, AttachFacts DEF AttachDetails
  <2>2. approvals[appr[w]] \in Approval
    BY <1>1, ElementOfSeq DEF SharedTypes
  <2> QED
    BY <2>1, <2>2 DEF SameApprovals, Approval
<1>3. SharedTypes' /\ SameTasks
  <2>0. \A a \in 1..Len(approvals) : approvals[a].task \in 0..Len(tasks)
    BY <1>1 DEF SharedTypes
  <2>1. \A a \in 1..Len(approvals') : approvals'[a].task \in 0..Len(tasks)
    BY <1>1, <1>2, <2>0
  <2> QED
    BY <1>1, <1>2, <2>1 DEF AttachDetails, SharedTypes, SameTasks
<1>4. ShapeAt("reply", req[w], step[w], task[w], appr[w]) /\ "reply" \in Labels
  BY <1>1 DEF TypeInv, Shape, ShapeAt, Labels
<1>5. <<"WAITING_APPROVAL">> \in Seq(BrainStates)
  BY DEF BrainStates
<1> QED
  BY <1>1, <1>2, <1>3, <1>4, <1>5, FlowTypes

LEMMA DispatchTypes ==
  ASSUME TypeInv, NEW w \in Workers, NEW o \in Outcomes, Dispatch(w, o)
  PROVE  TypeInv'
<1>1. /\ pc[w] = "dispatch" /\ Kind(w) \in {"action", "goal", "confirm"}
      /\ LocalTypes /\ SharedTypes
      /\ Kind(w) = "confirm" => appr[w] \in 1..Len(approvals)
      /\ task[w] # 0 => task[w] \in 1..Len(tasks)
  BY LocalValues DEF Dispatch, At, TypeInv, Shape, ShapeAt, Kind
<1>2. tasks' \in Seq(Task) /\ SameTasks
  <2>1. CASE task[w] = 0
    BY <1>1, <2>1 DEF Dispatch, SharedTypes, SameTasks
  <2>2. CASE task[w] # 0
    BY <1>1, <2>2, RunTask DEF Dispatch, SharedTypes
  <2> QED
    BY <2>1, <2>2
<1>3. /\ approvals' \in Seq(Approval) /\ Len(approvals') = Len(approvals)
      /\ \A a \in 1..Len(approvals) : approvals'[a].task = approvals[a].task
  <2>1. CASE Kind(w) # "confirm"
    BY <1>1, <2>1 DEF Dispatch, SharedTypes
  <2>2. CASE Kind(w) = "confirm"
    <3>1. /\ SameApprovals(appr[w])
          /\ approvals'[appr[w]] = [approvals[appr[w]] EXCEPT !.runs = approvals[appr[w]].runs + 1]
      BY <1>1, <2>2, RunApproval DEF Dispatch
    <3> QED
      BY <1>1, <2>2, <3>1, ApprovalTaskKept DEF SameApprovals
  <2> QED
    BY <2>1, <2>2
<1>4. SharedTypes'
  BY <1>1, <1>2, <1>3 DEF Dispatch, SharedTypes, SameTasks
<1>5. CASE Return(w)
  BY <1>2, <1>3, <1>4, <1>5, EndTypes
<1>6. CASE /\ out' = [out EXCEPT ![w] = o] /\ Goto(w, <<>>, "record")
           /\ UNCHANGED <<req, step, task, appr>>
  <2>1. /\ req[w] \in Requests /\ step[w] \in Nat
        /\ task[w] \in 0..Len(tasks') /\ appr[w] \in 0..Len(approvals')
        /\ Len(tasks) <= Len(tasks') /\ Len(approvals) <= Len(approvals')
    BY <1>1, <1>2, <1>3, LocalValues DEF SameTasks
  <2>2. /\ req' = [req EXCEPT ![w] = req[w]] /\ step' = [step EXCEPT ![w] = step[w]]
        /\ task' = [task EXCEPT ![w] = task[w]] /\ appr' = [appr EXCEPT ![w] = appr[w]]
    BY <1>1, <1>6, Kept
  <2>3. /\ <<>> \in Seq(BrainStates) /\ "record" \in Labels
        /\ ShapeAt("record", req[w], step[w], task[w], appr[w])
    BY <1>1, EmptySeq DEF TypeInv, Shape, ShapeAt, Labels
  <2>4. o \in AllOutcomes \cup {"none"} /\ TaskShape'
    BY <1>2, ConstantsOK, SameTasksShape
  <2>5. out' = [out EXCEPT ![w] = o] /\ Goto(w, <<>>, "record")
    BY <1>6
  <2> QED
    BY <1>4, <2>1, <2>2, <2>3, <2>4, <2>5, AssignTypes
<1> QED
  BY <1>5, <1>6 DEF Dispatch

LEMMA RecordResultTypes ==
  ASSUME TypeInv, NEW w \in Workers, RecordResult(w)
  PROVE  TypeInv'
<1>1. /\ pc[w] = "record" /\ SharedTypes /\ UNCHANGED locals /\ Len(approvals') = Len(approvals)
      /\ task[w] # 0 => task[w] \in 1..Len(tasks)
  BY LocalValues DEF RecordResult, At
<1>2. tasks' \in Seq(Task) /\ SameTasks
  <2> DEFINE s == IF out[w] = "success" THEN "completed" ELSE "cancelled"
  <2>1. CASE task[w] = 0
    BY <1>1, <2>1 DEF RecordResult, SharedTypes, SameTasks
  <2>2. CASE task[w] # 0
    <3>1. s \in TaskStatus /\ tasks' = [tasks EXCEPT ![task[w]].status = s]
      BY <2>2 DEF RecordResult, TaskStatus
    <3> QED
      BY <1>1, <2>2, <3>1, SettleTask DEF SharedTypes
  <2> QED
    BY <2>1, <2>2
<1>3. SharedTypes'
  BY <1>1, <1>2 DEF RecordResult, SharedTypes, SameTasks
<1>4. CASE Kind(w) = "action" /\ Goto(w, FinishFlow, "reply")
  <2>1. ShapeAt("reply", req[w], step[w], task[w], appr[w]) /\ "reply" \in Labels
    BY <1>1, <1>4 DEF TypeInv, Shape, ShapeAt, Labels, Kind
  <2> QED
    BY <1>1, <1>2, <1>3, <1>4, <2>1, PathsAreStates, FlowTypes
<1>5. CASE Kind(w) # "action"
           /\ Goto(w, <<>>, IF out[w] = "no_driver" THEN "fail_step" ELSE "complete_step")
  <2> DEFINE l == IF out[w] = "no_driver" THEN "fail_step" ELSE "complete_step"
  <2>1. ShapeAt("fail_step", req[w], step[w], task[w], appr[w])
        /\ ShapeAt("complete_step", req[w], step[w], task[w], appr[w])
    BY <1>1, <1>5 DEF TypeInv, Shape, ShapeAt, Labels, Kind
  <2>2. ShapeAt(l, req[w], step[w], task[w], appr[w]) /\ l \in Labels /\ <<>> \in Seq(BrainStates)
    BY <2>1, EmptySeq DEF Labels
  <2> HIDE DEF l
  <2>3. Goto(w, <<>>, l)
    BY <1>5 DEF l
  <2> QED
    BY <1>1, <1>2, <1>3, <2>2, <2>3, FlowTypes
<1> QED
  BY <1>4, <1>5 DEF RecordResult

LEMMA CompletePlanStepTypes ==
  ASSUME TypeInv, NEW w \in Workers, CompletePlanStep(w)
  PROVE  TypeInv'
<1> DEFINE p == req[w].plan
<1>1. /\ pc[w] = "complete_step" /\ Kind(w) = "goal" /\ req[w] \in Requests
      /\ step[w] \in 1..Len(Steps[p])
  BY LocalValues DEF CompletePlanStep, At, TypeInv, Shape, ShapeAt, Kind
<1>2. /\ p \in Plans /\ SharedTypes /\ LocalTypes /\ Len(Steps[p]) \in Nat
      /\ task[w] \in 0..Len(tasks) /\ appr[w] \in 0..Len(approvals)
      /\ out[w] \in AllOutcomes \cup {"none"} /\ Len(tasks) \in Nat /\ Len(approvals) \in Nat
  BY <1>1, RequestFacts, LocalValues, Lengths DEF Kind
<1>3. UNCHANGED <<sm, tasks, approvals, planStatus, req, task, appr, out, asks>>
  BY DEF CompletePlanStep
<1>4. SharedTypes'
  BY <1>1, <1>2, <1>3, SetStepTypes DEF CompletePlanStep, SharedTypes, PlanStates
<1>5. SameTasks /\ Len(approvals') = Len(approvals) /\ TaskShape'
  BY <1>3, SameTasksShape DEF SameTasks
<1>6. CASE step[w] < Len(Steps[p]) /\ step' = [step EXCEPT ![w] = step[w] + 1]
           /\ Goto(w, <<>>, "plan_step")
  <2> DEFINE n == step[w] + 1
  <2>1. n \in 1..Len(Steps[p]) /\ n \in Nat
    BY <1>1, <1>2, <1>6
  <2>2. /\ step' = [step EXCEPT ![w] = n] /\ Goto(w, <<>>, "plan_step")
        /\ req' = [req EXCEPT ![w] = req[w]]
        /\ task' = [task EXCEPT ![w] = task[w]] /\ appr' = [appr EXCEPT ![w] = appr[w]]
        /\ out' = [out EXCEPT ![w] = out[w]]
    BY <1>2, <1>3, <1>6, Kept
  <2> HIDE DEF n
  <2>3. /\ <<>> \in Seq(BrainStates) /\ "plan_step" \in Labels
        /\ ShapeAt("plan_step", req[w], n, task[w], appr[w])
    BY <1>1, <2>1, EmptySeq DEF ShapeAt, Labels, Kind
  <2>4. /\ task[w] \in 0..Len(tasks') /\ appr[w] \in 0..Len(approvals')
        /\ Len(tasks) <= Len(tasks') /\ Len(approvals) <= Len(approvals')
    BY <1>2, <1>5 DEF SameTasks
  <2>5. req[w] \in Requests /\ out[w] \in AllOutcomes \cup {"none"} /\ TaskShape'
    BY <1>1, <1>2, <1>5
  <2> QED
    BY <1>4, <2>1, <2>2, <2>3, <2>4, <2>5, AssignTypes
<1>7. CASE UNCHANGED step /\ Goto(w, FinishFlow, "plan_done")
  <2>1. "plan_done" \in Labels /\ ShapeAt("plan_done", req[w], step[w], task[w], appr[w])
    BY <1>1 DEF TypeInv, Shape, ShapeAt, Labels, Kind
  <2>2. UNCHANGED locals
    BY <1>3, <1>7 DEF locals
  <2> QED
    BY <1>1, <1>4, <1>5, <1>7, <2>1, <2>2, PathsAreStates, FlowTypes
<1> QED
  BY <1>6, <1>7 DEF CompletePlanStep

LEMMA PlanDoneTypes ==
  ASSUME TypeInv, NEW w \in Workers, PlanDone(w)
  PROVE  TypeInv'
<1>1. /\ pc[w] = "plan_done" /\ Kind(w) = "goal" /\ req[w] \in Requests
  BY LocalValues DEF PlanDone, At, TypeInv, Shape, ShapeAt, Kind
<1>2. req[w].plan \in Plans /\ SharedTypes
  BY <1>1, RequestFacts, LocalValues DEF Kind
<1>3. SharedTypes' /\ SameTasks /\ Len(approvals') = Len(approvals)
  BY <1>2, SetPlanTypes DEF PlanDone, SharedTypes, SameTasks, PlanStates
<1> QED
  BY <1>3, EndTypes DEF PlanDone

\* The plan step of a task that belongs to a plan.
LEMMA PlanOfTask ==
  ASSUME TypeInv, NEW w \in Workers, OfPlan(w)
  PROVE  /\ tasks[task[w]].plan \in Plans
         /\ tasks[task[w]].step \in 1..Len(Steps[tasks[task[w]].plan])
<1>1. task[w] \in 1..Len(tasks) /\ tasks \in Seq(Task) /\ tasks[task[w]].plan # NoPlan
  BY LocalValues DEF OfPlan, SharedTypes
<1>2. tasks[task[w]] \in Task
  BY <1>1, ElementOfSeq
<1> QED
  BY <1>1, <1>2 DEF TypeInv, TaskShape, Task

LEMMA CompleteApprovedStepTypes ==
  ASSUME TypeInv, NEW w \in Workers, CompleteApprovedStep(w)
  PROVE  TypeInv'
<1>1. /\ pc[w] = "complete_step" /\ SharedTypes /\ UNCHANGED locals
      /\ SameTasks /\ Len(approvals') = Len(approvals) /\ Goto(w, FinishFlow, "reply")
  BY LocalValues DEF CompleteApprovedStep, At, SameTasks
<1>2. SharedTypes'
  <2>1. CASE OfPlan(w)
    <3> DEFINE t == tasks[task[w]]
               done == [stepStatus[t.plan] EXCEPT ![t.step] = "completed"]
               s == IF \A i \in DOMAIN done : done[i] = "completed" THEN "completed" ELSE "running"
    <3>1. t.plan \in Plans /\ t.step \in 1..Len(Steps[t.plan])
      BY <2>1, PlanOfTask
    <3>2. SetStep(t.plan, t.step, "completed") /\ SetPlan(t.plan, s)
      BY <2>1 DEF CompleteApprovedStep
    <3>3. s \in PlanStates /\ "completed" \in PlanStates
      BY DEF PlanStates
    <3> HIDE DEF t, s
    <3>4. /\ planStatus' \in [Plans -> PlanStates]
          /\ stepStatus' \in [Plans -> Seq(PlanStates)]
          /\ \A q \in Plans : Len(stepStatus'[q]) = Len(Steps[q])
      BY <1>1, <3>1, <3>2, <3>3, SetStepTypes, SetPlanTypes
    <3> QED
      BY <1>1, <3>4 DEF CompleteApprovedStep, SharedTypes
  <2>2. CASE ~OfPlan(w)
    BY <1>1, <2>2 DEF CompleteApprovedStep, SharedTypes
  <2> QED
    BY <2>1, <2>2
<1>3. ShapeAt("reply", req[w], step[w], task[w], appr[w]) /\ "reply" \in Labels
  BY <1>1 DEF TypeInv, Shape, ShapeAt, Labels
<1> QED
  BY <1>1, <1>2, <1>3, PathsAreStates, FlowTypes

\* FailStep and CancelTask set the step and the plan of w's task alike.
LEMMA SetPlanOfTask ==
  ASSUME TypeInv, NEW w \in Workers, NEW s \in PlanStates,
         IF OfPlan(w)
         THEN SetStep(tasks[task[w]].plan, tasks[task[w]].step, s) /\ SetPlan(tasks[task[w]].plan, s)
         ELSE UNCHANGED <<planStatus, stepStatus>>
  PROVE  /\ planStatus' \in [Plans -> PlanStates]
         /\ stepStatus' \in [Plans -> Seq(PlanStates)]
         /\ \A q \in Plans : Len(stepStatus'[q]) = Len(Steps[q])
<1>1. SharedTypes
  BY LocalValues
<1>2. CASE OfPlan(w)
  BY <1>1, <1>2, PlanOfTask, SetStepTypes, SetPlanTypes
<1>3. CASE ~OfPlan(w)
  BY <1>1, <1>3 DEF SharedTypes
<1> QED
  BY <1>2, <1>3

LEMMA FailStepTypes ==
  ASSUME TypeInv, NEW w \in Workers, FailStep(w)
  PROVE  TypeInv'
<1>1. /\ pc[w] = "fail_step" /\ SharedTypes /\ UNCHANGED locals
      /\ SameTasks /\ Len(approvals') = Len(approvals) /\ Goto(w, FinishFlow, "reply")
  BY LocalValues DEF FailStep, At, SameTasks
<1>2. SharedTypes'
  BY <1>1, SetPlanOfTask DEF FailStep, SharedTypes, PlanStates
<1>3. ShapeAt("reply", req[w], step[w], task[w], appr[w]) /\ "reply" \in Labels
  BY <1>1 DEF TypeInv, Shape, ShapeAt, Labels
<1> QED
  BY <1>1, <1>2, <1>3, PathsAreStates, FlowTypes

LEMMA CancelTaskTypes ==
  ASSUME TypeInv, NEW w \in Workers, CancelTask(w)
  PROVE  TypeInv'
<1>1. /\ pc[w] = "cancel_task" /\ SharedTypes /\ UNCHANGED locals
      /\ Len(approvals') = Len(approvals) /\ Goto(w, <<>>, "resume")
      /\ task[w] # 0 => task[w] \in 1..Len(tasks)
  BY LocalValues DEF CancelTask, At
<1>2. tasks' \in Seq(Task) /\ SameTasks
  <2>1. CASE task[w] = 0
    BY <1>1, <2>1 DEF CancelTask, SharedTypes, SameTasks
  <2>2. CASE task[w] # 0
    BY <1>1, <2>2, SettleTask DEF CancelTask, SharedTypes, TaskStatus
  <2> QED
    BY <2>1, <2>2
<1>3. SharedTypes'
  BY <1>1, <1>2, SetPlanOfTask DEF CancelTask, SharedTypes, SameTasks, PlanStates
<1>4. ShapeAt("resume", req[w], step[w], task[w], appr[w]) /\ "resume" \in Labels
      /\ <<>> \in Seq(BrainStates)
  BY <1>1, EmptySeq DEF TypeInv, Shape, ShapeAt, Labels
<1> QED
  BY <1>1, <1>2, <1>3, <1>4, FlowTypes

LEMMA ReadPendingTypes ==
  ASSUME TypeInv, NEW w \in Workers, ReadPending(w)
  PROVE  TypeInv'
<1>1. pc[w] = "read_pending" /\ UNCHANGED <<sm, managers, asks>>
  BY DEF ReadPending, At
<1>2. CASE Return(w)
  BY <1>1, <1>2, KeptManagers, EndTypes
<1>3. ASSUME NEW a \in Pending, appr' = [appr EXCEPT ![w] = a], Goto(w, <<>>, "decide"),
             UNCHANGED <<req, step, task, out>>
      PROVE  TypeInv'
  <2>1. /\ LocalTypes /\ req[w] \in Requests /\ step[w] \in Nat
        /\ task[w] \in 0..Len(tasks') /\ out[w] \in AllOutcomes \cup {"none"}
        /\ Len(tasks) <= Len(tasks') /\ Len(approvals) <= Len(approvals')
    BY <1>1, LocalValues DEF managers
  <2>2. /\ req' = [req EXCEPT ![w] = req[w]] /\ step' = [step EXCEPT ![w] = step[w]]
        /\ task' = [task EXCEPT ![w] = task[w]] /\ out' = [out EXCEPT ![w] = out[w]]
    BY <1>3, <2>1, Kept
  <2>3. a \in 0..Len(approvals') /\ a # 0
    BY <1>1, LocalValues, Lengths DEF Pending, managers
  <2>4. /\ <<>> \in Seq(BrainStates) /\ "decide" \in Labels
        /\ ShapeAt("decide", req[w], step[w], task[w], a)
    BY <1>1, <2>3, EmptySeq DEF TypeInv, Shape, ShapeAt, Labels
  <2>5. SharedTypes' /\ TaskShape'
    BY <1>1, KeptManagers
  <2>6. Len(tasks) \in Nat /\ a \in Nat
    BY <2>3, LocalValues DEF Pending
  <2>7. appr' = [appr EXCEPT ![w] = a] /\ Goto(w, <<>>, "decide")
    BY <1>3
  <2> QED
    BY <2>1, <2>2, <2>3, <2>4, <2>5, <2>7, AssignTypes
<1> QED
  BY <1>2, <1>3 DEF ReadPending

LEMMA DecisionRefusedTypes ==
  ASSUME TypeInv, NEW w \in Workers, DecisionRefused(w)
  PROVE  TypeInv'
BY KeptManagers, EndTypes DEF DecisionRefused

LEMMA DecideTypes ==
  ASSUME TypeInv, NEW w \in Workers, NEW s \in ApprovalStatus, NEW l \in Labels,
         Decide(w, s, l),
         Kind(w) \in {"confirm", "reject"}, l \in {"resume", "cancel_task"},
         l = "cancel_task" => Kind(w) = "reject"
  PROVE  TypeInv'
<1>1. /\ pc[w] = "decide" /\ Goto(w, <<>>, l)
      /\ approvals' = [approvals EXCEPT ![appr[w]].status = s]
      /\ task' = [task EXCEPT ![w] = approvals[appr[w]].task]
      /\ UNCHANGED <<sm, tasks, planStatus, stepStatus, req, step, appr, out, asks>>
  BY DEF Decide, At
<1>2. /\ SharedTypes /\ LocalTypes /\ req[w] \in Requests /\ step[w] \in Nat
      /\ appr[w] \in 1..Len(approvals) /\ out[w] \in AllOutcomes \cup {"none"}
      /\ Len(tasks) \in Nat /\ Len(approvals) \in Nat
  BY <1>1, LocalValues DEF TypeInv, Shape, ShapeAt, Kind
<1>3. /\ approvals' \in Seq(Approval) /\ Len(approvals') = Len(approvals)
      /\ \A a \in 1..Len(approvals) : approvals'[a].task = approvals[a].task
  <2>1. SameApprovals(appr[w]) /\ approvals'[appr[w]] = [approvals[appr[w]] EXCEPT !.status = s]
    BY <1>1, <1>2, DecideFacts
  <2> QED
    BY <1>2, <2>1, ApprovalTaskKept DEF SameApprovals
<1>4. SharedTypes'
  BY <1>1, <1>2, <1>3 DEF SharedTypes
<1> DEFINE t == approvals[appr[w]].task
<1>5. t \in 0..Len(tasks') /\ appr[w] \in 0..Len(approvals')
  BY <1>1, <1>2, <1>3 DEF SharedTypes
<1>6. /\ TaskShape' /\ Len(tasks) <= Len(tasks') /\ Len(approvals) <= Len(approvals')
  BY <1>1, <1>2, <1>3, SameTasksShape DEF SameTasks
<1>7. /\ task' = [task EXCEPT ![w] = t] /\ Goto(w, <<>>, l)
      /\ req' = [req EXCEPT ![w] = req[w]] /\ step' = [step EXCEPT ![w] = step[w]]
      /\ appr' = [appr EXCEPT ![w] = appr[w]] /\ out' = [out EXCEPT ![w] = out[w]]
  BY <1>1, <1>2, Kept
<1> HIDE DEF t
<1>8. ShapeAt(l, req[w], step[w], t, appr[w]) /\ <<>> \in Seq(BrainStates)
  BY <1>1, <1>2, EmptySeq DEF ShapeAt, Kind
<1>9. req[w] \in Requests /\ step[w] \in Nat /\ out[w] \in AllOutcomes \cup {"none"}
  BY <1>2
<1> QED
  BY <1>4, <1>5, <1>6, <1>7, <1>8, <1>9, AssignTypes

\* Every step of every worker keeps the invariant.
LEMMA NextTypes == TypeInv /\ [Next]_vars => TypeInv'
<1> SUFFICES ASSUME TypeInv, [Next]_vars PROVE TypeInv'
  OBVIOUS
<1>1. CASE UNCHANGED vars
  BY <1>1, TypesSplit DEF vars, TypeInv, TypeOK, TaskShape, Shape, SharedTypes, LocalTypes
<1>2. ASSUME NEW w \in Workers, NEW r \in Requests, Receive(w, r) PROVE TypeInv'
  BY <1>2, ReceiveTypes
<1>3. ASSUME NEW w \in Workers, Step(w) PROVE TypeInv'
  <2>1. CASE CheckTransition(w) \/ TransitionTo(w) \/ InvalidTransition(w)
    BY <2>1, CheckTransitionTypes, TransitionToTypes, InvalidTransitionTypes
  <2>2. CASE StartNewFlow(w) \/ Understand(w) \/ Reply(w) \/ ContextCommand(w)
    BY <2>2, StartNewFlowTypes, UnderstandTypes, ReplyTypes, ContextCommandTypes
  <2>3. CASE SavePlan(w) \/ RunPlan(w) \/ PlanStep(w) \/ CreateTask(w)
    BY <2>3, SavePlanTypes, RunPlanTypes, PlanStepTypes, CreateTaskTypes
  <2>4. CASE GateCloses(w) \/ GateOpens(w) \/ CreateApproval(w) \/ AttachDetails(w)
    BY <2>4, GateClosesTypes, GateOpensTypes, CreateApprovalTypes, AttachDetailsTypes
  <2>5. CASE \E o \in Outcomes : Dispatch(w, o)
    BY <2>5, DispatchTypes
  <2>6. CASE RecordResult(w) \/ CompletePlanStep(w) \/ PlanDone(w)
    BY <2>6, RecordResultTypes, CompletePlanStepTypes, PlanDoneTypes
  <2>7. CASE CompleteApprovedStep(w) \/ FailStep(w) \/ CancelTask(w) \/ Resume(w)
    BY <2>7, CompleteApprovedStepTypes, FailStepTypes, CancelTaskTypes, ResumeTypes
  <2>8. CASE ReadPending(w) \/ DecisionRefused(w)
    BY <2>8, ReadPendingTypes, DecisionRefusedTypes
  <2>9. CASE Approve(w) \/ Reject(w)
    <3>1. /\ "approved" \in ApprovalStatus /\ "rejected" \in ApprovalStatus
          /\ "resume" \in Labels /\ "cancel_task" \in Labels
      BY DEF ApprovalStatus, Labels
    <3>2. CASE Kind(w) = "confirm" /\ Decide(w, "approved", "resume")
      BY <3>1, <3>2, DecideTypes
    <3>3. CASE Kind(w) = "reject" /\ Decide(w, "rejected", "cancel_task")
      BY <3>1, <3>3, DecideTypes
    <3> QED
      BY <2>9, <3>2, <3>3 DEF Approve, Reject
  <2> QED
    BY <1>3, <2>1, <2>2, <2>3, <2>4, <2>5, <2>6, <2>7, <2>8, <2>9 DEF Step
<1> QED
  BY <1>1, <1>2, <1>3 DEF Next

\* The model is type correct: whatever the sessions send, in whatever order
\* their threads run, every value stays in its type, approvals refer to tasks
\* that exist and every worker to a task and an approval that exist.
THEOREM TypeCorrect == Spec => []TypeOK
<1>1. TypeInv => TypeOK
  BY DEF TypeInv
<1> QED
  BY InitTypeInv, NextTypes, <1>1, PTL DEF Spec

(***************************************************************************)
(* The gate                                                                *)
(***************************************************************************)

\* w has approved an approval and not executed it yet.
Executing(w) == pc[w] \in {"resume", "start", "understand", "dispatch"} /\ Kind(w) = "confirm"

\* What the gate needs: only an approved approval has been executed, once; a
\* worker about to execute one owns it, and nobody executed it before.
GateInv ==
  /\ \A a \in 1..Len(approvals) :
       /\ approvals[a].runs \in {0, 1}
       /\ approvals[a].runs = 1 => approvals[a].status = "approved"
  /\ \A w \in Workers :
       Executing(w) => approvals[appr[w]].status = "approved" /\ approvals[appr[w]].runs = 0
  /\ \A v, w \in Workers : Executing(v) /\ Executing(w) /\ v # w => appr[v] # appr[w]

LEMMA InitGateInv == Init => GateInv
BY DEF Init, GateInv, Executing

\* The request that runs is not the one of another worker.
LEMMA StepOthers ==
  ASSUME TypeInv, NEW w \in Workers, Step(w)
  PROVE  Others(w)
<1> USE DEF Others
<1>0. LocalTypes
  BY LocalValues
<1>1. CASE CheckTransition(w) \/ TransitionTo(w) \/ InvalidTransition(w)
  BY <1>0, <1>1 DEF LocalTypes, CheckTransition, TransitionTo, InvalidTransition, Return, Goto, locals
<1>2. CASE StartNewFlow(w) \/ Understand(w) \/ Reply(w) \/ ContextCommand(w)
  BY <1>0, <1>2 DEF LocalTypes, StartNewFlow, Understand, Reply, ContextCommand, Return, Goto, locals
<1>3. CASE SavePlan(w) \/ RunPlan(w) \/ PlanStep(w) \/ CreateTask(w)
  BY <1>0, <1>3 DEF LocalTypes, SavePlan, RunPlan, PlanStep, CreateTask, CreateTaskFor, Return, Goto, locals
<1>4. CASE GateCloses(w) \/ GateOpens(w) \/ CreateApproval(w) \/ AttachDetails(w)
  BY <1>0, <1>4 DEF LocalTypes, GateCloses, GateOpens, CreateApproval, AttachDetails, Goto, locals
<1>5. ASSUME NEW o \in Outcomes, Dispatch(w, o) PROVE Others(w)
  BY <1>0, <1>5 DEF LocalTypes, Dispatch, Return, Goto
<1>6. CASE RecordResult(w) \/ CompletePlanStep(w) \/ PlanDone(w)
  BY <1>0, <1>6 DEF LocalTypes, RecordResult, CompletePlanStep, PlanDone, Return, Goto, locals
<1>7. CASE CompleteApprovedStep(w) \/ FailStep(w) \/ CancelTask(w) \/ Resume(w)
  BY <1>0, <1>7 DEF LocalTypes, CompleteApprovedStep, FailStep, CancelTask, Resume, Goto, locals
<1>8. CASE ReadPending(w) \/ DecisionRefused(w)
  BY <1>0, <1>8 DEF LocalTypes, ReadPending, DecisionRefused, Return, Goto
<1>9. CASE Approve(w) \/ Reject(w)
  BY <1>0, <1>9 DEF LocalTypes, Approve, Reject, Decide, Goto
<1> QED
  BY <1>1, <1>2, <1>3, <1>4, <1>5, <1>6, <1>7, <1>8, <1>9 DEF Step

\* Steps that neither ask, decide nor execute.
SameGate ==
  /\ Len(approvals') = Len(approvals)
  /\ \A a \in 1..Len(approvals) : /\ approvals'[a].status = approvals[a].status
                                  /\ approvals'[a].runs = approvals[a].runs

NoNewExecution(w) == Executing(w)' => Executing(w) /\ appr'[w] = appr[w]

LEMMA QuietStep ==
  ASSUME TypeInv, GateInv, NEW w \in Workers, Others(w), SameGate, NoNewExecution(w)
  PROVE  GateInv'
<1>1. \A v \in Workers : Executing(v)' => Executing(v) /\ appr'[v] = appr[v]
  BY DEF Others, Executing, Kind, NoNewExecution
<1>2. \A v \in Workers : Executing(v) => appr[v] \in 1..Len(approvals)
  <2>1. ASSUME NEW v \in Workers, Executing(v) PROVE appr[v] # 0 /\ appr[v] \in 0..Len(approvals)
    BY <2>1, LocalValues DEF TypeInv, Shape, ShapeAt, Executing, Kind
  <2> QED
    BY <2>1, LocalValues
<1> QED
  BY <1>1, <1>2 DEF GateInv, SameGate

LEMMA KeptApprovals == TypeInv /\ UNCHANGED approvals => SameGate
BY DEF SameGate

\* What StepOthers says of pc and req, for w itself.
LEMMA QuietSteps ==
  ASSUME TypeInv, NEW w \in Workers,
         \/ CheckTransition(w) \/ TransitionTo(w) \/ InvalidTransition(w)
         \/ StartNewFlow(w) \/ Understand(w) \/ Reply(w) \/ ContextCommand(w)
         \/ SavePlan(w) \/ RunPlan(w) \/ PlanStep(w) \/ CreateTask(w)
         \/ GateCloses(w) \/ GateOpens(w)
         \/ RecordResult(w) \/ CompletePlanStep(w) \/ PlanDone(w)
         \/ CompleteApprovedStep(w) \/ FailStep(w) \/ CancelTask(w) \/ Resume(w)
         \/ ReadPending(w) \/ DecisionRefused(w)
  PROVE  SameGate /\ NoNewExecution(w)
<1> USE DEF NoNewExecution, Executing, Kind
<1>0. LocalTypes /\ ShapeAt(pc[w], req[w], step[w], task[w], appr[w])
  BY LocalValues DEF TypeInv, Shape
<1>1. CASE CheckTransition(w) \/ TransitionTo(w)
  BY <1>0, <1>1, KeptApprovals DEF CheckTransition, TransitionTo, managers, locals
<1>2. CASE InvalidTransition(w)
  BY <1>0, <1>2, KeptApprovals DEF LocalTypes, InvalidTransition, Return, Goto, managers
<1>3. CASE StartNewFlow(w) \/ Resume(w)
  BY <1>0, <1>3, KeptApprovals DEF LocalTypes, ShapeAt, StartNewFlow, Resume, At, Goto, managers, locals
<1>4. CASE Understand(w)
  BY <1>0, <1>4, KeptApprovals DEF LocalTypes, Understand, At, Goto, managers, locals
<1>5. CASE Reply(w) \/ ContextCommand(w)
  BY <1>0, <1>5, KeptApprovals DEF LocalTypes, ShapeAt, Reply, ContextCommand, Return, At, Goto, managers, locals
<1>6. CASE SavePlan(w) \/ RunPlan(w)
  BY <1>0, <1>6, KeptApprovals DEF LocalTypes, ShapeAt, SavePlan, RunPlan, Return, At, Goto, locals
<1>7. CASE PlanStep(w) \/ CreateTask(w)
  BY <1>0, <1>7, KeptApprovals DEF LocalTypes, PlanStep, CreateTask, Goto
<1>8. CASE GateCloses(w) \/ GateOpens(w)
  BY <1>0, <1>8, KeptApprovals DEF LocalTypes, ShapeAt, GateCloses, GateOpens, At, Goto, managers, locals
<1>9. CASE RecordResult(w)
  BY <1>0, <1>9, KeptApprovals DEF LocalTypes, RecordResult, Goto, locals
<1>10. CASE CompletePlanStep(w) \/ PlanDone(w)
  BY <1>0, <1>10, KeptApprovals DEF LocalTypes, CompletePlanStep, PlanDone, Return, Goto
<1>11. CASE CompleteApprovedStep(w) \/ FailStep(w)
  BY <1>0, <1>11, KeptApprovals DEF LocalTypes, CompleteApprovedStep, FailStep, Goto, locals
<1>12. CASE CancelTask(w)
  BY <1>0, <1>12, KeptApprovals DEF LocalTypes, ShapeAt, CancelTask, At, Goto, locals
<1>13. CASE ReadPending(w) \/ DecisionRefused(w)
  BY <1>0, <1>13, KeptApprovals DEF LocalTypes, ReadPending, DecisionRefused, Return, Goto, managers
<1> QED
  BY <1>1, <1>2, <1>3, <1>4, <1>5, <1>6, <1>7, <1>8, <1>9, <1>10, <1>11, <1>12, <1>13

LEMMA AttachDetailsQuiet ==
  ASSUME TypeInv, NEW w \in Workers, AttachDetails(w)
  PROVE  SameGate /\ NoNewExecution(w)
<1>1. /\ pc[w] = "attach" /\ SharedTypes /\ LocalTypes /\ appr[w] \in 1..Len(approvals)
      /\ task[w] \in Nat
  BY LocalValues DEF AttachDetails, At, TypeInv, Shape, ShapeAt
<1>2. SameApprovals(appr[w]) /\ approvals'[appr[w]] = [approvals[appr[w]] EXCEPT !.task = task[w]]
  BY <1>1, AttachFacts DEF AttachDetails
<1>3. approvals[appr[w]] \in Approval
  BY <1>1, ElementOfSeq DEF SharedTypes
<1>4. SameGate
  BY <1>2, <1>3 DEF SameApprovals, SameGate, Approval
<1> QED
  BY <1>1, <1>4 DEF AttachDetails, LocalTypes, Goto, NoNewExecution, Executing

LEMMA ReceiveQuiet ==
  ASSUME TypeInv, NEW w \in Workers, NEW r \in Requests, Receive(w, r)
  PROVE  SameGate /\ NoNewExecution(w) /\ Others(w)
<1>1. LocalTypes /\ Entry(r) \in {"read_pending", "save_plan", "context", "start"}
      /\ (Entry(r) = "start" => r.kind # "confirm")
  BY LocalValues DEF Entry
<1> QED
  BY <1>1, KeptApprovals DEF Receive, LocalTypes, Goto, NoNewExecution, Executing, Kind, Others, managers

(***************************************************************************)
(* The steps of the gate                                                   *)
(***************************************************************************)
\* Approval a moves from one state of the gate to another, the others stay.
MovesGate(a, from, to) ==
  /\ \A b \in 1..Len(approvals) : b # a =>
       approvals'[b].status = approvals[b].status /\ approvals'[b].runs = approvals[b].runs
  /\ \/ from = "none" /\ a = Len(approvals) + 1 /\ Len(approvals') = Len(approvals) + 1
     \/ /\ a \in 1..Len(approvals) /\ Len(approvals') = Len(approvals)
        /\ from = IF approvals[a].runs > 0 THEN "executed" ELSE approvals[a].status
  /\ to = IF approvals'[a].runs > 0 THEN "executed" ELSE approvals'[a].status

LEMMA CreateApprovalGate ==
  ASSUME TypeInv, GateInv, NEW w \in Workers, CreateApproval(w)
  PROVE  GateInv' /\ MovesGate(Len(approvals) + 1, "none", "required")
<1>1. /\ Len(approvals') = Len(approvals) + 1 /\ Len(approvals) \in Nat
      /\ \A a \in 1..Len(approvals) : approvals'[a] = approvals[a]
      /\ approvals'[Len(approvals) + 1].status = "required"
      /\ approvals'[Len(approvals) + 1].runs = 0
  BY CreateApprovalFacts
<1>2. Others(w) /\ LocalTypes
  BY StepOthers, LocalValues DEF Step
<1>3. ~Executing(w)'
  BY <1>2 DEF CreateApproval, Goto, LocalTypes, Executing
<1>4. \A v \in Workers : Executing(v)' => v # w /\ Executing(v) /\ appr'[v] = appr[v]
  BY <1>2, <1>3 DEF Others, Executing, Kind
<1>5. ASSUME NEW v \in Workers, Executing(v) PROVE appr[v] \in 1..Len(approvals)
  BY <1>5, LocalValues DEF TypeInv, Shape, ShapeAt, Executing, Kind
<1>6. \A a \in 1..Len(approvals') : a = Len(approvals) + 1 \/ a \in 1..Len(approvals)
  BY <1>1
<1>7. \A a \in 1..Len(approvals') : /\ approvals'[a].runs \in {0, 1}
                                    /\ approvals'[a].runs = 1 => approvals'[a].status = "approved"
  BY <1>1, <1>6 DEF GateInv
<1>8. \A v \in Workers : Executing(v)' =>
        approvals'[appr'[v]].status = "approved" /\ approvals'[appr'[v]].runs = 0
  BY <1>1, <1>4, <1>5 DEF GateInv
<1>9. \A u, v \in Workers : Executing(u)' /\ Executing(v)' /\ u # v => appr'[u] # appr'[v]
  BY <1>4 DEF GateInv
<1>10. GateInv'
  BY <1>7, <1>8, <1>9 DEF GateInv
<1> QED
  BY <1>1, <1>10 DEF MovesGate

\* What a decision does to the gate; only an open approval can be decided.
LEMMA DecideGate ==
  ASSUME TypeInv, GateInv, Checked = TRUE, NEW w \in Workers, NEW s \in {"approved", "rejected"},
         NEW l \in Labels, Decide(w, s, l), Others(w), Kind(w) \in {"confirm", "reject"},
         l \in {"resume", "cancel_task"},
         l = "resume" => s = "approved"
  PROVE  GateInv' /\ MovesGate(appr[w], "required", s)
<1> DEFINE a == appr[w]
<1>1. /\ pc[w] = "decide" /\ SharedTypes /\ LocalTypes /\ a \in 1..Len(approvals)
      /\ s \in ApprovalStatus
  BY LocalValues DEF Decide, At, TypeInv, Shape, ShapeAt, Kind, ApprovalStatus
<1>2. approvals[a].status = "required" /\ approvals[a].runs = 0
  BY <1>1 DEF Decide, Decidable, Pending, GateInv
<1>3. /\ SameApprovals(a) /\ approvals'[a] = [approvals[a] EXCEPT !.status = s]
      /\ approvals[a] \in Approval
  BY <1>1, DecideFacts, ElementOfSeq DEF Decide, SharedTypes
<1>4. approvals'[a].status = s /\ approvals'[a].runs = 0 /\ 0 # 1
  BY <1>2, <1>3 DEF Approval
<1>14. /\ Len(approvals') = Len(approvals)
       /\ \A b \in 1..Len(approvals) : b # a => approvals'[b].status = approvals[b].status
                                               /\ approvals'[b].runs = approvals[b].runs
  BY <1>3 DEF SameApprovals
<1>5. pc'[w] = l /\ appr' = appr /\ req' = req
  BY <1>1 DEF Decide, Goto, LocalTypes
<1>6. \A v \in Workers : Executing(v)' => (v # w /\ Executing(v)) \/ (v = w /\ s = "approved")
  BY <1>5 DEF Others, Executing, Kind
<1>7. \A v \in Workers : Executing(v) => appr[v] \in 1..Len(approvals) /\ appr[v] # a
  <2>1. ASSUME NEW v \in Workers, Executing(v)
        PROVE appr[v] \in 1..Len(approvals) /\ approvals[appr[v]].status = "approved"
    BY <2>1, LocalValues DEF TypeInv, Shape, ShapeAt, Executing, Kind, GateInv
  <2> QED
    BY <2>1, <1>2
<1> HIDE DEF a
<1>8. \A b \in 1..Len(approvals') : /\ approvals'[b].runs \in {0, 1}
                                    /\ approvals'[b].runs = 1 => approvals'[b].status = "approved"
  BY <1>4, <1>14 DEF GateInv
<1>9. appr'[w] = a /\ \A v \in Workers : appr'[v] = appr[v]
  BY <1>5 DEF a
<1>10. \A v \in Workers : Executing(v)' =>
         approvals'[appr'[v]].status = "approved" /\ approvals'[appr'[v]].runs = 0
  BY <1>4, <1>14, <1>6, <1>7, <1>9 DEF GateInv
<1>11. \A u, v \in Workers : Executing(u)' /\ Executing(v)' /\ u # v => appr'[u] # appr'[v]
  BY <1>6, <1>7, <1>9 DEF GateInv
<1>12. GateInv'
  BY <1>8, <1>10, <1>11 DEF GateInv
<1>13. MovesGate(a, "required", s)
  BY <1>1, <1>2, <1>3, <1>4 DEF MovesGate, SameApprovals, a
<1> QED
  BY <1>12, <1>13 DEF a

\* Executing an approval; the other requests execute none.
LEMMA DispatchGate ==
  ASSUME TypeInv, GateInv, NEW w \in Workers, NEW o \in Outcomes, Dispatch(w, o), Others(w)
  PROVE  /\ GateInv'
         /\ SameGate \/ MovesGate(appr[w], "approved", "executed")
<1>1. /\ pc[w] = "dispatch" /\ SharedTypes /\ LocalTypes
      /\ Kind(w) = "confirm" => appr[w] \in 1..Len(approvals)
  BY LocalValues DEF Dispatch, At, TypeInv, Shape, ShapeAt, Kind
<1>2. ~Executing(w)'
  BY <1>1 DEF Dispatch, Return, Goto, LocalTypes, Executing
<1>3. CASE Kind(w) # "confirm"
  <2>1. SameGate
    BY <1>3, KeptApprovals DEF Dispatch
  <2> QED
    BY <1>2, <2>1, QuietStep DEF NoNewExecution
<1>4. CASE Kind(w) = "confirm"
  <2> DEFINE a == appr[w]
  <2>1. /\ a \in 1..Len(approvals) /\ Executing(w)
        /\ approvals[a].status = "approved" /\ approvals[a].runs = 0
    BY <1>1, <1>4 DEF Executing, GateInv
  <2>2. /\ SameApprovals(a) /\ approvals'[a] = [approvals[a] EXCEPT !.runs = approvals[a].runs + 1]
        /\ approvals[a] \in Approval
    BY <1>1, <1>4, RunApproval, ElementOfSeq DEF Dispatch, SharedTypes
  <2>3. approvals'[a].status = "approved" /\ approvals'[a].runs = 1
    BY <2>1, <2>2 DEF Approval
  <2>4. \A v \in Workers : Executing(v)' => v # w /\ Executing(v) /\ appr'[v] = appr[v]
    BY <1>2 DEF Others, Executing, Kind
  <2>5. \A v \in Workers : Executing(v) /\ v # w => appr[v] # a /\ appr[v] \in 1..Len(approvals)
    <3>1. ASSUME NEW v \in Workers, Executing(v) PROVE appr[v] \in 1..Len(approvals)
      BY <3>1, LocalValues DEF TypeInv, Shape, ShapeAt, Executing, Kind
    <3> QED
      BY <2>1, <3>1 DEF GateInv
  <2> HIDE DEF a
  <2>6. \A b \in 1..Len(approvals') : /\ approvals'[b].runs \in {0, 1}
                                      /\ approvals'[b].runs = 1 => approvals'[b].status = "approved"
    BY <2>2, <2>3 DEF GateInv, SameApprovals
  <2>7. \A v \in Workers : Executing(v)' =>
          approvals'[appr'[v]].status = "approved" /\ approvals'[appr'[v]].runs = 0
    BY <2>2, <2>4, <2>5 DEF GateInv, SameApprovals
  <2>8. \A u, v \in Workers : Executing(u)' /\ Executing(v)' /\ u # v => appr'[u] # appr'[v]
    BY <2>4 DEF GateInv
  <2>9. GateInv'
    BY <2>6, <2>7, <2>8 DEF GateInv
  <2>10. MovesGate(a, "approved", "executed")
    BY <2>1, <2>2, <2>3 DEF MovesGate, SameApprovals
  <2> QED
    BY <2>9, <2>10 DEF a
<1> QED
  BY <1>3, <1>4

\* A step of the engine is a step of the gate, or none.
GateStep ==
  \/ SameGate
  \/ \E a \in Nat : \/ MovesGate(a, "none", "required")
                    \/ MovesGate(a, "required", "approved")
                    \/ MovesGate(a, "required", "rejected")
                    \/ MovesGate(a, "approved", "executed")

LEMMA NextGate ==
  ASSUME Checked = TRUE, TypeInv, GateInv, [Next]_vars
  PROVE  GateInv' /\ GateStep
<1>1. CASE UNCHANGED vars
  <2>1. SameGate
    BY <1>1, KeptApprovals DEF vars
  <2>2. GateInv'
    BY <1>1 DEF vars, GateInv, Executing, Kind
  <2> QED
    BY <2>1, <2>2 DEF GateStep
<1>2. ASSUME NEW w \in Workers, NEW r \in Requests, Receive(w, r) PROVE GateInv' /\ GateStep
  BY <1>2, ReceiveQuiet, QuietStep DEF GateStep
<1>3. ASSUME NEW w \in Workers, Step(w) PROVE GateInv' /\ GateStep
  <2>1. Others(w) /\ appr[w] \in Nat /\ Len(approvals) + 1 \in Nat
    BY <1>3, StepOthers, LocalValues
  <2>2. CASE SameGate /\ NoNewExecution(w)
    BY <2>1, <2>2, QuietStep DEF GateStep
  <2>3. CASE AttachDetails(w)
    BY <2>2, <2>3, AttachDetailsQuiet
  <2>4. CASE CreateApproval(w)
    BY <2>1, <2>4, CreateApprovalGate DEF GateStep
  <2>5. ASSUME NEW o \in Outcomes, Dispatch(w, o) PROVE GateInv' /\ GateStep
    BY <2>1, <2>5, DispatchGate DEF GateStep
  <2>6. CASE Approve(w)
    <3>1. Decide(w, "approved", "resume") /\ Kind(w) = "confirm" /\ "resume" \in Labels
      BY <2>6 DEF Approve, Labels
    <3>2. GateInv' /\ MovesGate(appr[w], "required", "approved")
      BY <2>1, <3>1, DecideGate
    <3> QED
      BY <2>1, <3>2 DEF GateStep
  <2>7. CASE Reject(w)
    <3>1. Decide(w, "rejected", "cancel_task") /\ Kind(w) = "reject" /\ "cancel_task" \in Labels
      BY <2>7 DEF Reject, Labels
    <3>2. GateInv' /\ MovesGate(appr[w], "required", "rejected")
      BY <2>1, <3>1, DecideGate
    <3> QED
      BY <2>1, <3>2 DEF GateStep
  <2> QED
    BY <1>3, <2>2, <2>3, <2>4, <2>5, <2>6, <2>7, QuietSteps DEF Step
<1> QED
  BY <1>1, <1>2, <1>3 DEF Next

(***************************************************************************)
(* The refinement                                                          *)
(***************************************************************************)
\* gateOf, approval by approval.
GateOfSays ==
  /\ Len(approvals) \in Nat
  /\ gateOf = [a \in 1..MaxAsks |-> gateOf[a]]
  /\ \A a \in 1..MaxAsks :
       /\ a \notin 1..Len(approvals) => gateOf[a] = "none"
       /\ a \in 1..Len(approvals) =>
            gateOf[a] = IF approvals[a].runs > 0 THEN "executed" ELSE approvals[a].status

LEMMA GateOfFacts == TypeInv => GateOfSays
<1> SUFFICES ASSUME TypeInv PROVE GateOfSays
  OBVIOUS
<1>1. Len(approvals) \in Nat /\ DOMAIN approvals = 1..Len(approvals)
  BY TypesSplit, Lengths DEF TypeInv
<1> QED
  BY <1>1 DEF gateOf, GateOfSays

LEMMA MoveMaps ==
  ASSUME GateOfSays, GateOfSays', NEW a \in Nat, NEW from, NEW to, MovesGate(a, from, to)
  PROVE  \/ UNCHANGED gateOf
         \/ a \in 1..MaxAsks /\ Gate!Move(a, from, to)
<1>1. ASSUME NEW b \in 1..MaxAsks, b # a PROVE gateOf'[b] = gateOf[b]
  <2>1. b \in 1..Len(approvals) <=> b \in 1..Len(approvals')
    BY <1>1 DEF MovesGate, GateOfSays
  <2>2. CASE b \in 1..Len(approvals)
    <3>1. approvals'[b].status = approvals[b].status /\ approvals'[b].runs = approvals[b].runs
      BY <1>1, <2>2 DEF MovesGate
    <3> QED
      BY <2>1, <2>2, <3>1 DEF GateOfSays
  <2>3. CASE b \notin 1..Len(approvals)
    BY <2>1, <2>3 DEF GateOfSays
  <2> QED
    BY <2>2, <2>3
<1>2. gateOf = [b \in 1..MaxAsks |-> gateOf[b]] /\ gateOf' = [b \in 1..MaxAsks |-> gateOf'[b]]
  BY DEF GateOfSays
<1>3. CASE a \in 1..MaxAsks
  <2>1. gateOf[a] = from /\ gateOf'[a] = to
    BY <1>3 DEF MovesGate, GateOfSays
  <2>2. gateOf' = [gateOf EXCEPT ![a] = to]
    BY <1>1, <1>2, <1>3, <2>1
  <2> QED
    BY <1>3, <2>1, <2>2 DEF Gate!Move
<1>4. CASE a \notin 1..MaxAsks
  BY <1>1, <1>2, <1>4
<1> QED
  BY <1>3, <1>4

LEMMA StepMaps ==
  ASSUME GateOfSays, GateOfSays', GateStep
  PROVE  [Gate!Next]_gateOf
<1>1. CASE SameGate
  <2>1. /\ gateOf = [b \in 1..MaxAsks |-> gateOf[b]] /\ gateOf' = [b \in 1..MaxAsks |-> gateOf'[b]]
        /\ \A b \in 1..MaxAsks : gateOf'[b] = gateOf[b]
    BY <1>1 DEF SameGate, GateOfSays
  <2> QED
    BY <2>1
<1>2. ASSUME NEW a \in Nat, MovesGate(a, "none", "required") PROVE [Gate!Next]_gateOf
  BY <1>2, MoveMaps DEF Gate!Next, Gate!Require
<1>3. ASSUME NEW a \in Nat, MovesGate(a, "required", "approved") PROVE [Gate!Next]_gateOf
  BY <1>3, MoveMaps DEF Gate!Next, Gate!Approve
<1>4. ASSUME NEW a \in Nat, MovesGate(a, "required", "rejected") PROVE [Gate!Next]_gateOf
  BY <1>4, MoveMaps DEF Gate!Next, Gate!Reject
<1>5. ASSUME NEW a \in Nat, MovesGate(a, "approved", "executed") PROVE [Gate!Next]_gateOf
  BY <1>5, MoveMaps DEF Gate!Next, Gate!Execute
<1> QED
  BY <1>1, <1>2, <1>3, <1>4, <1>5 DEF GateStep

\* Whatever engines, threads and sessions there are and in whatever order their
\* get_pending_approvals, approve, reject and dispatch calls interleave: every
\* approval is decided at most once and executed at most once, and only after it
\* was approved.  It rests on the approval manager refusing a second decision.
THEOREM GateRefined == Checked = TRUE => (Spec => ImplementsGate)
<1>1. Init => Gate!Init
  BY DEF Init, Gate!Init, gateOf
<1>2. Init => TypeInv /\ GateInv
  BY InitTypeInv, InitGateInv
<1>3. (TypeInv => GateOfSays)'
  BY GateOfFacts, PTL
<1>4. Checked = TRUE /\ TypeInv /\ GateInv /\ [Next]_vars
        => TypeInv' /\ GateInv' /\ [Gate!Next]_gateOf
  <2> SUFFICES ASSUME Checked = TRUE, TypeInv, GateInv, [Next]_vars
               PROVE  TypeInv' /\ GateInv' /\ [Gate!Next]_gateOf
    OBVIOUS
  <2>1. TypeInv'
    BY NextTypes
  <2>2. GateOfSays /\ GateOfSays'
    BY <1>3, <2>1, GateOfFacts
  <2>3. GateInv' /\ GateStep
    BY NextGate
  <2> QED
    BY <2>1, <2>2, <2>3, StepMaps
<1>5. SUFFICES ASSUME Checked = TRUE PROVE Spec => ImplementsGate
  OBVIOUS
<1>6. TypeInv /\ GateInv /\ [Next]_vars => TypeInv' /\ GateInv' /\ [Gate!Next]_gateOf
  BY <1>4, <1>5
<1> QED
  BY <1>1, <1>2, <1>6, PTL DEF Spec, ImplementsGate, Gate!Spec

(***************************************************************************)
(* Tasks and the approvals they wait for                                   *)
(***************************************************************************)
\* w has a task in hand that no approval names: it has been created, and not
\* yet been attached to the approval asked for it, or its result recorded.
Holding(w) ==
  \/ pc[w] \in {"gate", "ask", "attach"}
  \/ pc[w] \in {"dispatch", "record"} /\ Kind(w) # "confirm"

\* w has executed an approval whose result is not recorded.
Recording(w) == pc[w] = "record" /\ Kind(w) = "confirm"

\* w has rejected an approval whose task is not cancelled yet.
Cancelling(w) == pc[w] = "cancel_task"

\* The task in w's hand is open, and has been run only if w is about to record
\* that.  Only a task for which nobody has to be asked is run that way.
HoldingInv(w) ==
  Holding(w) =>
    /\ task[w] # 0
    /\ tasks[task[w]].status = "pending"
    /\ tasks[task[w]].runs = IF pc[w] = "record" THEN 1 ELSE 0
    /\ pc[w] = "gate" /\ ~NeedsApproval(w) => tasks[task[w]].gated = FALSE
    /\ pc[w] \in {"dispatch", "record"} => tasks[task[w]].gated = FALSE
    /\ pc[w] = "attach" => approvals[appr[w]].task = 0
    /\ \A a \in 1..Len(approvals) : approvals[a].task # task[w]

\* The task that w handles for an approval, if it knows one, is the approval's.
DecidingInv(w) ==
  /\ (Executing(w) \/ Recording(w) \/ Cancelling(w)) /\ task[w] # 0 =>
       approvals[appr[w]].task = task[w]
  /\ Recording(w) =>
       /\ approvals[appr[w]].runs = 1
       /\ task[w] # 0 => tasks[task[w]].status = "pending"
  /\ Cancelling(w) => approvals[appr[w]].status = "rejected"

\* Nobody else has that task, or that approval, in hand.
ApartInv(v, w) ==
  /\ Holding(v) /\ Holding(w) => task[v] # task[w]
  /\ pc[v] = "attach" /\ pc[w] = "attach" => appr[v] # appr[w]
  /\ Recording(v) /\ Recording(w) => appr[v] # appr[w]

\* An approval that has not been executed: its task has not run, and is open
\* unless the approval was rejected.
LinkedTask(a) ==
  approvals[a].task # 0 /\ approvals[a].runs = 0 =>
    /\ tasks[approvals[a].task].runs = 0
    /\ IF approvals[a].status = "rejected" THEN tasks[approvals[a].task].status # "completed"
                                           ELSE tasks[approvals[a].task].status = "pending"

Linked == \A a \in 1..Len(approvals) : LinkedTask(a)

LinkedOnce ==
  \A a, b \in 1..Len(approvals) :
    a # b /\ approvals[a].task # 0 => approvals[a].task # approvals[b].task

LinkInv ==
  /\ Linked /\ LinkedOnce
  /\ \A w \in Workers : HoldingInv(w) /\ DecidingInv(w)
  /\ \A v, w \in Workers : v # w => ApartInv(v, w)

\* What the properties of tasks say, task by task.
RunsRight(t) ==
  /\ tasks[t].runs \in {0, 1}
  /\ tasks[t].gated = TRUE /\ tasks[t].runs = 1 =>
       \E a \in 1..Len(approvals) :
         approvals[a].task = t /\ approvals[a].status = "approved"

RunInv == \A t \in 1..Len(tasks) : RunsRight(t)

LEMMA InitLinkInv == Init => LinkInv /\ RunInv
BY DEF Init, LinkInv, RunInv, RunsRight, Linked, LinkedOnce, HoldingInv, DecidingInv, ApartInv,
       Holding, Recording, Cancelling, Executing

\* Whoever decides or attaches has an approval, and a task in hand is a task.
LEMMA HandTypes ==
  ASSUME TypeInv, NEW w \in Workers
  PROVE  /\ Executing(w) \/ Recording(w) \/ Cancelling(w) \/ pc[w] = "attach"
              => appr[w] \in 1..Len(approvals)
         /\ task[w] # 0 => task[w] \in 1..Len(tasks)
         /\ Len(tasks) \in Nat /\ Len(approvals) \in Nat
         /\ \A a \in 1..Len(approvals) : approvals[a].task \in 0..Len(tasks)
<1>1. /\ SharedTypes /\ appr[w] \in 0..Len(approvals) /\ task[w] \in 0..Len(tasks)
      /\ Len(tasks) \in Nat /\ Len(approvals) \in Nat
  BY LocalValues
<1>2. Executing(w) \/ Recording(w) \/ Cancelling(w) \/ pc[w] = "attach" => appr[w] # 0
  BY LocalValues DEF TypeInv, Shape, ShapeAt, Executing, Recording, Cancelling, Kind
<1> QED
  BY <1>1, <1>2 DEF SharedTypes

(***************************************************************************)
(* What a step of one worker leaves to the others                          *)
(***************************************************************************)
\* What a step has to keep for the invariant of a worker that takes no part.
KeepsHand(v) ==
  /\ Holding(v) =>
       /\ tasks'[task[v]] = tasks[task[v]]
       /\ \A a \in 1..Len(approvals') : approvals'[a].task # task[v]
       /\ pc[v] = "attach" => approvals'[appr[v]].task = 0
  /\ (Executing(v) \/ Recording(v) \/ Cancelling(v)) /\ task[v] # 0 =>
       approvals'[appr[v]].task = approvals[appr[v]].task
  /\ Recording(v) =>
       /\ approvals'[appr[v]].runs = approvals[appr[v]].runs
       /\ task[v] # 0 => tasks'[task[v]].status = tasks[task[v]].status
  /\ Cancelling(v) => approvals'[appr[v]].status = approvals[appr[v]].status

\* Where another worker is, it is after a step of w.
LEMMA OthersRoles ==
  ASSUME TypeInv, NEW w \in Workers, Others(w), NEW v \in Workers \ {w}
  PROVE  /\ pc'[v] = pc[v] /\ task'[v] = task[v] /\ appr'[v] = appr[v]
         /\ Holding(v)' <=> Holding(v)
         /\ Executing(v)' <=> Executing(v)
         /\ Recording(v)' <=> Recording(v)
         /\ Cancelling(v)' <=> Cancelling(v)
         /\ pc[v] = "gate" => (NeedsApproval(v)' <=> NeedsApproval(v))
<1>1. /\ pc'[v] = pc[v] /\ task'[v] = task[v] /\ appr'[v] = appr[v]
      /\ req'[v] = req[v] /\ step'[v] = step[v]
  BY DEF Others
<1>2. pc[v] = "gate" => Kind(v) \in {"action", "goal"}
  BY DEF TypeInv, Shape, ShapeAt, Kind
<1>3. pc[v] = "gate" => (NeedsApproval(v)' <=> NeedsApproval(v))
  <2>1. CASE Kind(v) = "action"
    BY <1>1, <2>1 DEF NeedsApproval, ActionOf, Kind
  <2>2. CASE Kind(v) = "goal"
    BY <1>1, <2>2 DEF NeedsApproval, ActionOf, Kind
  <2> QED
    BY <1>2, <2>1, <2>2
<1> QED
  BY <1>1, <1>3 DEF Holding, Executing, Recording, Cancelling, Kind

LEMMA OtherHands ==
  ASSUME TypeInv, LinkInv, NEW w \in Workers, Others(w), NEW v \in Workers \ {w}, KeepsHand(v)
  PROVE  HoldingInv(v)' /\ DecidingInv(v)'
<1>1. HoldingInv(v) /\ DecidingInv(v)
  BY DEF LinkInv
<1>2. HoldingInv(v)'
  BY <1>1, OthersRoles DEF HoldingInv, KeepsHand
<1>3. DecidingInv(v)'
  BY <1>1, OthersRoles DEF DecidingInv, KeepsHand
<1> QED
  BY <1>2, <1>3

\* What w takes into its hand by a step is in nobody else's.
HandApart(w) ==
  \A v \in Workers \ {w} :
    /\ Holding(w)' /\ Holding(v) => task'[w] # task[v]
    /\ pc'[w] = "attach" /\ pc[v] = "attach" => appr'[w] # appr[v]
    /\ Recording(w)' /\ Recording(v) => appr'[w] # appr[v]

\* w takes nothing into its hand.
NoNewHand(w) ==
  /\ Holding(w)' => Holding(w) /\ task'[w] = task[w]
  /\ pc'[w] = "attach" => pc[w] = "attach" /\ appr'[w] = appr[w]
  /\ Recording(w)' => Recording(w) /\ appr'[w] = appr[w]

LEMMA SameHandApart ==
  ASSUME LinkInv, NEW w \in Workers, NoNewHand(w)
  PROVE  HandApart(w)
BY DEF LinkInv, ApartInv, NoNewHand, HandApart

LEMMA LinkKept ==
  ASSUME TypeInv, LinkInv, NEW w \in Workers, Others(w), HandApart(w),
         \A v \in Workers \ {w} : KeepsHand(v),
         HoldingInv(w)', DecidingInv(w)', Linked', LinkedOnce'
  PROVE  LinkInv'
<1>1. \A v \in Workers : HoldingInv(v)' /\ DecidingInv(v)'
  BY OtherHands
<1>2. ASSUME NEW u \in Workers, NEW v \in Workers, u # v PROVE ApartInv(u, v)'
  <2>1. CASE u = w
    BY <1>2, <2>1, OthersRoles DEF HandApart, ApartInv
  <2>2. CASE v = w
    BY <1>2, <2>2, OthersRoles DEF HandApart, ApartInv
  <2>3. CASE u # w /\ v # w
    BY <1>2, <2>3, OthersRoles DEF LinkInv, ApartInv
  <2> QED
    BY <2>1, <2>2, <2>3
<1> QED
  BY <1>1, <1>2 DEF LinkInv

(***************************************************************************)
(* Steps that change neither tasks nor approvals                           *)
(***************************************************************************)
LEMMA QuietLink ==
  ASSUME TypeInv, LinkInv, RunInv, NEW w \in Workers, Others(w), NoNewHand(w),
         UNCHANGED <<tasks, approvals>>, HoldingInv(w)', DecidingInv(w)'
  PROVE  LinkInv' /\ RunInv'
<1>1. \A v \in Workers \ {w} : KeepsHand(v)
  BY DEF LinkInv, HoldingInv, KeepsHand
<1>2. Linked' /\ LinkedOnce' /\ RunInv'
  BY DEF LinkInv, Linked, LinkedOnce, LinkedTask, RunInv, RunsRight
<1> QED
  BY <1>1, <1>2, SameHandApart, LinkKept

\* w's hand is empty after the step, or holds what it held.
EmptyHanded(w) == ~Holding(w)' /\ ~Executing(w)' /\ ~Recording(w)' /\ ~Cancelling(w)'

KeptHand(w) ==
  /\ Holding(w)' => Holding(w) /\ pc'[w] = pc[w]
  /\ Executing(w)' => Executing(w)
  /\ Recording(w)' => Recording(w)
  /\ Cancelling(w)' => Cancelling(w)
  /\ req'[w] = req[w] /\ step'[w] = step[w] /\ task'[w] = task[w] /\ appr'[w] = appr[w]

LEMMA QuietHands ==
  ASSUME TypeInv, LinkInv, RunInv, NEW w \in Workers, Others(w),
         UNCHANGED <<tasks, approvals>>, EmptyHanded(w) \/ KeptHand(w)
  PROVE  LinkInv' /\ RunInv'
<1>1. CASE EmptyHanded(w)
  <2>1. NoNewHand(w) /\ HoldingInv(w)' /\ DecidingInv(w)'
    BY <1>1 DEF EmptyHanded, NoNewHand, HoldingInv, DecidingInv, Holding
  <2> QED
    BY <2>1, QuietLink
<1>2. CASE KeptHand(w)
  <2>1. NoNewHand(w)
    BY <1>2 DEF KeptHand, NoNewHand, Holding
  <2>2. HoldingInv(w) /\ DecidingInv(w)
    BY DEF LinkInv
  <2>3. pc[w] = "gate" /\ Holding(w)' => (NeedsApproval(w)' <=> NeedsApproval(w))
    BY <1>2 DEF KeptHand, NeedsApproval, ActionOf, Kind
  <2>4. HoldingInv(w)'
    BY <1>2, <2>2, <2>3 DEF KeptHand, HoldingInv
  <2>5. DecidingInv(w)'
    BY <1>2, <2>2 DEF KeptHand, DecidingInv
  <2> QED
    BY <2>1, <2>4, <2>5, QuietLink
<1> QED
  BY <1>1, <1>2

LEMMA QuietStepsLink ==
  ASSUME TypeInv, LinkInv, RunInv, NEW w \in Workers, Others(w),
         \/ CheckTransition(w) \/ TransitionTo(w) \/ InvalidTransition(w)
         \/ StartNewFlow(w) \/ Understand(w) \/ Reply(w) \/ ContextCommand(w)
         \/ SavePlan(w) \/ RunPlan(w)
         \/ CompletePlanStep(w) \/ PlanDone(w)
         \/ CompleteApprovedStep(w) \/ FailStep(w) \/ Resume(w)
         \/ ReadPending(w) \/ DecisionRefused(w)
  PROVE  LinkInv' /\ RunInv'
<1> USE DEF EmptyHanded, KeptHand, Holding, Executing, Recording, Cancelling, Kind
<1>0. LocalTypes /\ ShapeAt(pc[w], req[w], step[w], task[w], appr[w])
  BY LocalValues DEF TypeInv, Shape
<1>1. CASE CheckTransition(w) \/ TransitionTo(w)
  <2>1. UNCHANGED <<tasks, approvals>> /\ KeptHand(w)
    BY <1>0, <1>1 DEF LocalTypes, CheckTransition, TransitionTo, managers, locals
  <2> QED
    BY <2>1, QuietHands
<1>2. CASE InvalidTransition(w)
  <2>1. UNCHANGED <<tasks, approvals>> /\ EmptyHanded(w)
    BY <1>0, <1>2 DEF LocalTypes, InvalidTransition, Return, Goto, managers
  <2> QED
    BY <2>1, QuietHands
<1>3. CASE StartNewFlow(w) \/ Resume(w)
  <2>1. UNCHANGED <<tasks, approvals>> /\ KeptHand(w)
    BY <1>0, <1>3 DEF LocalTypes, ShapeAt, StartNewFlow, Resume, At, Goto, managers, locals
  <2> QED
    BY <2>1, QuietHands
<1>4. CASE Understand(w)
  <2>1. UNCHANGED <<tasks, approvals>> /\ KeptHand(w)
    BY <1>0, <1>4 DEF LocalTypes, Understand, At, Goto, managers, locals
  <2> QED
    BY <2>1, QuietHands
<1>5. CASE Reply(w) \/ ContextCommand(w)
  <2>1. UNCHANGED <<tasks, approvals>> /\ EmptyHanded(w)
    BY <1>0, <1>5 DEF LocalTypes, ShapeAt, Reply, ContextCommand, Return, At, Goto, managers, locals
  <2> QED
    BY <2>1, QuietHands
<1>6. CASE SavePlan(w) \/ RunPlan(w)
  <2>1. UNCHANGED <<tasks, approvals>> /\ EmptyHanded(w)
    BY <1>0, <1>6 DEF LocalTypes, ShapeAt, SavePlan, RunPlan, Return, At, Goto, locals
  <2> QED
    BY <2>1, QuietHands
<1>7. CASE CompletePlanStep(w) \/ PlanDone(w)
  <2>1. UNCHANGED <<tasks, approvals>> /\ EmptyHanded(w)
    BY <1>0, <1>7 DEF LocalTypes, CompletePlanStep, PlanDone, Return, Goto
  <2> QED
    BY <2>1, QuietHands
<1>8. CASE CompleteApprovedStep(w) \/ FailStep(w)
  <2>1. UNCHANGED <<tasks, approvals>> /\ EmptyHanded(w)
    BY <1>0, <1>8 DEF LocalTypes, CompleteApprovedStep, FailStep, Goto, locals
  <2> QED
    BY <2>1, QuietHands
<1>9. CASE ReadPending(w) \/ DecisionRefused(w)
  <2>1. UNCHANGED <<tasks, approvals>> /\ EmptyHanded(w)
    BY <1>0, <1>9 DEF LocalTypes, ReadPending, DecisionRefused, Return, Goto, managers
  <2> QED
    BY <2>1, QuietHands
<1> QED
  BY <1>1, <1>2, <1>3, <1>4, <1>5, <1>6, <1>7, <1>8, <1>9

LEMMA ReceiveLink ==
  ASSUME TypeInv, LinkInv, RunInv, NEW w \in Workers, NEW r \in Requests, Receive(w, r)
  PROVE  LinkInv' /\ RunInv'
<1>1. LocalTypes /\ Entry(r) \in {"read_pending", "save_plan", "context", "start"}
      /\ (Entry(r) = "start" => r.kind # "confirm")
  BY LocalValues DEF Entry
<1>2. UNCHANGED <<tasks, approvals>> /\ EmptyHanded(w)
  BY <1>1 DEF Receive, LocalTypes, Goto, managers, EmptyHanded, Holding, Executing, Recording,
              Cancelling, Kind
<1> QED
  BY <1>2, ReceiveQuiet, QuietHands

\* The verdict of the permission check decides which way the task goes.
LEMMA GateLink ==
  ASSUME TypeInv, LinkInv, RunInv, NEW w \in Workers, Others(w), GateCloses(w) \/ GateOpens(w)
  PROVE  LinkInv' /\ RunInv'
<1>1. /\ LocalTypes /\ pc[w] = "gate" /\ Kind(w) \in {"action", "goal"}
  BY LocalValues DEF GateCloses, GateOpens, At, TypeInv, Shape, ShapeAt, Kind
<1>2. /\ UNCHANGED <<tasks, approvals>>
      /\ req'[w] = req[w] /\ step'[w] = step[w] /\ task'[w] = task[w] /\ appr'[w] = appr[w]
      /\ \/ pc'[w] = "ask"
         \/ pc'[w] = "dispatch" /\ ~NeedsApproval(w)
  BY <1>1 DEF LocalTypes, GateCloses, GateOpens, Goto, locals, managers
<1>3. Holding(w) /\ HoldingInv(w)
  BY <1>1 DEF LinkInv, Holding
<1>4. HoldingInv(w)'
  BY <1>1, <1>2, <1>3 DEF HoldingInv
<1>5. NoNewHand(w) /\ DecidingInv(w)'
  BY <1>1, <1>2, <1>3 DEF NoNewHand, DecidingInv, Executing, Recording, Cancelling, Kind
<1> QED
  BY <1>2, <1>4, <1>5, QuietLink

(***************************************************************************)
(* Steps that create, ask, attach, run, settle and decide                  *)
(***************************************************************************)
\* A new task is in the hand of the worker that creates it, and nobody's else.
LEMMA CreateTaskLink ==
  ASSUME TypeInv, LinkInv, RunInv, NEW w \in Workers, Others(w), PlanStep(w) \/ CreateTask(w)
  PROVE  LinkInv' /\ RunInv'
<1> DEFINE n == Len(tasks) + 1
<1>1. /\ LocalTypes /\ pc[w] \in {"create_task", "plan_step"} /\ Kind(w) \in {"action", "goal"}
  BY LocalValues DEF PlanStep, CreateTask, At, TypeInv, Shape, ShapeAt, Kind
<1>2. CreateTaskFor(w)
  BY DEF PlanStep, CreateTask
<1>3. /\ Len(tasks') = n /\ Len(tasks) \in Nat /\ n # 0
      /\ task' = [task EXCEPT ![w] = n]
      /\ \A t \in 1..Len(tasks) : tasks'[t] = tasks[t]
      /\ tasks'[n].status = "pending" /\ tasks'[n].runs = 0
  BY <1>1, <1>2, CreateTaskForFacts
<1>4. /\ approvals' = approvals /\ pc'[w] = "gate" /\ task'[w] = n
      /\ req'[w] = req[w] /\ step'[w] = step[w]
  BY <1>1, <1>3 DEF LocalTypes, PlanStep, CreateTask, Goto
<1>5. ~NeedsApproval(w)' => tasks'[n].gated = FALSE
  <2>1. NeedsApproval(w)' <=> NeedsApproval(w)
    <3>1. CASE Kind(w) = "action"
      BY <1>4, <3>1 DEF NeedsApproval, ActionOf, Kind
    <3>2. CASE Kind(w) = "goal"
      BY <1>4, <3>2 DEF NeedsApproval, ActionOf, Kind
    <3> QED
      BY <1>1, <3>1, <3>2
  <2> QED
    BY <1>1, <1>2, <2>1, CreateTaskForFacts
<1> HIDE DEF n
<1>6. \A a \in 1..Len(approvals) : approvals[a].task \in 1..Len(tasks) \/ approvals[a].task = 0
  BY HandTypes
<1>61. n \notin 1..Len(tasks)
  BY <1>3 DEF n
<1>7. HoldingInv(w)'
  BY <1>3, <1>4, <1>5, <1>6, <1>61 DEF HoldingInv
<1>8. DecidingInv(w)'
  BY <1>1, <1>4 DEF DecidingInv, Executing, Recording, Cancelling, Kind
<1>9. HandApart(w)
  BY <1>4, <1>61, HandTypes, <1>3 DEF HandApart, Recording, LinkInv, HoldingInv
<1>10. ASSUME NEW v \in Workers \ {w} PROVE KeepsHand(v)
  <2>1. HoldingInv(v) /\ (task[v] # 0 => tasks'[task[v]] = tasks[task[v]])
    BY <1>3, HandTypes DEF LinkInv
  <2> QED
    BY <1>4, <2>1 DEF HoldingInv, KeepsHand
<1>11. Linked' /\ LinkedOnce'
  <2>1. ASSUME NEW a \in 1..Len(approvals) PROVE LinkedTask(a)'
    <3>1. LinkedTask(a) /\ (approvals[a].task # 0 => tasks'[approvals[a].task] = tasks[approvals[a].task])
      BY <1>3, <1>6 DEF LinkInv, Linked
    <3> QED
      BY <1>4, <3>1 DEF LinkedTask
  <2> QED
    BY <1>4, <2>1 DEF LinkInv, Linked, LinkedOnce
<1>12. RunInv'
  <2>1. ASSUME NEW t \in 1..Len(tasks') PROVE t = n \/ t \in 1..Len(tasks)
    BY <1>3 DEF n
  <2> QED
    BY <1>3, <1>4, <2>1 DEF RunInv, RunsRight
<1> QED
  BY <1>7, <1>8, <1>9, <1>10, <1>11, <1>12, LinkKept

\* A new approval names no task yet.
LEMMA CreateApprovalLink ==
  ASSUME TypeInv, LinkInv, RunInv, NEW w \in Workers, Others(w), CreateApproval(w)
  PROVE  LinkInv' /\ RunInv'
<1> DEFINE n == Len(approvals) + 1
<1>1. /\ LocalTypes /\ pc[w] = "ask" /\ Kind(w) \in {"action", "goal"} /\ Holding(w)
  BY LocalValues DEF CreateApproval, At, TypeInv, Shape, ShapeAt, Kind, Holding
<1>2. /\ Len(approvals') = n /\ Len(approvals) \in Nat
      /\ \A a \in 1..Len(approvals) : approvals'[a] = approvals[a]
      /\ approvals'[n].runs = 0 /\ approvals'[n].task = 0
  BY CreateApprovalFacts
<1>3. /\ tasks' = tasks /\ pc'[w] = "attach" /\ task'[w] = task[w] /\ appr'[w] = n
      /\ req'[w] = req[w]
  BY <1>1 DEF LocalTypes, CreateApproval, Goto
<1> HIDE DEF n
<1>4. \A a \in 1..Len(approvals') : a = n \/ a \in 1..Len(approvals)
  BY <1>2 DEF n
<1>41. n \notin 1..Len(approvals)
  BY <1>2 DEF n
<1>5. HoldingInv(w)'
  BY <1>1, <1>2, <1>3, <1>4 DEF LinkInv, HoldingInv
<1>6. DecidingInv(w)'
  BY <1>1, <1>3 DEF DecidingInv, Executing, Recording, Cancelling, Kind
<1>7. HandApart(w)
  <2>1. \A v \in Workers \ {w} : /\ Holding(v) => task[w] # task[v]
                                 /\ pc[v] = "attach" => appr[v] # n
    BY <1>1, <1>41, HandTypes DEF LinkInv, ApartInv
  <2> QED
    BY <1>3, <2>1 DEF HandApart, Recording
<1>8. ASSUME NEW v \in Workers \ {w} PROVE KeepsHand(v)
  <2>1. HoldingInv(v) /\ (Executing(v) \/ Recording(v) \/ Cancelling(v) \/ pc[v] = "attach" =>
                            approvals'[appr[v]] = approvals[appr[v]])
    BY <1>2, HandTypes DEF LinkInv
  <2> QED
    BY <1>2, <1>3, <1>4, <2>1 DEF HoldingInv, KeepsHand
<1>9. Linked' /\ LinkedOnce'
  <2>1. Linked /\ LinkedOnce
    BY DEF LinkInv
  <2>2. Linked'
    BY <1>2, <1>3, <1>4, <2>1 DEF Linked, LinkedTask
  <2>3. LinkedOnce'
    BY <1>2, <1>4, <2>1 DEF LinkedOnce
  <2> QED
    BY <2>2, <2>3
<1>10. RunInv'
  <2>1. \A a \in 1..Len(approvals) : a \in 1..Len(approvals')
    BY <1>2 DEF n
  <2> QED
    BY <1>2, <1>3, <2>1 DEF RunInv, RunsRight
<1> QED
  BY <1>5, <1>6, <1>7, <1>8, <1>9, <1>10, LinkKept

\* Whatever happened to the approval in the meantime, the task attached to it
\* is open and has not run.
LEMMA AttachLink ==
  ASSUME TypeInv, LinkInv, RunInv, NEW w \in Workers, Others(w), AttachDetails(w)
  PROVE  LinkInv' /\ RunInv'
<1> DEFINE a == appr[w]
           t == task[w]
<1>1. /\ pc[w] = "attach" /\ SharedTypes /\ LocalTypes /\ a \in 1..Len(approvals)
      /\ t \in Nat /\ Holding(w)
  BY LocalValues, HandTypes DEF AttachDetails, At, Holding
<1>2. /\ SameApprovals(a) /\ approvals'[a] = [approvals[a] EXCEPT !.task = t]
      /\ approvals[a] \in Approval
  BY <1>1, AttachFacts, ElementOfSeq DEF AttachDetails, SharedTypes
<1>3. /\ Len(approvals') = Len(approvals)
      /\ approvals'[a].task = t /\ approvals'[a].status = approvals[a].status
      /\ approvals'[a].runs = approvals[a].runs
      /\ \A b \in 1..Len(approvals) : b # a => approvals'[b] = approvals[b]
  BY <1>2 DEF SameApprovals, Approval
<1>4. tasks' = tasks /\ pc'[w] = "reply"
  BY <1>1 DEF LocalTypes, AttachDetails, Goto
<1>5. HoldingInv(w) /\ approvals[a].task = 0
  BY <1>1 DEF LinkInv, HoldingInv
<1>6. /\ t # 0 /\ tasks[t].status = "pending" /\ tasks[t].runs = 0
      /\ \A b \in 1..Len(approvals) : approvals[b].task # t
  BY <1>1, <1>5 DEF HoldingInv
<1>61. \A v \in Workers \ {w} : /\ Holding(v) => task[v] # t
                                /\ pc[v] = "attach" => appr[v] # a
  BY <1>1 DEF LinkInv, ApartInv
<1> HIDE DEF a, t
<1>7. EmptyHanded(w) /\ HoldingInv(w)' /\ DecidingInv(w)' /\ HandApart(w)
  BY <1>4 DEF EmptyHanded, Holding, Executing, Recording, Cancelling, HoldingInv, DecidingInv, HandApart
<1>8. ASSUME NEW v \in Workers \ {w} PROVE KeepsHand(v)
  <2>1. HoldingInv(v) /\ DecidingInv(v)
    BY DEF LinkInv
  <2>2. Executing(v) \/ Recording(v) \/ Cancelling(v) \/ pc[v] = "attach" => appr[v] \in 1..Len(approvals)
    BY HandTypes
  <2>3. (Executing(v) \/ Recording(v) \/ Cancelling(v)) /\ task[v] # 0 => appr[v] # a
    BY <1>5, <2>1 DEF DecidingInv
  <2>4. Holding(v) => \A b \in 1..Len(approvals') : approvals'[b].task # task[v]
    BY <1>3, <1>61, <2>1 DEF HoldingInv
  <2>5. pc[v] = "attach" /\ Holding(v) => approvals'[appr[v]].task = 0
    BY <1>3, <1>61, <2>1, <2>2 DEF HoldingInv
  <2>6. Recording(v) \/ Cancelling(v) => /\ approvals'[appr[v]].runs = approvals[appr[v]].runs
                                         /\ approvals'[appr[v]].status = approvals[appr[v]].status
    BY <1>3, <2>2
  <2>7. (Executing(v) \/ Recording(v) \/ Cancelling(v)) /\ task[v] # 0 =>
          approvals'[appr[v]].task = approvals[appr[v]].task
    BY <1>3, <2>2, <2>3
  <2> QED
    BY <1>4, <2>4, <2>5, <2>6, <2>7 DEF KeepsHand
<1>9. Linked'
  <2>1. ASSUME NEW b \in 1..Len(approvals') PROVE LinkedTask(b)'
    <3>1. CASE b = a
      BY <1>3, <1>4, <1>6, <3>1 DEF LinkedTask
    <3>2. CASE b # a
      BY <1>3, <1>4, <3>2 DEF LinkInv, Linked, LinkedTask
    <3> QED
      BY <3>1, <3>2
  <2> QED
    BY <2>1 DEF Linked
<1>10. LinkedOnce'
  BY <1>3, <1>6 DEF LinkInv, LinkedOnce
<1>11. RunInv'
  <2>1. \A b \in 1..Len(approvals) : \A u \in 1..Len(tasks) :
          approvals[b].task = u /\ approvals[b].status = "approved" =>
          approvals'[b].task = u /\ approvals'[b].status = "approved"
    BY <1>3, <1>5 DEF a
  <2> QED
    BY <1>3, <1>4, <2>1 DEF RunInv, RunsRight
<1> QED
  BY <1>7, <1>8, <1>9, <1>10, <1>11, LinkKept

\* Only the run of task t, or none if t is 0, is counted.
CountsRun(t) ==
  /\ Len(tasks') = Len(tasks)
  /\ \A u \in 1..Len(tasks) :
       /\ tasks'[u].status = tasks[u].status /\ tasks'[u].gated = tasks[u].gated
       /\ u # t => tasks'[u] = tasks[u]
       /\ u = t => tasks'[u].runs = tasks[u].runs + 1

LEMMA DispatchCounts ==
  ASSUME TypeInv, NEW w \in Workers, NEW o \in Outcomes, Dispatch(w, o)
  PROVE  CountsRun(task[w])
<1>1. tasks \in Seq(Task) /\ (task[w] # 0 => task[w] \in 1..Len(tasks))
  BY LocalValues DEF SharedTypes
<1>2. CASE task[w] = 0
  BY <1>1, <1>2 DEF Dispatch, CountsRun
<1>3. CASE task[w] # 0
  <2> DEFINE t == task[w]
  <2>1. t \in 1..Len(tasks) /\ tasks' = [tasks EXCEPT ![t].runs = @ + 1] /\ tasks[t] \in Task
    BY <1>1, <1>3, ElementOfSeq DEF Dispatch
  <2> HIDE DEF t
  <2>2. /\ SameTasks /\ tasks'[t] = [tasks[t] EXCEPT !.runs = tasks[t].runs + 1]
        /\ \A u \in 1..Len(tasks) : u # t => tasks'[u] = tasks[u]
    BY <1>1, <2>1, RunTask
  <2>3. tasks'[t].status = tasks[t].status /\ tasks'[t].gated = tasks[t].gated
        /\ tasks'[t].runs = tasks[t].runs + 1
    BY <2>1, <2>2 DEF Task
  <2>4. CountsRun(t)
    BY <2>2, <2>3 DEF CountsRun, SameTasks
  <2> QED
    BY <2>4 DEF t
<1> QED
  BY <1>2, <1>3

\* The worker is left with a result to record, or with nothing.
LEMMA DispatchMoves ==
  ASSUME TypeInv, NEW w \in Workers, NEW o \in Outcomes, Dispatch(w, o)
  PROVE  \/ pc'[w] = "idle"
         \/ /\ pc'[w] = "record" /\ req'[w] = req[w]
            /\ task'[w] = task[w] /\ appr'[w] = appr[w]
BY LocalValues DEF Dispatch, LocalTypes, Return, Goto

\* A task for which nobody had to be asked is run.
LEMMA DispatchDirectLink ==
  ASSUME TypeInv, LinkInv, RunInv, NEW w \in Workers, Others(w),
         NEW o \in Outcomes, Dispatch(w, o), Kind(w) # "confirm"
  PROVE  LinkInv' /\ RunInv'
<1> DEFINE t == task[w]
<1>1. pc[w] = "dispatch" /\ Holding(w) /\ HoldingInv(w) /\ approvals' = approvals
  BY DEF Dispatch, At, Holding, LinkInv
<1>2. /\ t \in 1..Len(tasks)
      /\ tasks[t].status = "pending" /\ tasks[t].runs = 0 /\ tasks[t].gated = FALSE
      /\ \A a \in 1..Len(approvals) : approvals[a].task # t
  BY <1>1, HandTypes DEF HoldingInv
<1>3. CountsRun(t)
  BY DispatchCounts
<1>4. \/ pc'[w] = "idle"
      \/ /\ pc'[w] = "record" /\ Kind(w)' # "confirm"
         /\ task'[w] = t /\ appr'[w] = appr[w]
  BY DispatchMoves DEF Kind
<1>5. \A v \in Workers \ {w} : Holding(v) => task[v] # t
  BY <1>1 DEF LinkInv, ApartInv
<1> HIDE DEF t
<1>6. HoldingInv(w)'
  BY <1>1, <1>2, <1>3, <1>4 DEF HoldingInv, CountsRun, Holding
<1>7. DecidingInv(w)' /\ HandApart(w)
  BY <1>4, <1>5 DEF DecidingInv, Executing, Recording, Cancelling, HandApart, Holding
<1>8. ASSUME NEW v \in Workers \ {w} PROVE KeepsHand(v)
  <2>1. HoldingInv(v) /\ (task[v] # 0 => task[v] \in 1..Len(tasks))
    BY HandTypes DEF LinkInv
  <2> QED
    BY <1>1, <1>3, <1>5, <2>1 DEF HoldingInv, KeepsHand, CountsRun
<1>9. Linked' /\ LinkedOnce'
  <2>1. ASSUME NEW a \in 1..Len(approvals) PROVE LinkedTask(a)'
    <3>1. LinkedTask(a) /\ (approvals[a].task # 0 => tasks'[approvals[a].task] = tasks[approvals[a].task])
      BY <1>2, <1>3, HandTypes DEF LinkInv, Linked, CountsRun
    <3> QED
      BY <1>1, <3>1 DEF LinkedTask
  <2> QED
    BY <1>1, <2>1 DEF LinkInv, Linked, LinkedOnce
<1>10. RunInv'
  <2>1. ASSUME NEW u \in 1..Len(tasks) PROVE RunsRight(u)'
    <3>1. CASE u = t
      BY <1>2, <1>3, <3>1 DEF RunsRight, CountsRun
    <3>2. CASE u # t
      BY <1>1, <1>3, <3>2 DEF RunInv, RunsRight, CountsRun
    <3> QED
      BY <3>1, <3>2
  <2> QED
    BY <1>3, <2>1 DEF RunInv, CountsRun
<1> QED
  BY <1>6, <1>7, <1>8, <1>9, <1>10, LinkKept

\* An approval is executed, and the task that is known for it is run.
LEMMA DispatchApprovedLink ==
  ASSUME TypeInv, GateInv, LinkInv, RunInv, NEW w \in Workers, Others(w),
         NEW o \in Outcomes, Dispatch(w, o), Kind(w) = "confirm"
  PROVE  LinkInv' /\ RunInv'
<1> DEFINE a == appr[w]
           t == task[w]
<1>1. pc[w] = "dispatch" /\ Executing(w) /\ DecidingInv(w) /\ SharedTypes
  BY LocalValues DEF Dispatch, At, Executing, LinkInv
<1>2. /\ a \in 1..Len(approvals) /\ approvals[a] \in Approval
      /\ approvals[a].status = "approved" /\ approvals[a].runs = 0
      /\ t # 0 => t \in 1..Len(tasks) /\ approvals[a].task = t
  BY <1>1, HandTypes, ElementOfSeq DEF GateInv, DecidingInv, SharedTypes
<1>3. /\ SameApprovals(a) /\ approvals'[a] = [approvals[a] EXCEPT !.runs = approvals[a].runs + 1]
  BY <1>1, <1>2, RunApproval DEF Dispatch
<1>4. /\ Len(approvals') = Len(approvals)
      /\ \A b \in 1..Len(approvals) : b # a => approvals'[b] = approvals[b]
      /\ approvals'[a].task = approvals[a].task /\ approvals'[a].status = "approved"
      /\ approvals'[a].runs = 1
  BY <1>2, <1>3 DEF SameApprovals, Approval
<1>5. CountsRun(t)
  BY DispatchCounts
<1>6. \/ pc'[w] = "idle"
      \/ pc'[w] = "record" /\ Kind(w)' = "confirm" /\ task'[w] = t /\ appr'[w] = a
  BY DispatchMoves DEF Kind
<1>7. t # 0 => tasks[t].runs = 0 /\ tasks[t].status = "pending"
  BY <1>2 DEF LinkInv, Linked, LinkedTask
<1>8. \A v \in Workers \ {w} : Recording(v) => appr[v] # a
  BY <1>2 DEF LinkInv, DecidingInv
<1> HIDE DEF a, t
<1>9. HoldingInv(w)'
  BY <1>6 DEF HoldingInv, Holding
<1>10. DecidingInv(w)'
  <2>1. CASE pc'[w] = "idle"
    BY <2>1 DEF DecidingInv, Executing, Recording, Cancelling
  <2>2. CASE pc'[w] = "record" /\ task'[w] = t /\ appr'[w] = a
    <3>1. approvals'[a].runs = 1 /\ (t # 0 => approvals'[a].task = t /\ tasks'[t].status = "pending")
      BY <1>2, <1>4, <1>5, <1>7 DEF CountsRun
    <3>2. ~Executing(w)' /\ ~Cancelling(w)'
      BY <2>2 DEF Executing, Cancelling
    <3> QED
      BY <2>2, <3>1, <3>2 DEF DecidingInv
  <2> QED
    BY <1>6, <2>1, <2>2
<1>11. HandApart(w)
  BY <1>6, <1>8 DEF HandApart, Holding, Recording
<1>12. ASSUME NEW v \in Workers \ {w} PROVE KeepsHand(v)
  <2>1. /\ HoldingInv(v) /\ DecidingInv(v)
        /\ task[v] # 0 => task[v] \in 1..Len(tasks)
        /\ Executing(v) \/ Recording(v) \/ Cancelling(v) \/ pc[v] = "attach"
             => appr[v] \in 1..Len(approvals)
    BY HandTypes DEF LinkInv
  <2>2. Holding(v) => task[v] # t
    BY <1>2, <2>1 DEF HoldingInv
  <2>3. \A b \in 1..Len(approvals) : approvals'[b].task = approvals[b].task
                                     /\ approvals'[b].status = approvals[b].status
    BY <1>2, <1>4
  <2>4. Holding(v) => /\ tasks'[task[v]] = tasks[task[v]]
                      /\ \A b \in 1..Len(approvals') : approvals'[b].task # task[v]
                      /\ pc[v] = "attach" => approvals'[appr[v]].task = 0
    BY <1>4, <1>5, <2>1, <2>2, <2>3 DEF HoldingInv, CountsRun
  <2>5. Recording(v) => /\ approvals'[appr[v]].runs = approvals[appr[v]].runs
                        /\ task[v] # 0 => tasks'[task[v]].status = tasks[task[v]].status
    BY <1>4, <1>5, <1>8, <2>1 DEF CountsRun
  <2> QED
    BY <2>1, <2>3, <2>4, <2>5 DEF KeepsHand
<1>13. Linked'
  <2>1. ASSUME NEW b \in 1..Len(approvals') PROVE LinkedTask(b)'
    <3>1. CASE b = a
      BY <1>4, <3>1 DEF LinkedTask
    <3>2. CASE b # a
      <4>1. LinkedTask(b) /\ approvals'[b] = approvals[b]
        BY <1>4, <3>2 DEF LinkInv, Linked
      <4>2. approvals[b].task # 0 => approvals[b].task \in 1..Len(tasks) /\ approvals[b].task # t
        BY <1>2, <1>4, <3>2, HandTypes DEF LinkInv, LinkedOnce
      <4> QED
        BY <1>5, <4>1, <4>2 DEF LinkedTask, CountsRun
    <3> QED
      BY <3>1, <3>2
  <2> QED
    BY <2>1 DEF Linked
<1>14. LinkedOnce'
  <2>1. \A b \in 1..Len(approvals) : approvals'[b].task = approvals[b].task
    BY <1>4
  <2> QED
    BY <1>4, <2>1 DEF LinkInv, LinkedOnce
<1>15. RunInv'
  <2>1. \A b \in 1..Len(approvals) : approvals'[b].task = approvals[b].task
                                     /\ approvals'[b].status = approvals[b].status
    BY <1>2, <1>4
  <2>2. ASSUME NEW u \in 1..Len(tasks) PROVE RunsRight(u)'
    <3>1. CASE u = t
      BY <1>2, <1>4, <1>5, <1>7, <3>1 DEF RunsRight, CountsRun
    <3>2. CASE u # t
      <4>1. RunsRight(u) /\ tasks'[u] = tasks[u]
        BY <1>5, <3>2 DEF RunInv, CountsRun
      <4> QED
        BY <1>4, <2>1, <4>1 DEF RunsRight
    <3> QED
      BY <3>1, <3>2
  <2> QED
    BY <1>5, <2>2 DEF RunInv, CountsRun
<1> QED
  BY <1>9, <1>10, <1>11, <1>12, <1>13, <1>14, <1>15, LinkKept

\* The status of task t is set, of no other.
Settles(t) ==
  /\ Len(tasks') = Len(tasks)
  /\ \A u \in 1..Len(tasks) :
       /\ tasks'[u].runs = tasks[u].runs /\ tasks'[u].gated = tasks[u].gated
       /\ u # t => tasks'[u] = tasks[u]

LEMMA SettleFacts ==
  ASSUME tasks \in Seq(Task), NEW t \in 0..Len(tasks), NEW s \in TaskStatus,
         tasks' = IF t = 0 THEN tasks ELSE [tasks EXCEPT ![t].status = s]
  PROVE  /\ Settles(t)
         /\ t # 0 => tasks'[t].status = s
<1>1. CASE t = 0
  BY <1>1 DEF Settles
<1>2. CASE t # 0
  <2>1. t \in 1..Len(tasks) /\ tasks' = [tasks EXCEPT ![t].status = s] /\ tasks[t] \in Task
    BY <1>2, ElementOfSeq
  <2>2. /\ SameTasks /\ tasks'[t] = [tasks[t] EXCEPT !.status = s]
        /\ \A u \in 1..Len(tasks) : u # t => tasks'[u] = tasks[u]
    BY <2>1, SettleTask
  <2>3. /\ tasks'[t].status = s /\ tasks'[t].gated = tasks[t].gated
        /\ tasks'[t].runs = tasks[t].runs
    BY <2>1, <2>2 DEF Task
  <2> QED
    BY <2>2, <2>3 DEF Settles, SameTasks
<1> QED
  BY <1>1, <1>2

\* Settling task t while nobody else has it in hand.
LEMMA SettleLink ==
  ASSUME TypeInv, LinkInv, RunInv, NEW w \in Workers, Others(w), EmptyHanded(w),
         approvals' = approvals, NEW t \in Nat, Settles(t),
         \A v \in Workers \ {w} : Holding(v) \/ Recording(v) => task[v] # t \/ t = 0,
         \A a \in 1..Len(approvals) : approvals[a].task = t /\ t # 0 => LinkedTask(a)'
  PROVE  LinkInv' /\ RunInv'
<1>1. HoldingInv(w)' /\ DecidingInv(w)' /\ HandApart(w)
  BY DEF EmptyHanded, HoldingInv, DecidingInv, HandApart, Holding
<1>2. ASSUME NEW v \in Workers \ {w} PROVE KeepsHand(v)
  <2>1. HoldingInv(v) /\ (task[v] # 0 => task[v] \in 1..Len(tasks))
    BY HandTypes DEF LinkInv
  <2>2. Holding(v) \/ Recording(v) => (task[v] # 0 => tasks'[task[v]] = tasks[task[v]])
    BY <2>1 DEF Settles
  <2> QED
    BY <2>1, <2>2 DEF HoldingInv, KeepsHand
<1>3. Linked' /\ LinkedOnce'
  <2>1. ASSUME NEW a \in 1..Len(approvals) PROVE LinkedTask(a)'
    <3>1. CASE approvals[a].task = 0
      BY <3>1 DEF LinkedTask
    <3>2. CASE approvals[a].task = t /\ t # 0
      BY <3>2
    <3>3. CASE approvals[a].task # t /\ approvals[a].task # 0
      <4>1. LinkedTask(a) /\ tasks'[approvals[a].task] = tasks[approvals[a].task]
        BY <3>3, HandTypes DEF LinkInv, Linked, Settles
      <4> QED
        BY <4>1 DEF LinkedTask
    <3> QED
      BY <3>1, <3>2, <3>3
  <2> QED
    BY <2>1 DEF LinkInv, Linked, LinkedOnce
<1>4. RunInv'
  BY DEF RunInv, RunsRight, Settles
<1> QED
  BY <1>1, <1>2, <1>3, <1>4, LinkKept

\* The result of a run settles its task.
LEMMA RecordLink ==
  ASSUME TypeInv, LinkInv, RunInv, NEW w \in Workers, Others(w), RecordResult(w)
  PROVE  LinkInv' /\ RunInv'
<1> DEFINE t == task[w]
           s == IF out[w] = "success" THEN "completed" ELSE "cancelled"
<1>1. /\ pc[w] = "record" /\ LocalTypes /\ SharedTypes /\ t \in 0..Len(tasks) /\ t \in Nat
      /\ HoldingInv(w) /\ DecidingInv(w) /\ approvals' = approvals
  BY LocalValues DEF RecordResult, At, LinkInv
<1>2. EmptyHanded(w)
  BY <1>1 DEF RecordResult, LocalTypes, Goto, locals, EmptyHanded, Holding, Executing, Recording,
              Cancelling
<1>3. s \in TaskStatus /\ tasks' = IF t = 0 THEN tasks ELSE [tasks EXCEPT ![t].status = s]
  BY DEF RecordResult, TaskStatus
<1> HIDE DEF s
<1>4. Settles(t)
  BY <1>1, <1>3, SettleFacts DEF SharedTypes
<1>5. CASE Kind(w) # "confirm"
  <2>1. Holding(w) /\ \A a \in 1..Len(approvals) : approvals[a].task # t
    BY <1>1, <1>5 DEF Holding, HoldingInv
  <2>2. ASSUME NEW v \in Workers \ {w}, Holding(v) \/ Recording(v), t # 0 PROVE task[v] # t
    <3>1. Holding(v) => task[v] # t
      BY <2>1 DEF LinkInv, ApartInv
    <3>2. Recording(v) => task[v] # t
      BY <2>1, <2>2, HandTypes DEF LinkInv, DecidingInv
    <3> QED
      BY <2>2, <3>1, <3>2
  <2> HIDE DEF t
  <2> QED
    BY <1>1, <1>2, <1>4, <2>1, <2>2, SettleLink
<1>6. CASE Kind(w) = "confirm"
  <2> DEFINE a == appr[w]
  <2>1. /\ Recording(w) /\ a \in 1..Len(approvals) /\ approvals[a].runs = 1
        /\ t # 0 => approvals[a].task = t
    BY <1>1, <1>6, HandTypes DEF Recording, DecidingInv
  <2>2. ASSUME NEW v \in Workers \ {w}, Holding(v) \/ Recording(v), t # 0 PROVE task[v] # t
    <3>1. Holding(v) => task[v] # t
      BY <2>1, <2>2 DEF LinkInv, HoldingInv
    <3>2. ASSUME Recording(v), task[v] = t PROVE FALSE
      <4>1. appr[v] \in 1..Len(approvals) /\ approvals[appr[v]].task = t
        BY <2>2, <3>2, HandTypes DEF LinkInv, DecidingInv
      <4>2. appr[v] # a
        BY <2>1, <3>2 DEF LinkInv, ApartInv
      <4> QED
        BY <2>1, <2>2, <4>1, <4>2 DEF LinkInv, LinkedOnce
    <3> QED
      BY <2>2, <3>1, <3>2
  <2>3. ASSUME NEW b \in 1..Len(approvals), approvals[b].task = t, t # 0 PROVE LinkedTask(b)'
    <3>1. approvals'[b].runs = 1
      BY <1>1, <2>1, <2>3 DEF LinkInv, LinkedOnce
    <3> QED
      BY <3>1 DEF LinkedTask
  <2> HIDE DEF t
  <2> QED
    BY <1>1, <1>2, <1>4, <2>2, <2>3, SettleLink
<1> QED
  BY <1>5, <1>6

\* The task of a rejected approval is cancelled, and nobody runs it.
LEMMA CancelLink ==
  ASSUME TypeInv, GateInv, LinkInv, RunInv, NEW w \in Workers, Others(w), CancelTask(w)
  PROVE  LinkInv' /\ RunInv'
<1> DEFINE t == task[w]
           a == appr[w]
<1>1. /\ pc[w] = "cancel_task" /\ Kind(w) = "reject" /\ LocalTypes /\ SharedTypes
      /\ t \in 0..Len(tasks) /\ t \in Nat
      /\ Cancelling(w) /\ DecidingInv(w) /\ approvals' = approvals
  BY LocalValues DEF CancelTask, At, TypeInv, Shape, ShapeAt, Kind, LinkInv, Cancelling
<1>2. EmptyHanded(w)
  BY <1>1 DEF CancelTask, LocalTypes, Goto, locals, EmptyHanded, Holding, Executing, Recording,
              Cancelling, Kind
<1>3. Settles(t) /\ (t # 0 => tasks'[t].status = "cancelled")
  <2>1. "cancelled" \in TaskStatus
        /\ tasks' = IF t = 0 THEN tasks ELSE [tasks EXCEPT ![t].status = "cancelled"]
    BY DEF CancelTask, TaskStatus
  <2> QED
    BY <1>1, <2>1, SettleFacts DEF SharedTypes
<1>4. /\ a \in 1..Len(approvals) /\ approvals[a].status = "rejected" /\ approvals[a].runs = 0
      /\ t # 0 => approvals[a].task = t
  BY <1>1, HandTypes DEF DecidingInv, GateInv
<1>5. ASSUME NEW v \in Workers \ {w}, Holding(v) \/ Recording(v), t # 0 PROVE task[v] # t
  <2>1. Holding(v) => task[v] # t
    BY <1>4, <1>5 DEF LinkInv, HoldingInv
  <2>2. ASSUME Recording(v), task[v] = t PROVE FALSE
    <3>1. /\ appr[v] \in 1..Len(approvals) /\ approvals[appr[v]].task = t
          /\ approvals[appr[v]].runs = 1
      BY <1>5, <2>2, HandTypes DEF LinkInv, DecidingInv
    <3> QED
      BY <1>4, <1>5, <3>1 DEF LinkInv, LinkedOnce
  <2> QED
    BY <1>5, <2>1, <2>2
<1> HIDE DEF t, a
<1>6. ASSUME NEW b \in 1..Len(approvals), approvals[b].task = t, t # 0 PROVE LinkedTask(b)'
  <2>1. b = a
    BY <1>4, <1>6 DEF LinkInv, LinkedOnce
  <2>2. tasks[t].runs = 0 /\ t \in 1..Len(tasks)
    BY <1>4, <1>6, <2>1, HandTypes DEF LinkInv, Linked, LinkedTask
  <2>3. tasks'[t].runs = 0 /\ tasks'[t].status = "cancelled"
    BY <1>3, <1>6, <2>2 DEF Settles
  <2> QED
    BY <1>1, <1>4, <1>6, <2>1, <2>3 DEF LinkedTask
<1> QED
  BY <1>1, <1>2, <1>3, <1>5, <1>6, SettleLink

\* A decision hands the task of the approval to the worker that decides.
LEMMA DecideLink ==
  ASSUME TypeInv, GateInv, LinkInv, RunInv, Checked = TRUE, NEW w \in Workers, Others(w),
         NEW s \in {"approved", "rejected"}, NEW l \in {"resume", "cancel_task"},
         Decide(w, s, l), l = "cancel_task" => s = "rejected"
  PROVE  LinkInv' /\ RunInv'
<1> DEFINE a == appr[w]
<1>1. /\ pc[w] = "decide" /\ SharedTypes /\ LocalTypes /\ a \in 1..Len(approvals)
      /\ s \in ApprovalStatus /\ approvals[a] \in Approval
  <2>1. /\ pc[w] = "decide" /\ SharedTypes /\ LocalTypes /\ a \in 1..Len(approvals)
    BY LocalValues DEF Decide, At, TypeInv, Shape, ShapeAt
  <2> QED
    BY <2>1, ElementOfSeq DEF SharedTypes, ApprovalStatus
<1>2. approvals[a].status = "required"
  BY <1>1 DEF Decide, Decidable, Pending
<1>3. SameApprovals(a) /\ approvals'[a] = [approvals[a] EXCEPT !.status = s]
  BY <1>1, DecideFacts DEF Decide
<1>4. /\ Len(approvals') = Len(approvals)
      /\ approvals'[a].status = s
      /\ \A b \in 1..Len(approvals) : /\ approvals'[b].task = approvals[b].task
                                      /\ approvals'[b].runs = approvals[b].runs
                                      /\ b # a => approvals'[b].status = approvals[b].status
  BY <1>1, <1>3 DEF SameApprovals, Approval
<1>5. /\ tasks' = tasks /\ pc'[w] = l /\ req'[w] = req[w] /\ appr'[w] = a
      /\ task'[w] = approvals[a].task
  BY <1>1 DEF Decide, Goto, LocalTypes
<1> HIDE DEF a
<1>6. HoldingInv(w)' /\ HandApart(w) /\ ~Recording(w)'
  BY <1>5 DEF HoldingInv, Holding, HandApart, Recording
<1>7. DecidingInv(w)'
  BY <1>1, <1>4, <1>5, <1>6 DEF DecidingInv, Cancelling
<1>8. ASSUME NEW v \in Workers \ {w} PROVE KeepsHand(v)
  <2>1. /\ HoldingInv(v) /\ DecidingInv(v)
        /\ Executing(v) \/ Recording(v) \/ Cancelling(v) \/ pc[v] = "attach"
             => appr[v] \in 1..Len(approvals)
    BY HandTypes DEF LinkInv
  <2>2. Cancelling(v) => appr[v] # a
    BY <1>2, <2>1 DEF DecidingInv
  <2>3. Cancelling(v) => approvals'[appr[v]].status = approvals[appr[v]].status
    BY <1>4, <2>1, <2>2
  <2> QED
    BY <1>4, <1>5, <2>1, <2>3 DEF HoldingInv, KeepsHand
<1>9. Linked'
  <2>1. ASSUME NEW b \in 1..Len(approvals') PROVE LinkedTask(b)'
    <3>1. LinkedTask(b) /\ b \in 1..Len(approvals)
      BY <1>4 DEF LinkInv, Linked
    <3>2. CASE b = a
      BY <1>2, <1>4, <1>5, <3>1, <3>2 DEF LinkedTask
    <3>3. CASE b # a
      BY <1>4, <1>5, <3>1, <3>3 DEF LinkedTask
    <3> QED
      BY <3>2, <3>3
  <2> QED
    BY <2>1 DEF Linked
<1>10. LinkedOnce'
  BY <1>4 DEF LinkInv, LinkedOnce
<1>11. RunInv'
  <2>1. \A b \in 1..Len(approvals) : approvals[b].status = "approved" => approvals'[b].status = "approved"
    BY <1>2, <1>4
  <2> QED
    BY <1>4, <1>5, <2>1 DEF RunInv, RunsRight
<1> QED
  BY <1>6, <1>7, <1>8, <1>9, <1>10, <1>11, LinkKept

LEMMA NextLink ==
  ASSUME Checked = TRUE, TypeInv, GateInv, LinkInv, RunInv, [Next]_vars
  PROVE  LinkInv' /\ RunInv'
<1>1. CASE UNCHANGED vars
  <2>1. \A w \in Workers : /\ HoldingInv(w)' <=> HoldingInv(w)
                           /\ DecidingInv(w)' <=> DecidingInv(w)
    BY <1>1 DEF vars, HoldingInv, DecidingInv, Holding, Recording, Cancelling, Executing, Kind,
                NeedsApproval, ActionOf
  <2>2. \A v, w \in Workers : ApartInv(v, w)' <=> ApartInv(v, w)
    BY <1>1 DEF vars, ApartInv, Holding, Recording, Kind
  <2>3. Linked' /\ LinkedOnce' /\ RunInv'
    BY <1>1 DEF vars, LinkInv, Linked, LinkedTask, LinkedOnce, RunInv, RunsRight
  <2> QED
    BY <2>1, <2>2, <2>3 DEF LinkInv
<1>2. ASSUME NEW w \in Workers, NEW r \in Requests, Receive(w, r) PROVE LinkInv' /\ RunInv'
  BY <1>2, ReceiveLink
<1>3. ASSUME NEW w \in Workers, Step(w) PROVE LinkInv' /\ RunInv'
  <2>1. Others(w)
    BY <1>3, StepOthers
  <2>2. CASE PlanStep(w) \/ CreateTask(w)
    BY <2>1, <2>2, CreateTaskLink
  <2>3. CASE GateCloses(w) \/ GateOpens(w)
    BY <2>1, <2>3, GateLink
  <2>4. CASE CreateApproval(w)
    BY <2>1, <2>4, CreateApprovalLink
  <2>5. CASE AttachDetails(w)
    BY <2>1, <2>5, AttachLink
  <2>6. ASSUME NEW o \in Outcomes, Dispatch(w, o) PROVE LinkInv' /\ RunInv'
    BY <2>1, <2>6, DispatchDirectLink, DispatchApprovedLink
  <2>7. CASE RecordResult(w)
    BY <2>1, <2>7, RecordLink
  <2>8. CASE CancelTask(w)
    BY <2>1, <2>8, CancelLink
  <2>9. CASE Approve(w)
    BY <2>1, <2>9, DecideLink DEF Approve
  <2>10. CASE Reject(w)
    BY <2>1, <2>10, DecideLink DEF Reject
  <2> QED
    BY <1>3, <2>1, <2>2, <2>3, <2>4, <2>5, <2>6, <2>7, <2>8, <2>9, <2>10, QuietStepsLink DEF Step
<1> QED
  BY <1>1, <1>2, <1>3 DEF Next

(***************************************************************************)
(* The properties                                                          *)
(***************************************************************************)
\* Everything that is known of a state that requests can reach.
EngineInv == TypeInv /\ GateInv /\ LinkInv /\ RunInv

LEMMA EngineInvariant == Checked = TRUE => (Spec => []EngineInv)
<1>1. Init => EngineInv
  BY InitTypeInv, InitGateInv, InitLinkInv DEF EngineInv
<1>2. Checked = TRUE /\ EngineInv /\ [Next]_vars => EngineInv'
  BY NextTypes, NextGate, NextLink DEF EngineInv
<1>3. SUFFICES ASSUME Checked = TRUE PROVE Spec => []EngineInv
  OBVIOUS
<1>4. EngineInv /\ [Next]_vars => EngineInv'
  BY <1>2, <1>3
<1> QED
  BY <1>1, <1>4, PTL DEF Spec

LEMMA ManagerDomains ==
  TypeInv => /\ DOMAIN tasks = 1..Len(tasks) /\ DOMAIN approvals = 1..Len(approvals)
             /\ \A a \in 1..Len(approvals) : approvals[a] \in Approval
                                             /\ approvals[a].task \in 0..Len(tasks)
             /\ \A t \in 1..Len(tasks) : tasks[t] \in Task
BY TypesSplit, Lengths, ElementOfSeq DEF TypeInv, SharedTypes

\* Whatever a task is run for, a plan step or a request, in whichever session,
\* and however approvals are answered: a task for which the permission check
\* asked is published to the tools only once its own approval was approved.
THEOREM GatedTasksApproved == Checked = TRUE => (Spec => []ApprovedBeforeRun)
<1>1. EngineInv => ApprovedBeforeRun
  <2> SUFFICES ASSUME EngineInv, NEW t \in 1..Len(tasks), tasks[t].gated, tasks[t].runs > 0
               PROVE  \E a \in DOMAIN approvals :
                        approvals[a].task = t /\ approvals[a].status = "approved"
    BY ManagerDomains DEF EngineInv, ApprovedBeforeRun
  <2>1. tasks[t].gated = TRUE
    BY ManagerDomains DEF EngineInv, Task
  <2>2. RunsRight(t)
    BY DEF EngineInv, RunInv
  <2>3. tasks[t].runs = 1
    BY <2>2 DEF RunsRight
  <2> QED
    BY <2>1, <2>2, <2>3, ManagerDomains DEF RunsRight, EngineInv
<1> QED
  BY <1>1, EngineInvariant, PTL

\* Approvals and tasks are run once, whoever answers and how often.
THEOREM NothingRunsTwice == Checked = TRUE => (Spec => []RunsAtMostOnce)
<1>1. EngineInv => RunsAtMostOnce
  BY ManagerDomains DEF EngineInv, GateInv, RunInv, RunsRight, RunsAtMostOnce
<1> QED
  BY <1>1, EngineInvariant, PTL

\* The task of a rejected approval does not run either, not even one that is
\* attached to it after the rejection.
THEOREM RejectedStaysUnrun == Checked = TRUE => (Spec => []RejectedNeverRuns)
<1>1. EngineInv => RejectedNeverRuns
  <2> SUFFICES ASSUME EngineInv, NEW a \in 1..Len(approvals), approvals[a].status = "rejected"
               PROVE  /\ approvals[a].runs = 0
                      /\ approvals[a].task # 0 => tasks[approvals[a].task].runs = 0
    BY ManagerDomains DEF RejectedNeverRuns, EngineInv
  <2>1. approvals[a].runs = 0
    BY DEF EngineInv, GateInv
  <2> QED
    BY <2>1 DEF EngineInv, LinkInv, Linked, LinkedTask
<1> QED
  BY <1>1, EngineInvariant, PTL

\* What can still be approved can still be run for the first time.
THEOREM OpenApprovalsOpen == Checked = TRUE => (Spec => []OpenApprovalHasOpenTask)
<1>1. EngineInv => OpenApprovalHasOpenTask
  <2> SUFFICES ASSUME EngineInv, NEW a \in Pending, approvals[a].task # 0
               PROVE  /\ tasks[approvals[a].task].status = "pending"
                      /\ tasks[approvals[a].task].runs = 0
    BY DEF OpenApprovalHasOpenTask
  <2>1. a \in 1..Len(approvals) /\ approvals[a].status = "required"
    BY ManagerDomains DEF EngineInv, Pending
  <2>2. approvals[a].runs = 0
    BY <2>1 DEF EngineInv, GateInv
  <2> QED
    BY <2>1, <2>2 DEF EngineInv, LinkInv, Linked, LinkedTask
<1> QED
  BY <1>1, EngineInvariant, PTL

\* What one step does to a task that is settled.
KeepsSettled ==
  \A t \in 1..Len(tasks) : tasks[t].status # "pending" => tasks'[t].status = tasks[t].status

LEMMA NextSettled ==
  ASSUME EngineInv, [Next]_vars
  PROVE  KeepsSettled
<1>1. CASE UNCHANGED tasks
  BY <1>1 DEF KeepsSettled
<1>2. ASSUME NEW w \in Workers, PlanStep(w) \/ CreateTask(w) PROVE KeepsSettled
  <2>1. /\ pc[w] \in {"create_task", "plan_step"} /\ Kind(w) \in {"action", "goal"}
        /\ CreateTaskFor(w)
    BY <1>2 DEF PlanStep, CreateTask, At, EngineInv, TypeInv, Shape, ShapeAt, Kind
  <2> QED
    BY <2>1, CreateTaskForFacts DEF KeepsSettled, EngineInv
<1>3. ASSUME NEW w \in Workers, NEW o \in Outcomes, Dispatch(w, o) PROVE KeepsSettled
  BY <1>3, DispatchCounts DEF CountsRun, KeepsSettled, EngineInv
<1>4. ASSUME NEW w \in Workers, RecordResult(w) PROVE KeepsSettled
  <2> DEFINE t == task[w]
             s == IF out[w] = "success" THEN "completed" ELSE "cancelled"
  <2>1. /\ pc[w] = "record" /\ tasks \in Seq(Task) /\ t \in 0..Len(tasks)
        /\ Holding(w) \/ Recording(w)
        /\ s \in TaskStatus /\ tasks' = IF t = 0 THEN tasks ELSE [tasks EXCEPT ![t].status = s]
    BY <1>4, LocalValues DEF RecordResult, At, Holding, Recording, EngineInv, SharedTypes, TaskStatus
  <2>2. t # 0 => tasks[t].status = "pending"
    BY <2>1 DEF EngineInv, LinkInv, HoldingInv, DecidingInv
  <2> HIDE DEF s
  <2>3. Settles(t)
    BY <2>1, SettleFacts
  <2> QED
    BY <2>2, <2>3 DEF Settles, KeepsSettled
<1>5. ASSUME NEW w \in Workers, CancelTask(w) PROVE KeepsSettled
  <2> DEFINE t == task[w]
             a == appr[w]
  <2>1. /\ tasks \in Seq(Task) /\ t \in 0..Len(tasks) /\ Cancelling(w)
        /\ tasks' = IF t = 0 THEN tasks ELSE [tasks EXCEPT ![t].status = "cancelled"]
        /\ "cancelled" \in TaskStatus
    BY <1>5, LocalValues DEF CancelTask, At, Cancelling, EngineInv, SharedTypes, TaskStatus
  <2>2. Settles(t) /\ (t # 0 => tasks'[t].status = "cancelled")
    BY <2>1, SettleFacts
  <2>3. /\ a \in 1..Len(approvals) /\ approvals[a].status = "rejected"
        /\ t # 0 => approvals[a].task = t
    BY <2>1, HandTypes DEF EngineInv, LinkInv, DecidingInv
  <2>4. approvals[a].runs = 0
    BY <2>3 DEF EngineInv, GateInv
  <2>5. t # 0 => tasks[t].status \in {"pending", "cancelled"}
    <3>1. t # 0 => tasks[t] \in Task /\ tasks[t].status # "completed"
      BY <2>1, <2>3, <2>4, ElementOfSeq DEF EngineInv, LinkInv, Linked, LinkedTask
    <3> QED
      BY <3>1 DEF Task, TaskStatus
  <2> QED
    BY <2>2, <2>5 DEF Settles, KeepsSettled
<1>6. ASSUME NEW w \in Workers, NEW r \in Requests, Receive(w, r) PROVE UNCHANGED tasks
  BY <1>6 DEF Receive, managers
<1>7. ASSUME NEW w \in Workers, Step(w)
      PROVE  \/ UNCHANGED tasks
             \/ PlanStep(w) \/ CreateTask(w) \/ RecordResult(w) \/ CancelTask(w)
             \/ \E o \in Outcomes : Dispatch(w, o)
  BY <1>7 DEF Step, CheckTransition, TransitionTo, InvalidTransition, StartNewFlow, Understand,
              Reply, ContextCommand, SavePlan, RunPlan, GateCloses, GateOpens, CreateApproval, AttachDetails,
              CompletePlanStep, PlanDone, CompleteApprovedStep, FailStep, ReadPending,
              DecisionRefused, Approve, Reject, Decide, Resume, managers
<1>8. CASE UNCHANGED vars
  BY <1>1, <1>8 DEF vars
<1> QED
  BY <1>1, <1>2, <1>3, <1>4, <1>5, <1>6, <1>7, <1>8 DEF Next

\* A result that arrives late or a rejection that is carried out late changes
\* nothing about a task that has completed or was cancelled before.
THEOREM SettledForGood == Checked = TRUE => (Spec => SettledTasksStay)
<1>1. EngineInv /\ [Next]_vars =>
        [\A t \in DOMAIN tasks :
           tasks[t].status # "pending" => tasks'[t].status = tasks[t].status]_vars
  <2> SUFFICES ASSUME EngineInv, [Next]_vars
               PROVE  \A t \in DOMAIN tasks :
                        tasks[t].status # "pending" => tasks'[t].status = tasks[t].status
    OBVIOUS
  <2>1. DOMAIN tasks = 1..Len(tasks)
    BY ManagerDomains DEF EngineInv
  <2> QED
    BY <2>1, NextSettled DEF KeepsSettled
<1> QED
  BY <1>1, EngineInvariant, PTL DEF Spec, SettledTasksStay

(***************************************************************************)
(* An engine at rest                                                       *)
(***************************************************************************)
\* Every plan of planner.py that is carried out has a step, and none but the first
\* needs approval (what comes later lists, sums up, drafts or turns off a light): a
\* later one would ask in EXECUTING, from which WAITING_APPROVAL is not reached.
PlansAsPlanned ==
  \A p \in Plans :
    Steps[p] # <<>> /\ \A i \in 2..Len(Steps[p]) : Steps[p][i] \notin Gated

\* The states that EngineAtRest allows.
Rest == {"IDLE", "COMPLETED", "WAITING_APPROVAL"}

\* Each state of q may follow the one before it.
Chain(q) == \A i \in 1..Len(q) : i + 1 \in 1..Len(q) => <<q[i], q[i + 1]>> \in AllowedTransitions

\* q leads from first to last, without asking for an approval or giving up.
Walk(q, first, last) ==
  /\ q \in Seq(BrainStates) /\ q # <<>> /\ Chain(q)
  /\ Head(q) = first /\ q[Len(q)] = last
  /\ \A i \in 1..Len(q) : q[i] \notin {"WAITING_APPROVAL", "FAILED"}

\* The request r that makes call l next, for step s of its plan, brings the engine
\* to rest from these states.
MidwayAt(l, r, s) ==
  CASE l = "create_task" -> {"DECIDING"}
    [] l = "run_plan" -> {"UNDERSTANDING"}
    [] l \in {"plan_step", "gate"} ->
         IF r.kind = "goal" /\ Steps[r.plan][s] \notin Gated
         THEN {"RISK_CHECKING", "EXECUTING"} ELSE {"RISK_CHECKING"}
    [] l \in {"ask", "attach"} -> {"RISK_CHECKING"}
    [] l \in {"dispatch", "record", "complete_step", "fail_step"} -> {"EXECUTING"}
    [] OTHER -> Rest

Midway(w) == MidwayAt(pc[w], req[w], step[w])

\* The transitions that w has before it follow each other, to such a state.
PathRight(w) ==
  /\ Chain(todo[w])
  /\ todo[w] # <<>> => todo[w][Len(todo[w])] \in Midway(w)
  /\ pc[w] = "idle" => todo[w] = <<>>

\* w goes on from the state its engine is in, or from whatever state that is: its
\* next transition has been let pass.
Carries(w) ==
  IF todo[w] = <<>> THEN Engine(w) \in Midway(w)
  ELSE passed[w] \/ <<Engine(w), Head(todo[w])>> \in AllowedTransitions

\* Where requests share an engine, the one that made its last transition goes on,
\* though the others raise.
RestInv ==
  /\ \A w \in Workers : PathRight(w)
  /\ \A e \in Engines : sm[e] \in Rest \/ \E w \in Workers : EngineOf[w] = e /\ Carries(w)

LEMMA MidwayFacts ==
  ASSUME NEW l, NEW r, NEW s
  PROVE  /\ l = "create_task" => MidwayAt(l, r, s) = {"DECIDING"}
         /\ l = "run_plan" => MidwayAt(l, r, s) = {"UNDERSTANDING"}
         /\ l \in {"plan_step", "gate"} =>
              MidwayAt(l, r, s) =
                IF r.kind = "goal" /\ Steps[r.plan][s] \notin Gated
                THEN {"RISK_CHECKING", "EXECUTING"} ELSE {"RISK_CHECKING"}
         /\ l \in {"ask", "attach"} => MidwayAt(l, r, s) = {"RISK_CHECKING"}
         /\ l \in {"dispatch", "record", "complete_step", "fail_step"} =>
              MidwayAt(l, r, s) = {"EXECUTING"}
         /\ l \in {"idle", "context", "save_plan", "start", "understand", "reply", "plan_done",
                   "read_pending", "decide", "cancel_task", "resume"} =>
              MidwayAt(l, r, s) = Rest
BY DEF MidwayAt

\* The transitions that the flows are made of.
LEMMA AllowedFacts ==
  /\ \A p \in {<<"IDLE", "RECEIVED_REQUEST">>, <<"RECEIVED_REQUEST", "UNDERSTANDING">>,
               <<"UNDERSTANDING", "DECIDING">>, <<"DECIDING", "RISK_CHECKING">>,
               <<"RISK_CHECKING", "WAITING_APPROVAL">>, <<"RISK_CHECKING", "EXECUTING">>,
               <<"WAITING_APPROVAL", "EXECUTING">>, <<"EXECUTING", "RESPONDING">>,
               <<"RESPONDING", "UPDATING_MEMORY">>, <<"UPDATING_MEMORY", "COMPLETED">>,
               <<"COMPLETED", "IDLE">>} : p \in AllowedTransitions
BY DEF AllowedTransitions

LEMMA EmptyChain == Chain(<<>>)
BY DEF Chain

\* A walk goes on in another one.
LEMMA WalkJoin ==
  ASSUME NEW q, NEW r, NEW a, NEW b, NEW c, NEW d,
         Walk(q, a, b), Walk(r, c, d), <<b, c>> \in AllowedTransitions
  PROVE  Walk(q \o r, a, d)
<1> DEFINE j == q \o r
<1>1. q \in Seq(BrainStates) /\ r \in Seq(BrainStates) /\ q # <<>> /\ r # <<>>
  BY DEF Walk
<1>2. /\ Len(q) \in Nat \ {0} /\ Len(r) \in Nat \ {0}
      /\ Head(q) = q[1] /\ Head(r) = r[1]
  BY <1>1
<1>3. /\ j \in Seq(BrainStates) /\ Len(j) = Len(q) + Len(r)
      /\ \A i \in 1..Len(q) : j[i] = q[i]
      /\ \A i \in 1..Len(r) : j[Len(q) + i] = r[i]
  BY <1>1
<1>4. \A i \in 1..Len(j) : i <= Len(q) \/ (i - Len(q) \in 1..Len(r) /\ j[i] = r[i - Len(q)])
  <2> SUFFICES ASSUME NEW i \in 1..Len(j), i > Len(q)
               PROVE  i - Len(q) \in 1..Len(r) /\ j[i] = r[i - Len(q)]
    BY <1>2
  <2>1. i - Len(q) \in 1..Len(r) /\ i = Len(q) + (i - Len(q))
    BY <1>2, <1>3
  <2> QED
    BY <1>3, <2>1
<1> HIDE DEF j
<1>5. j # <<>> /\ Head(j) = j[1]
  <2>1. j \in Seq(BrainStates) /\ Len(j) # 0
    BY <1>2, <1>3
  <2> QED
    BY <2>1
<1>6. Head(j) = a /\ j[Len(j)] = d
  <2>1. Head(j) = q[1] /\ q[1] = a
    <3>1. 1 \in 1..Len(q)
      BY <1>2
    <3>2. j[1] = q[1]
      BY <1>3, <3>1
    <3>3. Head(q) = a
      BY DEF Walk
    <3> QED
      BY <1>2, <1>5, <3>2, <3>3
  <2>2. Len(r) \in 1..Len(r)
    BY <1>2
  <2>3. j[Len(j)] = r[Len(r)]
    BY <1>3, <2>2
  <2>4. r[Len(r)] = d
    BY DEF Walk
  <2> QED
    BY <2>1, <2>3, <2>4
<1>7. \A i \in 1..Len(j) : j[i] \notin {"WAITING_APPROVAL", "FAILED"}
  <2> SUFFICES ASSUME NEW i \in 1..Len(j)
               PROVE  j[i] \notin {"WAITING_APPROVAL", "FAILED"}
    OBVIOUS
  <2>1. CASE i <= Len(q)
    <3>1. i \in 1..Len(q) /\ j[i] = q[i]
      BY <1>2, <1>3, <2>1
    <3> QED
      BY <3>1 DEF Walk
  <2>2. CASE i > Len(q)
    <3>1. i - Len(q) \in 1..Len(r) /\ j[i] = r[i - Len(q)]
      BY <1>2, <1>3, <1>4, <2>2
    <3> QED
      BY <3>1 DEF Walk
  <2> QED
    BY <1>2, <1>3, <2>1, <2>2
<1>8. Chain(j)
  <2> SUFFICES ASSUME NEW i \in 1..Len(j), i + 1 \in 1..Len(j)
               PROVE  <<j[i], j[i + 1]>> \in AllowedTransitions
    BY DEF Chain
  <2>1. CASE i + 1 <= Len(q)
    <3>1. i \in 1..Len(q) /\ i + 1 \in 1..Len(q)
      BY <1>2, <2>1
    <3> QED
      BY <1>3, <3>1 DEF Walk, Chain
  <2>2. CASE i = Len(q)
    <3>1. j[i] = b
      BY <1>2, <1>3, <2>2 DEF Walk
    <3>2. j[i + 1] = c
      BY <1>2, <1>3, <2>2 DEF Walk
    <3> QED
      BY <3>1, <3>2
  <2>3. CASE i > Len(q)
    <3> DEFINE k == i - Len(q)
    <3>1. /\ k \in 1..Len(r) /\ j[i] = r[k]
          /\ k + 1 = (i + 1) - Len(q) /\ i + 1 > Len(q)
      BY <1>2, <1>4, <2>3
    <3> HIDE DEF k
    <3>2. i + 1 - Len(q) \in 1..Len(r) /\ j[i + 1] = r[i + 1 - Len(q)]
      BY <1>2, <1>4, <3>1
    <3>3. k + 1 \in 1..Len(r) /\ j[i + 1] = r[k + 1]
      BY <3>1, <3>2
    <3>4. Chain(r)
      BY DEF Walk
    <3> QED
      BY <3>1, <3>3, <3>4 DEF Chain
  <2> QED
    BY <1>2, <2>1, <2>2, <2>3
<1> QED
  BY <1>3, <1>5, <1>6, <1>7, <1>8 DEF Walk, j

\* The walks of the flows.
LEMMA Walks ==
  /\ Walk(FinishFlow, "RESPONDING", "COMPLETED")
  /\ Walk(<<"RECEIVED_REQUEST", "UNDERSTANDING">>, "RECEIVED_REQUEST", "UNDERSTANDING")
  /\ Walk(<<"DECIDING", "RISK_CHECKING">>, "DECIDING", "RISK_CHECKING")
  /\ Walk(<<"DECIDING", "RISK_CHECKING", "EXECUTING">>, "DECIDING", "EXECUTING")
  /\ \A s \in {"IDLE", "DECIDING", "RISK_CHECKING", "EXECUTING"} : Walk(<<s>>, s, s)
  /\ Walk(SimpleFlow, "DECIDING", "COMPLETED")
  /\ Walk(<<"EXECUTING">> \o FinishFlow, "EXECUTING", "COMPLETED")
<1>1. Walk(FinishFlow, "RESPONDING", "COMPLETED")
  BY AllowedFacts DEF Walk, Chain, FinishFlow, BrainStates
<1>2. Walk(<<"RECEIVED_REQUEST", "UNDERSTANDING">>, "RECEIVED_REQUEST", "UNDERSTANDING")
  BY AllowedFacts DEF Walk, Chain, BrainStates
<1>3. Walk(<<"DECIDING", "RISK_CHECKING">>, "DECIDING", "RISK_CHECKING")
  BY AllowedFacts DEF Walk, Chain, BrainStates
<1>4. Walk(<<"DECIDING", "RISK_CHECKING", "EXECUTING">>, "DECIDING", "EXECUTING")
  BY AllowedFacts DEF Walk, Chain, BrainStates
<1>5. \A s \in {"IDLE", "DECIDING", "RISK_CHECKING", "EXECUTING"} : Walk(<<s>>, s, s)
  BY DEF Walk, Chain, BrainStates
<1>6. <<"EXECUTING", "RESPONDING">> \in AllowedTransitions
  BY AllowedFacts
<1>7. Walk(SimpleFlow, "DECIDING", "COMPLETED")
  BY <1>1, <1>4, <1>6, WalkJoin DEF SimpleFlow
<1>8. Walk(<<"EXECUTING">> \o FinishFlow, "EXECUTING", "COMPLETED")
  BY <1>1, <1>5, <1>6, WalkJoin
<1> QED
  BY <1>1, <1>2, <1>3, <1>4, <1>5, <1>7, <1>8

\* What is left of a chain after its first state.
LEMMA ChainTail ==
  ASSUME NEW q \in Seq(BrainStates), q # <<>>, Chain(q)
  PROVE  /\ Tail(q) \in Seq(BrainStates) /\ Chain(Tail(q))
         /\ Tail(q) = <<>> => Head(q) = q[Len(q)]
         /\ Tail(q) # <<>> => /\ Tail(q)[Len(Tail(q))] = q[Len(q)]
                              /\ <<Head(q), Head(Tail(q))>> \in AllowedTransitions
<1> DEFINE t == Tail(q)
<1>1. /\ Len(q) \in Nat \ {0} /\ t \in Seq(BrainStates) /\ Len(t) = Len(q) - 1
      /\ Head(q) = q[1] /\ \A i \in 1..Len(t) : t[i] = q[i + 1]
  OBVIOUS
<1>2. t # <<>> => Len(t) # 0 /\ Head(t) = t[1]
  BY <1>1
<1> HIDE DEF t
<1>3. t = <<>> => Len(t) = 0
  OBVIOUS
<1>4. Chain(t)
  <2> SUFFICES ASSUME NEW i \in 1..Len(t), i + 1 \in 1..Len(t)
               PROVE  <<t[i], t[i + 1]>> \in AllowedTransitions
    BY DEF Chain
  <2>1. i + 1 \in 1..Len(q) /\ (i + 1) + 1 \in 1..Len(q)
    BY <1>1
  <2> QED
    BY <1>1, <2>1 DEF Chain
<1>5. t = <<>> => Head(q) = q[Len(q)]
  <2>1. t = <<>> => Len(q) = 1
    BY <1>1, <1>3
  <2> QED
    BY <1>1, <2>1
<1>6. t # <<>> => t[Len(t)] = q[Len(q)]
  BY <1>1, <1>2
<1>7. t # <<>> => <<q[1], q[1 + 1]>> \in AllowedTransitions /\ Head(t) = q[1 + 1]
  <2> SUFFICES ASSUME t # <<>> PROVE <<q[1], q[1 + 1]>> \in AllowedTransitions /\ Head(t) = q[1 + 1]
    OBVIOUS
  <2>1. 1 \in 1..Len(q) /\ 1 + 1 \in 1..Len(q) /\ 1 \in 1..Len(t)
    BY <1>1, <1>2
  <2> QED
    BY <1>1, <1>2, <2>1 DEF Chain
<1> QED
  BY <1>1, <1>4, <1>5, <1>6, <1>7 DEF t

(***************************************************************************)
(* The engine's steps                                                      *)
(***************************************************************************)
\* A step of w that goes on with a walk, or without one, and leaves the engine
\* alone; if w carried it before, it does so afterwards.
LEMMA GoesAlong ==
  ASSUME TypeInv, RestInv, NEW w \in Workers, Others(w), UNCHANGED sm,
         NEW path \in Seq(BrainStates), NEW l, Goto(w, path, l),
         Chain(path), l = "idle" => path = <<>>,
         path # <<>> => path[Len(path)] \in MidwayAt(l, req'[w], step'[w]),
         Carries(w) => \/ Engine(w) \in Rest
                       \/ path = <<>> /\ Engine(w) \in MidwayAt(l, req'[w], step'[w])
                       \/ path # <<>> /\ <<Engine(w), Head(path)>> \in AllowedTransitions
  PROVE  RestInv'
<1>1. ASSUME NEW v \in Workers, v # w
      PROVE  PathRight(v)' /\ (Carries(v) => Carries(v)')
  <2>1. /\ todo'[v] = todo[v] /\ pc'[v] = pc[v] /\ req'[v] = req[v] /\ step'[v] = step[v]
        /\ passed'[v] = passed[v]
    BY <1>1, LocalValues DEF Goto, Others, LocalTypes
  <2>2. PathRight(v)
    BY DEF RestInv
  <2>3. PathRight(v)'
    BY <2>1, <2>2 DEF PathRight, Midway
  <2>4. Carries(v) => Carries(v)'
    BY <2>1 DEF Carries, Midway, Engine
  <2> QED
    BY <2>3, <2>4
<1>2. todo'[w] = path /\ pc'[w] = l
  BY LocalValues DEF Goto, LocalTypes
<1>3. PathRight(w)'
  BY <1>2 DEF PathRight, Midway
<1>4. Carries(w) => Engine(w) \in Rest \/ Carries(w)'
  BY <1>2 DEF Carries, Midway, Engine
<1>5. ASSUME NEW e \in Engines
      PROVE  sm'[e] \in Rest \/ \E v \in Workers : EngineOf[v] = e /\ Carries(v)'
  <2>1. CASE sm[e] \in Rest
    BY <2>1
  <2>2. ASSUME NEW v \in Workers, EngineOf[v] = e, Carries(v)
        PROVE  sm'[e] \in Rest \/ Carries(v)'
    BY <1>1, <1>4, <2>2 DEF Engine
  <2> QED
    BY <2>1, <2>2 DEF RestInv
<1> QED
  BY <1>1, <1>3, <1>5 DEF RestInv

\* w is between two flows.
Between == {"idle", "context", "save_plan", "start", "understand", "reply", "plan_done",
            "read_pending", "decide", "cancel_task", "resume"}

\* Such a step of a request that has not moved its engine, or is done with it.
LEMMA GoesFromRest ==
  ASSUME TypeInv, RestInv, NEW w \in Workers, Others(w), UNCHANGED sm,
         todo[w] = <<>>, pc[w] \in Between,
         NEW path \in Seq(BrainStates), NEW l, Goto(w, path, l),
         Chain(path), l = "idle" => path = <<>>,
         path # <<>> => path[Len(path)] \in MidwayAt(l, req'[w], step'[w])
  PROVE  RestInv'
<1>1. Carries(w) => Engine(w) \in Rest
  BY MidwayFacts DEF Carries, Midway, Between
<1> QED
  BY <1>1, GoesAlong

\* The same without transitions.
LEMMA StaysAtRest ==
  ASSUME TypeInv, RestInv, NEW w \in Workers, Others(w), UNCHANGED sm,
         todo[w] = <<>>, pc[w] \in Between, NEW l, Goto(w, <<>>, l)
  PROVE  RestInv'
<1>1. <<>> \in Seq(BrainStates) /\ Chain(<<>>)
  BY EmptySeq, EmptyChain
<1> HIDE DEF Between
<1> QED
  BY <1>1, GoesFromRest

\* A transition along w's path: w carries its engine on.
LEMMA TransitionCarries ==
  ASSUME TypeInv, RestInv, NEW w \in Workers, TransitionTo(w)
  PROVE  PathRight(w)' /\ Carries(w)'
<1> DEFINE q == todo[w]
           e == EngineOf[w]
<1>1. /\ q \in Seq(BrainStates) /\ q # <<>> /\ Chain(q)
      /\ q[Len(q)] \in Midway(w) /\ pc[w] # "idle"
      /\ e \in Engines
  BY LocalValues, ConstantsOK DEF TransitionTo, RestInv, PathRight
<1>2. /\ sm' = [sm EXCEPT ![e] = Head(q)] /\ todo' = [todo EXCEPT ![w] = Tail(q)]
      /\ UNCHANGED <<pc, req, step>>
      /\ sm \in [Engines -> BrainStates] /\ todo \in [Workers -> Seq(BrainStates)]
  BY LocalValues DEF TransitionTo, locals, LocalTypes, SharedTypes
<1>3. sm'[e] = Head(q) /\ todo'[w] = Tail(q) /\ Midway(w)' = Midway(w)
  BY <1>1, <1>2 DEF Midway
<1>4. /\ Tail(q) \in Seq(BrainStates) /\ Chain(Tail(q))
      /\ Tail(q) = <<>> => Head(q) = q[Len(q)]
      /\ Tail(q) # <<>> => /\ Tail(q)[Len(Tail(q))] = q[Len(q)]
                           /\ <<Head(q), Head(Tail(q))>> \in AllowedTransitions
  BY <1>1, ChainTail
<1> HIDE DEF q
<1>5. PathRight(w)'
  BY <1>1, <1>2, <1>3, <1>4 DEF PathRight
<1>6. Carries(w)'
  <2>1. Engine(w)' = Head(q)
    BY <1>3 DEF Engine
  <2> QED
    BY <1>1, <1>3, <1>4, <2>1 DEF Carries
<1> QED
  BY <1>5, <1>6

LEMMA CheckTransitionRest ==
  ASSUME TypeInv, RestInv, NEW w \in Workers, CheckTransition(w)
  PROVE  RestInv'
<1>1. /\ UNCHANGED <<sm, todo, pc, req, step>> /\ todo[w] # <<>>
      /\ passed' = [passed EXCEPT ![w] = TRUE] /\ passed \in [Workers -> BOOLEAN]
  BY LocalValues DEF CheckTransition, locals, LocalTypes
<1>2. ASSUME NEW v \in Workers PROVE PathRight(v)' /\ (Carries(v) => Carries(v)')
  <2>1. PathRight(v)'
    BY <1>1 DEF RestInv, PathRight, Midway
  <2>2. passed[v] => passed'[v]
    BY <1>1
  <2>3. Midway(v)' = Midway(v) /\ Engine(v)' = Engine(v)
    BY <1>1 DEF Midway, Engine
  <2> QED
    BY <1>1, <2>1, <2>2, <2>3 DEF Carries
<1> QED
  BY <1>1, <1>2 DEF RestInv

LEMMA TransitionToRest ==
  ASSUME TypeInv, RestInv, NEW w \in Workers, TransitionTo(w)
  PROVE  RestInv'
<1> DEFINE e == EngineOf[w]
<1>1. e \in Engines /\ PathRight(w)' /\ Carries(w)'
  BY ConstantsOK, TransitionCarries
<1>2. /\ sm' = [sm EXCEPT ![e] = Head(todo[w])] /\ todo' = [todo EXCEPT ![w] = Tail(todo[w])]
      /\ UNCHANGED <<pc, req, step>>
      /\ \A v \in Workers \ {w} : passed'[v] = passed[v]
      /\ sm \in [Engines -> BrainStates] /\ todo \in [Workers -> Seq(BrainStates)]
  BY LocalValues DEF TransitionTo, locals, LocalTypes, SharedTypes
<1>3. ASSUME NEW v \in Workers, v # w
      PROVE  PathRight(v)' /\ (EngineOf[v] # e /\ Carries(v) => Carries(v)')
  <2>1. /\ todo'[v] = todo[v] /\ Midway(v)' = Midway(v) /\ pc'[v] = pc[v]
        /\ passed'[v] = passed[v]
    BY <1>2, <1>3 DEF Midway
  <2>2. EngineOf[v] # e => Engine(v)' = Engine(v)
    BY <1>2, ConstantsOK DEF Engine
  <2>3. PathRight(v)
    BY DEF RestInv
  <2>4. PathRight(v)'
    BY <2>1, <2>3 DEF PathRight
  <2> QED
    BY <2>1, <2>2, <2>4 DEF Carries
<1>4. ASSUME NEW f \in Engines
      PROVE  sm'[f] \in Rest \/ \E v \in Workers : EngineOf[v] = f /\ Carries(v)'
  <2>1. CASE f = e
    BY <1>1, <2>1
  <2>2. CASE f # e
    <3>1. sm'[f] = sm[f]
      BY <1>2, <2>2
    <3> QED
      BY <1>3, <2>2, <3>1 DEF RestInv
  <2> QED
    BY <2>1, <2>2
<1> QED
  BY <1>1, <1>3, <1>4 DEF RestInv

\* Who raises did not carry the engine.
LEMMA InvalidTransitionRest ==
  ASSUME TypeInv, RestInv, NEW w \in Workers, Others(w), InvalidTransition(w)
  PROVE  RestInv'
<1>1. PICK l : Goto(w, <<>>, l)
  BY DEF InvalidTransition, Return
<1>2. UNCHANGED sm /\ ~Carries(w)
  BY DEF InvalidTransition, Carries
<1>3. <<>> \in Seq(BrainStates) /\ Chain(<<>>)
  BY EmptySeq, EmptyChain
<1> QED
  BY <1>1, <1>2, <1>3, GoesAlong

\* Steps between flows that make no transition.
LEMMA QuietRest ==
  ASSUME TypeInv, RestInv, NEW w \in Workers, Others(w),
         \/ Reply(w) \/ ContextCommand(w) \/ SavePlan(w) \/ PlanDone(w) \/ ReadPending(w)
         \/ DecisionRefused(w) \/ Approve(w) \/ Reject(w) \/ CancelTask(w)
         \/ \E r \in Requests : Receive(w, r)
  PROVE  RestInv'
<1>1. UNCHANGED sm /\ pc[w] \in Between
  BY DEF Reply, ContextCommand, SavePlan, PlanDone, ReadPending, DecisionRefused, Approve, Reject,
         Decide, CancelTask, Receive, At, Between
<1>2. todo[w] = <<>>
  <2>1. CASE \E r \in Requests : Receive(w, r)
    BY <2>1 DEF Receive, RestInv, PathRight
  <2> QED
    BY <2>1 DEF Reply, ContextCommand, SavePlan, PlanDone, ReadPending, DecisionRefused, Approve,
                Reject, Decide, CancelTask, At
<1>3. \E l : Goto(w, <<>>, l)
  <2>1. CASE Reply(w) \/ PlanDone(w) \/ DecisionRefused(w)
    BY <2>1 DEF Reply, PlanDone, DecisionRefused, Return
  <2>2. CASE ContextCommand(w) \/ SavePlan(w) \/ ReadPending(w)
    BY <2>2 DEF ContextCommand, SavePlan, ReadPending, Return
  <2>3. CASE Approve(w) \/ Reject(w) \/ CancelTask(w)
    BY <2>3 DEF Approve, Reject, Decide, CancelTask
  <2>4. CASE \E r \in Requests : Receive(w, r)
    BY <2>4 DEF Receive
  <2> QED
    BY <2>1, <2>2, <2>3, <2>4
<1> QED
  BY <1>1, <1>2, <1>3, StaysAtRest

\* Steps between flows that begin one.
LEMMA StartNewFlowRest ==
  ASSUME TypeInv, RestInv, NEW w \in Workers, Others(w), StartNewFlow(w)
  PROVE  RestInv'
<1>1. UNCHANGED sm /\ todo[w] = <<>> /\ pc[w] \in Between
  BY DEF StartNewFlow, At, Between
<1>2. CASE Engine(w) = "COMPLETED"
  <2>1. Goto(w, <<"IDLE">>, "understand")
    BY <1>2 DEF StartNewFlow
  <2>2. /\ <<"IDLE">> \in Seq(BrainStates) /\ Chain(<<"IDLE">>)
        /\ <<"IDLE">>[Len(<<"IDLE">>)] = "IDLE"
    BY Walks DEF Walk
  <2>3. "IDLE" \in MidwayAt("understand", req'[w], step'[w])
    BY MidwayFacts DEF Rest
  <2> QED
    BY <1>1, <2>1, <2>2, <2>3, GoesFromRest
<1>3. CASE Engine(w) # "COMPLETED"
  <2>1. Goto(w, <<>>, "understand")
    BY <1>3 DEF StartNewFlow
  <2> QED
    BY <1>1, <2>1, StaysAtRest
<1> QED
  BY <1>2, <1>3

LEMMA UnderstandRest ==
  ASSUME TypeInv, RestInv, NEW w \in Workers, Others(w), Understand(w)
  PROVE  RestInv'
<1> DEFINE intake == IF Engine(w) = "IDLE" THEN <<"RECEIVED_REQUEST", "UNDERSTANDING">> ELSE <<>>
<1>1. UNCHANGED sm /\ todo[w] = <<>> /\ pc[w] \in Between /\ UNCHANGED locals
  BY DEF Understand, At, Between
<1>2. ASSUME NEW q, NEW d, Walk(q, "DECIDING", d)
      PROVE  /\ intake \o q \in Seq(BrainStates) /\ Chain(intake \o q)
             /\ intake \o q # <<>> /\ (intake \o q)[Len(intake \o q)] = d
  <2>1. CASE Engine(w) = "IDLE"
    <3>1. <<"UNDERSTANDING", "DECIDING">> \in AllowedTransitions
      BY AllowedFacts
    <3>2. Walk(<<"RECEIVED_REQUEST", "UNDERSTANDING">> \o q, "RECEIVED_REQUEST", d)
      BY <1>2, <3>1, Walks, WalkJoin
    <3> QED
      BY <2>1, <3>2 DEF Walk
  <2>2. CASE Engine(w) # "IDLE"
    <3>1. intake \o q = q
      BY <1>2, <2>2, ConcatEmptySeq DEF Walk
    <3> HIDE DEF intake
    <3> QED
      BY <1>2, <3>1 DEF Walk
  <2> QED
    BY <2>1, <2>2
<1>3. CASE Kind(w) \in {"simple", "context", "world", "reject"} /\ Goto(w, intake \o SimpleFlow, "reply")
  <2>1. "COMPLETED" \in MidwayAt("reply", req'[w], step'[w])
    BY MidwayFacts DEF Rest
  <2> HIDE DEF intake
  <2> QED
    BY <1>1, <1>2, <1>3, <2>1, Walks, GoesFromRest
<1>4. CASE Kind(w) = "action" /\ Goto(w, Append(intake, "DECIDING"), "create_task")
  <2>1. "DECIDING" \in MidwayAt("create_task", req'[w], step'[w])
    BY MidwayFacts
  <2>2. Append(intake, "DECIDING") = intake \o <<"DECIDING">>
    <3>1. intake \in Seq(BrainStates) /\ "DECIDING" \in BrainStates
      BY EmptySeq, Walks DEF Walk, BrainStates
    <3> HIDE DEF intake
    <3> QED
      BY <3>1, AppendIsConcat
  <2> HIDE DEF intake
  <2> QED
    BY <1>1, <1>2, <1>4, <2>1, <2>2, Walks, GoesFromRest
<1>5. CASE Kind(w) = "goal" /\ Goto(w, intake, "run_plan")
  <2>1. "UNDERSTANDING" \in MidwayAt("run_plan", req'[w], step'[w])
    BY MidwayFacts
  <2>2. CASE Engine(w) = "IDLE"
    BY <1>1, <1>5, <2>1, <2>2, Walks, GoesFromRest DEF Walk
  <2>3. CASE Engine(w) # "IDLE"
    BY <1>1, <1>5, <2>3, StaysAtRest
  <2> QED
    BY <2>2, <2>3
<1>6. CASE /\ Kind(w) = "confirm"
           /\ Goto(w, intake \o <<"DECIDING", "RISK_CHECKING", "EXECUTING">>, "dispatch")
  <2>1. "EXECUTING" \in MidwayAt("dispatch", req'[w], step'[w])
    BY MidwayFacts
  <2> HIDE DEF intake
  <2> QED
    BY <1>1, <1>2, <1>6, <2>1, Walks, GoesFromRest
<1> QED
  BY <1>3, <1>4, <1>5, <1>6 DEF Understand

LEMMA ResumeRest ==
  ASSUME TypeInv, RestInv, NEW w \in Workers, Others(w), Resume(w)
  PROVE  RestInv'
<1>1. UNCHANGED sm /\ todo[w] = <<>> /\ pc[w] \in Between
  BY DEF Resume, At, Between
<1>2. CASE Goto(w, <<>>, "start")
  BY <1>1, <1>2, StaysAtRest
<1>3. CASE Goto(w, <<"EXECUTING">>, "dispatch")
  <2>1. "EXECUTING" \in MidwayAt("dispatch", req'[w], step'[w])
    BY MidwayFacts
  <2> QED
    BY <1>1, <1>3, <2>1, Walks, GoesFromRest DEF Walk
<1>4. CASE Goto(w, <<"EXECUTING">> \o FinishFlow, "reply")
  <2>1. "COMPLETED" \in MidwayAt("reply", req'[w], step'[w])
    BY MidwayFacts DEF Rest
  <2>2. Walk(<<"EXECUTING">> \o FinishFlow, "EXECUTING", "COMPLETED")
    BY Walks
  <2> DEFINE q == <<"EXECUTING">> \o FinishFlow
  <2> HIDE DEF q
  <2> QED
    BY <1>1, <1>4, <2>1, <2>2, GoesFromRest DEF Walk
<1> QED
  BY <1>2, <1>3, <1>4 DEF Resume

\* Steps of a flow that decide what to do next in the state it has brought the
\* engine to.
LEMMA FlowRest ==
  ASSUME TypeInv, RestInv, NEW w \in Workers, Others(w), UNCHANGED <<sm, req>>, todo[w] = <<>>,
         NEW l, NEW s, Goto(w, <<>>, l), step'[w] = s, l # "idle",
         Engine(w) \in Midway(w) => Engine(w) \in MidwayAt(l, req[w], s)
  PROVE  RestInv'
<1>1. <<>> \in Seq(BrainStates) /\ Chain(<<>>)
  BY EmptySeq, EmptyChain
<1>2. Carries(w) => Engine(w) \in MidwayAt(l, req'[w], step'[w])
  BY DEF Carries
<1> QED
  BY <1>1, <1>2, GoesAlong

\* Steps of a flow that go on with a walk.
LEMMA FlowWalks ==
  ASSUME TypeInv, RestInv, NEW w \in Workers, Others(w), UNCHANGED <<sm, req, step>>,
         todo[w] = <<>>, NEW q \in Seq(BrainStates), q # <<>>, Chain(q),
         NEW l, Goto(w, q, l), l # "idle",
         q[Len(q)] \in MidwayAt(l, req[w], step[w]),
         Engine(w) \in Midway(w) =>
           Engine(w) \in Rest \/ <<Engine(w), Head(q)>> \in AllowedTransitions
  PROVE  RestInv'
<1>1. Carries(w) => Engine(w) \in Rest \/ <<Engine(w), Head(q)>> \in AllowedTransitions
  BY DEF Carries
<1> QED
  BY <1>1, GoesAlong

LEMMA PlanStepsRest ==
  ASSUME PlansAsPlanned, TypeInv, RestInv, NEW w \in Workers, Others(w),
         \/ RunPlan(w) \/ PlanStep(w) \/ CreateTask(w)
  PROVE  RestInv'
<1>1. todo[w] = <<>> /\ UNCHANGED <<sm, req, step>> /\ pc[w] \in {"run_plan", "plan_step", "create_task"}
  BY DEF RunPlan, PlanStep, CreateTask, At, locals
<1>2. CASE RunPlan(w)
  <2>1. Steps[req[w].plan] # <<>>
    BY <1>2, LocalValues, RequestFacts DEF RunPlan, At, TypeInv, Shape, ShapeAt, PlansAsPlanned
  <2>2. Goto(w, <<"DECIDING", "RISK_CHECKING">>, "plan_step") /\ pc[w] = "run_plan"
    BY <1>2, <2>1 DEF RunPlan, At
  <2>3. /\ "RISK_CHECKING" \in MidwayAt("plan_step", req[w], step[w])
        /\ Midway(w) = {"UNDERSTANDING"}
    BY <2>2, MidwayFacts DEF Midway
  <2>4. <<"UNDERSTANDING", "DECIDING">> \in AllowedTransitions
    BY AllowedFacts
  <2> QED
    BY <1>1, <2>2, <2>3, <2>4, Walks, FlowWalks DEF Walk
<1>3. CASE PlanStep(w)
  <2>1. Goto(w, <<>>, "gate") /\ pc[w] = "plan_step" /\ step'[w] = step[w]
    BY <1>3 DEF PlanStep, At
  <2>2. Midway(w) = MidwayAt("gate", req[w], step[w])
    BY <2>1 DEF Midway, MidwayAt
  <2> QED
    BY <1>1, <2>1, <2>2, FlowRest
<1>4. CASE CreateTask(w)
  <2>1. Goto(w, <<"RISK_CHECKING">>, "gate") /\ pc[w] = "create_task"
    BY <1>4 DEF CreateTask, At
  <2>2. "RISK_CHECKING" \in MidwayAt("gate", req[w], step[w]) /\ Midway(w) = {"DECIDING"}
    BY <2>1, MidwayFacts DEF Midway
  <2>3. <<"DECIDING", "RISK_CHECKING">> \in AllowedTransitions
    BY AllowedFacts
  <2> QED
    BY <1>1, <2>1, <2>2, <2>3, Walks, FlowWalks DEF Walk
<1> QED
  BY <1>2, <1>3, <1>4

\* Asking for an approval.
LEMMA AskRest ==
  ASSUME TypeInv, RestInv, NEW w \in Workers, Others(w),
         GateCloses(w) \/ CreateApproval(w) \/ AttachDetails(w)
  PROVE  RestInv'
<1>1. todo[w] = <<>> /\ UNCHANGED <<sm, req, step>>
  BY DEF GateCloses, CreateApproval, AttachDetails, At, locals
<1>2. CASE GateCloses(w)
  <2>1. Goto(w, <<>>, "ask") /\ pc[w] = "gate" /\ NeedsApproval(w) /\ step'[w] = step[w]
    BY <1>1, <1>2 DEF GateCloses, At
  <2>2. Midway(w) = {"RISK_CHECKING"}
    <3>1. req[w].kind = "goal" => Steps[req[w].plan][step[w]] \in Gated
      BY <2>1 DEF NeedsApproval, ActionOf, Kind
    <3> QED
      BY <2>1, <3>1, MidwayFacts DEF Midway
  <2>3. MidwayAt("ask", req[w], step[w]) = {"RISK_CHECKING"}
    BY MidwayFacts
  <2> QED
    BY <1>1, <2>1, <2>2, <2>3, FlowRest
<1>3. CASE CreateApproval(w)
  <2>1. Goto(w, <<>>, "attach") /\ pc[w] = "ask" /\ step'[w] = step[w]
    BY <1>1, <1>3 DEF CreateApproval, At
  <2>2. Midway(w) = MidwayAt("attach", req[w], step[w])
    BY <2>1 DEF Midway, MidwayAt
  <2> QED
    BY <1>1, <2>1, <2>2, FlowRest
<1>4. CASE AttachDetails(w)
  <2> DEFINE q == <<"WAITING_APPROVAL">>
  <2>1. Goto(w, q, "reply") /\ pc[w] = "attach"
    BY <1>4 DEF AttachDetails, At
  <2>2. "WAITING_APPROVAL" \in MidwayAt("reply", req[w], step[w]) /\ Midway(w) = {"RISK_CHECKING"}
    BY <2>1, MidwayFacts DEF Midway, Rest
  <2>3. <<"RISK_CHECKING", "WAITING_APPROVAL">> \in AllowedTransitions
    BY AllowedFacts
  <2>4. /\ q \in Seq(BrainStates) /\ q # <<>> /\ Chain(q)
        /\ Head(q) = "WAITING_APPROVAL" /\ q[Len(q)] = "WAITING_APPROVAL"
    BY DEF Chain, BrainStates
  <2> HIDE DEF q
  <2> QED
    BY <1>1, <2>1, <2>2, <2>3, <2>4, FlowWalks
<1> QED
  BY <1>2, <1>3, <1>4

LEMMA GateOpensRest ==
  ASSUME TypeInv, RestInv, NEW w \in Workers, Others(w), GateOpens(w)
  PROVE  RestInv'
<1>1. /\ todo[w] = <<>> /\ UNCHANGED <<sm, req, step>> /\ step'[w] = step[w]
      /\ pc[w] = "gate" /\ ~NeedsApproval(w)
  BY DEF GateOpens, At, locals
<1>2. /\ MidwayAt("dispatch", req[w], step[w]) = {"EXECUTING"}
      /\ Midway(w) \subseteq {"RISK_CHECKING", "EXECUTING"}
      /\ Kind(w) = "action" => Midway(w) = {"RISK_CHECKING"}
  BY <1>1, MidwayFacts DEF Midway, Kind
<1>3. CASE Kind(w) = "action" \/ Engine(w) = "RISK_CHECKING"
  <2>1. Goto(w, <<"EXECUTING">>, "dispatch")
    BY <1>3 DEF GateOpens
  <2>2. <<"RISK_CHECKING", "EXECUTING">> \in AllowedTransitions
    BY AllowedFacts
  <2> QED
    BY <1>1, <1>2, <1>3, <2>1, <2>2, Walks, FlowWalks DEF Walk
<1>4. CASE ~(Kind(w) = "action" \/ Engine(w) = "RISK_CHECKING")
  <2>1. Goto(w, <<>>, "dispatch")
    BY <1>4 DEF GateOpens
  <2> QED
    BY <1>1, <1>2, <1>4, <2>1, FlowRest
<1> QED
  BY <1>3, <1>4

\* Running a tool and recording what came of it.
LEMMA RunRest ==
  ASSUME "raises" \notin Outcomes, PlansAsPlanned, TypeInv, RestInv, NEW w \in Workers, Others(w),
         \/ \E o \in Outcomes : Dispatch(w, o)
         \/ RecordResult(w) \/ CompletePlanStep(w) \/ CompleteApprovedStep(w) \/ FailStep(w)
  PROVE  RestInv'
<1>1. /\ todo[w] = <<>> /\ UNCHANGED sm
      /\ pc[w] \in {"dispatch", "record", "complete_step", "fail_step"}
  BY DEF Dispatch, RecordResult, CompletePlanStep, CompleteApprovedStep, FailStep, At
<1>2. UNCHANGED req
  BY DEF Dispatch, RecordResult, CompletePlanStep, CompleteApprovedStep, FailStep, locals
<1>3. Midway(w) = {"EXECUTING"}
  BY <1>1, MidwayFacts DEF Midway
<1>4. /\ \A l \in {"reply", "plan_done"} : "COMPLETED" \in MidwayAt(l, req[w], step[w])
      /\ <<"EXECUTING", "RESPONDING">> \in AllowedTransitions
  BY MidwayFacts, AllowedFacts DEF Rest
<1>5. ASSUME UNCHANGED step, NEW l \in {"reply", "plan_done"}, Goto(w, FinishFlow, l) PROVE RestInv'
  BY <1>1, <1>2, <1>3, <1>4, <1>5, Walks, FlowWalks DEF Walk
<1>6. ASSUME UNCHANGED step, NEW l \in {"record", "complete_step", "fail_step"}, Goto(w, <<>>, l)
      PROVE  RestInv'
  <2>1. MidwayAt(l, req[w], step[w]) = {"EXECUTING"} /\ step'[w] = step[w]
    BY <1>6, MidwayFacts
  <2> QED
    BY <1>1, <1>2, <1>3, <1>6, <2>1, FlowRest
<1>7. ASSUME NEW o \in Outcomes, Dispatch(w, o) PROVE RestInv'
  BY <1>6, <1>7 DEF Dispatch
<1>8. CASE RecordResult(w)
  <2>1. UNCHANGED step
    BY <1>8 DEF RecordResult, locals
  <2>2. CASE Goto(w, FinishFlow, "reply")
    BY <1>5, <2>1, <2>2
  <2>3. CASE Goto(w, <<>>, IF out[w] = "no_driver" THEN "fail_step" ELSE "complete_step")
    BY <1>6, <2>1, <2>3
  <2> QED
    BY <1>8, <2>2, <2>3 DEF RecordResult
<1>9. CASE CompletePlanStep(w)
  <2> DEFINE p == req[w].plan
  <2>1. CASE step[w] = Len(Steps[p]) /\ UNCHANGED step /\ Goto(w, FinishFlow, "plan_done")
    BY <1>5, <2>1
  <2>2. CASE /\ step[w] < Len(Steps[p]) /\ Goto(w, <<>>, "plan_step")
             /\ step' = [step EXCEPT ![w] = @ + 1]
    <3>1. /\ req[w] \in Requests /\ req[w].kind = "goal" /\ p \in Plans
          /\ step[w] \in 1..Len(Steps[p]) /\ Len(Steps[p]) \in Nat
      BY <1>1, <1>9, LocalValues, RequestFacts, Lengths
         DEF CompletePlanStep, At, TypeInv, Shape, ShapeAt, Kind
    <3>2. step'[w] = step[w] + 1 /\ step[w] + 1 \in 2..Len(Steps[p])
      BY <2>2, <3>1, LocalValues DEF LocalTypes
    <3>3. Steps[p][step[w] + 1] \notin Gated
      BY <3>1, <3>2 DEF PlansAsPlanned
    <3>4. "EXECUTING" \in MidwayAt("plan_step", req[w], step[w] + 1)
      BY <3>1, <3>3, MidwayFacts
    <3> QED
      BY <1>1, <1>2, <1>3, <2>2, <3>2, <3>4, FlowRest
  <2> QED
    BY <1>9, <2>1, <2>2 DEF CompletePlanStep
<1>10. CASE CompleteApprovedStep(w)
  BY <1>5, <1>10 DEF CompleteApprovedStep, locals
<1>11. CASE FailStep(w)
  BY <1>5, <1>11 DEF FailStep, locals
<1> QED
  BY <1>7, <1>8, <1>9, <1>10, <1>11

LEMMA NextRest ==
  ASSUME "raises" \notin Outcomes, PlansAsPlanned, TypeInv, RestInv, [Next]_vars
  PROVE  RestInv'
<1>1. CASE UNCHANGED vars
  BY <1>1 DEF vars, RestInv, PathRight, Carries, Midway, Engine
<1>2. ASSUME NEW w \in Workers, NEW r \in Requests, Receive(w, r) PROVE RestInv'
  <2>1. Others(w)
    BY <1>2, LocalValues DEF Receive, Goto, Others, LocalTypes
  <2> QED
    BY <1>2, <2>1, QuietRest
<1>3. ASSUME NEW w \in Workers, Step(w) PROVE RestInv'
  <2>1. Others(w)
    BY <1>3, StepOthers
  <2> QED
    BY <1>3, <2>1, CheckTransitionRest, TransitionToRest, InvalidTransitionRest, QuietRest, StartNewFlowRest,
       UnderstandRest, ResumeRest, PlanStepsRest, AskRest, GateOpensRest, RunRest DEF Step
<1> QED
  BY <1>1, <1>2, <1>3 DEF Next

LEMMA RestInvariant ==
  "raises" \notin Outcomes /\ PlansAsPlanned => (Spec => [](TypeInv /\ RestInv))
<1>1. Init => RestInv
  <2> SUFFICES ASSUME Init PROVE RestInv
    OBVIOUS
  <2>1. \A w \in Workers : PathRight(w)
    BY EmptyChain DEF Init, PathRight
  <2>2. \A e \in Engines : sm[e] \in Rest
    BY DEF Init, Rest
  <2> QED
    BY <2>1, <2>2 DEF RestInv
<1> SUFFICES ASSUME "raises" \notin Outcomes, PlansAsPlanned PROVE Spec => [](TypeInv /\ RestInv)
  OBVIOUS
<1>2. TypeInv /\ RestInv /\ [Next]_vars => (TypeInv /\ RestInv)'
  BY NextTypes, NextRest
<1> QED
  BY <1>1, <1>2, InitTypeInv, PTL DEF Spec

\* However many requests run on one engine and raise because of each other: as long
\* as the tools raise nothing that process_input does not foresee, an engine on which
\* no request runs is in a state in which the next one can begin.
THEOREM EnginesComeToRest ==
  "raises" \notin Outcomes /\ PlansAsPlanned => (Spec => []EngineAtRest)
<1>1. TypeInv /\ RestInv => EngineAtRest
  <2> SUFFICES ASSUME TypeInv, RestInv, NEW e \in Engines, Quiet(e) PROVE sm[e] \in Rest
    BY DEF EngineAtRest, Rest
  <2>1. ASSUME NEW w \in Workers, EngineOf[w] = e, Carries(w) PROVE sm[e] \in Rest
    <3>1. pc[w] = "idle" /\ todo[w] = <<>>
      BY <2>1 DEF Quiet, RestInv, PathRight
    <3> QED
      BY <2>1, <3>1, MidwayFacts DEF Carries, Midway, Engine
  <2> QED
    BY <2>1 DEF RestInv
<1> QED
  BY <1>1, RestInvariant, PTL

(***************************************************************************)
(* An engine that waits                                                    *)
(***************************************************************************)
\* One request at a time: the requests of one conversation, when there is no other.
OneRequest == \A v, w \in Workers : v = w

\* q neither asks for an approval nor gives up.
Unasked(q) ==
  q \in Seq(BrainStates) /\ \A i \in 1..Len(q) : q[i] \notin {"WAITING_APPROVAL", "FAILED"}

\* What w attaches a task to can be decided; an engine waits, or is about to, as
\* long as something can be decided or w carries a decision out.
AskRight(w) ==
  /\ pc[w] = "attach" => approvals[appr[w]].status = "required"
  /\ pc[w] \in {"idle", "decide", "cancel_task", "resume"} => todo[w] = <<>>
  /\ \A i \in 1..Len(todo[w]) : todo[w][i] = "WAITING_APPROVAL" => Pending # {}
  /\ Engine(w) = "WAITING_APPROVAL" =>
       \/ Pending # {}
       \/ pc[w] \in {"cancel_task", "resume"}
       \/ todo[w] # <<>> /\ Head(todo[w]) = "EXECUTING"

\* Only engines with a worker wait, and only workers ask.
Asked ==
  /\ \A e \in Engines : sm[e] = "WAITING_APPROVAL" => \E w \in Workers : EngineOf[w] = e
  /\ \A a \in 1..Len(approvals) : \E w \in Workers : approvals[a].engine = EngineOf[w]

AskInv == Asked /\ \A w \in Workers : AskRight(w)

LEMMA PendingFacts ==
  TypeInv => Pending = {a \in 1..Len(approvals) : approvals[a].status = "required"}
BY ManagerDomains DEF Pending

LEMMA SamePending == TypeInv /\ TypeInv' /\ SameGate => Pending' = Pending
<1> SUFFICES ASSUME TypeInv, TypeInv', SameGate PROVE Pending' = Pending
  OBVIOUS
<1>1. DOMAIN approvals = 1..Len(approvals) /\ (DOMAIN approvals)' = 1..Len(approvals')
  BY ManagerDomains
<1> QED
  BY <1>1 DEF Pending, SameGate

LEMMA UnaskedJoin ==
  ASSUME NEW q, NEW r, Unasked(q), Unasked(r)
  PROVE  Unasked(q \o r)
<1> DEFINE j == q \o r
<1>1. /\ q \in Seq(BrainStates) /\ r \in Seq(BrainStates)
      /\ Len(q) \in Nat /\ Len(r) \in Nat
  BY DEF Unasked
<1>2. /\ j \in Seq(BrainStates) /\ Len(j) = Len(q) + Len(r)
      /\ \A i \in 1..Len(q) : j[i] = q[i]
      /\ \A i \in 1..Len(r) : j[Len(q) + i] = r[i]
  BY <1>1
<1>3. ASSUME NEW i \in 1..Len(j), i > Len(q) PROVE j[i] = r[i - Len(q)] /\ i - Len(q) \in 1..Len(r)
  <2>1. i - Len(q) \in 1..Len(r) /\ i = Len(q) + (i - Len(q))
    BY <1>1, <1>2, <1>3
  <2> QED
    BY <1>2, <2>1
<1> HIDE DEF j
<1>4. ASSUME NEW i \in 1..Len(j) PROVE j[i] \notin {"WAITING_APPROVAL", "FAILED"}
  <2>1. CASE i <= Len(q)
    <3>1. i \in 1..Len(q)
      BY <1>1, <1>2, <2>1
    <3> QED
      BY <1>2, <3>1 DEF Unasked
  <2>2. CASE i > Len(q)
    BY <1>3, <2>2 DEF Unasked
  <2> QED
    BY <1>1, <1>2, <2>1, <2>2
<1> QED
  BY <1>2, <1>4 DEF Unasked, j

LEMMA UnaskedPaths ==
  /\ Unasked(<<>>)
  /\ \A s \in {"IDLE", "DECIDING", "RISK_CHECKING", "EXECUTING"} : Unasked(<<s>>)
  /\ Unasked(FinishFlow) /\ Unasked(SimpleFlow) /\ Unasked(<<"EXECUTING">> \o FinishFlow)
  /\ Unasked(<<"RECEIVED_REQUEST", "UNDERSTANDING">>)
  /\ Unasked(<<"DECIDING", "RISK_CHECKING">>)
  /\ Unasked(<<"DECIDING", "RISK_CHECKING">> \o FinishFlow)
  /\ Unasked(<<"DECIDING", "RISK_CHECKING", "EXECUTING">>)
<1>1. \A q, a, b : Walk(q, a, b) => Unasked(q)
  BY DEF Walk, Unasked
<1>2. Unasked(<<>>)
  BY EmptySeq DEF Unasked
<1>3. Unasked(FinishFlow) /\ Unasked(<<"DECIDING", "RISK_CHECKING">>)
  BY <1>1, Walks
<1>4. Unasked(<<"DECIDING", "RISK_CHECKING">> \o FinishFlow)
  BY <1>3, UnaskedJoin
<1>5. Unasked(<<"EXECUTING">> \o FinishFlow) /\ Unasked(SimpleFlow)
  BY <1>1, Walks
<1>6. /\ \A s \in {"IDLE", "DECIDING", "RISK_CHECKING", "EXECUTING"} : Unasked(<<s>>)
      /\ Unasked(<<"RECEIVED_REQUEST", "UNDERSTANDING">>)
      /\ Unasked(<<"DECIDING", "RISK_CHECKING", "EXECUTING">>)
  BY <1>1, Walks
<1> QED
  BY <1>2, <1>3, <1>4, <1>5, <1>6

\* w goes on without asking, to a call that is not about an approval.
GoesUnasked(w) ==
  \E path, l : /\ Goto(w, path, l) /\ Unasked(path)
               /\ l \notin {"attach", "cancel_task", "resume"}
               /\ l \in {"idle", "decide"} => path = <<>>

LEMMA UnaskedStep ==
  ASSUME NEW w \in Workers, NEW path, NEW l, Goto(w, path, l), Unasked(path),
         l \notin {"attach", "cancel_task", "resume"}, l \in {"idle", "decide"} => path = <<>>
  PROVE  GoesUnasked(w)
BY DEF GoesUnasked

\* The steps that neither ask, nor decide, nor carry a decision out.
LEMMA UnaskedSteps ==
  ASSUME NEW w \in Workers,
         \/ InvalidTransition(w)
         \/ StartNewFlow(w) \/ Understand(w) \/ Reply(w) \/ ContextCommand(w)
         \/ SavePlan(w) \/ RunPlan(w) \/ PlanStep(w) \/ CreateTask(w)
         \/ GateCloses(w) \/ GateOpens(w)
         \/ \E o \in Outcomes : Dispatch(w, o)
         \/ RecordResult(w) \/ CompletePlanStep(w) \/ PlanDone(w)
         \/ CompleteApprovedStep(w) \/ FailStep(w)
         \/ ReadPending(w) \/ DecisionRefused(w)
         \/ \E r \in Requests : Receive(w, r)
  PROVE  GoesUnasked(w) /\ UNCHANGED sm
<1>0. UNCHANGED sm
  BY DEF InvalidTransition, StartNewFlow, Understand, Reply, ContextCommand, SavePlan, RunPlan,
         PlanStep, CreateTask, GateCloses, GateOpens, Dispatch, RecordResult, CompletePlanStep,
         PlanDone, CompleteApprovedStep, FailStep, ReadPending, DecisionRefused, Receive
<1>a. Unasked(<<>>) /\ Unasked(FinishFlow)
  BY UnaskedPaths
<1>1. CASE InvalidTransition(w) \/ Reply(w) \/ ContextCommand(w) \/ PlanDone(w) \/ DecisionRefused(w)
  <2>1. \E l \in {"idle", "context", "start"} : Goto(w, <<>>, l)
    BY <1>1 DEF InvalidTransition, Reply, ContextCommand, PlanDone, DecisionRefused, Return
  <2> QED
    BY <1>0, <1>a, <2>1, UnaskedStep
<1>2. CASE StartNewFlow(w)
  <2>1. Unasked(<<"IDLE">>)
    BY UnaskedPaths
  <2>2. \E q \in {<<>>, <<"IDLE">>} : Goto(w, q, "understand")
    BY <1>2 DEF StartNewFlow
  <2> QED
    BY <1>0, <1>a, <2>1, <2>2, UnaskedStep
<1>3. CASE Understand(w)
  <2> DEFINE intake == IF Engine(w) = "IDLE" THEN <<"RECEIVED_REQUEST", "UNDERSTANDING">> ELSE <<>>
  <2>1. Unasked(intake)
    BY UnaskedPaths
  <2>2. Append(intake, "DECIDING") = intake \o <<"DECIDING">>
    <3>1. intake \in Seq(BrainStates) /\ "DECIDING" \in BrainStates
      BY <2>1 DEF Unasked, BrainStates
    <3> HIDE DEF intake
    <3> QED
      BY <3>1, AppendIsConcat
  <2>3. \/ Goto(w, intake \o SimpleFlow, "reply")
        \/ Goto(w, Append(intake, "DECIDING"), "create_task")
        \/ Goto(w, intake, "run_plan")
        \/ Goto(w, intake \o <<"DECIDING", "RISK_CHECKING", "EXECUTING">>, "dispatch")
    BY <1>3 DEF Understand
  <2> HIDE DEF intake
  <2>4. \A q \in {SimpleFlow, <<"DECIDING">>, <<"DECIDING", "RISK_CHECKING", "EXECUTING">>} :
          Unasked(intake \o q)
    BY <2>1, UnaskedPaths, UnaskedJoin
  <2>5. \E q, l : Goto(w, q, l) /\ Unasked(q) /\ l \in {"reply", "create_task", "run_plan", "dispatch"}
    <3>1. CASE Goto(w, intake \o SimpleFlow, "reply")
      BY <2>4, <3>1
    <3>2. CASE Goto(w, Append(intake, "DECIDING"), "create_task")
      BY <2>2, <2>4, <3>2
    <3>3. CASE Goto(w, intake, "run_plan")
      BY <2>1, <3>3
    <3>4. CASE Goto(w, intake \o <<"DECIDING", "RISK_CHECKING", "EXECUTING">>, "dispatch")
      BY <2>4, <3>4
    <3> QED
      BY <2>3, <3>1, <3>2, <3>3, <3>4
  <2> QED
    BY <1>0, <2>5, UnaskedStep
<1>4. CASE SavePlan(w) \/ PlanStep(w) \/ GateCloses(w) \/ ReadPending(w) \/ \E r \in Requests : Receive(w, r)
  <2>1. \E l \in {"idle", "start", "gate", "ask", "decide", "read_pending", "save_plan", "context"} :
          Goto(w, <<>>, l)
    BY <1>4 DEF SavePlan, PlanStep, GateCloses, ReadPending, Receive, Entry, Return
  <2> QED
    BY <1>0, <1>a, <2>1, UnaskedStep
<1>5. CASE RunPlan(w) \/ CreateTask(w) \/ GateOpens(w)
  <2>1. \E q \in {<<>>, <<"DECIDING", "RISK_CHECKING">>, <<"DECIDING", "RISK_CHECKING">> \o FinishFlow,
                  <<"RISK_CHECKING">>, <<"EXECUTING">>}, l \in {"plan_step", "plan_done", "gate", "dispatch"} :
          Goto(w, q, l)
    <3>1. CASE RunPlan(w)
      BY <3>1 DEF RunPlan
    <3>2. CASE CreateTask(w)
      BY <3>2 DEF CreateTask
    <3>3. CASE GateOpens(w)
      BY <3>3 DEF GateOpens
    <3> QED
      BY <1>5, <3>1, <3>2, <3>3
  <2>2. \A q \in {<<>>, <<"DECIDING", "RISK_CHECKING">>, <<"DECIDING", "RISK_CHECKING">> \o FinishFlow,
                  <<"RISK_CHECKING">>, <<"EXECUTING">>} : Unasked(q)
    BY UnaskedPaths
  <2> QED
    BY <1>0, <2>1, <2>2, UnaskedStep
<1>6. CASE \/ \E o \in Outcomes : Dispatch(w, o)
           \/ RecordResult(w) \/ CompletePlanStep(w) \/ CompleteApprovedStep(w) \/ FailStep(w)
  <2>1. \E q \in {<<>>, FinishFlow},
           l \in {"idle", "record", "reply", "complete_step", "fail_step", "plan_step", "plan_done"} :
          Goto(w, q, l) /\ (l = "idle" => q = <<>>)
    <3>1. CASE \E o \in Outcomes : Dispatch(w, o)
      BY <3>1 DEF Dispatch, Return
    <3>2. CASE RecordResult(w)
      BY <3>2 DEF RecordResult
    <3>3. CASE CompletePlanStep(w) \/ CompleteApprovedStep(w) \/ FailStep(w)
      BY <3>3 DEF CompletePlanStep, CompleteApprovedStep, FailStep
    <3> QED
      BY <1>6, <3>1, <3>2, <3>3
  <2> QED
    BY <1>0, <1>a, <2>1, UnaskedStep
<1> QED
  BY <1>0, <1>1, <1>2, <1>3, <1>4, <1>5, <1>6

\* Nothing that is open is decided, no engine waits that has not waited before.
LEMMA AskKept ==
  ASSUME OneRequest, AskInv, NEW w \in Workers,
         \A a \in 1..Len(approvals') : \E v \in Workers : approvals'[a].engine = EngineOf[v],
         \A e \in Engines : sm'[e] = "WAITING_APPROVAL" => \E v \in Workers : EngineOf[v] = e,
         AskRight(w)'
  PROVE  AskInv'
BY DEF OneRequest, AskInv, Asked

\* The engine that an approval was asked on stays.
LEMMA EnginesKept ==
  ASSUME SharedTypes, NEW i \in 1..Len(approvals), SameApprovals(i), NEW s, NEW n, NEW t,
         \/ approvals'[i] = [approvals[i] EXCEPT !.status = s]
         \/ approvals'[i] = [approvals[i] EXCEPT !.runs = n]
         \/ approvals'[i] = [approvals[i] EXCEPT !.task = t]
  PROVE  \A a \in 1..Len(approvals') : approvals'[a].engine = approvals[a].engine
<1>1. approvals[i] \in Approval /\ Len(approvals) \in Nat
  BY ElementOfSeq, LenProperties DEF SharedTypes
<1>2. approvals'[i].engine = approvals[i].engine
  BY <1>1 DEF Approval
<1>3. \A a \in 1..Len(approvals) : a # i => approvals'[a].engine = approvals[a].engine
  BY DEF SameApprovals
<1> QED
  BY <1>1, <1>2, <1>3 DEF SameApprovals

\* What a step without a decision leaves of the approvals.
StillAsked ==
  /\ Pending' = Pending
  /\ Len(approvals') = Len(approvals)
  /\ \A a \in 1..Len(approvals') : approvals'[a].engine = approvals[a].engine

LEMMA StillAskedSteps ==
  ASSUME TypeInv, TypeInv', NEW w \in Workers,
         \/ UNCHANGED approvals
         \/ AttachDetails(w)
         \/ \E o \in Outcomes : Dispatch(w, o)
  PROVE  StillAsked
<1>1. SharedTypes
  BY LocalValues
<1>2. CASE UNCHANGED approvals
  <2>1. SameGate
    BY <1>2, KeptApprovals
  <2> QED
    BY <1>2, <2>1, SamePending DEF StillAsked
<1>3. CASE AttachDetails(w)
  <2>1. appr[w] \in 1..Len(approvals) /\ task[w] \in Nat
    BY <1>3, LocalValues DEF AttachDetails, At, TypeInv, Shape, ShapeAt
  <2>2. /\ SameApprovals(appr[w])
        /\ approvals'[appr[w]] = [approvals[appr[w]] EXCEPT !.task = task[w]]
    BY <1>1, <1>3, <2>1, AttachFacts DEF AttachDetails
  <2>3. SameGate
    BY <1>3, AttachDetailsQuiet
  <2> QED
    BY <1>1, <2>1, <2>2, <2>3, EnginesKept, SamePending DEF StillAsked, SameGate
<1>4. ASSUME NEW o \in Outcomes, Dispatch(w, o), ~UNCHANGED approvals PROVE StillAsked
  <2>1. /\ pc[w] = "dispatch" /\ Kind(w) = "confirm"
        /\ approvals' = [approvals EXCEPT ![appr[w]].runs = @ + 1]
    BY <1>4 DEF Dispatch, At
  <2>2. appr[w] \in 1..Len(approvals)
    BY <2>1, LocalValues DEF TypeInv, Shape, ShapeAt, Kind
  <2>3. /\ SameApprovals(appr[w])
        /\ approvals'[appr[w]] = [approvals[appr[w]] EXCEPT !.runs = approvals[appr[w]].runs + 1]
    BY <1>1, <2>1, <2>2, RunApproval
  <2>4. /\ Len(approvals') = Len(approvals)
        /\ \A a \in 1..Len(approvals) : approvals'[a].status = approvals[a].status
    <3>1. approvals[appr[w]] \in Approval
      BY <1>1, <2>2, ElementOfSeq DEF SharedTypes
    <3> QED
      BY <2>2, <2>3, <3>1 DEF SameApprovals, Approval
  <2>5. Pending' = Pending
    <3>1. DOMAIN approvals = 1..Len(approvals) /\ (DOMAIN approvals)' = 1..Len(approvals')
      BY ManagerDomains
    <3> QED
      BY <2>4, <3>1 DEF Pending
  <2> QED
    BY <1>1, <2>2, <2>3, <2>4, <2>5, EnginesKept DEF StillAsked
<1> QED
  BY <1>2, <1>3, <1>4

LEMMA UnaskedKeeps ==
  ASSUME OneRequest, TypeInv, TypeInv', AskInv, NEW w \in Workers,
         GoesUnasked(w), UNCHANGED sm, StillAsked,
         pc[w] \notin {"cancel_task", "resume"},
         Engine(w) = "WAITING_APPROVAL" /\ todo[w] # <<>> => Head(todo[w]) # "EXECUTING"
  PROVE  AskInv'
<1>1. PICK path, l : /\ Goto(w, path, l) /\ Unasked(path)
                     /\ l \notin {"attach", "cancel_task", "resume"}
                     /\ l \in {"idle", "decide"} => path = <<>>
  BY DEF GoesUnasked
<1>2. pc'[w] = l /\ todo'[w] = path /\ Engine(w)' = Engine(w)
  BY <1>1, LocalValues DEF Goto, LocalTypes, Engine
<1>3. Engine(w) = "WAITING_APPROVAL" => Pending # {}
  BY DEF AskInv, AskRight
<1>4. AskRight(w)'
  BY <1>1, <1>2, <1>3 DEF AskRight, Unasked, StillAsked
<1> QED
  BY <1>4, AskKept DEF AskInv, Asked, StillAsked

LEMMA CheckTransitionAsk ==
  ASSUME OneRequest, TypeInv, TypeInv', AskInv, NEW w \in Workers, CheckTransition(w)
  PROVE  AskInv'
BY DEF CheckTransition, managers, locals, AskInv, Asked, AskRight, Engine, Pending

LEMMA TransitionToAsk ==
  ASSUME OneRequest, TypeInv, TypeInv', AskInv, NEW w \in Workers, TransitionTo(w)
  PROVE  AskInv'
<1> DEFINE q == todo[w]
           e == EngineOf[w]
<1>1. /\ q \in Seq(BrainStates) /\ q # <<>> /\ e \in Engines
      /\ sm' = [sm EXCEPT ![e] = Head(q)] /\ todo' = [todo EXCEPT ![w] = Tail(q)]
      /\ UNCHANGED <<pc, appr, approvals>>
      /\ sm \in [Engines -> BrainStates] /\ todo \in [Workers -> Seq(BrainStates)]
  BY LocalValues, ConstantsOK DEF TransitionTo, locals, managers, LocalTypes, SharedTypes
<1>2. sm'[e] = Head(q) /\ todo'[w] = Tail(q) /\ \A f \in Engines : f # e => sm'[f] = sm[f]
  BY <1>1
<1>3. /\ Len(q) \in Nat /\ 1 \in 1..Len(q) /\ Head(q) = q[1]
      /\ Len(Tail(q)) = Len(q) - 1 /\ \A i \in 1..Len(Tail(q)) : Tail(q)[i] = q[i + 1]
  BY <1>1
<1>4. /\ pc[w] \notin {"idle", "decide", "cancel_task", "resume"}
      /\ \A i \in 1..Len(q) : q[i] = "WAITING_APPROVAL" => Pending # {}
      /\ pc[w] = "attach" => approvals[appr[w]].status = "required"
  BY <1>1 DEF AskInv, AskRight
<1>5. Pending' = Pending
  BY <1>1 DEF Pending
<1> HIDE DEF q
<1>6. \A i \in 1..Len(Tail(q)) : Tail(q)[i] = "WAITING_APPROVAL" => Pending # {}
  <2>1. \A i \in 1..Len(Tail(q)) : i + 1 \in 1..Len(q)
    BY <1>3
  <2> QED
    BY <1>3, <1>4, <2>1
<1>7. AskRight(w)'
  <2>1. Engine(w)' = Head(q)
    BY <1>2 DEF Engine
  <2>2. Engine(w)' = "WAITING_APPROVAL" => Pending # {}
    BY <1>3, <1>4, <2>1
  <2> QED
    BY <1>1, <1>2, <1>4, <1>5, <1>6, <2>2 DEF AskRight
<1>8. \A a \in 1..Len(approvals') : \E v \in Workers : approvals'[a].engine = EngineOf[v]
  BY <1>1 DEF AskInv, Asked
<1>9. \A f \in Engines : sm'[f] = "WAITING_APPROVAL" => \E v \in Workers : EngineOf[v] = f
  BY <1>2 DEF AskInv, Asked
<1> QED
  BY <1>7, <1>8, <1>9, AskKept

\* Asking, and telling what is asked for.
LEMMA CreateApprovalAsk ==
  ASSUME OneRequest, TypeInv, TypeInv', AskInv, NEW w \in Workers, CreateApproval(w)
  PROVE  AskInv'
<1> DEFINE n == Len(approvals) + 1
<1>1. /\ Len(approvals') = n /\ Len(approvals) \in Nat
      /\ \A a \in 1..Len(approvals) : approvals'[a] = approvals[a]
      /\ approvals'[n].status = "required"
  BY CreateApprovalFacts
<1>2. /\ UNCHANGED sm /\ pc'[w] = "attach" /\ todo'[w] = <<>> /\ appr'[w] = n
  BY LocalValues DEF CreateApproval, Goto, LocalTypes
<1>3. approvals'[n].engine = EngineOf[w]
  <2> DEFINE x == [engine |-> EngineOf[w], action |-> ActionOf(w),
                   task |-> 0, status |-> "required", runs |-> 0]
  <2>1. approvals' = Append(approvals, x) /\ x.engine = EngineOf[w] /\ approvals \in Seq(Approval)
    BY LocalValues DEF CreateApproval, SharedTypes
  <2> HIDE DEF x
  <2>2. approvals'[n] = x
    BY <2>1, AppendProperties
  <2> QED
    BY <2>1, <2>2
<1>4. n \in 1..Len(approvals') /\ \A a \in 1..Len(approvals') : a = n \/ a \in 1..Len(approvals)
  BY <1>1
<1> HIDE DEF n
<1>5. n \in Pending'
  <2>1. (DOMAIN approvals)' = 1..Len(approvals')
    BY ManagerDomains
  <2> QED
    BY <1>1, <1>4, <2>1 DEF Pending
<1>6. AskRight(w)'
  BY <1>1, <1>2, <1>5 DEF AskRight
<1>7. \A a \in 1..Len(approvals') : \E v \in Workers : approvals'[a].engine = EngineOf[v]
  BY <1>1, <1>3, <1>4 DEF AskInv, Asked
<1> QED
  BY <1>2, <1>6, <1>7, AskKept DEF AskInv, Asked

LEMMA AttachDetailsAsk ==
  ASSUME OneRequest, TypeInv, TypeInv', AskInv, NEW w \in Workers, AttachDetails(w)
  PROVE  AskInv'
<1>1. pc[w] = "attach" /\ UNCHANGED sm /\ pc'[w] = "reply" /\ todo'[w] = <<"WAITING_APPROVAL">>
  BY LocalValues DEF AttachDetails, At, Goto, LocalTypes
<1>2. StillAsked
  BY StillAskedSteps
<1>3. Pending # {}
  <2>1. appr[w] \in 1..Len(approvals) /\ approvals[appr[w]].status = "required"
    BY <1>1, LocalValues DEF TypeInv, Shape, ShapeAt, AskInv, AskRight
  <2> QED
    BY <2>1, PendingFacts
<1>4. AskRight(w)'
  BY <1>1, <1>2, <1>3 DEF AskRight, StillAsked
<1> QED
  BY <1>1, <1>2, <1>4, AskKept DEF AskInv, Asked, StillAsked

\* Deciding, and carrying the decision out.
LEMMA DecideAsk ==
  ASSUME OneRequest, TypeInv, TypeInv', AskInv, NEW w \in Workers,
         Approve(w) \/ Reject(w) \/ CancelTask(w) \/ Resume(w)
  PROVE  AskInv'
<1>0. LocalTypes /\ SharedTypes /\ UNCHANGED sm
  BY LocalValues DEF Approve, Reject, Decide, CancelTask, Resume
<1>1. CASE Approve(w) \/ Reject(w)
  <2>1. PICK s \in {"approved", "rejected"}, l \in {"cancel_task", "resume"} : Decide(w, s, l)
    BY <1>1 DEF Approve, Reject
  <2>2. /\ pc[w] = "decide" /\ pc'[w] = l /\ todo'[w] = <<>>
        /\ approvals' = [approvals EXCEPT ![appr[w]].status = s]
    BY <1>0, <2>1 DEF Decide, At, Goto, LocalTypes
  <2>3. appr[w] \in 1..Len(approvals) /\ s \in ApprovalStatus
    BY <1>1, <2>2, LocalValues DEF Approve, Reject, TypeInv, Shape, ShapeAt, Kind, ApprovalStatus
  <2>4. /\ SameApprovals(appr[w])
        /\ approvals'[appr[w]] = [approvals[appr[w]] EXCEPT !.status = s]
    BY <1>0, <2>2, <2>3, DecideFacts
  <2>5. \A a \in 1..Len(approvals') : approvals'[a].engine = approvals[a].engine
    BY <1>0, <2>3, <2>4, EnginesKept
  <2>6. AskRight(w)'
    BY <2>2 DEF AskRight
  <2>7. Len(approvals') = Len(approvals)
    BY <2>4 DEF SameApprovals
  <2> QED
    BY <1>0, <2>5, <2>6, <2>7, AskKept DEF AskInv, Asked
<1>2. CASE CancelTask(w) \/ Resume(w)
  <2>1. UNCHANGED approvals
    BY <1>2 DEF CancelTask, Resume, managers
  <2>2. StillAsked
    BY <2>1, StillAskedSteps
  <2>3. CASE CancelTask(w)
    <3>1. pc'[w] = "resume" /\ todo'[w] = <<>>
      BY <1>0, <2>3 DEF CancelTask, Goto, LocalTypes
    <3>2. AskRight(w)'
      BY <3>1 DEF AskRight
    <3> QED
      BY <1>0, <2>2, <3>2, AskKept DEF AskInv, Asked, StillAsked
  <2>4. CASE Resume(w)
    <3>1. Engine(w)' = Engine(w)
      BY <1>0 DEF Engine
    <3>2. ASSUME Engine(w) # "WAITING_APPROVAL" PROVE AskRight(w)'
      <4>1. pc'[w] = "start" /\ todo'[w] = <<>>
        BY <1>0, <2>4, <3>2 DEF Resume, Goto, LocalTypes
      <4> QED
        BY <3>1, <3>2, <4>1 DEF AskRight
    <3>3. ASSUME Engine(w) = "WAITING_APPROVAL" PROVE AskRight(w)'
      <4>1. PICK q \in {<<"EXECUTING">>, <<"EXECUTING">> \o FinishFlow}, l \in {"dispatch", "reply"} :
              Goto(w, q, l)
        BY <2>4, <3>3 DEF Resume
      <4>2. Unasked(q) /\ q # <<>> /\ Head(q) = "EXECUTING"
        BY <4>1, UnaskedPaths, Walks DEF Walk
      <4>3. pc'[w] = l /\ todo'[w] = q
        BY <1>0, <4>1 DEF Goto, LocalTypes
      <4> QED
        BY <4>1, <4>2, <4>3 DEF AskRight, Unasked
    <3>4. AskRight(w)'
      BY <3>2, <3>3
    <3> QED
      BY <1>0, <2>2, <3>4, AskKept DEF AskInv, Asked, StillAsked
  <2> QED
    BY <1>2, <2>3, <2>4
<1> QED
  BY <1>1, <1>2

LEMMA NextAsk ==
  ASSUME OneRequest, TypeInv, TypeInv', AskInv, [Next]_vars
  PROVE  AskInv'
<1>1. CASE UNCHANGED vars
  BY <1>1 DEF vars, AskInv, Asked, AskRight, Engine, Pending
<1>2. ASSUME NEW w \in Workers, UNCHANGED approvals \/ \E o \in Outcomes : Dispatch(w, o),
             GoesUnasked(w), UNCHANGED sm, todo[w] = <<>>, pc[w] \notin {"cancel_task", "resume"}
      PROVE  AskInv'
  BY <1>2, StillAskedSteps, UnaskedKeeps
<1>3. ASSUME NEW w \in Workers, NEW r \in Requests, Receive(w, r) PROVE AskInv'
  <2>1. UNCHANGED approvals /\ pc[w] = "idle"
    BY <1>3 DEF Receive, managers
  <2>2. todo[w] = <<>>
    BY <2>1 DEF AskInv, AskRight
  <2> QED
    BY <1>2, <1>3, <2>1, <2>2, UnaskedSteps
<1>4. ASSUME NEW w \in Workers, InvalidTransition(w) PROVE AskInv'
  <2>1. UNCHANGED approvals /\ todo[w] # <<>>
    BY <1>4 DEF InvalidTransition, managers
  <2>2. pc[w] \notin {"cancel_task", "resume"}
    BY <2>1 DEF AskInv, AskRight
  <2>3. Engine(w) = "WAITING_APPROVAL" => Head(todo[w]) # "EXECUTING"
    <3>1. <<"WAITING_APPROVAL", "EXECUTING">> \in AllowedTransitions
      BY AllowedFacts
    <3> QED
      BY <1>4, <3>1 DEF InvalidTransition
  <2> QED
    BY <1>4, <2>1, <2>2, <2>3, UnaskedSteps, StillAskedSteps, UnaskedKeeps
<1>5. ASSUME NEW w \in Workers,
             \/ StartNewFlow(w) \/ Understand(w) \/ Reply(w) \/ ContextCommand(w)
             \/ SavePlan(w) \/ RunPlan(w) \/ PlanStep(w) \/ CreateTask(w)
             \/ GateCloses(w) \/ GateOpens(w)
             \/ \E o \in Outcomes : Dispatch(w, o)
             \/ RecordResult(w) \/ CompletePlanStep(w) \/ PlanDone(w)
             \/ CompleteApprovedStep(w) \/ FailStep(w)
             \/ ReadPending(w) \/ DecisionRefused(w)
      PROVE  AskInv'
  <2>1. todo[w] = <<>> /\ pc[w] \notin {"cancel_task", "resume"}
    BY <1>5 DEF StartNewFlow, Understand, Reply, ContextCommand, SavePlan, RunPlan, PlanStep,
                CreateTask, GateCloses, GateOpens, Dispatch, RecordResult, CompletePlanStep,
                PlanDone, CompleteApprovedStep, FailStep, ReadPending, DecisionRefused, At
  <2>2. UNCHANGED approvals \/ \E o \in Outcomes : Dispatch(w, o)
    BY <1>5 DEF StartNewFlow, Understand, Reply, ContextCommand, SavePlan, RunPlan, PlanStep,
                CreateTask, GateCloses, GateOpens, RecordResult, CompletePlanStep, PlanDone,
                CompleteApprovedStep, FailStep, ReadPending, DecisionRefused, managers
  <2>3. GoesUnasked(w) /\ UNCHANGED sm
    BY <1>5, UnaskedSteps
  <2> QED
    BY <1>2, <2>1, <2>2, <2>3
<1>6. ASSUME NEW w \in Workers, Step(w) PROVE AskInv'
  BY <1>4, <1>5, <1>6, CheckTransitionAsk, TransitionToAsk, CreateApprovalAsk, AttachDetailsAsk, DecideAsk DEF Step
<1> QED
  BY <1>1, <1>3, <1>6 DEF Next

LEMMA InitAsk == Init => AskInv
<1> SUFFICES ASSUME Init PROVE AskInv
  OBVIOUS
<1>1. Asked
  BY DEF Init, Asked
<1>2. ASSUME NEW w \in Workers PROVE AskRight(w)
  <2>1. Engine(w) = "IDLE" /\ pc[w] = "idle" /\ todo[w] = <<>>
    BY ConstantsOK DEF Init, Engine
  <2> QED
    BY <2>1 DEF AskRight
<1> QED
  BY <1>1, <1>2 DEF AskInv

\* One conversation, whose requests come one after the other: when its engine waits
\* there is an approval to decide, and it is one that the engine has asked for.
\* (Where there are two, a decision of one conversation is taken for the approval
\* of the other: run sessions_waiting.)
THEOREM WaitingIsForApproval == OneRequest => (Spec => []WaitingHasApproval)
<1> SUFFICES ASSUME OneRequest PROVE Spec => []WaitingHasApproval
  OBVIOUS
<1>1. TypeInv /\ AskInv /\ [Next]_vars => (TypeInv /\ AskInv)'
  BY NextTypes, NextAsk
<1>2. TypeInv /\ AskInv => WaitingHasApproval
  <2> SUFFICES ASSUME TypeInv, AskInv, NEW e \in Engines, Quiet(e), sm[e] = "WAITING_APPROVAL"
               PROVE  \E a \in Pending : approvals[a].engine = e
    BY DEF WaitingHasApproval
  <2>1. PICK w \in Workers : EngineOf[w] = e
    BY DEF AskInv, Asked
  <2>2. pc[w] = "idle" /\ Engine(w) = "WAITING_APPROVAL"
    BY <2>1 DEF Quiet, Engine
  <2>3. Pending # {}
    BY <2>2 DEF AskInv, AskRight
  <2>4. \A a \in Pending : approvals[a].engine = e
    BY <2>1, PendingFacts DEF AskInv, Asked, OneRequest
  <2> QED
    BY <2>3, <2>4
<1> QED
  BY <1>1, <1>2, InitTypeInv, InitAsk, PTL DEF Spec

(***************************************************************************)
(* A plan that waits                                                       *)
(***************************************************************************)
\* w is asking for an approval for p, or carries out what was decided about p.
Answers(w, p) ==
  \/ Kind(w) = "goal" /\ pc[w] \in {"ask", "attach"} /\ req[w].plan = p
  \/ /\ task[w] # 0 /\ tasks[task[w]].plan = p
     /\ \/ pc[w] = "cancel_task"
        \/ /\ Kind(w) = "confirm"
           /\ pc[w] \in {"resume", "start", "understand", "dispatch", "record",
                         "complete_step", "fail_step"}

\* An open approval for a step of p.
AskedFor(p) ==
  \E a \in Pending : approvals[a].task # 0 /\ tasks[approvals[a].task].plan = p

\* Nothing raises between the question and its approval, nor between the decision
\* and the status that it gives the plan: w is in a state from which it goes on.
DecisionRight(w) ==
  /\ pc[w] \in {"ask", "attach", "start", "record", "complete_step", "fail_step",
                "cancel_task", "resume"} => todo[w] = <<>>
  /\ pc[w] = "attach" =>
       approvals[appr[w]].status = "required" /\ approvals[appr[w]].task = 0
  /\ pc[w] \in {"gate", "ask", "attach"} => tasks[task[w]].plan = PlanOf(w)
  /\ Kind(w) = "confirm" =>
       /\ pc[w] = "start" => Engine(w) \in {"IDLE", "COMPLETED"}
       /\ pc[w] = "understand" => \/ Engine(w) = "IDLE" /\ todo[w] = <<>>
                                  \/ Engine(w) = "COMPLETED" /\ todo[w] = <<"IDLE">>
       /\ pc[w] = "dispatch" => Carries(w)

\* A plan waits for somebody's answer, or has just got it.
PlanInv ==
  /\ \A w \in Workers : DecisionRight(w)
  /\ \A p \in Plans :
       planStatus[p] = "waiting_approval" => AskedFor(p) \/ \E w \in Workers : Answers(w, p)

\* The call of w, its transitions and what it knows after a step.
LEMMA After ==
  ASSUME TypeInv, NEW w \in Workers, NEW path, NEW l, Goto(w, path, l)
  PROVE  pc'[w] = l /\ todo'[w] = path
BY LocalValues DEF Goto, LocalTypes

\* Calls at which there is nothing to know about w.
LEMMA RightElsewhere ==
  ASSUME NEW w \in Workers,
         pc'[w] \in {"idle", "context", "save_plan", "reply", "create_task", "run_plan",
                     "plan_step", "plan_done", "read_pending", "decide"}
  PROVE  DecisionRight(w)'
BY DEF DecisionRight

\* An engine alone with its request.
LEMMA Alone ==
  ASSUME OneRequest, RestInv, NEW w \in Workers
  PROVE  Engine(w) \in Rest \/ Carries(w)
<1>1. EngineOf[w] \in Engines
  BY ConstantsOK
<1> QED
  BY <1>1 DEF RestInv, OneRequest, Engine

LEMMA CheckTransitionRight ==
  ASSUME TypeInv, NEW w \in Workers, DecisionRight(w), CheckTransition(w)
  PROVE  DecisionRight(w)'
<1>1. /\ UNCHANGED <<sm, todo, pc, locals, managers>> /\ todo[w] # <<>> /\ passed'[w] = TRUE
  BY LocalValues DEF CheckTransition, LocalTypes
<1>2. /\ Kind(w)' = Kind(w) /\ PlanOf(w)' = PlanOf(w) /\ Engine(w)' = Engine(w)
      /\ Carries(w)'
  BY <1>1 DEF Kind, PlanOf, Engine, Carries, locals
<1> QED
  BY <1>1, <1>2 DEF DecisionRight, locals, managers

LEMMA TransitionToRight ==
  ASSUME TypeInv, RestInv, NEW w \in Workers, DecisionRight(w), TransitionTo(w)
  PROVE  DecisionRight(w)'
<1>1. /\ todo[w] # <<>> /\ pc'[w] = pc[w] /\ UNCHANGED <<locals, managers>>
      /\ todo'[w] = Tail(todo[w]) /\ Engine(w)' = Head(todo[w])
  <2>1. EngineOf[w] \in Engines /\ sm \in [Engines -> BrainStates]
        /\ todo \in [Workers -> Seq(BrainStates)]
    BY ConstantsOK, LocalValues DEF LocalTypes, SharedTypes
  <2> QED
    BY <2>1 DEF TransitionTo, Engine
<1>2. Carries(w)'
  BY TransitionCarries
<1>3. Kind(w)' = Kind(w) /\ PlanOf(w)' = PlanOf(w)
  BY <1>1 DEF Kind, PlanOf, locals
<1>4. CASE pc[w] = "gate"
  BY <1>1, <1>3, <1>4 DEF DecisionRight, locals, managers
<1>5. CASE pc[w] = "understand"
  <2>1. Kind(w) = "confirm" => todo[w] = <<"IDLE">>
    BY <1>1, <1>5 DEF DecisionRight
  <2>2. Head(<<"IDLE">>) = "IDLE" /\ Tail(<<"IDLE">>) = <<>>
    OBVIOUS
  <2> QED
    BY <1>1, <1>3, <1>5, <2>1, <2>2 DEF DecisionRight
<1>6. CASE pc[w] \notin {"gate", "understand"}
  BY <1>1, <1>2, <1>3, <1>6 DEF DecisionRight
<1> QED
  BY <1>4, <1>5, <1>6

\* Steps to a call at which there is nothing to know.
LEMMA FlowRight ==
  ASSUME TypeInv, NEW w \in Workers,
         \/ InvalidTransition(w) \/ Reply(w) \/ RunPlan(w) \/ AttachDetails(w)
         \/ CompletePlanStep(w) \/ PlanDone(w) \/ CompleteApprovedStep(w) \/ FailStep(w)
         \/ ReadPending(w) \/ DecisionRefused(w)
  PROVE  DecisionRight(w)'
<1>1. \E q, l : /\ Goto(w, q, l)
                /\ l \in {"idle", "context", "reply", "plan_step", "plan_done", "decide"}
  <2>1. CASE InvalidTransition(w) \/ Reply(w) \/ PlanDone(w) \/ DecisionRefused(w)
    BY <2>1 DEF InvalidTransition, Reply, PlanDone, DecisionRefused, Return
  <2>2. CASE RunPlan(w)
    BY <2>2 DEF RunPlan
  <2>3. CASE AttachDetails(w) \/ CompleteApprovedStep(w) \/ FailStep(w)
    BY <2>3 DEF AttachDetails, CompleteApprovedStep, FailStep
  <2>4. CASE CompletePlanStep(w)
    BY <2>4 DEF CompletePlanStep
  <2>5. CASE ReadPending(w)
    BY <2>5 DEF ReadPending, Return
  <2> QED
    BY <2>1, <2>2, <2>3, <2>4, <2>5
<1>2. pc'[w] \in {"idle", "context", "reply", "plan_step", "plan_done", "decide"}
  BY <1>1, After
<1> QED
  BY <1>2, RightElsewhere

\* Steps to the beginning of a flow.
LEMMA StartRight ==
  ASSUME TypeInv, NEW w \in Workers,
         ContextCommand(w) \/ SavePlan(w) \/ \E r \in Requests : Receive(w, r)
  PROVE  DecisionRight(w)'
<1>1. \E l \in {"idle", "context", "save_plan", "read_pending", "start"} : Goto(w, <<>>, l)
  <2>1. CASE ContextCommand(w) \/ SavePlan(w)
    BY <2>1 DEF ContextCommand, SavePlan, Return
  <2>2. CASE \E r \in Requests : Receive(w, r)
    BY <2>2 DEF Receive, Entry
  <2> QED
    BY <2>1, <2>2
<1>2. /\ pc'[w] \in {"idle", "context", "save_plan", "read_pending", "start"}
      /\ todo'[w] = <<>>
  BY <1>1, After
<1>3. pc'[w] = "start" => Kind(w)' # "confirm"
  <2> SUFFICES ASSUME pc'[w] = "start" PROVE Kind(w)' # "confirm"
    OBVIOUS
  <2>1. CASE ContextCommand(w)
    <3>1. UNCHANGED locals
      BY <2>1, After DEF ContextCommand, Return
    <3>2. Kind(w) \in {"context", "world"}
      BY <2>1 DEF ContextCommand, At, TypeInv, Shape, ShapeAt, Kind
    <3> QED
      BY <3>1, <3>2 DEF Kind, locals
  <2>2. CASE SavePlan(w)
    <3>1. UNCHANGED locals /\ Kind(w) = "goal"
      BY <2>2, After DEF SavePlan, Return
    <3> QED
      BY <3>1 DEF Kind, locals
  <2>3. ASSUME NEW r \in Requests, Receive(w, r) PROVE Kind(w)' # "confirm"
    <3>1. req'[w] = r /\ Entry(r) = "start"
      BY <2>3, After, LocalValues DEF Receive, LocalTypes
    <3> QED
      BY <3>1 DEF Entry, Kind
  <2> QED
    BY <2>1, <2>2, <2>3
<1> QED
  BY <1>2, <1>3 DEF DecisionRight

\* The flow that a request begins.
LEMMA UnderstandRight ==
  ASSUME TypeInv, NEW w \in Workers, DecisionRight(w), StartNewFlow(w) \/ Understand(w)
  PROVE  DecisionRight(w)'
<1>1. UNCHANGED <<sm, locals>> /\ todo[w] = <<>> /\ pc[w] \in {"start", "understand"}
  BY DEF StartNewFlow, Understand, At
<1>2. Engine(w)' = Engine(w) /\ Kind(w)' = Kind(w)
  BY <1>1 DEF Engine, Kind, locals
<1>3. CASE StartNewFlow(w)
  <2>1. /\ pc[w] = "start" /\ pc'[w] = "understand"
        /\ todo'[w] = IF Engine(w) = "COMPLETED" THEN <<"IDLE">> ELSE <<>>
    BY <1>3, After DEF StartNewFlow, At
  <2>2. Kind(w) = "confirm" => Engine(w) \in {"IDLE", "COMPLETED"}
    BY <2>1 DEF DecisionRight
  <2>3. Kind(w) = "confirm" => \/ Engine(w)' = "IDLE" /\ todo'[w] = <<>>
                               \/ Engine(w)' = "COMPLETED" /\ todo'[w] = <<"IDLE">>
    BY <1>2, <2>1, <2>2
  <2> QED
    BY <1>2, <2>1, <2>3 DEF DecisionRight
<1>4. CASE Understand(w)
  <2> DEFINE intake == IF Engine(w) = "IDLE" THEN <<"RECEIVED_REQUEST", "UNDERSTANDING">> ELSE <<>>
             path == intake \o <<"DECIDING", "RISK_CHECKING", "EXECUTING">>
  <2>1. \/ \E q, l : Goto(w, q, l) /\ l \in {"reply", "create_task", "run_plan"}
        \/ Kind(w) = "confirm" /\ Goto(w, path, "dispatch")
    BY <1>4 DEF Understand
  <2>2. CASE \E q, l : Goto(w, q, l) /\ l \in {"reply", "create_task", "run_plan"}
    <3>1. pc'[w] \in {"reply", "create_task", "run_plan"}
      BY <2>2, After
    <3> QED
      BY <3>1, RightElsewhere
  <2>3. CASE Kind(w) = "confirm" /\ Goto(w, path, "dispatch")
    <3>1. Engine(w) = "IDLE"
      BY <1>1, <1>4, <2>3 DEF Understand, At, DecisionRight
    <3>2. path # <<>> /\ Head(path) = "RECEIVED_REQUEST"
      BY <3>1
    <3> HIDE DEF path
    <3>3. pc'[w] = "dispatch" /\ todo'[w] = path
      BY <2>3, After
    <3>4. <<"IDLE", "RECEIVED_REQUEST">> \in AllowedTransitions
      BY AllowedFacts
    <3>5. Carries(w)'
      BY <1>2, <3>1, <3>2, <3>3, <3>4 DEF Carries
    <3> QED
      BY <3>3, <3>5 DEF DecisionRight
  <2> QED
    BY <2>1, <2>2, <2>3
<1> QED
  BY <1>3, <1>4

\* Up to the question.
LEMMA CreateTaskRight ==
  ASSUME TypeInv, NEW w \in Workers, PlanStep(w) \/ CreateTask(w)
  PROVE  DecisionRight(w)'
<1>1. pc[w] \in {"create_task", "plan_step"} /\ Kind(w) \in {"action", "goal"} /\ CreateTaskFor(w)
  BY DEF PlanStep, CreateTask, At, TypeInv, Shape, ShapeAt, Kind
<1>2. /\ tasks'[Len(tasks) + 1].plan = PlanOf(w)
      /\ task' = [task EXCEPT ![w] = Len(tasks) + 1]
  BY <1>1, CreateTaskForFacts
<1>3. pc'[w] = "gate" /\ UNCHANGED req
  BY After DEF PlanStep, CreateTask
<1>4. task'[w] = Len(tasks) + 1 /\ PlanOf(w)' = PlanOf(w)
  BY <1>2, <1>3, LocalValues DEF LocalTypes, PlanOf, Kind
<1> QED
  BY <1>2, <1>3, <1>4 DEF DecisionRight

LEMMA AskingRight ==
  ASSUME TypeInv, NEW w \in Workers, DecisionRight(w),
         GateCloses(w) \/ GateOpens(w) \/ CreateApproval(w)
  PROVE  DecisionRight(w)'
<1>1. /\ UNCHANGED <<tasks, req, task>> /\ pc[w] \in {"gate", "ask"}
  BY DEF GateCloses, GateOpens, CreateApproval, At, locals, managers
<1>2. /\ Kind(w)' = Kind(w) /\ PlanOf(w)' = PlanOf(w) /\ Kind(w) # "confirm"
      /\ tasks'[task'[w]].plan = PlanOf(w)'
  BY <1>1 DEF Kind, PlanOf, DecisionRight, TypeInv, Shape, ShapeAt
<1>3. CASE GateCloses(w)
  <2>1. pc'[w] = "ask" /\ todo'[w] = <<>>
    BY <1>3, After DEF GateCloses
  <2> QED
    BY <1>2, <2>1 DEF DecisionRight
<1>4. CASE GateOpens(w)
  <2>1. pc'[w] = "dispatch"
    BY <1>4, After DEF GateOpens
  <2> QED
    BY <1>2, <2>1 DEF DecisionRight
<1>5. CASE CreateApproval(w)
  <2>1. pc'[w] = "attach" /\ todo'[w] = <<>> /\ appr'[w] = Len(approvals) + 1
    BY <1>5, After, LocalValues DEF CreateApproval, LocalTypes
  <2>2. approvals'[appr'[w]].status = "required" /\ approvals'[appr'[w]].task = 0
    BY <1>5, <2>1, CreateApprovalFacts
  <2> QED
    BY <1>2, <2>1, <2>2 DEF DecisionRight
<1> QED
  BY <1>3, <1>4, <1>5

\* Executing, and deciding.
LEMMA ResultRight ==
  ASSUME "raises" \notin Outcomes, TypeInv, NEW w \in Workers,
         \/ \E o \in Outcomes : Dispatch(w, o)
         \/ RecordResult(w) \/ Approve(w) \/ Reject(w) \/ CancelTask(w)
  PROVE  DecisionRight(w)'
<1>1. \/ \E l \in {"record", "complete_step", "fail_step", "resume", "cancel_task"} : Goto(w, <<>>, l)
      \/ Goto(w, FinishFlow, "reply")
  <2>1. CASE \E o \in Outcomes : Dispatch(w, o)
    BY <2>1 DEF Dispatch
  <2>2. CASE RecordResult(w)
    BY <2>2 DEF RecordResult
  <2>3. CASE Approve(w) \/ Reject(w) \/ CancelTask(w)
    BY <2>3 DEF Approve, Reject, Decide, CancelTask
  <2> QED
    BY <2>1, <2>2, <2>3
<1>2. \/ /\ pc'[w] \in {"record", "complete_step", "fail_step", "resume", "cancel_task"}
         /\ todo'[w] = <<>>
      \/ pc'[w] = "reply"
  BY <1>1, After
<1> QED
  BY <1>2, RightElsewhere DEF DecisionRight

LEMMA ResumeRight ==
  ASSUME OneRequest, TypeInv, RestInv, NEW w \in Workers, Resume(w)
  PROVE  DecisionRight(w)'
<1>1. /\ UNCHANGED <<sm, locals>> /\ pc[w] = "resume" /\ todo[w] = <<>>
      /\ Engine(w)' = Engine(w)
  BY DEF Resume, At, Engine
<1>2. Engine(w) \in Rest
  <2>1. Midway(w) = Rest
    BY <1>1, MidwayFacts DEF Midway
  <2> QED
    BY <1>1, <2>1, Alone DEF Carries
<1>3. CASE Engine(w) # "WAITING_APPROVAL"
  <2>1. pc'[w] = "start" /\ todo'[w] = <<>>
    BY <1>3, After DEF Resume
  <2>2. Engine(w)' \in {"IDLE", "COMPLETED"}
    BY <1>1, <1>2, <1>3 DEF Rest
  <2> QED
    BY <2>1, <2>2 DEF DecisionRight
<1>4. CASE Engine(w) = "WAITING_APPROVAL"
  <2>1. \/ Goto(w, <<"EXECUTING">>, "dispatch")
        \/ Goto(w, <<"EXECUTING">> \o FinishFlow, "reply")
    BY <1>4 DEF Resume
  <2>2. \/ pc'[w] = "dispatch" /\ todo'[w] = <<"EXECUTING">>
        \/ pc'[w] = "reply"
    BY <2>1, After
  <2>3. <<"WAITING_APPROVAL", "EXECUTING">> \in AllowedTransitions
        /\ <<"EXECUTING">> # <<>> /\ Head(<<"EXECUTING">>) = "EXECUTING"
    BY AllowedFacts
  <2>4. todo'[w] = <<"EXECUTING">> => Carries(w)'
    BY <1>1, <1>4, <2>3 DEF Carries
  <2> QED
    BY <2>2, <2>4, RightElsewhere DEF DecisionRight
<1> QED
  BY <1>3, <1>4

LEMMA NextRight ==
  ASSUME OneRequest, "raises" \notin Outcomes, TypeInv, RestInv, NEW w \in Workers,
         DecisionRight(w), Step(w) \/ \E r \in Requests : Receive(w, r)
  PROVE  DecisionRight(w)'
BY CheckTransitionRight, TransitionToRight, FlowRight, StartRight, UnderstandRight, CreateTaskRight, AskingRight,
   ResultRight, ResumeRight DEF Step

\* Open approvals that tell their task are kept, and tasks keep their plans.
KeepsAsked ==
  \A a \in Pending :
    approvals[a].task # 0 =>
      /\ a \in Pending' /\ approvals'[a].task = approvals[a].task
      /\ tasks'[approvals[a].task].plan = tasks[approvals[a].task].plan

SamePlans == \A t \in 1..Len(tasks) : tasks'[t].plan = tasks[t].plan

LEMMA AskedKept ==
  ASSUME KeepsAsked, NEW p, AskedFor(p)
  PROVE  AskedFor(p)'
BY DEF KeepsAsked, AskedFor

LEMMA KeepsAskedStep ==
  ASSUME TypeInv, SamePlans,
         \A a \in Pending : approvals[a].task # 0 =>
                              a \in Pending' /\ approvals'[a].task = approvals[a].task
  PROVE  KeepsAsked
<1>1. \A a \in Pending : approvals[a].task # 0 => approvals[a].task \in 1..Len(tasks)
  <2> SUFFICES ASSUME NEW a \in Pending, approvals[a].task # 0
               PROVE  approvals[a].task \in 1..Len(tasks)
    OBVIOUS
  <2>1. approvals[a].task \in 0..Len(tasks) /\ Len(tasks) \in Nat
    BY PendingFacts, ManagerDomains, LocalValues, Lengths, TypesSplit DEF TypeInv
  <2> QED
    BY <2>1
<1> QED
  BY <1>1 DEF KeepsAsked, SamePlans

\* What a step does to the tasks' plans.
LEMMA SamePlansSteps ==
  ASSUME TypeInv, NEW w \in Workers, Step(w) \/ \E r \in Requests : Receive(w, r)
  PROVE  SamePlans
<1>0. tasks \in Seq(Task)
  BY LocalValues DEF SharedTypes
<1>1. CASE UNCHANGED tasks
  BY <1>1 DEF SamePlans
<1>2. CASE PlanStep(w) \/ CreateTask(w)
  <2>1. pc[w] \in {"create_task", "plan_step"} /\ Kind(w) \in {"action", "goal"} /\ CreateTaskFor(w)
    BY <1>2 DEF PlanStep, CreateTask, At, TypeInv, Shape, ShapeAt, Kind
  <2> QED
    BY <2>1, CreateTaskForFacts DEF SamePlans
<1>3. ASSUME NEW o \in Outcomes, Dispatch(w, o), task[w] # 0 PROVE SamePlans
  <2>1. task[w] \in 1..Len(tasks)
    BY <1>3, LocalValues
  <2>2. SameTasks
    BY <1>0, <1>3, <2>1, RunTask DEF Dispatch
  <2> QED
    BY <2>2 DEF SameTasks, SamePlans
<1>4. ASSUME RecordResult(w) \/ CancelTask(w), task[w] # 0 PROVE SamePlans
  <2>1. task[w] \in 1..Len(tasks)
    BY <1>4, LocalValues
  <2>2. \E s \in TaskStatus : tasks' = [tasks EXCEPT ![task[w]].status = s]
    BY <1>4 DEF RecordResult, CancelTask, TaskStatus
  <2>3. SameTasks
    BY <1>0, <2>1, <2>2, SettleTask
  <2> QED
    BY <2>3 DEF SameTasks, SamePlans
<1>5. \/ UNCHANGED tasks \/ PlanStep(w) \/ CreateTask(w)
      \/ (RecordResult(w) \/ CancelTask(w)) /\ task[w] # 0
      \/ \E o \in Outcomes : Dispatch(w, o) /\ task[w] # 0
  <2>1. CASE \E r \in Requests : Receive(w, r)
    BY <2>1 DEF Receive, managers
  <2>2. CASE CheckTransition(w) \/ TransitionTo(w) \/ InvalidTransition(w)
             \/ StartNewFlow(w) \/ Understand(w) \/ Reply(w)
             \/ ContextCommand(w) \/ SavePlan(w) \/ RunPlan(w)
    BY <2>2 DEF CheckTransition, TransitionTo, InvalidTransition, StartNewFlow, Understand,
                Reply, ContextCommand, SavePlan, RunPlan, managers
  <2>3. CASE GateCloses(w) \/ GateOpens(w) \/ CreateApproval(w) \/ AttachDetails(w)
             \/ CompletePlanStep(w) \/ PlanDone(w) \/ CompleteApprovedStep(w) \/ FailStep(w)
    BY <2>3 DEF GateCloses, GateOpens, CreateApproval, AttachDetails, CompletePlanStep, PlanDone,
                CompleteApprovedStep, FailStep, managers
  <2>4. CASE ReadPending(w) \/ DecisionRefused(w) \/ Approve(w) \/ Reject(w) \/ Resume(w)
    BY <2>4 DEF ReadPending, DecisionRefused, Approve, Reject, Decide, Resume, managers
  <2>5. CASE RecordResult(w) \/ CancelTask(w) \/ \E o \in Outcomes : Dispatch(w, o)
    BY <2>5 DEF RecordResult, CancelTask, Dispatch
  <2> QED
    BY <2>1, <2>2, <2>3, <2>4, <2>5 DEF Step
<1> QED
  BY <1>1, <1>2, <1>3, <1>4, <1>5

\* All steps but a decision leave the open approvals open.
LEMMA KeepsAskedSteps ==
  ASSUME TypeInv, TypeInv', NEW w \in Workers, DecisionRight(w),
         Step(w) \/ \E r \in Requests : Receive(w, r), ~Approve(w), ~Reject(w)
  PROVE  KeepsAsked
<1>0. SamePlans /\ SharedTypes
  BY SamePlansSteps, LocalValues
<1>1. SUFFICES ASSUME NEW a \in Pending, approvals[a].task # 0
               PROVE  a \in Pending' /\ approvals'[a].task = approvals[a].task
  BY <1>0, KeepsAskedStep
<1>2. /\ a \in 1..Len(approvals) /\ approvals[a].status = "required"
      /\ (DOMAIN approvals)' = 1..Len(approvals') /\ Len(approvals) \in Nat
  BY PendingFacts, ManagerDomains, LocalValues
<1>3. CASE UNCHANGED approvals
  BY <1>3 DEF Pending
<1>4. CASE CreateApproval(w)
  <2>1. Len(approvals') = Len(approvals) + 1 /\ approvals'[a] = approvals[a]
    BY <1>2, <1>4, CreateApprovalFacts
  <2> QED
    BY <1>2, <2>1 DEF Pending
<1>5. CASE AttachDetails(w)
  <2>1. /\ pc[w] = "attach" /\ appr[w] \in 1..Len(approvals) /\ task[w] \in Nat
        /\ approvals[appr[w]].task = 0
    BY <1>5, LocalValues DEF AttachDetails, At, TypeInv, Shape, ShapeAt, DecisionRight
  <2>2. SameApprovals(appr[w])
    BY <1>0, <1>5, <2>1, AttachFacts DEF AttachDetails
  <2>3. Len(approvals') = Len(approvals) /\ approvals'[a] = approvals[a]
    BY <1>1, <1>2, <2>1, <2>2 DEF SameApprovals
  <2> QED
    BY <1>2, <2>3 DEF Pending
<1>6. ASSUME NEW o \in Outcomes, Dispatch(w, o), ~UNCHANGED approvals
      PROVE  a \in Pending' /\ approvals'[a].task = approvals[a].task
  <2>1. /\ pc[w] = "dispatch" /\ Kind(w) = "confirm"
        /\ approvals' = [approvals EXCEPT ![appr[w]].runs = @ + 1]
    BY <1>6 DEF Dispatch, At
  <2>2. appr[w] \in 1..Len(approvals)
    BY <2>1, LocalValues DEF TypeInv, Shape, ShapeAt, Kind
  <2>3. /\ SameApprovals(appr[w])
        /\ approvals'[appr[w]] = [approvals[appr[w]] EXCEPT !.runs = approvals[appr[w]].runs + 1]
    BY <1>0, <2>1, <2>2, RunApproval
  <2>4. approvals'[a].task = approvals[a].task
    BY <1>0, <1>2, <2>2, <2>3, ApprovalTaskKept
  <2>5. StillAsked
    BY <1>6, StillAskedSteps
  <2> QED
    BY <2>4, <2>5 DEF StillAsked
<1>7. UNCHANGED approvals \/ CreateApproval(w) \/ AttachDetails(w) \/ \E o \in Outcomes : Dispatch(w, o)
  <2>1. CASE \E r \in Requests : Receive(w, r)
    BY <2>1 DEF Receive, managers
  <2>2. CASE CheckTransition(w) \/ TransitionTo(w) \/ InvalidTransition(w)
             \/ StartNewFlow(w) \/ Understand(w) \/ Reply(w)
             \/ ContextCommand(w) \/ SavePlan(w) \/ RunPlan(w) \/ PlanStep(w) \/ CreateTask(w)
    BY <2>2 DEF CheckTransition, TransitionTo, InvalidTransition, StartNewFlow, Understand,
                Reply, ContextCommand, SavePlan, RunPlan, PlanStep, CreateTask, managers
  <2>3. CASE GateCloses(w) \/ GateOpens(w) \/ RecordResult(w)
             \/ CompletePlanStep(w) \/ PlanDone(w) \/ CompleteApprovedStep(w) \/ FailStep(w)
    BY <2>3 DEF GateCloses, GateOpens, RecordResult, CompletePlanStep, PlanDone,
                CompleteApprovedStep, FailStep, managers
  <2>4. CASE ReadPending(w) \/ DecisionRefused(w) \/ CancelTask(w) \/ Resume(w)
    BY <2>4 DEF ReadPending, DecisionRefused, CancelTask, Resume, managers
  <2> QED
    BY <2>1, <2>2, <2>3, <2>4 DEF Step
<1> QED
  BY <1>3, <1>4, <1>5, <1>6, <1>7

\* What a plan that waits waits for, when there is one worker.
LEMMA WaitsFor ==
  ASSUME OneRequest, PlanInv, NEW w \in Workers, NEW p \in Plans,
         planStatus[p] = "waiting_approval"
  PROVE  AskedFor(p) \/ Answers(w, p)
BY DEF OneRequest, PlanInv

\* A step that leaves the plans' statuses alone: what w answers stays answered.
LEMMA SameStatus ==
  ASSUME OneRequest, PlanInv, NEW w \in Workers, KeepsAsked, UNCHANGED planStatus,
         \A p \in Plans : Answers(w, p) => Answers(w, p)' \/ AskedFor(p)',
         NEW p \in Plans, planStatus'[p] = "waiting_approval"
  PROVE  AskedFor(p)' \/ Answers(w, p)'
BY WaitsFor, AskedKept

\* A step that gives one plan, the one that w answers if any, another status.
LEMMA OtherStatus ==
  ASSUME OneRequest, TypeInv, PlanInv, NEW w \in Workers, KeepsAsked, NEW q \in Plans, NEW s,
         SetPlan(q, s), s # "waiting_approval" \/ Answers(w, q)',
         \A p \in Plans : Answers(w, p) => p = q,
         NEW p \in Plans, planStatus'[p] = "waiting_approval"
  PROVE  AskedFor(p)' \/ Answers(w, p)'
<1>1. planStatus \in [Plans -> PlanStates]
  BY LocalValues DEF SharedTypes
<1>2. planStatus'[q] = s /\ (p # q => planStatus'[p] = planStatus[p])
  BY <1>1 DEF SetPlan
<1>3. CASE p = q
  BY <1>2, <1>3
<1>4. CASE p # q
  BY <1>2, <1>4, WaitsFor, AskedKept
<1> QED
  BY <1>3, <1>4

\* Where w answers nothing.
LEMMA AnswersNothing ==
  ASSUME TypeInv, NEW w \in Workers,
         \/ pc[w] \in {"idle", "context", "save_plan", "reply", "create_task", "run_plan",
                       "plan_step", "gate", "plan_done", "read_pending", "decide"}
         \/ Kind(w) # "confirm" /\ pc[w] \notin {"ask", "attach", "cancel_task"}
         \/ Kind(w) = "action"
  PROVE  \A p \in Plans : ~Answers(w, p)
<1>1. Kind(w) = "action" => pc[w] # "cancel_task"
  BY DEF TypeInv, Shape, ShapeAt, Kind
<1> QED
  BY <1>1 DEF Answers

\* While w answers for p it does not raise.
LEMMA InvalidAnswers ==
  ASSUME TypeInv, NEW w \in Workers, DecisionRight(w), InvalidTransition(w)
  PROVE  \A p \in Plans : ~Answers(w, p)
<1>1. todo[w] # <<>> /\ ~passed[w] /\ <<Engine(w), Head(todo[w])>> \notin AllowedTransitions
  BY DEF InvalidTransition
<1>2. /\ <<"COMPLETED", "IDLE">> \in AllowedTransitions
      /\ Head(<<"IDLE">>) = "IDLE"
  BY AllowedFacts
<1>3. ~(Kind(w) = "confirm" /\ pc[w] \in {"understand", "dispatch"})
  BY <1>1, <1>2 DEF DecisionRight, Carries
<1> QED
  BY <1>1, <1>3 DEF DecisionRight, Answers

\* Answering goes on.
LEMMA AnswersOn ==
  ASSUME NEW w \in Workers, TypeInv, SamePlans, UNCHANGED <<req, task>>,
         \/ pc'[w] = pc[w]
         \/ pc[w] = "ask" /\ pc'[w] = "attach"
         \/ /\ pc[w] \in {"start", "understand", "dispatch", "record", "resume"}
            /\ Kind(w) = "confirm" =>
                 pc'[w] \in {"start", "understand", "dispatch", "record", "complete_step", "fail_step"}
  PROVE  \A p \in Plans : Answers(w, p) => Answers(w, p)'
<1> SUFFICES ASSUME NEW p \in Plans, Answers(w, p) PROVE Answers(w, p)'
  OBVIOUS
<1>1. Kind(w)' = Kind(w) /\ task'[w] = task[w] /\ req'[w] = req[w]
  BY DEF Kind
<1>2. task[w] # 0 => tasks'[task[w]].plan = tasks[task[w]].plan
  <2>1. task[w] # 0 => task[w] \in 1..Len(tasks)
    BY LocalValues
  <2> QED
    BY <2>1 DEF SamePlans
<1> QED
  BY <1>1, <1>2 DEF Answers

\* After w's step every plan that waits is asked for or answered by w.
PlansWait(w) ==
  \A p \in Plans : planStatus[p] = "waiting_approval" => AskedFor(p) \/ Answers(w, p)

\* Steps while w answers nothing, and that do not change a plan's status.
LEMMA IdleWaits ==
  ASSUME OneRequest, TypeInv, PlanInv, NEW w \in Workers, KeepsAsked,
         \/ InvalidTransition(w) \/ Reply(w) \/ ContextCommand(w) \/ PlanStep(w) \/ CreateTask(w)
         \/ GateOpens(w) \/ CompletePlanStep(w) \/ ReadPending(w) \/ DecisionRefused(w)
         \/ \E r \in Requests : Receive(w, r)
  PROVE  PlansWait(w)'
<1>1. UNCHANGED planStatus
  BY DEF InvalidTransition, Reply, ContextCommand, PlanStep, CreateTask, GateOpens, CompletePlanStep,
         ReadPending, DecisionRefused, Receive, managers
<1>2. \A p \in Plans : ~Answers(w, p)
  <2>1. CASE InvalidTransition(w)
    BY <2>1, InvalidAnswers DEF PlanInv
  <2>2. CASE CompletePlanStep(w)
    <3>1. Kind(w) # "confirm" /\ pc[w] \notin {"ask", "attach", "cancel_task"}
      BY <2>2 DEF CompletePlanStep, At
    <3> QED
      BY <3>1, AnswersNothing
  <2>3. CASE \/ Reply(w) \/ ContextCommand(w) \/ PlanStep(w) \/ CreateTask(w)
             \/ GateOpens(w) \/ ReadPending(w) \/ DecisionRefused(w)
             \/ \E r \in Requests : Receive(w, r)
    <3>1. pc[w] \in {"idle", "context", "reply", "create_task", "plan_step", "gate",
                     "read_pending", "decide"}
      BY <2>3 DEF Reply, ContextCommand, PlanStep, CreateTask, GateOpens, ReadPending,
                  DecisionRefused, Receive, At
    <3> QED
      BY <3>1, AnswersNothing
  <2> QED
    BY <2>1, <2>2, <2>3
<1> QED
  BY <1>1, <1>2, SameStatus DEF PlansWait

\* Steps of a question and of an answer that leave the plan waiting.
LEMMA AnswerWaits ==
  ASSUME "raises" \notin Outcomes,
         OneRequest, TypeInv, PlanInv, NEW w \in Workers, KeepsAsked, SamePlans,
         \/ CheckTransition(w) \/ TransitionTo(w)
         \/ StartNewFlow(w) \/ Understand(w) \/ CreateApproval(w)
         \/ \E o \in Outcomes : Dispatch(w, o)
         \/ RecordResult(w) \/ Resume(w)
  PROVE  PlansWait(w)'
<1>1. UNCHANGED <<planStatus, req, task>>
  BY DEF CheckTransition, TransitionTo, StartNewFlow, Understand, CreateApproval, Dispatch,
         RecordResult, Resume, locals, managers
<1>2. CASE CheckTransition(w) \/ TransitionTo(w)
  <2>1. pc'[w] = pc[w]
    BY <1>2 DEF CheckTransition, TransitionTo
  <2> QED
    BY <1>1, <2>1, AnswersOn, SameStatus DEF PlansWait
<1>3. CASE CreateApproval(w)
  <2>1. pc[w] = "ask" /\ pc'[w] = "attach"
    BY <1>3, After DEF CreateApproval, At
  <2> QED
    BY <1>1, <2>1, AnswersOn, SameStatus DEF PlansWait
<1>4. CASE StartNewFlow(w) \/ Understand(w) \/ RecordResult(w) \/ Resume(w)
           \/ \E o \in Outcomes : Dispatch(w, o)
  <2>1. pc[w] \in {"start", "understand", "dispatch", "record", "resume"}
    BY <1>4 DEF StartNewFlow, Understand, RecordResult, Resume, Dispatch, At
  <2>2. Kind(w) = "confirm" =>
          \E q, l : /\ Goto(w, q, l)
                    /\ l \in {"start", "understand", "dispatch", "record", "complete_step", "fail_step"}
    <3>1. CASE StartNewFlow(w)
      BY <3>1 DEF StartNewFlow
    <3>2. CASE Understand(w)
      BY <3>2 DEF Understand
    <3>3. CASE RecordResult(w)
      BY <3>3 DEF RecordResult
    <3>4. CASE Resume(w)
      BY <3>4 DEF Resume
    <3>5. CASE \E o \in Outcomes : Dispatch(w, o)
      BY <3>5 DEF Dispatch
    <3> QED
      BY <1>4, <3>1, <3>2, <3>3, <3>4, <3>5
  <2>3. Kind(w) = "confirm" =>
          pc'[w] \in {"start", "understand", "dispatch", "record", "complete_step", "fail_step"}
    BY <2>2, After
  <2> QED
    BY <1>1, <2>1, <2>3, AnswersOn, SameStatus DEF PlansWait
<1> QED
  BY <1>2, <1>3, <1>4

\* The approval that w completes is open and of the plan w asked for.
LEMMA AttachWaits ==
  ASSUME OneRequest, TypeInv, TypeInv', PlanInv, NEW w \in Workers, KeepsAsked, AttachDetails(w)
  PROVE  PlansWait(w)'
<1>1. /\ UNCHANGED <<planStatus, tasks>> /\ pc[w] = "attach" /\ SharedTypes
      /\ appr[w] \in 1..Len(approvals) /\ task[w] \in Nat /\ task[w] # 0
      /\ Kind(w) \in {"action", "goal"}
  BY LocalValues DEF AttachDetails, At, TypeInv, Shape, ShapeAt, Kind
<1>2. approvals[appr[w]].status = "required" /\ tasks[task[w]].plan = PlanOf(w)
  BY <1>1 DEF PlanInv, DecisionRight
<1>3. /\ Len(approvals') = Len(approvals)
      /\ approvals'[appr[w]] = [approvals[appr[w]] EXCEPT !.task = task[w]]
  BY <1>1, AttachFacts DEF AttachDetails, SameApprovals
<1>4. approvals[appr[w]] \in Approval
  BY <1>1, ManagerDomains
<1>5. approvals'[appr[w]].status = "required" /\ approvals'[appr[w]].task = task[w]
  BY <1>2, <1>3, <1>4 DEF Approval
<1>6. appr[w] \in Pending'
  <2>1. (DOMAIN approvals)' = 1..Len(approvals')
    BY ManagerDomains
  <2> QED
    BY <1>1, <1>3, <1>5, <2>1 DEF Pending
<1>7. \A p \in Plans : Answers(w, p) => AskedFor(p)'
  <2> SUFFICES ASSUME NEW p \in Plans, Answers(w, p) PROVE AskedFor(p)'
    OBVIOUS
  <2>1. tasks[task[w]].plan = p
    BY <1>1, <1>2 DEF Answers, PlanOf
  <2> QED
    BY <1>1, <1>5, <1>6, <2>1 DEF AskedFor
<1> QED
  BY <1>1, <1>7, SameStatus DEF PlansWait

\* Saving a plan, running it, asking for its step and finishing it.
LEMMA PlanWaits ==
  ASSUME OneRequest, TypeInv, PlanInv, NEW w \in Workers, KeepsAsked,
         SavePlan(w) \/ RunPlan(w) \/ GateCloses(w) \/ PlanDone(w)
  PROVE  PlansWait(w)'
<1>1. pc[w] \in {"save_plan", "run_plan", "gate", "plan_done"}
  BY DEF SavePlan, RunPlan, GateCloses, PlanDone, At
<1>2. \A p \in Plans : ~Answers(w, p)
  BY <1>1, AnswersNothing
<1>3. req[w] \in Requests
  BY <1>1, LocalValues
<1>4. Kind(w) \in {"goal", "preview"} => req[w].plan \in Plans
  BY <1>3, RequestFacts DEF Kind
<1>5. CASE SavePlan(w) \/ RunPlan(w) \/ PlanDone(w)
  <2>1. req[w].plan \in Plans
    BY <1>4, <1>5 DEF SavePlan, RunPlan, PlanDone, At, TypeInv, Shape, ShapeAt, Kind
  <2>2. \E s \in {"pending", "running", "completed"} : SetPlan(req[w].plan, s)
    BY <1>5 DEF SavePlan, RunPlan, PlanDone
  <2> QED
    BY <1>2, <2>1, <2>2, OtherStatus DEF PlansWait
<1>6. CASE GateCloses(w) /\ Kind(w) = "goal"
  <2>1. PICK q \in Plans : q = req[w].plan
    BY <1>4, <1>6
  <2>2. SetPlan(q, "waiting_approval")
    BY <1>6, <2>1 DEF GateCloses
  <2>3. pc'[w] = "ask" /\ req'[w] = req[w]
    BY <1>6, After DEF GateCloses, locals
  <2>4. Answers(w, q)'
    BY <1>6, <2>1, <2>3 DEF Answers, Kind
  <2> QED
    BY <1>2, <2>2, <2>4, OtherStatus DEF PlansWait
<1>7. CASE GateCloses(w) /\ Kind(w) # "goal"
  <2>1. UNCHANGED planStatus
    BY <1>7 DEF GateCloses
  <2> QED
    BY <1>2, <2>1, SameStatus DEF PlansWait
<1> QED
  BY <1>5, <1>6, <1>7

\* The decision is carried out: its plan waits no longer.
LEMMA OutcomeWaits ==
  ASSUME OneRequest, TypeInv, PlanInv, NEW w \in Workers, KeepsAsked,
         CompleteApprovedStep(w) \/ FailStep(w) \/ CancelTask(w)
  PROVE  PlansWait(w)'
<1> DEFINE q == tasks[task[w]].plan
<1>1. pc[w] \in {"complete_step", "fail_step", "cancel_task"}
  BY DEF CompleteApprovedStep, FailStep, CancelTask, At
<1>2. \A p \in Plans : Answers(w, p) => p = q /\ OfPlan(w)
  BY <1>1, ConstantsOK DEF Answers, OfPlan
<1>3. CASE OfPlan(w)
  <2>1. q \in Plans
    BY <1>3, PlanOfTask
  <2>2. \E s \in {"completed", "running", "failed", "cancelled"} : SetPlan(q, s)
    <3>1. CASE CompleteApprovedStep(w)
      BY <1>3, <3>1 DEF CompleteApprovedStep
    <3>2. CASE FailStep(w)
      BY <1>3, <3>2 DEF FailStep
    <3>3. CASE CancelTask(w)
      BY <1>3, <3>3 DEF CancelTask
    <3> QED
      BY <3>1, <3>2, <3>3
  <2> HIDE DEF q
  <2> QED
    BY <1>2, <2>1, <2>2, OtherStatus DEF PlansWait
<1>4. CASE ~OfPlan(w)
  <2>1. UNCHANGED planStatus
    BY <1>4 DEF CompleteApprovedStep, FailStep, CancelTask
  <2> QED
    BY <1>2, <1>4, <2>1, SameStatus DEF PlansWait
<1> QED
  BY <1>3, <1>4

\* Deciding: the plan of the approval that is decided is answered from then on.
LEMMA DecideWaits ==
  ASSUME OneRequest, TypeInv, TypeInv', PlanInv, NEW w \in Workers, SamePlans,
         Approve(w) \/ Reject(w)
  PROVE  PlansWait(w)'
<1>1. /\ UNCHANGED <<planStatus, tasks, req>> /\ pc[w] = "decide" /\ SharedTypes
      /\ task'[w] = approvals[appr[w]].task
      /\ appr[w] \in 1..Len(approvals)
  <2>1. UNCHANGED <<planStatus, tasks, req>> /\ pc[w] = "decide" /\ SharedTypes
    BY LocalValues DEF Approve, Reject, Decide, At
  <2>2. task'[w] = approvals[appr[w]].task
    BY LocalValues DEF Approve, Reject, Decide, LocalTypes
  <2>3. Kind(w) \in {"confirm", "reject"}
    BY DEF Approve, Reject
  <2>4. appr[w] \in 1..Len(approvals)
    BY <2>1, <2>3, LocalValues DEF TypeInv, Shape, ShapeAt, Kind
  <2> QED
    BY <2>1, <2>2, <2>4
<1>2. \/ Kind(w) = "confirm" /\ Goto(w, <<>>, "resume")
      \/ Goto(w, <<>>, "cancel_task")
  BY DEF Approve, Reject, Decide
<1>3. Kind(w)' = Kind(w) /\ ((Kind(w) = "confirm" /\ pc'[w] = "resume") \/ pc'[w] = "cancel_task")
  BY <1>1, <1>2, After DEF Kind
<1>4. \A p \in Plans : ~Answers(w, p)
  BY <1>1, AnswersNothing
<1>5. SameApprovals(appr[w])
  <2>1. \E s \in {"approved", "rejected"} : approvals' = [approvals EXCEPT ![appr[w]].status = s]
    BY DEF Approve, Reject, Decide
  <2> QED
    BY <1>1, <2>1, DecideFacts DEF ApprovalStatus
<1>6. ASSUME NEW p \in Plans, AskedFor(p) PROVE AskedFor(p)' \/ Answers(w, p)'
  <2>1. PICK a \in Pending : approvals[a].task # 0 /\ tasks[approvals[a].task].plan = p
    BY <1>6 DEF AskedFor
  <2>2. CASE a = appr[w]
    BY <1>1, <1>3, <2>1, <2>2 DEF Answers
  <2>3. CASE a # appr[w]
    <3>1. a \in 1..Len(approvals) /\ approvals[a].status = "required"
      BY <2>1, PendingFacts
    <3>2. Len(approvals') = Len(approvals) /\ approvals'[a] = approvals[a]
      BY <1>5, <2>3, <3>1 DEF SameApprovals
    <3>3. a \in Pending'
      <4>1. (DOMAIN approvals)' = 1..Len(approvals')
        BY ManagerDomains
      <4> QED
        BY <3>1, <3>2, <4>1 DEF Pending
    <3> QED
      BY <1>1, <2>1, <3>2, <3>3 DEF AskedFor
  <2> QED
    BY <2>2, <2>3
<1> QED
  BY <1>1, <1>4, <1>6, WaitsFor DEF PlansWait

LEMMA NextPlan ==
  ASSUME OneRequest, "raises" \notin Outcomes, TypeInv, TypeInv', RestInv, PlanInv, [Next]_vars
  PROVE  PlanInv'
<1>1. CASE UNCHANGED vars
  BY <1>1 DEF vars, PlanInv, DecisionRight, Carries, Midway, AskedFor, Answers, Pending, Engine, Kind, PlanOf
<1>2. ASSUME NEW w \in Workers, Step(w) \/ \E r \in Requests : Receive(w, r) PROVE PlanInv'
  <2>1. DecisionRight(w) /\ DecisionRight(w)'
    BY <1>2, NextRight DEF PlanInv
  <2>2. SamePlans
    BY <1>2, SamePlansSteps
  <2>3. CASE Approve(w) \/ Reject(w)
    <3>1. PlansWait(w)'
      BY <2>2, <2>3, DecideWaits
    <3> QED
      BY <2>1, <3>1 DEF PlanInv, PlansWait, OneRequest
  <2>4. CASE ~Approve(w) /\ ~Reject(w)
    <3>1. KeepsAsked
      BY <1>2, <2>1, <2>4, KeepsAskedSteps
    <3>2. PlansWait(w)'
      BY <1>2, <2>2, <2>4, <3>1, IdleWaits, AnswerWaits, AttachWaits, PlanWaits, OutcomeWaits DEF Step
    <3> QED
      BY <2>1, <3>2 DEF PlanInv, PlansWait, OneRequest
  <2> QED
    BY <2>3, <2>4
<1> QED
  BY <1>1, <1>2 DEF Next

\* One conversation, whose requests come one after the other, tools that raise nothing
\* unforeseen and plans as planner.py makes them: a plan that is shown as waiting for
\* approval has an approval that can still be decided.
THEOREM WaitingPlanIsAsked ==
  OneRequest /\ PlansAsPlanned /\ "raises" \notin Outcomes => (Spec => []WaitingPlanHasApproval)
<1> SUFFICES ASSUME OneRequest, PlansAsPlanned, "raises" \notin Outcomes
             PROVE  Spec => []WaitingPlanHasApproval
  OBVIOUS
<1>1. Init => PlanInv
  <2> SUFFICES ASSUME Init PROVE PlanInv
    OBVIOUS
  <2>1. ASSUME NEW w \in Workers PROVE DecisionRight(w)
    <3>1. pc[w] = "idle"
      BY DEF Init
    <3> QED
      BY <3>1 DEF DecisionRight
  <2>2. \A p \in Plans : planStatus[p] = "absent"
    BY DEF Init
  <2> QED
    BY <2>1, <2>2 DEF PlanInv
<1>2. TypeInv /\ RestInv /\ PlanInv /\ [Next]_vars => (TypeInv /\ RestInv /\ PlanInv)'
  BY NextTypes, NextRest, NextPlan
<1>3. TypeInv /\ PlanInv => WaitingPlanHasApproval
  <2> SUFFICES ASSUME TypeInv, PlanInv, \A e \in Engines : Quiet(e),
                      NEW p \in Plans, planStatus[p] = "waiting_approval"
               PROVE  AskedFor(p)
    BY DEF WaitingPlanHasApproval, AskedFor
  <2>1. \A w \in Workers : ~Answers(w, p)
    <3>1. \A w \in Workers : pc[w] = "idle"
      BY ConstantsOK DEF Quiet
    <3> QED
      BY <3>1 DEF Answers
  <2> QED
    BY <2>1 DEF PlanInv
<1> QED
  BY <1>1, <1>2, <1>3, InitTypeInv, RestInvariant, PTL DEF Spec
================================================================================
