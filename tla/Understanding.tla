----------------------------- MODULE Understanding -----------------------------
(***************************************************************************)
(* What a request of BrainEngine.process_input is taken for: the rules of  *)
(* IntentResolver, the proposal that BrainOrchestrator asks of a model,    *)
(* the candidate that LLMAssistedIntentResolver asks of one, and the draft *)
(* of a plan that LLMAssistedPlanner asks of one.  Each answer is untrusted *)
(* and either accepted by its validator or dropped for what the rules say. *)
(* A step is what the request does between two answers.  A model that is   *)
(* not enabled, not asked because the words are suspicious, or fails, gives *)
(* the answer "none".                                                      *)
(*                                                                         *)
(* Words are the phrases and parts the rules look for.  The flows that the *)
(* outcomes lead to are the requests of BrainEngine.                       *)
(***************************************************************************)
EXTENDS Naturals, Sequences

CONSTANTS
  Named,     \* bound: actions a model names
  Listed,    \* tool_registry.list_actions
  Firewall   \* Firewall[a]: "allowed", "approval" or "blocked"

ASSUME UnderstandingConstantsOK ==
  /\ Listed \subseteq Named
  /\ Firewall \in [Listed -> {"allowed", "approval", "blocked"}]

VARIABLES
  words,    \* what is asked
  at,    \* "asked", "orchestrating", "assisting", "planning", "handled"
  intent,   \* the intent so far
  heeded,   \* the answers of models that were accepted
  outcome   \* the flow that handles the request

understandingVars == <<words, at, intent, heeded, outcome>>

(***************************************************************************)
(* IntentResolver                                                          *)
(***************************************************************************)
Exact == {"status", "briefing", "yes", "no", "world", "again", "recall"}

\* plain: without punctuation around its words; part: an action's or a goal's words
\* somewhere in it; aside: caught before any intent is resolved; topic: what the
\* words are about if nothing else handles them.
Utterances ==
  {u \in [phrase : Exact \cup {"action", "goal", "free"}, plain : BOOLEAN,
          part : {"none", "action", "goal"}, voice : BOOLEAN,
          aside : {"none", "blocked", "operational"}, topic : {"general", "unsafe", "knowledge"}] :
     /\ u.phrase \in Exact => u.part = "none"
     /\ u.phrase = "action" => u.part # "goal"
     /\ u.phrase = "goal" => u.part = "goal"
     /\ u.phrase = "free" => u.plain
     /\ u.aside # "none" => u.phrase = "free" /\ u.part = "none" /\ u.topic = "general"}

Intent(type, action) == [type |-> type, action |-> action]
Unknown == Intent("unknown", "none")

\* Only status and briefing are looked up without punctuation.
Says(u, phrase) == u.phrase = phrase /\ (u.plain \/ phrase \in {"status", "briefing"})

\* resolve; the confidence of a part is 0.75.
Resolve(u) ==
  CASE Says(u, "status")   -> Intent("system", "get_system_status")
    [] Says(u, "briefing") -> Intent("daily_briefing", "daily_briefing")
    [] Says(u, "yes")      -> Intent("approval_confirm", "none")
    [] Says(u, "no")       -> Intent("approval_reject", "none")
    [] Says(u, "action") \/ u.part = "action" -> Intent("action", "spoken")
    [] Says(u, "goal") \/ u.part = "goal"     -> Intent("goal", "none")
    [] Says(u, "world")    -> Intent("world_intelligence", "get_world_briefing")
    [] OTHER -> Unknown

Confidence(u) ==
  CASE Resolve(u) = Unknown -> 0
    [] u.part # "none" /\ ~Says(u, "action") /\ ~Says(u, "goal") -> 75
    [] OTHER -> 95

(***************************************************************************)
(* BrainOrchestrator                                                       *)
(***************************************************************************)
BrainIntentTypes ==
  {"conversation", "planning", "coding", "research", "vision", "voice", "world", "calendar",
   "memory", "execution", "automation", "learning", "approval", "system", "chat", "unknown"}

\* Mutant of LegacyIntentType: an approval counts as the user's own.
ApprovalCounts(type) ==
  CASE type = "world" -> "world_intelligence" [] type = "approval" -> "approval_confirm"
    [] OTHER -> type

LegacyIntentType(type) ==
  CASE type = "world"      -> "world_intelligence"
    [] type = "coding"     -> "coding_help"
    [] type = "research"   -> "universal_knowledge"
    [] type = "planning"   -> "plan"
    [] type = "approval"   -> "approval_response"
    [] type \in {"conversation", "chat"} -> "general_question"
    [] type = "execution"  -> "action"
    [] type = "automation" -> "task"
    [] OTHER -> type

\* unsafe: blocked words, a secret, or a tool that the firewall does not allow.
Proposals ==
  [confidence : {54, 55}, unsafe : BOOLEAN,
   intents : {<<>>} \cup {<<Intent(type, a)>> : type \in BrainIntentTypes,
                                               a \in Named \cup {"none"}}]

\* BrainOrchestrationValidator.validate
ProposalHolds(p) == p.confidence >= 55 /\ ~p.unsafe

(***************************************************************************)
(* LLMAssistedIntentResolver                                               *)
(***************************************************************************)
AllowedActions ==
  [open_website |-> {"open_website", "open_url"}, browser |-> {"open_website", "search_web"},
   email |-> {"draft_email", "send_email", "read_email"},
   calendar |-> {"create_event", "read_calendar", "check_availability"},
   smart_home |-> {"turn_on", "turn_off", "set_temperature", "check_status"},
   finance |-> {"summarize_spending", "check_balance", "review_budget"},
   task |-> {"create_task", "list_tasks", "update_task"},
   plan |-> {"create_plan", "explain_plan", "continue_plan"},
   approval_response |-> {"approve", "reject"},
   world_intelligence |-> {"get_world_briefing", "get_cyber_alerts", "get_world_alerts",
                           "get_project_relevant_updates", "get_ai_research_updates"},
   universal_knowledge |-> {"answer_with_knowledge_flow", "ask_clarifying_questions",
                            "provide_guidance"},
   coding_help |-> {"debug_code", "explain_code", "write_code", "review_repo"},
   general_question |-> {"answer_general"}]

\* suspicious: a prohibited value in the action or the target.
Candidates ==
  [confidence : {54, 55}, suspicious : BOOLEAN,
   intent : {Intent(type, a) : type \in DOMAIN AllowedActions \cup {"unknown", "goal"},
                               a \in Named}]

\* LLMIntentValidator.validate; an unknown intent is not taken for accepted.
CandidateHolds(c) ==
  /\ c.confidence >= 55 /\ ~c.suspicious
  /\ c.intent.type \in DOMAIN AllowedActions
  /\ c.intent.action \in AllowedActions[c.intent.type]

(***************************************************************************)
(* LLMAssistedPlanner                                                      *)
(***************************************************************************)
\* Of every step, whether its action is listed and its words are not suspicious.
Drafts == [confidence : {54, 55}, steps : {<<>>, <<TRUE>>, <<TRUE, FALSE>>}]

\* LLMPlanValidator.validate
DraftHolds(d) ==
  /\ d.confidence >= 55 /\ d.steps # <<>>
  /\ \A i \in DOMAIN d.steps : d.steps[i]

(***************************************************************************)
(* process_input                                                           *)
(***************************************************************************)
Answers(set) == {[kind |-> "none"], [kind |-> "malformed"]} \cup [kind : {"parsed"}, answer : set]

Handled(o) == at' = "handled" /\ outcome' = o /\ UNCHANGED words
Heed(what, holds) == heeded' = IF holds THEN heeded \cup {what} ELSE heeded

ToolTypes == {"open_website", "browser", "email", "calendar", "smart_home", "finance"}

\* _handle_unsafe_cybersecurity_request, _handle_universal_knowledge_request and
\* _handle_conversational_response.
Talk(u) ==
  CASE u.topic = "unsafe" -> "refusal" [] u.topic = "knowledge" -> "knowledge"
    [] OTHER -> "conversation"

\* _handle_llm_proposed_action
Checked(action) ==
  CASE Firewall[action] = "allowed"  -> "action"
    [] Firewall[action] = "approval" -> "forced"
    [] OTHER -> "firewalled"

\* _handle_context_command; the last action is repeated, unless there is none.
ContextCommand == Says(words, "again") \/ Says(words, "recall")

Routed(i) ==
  CASE i.type = "approval_confirm" -> "confirm"
    [] i.type = "approval_reject"  -> "reject"
    [] i.type = "world_intelligence" /\ i.action # "none" -> "world"
    [] OTHER ->
         IF \/ i.type = "system"
            \/ i.type # "world_intelligence" /\ i.action = "get_system_status" THEN "status"
         ELSE IF i.type = "action" /\ i.action # "none" THEN "action"
         ELSE IF i.type \in ToolTypes /\ i.action \in Listed THEN Checked(i.action)
         ELSE Talk(words)

\* From the resolved intent to the flow, or to the planner.
Dispatched(i) ==
  /\ intent' = i
  /\ \/ Says(words, "again") /\ Handled("action")
     \/ ContextCommand /\ Handled("recalled")
     \/ /\ ~ContextCommand
        /\ IF i.type = "goal" \/ (i.type = "plan" /\ i.action = "create_plan")
           THEN at' = "planning" /\ UNCHANGED <<words, outcome>>
           ELSE Handled(Routed(i))

\* Up to the orchestrator: a spoken request that the rules do not know goes straight to
\* the conversation.
Ask ==
  /\ at = "asked"
  /\ CASE words.aside = "blocked"     -> Handled("blocked")
       [] words.aside = "operational" -> Handled("operational")
       [] OTHER ->
            CASE Resolve(words).type = "system" -> Handled("status")
              [] words.voice /\ Resolve(words) = Unknown -> Handled("conversation")
              [] OTHER -> at' = "orchestrating" /\ UNCHANGED <<words, outcome>>
  /\ intent' = Resolve(words)
  /\ UNCHANGED heeded

\* orchestrate and to_intent_result; without an accepted intent the resolver is asked.
Orchestrate(r) ==
  LET holds == r.kind = "parsed" /\ ProposalHolds(r.answer)
  IN  /\ at = "orchestrating"
      /\ Heed("proposal", holds)
      /\ IF holds /\ r.answer.intents # <<>>
         THEN LET i == Head(r.answer.intents)
              IN  Dispatched(Intent(LegacyIntentType(i.type), i.action))
         ELSE at' = "assisting" /\ UNCHANGED <<words, intent, outcome>>

\* resolve of the assisted resolver: what the rules are sure of stands.
Assist(r) ==
  LET asked == Resolve(words) = Unknown \/ Confidence(words) < 85
      holds == asked /\ r.kind = "parsed" /\ CandidateHolds(r.answer)
  IN  /\ at = "assisting"
      /\ Heed("candidate", holds)
      /\ Dispatched(IF holds THEN r.answer.intent ELSE Resolve(words))

\* Mutant of Plan: a draft is taken as soon as it can be read.
PlanUnchecked(r) ==
  /\ at = "planning"
  /\ Heed("draft", r.kind = "parsed" /\ DraftHolds(r.answer))
  /\ Handled(IF r.kind = "parsed" \/ intent.type = "plan" THEN "preview" ELSE "plan")
  /\ UNCHANGED intent

\* create_plan: the plan of the rules or an accepted draft.  A draft, and any plan
\* that a model asked for, is only shown.
Plan(r) ==
  LET holds == r.kind = "parsed" /\ DraftHolds(r.answer)
  IN  /\ at = "planning"
      /\ Heed("draft", holds)
      /\ Handled(IF holds \/ intent.type = "plan" THEN "preview" ELSE "plan")
      /\ UNCHANGED intent

UnderstandingInit ==
  /\ words \in Utterances
  /\ at = "asked" /\ intent = Unknown /\ heeded = {} /\ outcome = "none"

UnderstandingNext ==
  \/ Ask
  \/ \E r \in Answers(Proposals) : Orchestrate(r)
  \/ \E r \in Answers(Candidates) : Assist(r)
  \/ \E r \in Answers(Drafts) : Plan(r)

UnderstandingSpec == UnderstandingInit /\ [][UnderstandingNext]_understandingVars

(***************************************************************************)
(* Properties                                                              *)
(***************************************************************************)
\* What a request leads to when there is no model at all.
ByRules(u) ==
  IF u.aside # "none" THEN {u.aside}
  ELSE IF Says(u, "again") \/ Says(u, "recall")
  THEN IF u.voice THEN {"conversation"}
       ELSE {"recalled"} \cup (IF Says(u, "again") THEN {"action"} ELSE {})
  ELSE LET type == Resolve(u).type
       IN  CASE type = "system"             -> {"status"}
             [] type = "approval_confirm"   -> {"confirm"}
             [] type = "approval_reject"    -> {"reject"}
             [] type = "action"             -> {"action"}
             [] type = "goal"               -> {"plan"}
             [] type = "world_intelligence" -> {"world"}
             [] u.voice /\ type = "unknown" -> {"conversation"}
             [] OTHER -> {Talk(u)}

\* Wherever on its way an answer is missing, malformed, doubtful or refused: a request of
\* which no answer was accepted is handled as the rules alone handle it.
\* (The fallbacks of orchestrate, process_input, resolve and create_plan together.)
DegradesToRules == outcome # "none" /\ heeded = {} => outcome \in ByRules(words)

\* However models classify a request and whatever they propose, an approval is settled,
\* and a plan is carried out, only if the rules found that in the words themselves.
OnlyWordsCommit ==
  /\ outcome = "confirm" => Says(words, "yes")
  /\ outcome = "reject" => Says(words, "no")
  /\ outcome = "plan" => Resolve(words).type = "goal" /\ "draft" \notin heeded
================================================================================
