------------------------------ MODULE MCServices -------------------------------
(* Instances of StreamBridge, AgentLifecycle, Briefing, WorldCycle and Understanding *)
(* for TLC, side by side: a behaviour runs one part and leaves the others as they    *)
(* began.                                                                            *)
EXTENDS StreamBridge, AgentLifecycle, Briefing, WorldCycle, Understanding

CONSTANTS t1, t2, k1, c1, c2, r1, r2, r3, r4

(* Briefing *)
Fact(id, kind, ends, status) == [id |-> id, kind |-> kind, ends |-> ends, status |-> status]
TaskFact  == Fact("task", "task", "completed", "")
AuditFact == Fact("audit", "audit", "error", "")
AgentFact == Fact("agent", "agent", "FAILED", "WAITING_FOR_APPROVAL")

\* A house with everything connected, and the one the code wires by default.
FullHouse ==
  [database |-> TRUE, llm |-> TRUE, voice |-> "up", mail |-> "real", calendar |-> "real",
   networked |-> 1, stream |-> TRUE, letters |-> <<"urgent", "informational">>, events |-> 1,
   world |-> <<[id |-> "feed", type |-> "news", enabled |-> TRUE, trust |-> "trusted"]>>,
   advisories |-> TRUE,
   approvals |-> <<[id |-> "approval", status |-> "pending", risk |-> "blocked"]>>,
   skills |-> <<[id |-> "skill", status |-> "approval_required", approval |-> TRUE]>>,
   catalog |-> TRUE]
BareHouse ==
  [database |-> FALSE, llm |-> FALSE, voice |-> "mock", mail |-> "none", calendar |-> "none",
   networked |-> 0, stream |-> FALSE, letters |-> <<>>, events |-> 0, world |-> <<>>,
   advisories |-> FALSE, approvals |-> <<>>, skills |-> <<>>, catalog |-> FALSE]

Wired(names, house, facts, slow, failing, limit, end) ==
  [wired |-> names, house |-> house, facts |-> facts, slow |-> slow, failing |-> failing,
   limit |-> limit, end |-> end]

MCFacts == {TaskFact, AuditFact, AgentFact}
\* Overlapping briefings of one dated source each; one briefing of the other sources.
MCSetups ==
  {Wired(<<"agents">>, BareHouse, {AgentFact}, {"agents"}, {}, 2, 2),
   Wired(<<"activity">>, BareHouse, {TaskFact}, {}, {"activity"}, 2, 3),
   Wired(<<"agents", "activity">>, BareHouse, {AuditFact, AgentFact}, {}, {"activity"}, 1, 2)}
  \cup {Wired(<<"skills", "systems", "messages", "schedule", "world", "approvals">>, house, {},
              {"systems"}, {"messages"}, 1, 1) : house \in {FullHouse, BareHouse}}

(* WorldCycle *)
Event(id, category, severity, tags, others, alert, confidence, verification) ==
  [id |-> id, category |-> category, severity |-> severity, tags |-> tags,
   words |-> tags \cup others, alert |-> alert, confidence |-> confidence,
   verification |-> verification]
MCFeed ==
  <<Event("hoax", "cybersecurity", "critical", {"cloud"}, {}, TRUE, 90, "false"),
    Event("rumour", "geopolitics", "high", {}, {"markets"}, TRUE, 20, "unverified"),
    Event("paper", "ai_research", "medium", {"llm"}, {}, FALSE, 80, "multi_source"),
    Event("storm", "weather", "high", {}, {"travel"}, FALSE, 60, "trusted_source")>>
\* One loop shared by two requests; two loops with repositories on one database.
MCLoopOf == [r \in {r1, r2, r3, r4} |-> CASE r = r3 -> "third" [] r = r4 -> "fourth" [] OTHER -> "shared"]
\* One without interests of its own, two with one and with tasks, one whose list is empty.
MCContextOf == [r \in {r1, r2, r3, r4} |->
                  [own |-> r # r1, interests |-> IF r \in {r2, r4} THEN {"travel"} ELSE {},
                   tasks |-> r \in {r2, r4}]]

(* Understanding *)
MCNamed == {"get_system_status", "create_plan", "send_email", "draft_email", "open_website",
            "create_event", "get_world_briefing", "approve"}
MCFirewall == [draft_email |-> "allowed", send_email |-> "approval", create_event |-> "blocked"]

VARIABLE part  \* "bridge", "requests" (no streams), "streams" (one request after the
               \* other, t1 first: they are alike), "briefing", "world",
               \* "understanding"

mcVars == <<bridgeVars, agentVars, briefVars, worldVars, understandingVars, part>>

MCInit ==
  /\ BridgeInit /\ AgentInit /\ BriefInit /\ WorldInit /\ UnderstandingInit
  /\ part \in {"bridge", "requests", "streams", "briefing", "world", "understanding"}
  /\ part # "briefing" => setup = CHOOSE s \in Setups : TRUE
  /\ part # "understanding" => words = CHOOSE u \in Utterances : TRUE

MCNext ==
  /\ \/ part = "bridge" /\ BridgeNext
        /\ UNCHANGED <<agentVars, briefVars, worldVars, understandingVars>>
     \/ part = "requests" /\ AgentNext /\ client' = client
        /\ UNCHANGED <<bridgeVars, briefVars, worldVars, understandingVars>>
     \/ part = "streams" /\ AgentNext /\ calm' /\ (job'[t1] = "idle" => job'[t2] = "idle")
        /\ UNCHANGED <<bridgeVars, briefVars, worldVars, understandingVars>>
     \/ part = "briefing" /\ BriefNext
        /\ UNCHANGED <<bridgeVars, agentVars, worldVars, understandingVars>>
     \/ part = "world" /\ WorldNext
        /\ UNCHANGED <<bridgeVars, agentVars, briefVars, understandingVars>>
     \/ part = "understanding" /\ UnderstandingNext
        /\ UNCHANGED <<bridgeVars, agentVars, briefVars, worldVars>>
  /\ UNCHANGED part

\* The fairness of StreamBridge and of Briefing, for the behaviours that run them.
MCFairness ==
  /\ WF_bridgeVars(part = "bridge" /\ MakerStep)
  /\ WF_bridgeVars(part = "bridge" /\ RunPut)
  /\ WF_bridgeVars(part = "bridge" /\ ReaderStep)
  /\ WF_bridgeVars(part = "bridge" /\ Deadline)
  /\ \A c \in Callers : WF_briefVars(part = "briefing" /\ ServiceStep(c))

MCSpec == MCInit /\ [][MCNext]_mcVars /\ MCFairness
            /\ \A c \in Callers : WF_briefVars(part = "briefing" /\ CollectorStep(c))
\* A source of a briefing may hang.
MCHungSpec == MCInit /\ part = "briefing" /\ [][MCNext]_mcVars /\ MCFairness

\* BridgeEnds and BriefingDelivered, in the behaviours that run their parts.
EveryBridgeEnds == part = "bridge" => BridgeEnds
EveryBriefingDelivered == part = "briefing" => BriefingDelivered
================================================================================
