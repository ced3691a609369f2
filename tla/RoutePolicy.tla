------------------------------ MODULE RoutePolicy ------------------------------
(***************************************************************************)
(* How the LLM router classifies a request and which providers it may use: *)
(* llm/intelligence_classifiers.py, llm/omniroute/classifier.py,           *)
(* llm/omniroute/policy.py, llm/omniroute/registry.py and the chains of    *)
(* llm/intelligence_router.py, as operators.                               *)
(*                                                                         *)
(* A request m is a record.  The keyword searches of the classifiers are   *)
(* m.topics, the task types whose keywords occur in the text, m.words, the *)
(* phrases the category looks for, and m.sensitive.  m.task and m.privacy  *)
(* are the overrides of its metadata ("none" when absent or unknown).      *)
(* A configuration g is a record: the settings of OmniRoute and g.routes,  *)
(* the sequence list_routes returns, in the order of the route ids.        *)
(***************************************************************************)
EXTENDS Naturals, Sequences, FiniteSets

LOCAL INSTANCE SequencesExt

CONSTANT Chains  \* [coding, reasoning, simple]: LLM_ROUTING_CODING, _REASONING, _SIMPLE

(***************************************************************************)
(* Classification                                                          *)
(***************************************************************************)
\* The order in which CapabilityClassifier tries its keywords.
TaskOrder == <<"intent_resolution", "coding", "planning", "world_intelligence",
  "vision", "voice", "retrieval", "structured_extraction", "summarization",
  "tool_planning", "creative", "reasoning">>

TaskType(m) ==
  LET hits == SelectSeq(TaskOrder, LAMBDA t : t \in m.topics)
  IN  IF m.task # "none" THEN m.task
      ELSE IF hits = <<>> THEN "conversation" ELSE hits[1]

\* PrivacyClassifier: the override wins over the sensitive keywords.
PrivacyClass(m) ==
  IF m.privacy # "none" THEN m.privacy
  ELSE IF m.sensitive THEN "local_only" ELSE "local_preferred"

\* Mutant of RoutePrivacy: the request's own word is enough.
TrustedPrivacy(m) == PrivacyClass(m)

\* The classification of the gateway: a cloud class counts only when the server
\* authorized it.
RoutePrivacy(m) ==
  IF PrivacyClass(m) \in {"cloud_allowed", "cloud_required"} /\ ~m.authorized
  THEN "local_preferred" ELSE PrivacyClass(m)

CategoryOf == [
  conversation |-> "simple_conversation",    general |-> "simple_conversation",
  summarization |-> "summarization",         planning |-> "software_architecture",
  reasoning |-> "complex_reasoning",         retrieval |-> "research_synthesis",
  world_intelligence |-> "research_synthesis",
  structured_extraction |-> "structured_extraction",
  creative |-> "creative_writing",           vision |-> "vision",
  tool_planning |-> "tool_planning",         intent_resolution |-> "classification"]

Category(m) ==
  LET task == TaskType(m)
  IN  IF m.voice \/ task = "voice" THEN "voice_conversation"
      ELSE IF "long_context" \in m.words THEN "long_context"
      ELSE IF m.command THEN "system_command"
      ELSE IF m.document THEN "private_document"
      ELSE CASE task = "coding"            -> IF "review" \in m.words THEN "code_review"
                                              ELSE IF "failure" \in m.words
                                              THEN "debugging" ELSE "coding"
             [] task \in DOMAIN CategoryOf -> CategoryOf[task]
             [] OTHER                      -> "unknown"

CapabilitiesOf == [
  simple_conversation |-> {"general_chat", "low_latency"},
  voice_conversation |-> {"general_chat", "low_latency"},
  classification |-> {"low_latency", "structured_output"},
  coding |-> {"coding"},
  code_review |-> {"coding", "reasoning"},
  debugging |-> {"coding", "reasoning"},
  software_architecture |-> {"reasoning", "coding", "long_context"},
  complex_reasoning |-> {"reasoning", "high_reliability"},
  long_context |-> {"long_context"},
  structured_extraction |-> {"structured_output"},
  research_synthesis |-> {"reasoning", "long_context"},
  multilingual |-> {"multilingual"},
  vision |-> {"vision"},
  tool_planning |-> {"reasoning", "structured_output"},
  private_document |-> {"local_execution", "long_context"}]

Required(m) ==
  (IF Category(m) \in DOMAIN CapabilitiesOf THEN CapabilitiesOf[Category(m)]
   ELSE {"general_chat"})
  \cup (IF RoutePrivacy(m) = "local_only" THEN {"local_execution"} ELSE {})

(***************************************************************************)
(* The gateway's routes                                                    *)
(***************************************************************************)
Listed(allowed, x) == allowed = {} \/ x \in allowed

OperatorApproved(g, route) ==
  /\ route.enabled
  /\ route.locality # "unknown"
  /\ route.terms = "approved"
  /\ Listed(g.allowedRoutes, route.id)
  /\ Listed(g.allowedProviders, route.provider)
  /\ Listed(g.allowedModels, route.model)

\* A cloud route is for requests the server allowed to leave.
CloudAllowed(g, route, m) ==
  /\ g.allowCloud
  /\ RoutePrivacy(m) = "cloud_allowed"
  /\ route.privacy \in {"cloud_allowed", "public_only"}

\* OmniRouteSelectionPolicy._hard_filter finds nothing against the route.  The
\* router gives the policy neither discovered models nor measured health.
PassesFilter(g, route, m) ==
  /\ OperatorApproved(g, route)
  /\ route.locality \notin {"unknown", "mixed"}
  /\ route.locality = "cloud" => CloudAllowed(g, route, m)
  /\ RoutePrivacy(m) = "local_only" => route.locality = "local"
  /\ route.locality = "local" => route.privacy = "local_only"
  /\ Required(m) \subseteq route.capabilities
  /\ "structured_output" \in Required(m) => route.structured
  /\ "tool_calling" \in Required(m) => route.tools
  /\ m.tokens <= route.window
  /\ Category(m) \notin {"system_command", "safety_sensitive"}

\* The value a table gives a class, and that of a class it does not know.
Rate(table, class, other) == IF class \in DOMAIN table THEN table[class] ELSE other

\* OmniRouteSelectionPolicy._score in ten-thousandths, of a route that passed
\* the filter: it has every capability required and room for the context.
Score(route, m) ==
  25 * 100
  + 15 * (IF Category(m) \in route.tasks THEN 100 ELSE 40)
  + 15 * Rate([high |-> 100, balanced |-> 70, standard |-> 60], route.quality, 40)
  + 12 * 75
  + 10 * Rate([very_low |-> 100, low |-> 90, balanced |-> 65, high |-> 30],
              route.latency, 40)
  + 8 * 100
  + 5 * Rate([healthy |-> 100, limited |-> 50, unknown |-> 40], route.quota, 40)
  + 5 * Rate([free_development |-> 80, low |-> 80, medium |-> 60, high |-> 30],
             route.cost, 40)
  + 5 * route.priority

Eligible(g, m) == {i \in DOMAIN g.routes : PassesFilter(g, g.routes[i], m)}

\* The route select returns: the highest score, the lowest id among equals.
\* Empty when the gateway is off, has no key, or no route passes.
Best(g, m) ==
  {i \in Eligible(g, m) :
     /\ g.enabled /\ g.key
     /\ \A j \in Eligible(g, m) :
          LET mine == Score(g.routes[i], m)  theirs == Score(g.routes[j], m)
          IN  theirs < mine \/ (theirs = mine /\ i <= j)}

(***************************************************************************)
(* The direct providers                                                    *)
(***************************************************************************)
LocalProviders == {"ollama", "mock", "llama_cpp", "lm_studio", "vllm", "airllm"}

PrivacyAllows(provider, privacy) ==
  privacy = "local_only" => provider \in LocalProviders

ChainFor(task, privacy) ==
  IF privacy = "local_only" THEN <<"ollama", "mock">>
  ELSE CASE task = "coding"                               -> Chains.coding
         [] task \in {"reasoning", "planning", "guidance"} -> Chains.reasoning
         [] OTHER                                         -> Chains.simple

Dedupe(providers) ==
  FoldLeft(LAMBDA seen, p : IF p = "unknown" \/ p \in ToSet(seen) THEN seen
                            ELSE Append(seen, p), <<>>, providers)

\* IntelligenceRouter._fallback_chain
FallbackChain(m) ==
  LET privacy == PrivacyClass(m)
      chain == ChainFor(TaskType(m), privacy)
      asked == IF m.provider \in {"mock", "unknown", "omniroute"} \cup ToSet(chain)
               THEN chain ELSE <<m.provider>> \o chain
  IN  Dedupe(SelectSeq(asked, LAMBDA p : PrivacyAllows(p, privacy)))

\* LLMProviderRegistry.create_provider: the providers of the future have no
\* adapter, and no gateway route has the model select_model falls back to.
Configured(provider) == provider \in {"mock", "ollama"}

(***************************************************************************)
(* The candidates of a request, in the order they are tried                *)
(***************************************************************************)
Direct(provider) == [provider |-> provider, route |-> 0]
Through(i)       == [provider |-> "omniroute", route |-> i]

Then(chosen, providers) ==
  [k \in 1 .. Len(chosen) + Len(providers) |->
     IF k <= Len(chosen) THEN chosen[k] ELSE Direct(providers[k - Len(chosen)])]

\* The selected route, as a sequence of at most one candidate.
Selections(g, m) ==
  IF Best(g, m) = {} THEN {<<>>} ELSE {<<Through(i)>> : i \in Best(g, m)}

\* generate: the selected route, then the whole chain.
GenerateCandidates(chosen, m) == Then(chosen, FallbackChain(m))

\* generate_stream: the selected route when it may be streamed, then the
\* configured providers of the chain.
StreamCandidates(g, chosen, m) ==
  LET streamed == g.streaming /\ chosen # <<>> /\ g.routes[chosen[1].route].streams
  IN  Then(IF streamed THEN chosen ELSE <<>>, SelectSeq(FallbackChain(m), Configured))
================================================================================
