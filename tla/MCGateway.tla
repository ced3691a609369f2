------------------------------- MODULE MCGateway -------------------------------
(* Instance of Gateway for TLC. *)
EXTENDS Gateway

CONSTANTS r1, r2

Plain == [task |-> "none", topics |-> {}, words |-> {}, privacy |-> "none",
  sensitive |-> FALSE, authorized |-> FALSE, voice |-> FALSE, command |-> FALSE,
  document |-> FALSE, structured |-> FALSE, suspicious |-> FALSE, tokens |-> 10,
  provider |-> "ollama"]

\* Reasoning the server allowed to leave, the same as a system command, typed and
\* spoken, creative work that asks for the cloud without its authority, a structured
\* extraction that names a password, and an injection.
Cloud      == [Plain EXCEPT !.topics = {"reasoning"}, !.privacy = "cloud_allowed",
                            !.authorized = TRUE]
Command    == [Cloud EXCEPT !.command = TRUE]
Voiced     == [Command EXCEPT !.voice = TRUE]
Unproved   == [Cloud EXCEPT !.topics = {"creative"}, !.authorized = FALSE,
                            !.provider = "openai"]
Extraction == [Plain EXCEPT !.topics = {"structured_extraction", "creative"},
                            !.sensitive = TRUE, !.structured = TRUE]
Injection  == [Plain EXCEPT !.suspicious = TRUE]

MCMessages == {Command, Voiced, Unproved, Extraction, Injection}
StreamMessages == {Cloud, Plain}

CloudRoute == [id |-> "a", provider |-> "p", model |-> "large", enabled |-> TRUE,
  locality |-> "cloud", privacy |-> "cloud_allowed", terms |-> "approved",
  capabilities |-> {"reasoning", "high_reliability", "general_chat", "low_latency"},
  structured |-> FALSE, tools |-> FALSE, streams |-> TRUE, window |-> 100,
  tasks |-> {"complex_reasoning"}, quality |-> "high", latency |-> "low",
  quota |-> "healthy", cost |-> "medium", priority |-> 50]
LocalRoute == [CloudRoute EXCEPT !.id = "b", !.model = "small", !.locality = "local",
  !.privacy = "local_only", !.structured = TRUE, !.quality = "standard",
  !.capabilities = {"structured_output", "local_execution"}]

MCGatewaySettings == [enabled |-> TRUE, key |-> TRUE, allowCloud |-> TRUE,
  streaming |-> TRUE, allowedRoutes |-> {}, allowedProviders |-> {"p"},
  allowedModels |-> {}, routes |-> <<CloudRoute, LocalRoute>>]

MCChains == [coding |-> <<"openai", "ollama", "mock">>,
             reasoning |-> <<"ollama", "mock">>,
             simple |-> <<"ollama">>]
================================================================================
