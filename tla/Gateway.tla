-------------------------------- MODULE Gateway --------------------------------
(***************************************************************************)
(* Requests to the language models: SafeLLMService and the stream endpoint *)
(* in front, IntelligenceRouter.generate and generate_stream with their    *)
(* candidates (RoutePolicy), the circuit breaker of every gateway route,   *)
(* and the routing observatory that follows them.  Requests run in threads *)
(* of their own and share the circuits and the observatory, each behind a  *)
(* lock.  A step is what a request does between two waits: for a provider, *)
(* or for the consumer of its stream.                                      *)
(***************************************************************************)
EXTENDS RoutePolicy

CONSTANTS
  Requests,      \* LLMRequests, each with an id of its own
  Messages,      \* what a request may ask, as records of RoutePolicy
  Modes,         \* "generate", "stream"
  Gateway,       \* OmniRouteSettings and the routes of the registry
  Threshold,     \* circuit_failure_threshold
  Attempts,      \* retry_count + 1
  MaxTokens,     \* bound: tokens of one provider's stream
  HistoryLimit   \* history_limit

Routes == DOMAIN Gateway.routes

\* The observatory keeps 64 records and would drop the oldest for a newer one.
ASSUME GatewayConstantsOK ==
  /\ IsFiniteSet(Requests) /\ Cardinality(Requests) <= 64
  /\ Messages # {} /\ Modes \subseteq {"generate", "stream"}
  /\ Routes \subseteq Nat \ {0}
  /\ \A i \in Routes :
       Gateway.routes[i].locality \in {"local", "cloud", "mixed", "unknown"}
  /\ {Threshold, Attempts, MaxTokens, HistoryLimit} \subseteq Nat \ {0}

VARIABLES
  phase,     \* phase[r]: where the request waits, or how it ended
  msg,       \* msg[r]: its message
  mode,      \* mode[r]: generate or generate_stream
  cands,     \* cands[r]: its candidates
  at,        \* at[r]: the index of the candidate in use
  tries,     \* tries[r]: calls of the candidate that failed (_try_provider)
  tokens,    \* tokens[r]: chunk_index, visible_output is tokens[r] > 0
  shown,     \* shown[r]: some candidate's output was handed on
  circuit,   \* circuit[i]: the GatewayCircuitBreaker of route i
  record,    \* record[r]: _routes of the observatory
  selected,  \* selected[r]: llm.route.selected events
  history    \* _history

askVars     == <<msg, mode, cands>>
watchVars   == <<record, selected, history>>
gatewayVars == <<phase, msg, mode, cands, at, tries, tokens, shown, circuit,
                 record, selected, history>>

Ends   == {"refused", "answered", "exhausted", "broken", "gone"}
Phases == {"new", "routing", "connecting", "calling", "finishing"} \cup Ends

NoRecord == [cand |-> 0, state |-> "none"]
RouteStates == {"none", "connecting", "streaming", "validating", "completed", "failed"}

(***************************************************************************)
(* GatewayCircuitBreaker                                                   *)
(***************************************************************************)
\* opened: _opened_at is set; elapsed: recovery_seconds have passed since.
Closed == [state |-> "healthy", failures |-> 0, opened |-> FALSE, elapsed |-> FALSE]

CircuitStates == {"healthy", "degraded", "rate_limited", "circuit_open", "recovering"}
Circuits == [state : CircuitStates, failures : Nat, opened : BOOLEAN, elapsed : BOOLEAN]
Shut(c) == c.state \in {"circuit_open", "rate_limited"}

Allows(c) == Shut(c) => c.opened /\ c.elapsed

\* allow_request lets every caller through once the time has passed.
AfterAllow(c) == IF Shut(c) /\ Allows(c) THEN [c EXCEPT !.state = "recovering"] ELSE c

\* Mutant of AfterSuccess: the failures are not forgotten.
KeepFailures(c) == [c EXCEPT !.state = "healthy", !.opened = FALSE, !.elapsed = FALSE]

AfterSuccess(c) == Closed

AfterFailure(c, limited) ==
  LET failures == c.failures + 1
  IN  IF limited \/ failures >= Threshold
      THEN [state |-> IF limited THEN "rate_limited" ELSE "circuit_open",
            failures |-> failures, opened |-> TRUE, elapsed |-> FALSE]
      ELSE [c EXCEPT !.state = "degraded", !.failures = failures]

\* The recovery time of a circuit passes.
Elapse(i) ==
  /\ circuit[i].opened /\ ~circuit[i].elapsed
  /\ circuit' = [circuit EXCEPT ![i].elapsed = TRUE]
  /\ UNCHANGED <<phase, msg, mode, cands, at, tries, tokens, shown, record,
                 selected, history>>

(***************************************************************************)
(* The candidate in use                                                    *)
(***************************************************************************)
Current(r)   == cands[r][at[r]]
ByGateway(r) == Current(r).route # 0
ByMock(r)    == Current(r).provider = "mock"

CircuitOf(r) == circuit[Current(r).route]

\* The circuit of the candidate in use, if it has one, becomes c.
OnCircuit(r, c) ==
  circuit' = IF ByGateway(r) THEN [circuit EXCEPT ![Current(r).route] = c] ELSE circuit

\* is_available.  Ollama is asked over the network.
Available(r) ==
  IF ByGateway(r) THEN {Allows(CircuitOf(r))}
  ELSE IF ~Configured(Current(r).provider) THEN {FALSE}
  ELSE IF ByMock(r) THEN {TRUE} ELSE BOOLEAN

(***************************************************************************)
(* LLMRoutingObservatory                                                   *)
(***************************************************************************)
\* route_selected: the request's record is replaced, and an event published.
Announce(r) == selected' = [selected EXCEPT ![r] = @ + 1]

\* _transition: the state of the record, whatever it was.
Follow(r, s) == record' = [record EXCEPT ![r] = [cand |-> at[r], state |-> s]]

\* Mutant of Conclude: the terminal state is not put into the history.
TransitionOnly(r, s) == Follow(r, s) /\ UNCHANGED history

\* _terminal: the state of the record and an entry of the bounded history.
Conclude(r, s) ==
  LET entry == [request |-> r, cand |-> at[r], state |-> s]
      longer == Append(history, entry)
  IN  /\ Follow(r, s)
      /\ history' = IF Len(longer) > HistoryLimit THEN Tail(longer) ELSE longer

\* The loop turns to the next candidate.
NextCandidate(r) ==
  /\ phase' = [phase EXCEPT ![r] = "routing"]
  /\ at' = [at EXCEPT ![r] = @ + 1]
  /\ tries' = [tries EXCEPT ![r] = 0]
  /\ tokens' = [tokens EXCEPT ![r] = 0]

Stay(r, p) ==
  /\ phase' = [phase EXCEPT ![r] = p]
  /\ UNCHANGED <<at, tries, tokens>>

(***************************************************************************)
(* The start of a request                                                  *)
(***************************************************************************)
\* A message that looks like an injection is answered without a provider.
Refuse(r, m, k) ==
  /\ phase[r] = "new" /\ m.suspicious
  /\ Stay(r, "refused")
  /\ msg' = [msg EXCEPT ![r] = m]
  /\ mode' = [mode EXCEPT ![r] = k]
  /\ UNCHANGED <<cands, shown, circuit, record, selected, history>>

Begin(r, m, k) ==
  /\ phase[r] = "new" /\ ~m.suspicious
  /\ Stay(r, "routing")
  /\ msg' = [msg EXCEPT ![r] = m]
  /\ mode' = [mode EXCEPT ![r] = k]
  /\ \E chosen \in Selections(Gateway, m) :
       cands' = [cands EXCEPT ![r] =
                   IF k = "generate" THEN GenerateCandidates(chosen, m)
                   ELSE StreamCandidates(Gateway, chosen, m)]
  /\ UNCHANGED <<shown, circuit, record, selected, history>>

\* A candidate that cannot be used: generate has announced it already and
\* reports the failure, generate_stream passes over it without a word.
Offer(r) ==
  /\ phase[r] = "routing" /\ at[r] \in DOMAIN cands[r]
  /\ OnCircuit(r, AfterAllow(CircuitOf(r)))
  /\ \E up \in Available(r) :
       \/ /\ up
          /\ Stay(r, "connecting")
          /\ Follow(r, "connecting")
          /\ Announce(r)
          /\ UNCHANGED history
       \/ /\ ~up /\ mode[r] = "generate"
          /\ NextCandidate(r)
          /\ Conclude(r, "failed")
          /\ Announce(r)
       \/ /\ ~up /\ mode[r] = "stream"
          /\ NextCandidate(r)
          /\ UNCHANGED watchVars
  /\ UNCHANGED <<msg, mode, cands, shown>>

\* Mutant of Exhausted: the error is reported when there was no candidate.
NoCandidates(r) ==
  /\ phase[r] = "routing" /\ cands[r] = <<>>
  /\ Stay(r, "exhausted")
  /\ UNCHANGED <<msg, mode, cands, shown, circuit, record, selected, history>>

Exhausted(r) ==
  /\ phase[r] = "routing" /\ at[r] \notin DOMAIN cands[r]
  /\ Stay(r, "exhausted")
  /\ UNCHANGED <<msg, mode, cands, shown, circuit, record, selected, history>>

(***************************************************************************)
(* A failed call                                                           *)
(***************************************************************************)
Retry(r) ==
  /\ tries' = [tries EXCEPT ![r] = @ + 1]
  /\ phase' = [phase EXCEPT ![r] = "connecting"]
  /\ UNCHANGED <<at, tokens, record, history>>

\* Mutant of CallFailed: one attempt too many.
RetryOnceMore(r) ==
  /\ mode[r] = "generate"
  /\ IF tries[r] < Attempts THEN Retry(r) ELSE NextCandidate(r) /\ Conclude(r, "failed")
  /\ UNCHANGED <<msg, mode, cands, shown, selected>>

\* generate: _try_provider repeats the call, and the candidate has failed when
\* no attempt is left.
CallFailed(r) ==
  /\ mode[r] = "generate"
  /\ \/ tries[r] + 1 < Attempts /\ Retry(r)
     \/ tries[r] + 1 >= Attempts /\ NextCandidate(r) /\ Conclude(r, "failed")
  /\ UNCHANGED <<msg, mode, cands, shown, selected>>

\* Mutant of StreamFailed: the next candidate speaks after output was shown.
AlwaysFallBack(r) ==
  /\ mode[r] = "stream"
  /\ NextCandidate(r)
  /\ Conclude(r, "failed")
  /\ UNCHANGED <<msg, mode, cands, shown, selected>>

\* generate_stream: after the first token an error ends the request.
StreamFailed(r) ==
  /\ mode[r] = "stream"
  /\ IF tokens[r] = 0 THEN NextCandidate(r) ELSE Stay(r, "broken")
  /\ Conclude(r, "failed")
  /\ UNCHANGED <<msg, mode, cands, shown, selected>>

(***************************************************************************)
(* The call                                                                *)
(***************************************************************************)
\* The provider of the gateway asks the circuit again, and a circuit another
\* request has opened since counts one failure more.
Call(r) ==
  /\ phase[r] = "connecting"
  /\ \/ /\ ByGateway(r) => Allows(CircuitOf(r))
        /\ OnCircuit(r, AfterAllow(CircuitOf(r)))
        /\ Stay(r, "calling")
        /\ UNCHANGED <<msg, mode, cands, shown, record, selected, history>>
     \/ /\ ByGateway(r) /\ ~Allows(CircuitOf(r))
        /\ OnCircuit(r, AfterFailure(CircuitOf(r), FALSE))
        /\ CallFailed(r) \/ StreamFailed(r)

\* The provider answers with an error, or does not answer in time.
FailCall(r) ==
  /\ phase[r] = "calling" /\ ~ByMock(r)
  /\ \E limited \in BOOLEAN : OnCircuit(r, AfterFailure(CircuitOf(r), limited))
  /\ CallFailed(r)

Structured(r) == Gateway.routes[Current(r).route].structured

\* The answer is there, and is not the JSON the request asked for.
Malformed(r) ==
  /\ phase[r] = "calling" /\ mode[r] = "generate"
  /\ ByGateway(r) /\ msg[r].structured
  /\ OnCircuit(r, AfterSuccess(CircuitOf(r)))
  /\ CallFailed(r)

Answer(r) ==
  /\ phase[r] = "calling" /\ mode[r] = "generate"
  /\ ByGateway(r) /\ msg[r].structured => Structured(r)
  /\ OnCircuit(r, AfterSuccess(CircuitOf(r)))
  /\ Stay(r, "answered")
  /\ Conclude(r, "completed")
  /\ UNCHANGED <<msg, mode, cands, shown, selected>>

(***************************************************************************)
(* generate_stream                                                         *)
(***************************************************************************)
\* The stream brings an error event, before or after its first token.
FailStream(r) ==
  /\ phase[r] = "calling" /\ ~ByMock(r)
  /\ \E limited \in BOOLEAN : OnCircuit(r, AfterFailure(CircuitOf(r), limited))
  /\ StreamFailed(r)

\* The base class streams the one answer of the mock as one token.
Token(r) ==
  /\ phase[r] = "calling" /\ mode[r] = "stream"
  /\ tokens[r] < (IF ByMock(r) THEN 1 ELSE MaxTokens)
  /\ tokens' = [tokens EXCEPT ![r] = @ + 1]
  /\ shown' = [shown EXCEPT ![r] = TRUE]
  /\ Follow(r, "streaming")
  /\ UNCHANGED <<phase, msg, mode, cands, at, tries, circuit, selected, history>>

\* The done event is handed on before the route is reported completed.
Done(r) ==
  /\ phase[r] = "calling" /\ mode[r] = "stream"
  /\ ByMock(r) => tokens[r] = 1
  /\ OnCircuit(r, AfterSuccess(CircuitOf(r)))
  /\ Stay(r, "finishing")
  /\ Follow(r, "validating")
  /\ UNCHANGED <<msg, mode, cands, shown, selected, history>>

\* The consumer asks for more: the report is made.
Finish(r) ==
  /\ phase[r] = "finishing"
  /\ Stay(r, "answered")
  /\ Conclude(r, "completed")
  /\ UNCHANGED <<msg, mode, cands, shown, circuit, selected>>

\* Ollama's stream ends without a line that says done: nothing is recorded,
\* and the loop goes to the next candidate whatever was shown.
SilentEnd(r) ==
  /\ phase[r] = "calling" /\ mode[r] = "stream"
  /\ Current(r).provider = "ollama"
  /\ NextCandidate(r)
  /\ UNCHANGED <<msg, mode, cands, shown, circuit, record, selected, history>>

\* The request is left without a report: an exception that neither the provider
\* nor the router catches, or the consumer closes the stream at an event.
Abandon(r) ==
  /\ \/ phase[r] = "calling" /\ (~ByMock(r) \/ tokens[r] > 0)
     \/ phase[r] = "finishing"
  /\ Stay(r, "gone")
  /\ UNCHANGED <<msg, mode, cands, shown, circuit, record, selected, history>>

(***************************************************************************)
(* The specification                                                       *)
(***************************************************************************)
GatewayInit ==
  /\ phase = [r \in Requests |-> "new"]
  /\ msg \in [Requests -> {CHOOSE m \in Messages : TRUE}]
  /\ mode = [r \in Requests |-> "generate"]
  /\ cands = [r \in Requests |-> <<>>]
  /\ at = [r \in Requests |-> 1]
  /\ tries = [r \in Requests |-> 0]
  /\ tokens = [r \in Requests |-> 0]
  /\ shown = [r \in Requests |-> FALSE]
  /\ circuit = [i \in Routes |-> Closed]
  /\ record = [r \in Requests |-> NoRecord]
  /\ selected = [r \in Requests |-> 0]
  /\ history = <<>>

Progress(r) ==
  \/ Offer(r) \/ Exhausted(r) \/ Call(r) \/ FailCall(r) \/ Malformed(r) \/ Answer(r)
  \/ FailStream(r) \/ Token(r) \/ Done(r) \/ Finish(r) \/ SilentEnd(r)

GatewayNext ==
  \/ \E r \in Requests :
       \/ \E m \in Messages, k \in Modes : Refuse(r, m, k) \/ Begin(r, m, k)
       \/ Progress(r)
       \/ Abandon(r)
  \/ \E i \in Routes : Elapse(i)

\* Every provider call has a timeout, and a stream is read to its end.
GatewaySpec == GatewayInit /\ [][GatewayNext]_gatewayVars
                 /\ \A r \in Requests : WF_gatewayVars(Progress(r))

(***************************************************************************)
(* Properties                                                              *)
(***************************************************************************)
\* Types: every variable of the requests, the circuits and the observatory.
GatewayTypeOK ==
  /\ phase \in [Requests -> Phases]
  /\ msg \in [Requests -> Messages]
  /\ mode \in [Requests -> {"generate", "stream"}]
  /\ at \in [Requests -> Nat \ {0}]
  /\ tries \in [Requests -> 0 .. Attempts - 1]
  /\ tokens \in [Requests -> 0 .. MaxTokens]
  /\ shown \in [Requests -> BOOLEAN]
  /\ circuit \in [Routes -> Circuits]
  /\ record \in [Requests -> [cand : Nat, state : RouteStates]]
  /\ selected \in [Requests -> Nat]
  /\ history \in Seq([request : Requests, cand : Nat, state : {"completed", "failed"}])

Live(r) == phase[r] \in {"connecting", "calling", "finishing"}

\* A request that is served by a cloud route of the gateway asked for the cloud
\* class and had the server's authority, and the operator had enabled the cloud and
\* the route; a request whose class is local_only is served by no route that leaves
\* the machine.  One that is marked a system command is served by no route of the
\* gateway, unless it is voiced or speaks of a long context, which the classifier
\* looks at before the mark.  (IntelligentTaskClassifier,
\* OmniRouteSelectionPolicy._hard_filter and the loop of the router.)
CloudNeedsAuthority ==
  \A r \in Requests : Live(r) /\ ByGateway(r) =>
    LET route == Gateway.routes[Current(r).route]
    IN  /\ route.enabled /\ route.terms = "approved"
        /\ route.locality # "local" =>
             /\ route.locality = "cloud" /\ Gateway.allowCloud
             /\ msg[r].privacy = "cloud_allowed" /\ msg[r].authorized
        /\ msg[r].command =>
             msg[r].voice \/ TaskType(msg[r]) = "voice" \/ "long_context" \in msg[r].words

Consistent(c) ==
  /\ Shut(c) => c.opened
  /\ c.failures >= Threshold => c.opened /\ (Shut(c) \/ c.state = "recovering")
  /\ c.state = "healthy" => c.failures = 0 /\ ~c.opened
  /\ c.state = "degraded" => c.failures > 0

\* A circuit that refuses has a time at which it will let a request through: it
\* was opened.  A circuit at or over its threshold is shut or on trial, and a
\* healthy one has forgotten every failure.  (GatewayCircuitBreaker, whatever
\* the order in which concurrent calls report.)
CircuitConsistent == \A i \in Routes : Consistent(circuit[i])

Entries(r, s) ==
  Cardinality({k \in DOMAIN history : history[k].request = r /\ history[k].state = s})

\* As long as the history has room, it tells what became of every route that was
\* announced for a generate request: all but the one in use, or the one that was
\* left by an exception, have one terminal entry.  A request of either kind has
\* an entry of success exactly when it was answered, and then its last candidate
\* is the one.  (IntelligenceRouter against LLMRoutingObservatory._terminal.)
AttemptsAccounted ==
  Len(history) < HistoryLimit => \A r \in Requests :
    /\ mode[r] = "generate" =>
         selected[r] = Entries(r, "failed") + Entries(r, "completed")
                       + (IF Live(r) \/ phase[r] = "gone" THEN 1 ELSE 0)
    /\ Entries(r, "failed") + Entries(r, "completed") <= selected[r]
    /\ Entries(r, "completed") = (IF phase[r] = "answered" THEN 1 ELSE 0)
    /\ phase[r] = "answered" => record[r] = [cand |-> at[r], state |-> "completed"]

\* No step takes a request whose current candidate has already been heard to
\* another candidate because that one failed: the failure ends the request.
\* (generate_stream: fallback_blocked_after_visible_output.)
OutputKeepsRoute ==
  [][\A r \in Requests :
       tokens[r] > 0 /\ at'[r] # at[r] => record'[r].state # "failed"]_gatewayVars

\* A request that was begun comes to an end: the candidates are finitely many,
\* each is tried Attempts times at most, and shut circuits only shorten the way.
RequestsAnswered ==
  \A r \in Requests : phase[r] # "new" ~> phase[r] \in Ends

\* "Stream from one approved route, falling back only before visible output."
\* (docstring of generate_stream): when a candidate after the first is opened,
\* nothing has been shown.
FallbackBeforeOutput ==
  \A r \in Requests : phase[r] = "connecting" /\ at[r] > 1 => ~shown[r]
================================================================================
