------------------------------ MODULE WorldCycle -------------------------------
(***************************************************************************)
(* World intelligence: the cycle of ProactiveEventLoop.run_once with the   *)
(* rules of RelevanceScorer, ImpactAnalysisEngine and SuggestionEngine,    *)
(* and WorldIntelligenceRepository, which commits row by row.              *)
(*                                                                         *)
(* Runs are threads.  A loop without a repository, as the routes and the   *)
(* engine build it, is shared by any number of runs; a loop with one has a *)
(* run at a time, since a database session is not for threads, but several *)
(* such loops may share the database.  A commit may fail, and a process    *)
(* may end between any two.                                                *)
(*                                                                         *)
(* Scores are hundredths.  Texts are the set of words the rules look for.  *)
(***************************************************************************)
EXTENDS Naturals, Sequences, FiniteSets

CONSTANTS
  Runs,       \* calls of run_once
  LoopOf,     \* LoopOf[r]: the ProactiveEventLoop of the run
  ContextOf,  \* ContextOf[r]: [own, interests, tasks]; own: the interests are the request's
  Persisting, \* the loops that have a repository
  Feed        \* what the driver reports, in order

WorldEvents ==
  [id : STRING, category : STRING, severity : STRING, tags : SUBSET STRING,
   words : SUBSET STRING, alert : BOOLEAN, confidence : 0..100, verification : STRING]

ASSUME WorldConstantsOK ==
  /\ LoopOf \in [Runs -> {LoopOf[r] : r \in Runs}]
  /\ Feed \in Seq(WorldEvents)
  /\ \A i, j \in DOMAIN Feed : Feed[i].id = Feed[j].id => i = j
  /\ \A i \in DOMAIN Feed : Feed[i].tags \subseteq Feed[i].words

VARIABLES
  phase,      \* phase[r]: "new", "scored", "analyses", "suggestions", "done", "failed"
  scored,     \* scored[r]: the run's scored events
  saving,     \* saving[r]: what a save still has to commit
  memory,     \* memory[l]: the loop's events by id
  suggested,  \* suggested[l]: latest_suggestions
  kept,       \* rows of impact analyses, by event
  advised     \* rows of suggestions, by event

worldVars == <<phase, scored, saving, memory, suggested, kept, advised>>

Severe(e) == e.severity \in {"high", "critical"}

(***************************************************************************)
(* RelevanceScorer                                                         *)
(***************************************************************************)
DefaultInterests == {"ai", "ai agents", "agents", "cybersecurity", "cloud security", "cloud", "iam",
                     "jarvis project", "jarvis", "software development", "software", "development",
                     "finance"}
SecurityTags == {"cloud", "iam", "vulnerability", "breach", "malware", "phishing"}
AITags       == {"ai", "agents", "frameworks", "llm"}
TechTags     == {"software", "development", "cloud", "api"}
MarketTags   == {"markets", "market", "finance", "supply_chain", "supply chain"}

\* A request may have interests of its own and they may be none, which is not the default.
Interests(context) == IF context.own THEN context.interests ELSE DefaultInterests

Either(tags, high, low) == IF tags # {} THEN high ELSE low

WeatherScore(e, context) ==
  IF Severe(e) THEN 70
  ELSE IF {"weather", "travel"} \cap Interests(context) # {} THEN 60 ELSE 40

CategoryScore(e, context) ==
  CASE e.category = "cybersecurity" -> Either(e.tags \cap SecurityTags, 90, 65)
    [] e.category = "ai_research"   -> Either(e.tags \cap AITags, 82, 65)
    [] e.category = "technology"    -> Either(e.tags \cap TechTags, 78, 50)
    [] e.category \in {"finance", "markets"}  -> 55
    [] e.category \in {"weather", "aviation"} -> WeatherScore(e, context)
    [] e.category \in {"geopolitics", "energy"} ->
         Either((e.tags \cap MarketTags) \cup (e.words \cap {"markets", "supply chain"}), 55, 35)
    [] e.category = "news" -> 25
    [] OTHER -> 20

AtLeast(floor, score) == IF score < floor THEN floor ELSE score
AtMost(cap, score)    == IF score > cap THEN cap ELSE score

SeverityFloor(e, score) ==
  IF Severe(e) /\ e.alert THEN AtLeast(90, score)
  ELSE IF e.severity = "critical" THEN AtLeast(75, score) ELSE score

ContextBoost(e, context, score) ==
  IF Interests(context) \cap (e.words \cup {e.category, e.severity}) # {}
  THEN AtMost(100, score + 12) ELSE score

VerificationCap(e, score) ==
  IF e.verification \in {"disputed", "false"} THEN AtMost(20, score)
  ELSE IF e.confidence < 30 THEN AtMost(40, score)
  ELSE IF e.verification \in {"multi_source", "trusted_source"} THEN AtMost(100, score + 5)
  ELSE score

\* Mutant of Relevance: the severity of an event comes after what is known of its truth.
RelevanceFloorLast(e, context) ==
  SeverityFloor(e, VerificationCap(e, ContextBoost(e, context, CategoryScore(e, context))))

\* _score_with_reasons
Relevance(e, context) ==
  VerificationCap(e, ContextBoost(e, context, SeverityFloor(e, CategoryScore(e, context))))

ShouldAlert(e, relevance) ==
  \/ relevance >= 85
  \/ e.alert /\ relevance >= 60
  \/ e.severity = "critical" /\ e.confidence >= 50

ScoreEvents(events, context) ==
  [i \in DOMAIN events |->
     LET relevance == Relevance(events[i], context)
     IN  [event |-> [events[i] EXCEPT !.alert = ShouldAlert(events[i], relevance)],
          relevance |-> relevance]]

(***************************************************************************)
(* ImpactAnalysisEngine                                                    *)
(***************************************************************************)
RiskFromSeverity(severity) ==
  CASE severity \in {"high", "critical"} -> "high" [] severity = "medium" -> "medium"
    [] OTHER -> "low"

RiskLevel(e) ==
  CASE e.category \in {"cybersecurity", "weather", "aviation", "geopolitics", "energy",
                       "supply_chain"} -> RiskFromSeverity(e.severity)
    [] e.category = "ai_research" -> IF Severe(e) THEN "medium" ELSE "low"
    [] e.category \in {"markets", "finance"} ->
         IF Severe(e) \/ e.severity = "medium" THEN "medium" ELSE "low"
    [] OTHER -> "low"

RequiresUserDiscussion(e, relevance) ==
  relevance >= 80 \/ e.alert \/ (Severe(e) /\ e.confidence >= 50)

ShouldCreateTask(e, context, discuss) ==
  discuss /\ (context.tasks \/ e.category \in {"cybersecurity", "ai_research"})

\* analyze_event; a relevance of nought is taken for one that is missing.
Analyze(s, context) ==
  LET relevance == IF s.relevance > 0 THEN s.relevance ELSE Relevance(s.event, context)
      discuss   == RequiresUserDiscussion(s.event, relevance)
  IN  [event |-> s.event.id, category |-> s.event.category, relevance |-> relevance,
       risk |-> RiskLevel(s.event), discuss |-> discuss,
       task |-> ShouldCreateTask(s.event, context, discuss)]

(***************************************************************************)
(* SuggestionEngine                                                        *)
(***************************************************************************)
ShouldEscalate(a) == a.discuss /\ a.relevance >= 90
ShouldIgnore(a)   == a.relevance < 25 /\ ~a.discuss /\ ~a.task

Advice(a) ==
  IF ShouldEscalate(a) THEN <<"escalate_alert", "urgent">>
  ELSE IF ShouldIgnore(a) THEN <<"ignore", "low">>
  ELSE CASE a.category = "cybersecurity" ->
              IF a.task THEN <<"create_task", "high">> ELSE <<"review_security", "high">>
         [] a.category = "ai_research" ->
              <<"review_research", IF a.relevance < 85 THEN "medium" ELSE "high">>
         [] a.category \in {"markets", "finance"} -> <<"review_finance", "medium">>
         [] a.category \in {"weather", "aviation"} ->
              <<"review_travel", IF a.risk # "high" /\ a.relevance < 80 THEN "medium" ELSE "high">>
         [] a.category \in {"geopolitics", "energy", "supply_chain"} ->
              IF a.relevance >= 50 THEN <<"add_to_briefing", "medium">> ELSE <<"monitor", "low">>
         [] OTHER -> <<"ignore", "low">>

\* Ids are made from the event's: one suggestion for each analysis.
Suggest(a) == [event |-> a.event, type |-> Advice(a)[1], priority |-> Advice(a)[2]]

\* get_alert_suggestions of the loop; nothing built here asks for a response.
LoopAlerts(suggestions) ==
  {suggestions[i] : i \in {j \in DOMAIN suggestions : \/ suggestions[j].type = "escalate_alert"
                                                     \/ suggestions[j].priority = "urgent"}}

(***************************************************************************)
(* run_once                                                                *)
(***************************************************************************)
Loop(r) == LoopOf[r]
Ended == {"new", "done", "failed"}

\* Collects, scores and remembers the events; an event of the same id is replaced.
Gather(r) ==
  /\ phase[r] = "new"
  /\ Loop(r) \in Persisting => \A q \in Runs : Loop(q) = Loop(r) => phase[q] \in Ended
  /\ phase' = [phase EXCEPT ![r] = "scored"]
  /\ scored' = [scored EXCEPT ![r] = ScoreEvents(Feed, ContextOf[r])]
  /\ memory' = [memory EXCEPT ![Loop(r)] = {scored'[r][i] : i \in DOMAIN scored'[r]}]
  /\ UNCHANGED <<saving, suggested, kept, advised>>

\* Analyses the events and replaces the loop's suggestions.
Interpret(r) ==
  LET found == [i \in DOMAIN scored[r] |-> Analyze(scored[r][i], ContextOf[r])]
  IN  /\ phase[r] = "scored"
      /\ suggested' = [suggested EXCEPT ![Loop(r)] = [i \in DOMAIN found |-> Suggest(found[i])]]
      /\ saving' = [saving EXCEPT ![r] = IF Loop(r) \in Persisting THEN found ELSE <<>>]
      /\ phase' = [phase EXCEPT ![r] = IF Loop(r) \in Persisting THEN "analyses" ELSE "done"]
      /\ UNCHANGED <<scored, memory, kept, advised>>

Over(rows, row) == {q \in rows : q.event # row.event} \cup {row}

\* Mutant of SaveAnalyses: the suggestions go first.
SaveAnalysesLast(r) ==
  /\ phase[r] = "analyses"
  /\ phase' = [phase EXCEPT ![r] = "suggestions"]
  /\ saving' = [saving EXCEPT ![r] = suggested[Loop(r)]]
  /\ UNCHANGED <<scored, memory, suggested, kept, advised>>

\* save_analyses commits one row after the other; after the last, save_suggestions
\* is handed the suggestions the loop has by now.
SaveAnalyses(r) ==
  /\ phase[r] = "analyses"
  /\ \/ /\ saving[r] # <<>>
        /\ kept' = Over(kept, Head(saving[r]))
        /\ saving' = [saving EXCEPT ![r] = Tail(@)]
        /\ UNCHANGED phase
     \/ /\ saving[r] = <<>>
        /\ saving' = [saving EXCEPT ![r] = suggested[Loop(r)]]
        /\ phase' = [phase EXCEPT ![r] = "suggestions"]
        /\ UNCHANGED kept
  /\ UNCHANGED <<scored, memory, suggested, advised>>

SaveSuggestions(r) ==
  /\ phase[r] = "suggestions"
  /\ \/ /\ saving[r] # <<>>
        /\ advised' = Over(advised, Head(saving[r]))
        /\ saving' = [saving EXCEPT ![r] = Tail(@)]
        /\ UNCHANGED phase
     \/ /\ saving[r] = <<>>
        /\ phase' = [phase EXCEPT ![r] = "done"]
        /\ UNCHANGED <<saving, advised>>
  /\ UNCHANGED <<scored, memory, suggested, kept>>

\* A commit raises: the run ends with what was committed before.
CommitFails(r) ==
  /\ phase[r] \in {"analyses", "suggestions"} /\ saving[r] # <<>>
  /\ phase' = [phase EXCEPT ![r] = "failed"]
  /\ UNCHANGED <<scored, saving, memory, suggested, kept, advised>>

\* The process of the loop ends and starts again; the rows remain.
Restart(l) ==
  /\ \E r \in Runs : Loop(r) = l /\ phase[r] \notin Ended
  /\ phase' = [r \in Runs |-> IF Loop(r) = l /\ phase[r] # "new" THEN "failed" ELSE phase[r]]
  /\ memory' = [memory EXCEPT ![l] = {}]
  /\ suggested' = [suggested EXCEPT ![l] = <<>>]
  /\ UNCHANGED <<scored, saving, kept, advised>>

Loops == {Loop(r) : r \in Runs}

WorldInit ==
  /\ phase = [r \in Runs |-> "new"]
  /\ scored = [r \in Runs |-> <<>>] /\ saving = [r \in Runs |-> <<>>]
  /\ memory = [l \in Loops |-> {}] /\ suggested = [l \in Loops |-> <<>>]
  /\ kept = {} /\ advised = {}

WorldNext ==
  \/ \E r \in Runs : \/ Gather(r) \/ Interpret(r) \/ SaveAnalyses(r) \/ SaveSuggestions(r)
                     \/ CommitFails(r)
  \/ \E l \in Loops : Restart(l)

WorldSpec == WorldInit /\ [][WorldNext]_worldVars

(***************************************************************************)
(* Properties                                                              *)
(***************************************************************************)
\* Whatever commits failed, processes ended and loops shared the database: a stored
\* suggestion has the analysis it points to, of the same event, stored as well.
SuggestionHasAnalysis == \A s \in advised : \E a \in kept : a.event = s.event

\* An urgent suggestion, in a loop or in the database, stands for an event that is not
\* disputed, not false and not of low confidence, however severe it is, whatever it claims
\* of itself and whatever the user is interested in.  Of suggestions that are not urgent
\* this says nothing: a severe event that is false may still ask for a task.
UrgentIsCredible ==
  \A s \in advised \cup UNION {LoopAlerts(suggested[l]) : l \in Loops} :
    s.priority = "urgent" =>
      \E i \in DOMAIN Feed : /\ Feed[i].id = s.event
                             /\ Feed[i].verification \notin {"disputed", "false"}
                             /\ Feed[i].confidence >= 30
================================================================================
