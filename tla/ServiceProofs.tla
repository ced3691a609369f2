---------------------------- MODULE ServiceProofs -----------------------------
(***************************************************************************)
(* What Understanding promises of the way from words to a flow, for any    *)
(* actions that models name, tools that are listed and rules of the        *)
(* firewall; and what WorldCycle promises of suggestions, for any feed,    *)
(* any number of runs and loops, and whichever commits fail or processes   *)
(* end.                                                                    *)
(* The two share no variable: a proof of one uses nothing of the other.    *)
(***************************************************************************)
EXTENDS Understanding, WorldCycle, TLAPS

(***************************************************************************)
(*                                                                         *)
(* Understanding                                                           *)
(*                                                                         *)
(***************************************************************************)

\* What only the rules may find in a request.
Commits == {"approval_confirm", "approval_reject", "goal"}

\* The request passed Ask: it has no flow of its own yet.
Open == /\ words.aside = "none"
        /\ Resolve(words).type # "system"
        /\ ~(words.voice /\ Resolve(words) = Unknown)
        /\ outcome = "none"
        /\ "draft" \notin heeded

\* The planner is asked for a goal of the words, or for a plan that a model proposed.
Goal == /\ ~ContextCommand
        /\ heeded = {} => intent = Resolve(words)
        /\ intent.type = "plan" \/ Resolve(words).type = "goal"

\* The inductive invariant: what holds at each place of the request.
Progress ==
  /\ words \in Utterances
  /\ at \in {"asked", "orchestrating", "assisting", "planning", "handled"}
  /\ at = "asked" => outcome = "none" /\ heeded = {}
  /\ at \in {"orchestrating", "assisting", "planning"} => Open
  /\ at = "orchestrating" => heeded = {}
  /\ at = "planning" => Goal
  /\ DegradesToRules /\ OnlyWordsCommit

(***************************************************************************)
(* The rules                                                               *)
(***************************************************************************)
\* What the rules find, and in which words they find what commits.
LEMMA Rules ==
  ASSUME NEW u
  PROVE  /\ Resolve(u) \in {Intent("system", "get_system_status"),
                            Intent("daily_briefing", "daily_briefing"),
                            Intent("approval_confirm", "none"), Intent("approval_reject", "none"),
                            Intent("action", "spoken"), Intent("goal", "none"),
                            Intent("world_intelligence", "get_world_briefing"), Unknown}
         /\ Resolve(u).type = "approval_confirm" => Says(u, "yes")
         /\ Resolve(u).type = "approval_reject" => Says(u, "no")
         /\ Resolve(u).type = "unknown" => Resolve(u) = Unknown
  BY DEF Resolve, Intent, Unknown

\* What is to be repeated or recalled is nothing else.
LEMMA ContextWords ==
  ASSUME NEW u \in Utterances, Says(u, "again") \/ Says(u, "recall")
  PROVE  Resolve(u) = Unknown /\ u.aside = "none"
<1>1. u.phrase \in {"again", "recall"}
  BY DEF Says
<1>2. u.part = "none" /\ u.aside = "none"
  BY <1>1 DEF Utterances, Exact
<1> QED
  BY <1>1, <1>2 DEF Resolve, Says

(***************************************************************************)
(* The flows                                                               *)
(***************************************************************************)
LEMMA Answered ==
  ASSUME NEW i
  PROVE  /\ Talk(words) \in {"refusal", "knowledge", "conversation"}
         /\ Checked(i.action) \in {"action", "forced", "firewalled"}
  BY DEF Talk, Checked

\* Only an intent that commits leads to a flow that settles an approval, and none
\* leads past the planner.
LEMMA Commitments ==
  ASSUME NEW i
  PROVE  /\ Routed(i) = "confirm" => i.type = "approval_confirm"
         /\ Routed(i) = "reject" => i.type = "approval_reject"
         /\ Routed(i) # "plan"
  BY Answered DEF Routed

\* An intent that the rules found leads where the rules lead.
LEMMA RulesLead ==
  ASSUME Open, ~ContextCommand, Resolve(words).type # "goal"
  PROVE  Routed(Resolve(words)) \in ByRules(words)
<1>1. /\ words.aside = "none" /\ ~Says(words, "again") /\ ~Says(words, "recall")
      /\ words.voice => Resolve(words).type # "unknown"
  BY Rules DEF Open, ContextCommand
<1>2. CASE Resolve(words) = Intent("approval_confirm", "none")
  <2>1. Resolve(words).type = "approval_confirm" /\ Resolve(words).action = "none"
    BY <1>2 DEF Intent
  <2>2. Routed(Resolve(words)) = "confirm"
    BY <2>1, Answered DEF Routed, ToolTypes
  <2>3. ByRules(words) = {"confirm"}
    BY <1>1, <2>1 DEF ByRules
  <2> QED
    BY <2>2, <2>3
<1>3. CASE Resolve(words) = Intent("approval_reject", "none")
  <2>1. Resolve(words).type = "approval_reject" /\ Resolve(words).action = "none"
    BY <1>3 DEF Intent
  <2>2. Routed(Resolve(words)) = "reject"
    BY <2>1, Answered DEF Routed, ToolTypes
  <2>3. ByRules(words) = {"reject"}
    BY <1>1, <2>1 DEF ByRules
  <2> QED
    BY <2>2, <2>3
<1>4. CASE Resolve(words) = Intent("action", "spoken")
  <2>1. Resolve(words).type = "action" /\ Resolve(words).action = "spoken"
    BY <1>4 DEF Intent
  <2>2. Routed(Resolve(words)) = "action"
    BY <2>1, Answered DEF Routed, ToolTypes
  <2>3. ByRules(words) = {"action"}
    BY <1>1, <2>1 DEF ByRules
  <2> QED
    BY <2>2, <2>3
<1>5. CASE Resolve(words) = Intent("world_intelligence", "get_world_briefing")
  <2>1. Resolve(words).type = "world_intelligence" /\ Resolve(words).action = "get_world_briefing"
    BY <1>5 DEF Intent
  <2>2. Routed(Resolve(words)) = "world"
    BY <2>1, Answered DEF Routed, ToolTypes
  <2>3. ByRules(words) = {"world"}
    BY <1>1, <2>1 DEF ByRules
  <2> QED
    BY <2>2, <2>3
<1>6. CASE Resolve(words) = Intent("daily_briefing", "daily_briefing")
  BY <1>1, <1>6 DEF ByRules, Routed, Intent, ToolTypes
<1>7. CASE Resolve(words) = Unknown
  BY <1>1, <1>7 DEF ByRules, Routed, Intent, Unknown, ToolTypes
<1>8. Resolve(words) \notin {Intent("system", "get_system_status"), Intent("goal", "none")}
  BY DEF Open, Intent
<1> QED
  BY Rules, <1>2, <1>3, <1>4, <1>5, <1>6, <1>7, <1>8

\* No answer of a model that is accepted commits.
LEMMA ModelsPropose ==
  /\ \A type \in BrainIntentTypes : LegacyIntentType(type) \notin Commits
  /\ \A c : CandidateHolds(c) => c.intent.type \notin Commits
<1>1. \A type \in BrainIntentTypes : LegacyIntentType(type) \notin Commits
  BY DEF BrainIntentTypes, LegacyIntentType, Commits
<1>2. DOMAIN AllowedActions \cap Commits = {}
  BY DEF AllowedActions, Commits
<1> QED
  BY <1>1, <1>2 DEF CandidateHolds

(***************************************************************************)
(* The steps                                                               *)
(***************************************************************************)
\* Whoever found the intent, dispatching it keeps the invariant: it is the one of
\* the rules, or of an accepted answer and then commits nothing.
LEMMA Dispatching ==
  ASSUME Progress, Open, NEW i, Dispatched(i),
         "draft" \notin heeded',
         \/ i = Resolve(words)
         \/ i.type \notin Commits /\ heeded' # {}
  PROVE  Progress'
<1>1. words' = words /\ intent' = i /\ words \in Utterances
  BY DEF Dispatched, Handled, Progress
<1>2. ContextCommand' = ContextCommand
  BY <1>1 DEF ContextCommand
<1>3. CASE ContextCommand
  <2>1. Resolve(words) = Unknown /\ words.aside = "none"
    BY <1>1, <1>3, ContextWords DEF ContextCommand
  <2>2. /\ at' = "handled"
        /\ outcome' = "recalled" \/ (outcome' = "action" /\ Says(words, "again"))
    BY <1>3 DEF Dispatched, Handled
  <2>3. outcome' \in ByRules(words)
    <3>1. ~words.voice
      BY <2>1 DEF Open
    <3> QED
      BY <1>3, <2>1, <2>2, <3>1 DEF ByRules, ContextCommand
  <2> QED
    BY <1>1, <2>2, <2>3 DEF Progress, DegradesToRules, OnlyWordsCommit
<1>4. CASE ~ContextCommand /\ (i.type = "goal" \/ (i.type = "plan" /\ i.action = "create_plan"))
  <2>1. at' = "planning" /\ outcome' = outcome
    BY <1>4 DEF Dispatched, ContextCommand
  <2>2. i.type = "plan" \/ Resolve(words).type = "goal"
    BY <1>4 DEF Commits
  <2>3. Open'
    BY <1>1, <2>1 DEF Open
  <2>4. Goal'
    BY <1>1, <1>2, <1>4, <2>2 DEF Goal
  <2> QED
    BY <1>1, <2>1, <2>3, <2>4 DEF Progress, DegradesToRules, OnlyWordsCommit, Open
<1>5. CASE ~ContextCommand /\ ~(i.type = "goal" \/ (i.type = "plan" /\ i.action = "create_plan"))
  <2>1. at' = "handled" /\ outcome' = Routed(i)
    BY <1>5 DEF Dispatched, Handled, ContextCommand
  <2>2. OnlyWordsCommit'
    BY <1>1, <2>1, Commitments, Rules DEF OnlyWordsCommit, Commits
  <2>3. DegradesToRules'
    BY <1>1, <1>5, <2>1, RulesLead DEF DegradesToRules
  <2> QED
    BY <1>1, <2>1, <2>2, <2>3 DEF Progress
<1> QED
  BY <1>3, <1>4, <1>5

LEMMA AskKeeps == ASSUME Progress, Ask PROVE Progress'
<1>1. words' = words /\ words \in Utterances /\ heeded' = {} /\ outcome = "none"
  BY DEF Ask, Handled, Progress
<1>2. CASE words.aside # "none"
  <2>1. at' = "handled" /\ outcome' = words.aside /\ words.aside \in {"blocked", "operational"}
    BY <1>1, <1>2 DEF Ask, Handled, Utterances
  <2>2. outcome' \in ByRules(words)
    BY <1>2, <2>1 DEF ByRules
  <2> QED
    BY <1>1, <2>1, <2>2 DEF Progress, DegradesToRules, OnlyWordsCommit
<1>3. CASE words.aside = "none" /\ Resolve(words).type = "system"
  <2>1. at' = "handled" /\ outcome' = "status"
    <3>1. ~(words.aside = "blocked") /\ ~(words.aside = "operational")
      BY <1>3
    <3>2. Handled("status")
      BY <1>3, <3>1 DEF Ask, Unknown, Intent
    <3> QED
      BY <3>2 DEF Handled
  <2>2. ~Says(words, "again") /\ ~Says(words, "recall")
    BY <1>1, <1>3, ContextWords DEF Unknown, Intent
  <2>3. outcome' \in ByRules(words)
    BY <1>3, <2>1, <2>2 DEF ByRules
  <2> QED
    BY <1>1, <2>1, <2>3 DEF Progress, DegradesToRules, OnlyWordsCommit
<1>4. CASE words.aside = "none" /\ Resolve(words) = Unknown /\ words.voice
  <2>1. at' = "handled" /\ outcome' = "conversation"
    BY <1>4 DEF Ask, Handled, Unknown, Intent
  <2>2. Resolve(words).type = "unknown"
    BY <1>4 DEF Unknown, Intent
  <2>3. words.voice = TRUE
    BY <1>1, <1>4 DEF Utterances
  <2>4. outcome' \in ByRules(words)
    BY <1>4, <2>1, <2>2, <2>3, Answered DEF ByRules
  <2> QED
    BY <1>1, <2>1, <2>4 DEF Progress, DegradesToRules, OnlyWordsCommit
<1>5. CASE /\ words.aside = "none" /\ Resolve(words).type # "system"
           /\ ~(words.voice /\ Resolve(words) = Unknown)
  <2>1. at' = "orchestrating" /\ outcome' = "none"
    BY <1>1, <1>5 DEF Ask
  <2>2. Open'
    BY <1>1, <1>5, <2>1 DEF Open
  <2> QED
    BY <1>1, <2>1, <2>2 DEF Progress, DegradesToRules, OnlyWordsCommit
<1> QED
  BY <1>2, <1>3, <1>4, <1>5

LEMMA OrchestrateKeeps ==
  ASSUME Progress, NEW r \in Answers(Proposals), Orchestrate(r)
  PROVE  Progress'
<1> DEFINE holds == r.kind = "parsed" /\ ProposalHolds(r.answer)
<1>1. Open /\ heeded = {} /\ words \in Utterances
  BY DEF Orchestrate, Progress
<1>2. heeded' = IF holds THEN {"proposal"} ELSE {}
  BY <1>1 DEF Orchestrate, Heed
<1>3. CASE holds /\ r.answer.intents # <<>>
  <2> DEFINE i == Head(r.answer.intents)
  <2>1. Dispatched(Intent(LegacyIntentType(i.type), i.action))
    BY <1>3 DEF Orchestrate
  <2>2. i.type \in BrainIntentTypes
    <3>1. r.answer \in Proposals
      BY <1>3 DEF Answers
    <3>2. PICK t \in BrainIntentTypes, a \in Named \cup {"none"} :
            r.answer.intents = <<Intent(t, a)>>
      BY <1>3, <3>1 DEF Proposals
    <3> QED
      BY <3>2 DEF Intent
  <2>3. Intent(LegacyIntentType(i.type), i.action).type \notin Commits
    BY <2>2, ModelsPropose DEF Intent
  <2> QED
    BY <1>1, <1>2, <1>3, <2>1, <2>3, Dispatching
<1>4. CASE ~(holds /\ r.answer.intents # <<>>)
  <2>1. at' = "assisting" /\ UNCHANGED <<words, intent, outcome>>
    BY <1>4 DEF Orchestrate
  <2> QED
    BY <1>1, <1>2, <2>1 DEF Progress, Open, DegradesToRules, OnlyWordsCommit
<1> QED
  BY <1>3, <1>4

LEMMA AssistKeeps ==
  ASSUME Progress, NEW r \in Answers(Candidates), Assist(r)
  PROVE  Progress'
<1> DEFINE holds == /\ Resolve(words) = Unknown \/ Confidence(words) < 85
                    /\ r.kind = "parsed" /\ CandidateHolds(r.answer)
<1>1. Open
  BY DEF Assist, Progress
<1>2. heeded' = IF holds THEN heeded \cup {"candidate"} ELSE heeded
  BY DEF Assist, Heed
<1>3. "draft" \notin heeded'
  BY <1>1, <1>2 DEF Open
<1>4. CASE holds
  <2>1. Dispatched(r.answer.intent) /\ r.answer.intent.type \notin Commits
    BY <1>4, ModelsPropose DEF Assist
  <2> QED
    BY <1>1, <1>2, <1>3, <1>4, <2>1, Dispatching
<1>5. CASE ~holds
  <2>1. Dispatched(Resolve(words))
    BY <1>5 DEF Assist
  <2> QED
    BY <1>1, <1>3, <2>1, Dispatching
<1> QED
  BY <1>4, <1>5

LEMMA PlanKeeps ==
  ASSUME Progress, NEW r \in Answers(Drafts), Plan(r)
  PROVE  Progress'
<1> DEFINE holds == r.kind = "parsed" /\ DraftHolds(r.answer)
<1>1. Open /\ Goal /\ words \in Utterances
  BY DEF Plan, Progress
<1>2. /\ at' = "handled" /\ words' = words
      /\ heeded' = IF holds THEN heeded \cup {"draft"} ELSE heeded
      /\ outcome' = IF holds \/ intent.type = "plan" THEN "preview" ELSE "plan"
  BY DEF Plan, Heed, Handled
<1>3. outcome' = "plan" => Resolve(words).type = "goal" /\ "draft" \notin heeded'
  BY <1>1, <1>2 DEF Open, Goal
<1>4. ASSUME heeded' = {}
      PROVE  outcome' \in ByRules(words)
  <2>1. heeded = {} /\ intent = Resolve(words) /\ ~holds
    BY <1>1, <1>2, <1>4 DEF Goal
  <2>2. intent.type # "plan"
    BY <2>1, Rules DEF Intent, Unknown
  <2>3. outcome' = "plan" /\ Resolve(words).type = "goal"
    BY <1>1, <1>2, <2>1, <2>2 DEF Goal
  <2> QED
    BY <1>1, <2>3 DEF ByRules, Open, Goal, ContextCommand
<1> QED
  BY <1>1, <1>2, <1>3, <1>4 DEF Progress, DegradesToRules, OnlyWordsCommit

LEMMA Proceeds == UnderstandingSpec => []Progress
<1>1. UnderstandingInit => Progress
  BY DEF UnderstandingInit, Progress, DegradesToRules, OnlyWordsCommit
<1>2. Progress /\ [UnderstandingNext]_understandingVars => Progress'
  <2> SUFFICES ASSUME Progress, [UnderstandingNext]_understandingVars PROVE Progress'
    OBVIOUS
  <2>1. CASE UNCHANGED understandingVars
    BY <2>1 DEF understandingVars, Progress, Open, Goal, ContextCommand, DegradesToRules,
                OnlyWordsCommit
  <2> QED
    BY <2>1, AskKeeps, OrchestrateKeeps, AssistKeeps, PlanKeeps DEF UnderstandingNext
<1> QED
  BY <1>1, <1>2, PTL DEF UnderstandingSpec

\* Whatever the tools, the firewall and the answers are, and wherever an answer is
\* missing or refused: without an accepted answer the rules decide.  (process_input)
THEOREM RulesDecide == UnderstandingSpec => []DegradesToRules
  BY Proceeds, PTL DEF Progress

\* Whatever models name and propose: they settle no approval and carry out no plan.
\* (LegacyIntentType, the validators and _handle_planned_goal)
THEOREM WordsCommit == UnderstandingSpec => []OnlyWordsCommit
  BY Proceeds, PTL DEF Progress

(***************************************************************************)
(*                                                                         *)
(* WorldCycle                                                              *)
(*                                                                         *)
(***************************************************************************)

Doubtful(e) == e.verification \in {"disputed", "false"} \/ e.confidence < 30

\* The feed has an event of that id that is believed.
Credible(id) == \E i \in DOMAIN Feed : Feed[i].id = id /\ ~Doubtful(Feed[i])

(***************************************************************************)
(* Relevance                                                               *)
(***************************************************************************)
\* Scores are numbers, whatever an event is like.
LEMMA Scores ==
  ASSUME NEW e, NEW context
  PROVE  Relevance(e, context) \in Nat
<1>1. /\ Either(e.tags \cap SecurityTags, 90, 65) \in Nat
      /\ Either(e.tags \cap AITags, 82, 65) \in Nat
      /\ Either(e.tags \cap TechTags, 78, 50) \in Nat
      /\ Either((e.tags \cap MarketTags) \cup (e.words \cap {"markets", "supply chain"}), 55, 35)
           \in Nat
  BY DEF Either
<1>2. WeatherScore(e, context) \in Nat
  BY DEF WeatherScore
<1>3. CategoryScore(e, context) \in Nat
  BY <1>1, <1>2 DEF CategoryScore
<1>4. \A floor \in Nat, n \in Nat : AtLeast(floor, n) \in Nat /\ AtMost(floor, n) \in Nat
  BY DEF AtLeast, AtMost
<1>5. \A n \in Nat : SeverityFloor(e, n) \in Nat
  BY <1>4 DEF SeverityFloor
<1>6. \A n \in Nat : ContextBoost(e, context, n) \in Nat
  BY <1>4 DEF ContextBoost
<1>7. \A n \in Nat : VerificationCap(e, n) \in Nat
  <2> SUFFICES ASSUME NEW n \in Nat PROVE VerificationCap(e, n) \in Nat
    OBVIOUS
  <2>1. AtMost(20, n) \in Nat /\ AtMost(40, n) \in Nat /\ AtMost(100, n + 5) \in Nat
    BY DEF AtMost
  <2> QED
    BY <2>1 DEF VerificationCap
<1> QED
  BY <1>3, <1>5, <1>6, <1>7 DEF Relevance

\* Doubt caps the relevance, whatever came before.
LEMMA DoubtCaps ==
  ASSUME NEW e, NEW context, Doubtful(e)
  PROVE  Relevance(e, context) <= 40
<1> DEFINE n == ContextBoost(e, context, SeverityFloor(e, CategoryScore(e, context)))
<1>1. Relevance(e, context) = VerificationCap(e, n) /\ Relevance(e, context) \in Nat
  BY Scores DEF Relevance
<1>2. VerificationCap(e, n) \in {AtMost(20, n), AtMost(40, n)}
  BY DEF VerificationCap, Doubtful
<1>3. AtMost(20, n) \in Nat => AtMost(20, n) <= 40
  BY DEF AtMost
<1>4. AtMost(40, n) \in Nat => AtMost(40, n) <= 40
  BY DEF AtMost
<1> HIDE DEF n
<1> QED
  BY <1>1, <1>2, <1>3, <1>4

(***************************************************************************)
(* What is scored, analysed and suggested                                  *)
(***************************************************************************)
Marks ==
  {[event |-> [e EXCEPT !.alert = ShouldAlert(e, n)], relevance |-> n] :
     e \in {Feed[i] : i \in DOMAIN Feed}, n \in Nat}
Marked == {m \in Marks : m.relevance >= 90 => Credible(m.event.id)}

Analyses == {Analyze(m, context) : m \in Marked, context \in {ContextOf[r] : r \in Runs}}
Advices  == {Suggest(a) : a \in Analyses}

LEMMA MarkedEvents ==
  ASSUME NEW e \in WorldEvents, NEW alert
  PROVE  LET f == [e EXCEPT !.alert = alert]
         IN  f.id = e.id /\ (Doubtful(f) <=> Doubtful(e))
  BY DEF WorldEvents, Doubtful

\* An event of the feed that counts for much is credible.
LEMMA FeedBelieved ==
  ASSUME NEW i \in DOMAIN Feed, NEW context, Relevance(Feed[i], context) >= 90
  PROVE  Credible(Feed[i].id)
<1>1. Relevance(Feed[i], context) \in Nat
  BY Scores
<1>2. ~Doubtful(Feed[i])
  BY <1>1, DoubtCaps
<1> QED
  BY <1>2 DEF Credible

LEMMA ScoredMarked ==
  ASSUME NEW context
  PROVE  ScoreEvents(Feed, context) \in Seq(Marked)
<1> DEFINE Mark(i) == LET n == Relevance(Feed[i], context)
                      IN  [event |-> [Feed[i] EXCEPT !.alert = ShouldAlert(Feed[i], n)],
                           relevance |-> n]
<1>1. DOMAIN Feed = 1..Len(Feed) /\ Len(Feed) \in Nat
  BY WorldConstantsOK
<1>2. ASSUME NEW i \in DOMAIN Feed PROVE Mark(i) \in Marked
  <2> DEFINE n == Relevance(Feed[i], context)
  <2>1. n \in Nat /\ (n >= 90 => Credible(Feed[i].id))
    BY Scores, FeedBelieved
  <2>2. Feed[i] \in WorldEvents
    BY WorldConstantsOK
  <2>3. Mark(i).relevance = n /\ Mark(i).event = [Feed[i] EXCEPT !.alert = ShouldAlert(Feed[i], n)]
    OBVIOUS
  <2>4. Mark(i).event.id = Feed[i].id
    BY <2>2, <2>3, MarkedEvents
  <2>5. Mark(i) \in Marks
    BY <2>1 DEF Marks
  <2> HIDE DEF Mark, n
  <2> QED
    BY <2>1, <2>3, <2>4, <2>5 DEF Marked
<1>3. ScoreEvents(Feed, context) = [i \in 1..Len(Feed) |-> Mark(i)]
  BY <1>1 DEF ScoreEvents
<1> HIDE DEF Mark
<1> QED
  BY <1>1, <1>2, <1>3

LEMMA AnalysisBelieved ==
  ASSUME NEW a \in Analyses, a.relevance >= 90
  PROVE  Credible(a.event)
<1>1. PICK m \in Marked, r \in Runs : a = Analyze(m, ContextOf[r])
  BY DEF Analyses
<1>2. a.event = m.event.id
  BY <1>1 DEF Analyze
<1>3. a.relevance = m.relevance \/ a.relevance = Relevance(m.event, ContextOf[r])
  BY <1>1 DEF Analyze
<1>4. PICK i \in DOMAIN Feed, n \in Nat :
        m.event = [Feed[i] EXCEPT !.alert = ShouldAlert(Feed[i], n)]
  BY DEF Marked, Marks
<1>5. Feed[i] \in WorldEvents
  BY WorldConstantsOK
<1>6. m.event.id = Feed[i].id /\ (Doubtful(m.event) <=> Doubtful(Feed[i]))
  BY <1>4, <1>5, MarkedEvents
<1>7. CASE a.relevance = m.relevance
  BY <1>2, <1>7 DEF Marked
<1>8. CASE a.relevance = Relevance(m.event, ContextOf[r])
  <2>1. ~Doubtful(m.event)
    BY <1>8, Scores, DoubtCaps
  <2> QED
    BY <1>2, <1>6, <2>1 DEF Credible
<1> QED
  BY <1>3, <1>7, <1>8

LEMMA AdviceBelieved ==
  ASSUME NEW s \in Advices, s.priority = "urgent"
  PROVE  Credible(s.event)
<1>1. PICK a \in Analyses : s = Suggest(a)
  BY DEF Advices
<1>2. s.event = a.event /\ Advice(a)[2] = "urgent"
  BY <1>1 DEF Suggest
<1>3. ShouldEscalate(a)
  BY <1>2 DEF Advice
<1> QED
  BY <1>2, <1>3, AnalysisBelieved DEF ShouldEscalate

(***************************************************************************)
(* The invariant                                                           *)
(***************************************************************************)
Kinds ==
  /\ phase \in [Runs -> {"new", "scored", "analyses", "suggestions", "done", "failed"}]
  /\ scored \in [Runs -> Seq(Marked)]
  /\ DOMAIN saving = Runs
  /\ suggested \in [Loops -> Seq(Advices)]
  /\ advised \subseteq Advices

Busy(r) == phase[r] \notin Ended

\* A loop with a repository has a run at a time.
Single ==
  \A q, r \in Runs : Loop(q) = Loop(r) /\ Loop(r) \in Persisting /\ Busy(q) /\ Busy(r) => q = r

Has(rows, id) == \E a \in rows : a.event = id

\* What a run saves: analyses, as long as some that the suggestions of the loop point
\* to are missing; then suggestions whose analyses are kept.
Saves(r) ==
  /\ phase[r] \in {"analyses", "suggestions"} => Loop(r) \in Persisting
  /\ phase[r] = "analyses" =>
       /\ saving[r] \in Seq(Analyses)
       /\ \A i \in DOMAIN suggested[Loop(r)] :
            \/ Has(kept, suggested[Loop(r)][i].event)
            \/ \E j \in DOMAIN saving[r] : saving[r][j].event = suggested[Loop(r)][i].event
  /\ phase[r] = "suggestions" =>
       /\ saving[r] \in Seq(Advices)
       /\ \A j \in DOMAIN saving[r] : Has(kept, saving[r][j].event)

Backed == \A s \in advised : Has(kept, s.event)

WorldInv == Kinds /\ Single /\ (\A r \in Runs : Saves(r)) /\ Backed

LEMMA LoopsOfRuns == \A r \in Runs : Loop(r) \in Loops
  BY DEF Loops

\* Runs that a step leaves alone save what they saved, if nothing that is kept is lost.
LEMMA Untouched ==
  ASSUME NEW q \in Runs, Saves(q),
         phase'[q] = phase[q], saving'[q] = saving[q],
         phase[q] = "analyses" => suggested'[Loop(q)] = suggested[Loop(q)],
         \A a \in kept : \E b \in kept' : b.event = a.event
  PROVE  Saves(q)'
<1>1. \A id : Has(kept, id) => Has(kept', id)
  BY DEF Has
<1>2. Loop(q)' = Loop(q)
  BY DEF Loop
<1>3. phase[q] \in {"analyses", "suggestions"} => Loop(q) \in Persisting
  BY DEF Saves
<1>4. ASSUME phase[q] = "analyses"
      PROVE  /\ saving'[q] \in Seq(Analyses)
             /\ \A i \in DOMAIN suggested'[Loop(q)] :
                  \/ Has(kept', suggested'[Loop(q)][i].event)
                  \/ \E j \in DOMAIN saving'[q] :
                       saving'[q][j].event = suggested'[Loop(q)][i].event
  BY <1>1, <1>4 DEF Saves
<1>5. ASSUME phase[q] = "suggestions"
      PROVE  /\ saving'[q] \in Seq(Advices)
             /\ \A j \in DOMAIN saving'[q] : Has(kept', saving'[q][j].event)
  BY <1>1, <1>5 DEF Saves
<1> QED
  BY <1>2, <1>3, <1>4, <1>5 DEF Saves

\* A step that makes nobody busy keeps the runs of a loop apart.
LEMMA StillSingle ==
  ASSUME Single, \A q \in Runs : Busy(q)' => Busy(q)
  PROVE  Single'
  BY DEF Single, Loop

(***************************************************************************)
(* The steps of a run                                                      *)
(***************************************************************************)
LEMMA GatherKeeps ==
  ASSUME WorldInv, NEW r \in Runs, Gather(r)
  PROVE  WorldInv'
<1>1. Kinds'
  <2>1. ScoreEvents(Feed, ContextOf[r]) \in Seq(Marked)
    BY ScoredMarked
  <2> QED
    BY <2>1 DEF WorldInv, Kinds, Gather
<1>2. Single'
  <2>1. \A q \in Runs : q # r => (Busy(q)' <=> Busy(q))
    BY DEF Gather, Busy, WorldInv, Kinds
  <2>2. Loop(r) \in Persisting => \A q \in Runs : Loop(q) = Loop(r) => ~Busy(q)
    BY DEF Gather, Busy
  <2> QED
    BY <2>1, <2>2 DEF Single, WorldInv, Loop
<1>3. ASSUME NEW q \in Runs PROVE Saves(q)'
  <2>1. CASE q = r
    <3>1. phase'[q] = "scored"
      BY <2>1 DEF Gather, WorldInv, Kinds
    <3> QED
      BY <3>1 DEF Saves
  <2>2. CASE q # r
    BY <2>2, Untouched DEF Gather, WorldInv, Kinds
  <2> QED
    BY <2>1, <2>2
<1>4. Backed'
  BY DEF Gather, WorldInv, Backed, Has
<1> QED
  BY <1>1, <1>2, <1>3, <1>4 DEF WorldInv

LEMMA InterpretKeeps ==
  ASSUME WorldInv, NEW r \in Runs, Interpret(r)
  PROVE  WorldInv'
<1> DEFINE found  == [i \in DOMAIN scored[r] |-> Analyze(scored[r][i], ContextOf[r])]
           advice == [i \in DOMAIN found |-> Suggest(found[i])]
<1>1. found \in Seq(Analyses) /\ advice \in Seq(Advices)
  <2>1. scored[r] \in Seq(Marked)
    BY DEF WorldInv, Kinds
  <2>2. ASSUME NEW i \in DOMAIN scored[r] PROVE found[i] \in Analyses
    <3>1. scored[r][i] \in Marked
      BY <2>1
    <3> QED
      BY <3>1 DEF Analyses
  <2>3. \A i \in DOMAIN scored[r] : advice[i] \in Advices
    BY <2>2 DEF Advices
  <2> HIDE DEF advice
  <2>4. DOMAIN scored[r] = 1..Len(scored[r]) /\ Len(scored[r]) \in Nat
    BY <2>1
  <2>5. found \in Seq(Analyses)
    <3>1. found = [i \in 1..Len(scored[r]) |-> found[i]]
      BY <2>4
    <3> HIDE DEF found
    <3>2. \A i \in 1..Len(scored[r]) : found[i] \in Analyses
      BY <2>2, <2>4
    <3> QED
      BY <2>4, <3>1, <3>2
  <2>6. DOMAIN advice = 1..Len(scored[r]) /\ advice = [i \in 1..Len(scored[r]) |-> advice[i]]
    BY <2>4 DEF advice
  <2> HIDE DEF found
  <2>7. advice \in Seq(Advices)
    BY <2>3, <2>4, <2>6 DEF found
  <2> QED
    BY <2>5, <2>7
<1>2. DOMAIN advice = DOMAIN found /\ \A i \in DOMAIN advice : advice[i].event = found[i].event
  BY DEF Suggest
<1>3. /\ phase[r] = "scored"
      /\ suggested' = [suggested EXCEPT ![Loop(r)] = advice]
      /\ saving' = [saving EXCEPT ![r] = IF Loop(r) \in Persisting THEN found ELSE <<>>]
      /\ phase' = [phase EXCEPT ![r] = IF Loop(r) \in Persisting THEN "analyses" ELSE "done"]
      /\ UNCHANGED <<scored, memory, kept, advised>>
  BY DEF Interpret
<1> HIDE DEF found, advice
<1>4. Kinds'
  BY <1>1, <1>3, LoopsOfRuns DEF WorldInv, Kinds
<1>5. Single'
  BY <1>3, StillSingle DEF WorldInv, Kinds, Busy, Ended
<1>6. ASSUME NEW q \in Runs PROVE Saves(q)'
  <2>1. CASE q = r /\ Loop(r) \in Persisting
    <3>1. /\ phase'[r] = "analyses" /\ saving'[r] = found /\ suggested'[Loop(r)] = advice
          /\ Loop(r)' = Loop(r)
      BY <1>3, <2>1, LoopsOfRuns DEF WorldInv, Kinds, Loop
    <3> QED
      BY <1>1, <1>2, <2>1, <3>1 DEF Saves
  <2>2. CASE q = r /\ Loop(r) \notin Persisting
    <3>1. phase'[r] = "done"
      BY <1>3, <2>2 DEF WorldInv, Kinds
    <3> QED
      BY <2>2, <3>1 DEF Saves
  <2>3. CASE q # r
    <3>1. phase[q] = "analyses" => Loop(q) # Loop(r)
      BY <1>3, <2>3 DEF WorldInv, Single, Busy, Ended, Saves
    <3>2. phase[q] = "analyses" => suggested'[Loop(q)] = suggested[Loop(q)]
      BY <1>3, <3>1 DEF WorldInv, Kinds
    <3> QED
      BY <1>3, <2>3, <3>2, Untouched DEF WorldInv, Kinds
  <2> QED
    BY <2>1, <2>2, <2>3
<1>7. Backed'
  BY <1>3 DEF WorldInv, Backed, Has
<1> QED
  BY <1>4, <1>5, <1>6, <1>7 DEF WorldInv

LEMMA SaveAnalysesKeeps ==
  ASSUME WorldInv, NEW r \in Runs, SaveAnalyses(r)
  PROVE  WorldInv'
<1>1. /\ phase[r] = "analyses" /\ Loop(r)' = Loop(r)
      /\ UNCHANGED <<scored, memory, suggested, advised>>
  BY DEF SaveAnalyses, Loop
<1>2. /\ saving[r] \in Seq(Analyses)
      /\ Loop(r) \in Persisting
      /\ \A i \in DOMAIN suggested[Loop(r)] :
            \/ Has(kept, suggested[Loop(r)][i].event)
            \/ \E j \in DOMAIN saving[r] : saving[r][j].event = suggested[Loop(r)][i].event
  BY <1>1 DEF WorldInv, Saves
<1>3. CASE /\ saving[r] # <<>>
           /\ kept' = Over(kept, Head(saving[r]))
           /\ saving' = [saving EXCEPT ![r] = Tail(saving[r])]
           /\ UNCHANGED phase
  <2>1. \A id : Has(kept', id) <=> Has(kept, id) \/ id = Head(saving[r]).event
    BY <1>3 DEF Has, Over
  <2>2. \A a \in kept : \E b \in kept' : b.event = a.event
    BY <1>3 DEF Over
  <2>3. Kinds' /\ Single' /\ Backed'
    BY <1>1, <1>3, <2>1, StillSingle DEF WorldInv, Kinds, Backed, Busy
  <2>4. Saves(r)'
    <3>1. saving'[r] = Tail(saving[r]) /\ phase'[r] = "analyses"
      BY <1>1, <1>3 DEF WorldInv, Kinds
    <3>2. /\ Tail(saving[r]) \in Seq(Analyses)
          /\ Len(saving[r]) \in Nat /\ DOMAIN saving[r] = 1..Len(saving[r])
          /\ DOMAIN Tail(saving[r]) = 1..(Len(saving[r]) - 1)
          /\ Head(saving[r]) = saving[r][1]
          /\ \A k \in DOMAIN Tail(saving[r]) : Tail(saving[r])[k] = saving[r][k + 1]
      BY <1>2, <1>3
    <3>3. \A j \in DOMAIN saving[r] :
            \/ saving[r][j] = Head(saving[r])
            \/ \E k \in DOMAIN Tail(saving[r]) : Tail(saving[r])[k] = saving[r][j]
      <4> SUFFICES ASSUME NEW j \in DOMAIN saving[r], j # 1
                   PROVE  \E k \in DOMAIN Tail(saving[r]) : Tail(saving[r])[k] = saving[r][j]
        BY <3>2
      <4>1. j - 1 \in DOMAIN Tail(saving[r]) /\ saving[r][j - 1 + 1] = saving[r][j]
        BY <3>2
      <4> QED
        BY <3>2, <4>1
    <3>4. ASSUME NEW i \in DOMAIN suggested[Loop(r)]
          PROVE  \/ Has(kept', suggested[Loop(r)][i].event)
                 \/ \E k \in DOMAIN Tail(saving[r]) :
                      Tail(saving[r])[k].event = suggested[Loop(r)][i].event
      BY <1>2, <2>1, <3>3
    <3> HIDE DEF WorldInv
    <3> QED
      BY <1>1, <1>2, <3>1, <3>2, <3>4 DEF Saves, Has
  <2>5. ASSUME NEW q \in Runs, q # r PROVE Saves(q)'
    BY <1>1, <1>3, <2>2, <2>5, Untouched DEF WorldInv, Kinds
  <2> QED
    BY <2>3, <2>4, <2>5 DEF WorldInv
<1>4. CASE /\ saving[r] = <<>>
           /\ saving' = [saving EXCEPT ![r] = suggested[Loop(r)]]
           /\ phase' = [phase EXCEPT ![r] = "suggestions"]
           /\ UNCHANGED kept
  <2>1. Kinds' /\ Backed'
    BY <1>1, <1>4 DEF WorldInv, Kinds, Backed, Has
  <2>2. Single'
    BY <1>1, <1>4, StillSingle DEF WorldInv, Kinds, Busy, Ended
  <2>3. Saves(r)'
    <3>1. phase'[r] = "suggestions" /\ saving'[r] = suggested[Loop(r)]
      BY <1>4 DEF WorldInv, Kinds
    <3>2. suggested[Loop(r)] \in Seq(Advices)
      BY LoopsOfRuns DEF WorldInv, Kinds
    <3>3. \A i \in DOMAIN suggested[Loop(r)] : Has(kept', suggested[Loop(r)][i].event)
      <4>1. DOMAIN saving[r] = {}
        BY <1>4
      <4> QED
        BY <1>2, <1>4, <4>1 DEF Has
    <3> QED
      BY <1>1, <1>2, <3>1, <3>2, <3>3 DEF Saves
  <2>4. ASSUME NEW q \in Runs, q # r PROVE Saves(q)'
    BY <1>1, <1>4, <2>4, Untouched DEF WorldInv, Kinds
  <2> QED
    BY <2>1, <2>2, <2>3, <2>4 DEF WorldInv
<1> QED
  BY <1>3, <1>4 DEF SaveAnalyses

LEMMA SaveSuggestionsKeeps ==
  ASSUME WorldInv, NEW r \in Runs, SaveSuggestions(r)
  PROVE  WorldInv'
<1>1. /\ phase[r] = "suggestions" /\ Loop(r)' = Loop(r)
      /\ UNCHANGED <<scored, memory, suggested, kept>>
  BY DEF SaveSuggestions, Loop
<1>2. /\ saving[r] \in Seq(Advices) /\ Loop(r) \in Persisting
      /\ \A j \in DOMAIN saving[r] : Has(kept, saving[r][j].event)
  BY <1>1 DEF WorldInv, Saves
<1>3. \A id : Has(kept', id) <=> Has(kept, id)
  BY <1>1 DEF Has
<1>4. CASE /\ saving[r] # <<>>
           /\ advised' = Over(advised, Head(saving[r]))
           /\ saving' = [saving EXCEPT ![r] = Tail(saving[r])]
           /\ UNCHANGED phase
  <2>1. /\ Tail(saving[r]) \in Seq(Advices) /\ Head(saving[r]) \in Advices
        /\ Len(saving[r]) \in Nat /\ DOMAIN saving[r] = 1..Len(saving[r])
        /\ 1 \in DOMAIN saving[r] /\ Head(saving[r]) = saving[r][1]
        /\ DOMAIN Tail(saving[r]) = 1..(Len(saving[r]) - 1)
        /\ \A k \in DOMAIN Tail(saving[r]) : Tail(saving[r])[k] = saving[r][k + 1]
    BY <1>2, <1>4
  <2>2. Kinds' /\ Single' /\ Backed'
    <3>1. Kinds'
      BY <1>1, <1>4, <2>1 DEF WorldInv, Kinds, Over
    <3>2. Single'
      BY <1>4, StillSingle DEF WorldInv, Busy
    <3>3. Has(kept, Head(saving[r]).event)
      BY <1>2, <2>1
    <3>4. Backed'
      BY <1>3, <1>4, <3>3 DEF WorldInv, Backed, Over
    <3> QED
      BY <3>1, <3>2, <3>4
  <2>3. Saves(r)'
    <3>1. saving'[r] = Tail(saving[r]) /\ phase'[r] = "suggestions"
      BY <1>1, <1>4 DEF WorldInv, Kinds
    <3>2. ASSUME NEW k \in DOMAIN Tail(saving[r]) PROVE Has(kept', Tail(saving[r])[k].event)
      <4>1. k + 1 \in DOMAIN saving[r] /\ Tail(saving[r])[k] = saving[r][k + 1]
        BY <2>1
      <4> QED
        BY <1>2, <1>3, <4>1
    <3> QED
      BY <1>1, <1>2, <2>1, <3>1, <3>2 DEF Saves
  <2>4. ASSUME NEW q \in Runs, q # r PROVE Saves(q)'
    BY <1>1, <1>4, <2>4, Untouched DEF WorldInv, Kinds
  <2> QED
    BY <2>2, <2>3, <2>4 DEF WorldInv
<1>5. CASE /\ phase' = [phase EXCEPT ![r] = "done"]
           /\ UNCHANGED <<saving, advised>>
  <2>1. Kinds' /\ Backed'
    BY <1>1, <1>3, <1>5 DEF WorldInv, Kinds, Backed
  <2>2. Single'
    BY <1>1, <1>5, StillSingle DEF WorldInv, Kinds, Busy, Ended
  <2>3. ASSUME NEW q \in Runs PROVE Saves(q)'
    <3>1. CASE q = r
      <4>1. phase'[r] = "done"
        BY <1>5 DEF WorldInv, Kinds
      <4> QED
        BY <3>1, <4>1 DEF Saves
    <3>2. CASE q # r
      BY <1>1, <1>5, <3>2, Untouched DEF WorldInv, Kinds
    <3> QED
      BY <3>1, <3>2
  <2> QED
    BY <2>1, <2>2, <2>3 DEF WorldInv
<1> QED
  BY <1>4, <1>5 DEF SaveSuggestions

(***************************************************************************)
(* Failures                                                                *)
(***************************************************************************)
LEMMA CommitFailsKeeps ==
  ASSUME WorldInv, NEW r \in Runs, CommitFails(r)
  PROVE  WorldInv'
<1>1. Kinds' /\ Backed'
  BY DEF CommitFails, WorldInv, Kinds, Backed, Has
<1>2. Single'
  BY StillSingle DEF CommitFails, WorldInv, Kinds, Busy, Ended
<1>3. ASSUME NEW q \in Runs PROVE Saves(q)'
  <2>1. CASE q = r
    <3>1. phase'[r] = "failed"
      BY DEF CommitFails, WorldInv, Kinds
    <3> QED
      BY <2>1, <3>1 DEF Saves
  <2>2. CASE q # r
    BY <2>2, Untouched DEF CommitFails, WorldInv, Kinds
  <2> QED
    BY <2>1, <2>2
<1> QED
  BY <1>1, <1>2, <1>3 DEF WorldInv

LEMMA RestartKeeps ==
  ASSUME WorldInv, NEW l \in Loops, Restart(l)
  PROVE  WorldInv'
<1>1. /\ \A q \in Runs : phase'[q] = IF Loop(q) = l /\ phase[q] # "new" THEN "failed" ELSE phase[q]
      /\ suggested' = [suggested EXCEPT ![l] = <<>>]
      /\ UNCHANGED <<scored, saving, kept, advised>>
  BY DEF Restart
<1>2. Kinds' /\ Backed'
  <2>1. phase' \in [Runs -> {"new", "scored", "analyses", "suggestions", "done", "failed"}]
    BY DEF Restart, WorldInv, Kinds
  <2>2. suggested' \in [Loops -> Seq(Advices)]
    BY <1>1 DEF WorldInv, Kinds
  <2> QED
    BY <1>1, <2>1, <2>2 DEF WorldInv, Kinds, Backed, Has
<1>3. Single'
  BY <1>1, StillSingle DEF WorldInv, Busy, Ended
<1>4. ASSUME NEW q \in Runs PROVE Saves(q)'
  <2>1. CASE Loop(q) = l
    <3>1. phase'[q] \in {"new", "failed"}
      BY <1>1, <2>1
    <3> QED
      BY <3>1 DEF Saves
  <2>2. CASE Loop(q) # l
    <3>1. suggested'[Loop(q)] = suggested[Loop(q)]
      BY <1>1, <2>2, LoopsOfRuns DEF WorldInv, Kinds
    <3> QED
      BY <1>1, <2>2, <3>1, Untouched DEF WorldInv
  <2> QED
    BY <2>1, <2>2
<1> QED
  BY <1>2, <1>3, <1>4 DEF WorldInv

LEMMA Invariance == WorldSpec => []WorldInv
<1>1. WorldInit => WorldInv
  <2> SUFFICES ASSUME WorldInit PROVE WorldInv
    OBVIOUS
  <2>1. Kinds /\ Backed
    BY DEF WorldInit, Kinds, Backed
  <2>2. \A r \in Runs : phase[r] = "new"
    BY DEF WorldInit
  <2> QED
    BY <2>1, <2>2 DEF WorldInv, Single, Busy, Ended, Saves
<1>2. WorldInv /\ [WorldNext]_worldVars => WorldInv'
  <2> SUFFICES ASSUME WorldInv, [WorldNext]_worldVars PROVE WorldInv'
    OBVIOUS
  <2>1. CASE UNCHANGED worldVars
    BY <2>1 DEF worldVars, WorldInv, Kinds, Single, Busy, Saves, Backed, Has, Loop
  <2> QED
    BY <2>1, GatherKeeps, InterpretKeeps, SaveAnalysesKeeps, SaveSuggestionsKeeps,
       CommitFailsKeeps, RestartKeeps DEF WorldNext
<1> QED
  BY <1>1, <1>2, PTL DEF WorldSpec

\* Whichever commits fail and processes end, and however many loops share the database:
\* a stored suggestion has its analysis.  (ProactiveEventLoop.run_once, save_analyses
\* before save_suggestions)
THEOREM SuggestionsBacked == WorldSpec => []SuggestionHasAnalysis
<1>1. WorldInv => SuggestionHasAnalysis
  BY DEF WorldInv, Backed, Has, SuggestionHasAnalysis
<1> QED
  BY <1>1, Invariance, PTL

\* Whatever the feed claims and the user is interested in: an urgent suggestion stands for
\* an event that is neither disputed nor false nor of low confidence.  Nothing is said of
\* suggestions of another priority.
\* (RelevanceScorer._apply_confidence_and_verification as the last word of the score)
THEOREM UrgencyIsEarned == WorldSpec => []UrgentIsCredible
<1>1. WorldInv => UrgentIsCredible
  <2> SUFFICES ASSUME WorldInv,
                      NEW s \in advised \cup UNION {LoopAlerts(suggested[l]) : l \in Loops},
                      s.priority = "urgent"
               PROVE  \E i \in DOMAIN Feed : /\ Feed[i].id = s.event
                                             /\ Feed[i].verification \notin {"disputed", "false"}
                                             /\ Feed[i].confidence >= 30
    BY DEF UrgentIsCredible
  <2>1. s \in Advices
    <3>1. CASE s \in advised
      BY <3>1 DEF WorldInv, Kinds
    <3>2. CASE s \in UNION {LoopAlerts(suggested[l]) : l \in Loops}
      <4>1. PICK l \in Loops : s \in LoopAlerts(suggested[l])
        BY <3>2
      <4>2. suggested[l] \in Seq(Advices)
        BY DEF WorldInv, Kinds
      <4> QED
        BY <4>1, <4>2 DEF LoopAlerts
    <3> QED
      BY <3>1, <3>2
  <2>2. PICK i \in DOMAIN Feed : Feed[i].id = s.event /\ ~Doubtful(Feed[i])
    BY <2>1, AdviceBelieved DEF Credible
  <2>3. Feed[i].confidence \in 0..100
    <3>1. Feed[i] \in WorldEvents
      BY WorldConstantsOK
    <3> QED
      BY <3>1 DEF WorldEvents
  <2> QED
    BY <2>2, <2>3 DEF Doubtful
<1> QED
  BY <1>1, Invariance, PTL
===============================================================================
