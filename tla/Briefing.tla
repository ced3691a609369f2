------------------------------- MODULE Briefing --------------------------------
(***************************************************************************)
(* The daily briefing: DailyBriefingService with its collectors and the    *)
(* BriefingStore that answers "since when?" for the next briefing.         *)
(*                                                                         *)
(* Each request calls generate in a thread of its own, on one service and  *)
(* one store without a lock.  generate gives every collector a thread and  *)
(* takes their futures in order, each with a timeout.  The sources go on   *)
(* changing meanwhile: a fact (a task that ends, an audit event, an agent  *)
(* that ends) is stamped with the time first and stored afterwards.        *)
(*                                                                         *)
(* Wording, the greeting and the secret filter are left out, and so are    *)
(* the flags a user sets on a recorded briefing (replayed, spoken).        *)
(***************************************************************************)
EXTENDS Integers, SequencesExt, FiniteSetsExt

CONSTANTS
  Callers,      \* requests that generate briefings
  Facts,        \* the dated facts: [id, kind, ends, status]
  Setups,       \* what the service is built on and, as bounds, which sources may be slow or
                \* fail, how often generate is called and the time it all takes:
                \* [wired, house, facts, slow, failing, limit, end]
  RecentWindow, \* recent_window_hours, in ticks of the clock
  MaxRecords    \* max_records of the store

CollectorNames == <<"systems", "activity", "agents", "messages", "schedule", "world",
                    "approvals", "skills">>

\* No behaviour outlasts the recent window, twelve hours in the code: two first
\* briefings whose windows are that far apart are not meant.
ASSUME BriefingConstantsOK ==
  /\ MaxRecords \in Nat \ {0} /\ RecentWindow \in Nat /\ IsFiniteSet(Facts)
  /\ \A s \in Setups : /\ s.wired \in Seq(ToSet(CollectorNames)) /\ s.wired # <<>>
                        /\ s.facts \subseteq Facts
                        /\ s.end \in 1..RecentWindow
                        /\ s.house.events \in Nat
                        /\ \A list \in {s.house.letters, s.house.world, s.house.approvals,
                                         s.house.skills} : list \in Seq(ToSet(list))

VARIABLES
  setup,     \* the collectors and their undated sources
  clock,     \* utc_now
  stamp,     \* stamp[f]: updated_at, created_at or ended_at of the fact, 0 before
  place,     \* place[f]: "open", "stamped", "popped", "stored"
  call,      \* call[c]: the generate of c
  records,   \* _records: generated_at of each record, in the order of recording
  past,      \* the briefings returned
  late,      \* facts stamped, but stored only after their briefing had looked
  generated  \* calls of generate so far

briefVars == <<setup, clock, stamp, place, call, records, past, late, generated>>

(***************************************************************************)
(* Items and sections                                                      *)
(***************************************************************************)
Item(id, severity, approval) == [id |-> id, severity |-> severity, approval |-> approval]

Section(type, items, severity, sources) ==
  [type |-> type, items |-> items, severity |-> severity, available |-> TRUE,
   sources |-> sources]

\* BriefingCollector.unavailable
Unavailable(type, why, severity) ==
  [type |-> type, items |-> <<>>, severity |-> severity, available |-> FALSE,
   sources |-> << <<type, why>> >>]

Readable(source) == <<source, "available">>
Configured(source, there) == <<source, IF there THEN "available" ELSE "not_configured">>

Mapped(seq, Op(_)) == [i \in DOMAIN seq |-> Op(seq[i])]

\* SelectSeq, as a definition that proofs can expand.
Picked(seq, Test(_)) ==
  FlattenSeq([i \in DOMAIN seq |-> IF Test(seq[i]) THEN <<seq[i]>> ELSE <<>>])

(***************************************************************************)
(* System readiness                                                        *)
(***************************************************************************)
CheckDatabase(house) == <<"database", IF house.database THEN "ok" ELSE "degraded">>
CheckLLM(house) == <<"llm", IF house.llm THEN "ok" ELSE "not_configured">>
CheckVoice(house) ==
  <<"voice", CASE house.voice = "mock" -> "not_configured"
               [] house.voice = "down" -> "degraded"
               [] OTHER -> "ok">>
CheckMicrophone == <<"microphone", "not_configured">>
CheckVision == <<"vision", "not_configured">>
CheckIntegrations(house) ==
  <<"integrations", IF {house.mail, house.calendar} = {"none"} THEN "not_configured" ELSE "ok">>
CheckRetrieval(house) ==
  <<"retrieval", IF house.networked = 0 THEN "not_configured" ELSE "ok">>
CheckAgentStream(house) == <<"sse", IF house.stream THEN "ok" ELSE "not_configured">>
CheckScheduler == <<"scheduler", "not_configured">>

\* build_system_readiness_provider: four entries are always well.
Readiness(house) ==
  <<<<"backend", "ok">>, <<"brain", "ok">>, <<"memory", "ok">>, <<"lifecycle", "ok">>,
    CheckDatabase(house), CheckLLM(house), CheckVoice(house), CheckMicrophone, CheckVision,
    CheckIntegrations(house), CheckRetrieval(house), CheckAgentStream(house), CheckScheduler>>

SystemsSection(house) ==
  LET In(states) == Picked(Readiness(house), LAMBDA s : s[2] \in states)
      degraded   == In({"degraded", "error"})
      unset      == In({"not_configured"})
      AsItem(s)  == Item(<<"system", s[1]>>,
                         CASE s[2] = "error" -> "error" [] s[2] = "degraded" -> "warning"
                           [] OTHER -> "info", FALSE)
  IN  Section("systems", Mapped(degraded \o unset, AsItem),
              IF degraded # <<>> THEN "error" ELSE IF unset # <<>> THEN "info" ELSE "success",
              <<Readable("systems")>>)

(***************************************************************************)
(* The dated sources                                                       *)
(***************************************************************************)
Within(f, from, to) == from <= stamp[f] /\ stamp[f] <= to

FactsIn(Test(_)) == SetToSeq({f \in setup.facts : Test(f)})

IncidentEvents == {"error", "output_blocked_by_secret_policy",
                   "unsafe_cybersecurity_request_blocked", "secret_detected",
                   "world_intelligence_error", "context_reference_failed"}

\* _incidents: the audit events that matter, inside the window.
Incidents(from, to) ==
  LET AsItem(f) == Item(<<"fact", f.id>>, IF f.ends = "error" THEN "error" ELSE "warning", FALSE)
  IN  Mapped(FactsIn(LAMBDA f : /\ f.kind = "audit" /\ f.ends \in IncidentEvents
                                /\ place[f] = "stored" /\ Within(f, from, to)), AsItem)

ActivitySection(from, to) ==
  LET ended(status) == FactsIn(LAMBDA f : /\ f.kind = "task" /\ f.ends = status
                                          /\ place[f] = "stored" /\ Within(f, from, to))
      AsItem(f) == Item(<<"fact", f.id>>, IF f.ends = "completed" THEN "success" ELSE "info", FALSE)
  IN  Section("activity",
              Mapped(ended("completed") \o ended("cancelled"), AsItem) \o Incidents(from, to),
              IF Incidents(from, to) # <<>> THEN "error" ELSE "info",
              <<Readable("activity"), Readable("audit_log")>>)

\* active_agents; the collector copies it before it looks at the ended ones.
ActiveAgents == FactsIn(LAMBDA f : f.kind = "agent" /\ place[f] \in {"open", "stamped"})

AgentItem(f, status) ==
  Item(<<"fact", f.id>>,
       CASE status = "FAILED" -> "error"
         [] status \in {"WAITING_FOR_INPUT", "WAITING_FOR_APPROVAL"} -> "warning"
         [] status = "COMPLETED" -> "success"
         [] OTHER -> "info",
       status = "WAITING_FOR_APPROVAL")

AgentsSection(active, from, to) ==
  LET ended(status) == FactsIn(LAMBDA f : /\ f.kind = "agent" /\ f.ends = status
                                          /\ place[f] = "stored" /\ Within(f, from, to))
      waiting == \E i \in DOMAIN active :
                    active[i].status \in {"WAITING_FOR_INPUT", "WAITING_FOR_APPROVAL"}
  IN  Section("agents",
              Mapped(active, LAMBDA f : AgentItem(f, f.status))
                \o Mapped(ended("FAILED"), LAMBDA f : AgentItem(f, "FAILED"))
                \o Mapped(ended("COMPLETED"), LAMBDA f : AgentItem(f, "COMPLETED")),
              IF ended("FAILED") # <<>> THEN "error" ELSE IF waiting THEN "warning" ELSE "info",
              <<Readable("agents")>>)

(***************************************************************************)
(* The undated sources                                                     *)
(***************************************************************************)
MessagesSection(house) ==
  LET AsItem(i) == Item(<<"message", i>>,
                        IF house.letters[i] \in {"urgent", "important"} THEN "warning" ELSE "info",
                        FALSE)
      items == [i \in DOMAIN house.letters |-> AsItem(i)]
  IN  IF house.mail = "none" THEN Unavailable("messages", "not_configured", "info")
      ELSE Section("messages", items,
                   IF \E i \in DOMAIN items : items[i].severity = "warning" THEN "warning" ELSE "info",
                   <<Readable("messages")>>)

ScheduleSection(house) ==
  IF house.calendar = "none" THEN Unavailable("schedule", "not_configured", "info")
  ELSE Section("schedule", [i \in 1..house.events |-> Item(<<"event", i>>, "info", FALSE)], "info",
               <<Readable("schedule")>>)

ConfiguredWorldSources(house) ==
  Picked(house.world, LAMBDA s : /\ s.type \in {"news", "world_feed", "api"} /\ s.enabled
                                 /\ s.trust \in {"trusted", "partially_trusted"})

\* No driver reads a world source: the section is never available.
WorldSection(house) ==
  LET found == ConfiguredWorldSources(house)
      none  == Unavailable("world", "not_configured", "info")
  IN  IF found = <<>>
      THEN [none EXCEPT !.sources = Append(@, Configured("advisories", house.advisories))]
      ELSE [none EXCEPT !.sources = Mapped(found, LAMBDA s : <<s.id, "unavailable">>)]

ApprovalsSection(house) ==
  LET With(status) == Picked(house.approvals, LAMBDA a : a.status = status)
      AsItem(a) == Item(<<"approval", a.id>>,
                        CASE a.risk = "blocked" -> "critical"
                          [] a.risk \in {"high", "critical"} -> "error"
                          [] a.risk = "medium" -> "warning"
                          [] OTHER -> "info", TRUE)
  IN  Section("approvals", Mapped(With("pending") \o With("expired"), AsItem),
              IF With("pending") # <<>> THEN "warning" ELSE "info", <<Readable("approvals")>>)

SkillsSection(house) ==
  LET In(states) == Picked(house.skills, LAMBDA s : s.status \in states)
      waiting    == In({"approval_required"})
      AsItem(s)  == Item(<<"skill", s.id>>,
                         IF s.status = "approval_required" THEN "warning" ELSE "info", s.approval)
  IN  Section("skills",
              Mapped(waiting \o In({"learning", "evaluating"}) \o In({"recommended"})
                       \o In({"learned"}), AsItem),
              IF waiting # <<>> THEN "warning" ELSE "info",
              <<Readable("skills"), Configured("catalog", house.catalog)>>)

(***************************************************************************)
(* Composing the briefing                                                  *)
(***************************************************************************)
InOrder(sections) ==
  FlattenSeq(Mapped(CollectorNames, LAMBDA k : Picked(sections, LAMBDA s : s.type = k)))

\* Mutant of Deduplicate: left out.
KeepDuplicates(sections) == sections

\* _deduplicate: an item whose id an earlier section or item has is dropped.
Deduplicate(sections) ==
  LET Ids(items, span) == {items[i].id : i \in span}
      Seen(s, i) == Ids(sections[s].items, 1..(i - 1))
                    \cup UNION {Ids(sections[r].items, DOMAIN sections[r].items) : r \in 1..(s - 1)}
      New(s, i) == IF sections[s].items[i].id \in Seen(s, i) THEN <<>> ELSE <<sections[s].items[i]>>
  IN  [s \in DOMAIN sections |->
         [sections[s] EXCEPT !.items = FlattenSeq([i \in DOMAIN sections[s].items |-> New(s, i)])]]

UnavailableSources(sections) ==
  UNION {{r \in ToSet(sections[s].sources) : r[2] # "available"} : s \in DOMAIN sections}

AllItems(sections) == FlattenSeq(Mapped(sections, LAMBDA s : s.items))

ApprovalCount(items) == Len(Picked(items, LAMBDA i : i.approval))
WarningCount(items) ==
  Len(Picked(items, LAMBDA i : i.severity \in {"warning", "error", "critical"}))

OverallStatus(sections) ==
  IF \E i \in DOMAIN sections : sections[i].type = "systems" /\ ~sections[i].available
  THEN "offline"
  ELSE IF \E i \in DOMAIN sections : sections[i].severity = "error" THEN "degraded"
  ELSE IF \E i \in DOMAIN sections : sections[i].severity = "warning" THEN "attention"
  ELSE "nominal"

PriorityWeight(item) ==
  IF item.severity = "critical" THEN 5
  ELSE IF item.severity = "error" THEN 4
  ELSE IF item.approval THEN 3
  ELSE IF item.severity = "warning" THEN 2 ELSE 0

MaxPriorities == 3

\* _priorities: by weight, and as they come among equals; at most three.
Priorities(items) ==
  LET With(w) == Picked(items, LAMBDA i : PriorityWeight(i) = w)
      ranked  == With(5) \o With(4) \o With(3) \o With(2)
  IN  Mapped(SubSeq(ranked, 1, Min({MaxPriorities, Len(ranked)})), LAMBDA i : i.id)

Compose(at, start, sections, items) ==
  [at |-> at, start |-> start, status |-> OverallStatus(sections),
   items |-> Mapped(items, LAMBDA i : i.id),
   unread |-> {r[1] : r \in UnavailableSources(sections)},
   approvals |-> ApprovalCount(items), warnings |-> WarningCount(items),
   priorities |-> Priorities(items)]

(***************************************************************************)
(* The sources change                                                      *)
(***************************************************************************)
Tick == clock < setup.end /\ clock' = clock + 1
        /\ UNCHANGED <<setup, stamp, place, call, records, past, late, generated>>

Stamp(f) ==
  /\ place[f] = "open"
  /\ place' = [place EXCEPT ![f] = "stamped"]
  /\ stamp' = [stamp EXCEPT ![f] = clock]
  /\ UNCHANGED <<setup, clock, call, records, past, late, generated>>

\* complete_agent and fail_agent take the agent out before they put it back.
TakeOut(f) ==
  /\ f.kind = "agent" /\ place[f] = "stamped"
  /\ place' = [place EXCEPT ![f] = "popped"]
  /\ UNCHANGED <<setup, clock, stamp, call, records, past, late, generated>>

StoreFact(f) ==
  /\ place[f] = IF f.kind = "agent" THEN "popped" ELSE "stamped"
  /\ place' = [place EXCEPT ![f] = "stored"]
  /\ UNCHANGED <<setup, clock, stamp, call, records, past, late, generated>>

(***************************************************************************)
(* generate                                                                *)
(***************************************************************************)
NoCall == [step |-> "idle", at |-> 0, start |-> 0, thread |-> <<>>, active |-> <<>>,
           found |-> <<>>, next |-> 1, sections |-> <<>>, kept |-> <<>>]

\* Mutant of PeriodStart: from the moment the call looks.
PeriodStartNow(at) == IF records # <<>> THEN clock ELSE at - RecentWindow

\* period_start: the time of the last record in the store as it is now, or the
\* recent window.
PeriodStart(at) == IF records # <<>> THEN Last(records) ELSE at - RecentWindow

Called(c) ==
  /\ call[c].step = "idle" /\ generated < setup.limit
  /\ generated' = generated + 1
  /\ call' = [call EXCEPT ![c] = [NoCall EXCEPT !.step = "stamped", !.at = clock]]
  /\ UNCHANGED <<setup, clock, stamp, place, records, past, late>>

\* The window is fixed and every collector gets its thread.
Submit(c) ==
  /\ call[c].step = "stamped"
  /\ call' = [call EXCEPT ![c].step = "collecting", ![c].start = PeriodStart(call[c].at),
                          ![c].thread = [k \in ToSet(setup.wired) |-> "running"],
                          ![c].found = [k \in ToSet(setup.wired) |-> Unavailable(k, "unread", "info")]]
  /\ UNCHANGED <<setup, clock, stamp, place, records, past, late, generated>>

SectionOf(c, k) ==
  CASE k = "systems"   -> SystemsSection(setup.house)
    [] k = "activity"  -> ActivitySection(call[c].start, call[c].at)
    [] k = "agents"    -> AgentsSection(call[c].active, call[c].start, call[c].at)
    [] k = "messages"  -> MessagesSection(setup.house)
    [] k = "schedule"  -> ScheduleSection(setup.house)
    [] k = "world"     -> WorldSection(setup.house)
    [] k = "approvals" -> ApprovalsSection(setup.house)
    [] k = "skills"    -> SkillsSection(setup.house)

SourceOf(f) == IF f.kind = "agent" THEN "agents" ELSE "activity"

\* AgentActivityCollector copies active_agents first.
LookAtActive(c) ==
  /\ "agents" \in DOMAIN call[c].thread /\ call[c].thread["agents"] = "running"
  /\ call' = [call EXCEPT ![c].thread["agents"] = "half", ![c].active = ActiveAgents]
  /\ UNCHANGED <<setup, clock, stamp, place, records, past, late, generated>>

\* The thread of collector k reads its source and ends.
RunCollector(c, k) ==
  /\ k \in DOMAIN call[c].thread
  /\ call[c].thread[k] = IF k = "agents" THEN "half" ELSE "running"
  /\ call' = [call EXCEPT ![c].thread[k] = "done", ![c].found[k] = SectionOf(c, k)]
  /\ late' = late \cup {f \in setup.facts : /\ SourceOf(f) = k
                                            /\ place[f] \in {"stamped", "popped"}
                                            /\ stamp[f] <= call[c].at}
  /\ UNCHANGED <<setup, clock, stamp, place, records, past, generated>>

\* The source raises.
Break(c, k) ==
  /\ k \in DOMAIN call[c].thread \cap setup.failing
  /\ call[c].thread[k] \in {"running", "half"}
  /\ call' = [call EXCEPT ![c].thread[k] = "raised"]
  /\ UNCHANGED <<setup, clock, stamp, place, records, past, late, generated>>

Due(c) == setup.wired[call[c].next]

Entered(c, section) ==
  call' = [call EXCEPT ![c].sections = Append(@, section), ![c].next = @ + 1,
                       ![c].step = IF call[c].next = Len(setup.wired) THEN "joining" ELSE @]

\* Mutant of Result: an exception of a source leaves generate.
ResultUnguarded(c) ==
  /\ call[c].step = "collecting"
  /\ \/ /\ call[c].thread[Due(c)] = "done"
        /\ Entered(c, call[c].found[Due(c)])
     \/ /\ call[c].thread[Due(c)] = "raised"
        /\ call' = [call EXCEPT ![c].step = "failed"]
     \/ /\ call[c].thread[Due(c)] \in {"running", "half"}
        /\ Due(c) \in setup.slow
        /\ Entered(c, Unavailable(Due(c), "timed_out", "warning"))
  /\ UNCHANGED <<setup, clock, stamp, place, records, past, late, generated>>

\* future.result of the next future: its section, its exception or the timeout.
Result(c) ==
  /\ call[c].step = "collecting"
  /\ \/ /\ call[c].thread[Due(c)] = "done"
        /\ Entered(c, call[c].found[Due(c)])
     \/ /\ call[c].thread[Due(c)] = "raised"
        /\ Entered(c, Unavailable(Due(c), "error", "warning"))
     \/ /\ call[c].thread[Due(c)] \in {"running", "half"}
        /\ Due(c) \in setup.slow
        /\ Entered(c, Unavailable(Due(c), "timed_out", "warning"))
  /\ UNCHANGED <<setup, clock, stamp, place, records, past, late, generated>>

\* The executor waits for every thread, then the briefing is put together and
\* appended to the store.
Deliver(c) ==
  /\ call[c].step = "joining"
  /\ \A k \in DOMAIN call[c].thread : call[c].thread[k] \in {"done", "raised"}
  /\ records' = Append(records, call[c].at)
  /\ \E ordered \in {InOrder(call[c].sections)} : \E sections \in {Deduplicate(ordered)} :
       \E items \in {AllItems(sections)} :
         past' = past \cup {Compose(call[c].at, call[c].start, sections, items)}
  /\ call' = [call EXCEPT ![c] = [NoCall EXCEPT !.step = "recorded"]]
  /\ UNCHANGED <<setup, clock, stamp, place, late, generated>>

\* The store takes a copy of its last records; a record appended before the copy
\* is put in place is lost with the old list.
Trim(c) ==
  /\ call[c].step = "recorded"
  /\ call' = IF Len(records) > MaxRecords
             THEN [call EXCEPT ![c].step = "trimming",
                               ![c].kept = SubSeq(records, Len(records) - MaxRecords + 1, Len(records))]
             ELSE [call EXCEPT ![c].step = "idle"]
  /\ UNCHANGED <<setup, clock, stamp, place, records, past, late, generated>>

KeepLast(c) ==
  /\ call[c].step = "trimming"
  /\ records' = call[c].kept
  /\ call' = [call EXCEPT ![c] = NoCall]
  /\ UNCHANGED <<setup, clock, stamp, place, past, late, generated>>

BriefInit ==
  /\ setup \in Setups
  /\ clock = 1 /\ generated = 0 /\ records = <<>> /\ past = {} /\ late = {}
  /\ stamp = [f \in Facts |-> 0] /\ place = [f \in Facts |-> "open"]
  /\ call = [c \in Callers |-> NoCall]

ServiceStep(c) == Submit(c) \/ Result(c) \/ Deliver(c) \/ Trim(c) \/ KeepLast(c)
CollectorStep(c) == LookAtActive(c) \/ \E k \in ToSet(CollectorNames) : RunCollector(c, k) \/ Break(c, k)

BriefNext ==
  \/ Tick
  \/ \E f \in setup.facts : Stamp(f) \/ TakeOut(f) \/ StoreFact(f)
  \/ \E c \in Callers : Called(c) \/ ServiceStep(c) \/ CollectorStep(c)

\* A request goes on by itself (the timeout sees to it); a collector's thread does
\* only where its source answers.
ServiceFairness == \A c \in Callers : WF_briefVars(ServiceStep(c))
SourceFairness  == \A c \in Callers : WF_briefVars(CollectorStep(c))

BriefSpec == BriefInit /\ [][BriefNext]_briefVars /\ ServiceFairness /\ SourceFairness
\* A source may hang.
HungSpec  == BriefInit /\ [][BriefNext]_briefVars /\ ServiceFairness

(***************************************************************************)
(* Properties                                                              *)
(***************************************************************************)
\* Facts of the kinds and ends that a collector looks for.
Tellable(f) ==
  \/ f.kind = "task" /\ f.ends \in {"completed", "cancelled"}
  \/ f.kind = "audit" /\ f.ends \in IncidentEvents
  \/ f.kind = "agent" /\ f.ends \in {"COMPLETED", "FAILED"}

Told(b, f)     == \E i \in DOMAIN b.items : b.items[i] = <<"fact", f.id>>
Confessed(b, f) == b.start <= stamp[f] /\ stamp[f] <= b.at /\ SourceOf(f) \in b.unread

\* Nothing falls between two briefings: of the time the returned briefings span,
\* however the requests overlapped and whatever the store forgot, every stored fact
\* that a wired collector looks for is told by a briefing, or the briefing of its
\* window says that it could not read the source, or the fact was stamped and not
\* stored yet when that briefing looked.
NothingUntold ==
  \A f \in setup.facts :
    (/\ Tellable(f) /\ SourceOf(f) \in ToSet(setup.wired)
     /\ place[f] = "stored" /\ f \notin late
     /\ \E b \in past : b.start <= stamp[f]
     /\ \E b \in past : stamp[f] < b.at)
      => \E b \in past : Told(b, f) \/ Confessed(b, f)

\* A briefing names each thing once, in its sections and among its priorities, though
\* an agent may end between the collector's looks at the agents; so its counts
\* count things.
ToldOnce ==
  \A b \in past : IsInjective(b.items) /\ IsInjective(b.priorities)

\* A generate that was called returns its briefing, whichever sources are slow or broken.
BriefingDelivered == \A c \in Callers : call[c].step # "idle" ~> call[c].step = "idle"
================================================================================
