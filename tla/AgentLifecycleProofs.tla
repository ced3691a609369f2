-------------------------- MODULE AgentLifecycleProofs --------------------------
(***************************************************************************)
(* OneCollection and ClientCatchesUp, for any number of requests and       *)
(* streams and any size of the queues.  OneCollection needs to know how    *)
(* far the request of an agent has come (HomeRight): an update never meets *)
(* an ended agent, and an ended one is in no collection until it is        *)
(* stored again.  ClientCatchesUp needs what a stream will know once it    *)
(* has handed on all that waits for it, its calls, its queue and its       *)
(* snapshot taken together (WillKnow).                                     *)
(***************************************************************************)
EXTENDS AgentLifecycle, SequenceTheorems, TLAPS

\* What is published.
Envelopes ==
  [kind : {"agent", "narration", "DEMO_RESET", "DEMO_STARTED", "SNAPSHOT"},
   map : UNION {[D -> Statuses] : D \in SUBSET Agents}]

\* A request is at a line of a role that takes part, at a stage of its operation.
PlaceRight(t) ==
  /\ Running(t) => Current(t).role \in Cast \cup {"none"}
  /\ job[t] = "reset" => line[t] <= ResetLength
  /\ job[t] = "idle" => line[t] = 1
  /\ stage[t] = "find" => Current(t).do \in {"update", "end"}
  /\ stage[t] = "pop" => Current(t).do = "end"
  /\ stage[t] = "event" => Current(t).do \in {"create", "update", "end", "say"}
  /\ stage[t] = "state" => Current(t).do \in {"create", "update", "end"}
  /\ stage[t] = "store" => Current(t).do # "say"

\* What the variables may hold: of the requests, the collections and the streams.
JobTypes ==
  /\ job \in [Threads -> {"idle", "demo", "reset", "done", "raised"}]
  /\ line \in [Threads -> 1..31]
  /\ stage \in [Threads -> {"find", "pop", "store", "event", "state"}]
  /\ \A t \in Threads : PlaceRight(t)

StoreTypes == store \in [Collections -> [Agents -> Statuses]]

StreamTypes ==
  /\ doomed \in [Threads -> SUBSET Agents]
  /\ sight \in [Threads \cup Clients -> [Agents -> Statuses]]
  /\ client \in [Clients -> {"new", "subscribed", "reading", "live", "left"}]
  /\ pages \in [Clients -> Seq(Collections)]
  /\ calls \in [Clients -> Seq(Envelopes)] /\ box \in [Clients -> Seq(Envelopes)]
  /\ view \in [Clients -> [Agents -> Statuses]]
  /\ latest \in [Clients -> [published : Envelopes, heard : Envelopes]]
  /\ dropped \in [Clients -> BOOLEAN] /\ calm \in BOOLEAN

\* The lines that create an agent.
CreateLine == [planner |-> 9, researcher |-> 10, security |-> 11, integration |-> 12, coder |-> 13]

\* t has not come to line n, or is at one of the stages of it.
Before(t, n, stages) == line[t] < n \/ (line[t] = n /\ stage[t] \in stages)

\* An agent is nowhere until it is created, ended only once its end is stored, and
\* in no other collection then.
HomeRight(t) ==
  \A r \in Cast :
    /\ Before(t, CreateLine[r], {"store"}) => ~Found(<<t, r>>)
    /\ In("completed", <<t, r>>) =>
         r = "researcher" /\ ~Before(t, 21, {"find", "pop", "store"})
    /\ In("failed", <<t, r>>) => r = "coder" /\ ~Before(t, 25, {"find", "pop", "store"})
    /\ Current(t).do = "end" /\ Current(t).role = r /\ stage[t] = "store" =>
         ~In("active", <<t, r>>)

\* The newest envelope is the last that waits, or has been heard.
NewestRight(k) ==
  Registered(k) =>
    latest[k].published =
      IF calls[k] # <<>> THEN calls[k][Len(calls[k])]
      ELSE IF box[k] # <<>> THEN box[k][Len(box[k])]
      ELSE latest[k].heard

\* The status of a's record.
Standing(a) == IF Found(a) THEN Record(a) ELSE "none"

\* The last envelope of q that tells of a says v; none tells of a.
Tells(q, a, v) ==
  \E i \in DOMAIN q :
    /\ a \in DOMAIN q[i].map /\ q[i].map[a] = v
    /\ \A j \in DOMAIN q : j > i => a \notin DOMAIN q[j].map
Mute(q, a) == \A i \in DOMAIN q : a \notin DOMAIN q[i].map

\* What k knows, or its snapshot will say, of a.
Known(k, a) ==
  IF client[k] = "live" THEN view[k][a] = Standing(a)
  ELSE \/ pages[k] = <<"active", "completed", "failed">>
       \/ \E i \in DOMAIN pages[k] : In(pages[k][i], a)
       \/ sight[k][a] = Standing(a)

\* k will know of a once it has handed on all that waits.
WillKnow(k, a) ==
  \/ Tells(calls[k], a, Standing(a))
  \/ /\ Mute(calls[k], a)
     /\ Tells(box[k], a, Standing(a)) \/ (Mute(box[k], a) /\ Known(k, a))

\* t has changed a's record and not told of it yet.
Untold(t, a) ==
  /\ Running(t)
  /\ \/ line[t] \in 2..8
     \/ /\ Agent(t) = a
        /\ \/ stage[t] \in {"event", "state"} /\ Current(t).do # "say"
           \/ stage[t] = "store" /\ Current(t).do = "end"

\* Only one request is under way.
Alone == \A t, u \in Threads : Running(t) /\ Running(u) => t = u

\* What t will tell is what it has stored.
SaysRight(t) ==
  Running(t) /\ stage[t] \in {"event", "state"} /\ Current(t).do # "say" =>
    Standing(Agent(t)) = Current(t).to

\* The snapshot t is reading is right so far.
SightRight(t) ==
  Running(t) =>
    \A a \in Agents :
      /\ line[t] \in {6, 28} /\ (In("active", a) \/ ~Found(a)) => sight[t][a] = Standing(a)
      /\ line[t] \in {7, 29} /\ ~In("failed", a) => sight[t][a] = Standing(a)
      /\ line[t] \in {8, 30, 31} => sight[t][a] = Standing(a)

\* k will know all that the requests have told.
ToldRight(k) ==
  Registered(k) /\ ~dropped[k] =>
    \A a \in Agents : (\A t \in Threads : ~Untold(t, a)) => WillKnow(k, a)

\* While the requests come one after the other.
CalmRight ==
  calm =>
    /\ Alone
    /\ \A t \in Threads : SaysRight(t) /\ SightRight(t)
    /\ \A k \in Clients : ToldRight(k)

\* What is left of a snapshot, and a stream before it subscribes.
AllPages == {<<"active", "completed", "failed">>, <<"completed", "failed">>, <<"failed">>, <<>>}
PagesRight(k) ==
  /\ pages[k] \in AllPages
  /\ client[k] = "subscribed" => pages[k] = <<"active", "completed", "failed">>
  /\ client[k] = "live" => pages[k] = <<>>
  /\ client[k] = "new" =>
       /\ pages[k] = <<>> /\ calls[k] = <<>> /\ box[k] = <<>>
       /\ latest[k].published = latest[k].heard

(***************************************************************************)
(* The script                                                              *)
(***************************************************************************)
\* create_demo_snapshot, line by line.
LEMMA ScriptLines ==
  /\ Script[1].do = "collect" /\ Script[1].role = "none" /\ Script[1].to = "none"
  /\ Script[2].do = "discard" /\ Script[2].role = "none" /\ Script[2].to = "active"
  /\ Script[3].do = "discard" /\ Script[3].role = "none" /\ Script[3].to = "completed"
  /\ Script[4].do = "discard" /\ Script[4].role = "none" /\ Script[4].to = "failed"
  /\ Script[5].do = "read" /\ Script[5].role = "none" /\ Script[5].to = "active"
  /\ Script[6].do = "read" /\ Script[6].role = "none" /\ Script[6].to = "completed"
  /\ Script[7].do = "read" /\ Script[7].role = "none" /\ Script[7].to = "failed"
  /\ Script[8].do = "show" /\ Script[8].role = "none" /\ Script[8].to = "DEMO_RESET"
  /\ Script[9].do = "create" /\ Script[9].role = "planner" /\ Script[9].to = "CREATED"
  /\ Script[10].do = "create" /\ Script[10].role = "researcher" /\ Script[10].to = "CREATED"
  /\ Script[11].do = "create" /\ Script[11].role = "security" /\ Script[11].to = "CREATED"
  /\ Script[12].do = "create" /\ Script[12].role = "integration" /\ Script[12].to = "CREATED"
  /\ Script[13].do = "create" /\ Script[13].role = "coder" /\ Script[13].to = "CREATED"
  /\ Script[14].do = "update" /\ Script[14].role = "planner" /\ Script[14].to = "ASSIGNED"
  /\ Script[15].do = "update" /\ Script[15].role = "researcher" /\ Script[15].to = "ASSIGNED"
  /\ Script[16].do = "update" /\ Script[16].role = "security" /\ Script[16].to = "ASSIGNED"
  /\ Script[17].do = "update" /\ Script[17].role = "integration" /\ Script[17].to = "ASSIGNED"
  /\ Script[18].do = "update" /\ Script[18].role = "coder" /\ Script[18].to = "ASSIGNED"
  /\ Script[19].do = "update" /\ Script[19].role = "planner" /\ Script[19].to = "WORKING"
  /\ Script[20].do = "update" /\ Script[20].role = "researcher" /\ Script[20].to = "COMPLETED"
  /\ Script[21].do = "end" /\ Script[21].role = "researcher" /\ Script[21].to = "COMPLETED"
  /\ Script[22].do = "update" /\ Script[22].role = "security" /\ Script[22].to = "REVIEWING"
  /\ Script[23].do = "update" /\ Script[23].role = "integration" /\ Script[23].to = "WAITING_FOR_APPROVAL"
  /\ Script[24].do = "update" /\ Script[24].role = "coder" /\ Script[24].to = "WORKING"
  /\ Script[25].do = "end" /\ Script[25].role = "coder" /\ Script[25].to = "FAILED"
  /\ Script[26].do = "say" /\ Script[26].role = "planner" /\ Script[26].to = "COMMUNICATING"
  /\ Script[27].do = "read" /\ Script[27].role = "none" /\ Script[27].to = "active"
  /\ Script[28].do = "read" /\ Script[28].role = "none" /\ Script[28].to = "completed"
  /\ Script[29].do = "read" /\ Script[29].role = "none" /\ Script[29].to = "failed"
  /\ Script[30].do = "show" /\ Script[30].role = "none" /\ Script[30].to = "DEMO_STARTED"
  /\ Script[31].do = "show" /\ Script[31].role = "none" /\ Script[31].to = "SNAPSHOT"
<1>1. /\ Script[1].do = "collect" /\ Script[1].role = "none" /\ Script[1].to = "none"
      /\ Script[2].do = "discard" /\ Script[2].role = "none" /\ Script[2].to = "active"
      /\ Script[3].do = "discard" /\ Script[3].role = "none" /\ Script[3].to = "completed"
  BY DEF Script, Op
<1>2. /\ Script[4].do = "discard" /\ Script[4].role = "none" /\ Script[4].to = "failed"
      /\ Script[5].do = "read" /\ Script[5].role = "none" /\ Script[5].to = "active"
      /\ Script[6].do = "read" /\ Script[6].role = "none" /\ Script[6].to = "completed"
      /\ Script[7].do = "read" /\ Script[7].role = "none" /\ Script[7].to = "failed"
  BY DEF Script, Op
<1>3. /\ Script[8].do = "show" /\ Script[8].role = "none" /\ Script[8].to = "DEMO_RESET"
      /\ Script[9].do = "create" /\ Script[9].role = "planner" /\ Script[9].to = "CREATED"
      /\ Script[10].do = "create" /\ Script[10].role = "researcher" /\ Script[10].to = "CREATED"
      /\ Script[11].do = "create" /\ Script[11].role = "security" /\ Script[11].to = "CREATED"
  BY DEF Script, Op
<1>4. /\ Script[12].do = "create" /\ Script[12].role = "integration" /\ Script[12].to = "CREATED"
      /\ Script[13].do = "create" /\ Script[13].role = "coder" /\ Script[13].to = "CREATED"
      /\ Script[14].do = "update" /\ Script[14].role = "planner" /\ Script[14].to = "ASSIGNED"
      /\ Script[15].do = "update" /\ Script[15].role = "researcher" /\ Script[15].to = "ASSIGNED"
  BY DEF Script, Op
<1>5. /\ Script[16].do = "update" /\ Script[16].role = "security" /\ Script[16].to = "ASSIGNED"
      /\ Script[17].do = "update" /\ Script[17].role = "integration" /\ Script[17].to = "ASSIGNED"
      /\ Script[18].do = "update" /\ Script[18].role = "coder" /\ Script[18].to = "ASSIGNED"
      /\ Script[19].do = "update" /\ Script[19].role = "planner" /\ Script[19].to = "WORKING"
  BY DEF Script, Op
<1>6. /\ Script[20].do = "update" /\ Script[20].role = "researcher" /\ Script[20].to = "COMPLETED"
      /\ Script[21].do = "end" /\ Script[21].role = "researcher" /\ Script[21].to = "COMPLETED"
      /\ Script[22].do = "update" /\ Script[22].role = "security" /\ Script[22].to = "REVIEWING"
      /\ Script[23].do = "update" /\ Script[23].role = "integration" /\ Script[23].to = "WAITING_FOR_APPROVAL"
  BY DEF Script, Op
<1>7. /\ Script[24].do = "update" /\ Script[24].role = "coder" /\ Script[24].to = "WORKING"
      /\ Script[25].do = "end" /\ Script[25].role = "coder" /\ Script[25].to = "FAILED"
      /\ Script[26].do = "say" /\ Script[26].role = "planner" /\ Script[26].to = "COMMUNICATING"
      /\ Script[27].do = "read" /\ Script[27].role = "none" /\ Script[27].to = "active"
  BY DEF Script, Op
<1>8. /\ Script[28].do = "read" /\ Script[28].role = "none" /\ Script[28].to = "completed"
      /\ Script[29].do = "read" /\ Script[29].role = "none" /\ Script[29].to = "failed"
      /\ Script[30].do = "show" /\ Script[30].role = "none" /\ Script[30].to = "DEMO_STARTED"
      /\ Script[31].do = "show" /\ Script[31].role = "none" /\ Script[31].to = "SNAPSHOT"
  BY DEF Script, Op
<1>9. QED
  BY <1>1, <1>2, <1>3, <1>4, <1>5, <1>6, <1>7, <1>8

\* What kind of operation a line n is, and whose,
LEMMA LineDoes ==
  ASSUME NEW n \in 1..31
  PROVE  /\ Script[n].do \in {"collect", "discard", "read", "show", "create", "update", "end", "say"}
         /\ Script[n].role = "none" <=> n \in 1..8 \cup 27..31
         /\ Script[n].do = "collect" <=> n = 1
         /\ Script[n].do = "discard" <=> n \in 2..4
         /\ Script[n].do = "read" <=> n \in 5..7 \cup 27..29
         /\ Script[n].do = "show" <=> n \in {8, 30, 31}
         /\ Script[n].do = "create" <=> n \in 9..13
         /\ Script[n].do = "say" <=> n = 26
         /\ Script[n].do = "end" <=> n \in {21, 25}
<1>1. \/ n = 1 \/ n = 2 \/ n = 3 \/ n = 4 \/ n = 5 \/ n = 6 \/ n = 7 \/ n = 8
      \/ n = 9 \/ n = 10 \/ n = 11 \/ n = 12 \/ n = 13 \/ n = 14 \/ n = 15 \/ n = 16
      \/ n = 17 \/ n = 18 \/ n = 19 \/ n = 20 \/ n = 21 \/ n = 22 \/ n = 23 \/ n = 24
      \/ n = 25 \/ n = 26 \/ n = 27 \/ n = 28 \/ n = 29 \/ n = 30 \/ n = 31
  OBVIOUS
<1>2. QED
  BY <1>1, ScriptLines

\* what it is about,
LEMMA LineTells ==
  ASSUME NEW n \in 1..31
  PROVE  /\ Script[n].do = "create" => Script[n].to = "CREATED"
         /\ Script[n].do = "update" => Script[n].to \in Statuses \ {"none"}
         /\ Script[n].do = "discard" => Script[n].to \in Collections
         /\ Script[n].do = "read" => Script[n].to \in Collections
         /\ Script[n].do = "show" => Script[n].to \in {"DEMO_RESET", "DEMO_STARTED", "SNAPSHOT"}
         /\ n \in {5, 27} => Script[n].to = "active"
         /\ n \in {6, 28} => Script[n].to = "completed"
         /\ n \in {7, 29} => Script[n].to = "failed"
<1>1. \/ n = 1 \/ n = 2 \/ n = 3 \/ n = 4 \/ n = 5 \/ n = 6 \/ n = 7 \/ n = 8
      \/ n = 9 \/ n = 10 \/ n = 11 \/ n = 12 \/ n = 13 \/ n = 14 \/ n = 15 \/ n = 16
      \/ n = 17 \/ n = 18 \/ n = 19 \/ n = 20 \/ n = 21 \/ n = 22 \/ n = 23 \/ n = 24
      \/ n = 25 \/ n = 26 \/ n = 27 \/ n = 28 \/ n = 29 \/ n = 30 \/ n = 31
  OBVIOUS
<1>2. QED
  BY <1>1, ScriptLines
     DEF Statuses, Collections

\* and where it stands among the lines about the same agent.
LEMMA LineOfRole ==
  ASSUME NEW n \in 1..31
  PROVE  /\ Script[n].role \in Roles \cup {"none"}
         /\ Script[n].do = "create" => CreateLine[Script[n].role] = n
         /\ Script[n].do = "update" /\ Script[n].role = "researcher" => n < 21
         /\ Script[n].do = "update" /\ Script[n].role = "coder" => n < 25
<1>1. \/ n = 1 \/ n = 2 \/ n = 3 \/ n = 4 \/ n = 5 \/ n = 6 \/ n = 7 \/ n = 8
      \/ n = 9 \/ n = 10 \/ n = 11 \/ n = 12 \/ n = 13 \/ n = 14 \/ n = 15 \/ n = 16
      \/ n = 17 \/ n = 18 \/ n = 19 \/ n = 20 \/ n = 21 \/ n = 22 \/ n = 23 \/ n = 24
      \/ n = 25 \/ n = 26 \/ n = 27 \/ n = 28 \/ n = 29 \/ n = 30 \/ n = 31
  OBVIOUS
<1>2. QED
  BY <1>1, ScriptLines
     DEF Roles, CreateLine

\* The length of the script, the two lines that end an agent, and the roles.
LEMMA ScriptFacts ==
  /\ DOMAIN Script = 1..31 /\ Len(Script) = 31 /\ ResetLength = 8
  /\ Script[21].role = "researcher" /\ Script[21].to = "COMPLETED"
  /\ Script[25].role = "coder" /\ Script[25].to = "FAILED"
  /\ \A r \in Roles : CreateLine[r] \in 9..13
<1>1. DOMAIN Script = 1..31 /\ Len(Script) = 31 /\ ResetLength = 8
  BY DEF Script, ResetLength
<1>2. /\ Script[21].role = "researcher" /\ Script[21].to = "COMPLETED"
      /\ Script[25].role = "coder" /\ Script[25].to = "FAILED"
  BY DEF Script, Op
<1>3. \A r \in Roles : CreateLine[r] \in 9..13
  BY DEF Roles, CreateLine
<1>4. QED
  BY <1>1, <1>2, <1>3

\* The operation of a request at line n, and where it goes on.
LEMMA AdvanceFacts ==
  ASSUME JobTypes, NEW t \in Threads, Running(t), Advance(t)
  PROVE  \/ \E n \in 1..31 :
              /\ line[t] < n /\ Script[n].role \in Cast \cup {"none"}
              /\ job[t] = "reset" => n <= 8
              /\ line' = [line EXCEPT ![t] = n]
              /\ stage' = [stage EXCEPT ![t] = FirstStage(Script[n])]
              /\ job' = job
              /\ line[t] \in 1..7 \cup 27..30 => n = line[t] + 1
              /\ line[t] \in 8..26 => n <= 27
         \/ /\ job' = [job EXCEPT ![t] = "done"] /\ UNCHANGED <<line, stage>>
            /\ line[t] \notin 1..7 \cup 27..30
<1>1. line[t] \in 1..31 /\ job[t] \in {"demo", "reset"} /\ (job[t] = "reset" => line[t] <= 8)
  BY ScriptFacts DEF JobTypes, Running, PlaceRight
<1>2. LastLine(job[t]) = (IF job[t] = "reset" THEN 8 ELSE 31)
  BY ScriptFacts DEF LastLine
<1>3. line[t] \in 1..7 \cup 27..30 => line[t] + 1 \in LinesLeft(t)
  <2> SUFFICES ASSUME line[t] \in 1..7 \cup 27..30 PROVE line[t] + 1 \in LinesLeft(t)
    OBVIOUS
  <2>1. line[t] + 1 \in line[t] + 1 .. LastLine(job[t]) /\ line[t] + 1 \in 1..8 \cup 27..31
    BY <1>1, <1>2
  <2>2. Script[line[t] + 1].role = "none"
    BY <2>1, LineDoes
  <2>3. QED
    BY <2>1, <2>2 DEF LinesLeft
<1>7. line[t] \in 8..26 /\ job[t] # "reset" => 27 \in LinesLeft(t)
  <2> SUFFICES ASSUME line[t] \in 8..26, job[t] # "reset" PROVE 27 \in LinesLeft(t)
    OBVIOUS
  <2>1. 27 \in line[t] + 1 .. LastLine(job[t])
    BY <1>1, <1>2
  <2>2. Script[27].role = "none"
    BY LineDoes
  <2>3. QED
    BY <2>1, <2>2 DEF LinesLeft
<1>4. CASE LinesLeft(t) = {} /\ job' = [job EXCEPT ![t] = "done"] /\ UNCHANGED <<line, stage>>
  BY <1>3, <1>4
<1>5. ASSUME NEW n \in LinesLeft(t), \A m \in LinesLeft(t) : n <= m,
             line' = [line EXCEPT ![t] = n],
             stage' = [stage EXCEPT ![t] = FirstStage(Script[n])], job' = job
      PROVE  /\ n \in 1..31 /\ line[t] < n /\ Script[n].role \in Cast \cup {"none"}
             /\ job[t] = "reset" => n <= 8
             /\ line[t] \in 1..7 \cup 27..30 => n = line[t] + 1
             /\ line[t] \in 8..26 => n <= 27
  <2>1. /\ n \in line[t] + 1 .. LastLine(job[t]) /\ Script[n].role \in Cast \cup {"none"}
        /\ line[t] \in 1..7 \cup 27..30 => n <= line[t] + 1
        /\ line[t] \in 8..26 /\ job[t] # "reset" => n <= 27
    BY <1>3, <1>7, <1>5 DEF LinesLeft
  <2>2. QED
    BY <2>1, <1>1, <1>2
<1>6. QED
  BY <1>4, <1>5 DEF Advance

(***************************************************************************)
(* Requests: their places                                                  *)
(***************************************************************************)
\* A request that t does not run stays where it is.
LEMMA PlaceKept ==
  ASSUME NEW u \in Threads, PlaceRight(u), job'[u] = job[u], line'[u] = line[u],
         stage'[u] = stage[u]
  PROVE  PlaceRight(u)'
BY DEF PlaceRight, Running, Current

LEMMA AdvanceTypes ==
  ASSUME JobTypes, NEW t \in Threads, Running(t), Advance(t)
  PROVE  JobTypes'
<1>1. PlaceRight(t) /\ t \in DOMAIN line /\ t \in DOMAIN stage /\ t \in DOMAIN job
  BY DEF JobTypes
<1>2. ASSUME NEW n \in 1..31, line[t] < n, Script[n].role \in Cast \cup {"none"},
             job[t] = "reset" => n <= 8, line' = [line EXCEPT ![t] = n],
             stage' = [stage EXCEPT ![t] = FirstStage(Script[n])], job' = job
      PROVE  JobTypes'
  <2>1. FirstStage(Script[n]) \in {"find", "event", "store"}
    BY DEF FirstStage
  <2>2. /\ line' \in [Threads -> 1..31]
        /\ stage' \in [Threads -> {"find", "pop", "store", "event", "state"}]
        /\ job' \in [Threads -> {"idle", "demo", "reset", "done", "raised"}]
    BY <1>2, <2>1 DEF JobTypes
  <2>3. line'[t] = n /\ stage'[t] = FirstStage(Script[n]) /\ job'[t] = job[t]
    BY <1>1, <1>2
  <2>4. PlaceRight(t)'
    <3>1. Script[n].do \in {"collect", "discard", "read", "show", "create", "update", "end", "say"}
      BY LineDoes
    <3>2. /\ FirstStage(Script[n]) = "find" => Script[n].do \in {"update", "end"}
          /\ FirstStage(Script[n]) = "event" => Script[n].do = "say"
          /\ FirstStage(Script[n]) = "store" => Script[n].do # "say"
      BY <3>1 DEF FirstStage
    <3>3. job[t] \in {"demo", "reset"}
      BY DEF Running
    <3>4. QED
      BY <1>2, <2>1, <2>3, <3>2, <3>3, ScriptFacts DEF PlaceRight, Current, Running
  <2>5. ASSUME NEW u \in Threads, u # t PROVE PlaceRight(u)'
    <3>1. job'[u] = job[u] /\ line'[u] = line[u] /\ stage'[u] = stage[u]
      BY <1>2, <2>5 DEF JobTypes
    <3>2. QED
      BY <3>1, PlaceKept DEF JobTypes
  <2>6. QED
    BY <2>2, <2>4, <2>5 DEF JobTypes
<1>3. CASE job' = [job EXCEPT ![t] = "done"] /\ UNCHANGED <<line, stage>>
  <2>1. job' \in [Threads -> {"idle", "demo", "reset", "done", "raised"}] /\ job'[t] = "done"
    BY <1>1, <1>3 DEF JobTypes
  <2>2. PlaceRight(t)'
    BY <1>1, <1>3, <2>1 DEF PlaceRight, Current, Running
  <2>3. ASSUME NEW u \in Threads, u # t PROVE PlaceRight(u)'
    <3>1. job'[u] = job[u] /\ line'[u] = line[u] /\ stage'[u] = stage[u]
      BY <1>3, <2>3 DEF JobTypes
    <3>2. QED
      BY <3>1, PlaceKept DEF JobTypes
  <2>4. QED
    BY <1>3, <2>1, <2>2, <2>3 DEF JobTypes
<1>4. QED
  BY <1>1, <1>2, <1>3, AdvanceFacts

\* The next stage of an operation.
LEMMA StageTypes ==
  ASSUME JobTypes, NEW t \in Threads, NEW s \in {"find", "pop", "store", "event", "state"},
         Stage(t, s), Running(t),
         s = "find" => Current(t).do \in {"update", "end"},
         s = "pop" => Current(t).do = "end",
         s = "event" => Current(t).do \in {"create", "update", "end", "say"},
         s = "state" => Current(t).do \in {"create", "update", "end"},
         s = "store" => Current(t).do # "say"
  PROVE  JobTypes'
<1>1. /\ stage' \in [Threads -> {"find", "pop", "store", "event", "state"}]
      /\ stage'[t] = s /\ job' = job /\ line' = line
  BY DEF Stage, JobTypes
<1>2. PlaceRight(t)'
  BY <1>1 DEF PlaceRight, Current, Running, JobTypes
<1>3. ASSUME NEW u \in Threads, u # t PROVE PlaceRight(u)'
  <2>1. stage'[u] = stage[u]
    BY <1>3 DEF Stage, JobTypes
  <2>2. QED
    BY <1>1, <2>1, PlaceKept DEF JobTypes
<1>4. QED
  BY <1>1, <1>2, <1>3 DEF JobTypes

LEMMA RaisedTypes ==
  ASSUME JobTypes, NEW t \in Threads, Raised(t)
  PROVE  JobTypes'
<1>1. /\ job' \in [Threads -> {"idle", "demo", "reset", "done", "raised"}]
      /\ job'[t] = "raised" /\ line' = line /\ stage' = stage
  BY DEF Raised, JobTypes
<1>2. PlaceRight(t)'
  BY <1>1 DEF PlaceRight, Current, Running, JobTypes
<1>3. ASSUME NEW u \in Threads, u # t PROVE PlaceRight(u)'
  <2>1. job'[u] = job[u]
    BY <1>3 DEF Raised, JobTypes
  <2>2. QED
    BY <1>1, <2>1, PlaceKept DEF JobTypes
<1>4. QED
  BY <1>1, <1>2, <1>3 DEF JobTypes

LEMMA StartTypes ==
  ASSUME JobTypes, NEW t \in Threads, NEW kind \in {"demo", "reset"}, Start(t, kind)
  PROVE  JobTypes'
<1>1. Script[1].do = "collect" /\ Script[1].role = "none" /\ FirstStage(Script[1]) = "store"
  BY LineDoes DEF FirstStage
<1>2. /\ job' \in [Threads -> {"idle", "demo", "reset", "done", "raised"}]
      /\ line' \in [Threads -> 1..31]
      /\ stage' \in [Threads -> {"find", "pop", "store", "event", "state"}]
      /\ job'[t] = kind /\ line'[t] = 1 /\ stage'[t] = "store"
  BY <1>1 DEF Start, JobTypes
<1>3. PlaceRight(t)'
  BY <1>1, <1>2, ScriptFacts DEF PlaceRight, Current, Running
<1>4. ASSUME NEW u \in Threads, u # t PROVE PlaceRight(u)'
  <2>1. job'[u] = job[u] /\ line'[u] = line[u] /\ stage'[u] = stage[u]
    BY <1>4 DEF Start, JobTypes
  <2>2. QED
    BY <2>1, PlaceKept DEF JobTypes
<1>5. QED
  BY <1>2, <1>3, <1>4 DEF JobTypes

(***************************************************************************)
(* Requests: where the agents are                                          *)
(***************************************************************************)
\* No record is stored or changed; some may be discarded.
Shrinks == \A c \in Collections, a \in Agents : store'[c][a] # "none" => store'[c][a] = store[c][a]

LEMMA ShrinkFacts ==
  ASSUME Shrinks
  PROVE  /\ \A c \in Collections, a \in Agents : In(c, a)' => In(c, a)
         /\ \A a \in Agents : Found(a)' => Found(a)
         /\ OneCollection => OneCollection'
<1>1. \A c \in Collections, a \in Agents : In(c, a)' => In(c, a) /\ store'[c][a] = store[c][a]
  BY DEF Shrinks, In
<1>2. \A a \in Agents : Found(a)' => Found(a)
  BY <1>1 DEF Found
<1>3. {"completed", "failed"} \subseteq Collections
  BY DEF Collections
<1>4. QED
  BY <1>1, <1>2, <1>3 DEF OneCollection

\* Collections by name.
LEMMA CollectionNames ==
  /\ "active" \in Collections /\ "completed" \in Collections /\ "failed" \in Collections
  /\ \A c \in Collections : c = "active" \/ c = "completed" \/ c = "failed"
  /\ \A t \in Threads, r \in Cast : <<t, r>> \in Agents
BY DEF Collections, Agents

\* The agents of a request that stays where it is.
LEMMA HomeKept ==
  ASSUME NEW u \in Threads, HomeRight(u), line'[u] = line[u], stage'[u] = stage[u],
         \A c \in Collections, r \in Cast : In(c, <<u, r>>)' => In(c, <<u, r>>)
  PROVE  HomeRight(u)'
<1>1. \A r \in Cast : Found(<<u, r>>)' => Found(<<u, r>>)
  BY DEF Found
<1>2. \A n, S : Before(u, n, S)' <=> Before(u, n, S)
  BY DEF Before
<1>3. Current(u)' = Current(u)
  BY DEF Current
<1>4. QED
  BY <1>1, <1>2, <1>3, CollectionNames DEF HomeRight

\* The agents of a request that goes on.
LEMMA HomeAdvances ==
  ASSUME JobTypes, NEW t \in Threads, Running(t), Advance(t), HomeRight(t),
         \A c \in Collections, r \in Cast : In(c, <<t, r>>)' => In(c, <<t, r>>)
  PROVE  HomeRight(t)'
<1>1. PlaceRight(t) /\ line[t] \in 1..31 /\ t \in DOMAIN line /\ t \in DOMAIN stage
  BY DEF JobTypes
<1>2. ASSUME NEW n \in 1..31, line[t] < n, line' = [line EXCEPT ![t] = n],
             stage' = [stage EXCEPT ![t] = FirstStage(Script[n])]
      PROVE  HomeRight(t)'
  <2>1. line'[t] = n /\ stage'[t] = FirstStage(Script[n])
    BY <1>1, <1>2
  <2>2. \A S : \A m \in 1..31 : Before(t, m, S)' => Before(t, m, S)
    BY <1>1, <1>2, <2>1 DEF Before
  <2>3. Script[n].do = "end" => stage'[t] = "find"
    BY <2>1 DEF FirstStage
  <2>4. \A r \in Cast : CreateLine[r] \in 1..31
    BY ScriptFacts, AgentConstantsOK
  <2>5. \A r \in Cast : Found(<<t, r>>)' => Found(<<t, r>>)
    BY DEF Found
  <2>6. Current(t)' = Script[n]
    BY <2>1 DEF Current
  <2>7. 21 \in 1..31 /\ 25 \in 1..31
    OBVIOUS
  <2>8. ASSUME NEW r \in Cast PROVE
           /\ Before(t, CreateLine[r], {"store"})' => ~Found(<<t, r>>)'
           /\ In("completed", <<t, r>>)' =>
                r = "researcher" /\ ~Before(t, 21, {"find", "pop", "store"})'
           /\ In("failed", <<t, r>>)' => r = "coder" /\ ~Before(t, 25, {"find", "pop", "store"})'
           /\ Script[n].do = "end" /\ Script[n].role = r /\ stage'[t] = "store" =>
                ~In("active", <<t, r>>)'
    BY <2>2, <2>3, <2>4, <2>5, <2>7, CollectionNames DEF HomeRight
  <2>9. QED
    BY <2>6, <2>8 DEF HomeRight, Before
<1>3. CASE UNCHANGED <<line, stage>>
  BY <1>3, HomeKept
<1>4. QED
  BY <1>1, <1>2, <1>3, AdvanceFacts

\* A step of t moves no other request.
OnlyMoves(t) ==
  \A u \in Threads : u # t => job'[u] = job[u] /\ line'[u] = line[u] /\ stage'[u] = stage[u]

LEMMA MovesFacts ==
  ASSUME JobTypes, NEW t \in Threads
  PROVE  /\ Advance(t) => OnlyMoves(t)
         /\ Raised(t) => OnlyMoves(t)
         /\ \A s : Stage(t, s) => OnlyMoves(t)
         /\ \A kind : Start(t, kind) => OnlyMoves(t)
<1>1. Advance(t) => OnlyMoves(t)
  <2>1. ASSUME NEW n \in LinesLeft(t), line' = [line EXCEPT ![t] = n],
               stage' = [stage EXCEPT ![t] = FirstStage(Script[n])], job' = job
        PROVE  OnlyMoves(t)
    BY <2>1 DEF OnlyMoves, JobTypes
  <2>2. CASE job' = [job EXCEPT ![t] = "done"] /\ UNCHANGED <<line, stage>>
    BY <2>2 DEF OnlyMoves, JobTypes
  <2>3. QED
    BY <2>1, <2>2 DEF Advance
<1>2. Raised(t) => OnlyMoves(t)
  BY DEF OnlyMoves, JobTypes, Raised
<1>3. ASSUME NEW s, Stage(t, s) PROVE OnlyMoves(t)
  BY <1>3 DEF OnlyMoves, JobTypes, Stage
<1>4. ASSUME NEW kind, Start(t, kind) PROVE OnlyMoves(t)
  BY <1>4 DEF OnlyMoves, JobTypes, Start
<1>5. QED
  BY <1>1, <1>2, <1>3, <1>4

\* Where the agents are agrees with how far their requests have come.
HomeInv == OneCollection /\ \A t \in Threads : HomeRight(t)

\* Steps that store nothing.
LEMMA ShrinkHome ==
  ASSUME JobTypes, HomeInv, Shrinks, NEW t \in Threads, OnlyMoves(t), HomeRight(t)'
  PROVE  HomeInv'
<1>1. ASSUME NEW u \in Threads, u # t PROVE HomeRight(u)'
  <2>1. line'[u] = line[u] /\ stage'[u] = stage[u] /\ HomeRight(u)
    BY <1>1 DEF OnlyMoves, HomeInv
  <2>2. QED
    BY <2>1, ShrinkFacts, CollectionNames, HomeKept
<1>2. QED
  BY <1>1, ShrinkFacts DEF HomeInv

LEMMA AdvanceHome ==
  ASSUME JobTypes, HomeInv, Shrinks, NEW t \in Threads, Running(t), Advance(t)
  PROVE  HomeInv'
<1>1. HomeRight(t)'
  BY HomeAdvances, ShrinkFacts, CollectionNames DEF HomeInv
<1>2. QED
  BY <1>1, ShrinkHome, MovesFacts

LEMMA RaisedHome ==
  ASSUME JobTypes, HomeInv, Shrinks, NEW t \in Threads, Raised(t)
  PROVE  HomeInv'
<1>1. HomeRight(t)'
  BY HomeKept, ShrinkFacts, CollectionNames DEF HomeInv, Raised
<1>2. QED
  BY <1>1, ShrinkHome, MovesFacts

LEMMA StartHome ==
  ASSUME JobTypes, HomeInv, store' = store, NEW t \in Threads,
         NEW kind \in {"demo", "reset"}, Start(t, kind)
  PROVE  HomeInv'
<1>1. line[t] = 1 /\ line'[t] = 1 /\ HomeRight(t) /\ t \in Threads
  BY DEF JobTypes, PlaceRight, Start, HomeInv
<1>2. \A c \in Collections, a \in Agents : In(c, a)' = In(c, a)
  BY DEF In
<1>3. Shrinks
  BY DEF Shrinks
<1>4. \A S : \A m \in 2..31 : Before(t, m, S)' <=> Before(t, m, S)
  BY <1>1 DEF Before
<1>5. \A r \in Cast : CreateLine[r] \in 2..31
  BY ScriptFacts, AgentConstantsOK
<1>6. Script[1].do = "collect"
  BY LineDoes
<1>7. \A r \in Cast : Found(<<t, r>>)' => Found(<<t, r>>)
  BY <1>2, CollectionNames DEF Found
<1>8. 21 \in 2..31 /\ 25 \in 2..31
  OBVIOUS
<1>9. ASSUME NEW r \in Cast PROVE
           /\ Before(t, CreateLine[r], {"store"})' => ~Found(<<t, r>>)'
           /\ In("completed", <<t, r>>)' =>
                r = "researcher" /\ ~Before(t, 21, {"find", "pop", "store"})'
           /\ In("failed", <<t, r>>)' => r = "coder" /\ ~Before(t, 25, {"find", "pop", "store"})'
           /\ Current(t)'.do # "end"
  <2>1. Current(t)' = Script[1]
    BY <1>1 DEF Current
  <2>2. QED
    BY <1>1, <1>2, <1>4, <1>5, <1>6, <1>7, <1>8, <2>1, CollectionNames DEF HomeRight
<1>10. HomeRight(t)'
  BY <1>9 DEF HomeRight, Before
<1>11. QED
  BY <1>3, <1>10, ShrinkHome, MovesFacts

\* An operation goes on to its next stage without storing anything.
LEMMA StageHome ==
  ASSUME JobTypes, HomeInv, store' = store, NEW t \in Threads, NEW s, Stage(t, s),
         \/ stage[t] = "find" /\ s = "store" /\ Current(t).do = "update"
         \/ stage[t] = "find" /\ s = "pop"
         \/ stage[t] = "event" /\ s = "state"
  PROVE  HomeInv'
<1>1. line' = line /\ stage'[t] = s /\ HomeRight(t) /\ t \in Threads /\ PlaceRight(t)
  BY DEF JobTypes, Stage, HomeInv
<1>2. \A c \in Collections, a \in Agents : In(c, a)' = In(c, a)
  BY DEF In
<1>3. Shrinks
  BY DEF Shrinks
<1>4. (line[t] \in 1..31 /\ line[t] \notin 9..13) \/ s = "state"
  <2>1. line[t] \in 1..31
    BY DEF JobTypes
  <2>2. stage[t] = "find" => Script[line[t]].do \in {"update", "end"}
    BY <1>1 DEF PlaceRight, Current
  <2>3. QED
    BY <2>1, <2>2, LineDoes
<1>5. \A r \in Cast : CreateLine[r] \in 9..13
  BY ScriptFacts, AgentConstantsOK
<1>6. \A m \in 9..13 : Before(t, m, {"store"})' => Before(t, m, {"store"})
  BY <1>1, <1>4 DEF Before
<1>7. \A m : Before(t, m, {"find", "pop", "store"})' => Before(t, m, {"find", "pop", "store"})
  BY <1>1 DEF Before
<1>8. \A r \in Cast : Found(<<t, r>>)' => Found(<<t, r>>)
  BY <1>2, CollectionNames DEF Found
<1>9. Current(t)' = Current(t) /\ (stage'[t] = "store" => Current(t).do # "end")
  BY <1>1 DEF Current
<1>10. ASSUME NEW r \in Cast PROVE
           /\ Before(t, CreateLine[r], {"store"})' => ~Found(<<t, r>>)'
           /\ In("completed", <<t, r>>)' =>
                r = "researcher" /\ ~Before(t, 21, {"find", "pop", "store"})'
           /\ In("failed", <<t, r>>)' => r = "coder" /\ ~Before(t, 25, {"find", "pop", "store"})'
           /\ ~(Current(t).do = "end" /\ stage'[t] = "store")
  BY <1>1, <1>2, <1>5, <1>6, <1>7, <1>8, <1>9, CollectionNames DEF HomeRight
<1>11. HomeRight(t)'
  BY <1>9, <1>10 DEF HomeRight, Before
<1>12. QED
  BY <1>3, <1>11, ShrinkHome, MovesFacts

\* The agent an operation is about.
LEMMA AgentFacts ==
  ASSUME JobTypes, NEW t \in Threads, Running(t),
         Current(t).do \in {"create", "update", "end", "say"}
  PROVE  /\ Current(t).role \in Cast /\ Agent(t) = <<t, Current(t).role>> /\ Agent(t) \in Agents
         /\ line[t] \in 1..31 /\ Current(t) = Script[line[t]]
<1>1. line[t] \in 1..31 /\ Current(t).role \in Cast \cup {"none"} /\ Current(t) = Script[line[t]]
  BY DEF JobTypes, PlaceRight, Current
<1>2. Current(t).role # "none"
  BY <1>1, LineDoes
<1>3. QED
  BY <1>1, <1>2, CollectionNames DEF Agent

\* A step that changes one agent of t and stays at its line.
LEMMA ChangeHome ==
  ASSUME JobTypes, HomeInv, NEW t \in Threads, Running(t), NEW s, Stage(t, s),
         Current(t).do \in {"create", "update", "end"},
         \A c \in Collections, a \in Agents : a # Agent(t) => store'[c][a] = store[c][a],
         \A c, d \in Collections : In(c, Agent(t))' /\ In(d, Agent(t))' => c = d,
         s # "find" /\ (s = "store" => stage[t] = "pop"),
         Before(t, CreateLine[Current(t).role], {"store"})' => ~Found(Agent(t))',
         In("completed", Agent(t))' =>
           /\ store'["completed"][Agent(t)] = "COMPLETED" /\ Current(t).role = "researcher"
           /\ ~Before(t, 21, {"find", "pop", "store"})',
         In("failed", Agent(t))' =>
           /\ store'["failed"][Agent(t)] = "FAILED" /\ Current(t).role = "coder"
           /\ ~Before(t, 25, {"find", "pop", "store"})',
         s = "store" => ~In("active", Agent(t))'
  PROVE  HomeInv'
<1>1. line' = line /\ stage'[t] = s /\ HomeRight(t) /\ Current(t)' = Current(t)
  BY DEF JobTypes, Stage, HomeInv, Current
<1>2. /\ Current(t).role \in Cast /\ Agent(t) = <<t, Current(t).role>> /\ Agent(t) \in Agents
      /\ line[t] \in 1..31 /\ Current(t) = Script[line[t]]
  BY AgentFacts
<1>3. \A a \in Agents : a # Agent(t) => \A c \in Collections : In(c, a)' = In(c, a)
  BY DEF In
<1>4. \A a \in Agents : a # Agent(t) => (Found(a)' => Found(a))
  BY <1>3 DEF Found
<1>9. Agent(t)' = Agent(t)
  BY <1>1 DEF Agent
<1>5. OneCollection'
  <2>1. ASSUME NEW a \in Agents
        PROVE  /\ \A c, d \in Collections : In(c, a)' /\ In(d, a)' => c = d
               /\ In("completed", a)' => store'["completed"][a] = "COMPLETED"
               /\ In("failed", a)' => store'["failed"][a] = "FAILED"
    <3>1. CASE a = Agent(t)
      BY <1>9, <3>1 DEF In
    <3>2. CASE a # Agent(t)
      BY <1>3, <3>2, CollectionNames DEF HomeInv, OneCollection
    <3>3. QED
      BY <3>1, <3>2
  <2>2. QED
    BY <2>1 DEF OneCollection, In
<1>6. ASSUME NEW u \in Threads, u # t PROVE HomeRight(u)'
  <2>1. \A r \in Cast : <<u, r>> \in Agents /\ <<u, r>> # Agent(t)
    BY <1>2, <1>6, CollectionNames
  <2>2. line'[u] = line[u] /\ stage'[u] = stage[u] /\ HomeRight(u)
    BY <1>6, MovesFacts DEF OnlyMoves, HomeInv
  <2>3. QED
    BY <1>3, <2>1, <2>2, HomeKept
<1>7. HomeRight(t)'
  <2>2. ASSUME NEW r \in Cast, r # Current(t).role
        PROVE  /\ Before(t, CreateLine[r], {"store"})' => ~Found(<<t, r>>)'
               /\ In("completed", <<t, r>>)' =>
                    r = "researcher" /\ ~Before(t, 21, {"find", "pop", "store"})'
               /\ In("failed", <<t, r>>)' =>
                    r = "coder" /\ ~Before(t, 25, {"find", "pop", "store"})'
    <3>1. <<t, r>> # Agent(t) /\ <<t, r>> \in Agents
      BY <1>2, <2>2, CollectionNames
    <3>2. CreateLine[r] \in 9..13 /\ (line[t] # CreateLine[r] \/ s # "store")
      <4>1. CreateLine[r] \in 9..13
        BY ScriptFacts, AgentConstantsOK
      <4>2. s = "store" => Script[line[t]].do = "end"
        BY <1>2 DEF JobTypes, PlaceRight
      <4>3. QED
        BY <1>2, <4>1, <4>2, LineDoes
    <3>3. Before(t, CreateLine[r], {"store"})' => Before(t, CreateLine[r], {"store"})
      BY <1>1, <3>2 DEF Before
    <3>4. r = "researcher" => line[t] # 21
      BY <1>2, <2>2, ScriptFacts
    <3>5. r = "coder" => line[t] # 25
      BY <1>2, <2>2, ScriptFacts
    <3>6. r = "researcher" =>
            (Before(t, 21, {"find", "pop", "store"})' => Before(t, 21, {"find", "pop", "store"}))
      BY <1>1, <3>4 DEF Before
    <3>7. r = "coder" =>
            (Before(t, 25, {"find", "pop", "store"})' => Before(t, 25, {"find", "pop", "store"}))
      BY <1>1, <3>5 DEF Before
    <3>8. QED
      BY <1>1, <1>3, <1>4, <3>1, <3>3, <3>6, <3>7, CollectionNames DEF HomeRight
  <2>3. ASSUME NEW r \in Cast
        PROVE  /\ Before(t, CreateLine[r], {"store"})' => ~Found(<<t, r>>)'
               /\ In("completed", <<t, r>>)' =>
                    r = "researcher" /\ ~Before(t, 21, {"find", "pop", "store"})'
               /\ In("failed", <<t, r>>)' =>
                    r = "coder" /\ ~Before(t, 25, {"find", "pop", "store"})'
               /\ Current(t).role = r /\ s = "store" => ~In("active", <<t, r>>)'
    <3>1. CASE r = Current(t).role
      <4>1. \A S : Before(t, CreateLine[r], S)' = Before(t, CreateLine[Current(t).role], S)'
        BY <1>1, <3>1 DEF Before
      <4>2. <<t, r>> = Agent(t) /\ Found(<<t, r>>)' = Found(Agent(t))'
            /\ \A c : In(c, <<t, r>>)' = In(c, Agent(t))'
        BY <1>2, <1>9, <3>1 DEF In, Found
      <4>3. QED
        BY <4>1, <4>2, <3>1
    <3>2. CASE r # Current(t).role
      BY <2>2, <3>2
    <3>3. QED
      BY <3>1, <3>2
  <2>4. QED
    BY <1>1, <2>3 DEF HomeRight, Before
<1>8. QED
  BY <1>5, <1>6, <1>7 DEF HomeInv

\* An agent is nowhere when it is created, active or nowhere until its end is stored,
\* and nowhere then.
LEMMA WhereFacts ==
  ASSUME JobTypes, StoreTypes, HomeInv, NEW t \in Threads, Running(t)
  PROVE  /\ Current(t).do = "create" /\ stage[t] = "store" =>
              ~Found(Agent(t)) /\ CreateLine[Current(t).role] = line[t]
         /\ Current(t).do = "update" =>
              /\ ~In("completed", Agent(t)) /\ ~In("failed", Agent(t)) /\ Home(Agent(t)) = "active"
              /\ CreateLine[Current(t).role] < line[t] /\ Current(t).to # "none"
         /\ Current(t).do = "end" =>
              /\ CreateLine[Current(t).role] < line[t]
              /\ \/ line[t] = 21 /\ Current(t).role = "researcher" /\ Current(t).to = "COMPLETED"
                 \/ line[t] = 25 /\ Current(t).role = "coder" /\ Current(t).to = "FAILED"
              /\ stage[t] \in {"find", "pop", "store"} =>
                   ~In("completed", Agent(t)) /\ ~In("failed", Agent(t))
              /\ stage[t] = "store" => ~Found(Agent(t))
<1>1. HomeRight(t) /\ line[t] \in 1..31
  BY DEF HomeInv, JobTypes
<1>2. Current(t).do \in {"create", "update", "end", "say"} =>
        /\ Current(t).role \in Cast /\ Agent(t) = <<t, Current(t).role>> /\ Agent(t) \in Agents
        /\ Current(t) = Script[line[t]] /\ CreateLine[Current(t).role] \in 9..13
  BY AgentFacts, ScriptFacts, AgentConstantsOK
<1>3. CASE Current(t).do = "create" /\ stage[t] = "store"
  <2>1. CreateLine[Current(t).role] = line[t]
    BY <1>1, <1>2, <1>3, LineOfRole
  <2>2. Before(t, CreateLine[Current(t).role], {"store"})
    BY <1>3, <2>1 DEF Before
  <2>3. QED
    BY <1>1, <1>2, <1>3, <2>1, <2>2 DEF HomeRight
<1>4. CASE Current(t).do = "update"
  <2>1. line[t] \notin 1..13 /\ Current(t).to # "none"
    <3>1. Script[line[t]].do = "update" /\ Script[line[t]] = Current(t)
      BY <1>2, <1>4
    <3>2. line[t] \notin 1..13
      BY <1>1, <3>1, LineDoes
    <3>3. QED
      BY <1>1, <3>1, <3>2, LineTells
  <2>2. Current(t).role = "researcher" => line[t] < 21
    BY <1>1, <1>2, <1>4, LineOfRole
  <2>3. Current(t).role = "coder" => line[t] < 25
    BY <1>1, <1>2, <1>4, LineDoes
  <2>4. ~In("completed", Agent(t)) /\ ~In("failed", Agent(t))
    BY <1>1, <1>2, <1>4, <2>2, <2>3 DEF HomeRight, Before
  <2>5. Home(Agent(t)) = "active"
    BY <2>4 DEF Home
  <2>6. QED
    BY <1>1, <1>2, <1>4, <2>1, <2>4, <2>5
<1>5. CASE Current(t).do = "end"
  <2>1. line[t] \in {21, 25}
    BY <1>1, <1>2, <1>5, LineDoes
  <2>2. \/ line[t] = 21 /\ Current(t).role = "researcher" /\ Current(t).to = "COMPLETED"
        \/ line[t] = 25 /\ Current(t).role = "coder" /\ Current(t).to = "FAILED"
    BY <1>2, <1>5, <2>1, ScriptFacts
  <2>3. stage[t] \in {"find", "pop", "store"} =>
          ~In("completed", Agent(t)) /\ ~In("failed", Agent(t))
    BY <1>1, <1>2, <1>5, <2>2 DEF HomeRight, Before
  <2>4. stage[t] = "store" => ~In("active", Agent(t))
    BY <1>1, <1>2, <1>5 DEF HomeRight
  <2>5. QED
    BY <1>2, <1>5, <2>1, <2>2, <2>3, <2>4, CollectionNames DEF Found
<1>6. QED
  BY <1>3, <1>4, <1>5

\* Put stores one record.
LEMMA PutFacts ==
  ASSUME StoreTypes, NEW c \in Collections, NEW a \in Agents, NEW st \in Statuses, Put(c, a, st)
  PROVE  /\ StoreTypes' /\ store'[c][a] = st
         /\ \A d \in Collections, b \in Agents : d # c \/ b # a => store'[d][b] = store[d][b]
BY DEF StoreTypes, Put

LEMMA CreateHome ==
  ASSUME JobTypes, StoreTypes, HomeInv, NEW t \in Threads, Create(t)
  PROVE  /\ JobTypes' /\ StoreTypes' /\ HomeInv'
         /\ \A c \in Collections, a \in Agents : a # Agent(t) => store'[c][a] = store[c][a]
         /\ \E c \in Collections : store'[c][Agent(t)] = Current(t).to
<1>1. /\ Running(t) /\ Current(t).do = "create" /\ stage[t] = "store"
      /\ Put("active", Agent(t), "CREATED") /\ Stage(t, "event")
  BY DEF Create
<1>2. /\ Agent(t) \in Agents /\ ~Found(Agent(t)) /\ CreateLine[Current(t).role] = line[t]
      /\ line[t] \in 1..31
  BY <1>1, AgentFacts, WhereFacts
<1>3. /\ StoreTypes' /\ store'["active"][Agent(t)] = "CREATED"
      /\ \A d \in Collections, b \in Agents :
           d # "active" \/ b # Agent(t) => store'[d][b] = store[d][b]
  BY <1>1, <1>2, PutFacts, CollectionNames DEF Statuses
<1>4. JobTypes'
  BY <1>1, StageTypes
<1>5. /\ Agent(t)' = Agent(t) /\ Current(t)' = Current(t) /\ line'[t] = line[t]
      /\ stage'[t] = "event"
  BY <1>1 DEF Stage, Agent, Current, JobTypes
<1>6. ~In("completed", Agent(t))' /\ ~In("failed", Agent(t))'
  BY <1>2, <1>3, <1>5, CollectionNames DEF In, Found
<1>7. \A c, d \in Collections : In(c, Agent(t))' /\ In(d, Agent(t))' => c = d
  BY <1>6, CollectionNames
<1>8. ~Before(t, CreateLine[Current(t).role], {"store"})'
  BY <1>2, <1>5 DEF Before
<1>9. HomeInv'
  BY <1>1, <1>3, <1>6, <1>7, <1>8, ChangeHome
<1>10. Current(t).to = "CREATED"
  BY <1>1, <1>2, AgentFacts, LineTells
<1>11. QED
  BY <1>3, <1>4, <1>9, <1>10, CollectionNames

LEMMA UpdateHome ==
  ASSUME JobTypes, StoreTypes, HomeInv, NEW t \in Threads, Update(t)
  PROVE  /\ JobTypes' /\ StoreTypes' /\ HomeInv'
         /\ \A c \in Collections, a \in Agents : a # Agent(t) => store'[c][a] = store[c][a]
         /\ \E c \in Collections : store'[c][Agent(t)] = Current(t).to
<1>1. /\ Running(t) /\ Current(t).do = "update" /\ stage[t] = "store"
      /\ Put(Home(Agent(t)), Agent(t), Current(t).to) /\ Stage(t, "event")
  BY DEF Update
<1>2. /\ Agent(t) \in Agents /\ line[t] \in 1..31 /\ Current(t) = Script[line[t]]
      /\ ~In("completed", Agent(t)) /\ ~In("failed", Agent(t)) /\ Home(Agent(t)) = "active"
      /\ CreateLine[Current(t).role] < line[t]
  BY <1>1, AgentFacts, WhereFacts
<1>3. Current(t).to \in Statuses
  <2>1. Script[line[t]].do = "update" /\ Script[line[t]].to = Current(t).to
    BY <1>1, <1>2
  <2>2. QED
    BY <1>2, <2>1, LineTells
<1>4. /\ StoreTypes' /\ store'["active"][Agent(t)] = Current(t).to
      /\ \A d \in Collections, b \in Agents :
           d # "active" \/ b # Agent(t) => store'[d][b] = store[d][b]
  BY <1>1, <1>2, <1>3, PutFacts, CollectionNames
<1>5. JobTypes'
  BY <1>1, StageTypes
<1>6. /\ Agent(t)' = Agent(t) /\ Current(t)' = Current(t) /\ line'[t] = line[t]
      /\ stage'[t] = "event"
  BY <1>1 DEF Stage, Agent, Current, JobTypes
<1>7. ~In("completed", Agent(t))' /\ ~In("failed", Agent(t))'
  BY <1>2, <1>4, <1>6, CollectionNames DEF In
<1>8. \A c, d \in Collections : In(c, Agent(t))' /\ In(d, Agent(t))' => c = d
  BY <1>7, CollectionNames
<1>9. CreateLine[Current(t).role] \in 9..13
  BY <1>1, AgentFacts, ScriptFacts, AgentConstantsOK
<1>10. ~Before(t, CreateLine[Current(t).role], {"store"})'
  BY <1>2, <1>6, <1>9 DEF Before
<1>11. HomeInv'
  BY <1>1, <1>4, <1>7, <1>8, <1>10, ChangeHome
<1>12. QED
  BY <1>4, <1>5, <1>11, CollectionNames

LEMMA PopHome ==
  ASSUME JobTypes, StoreTypes, HomeInv, NEW t \in Threads, Pop(t)
  PROVE  /\ JobTypes' /\ StoreTypes' /\ HomeInv'
         /\ \A c \in Collections, a \in Agents : a # Agent(t) => store'[c][a] = store[c][a]
<1>1. Running(t) /\ stage[t] = "pop" /\ Stage(t, "store") /\ Current(t).do = "end"
  BY DEF Pop, JobTypes, PlaceRight
<1>2. /\ Agent(t) \in Agents /\ line[t] \in 1..31
      /\ ~In("completed", Agent(t)) /\ ~In("failed", Agent(t))
      /\ CreateLine[Current(t).role] < line[t]
  BY <1>1, AgentFacts, WhereFacts
<1>3. DEFINE target == IF Current(t).to = "FAILED" THEN "failed" ELSE "completed"
<1>4. store' = [c \in Collections |->
                  IF c = target THEN store[c] ELSE [store[c] EXCEPT ![Agent(t)] = "none"]]
  BY DEF Pop
<1>5. \A c \in Collections : store[c] \in [Agents -> Statuses]
  BY DEF StoreTypes
<1>6. "none" \in Statuses /\ target # "active"
  BY DEF Statuses
<1> HIDE DEF target
<1>7. StoreTypes'
  BY <1>4, <1>5, <1>6 DEF StoreTypes
<1>8. \A c \in Collections, a \in Agents : a # Agent(t) => store'[c][a] = store[c][a]
  BY <1>4, <1>5
<1>9. \A c \in Collections : store'[c][Agent(t)] # "none" => c = target /\ In(c, Agent(t))
  BY <1>2, <1>4, <1>5 DEF In
<1>10. \A c \in Collections : store'[c][Agent(t)] = "none"
  BY <1>2, <1>6, <1>9, CollectionNames
<1>11. JobTypes'
  BY <1>1, StageTypes
<1>12. /\ Agent(t)' = Agent(t) /\ Current(t)' = Current(t) /\ line'[t] = line[t]
       /\ stage'[t] = "store"
  BY <1>1 DEF Stage, Agent, Current, JobTypes
<1>13. \A c \in Collections : ~In(c, Agent(t))'
  BY <1>10, <1>12 DEF In
<1>14. CreateLine[Current(t).role] \in 9..13
  BY <1>1, AgentFacts, ScriptFacts, AgentConstantsOK
<1>15. ~Before(t, CreateLine[Current(t).role], {"store"})'
  BY <1>2, <1>12, <1>14 DEF Before
<1>16. HomeInv'
  BY <1>1, <1>8, <1>13, <1>15, CollectionNames, ChangeHome
<1>17. QED
  BY <1>7, <1>8, <1>11, <1>16

LEMMA StoreEndedHome ==
  ASSUME JobTypes, StoreTypes, HomeInv, NEW t \in Threads, StoreEnded(t)
  PROVE  /\ JobTypes' /\ StoreTypes' /\ HomeInv'
         /\ \A c \in Collections, a \in Agents : a # Agent(t) => store'[c][a] = store[c][a]
         /\ \E c \in Collections : store'[c][Agent(t)] = Current(t).to
<1>1. /\ Running(t) /\ stage[t] = "store" /\ Stage(t, "event") /\ Current(t).do = "end"
      /\ Put(IF Current(t).to = "FAILED" THEN "failed" ELSE "completed", Agent(t), Current(t).to)
  BY DEF StoreEnded
<1>2. /\ Agent(t) \in Agents /\ line[t] \in 1..31 /\ ~Found(Agent(t))
      /\ CreateLine[Current(t).role] < line[t]
      /\ \/ line[t] = 21 /\ Current(t).role = "researcher" /\ Current(t).to = "COMPLETED"
         \/ line[t] = 25 /\ Current(t).role = "coder" /\ Current(t).to = "FAILED"
  BY <1>1, AgentFacts, WhereFacts
<1>3. DEFINE target == IF Current(t).to = "FAILED" THEN "failed" ELSE "completed"
<1>4. target \in Collections /\ Current(t).to \in Statuses
  BY <1>2 DEF Collections, Statuses
<1>5. /\ Current(t).to = "COMPLETED" => target = "completed"
      /\ Current(t).to = "FAILED" => target = "failed"
  OBVIOUS
<1> HIDE DEF target
<1>6. Put(target, Agent(t), Current(t).to)
  BY <1>1 DEF target
<1>7. /\ StoreTypes' /\ store'[target][Agent(t)] = Current(t).to
      /\ \A d \in Collections, b \in Agents :
           d # target \/ b # Agent(t) => store'[d][b] = store[d][b]
  BY <1>2, <1>4, <1>6, PutFacts
<1>8. JobTypes'
  BY <1>1, StageTypes
<1>9. /\ Agent(t)' = Agent(t) /\ Current(t)' = Current(t) /\ line'[t] = line[t]
      /\ stage'[t] = "event"
  BY <1>1 DEF Stage, Agent, Current, JobTypes
<1>10. \A c \in Collections : In(c, Agent(t))' => c = target
  BY <1>2, <1>7, <1>9 DEF In, Found
<1>11. CreateLine[Current(t).role] \in 9..13
  BY <1>1, AgentFacts, ScriptFacts, AgentConstantsOK
<1>12. ~Before(t, CreateLine[Current(t).role], {"store"})'
  BY <1>2, <1>9, <1>11 DEF Before
<1>13. In("completed", Agent(t))' =>
         /\ store'["completed"][Agent(t)] = "COMPLETED" /\ Current(t).role = "researcher"
         /\ ~Before(t, 21, {"find", "pop", "store"})'
  BY <1>2, <1>5, <1>7, <1>9, <1>10, CollectionNames DEF Before
<1>14. In("failed", Agent(t))' =>
         /\ store'["failed"][Agent(t)] = "FAILED" /\ Current(t).role = "coder"
         /\ ~Before(t, 25, {"find", "pop", "store"})'
  BY <1>2, <1>5, <1>7, <1>9, <1>10, CollectionNames DEF Before
<1>15. HomeInv'
  BY <1>1, <1>7, <1>10, <1>12, <1>13, <1>14, ChangeHome
<1>16. QED
  BY <1>4, <1>7, <1>8, <1>15

\* Every step of a request.
LEMMA RequestHome ==
  ASSUME JobTypes, StoreTypes, HomeInv, NEW t \in Threads,
         \/ \E kind \in {"demo", "reset"} : Start(t, kind)
         \/ Collect(t) \/ Discard(t) \/ Read(t) \/ Show(t) \/ Create(t) \/ Find(t)
         \/ Update(t) \/ Pop(t) \/ StoreEnded(t) \/ Report(t) \/ PublishState(t)
  PROVE  JobTypes' /\ StoreTypes' /\ HomeInv'
<1>1. store' = store => Shrinks /\ StoreTypes'
  BY DEF Shrinks, StoreTypes
<1>2. ASSUME Running(t), Advance(t), Shrinks, StoreTypes' PROVE JobTypes' /\ StoreTypes' /\ HomeInv'
  BY <1>2, AdvanceTypes, AdvanceHome
<1>3. ASSUME Raised(t), store' = store PROVE JobTypes' /\ StoreTypes' /\ HomeInv'
  BY <1>1, <1>3, RaisedTypes, RaisedHome
<1>4. ASSUME NEW kind \in {"demo", "reset"}, Start(t, kind)
      PROVE  JobTypes' /\ StoreTypes' /\ HomeInv'
  <2>1. store' = store
    BY <1>4 DEF Start
  <2>2. QED
    BY <1>1, <1>4, <2>1, StartTypes, StartHome
<1>5. CASE Collect(t)
  <2>1. Running(t) /\ store' = store /\ (Advance(t) \/ Raised(t))
    BY <1>5 DEF Collect
  <2>2. QED
    BY <1>1, <1>2, <1>3, <2>1
<1>6. CASE Discard(t)
  <2>1. Running(t) /\ Advance(t) /\ line[t] \in 1..31 /\ Current(t) = Script[line[t]]
        /\ Current(t).do = "discard"
    BY <1>6 DEF Discard, JobTypes, Current
  <2>2. Current(t).to \in Collections
    BY <2>1, LineTells
  <2>3. store' = [store EXCEPT ![Current(t).to] =
                    [a \in Agents |-> IF a \in doomed[t] THEN "none" ELSE @[a]]]
    BY <1>6 DEF Discard
  <2>4. "none" \in Statuses
    BY DEF Statuses
  <2>5. Shrinks /\ StoreTypes'
    BY <2>2, <2>3, <2>4 DEF Shrinks, StoreTypes
  <2>6. QED
    BY <1>2, <2>1, <2>5
<1>7. CASE Read(t) \/ Show(t) \/ PublishState(t)
  <2>1. Running(t) /\ Advance(t) /\ store' = store
    BY <1>7 DEF Read, Show, PublishState
  <2>2. QED
    BY <1>1, <1>2, <2>1
<1>8. CASE Find(t)
  <2>1. Running(t) /\ store' = store /\ stage[t] = "find" /\ Current(t).do \in {"update", "end"}
    BY <1>8 DEF Find, JobTypes, PlaceRight
  <2>2. \/ Raised(t)
        \/ Stage(t, "pop") /\ Current(t).do = "end"
        \/ Stage(t, "store") /\ Current(t).do = "update"
    BY <1>8, <2>1 DEF Find
  <2>3. CASE Stage(t, "pop") /\ Current(t).do = "end"
    BY <1>1, <2>1, <2>3, StageTypes, StageHome
  <2>4. CASE Stage(t, "store") /\ Current(t).do = "update"
    BY <1>1, <2>1, <2>4, StageTypes, StageHome
  <2>5. QED
    BY <1>3, <2>1, <2>2, <2>3, <2>4
<1>9. CASE Report(t)
  <2>1. Running(t) /\ store' = store /\ stage[t] = "event"
        /\ Current(t).do \in {"create", "update", "end", "say"}
    BY <1>9 DEF Report, JobTypes, PlaceRight
  <2>2. CASE Current(t).do = "say"
    <3>1. Advance(t)
      BY <1>9, <2>2 DEF Report
    <3>2. QED
      BY <1>1, <1>2, <2>1, <3>1
  <2>3. CASE Current(t).do # "say"
    <3>1. Stage(t, "state") /\ Current(t).do \in {"create", "update", "end"}
      BY <1>9, <2>1, <2>3 DEF Report
    <3>2. QED
      BY <1>1, <2>1, <3>1, StageTypes, StageHome
  <2>4. QED
    BY <2>2, <2>3
<1>10. QED
  BY <1>4, <1>5, <1>6, <1>7, <1>8, <1>9, CreateHome, UpdateHome, PopHome, StoreEndedHome

(***************************************************************************)
(* Envelopes                                                               *)
(***************************************************************************)
\* What the three sorts of envelopes tell.
LEMMA EnvelopeFacts ==
  /\ \A a \in Agents, v \in Statuses :
       /\ OfAgent(a, v) \in Envelopes /\ DOMAIN OfAgent(a, v).map = {a}
       /\ OfAgent(a, v).map[a] = v
  /\ \A kind \in {"DEMO_RESET", "DEMO_STARTED", "SNAPSHOT"}, m \in [Agents -> Statuses] :
       News(kind, m) \in Envelopes /\ News(kind, m).map = m /\ DOMAIN News(kind, m).map = Agents
  /\ Narration \in Envelopes /\ DOMAIN Narration.map = {}
<1>1. ASSUME NEW a \in Agents, NEW v \in Statuses
      PROVE  /\ OfAgent(a, v) \in Envelopes /\ DOMAIN OfAgent(a, v).map = {a}
             /\ OfAgent(a, v).map[a] = v
  <2>1. [b \in {a} |-> v] \in [{a} -> Statuses] /\ {a} \in SUBSET Agents
    OBVIOUS
  <2>2. [b \in {a} |-> v] \in UNION {[D -> Statuses] : D \in SUBSET Agents}
    BY <2>1
  <2>3. QED
    BY <2>2 DEF OfAgent, News, Envelopes
<1>2. ASSUME NEW kind \in {"DEMO_RESET", "DEMO_STARTED", "SNAPSHOT"},
             NEW m \in [Agents -> Statuses]
      PROVE  /\ News(kind, m) \in Envelopes /\ News(kind, m).map = m
             /\ DOMAIN News(kind, m).map = Agents
  <2>1. m \in UNION {[D -> Statuses] : D \in SUBSET Agents}
    OBVIOUS
  <2>2. QED
    BY <2>1 DEF News, Envelopes
<1>3. Narration \in Envelopes /\ DOMAIN Narration.map = {}
  <2>1. [b \in {} |-> "none"] \in [{} -> Statuses] /\ {} \in SUBSET Agents
    OBVIOUS
  <2>2. [b \in {} |-> "none"] \in UNION {[D -> Statuses] : D \in SUBSET Agents}
    BY <2>1
  <2>3. QED
    BY <2>2 DEF Narration, News, Envelopes
<1>4. QED
  BY <1>1, <1>2, <1>3

\* q with e behind it, place by place.
LEMMA BehindFacts ==
  ASSUME NEW S, NEW q \in Seq(S), NEW e \in Seq(S)
  PROVE  /\ q \o e \in Seq(S) /\ DOMAIN (q \o e) = 1..Len(q) + Len(e)
         /\ Len(q \o e) = Len(q) + Len(e) /\ Len(q) \in Nat /\ Len(e) \in Nat
         /\ DOMAIN q = 1..Len(q) /\ DOMAIN e = 1..Len(e)
         /\ \A i \in 1..Len(q) : (q \o e)[i] = q[i]
         /\ \A i \in 1..Len(e) : (q \o e)[Len(q) + i] = e[i]
<1>1. Len(q) \in Nat /\ Len(e) \in Nat /\ DOMAIN q = 1..Len(q) /\ DOMAIN e = 1..Len(e)
  OBVIOUS
<1>2. /\ q \o e \in Seq(S) /\ Len(q \o e) = Len(q) + Len(e)
      /\ \A i \in 1..Len(q) + Len(e) :
           (q \o e)[i] = IF i <= Len(q) THEN q[i] ELSE e[i - Len(q)]
  BY ConcatProperties
<1>3. ASSUME NEW i \in 1..Len(e) PROVE (q \o e)[Len(q) + i] = e[i]
  <2>1. Len(q) + i \in 1..Len(q) + Len(e) /\ ~(Len(q) + i <= Len(q)) /\ (Len(q) + i) - Len(q) = i
    BY <1>1
  <2>2. QED
    BY <1>2, <2>1
<1>4. QED
  BY <1>1, <1>2, <1>3

\* News behind what waits: what is told last counts.
LEMMA TellsBehind ==
  ASSUME NEW q \in Seq(Envelopes), NEW e \in Seq(Envelopes), NEW a, NEW v
  PROVE  /\ Tells(e, a, v) => Tells(q \o e, a, v)
         /\ Mute(e, a) /\ Tells(q, a, v) => Tells(q \o e, a, v)
         /\ Mute(e, a) /\ Mute(q, a) => Mute(q \o e, a)
<1> DEFINE w == q \o e
<1>1. /\ DOMAIN w = 1..Len(q) + Len(e) /\ Len(q) \in Nat /\ Len(e) \in Nat
      /\ DOMAIN q = 1..Len(q) /\ DOMAIN e = 1..Len(e)
      /\ \A i \in 1..Len(q) : w[i] = q[i]
      /\ \A i \in 1..Len(e) : w[Len(q) + i] = e[i]
  BY BehindFacts
<1> HIDE DEF w
<1>2. \A i \in DOMAIN w : i \in DOMAIN q \/ (i - Len(q) \in DOMAIN e /\ w[i] = e[i - Len(q)])
  <2> SUFFICES ASSUME NEW i \in DOMAIN w, i \notin DOMAIN q
               PROVE  i - Len(q) \in DOMAIN e /\ w[i] = e[i - Len(q)]
    OBVIOUS
  <2>1. i - Len(q) \in 1..Len(e) /\ Len(q) + (i - Len(q)) = i
    BY <1>1
  <2>2. QED
    BY <1>1, <2>1
<1>3. ASSUME Tells(e, a, v) PROVE Tells(w, a, v)
  <2>1. PICK i \in DOMAIN e : /\ a \in DOMAIN e[i].map /\ e[i].map[a] = v
                              /\ \A j \in DOMAIN e : j > i => a \notin DOMAIN e[j].map
    BY <1>3 DEF Tells
  <2>2. Len(q) + i \in DOMAIN w /\ w[Len(q) + i] = e[i]
    BY <1>1
  <2>3. ASSUME NEW j \in DOMAIN w, j > Len(q) + i PROVE a \notin DOMAIN w[j].map
    <3>1. j - Len(q) \in DOMAIN e /\ w[j] = e[j - Len(q)] /\ j - Len(q) > i
      BY <1>1, <1>2, <2>3
    <3>2. QED
      BY <2>1, <3>1
  <2>4. QED
    BY <2>1, <2>2, <2>3 DEF Tells
<1>4. ASSUME Mute(e, a), Tells(q, a, v) PROVE Tells(w, a, v)
  <2>1. PICK i \in DOMAIN q : /\ a \in DOMAIN q[i].map /\ q[i].map[a] = v
                              /\ \A j \in DOMAIN q : j > i => a \notin DOMAIN q[j].map
    BY <1>4 DEF Tells
  <2>2. i \in DOMAIN w /\ w[i] = q[i]
    BY <1>1
  <2>3. ASSUME NEW j \in DOMAIN w, j > i PROVE a \notin DOMAIN w[j].map
    <3>1. CASE j \in DOMAIN q
      BY <1>1, <2>1, <2>3, <3>1
    <3>2. CASE j \notin DOMAIN q
      BY <1>2, <1>4, <3>2 DEF Mute
    <3>3. QED
      BY <3>1, <3>2
  <2>4. QED
    BY <2>1, <2>2, <2>3 DEF Tells
<1>5. ASSUME Mute(e, a), Mute(q, a) PROVE Mute(w, a)
  BY <1>1, <1>2, <1>5 DEF Mute
<1>6. QED
  BY <1>3, <1>4, <1>5 DEF w

(***************************************************************************)
(* The streams and what is published                                       *)
(***************************************************************************)
\* What a request publishes.
NewsOf(t) ==
  IF stage[t] = "event" THEN
    <<IF Found(Agent(t)) THEN OfAgent(Agent(t), Record(Agent(t))) ELSE Narration, Narration>>
  ELSE IF stage[t] = "state" THEN <<OfAgent(Agent(t), Current(t).to)>>
  ELSE <<News(Current(t).to, sight[t])>>

LEMMA RecordTypes ==
  ASSUME StoreTypes, NEW a \in Agents
  PROVE  Record(a) \in Statuses /\ (Found(a) => Record(a) # "none")
<1>1. \A c \in Collections : store[c][a] \in Statuses
  BY DEF StoreTypes
<1>2. QED
  BY <1>1, CollectionNames DEF Record, Found, In

\* Report, PublishState and Show publish envelopes, one at least.
LEMMA NewsTypes ==
  ASSUME StoreTypes, StreamTypes, JobTypes, NEW t \in Threads, Running(t),
         stage[t] \in {"event", "state"} \/ Current(t).do = "show"
  PROVE  /\ NewsOf(t) \in Seq(Envelopes) /\ NewsOf(t) # <<>>
         /\ Report(t) => Publish(NewsOf(t))
         /\ PublishState(t) => Publish(NewsOf(t))
         /\ Show(t) => Publish(NewsOf(t))
<1>1. CASE stage[t] = "event"
  <2>1. Agent(t) \in Agents /\ Record(Agent(t)) \in Statuses
    BY <1>1, AgentFacts, RecordTypes DEF JobTypes, PlaceRight
  <2>2. DEFINE e == IF Found(Agent(t)) THEN OfAgent(Agent(t), Record(Agent(t))) ELSE Narration
  <2>3. e \in Envelopes /\ Narration \in Envelopes
    BY <2>1, EnvelopeFacts
  <2>4. NewsOf(t) = <<e, Narration>>
    BY <1>1 DEF NewsOf
  <2> HIDE DEF e
  <2>5. NewsOf(t) \in Seq(Envelopes) /\ NewsOf(t) # <<>>
    BY <2>3, <2>4
  <2>6. Report(t) => Publish(NewsOf(t))
    BY <2>4 DEF Report, e
  <2>7. ~PublishState(t) /\ ~Show(t)
    BY <1>1 DEF PublishState, Show, JobTypes, PlaceRight
  <2>8. QED
    BY <2>5, <2>6, <2>7
<1>2. CASE stage[t] = "state"
  <2>1. Current(t).do \in {"create", "update", "end"}
    BY <1>2 DEF JobTypes, PlaceRight
  <2>2. Agent(t) \in Agents /\ line[t] \in 1..31 /\ Current(t) = Script[line[t]]
    BY <2>1, AgentFacts
  <2>3. Current(t).to \in Statuses
    <3>1. Current(t).do = "create" => Current(t).to = "CREATED"
      BY <2>2, LineTells
    <3>2. Current(t).do = "update" => Current(t).to \in Statuses
      BY <2>2, LineTells
    <3>3. Current(t).do = "end" => line[t] = 21 \/ line[t] = 25
      BY <2>2, LineDoes
    <3>4. QED
      BY <2>1, <2>2, <3>1, <3>2, <3>3, ScriptFacts DEF Statuses
  <2>4. OfAgent(Agent(t), Current(t).to) \in Envelopes
    BY <2>2, <2>3, EnvelopeFacts
  <2>5. NewsOf(t) = <<OfAgent(Agent(t), Current(t).to)>>
    BY <1>2 DEF NewsOf
  <2>6. NewsOf(t) \in Seq(Envelopes) /\ NewsOf(t) # <<>>
    BY <2>4, <2>5
  <2>7. PublishState(t) => Publish(NewsOf(t))
    BY <2>5 DEF PublishState
  <2>8. ~Report(t) /\ ~Show(t)
    BY <1>2, <2>1 DEF Report, Show
  <2>9. QED
    BY <2>6, <2>7, <2>8
<1>3. CASE stage[t] \notin {"event", "state"} /\ Current(t).do = "show"
  <2>1. line[t] \in 1..31 /\ Current(t) = Script[line[t]]
    BY DEF JobTypes, Current
  <2>2. Current(t).to \in {"DEMO_RESET", "DEMO_STARTED", "SNAPSHOT"}
    BY <1>3, <2>1, LineTells
  <2>3. sight[t] \in [Agents -> Statuses]
    BY DEF StreamTypes
  <2>4. News(Current(t).to, sight[t]) \in Envelopes
    BY <2>2, <2>3, EnvelopeFacts
  <2>5. NewsOf(t) = <<News(Current(t).to, sight[t])>>
    BY <1>3 DEF NewsOf
  <2>6. NewsOf(t) \in Seq(Envelopes) /\ NewsOf(t) # <<>>
    BY <2>4, <2>5
  <2>7. Show(t) => Publish(NewsOf(t))
    BY <2>5 DEF Show
  <2>8. ~Report(t) /\ ~PublishState(t)
    BY <1>3 DEF Report, PublishState
  <2>9. QED
    BY <2>6, <2>7, <2>8
<1>4. QED
  BY <1>1, <1>2, <1>3

\* publish, client by client.
LEMMA PublishFacts ==
  ASSUME StreamTypes, NEW e \in Seq(Envelopes), e # <<>>, Publish(e)
  PROVE  /\ calls' \in [Clients -> Seq(Envelopes)]
         /\ latest' \in [Clients -> [published : Envelopes, heard : Envelopes]]
         /\ UNCHANGED streamVars
         /\ \A k \in Clients : Registered(k) =>
              /\ calls'[k] = calls[k] \o e /\ calls'[k] # <<>>
              /\ calls'[k][Len(calls'[k])] = e[Len(e)]
              /\ latest'[k].published = e[Len(e)] /\ latest'[k].heard = latest[k].heard
         /\ \A k \in Clients : ~Registered(k) => calls'[k] = calls[k] /\ latest'[k] = latest[k]
<1> DEFINE last == e[Len(e)]
<1>1. Len(e) \in Nat /\ Len(e) >= 1 /\ last \in Envelopes
  OBVIOUS
<1> HIDE DEF last
<1>2. /\ calls' = [k \in Clients |-> IF Registered(k) THEN calls[k] \o e ELSE calls[k]]
      /\ latest' = [k \in Clients |-> IF Registered(k)
                      THEN [latest[k] EXCEPT !.published = last] ELSE latest[k]]
      /\ UNCHANGED streamVars
  BY DEF Publish, last
<1>3. ASSUME NEW k \in Clients
      PROVE  /\ calls'[k] \in Seq(Envelopes)
             /\ latest'[k] \in [published : Envelopes, heard : Envelopes]
             /\ Registered(k) =>
                  /\ calls'[k] = calls[k] \o e /\ calls'[k] # <<>>
                  /\ calls'[k][Len(calls'[k])] = last
                  /\ latest'[k].published = last /\ latest'[k].heard = latest[k].heard
             /\ ~Registered(k) => calls'[k] = calls[k] /\ latest'[k] = latest[k]
  <2>1. calls[k] \in Seq(Envelopes) /\ latest[k] \in [published : Envelopes, heard : Envelopes]
    BY DEF StreamTypes
  <2>2. /\ calls[k] \o e \in Seq(Envelopes) /\ Len(calls[k] \o e) = Len(calls[k]) + Len(e)
        /\ Len(calls[k]) \in Nat /\ (calls[k] \o e)[Len(calls[k]) + Len(e)] = last
    BY <1>1, <2>1, BehindFacts DEF last
  <2>3. calls[k] \o e # <<>>
    BY <1>1, <2>2
  <2>4. CASE Registered(k)
    <3>1. calls'[k] = calls[k] \o e /\ latest'[k] = [latest[k] EXCEPT !.published = last]
      BY <1>2, <2>4
    <3>2. QED
      BY <1>1, <2>1, <2>2, <2>3, <2>4, <3>1
  <2>5. CASE ~Registered(k)
    BY <1>2, <2>1, <2>5
  <2>6. QED
    BY <2>4, <2>5
<1>4. QED
  BY <1>2, <1>3 DEF last

\* Reading one collection for a snapshot.
LEMMA SeeingTypes ==
  ASSUME StoreTypes, StreamTypes, NEW x \in Threads \cup Clients, NEW c \in Collections, Seeing(x, c)
  PROVE  /\ sight' \in [Threads \cup Clients -> [Agents -> Statuses]]
         /\ \A y \in Threads \cup Clients : y # x => sight'[y] = sight[y]
         /\ \A a \in Agents :
              sight'[x][a] = IF In(c, a) THEN store[c][a]
                             ELSE IF c = "active" THEN "none" ELSE sight[x][a]
<1> DEFINE seen == [a \in Agents |-> IF In(c, a) THEN store[c][a]
                                     ELSE IF c = "active" THEN "none" ELSE sight[x][a]]
<1>1. "none" \in Statuses /\ (\A a \in Agents : store[c][a] \in Statuses)
      /\ sight[x] \in [Agents -> Statuses]
  BY DEF Statuses, StoreTypes, StreamTypes
<1>2. seen \in [Agents -> Statuses]
  BY <1>1
<1>3. sight' = [sight EXCEPT ![x] = seen]
  BY DEF Seeing
<1> HIDE DEF seen
<1>4. /\ sight' \in [Threads \cup Clients -> [Agents -> Statuses]] /\ sight'[x] = seen
      /\ \A y \in Threads \cup Clients : y # x => sight'[y] = sight[y]
  BY <1>2, <1>3 DEF StreamTypes
<1>5. QED
  BY <1>4 DEF seen

\* The requests' steps keep the streams' variables what they are.
LEMMA RequestStreams ==
  ASSUME StoreTypes, StreamTypes, JobTypes, NEW t \in Threads,
         \/ \E kind \in {"demo", "reset"} : Start(t, kind)
         \/ Collect(t) \/ Discard(t) \/ Read(t) \/ Show(t) \/ Create(t) \/ Find(t)
         \/ Update(t) \/ Pop(t) \/ StoreEnded(t) \/ Report(t) \/ PublishState(t)
  PROVE  StreamTypes'
<1>1. CASE Show(t) \/ Report(t) \/ PublishState(t)
  <2>1. Running(t) /\ (stage[t] \in {"event", "state"} \/ Current(t).do = "show")
        /\ UNCHANGED <<doomed, sight, calm>>
    BY <1>1 DEF Show, Report, PublishState
  <2>2. NewsOf(t) \in Seq(Envelopes) /\ NewsOf(t) # <<>> /\ Publish(NewsOf(t))
    BY <1>1, <2>1, NewsTypes
  <2>3. /\ calls' \in [Clients -> Seq(Envelopes)]
        /\ latest' \in [Clients -> [published : Envelopes, heard : Envelopes]]
        /\ UNCHANGED streamVars
    BY <2>2, PublishFacts
  <2>4. QED
    BY <2>1, <2>3 DEF StreamTypes, streamVars
<1>2. CASE Read(t)
  <2>1. Seeing(t, Current(t).to) /\ Silent /\ UNCHANGED <<doomed, calm>> /\ Current(t).do = "read"
    BY <1>2 DEF Read
  <2>2. line[t] \in 1..31 /\ Current(t) = Script[line[t]]
    BY DEF JobTypes, Current
  <2>3. Current(t).to \in Collections
    BY <2>1, <2>2, LineTells, CollectionNames
  <2>4. sight' \in [Threads \cup Clients -> [Agents -> Statuses]]
    BY <2>1, <2>3, SeeingTypes
  <2>5. QED
    BY <2>1, <2>4 DEF StreamTypes, Silent, streamVars
<1>3. CASE Collect(t)
  <2>1. doomed' \in [Threads -> SUBSET Agents] /\ Silent /\ UNCHANGED <<sight, calm>>
    BY <1>3 DEF Collect, StreamTypes
  <2>2. QED
    BY <2>1 DEF StreamTypes, Silent, streamVars
<1>4. ASSUME NEW kind \in {"demo", "reset"}, Start(t, kind) PROVE StreamTypes'
  <2>1. Silent /\ UNCHANGED <<doomed, sight>> /\ calm' \in BOOLEAN
    BY <1>4 DEF Start, StreamTypes
  <2>2. QED
    BY <2>1 DEF StreamTypes, Silent, streamVars
<1>5. CASE Discard(t) \/ Create(t) \/ Find(t) \/ Update(t) \/ Pop(t) \/ StoreEnded(t)
  <2>1. Silent /\ UNCHANGED <<doomed, sight, calm>>
    BY <1>5 DEF Discard, Create, Find, Update, Pop, StoreEnded
  <2>2. QED
    BY <2>1 DEF StreamTypes, Silent, streamVars
<1>6. QED
  BY <1>1, <1>2, <1>3, <1>4, <1>5

\* Append and Tail, place by place.
LEMMA AppendFacts ==
  ASSUME NEW S, NEW q \in Seq(S), NEW e \in S
  PROVE  /\ Append(q, e) \in Seq(S) /\ Append(q, e) # <<>> /\ Len(Append(q, e)) = Len(q) + 1
         /\ DOMAIN Append(q, e) = 1..Len(q) + 1 /\ DOMAIN q = 1..Len(q) /\ Len(q) \in Nat
         /\ \A i \in 1..Len(q) : Append(q, e)[i] = q[i]
         /\ Append(q, e)[Len(q) + 1] = e
OBVIOUS

LEMMA TailFacts ==
  ASSUME NEW S, NEW q \in Seq(S), q # <<>>
  PROVE  /\ Head(q) \in S /\ Head(q) = q[1] /\ Tail(q) \in Seq(S) /\ Len(q) \in Nat /\ Len(q) >= 1
         /\ Len(Tail(q)) = Len(q) - 1 /\ (Tail(q) = <<>> <=> Len(q) = 1)
         /\ DOMAIN Tail(q) = 1..Len(q) - 1 /\ DOMAIN q = 1..Len(q)
         /\ \A i \in 1..Len(q) - 1 : Tail(q)[i] = q[i + 1]
<1>1. /\ Head(q) = q[1] /\ Tail(q) \in Seq(S) /\ Len(Tail(q)) = Len(q) - 1
      /\ \A i \in 1..Len(q) - 1 : Tail(q)[i] = q[i + 1]
  BY HeadTailProperties
<1>2. Head(q) \in S /\ Len(q) \in Nat /\ Len(q) >= 1 /\ DOMAIN q = 1..Len(q)
  OBVIOUS
<1>3. DOMAIN Tail(q) = 1..Len(q) - 1
  BY <1>1
<1>4. Tail(q) = <<>> <=> Len(q) = 1
  <2>1. Tail(q) = <<>> <=> Len(Tail(q)) = 0
    BY <1>1, EmptySeq
  <2>2. QED
    BY <1>1, <1>2, <2>1
<1>5. QED
  BY <1>1, <1>2, <1>3, <1>4

\* _enqueue_latest at work.
LEMMA EnqueueFacts ==
  ASSUME StreamTypes, AgentConstantsOK, NEW k \in Clients, Enqueue(k)
  PROVE  /\ calls[k] # <<>> /\ calls' = [calls EXCEPT ![k] = Tail(calls[k])]
         /\ box' = [box EXCEPT ![k] = Append(IF Len(box[k]) = BoxSize THEN Tail(box[k])
                                             ELSE box[k], Head(calls[k]))]
         /\ dropped' = [dropped EXCEPT ![k] = dropped[k] \/ Len(box[k]) = BoxSize]
         /\ Len(box[k]) = BoxSize => box[k] # <<>>
         /\ (IF Len(box[k]) = BoxSize THEN Tail(box[k]) ELSE box[k]) \in Seq(Envelopes)
         /\ Head(calls[k]) \in Envelopes /\ Tail(calls[k]) \in Seq(Envelopes)
         /\ calls' \in [Clients -> Seq(Envelopes)] /\ box' \in [Clients -> Seq(Envelopes)]
         /\ dropped' \in [Clients -> BOOLEAN]
<1>1. calls[k] # <<>> /\ calls[k] \in Seq(Envelopes) /\ box[k] \in Seq(Envelopes)
  BY DEF Enqueue, StreamTypes
<1>2. Len(box[k]) = BoxSize => box[k] # <<>>
  <2>1. BoxSize # 0 /\ Len(<<>>) = 0
    BY DEF AgentConstantsOK
  <2>2. QED
    BY <2>1
<1>3. Head(calls[k]) \in Envelopes /\ Tail(calls[k]) \in Seq(Envelopes)
  BY <1>1, TailFacts
<1>4. (IF Len(box[k]) = BoxSize THEN Tail(box[k]) ELSE box[k]) \in Seq(Envelopes)
  BY <1>1, <1>2, TailFacts
<1>5. /\ calls' = [calls EXCEPT ![k] = Tail(calls[k])]
      /\ box' = [box EXCEPT ![k] = Append(IF Len(box[k]) = BoxSize THEN Tail(box[k])
                                          ELSE box[k], Head(calls[k]))]
      /\ dropped' = [dropped EXCEPT ![k] = dropped[k] \/ Len(box[k]) = BoxSize]
  BY DEF Enqueue
<1> DEFINE room == IF Len(box[k]) = BoxSize THEN Tail(box[k]) ELSE box[k]
<1> DEFINE new == Append(room, Head(calls[k]))
<1>6. new \in Seq(Envelopes)
  <2> HIDE DEF room
  <2>1. room \in Seq(Envelopes)
    BY <1>4 DEF room
  <2>2. QED
    BY <1>3, <2>1, AppendFacts
<1>7. box' \in [Clients -> Seq(Envelopes)]
  <2>1. box' = [box EXCEPT ![k] = new]
    BY <1>5
  <2> HIDE DEF new
  <2>2. QED
    BY <1>6, <2>1 DEF StreamTypes
<1>8. calls' \in [Clients -> Seq(Envelopes)] /\ dropped' \in [Clients -> BOOLEAN]
  BY <1>3, <1>5 DEF StreamTypes
<1>9. QED
  BY <1>1, <1>2, <1>3, <1>4, <1>5, <1>7, <1>8

\* The stream yields an envelope.
LEMMA HearFacts ==
  ASSUME StreamTypes, NEW k \in Clients, Hear(k)
  PROVE  /\ client[k] = "live" /\ box[k] # <<>> /\ Head(box[k]) \in Envelopes
         /\ box' = [box EXCEPT ![k] = Tail(box[k])] /\ Tail(box[k]) \in Seq(Envelopes)
         /\ view' \in [Clients -> [Agents -> Statuses]]
         /\ latest' \in [Clients -> [published : Envelopes, heard : Envelopes]]
         /\ latest'[k].heard = Head(box[k]) /\ latest'[k].published = latest[k].published
         /\ \A j \in Clients \ {k} : latest'[j] = latest[j] /\ view'[j] = view[j]
         /\ \A a \in Agents : view'[k][a] = IF a \in DOMAIN Head(box[k]).map
                                            THEN Head(box[k]).map[a] ELSE view[k][a]
<1>1. client[k] = "live" /\ box[k] # <<>> /\ box[k] \in Seq(Envelopes)
  BY DEF Hear, StreamTypes
<1> DEFINE first == Head(box[k])
<1>2. first \in Envelopes /\ Tail(box[k]) \in Seq(Envelopes)
  BY <1>1, TailFacts
<1> HIDE DEF first
<1> DEFINE told == [a \in Agents |-> IF a \in DOMAIN first.map THEN first.map[a] ELSE view[k][a]]
<1>3. \A a \in DOMAIN first.map : first.map[a] \in Statuses
  BY <1>2 DEF Envelopes
<1>4. told \in [Agents -> Statuses]
  <2>1. view[k] \in [Agents -> Statuses]
    BY DEF StreamTypes
  <2>2. QED
    BY <1>3, <2>1
<1>5. /\ view' = [view EXCEPT ![k] = told] /\ latest' = [latest EXCEPT ![k].heard = first]
      /\ box' = [box EXCEPT ![k] = Tail(box[k])]
  BY DEF Hear, first
<1>6. latest[k] \in [published : Envelopes, heard : Envelopes]
  BY DEF StreamTypes
<1>7. /\ latest' \in [Clients -> [published : Envelopes, heard : Envelopes]]
      /\ latest'[k].heard = first /\ latest'[k].published = latest[k].published
      /\ \A j \in Clients \ {k} : latest'[j] = latest[j]
  BY <1>2, <1>5, <1>6 DEF StreamTypes
<1>8. /\ view' \in [Clients -> [Agents -> Statuses]]
      /\ \A j \in Clients \ {k} : view'[j] = view[j]
      /\ view'[k] = told
  <2> HIDE DEF told
  <2>1. QED
    BY <1>4, <1>5 DEF StreamTypes
<1>9. QED
  BY <1>1, <1>2, <1>5, <1>7, <1>8 DEF first

\* The streams' steps leave the requests alone, and what they are told typed.
LEMMA ClientTypes ==
  ASSUME StoreTypes, StreamTypes, NEW k \in Clients,
         \/ Subscribe(k) \/ ReadSnapshot(k) \/ SendSnapshot(k) \/ Enqueue(k) \/ Hear(k)
         \/ Disconnect(k)
  PROVE  StreamTypes' /\ UNCHANGED <<job, line, stage, store, calm, doomed>>
<1>1. CASE Subscribe(k)
  <2>1. <<"active", "completed", "failed">> \in Seq(Collections)
    BY CollectionNames
  <2>2. pages' \in [Clients -> Seq(Collections)]
        /\ client' \in [Clients -> {"new", "subscribed", "reading", "live", "left"}]
    BY <1>1, <2>1 DEF Subscribe, StreamTypes
  <2>3. QED
    BY <1>1, <2>2 DEF Subscribe, StreamTypes
<1>2. CASE ReadSnapshot(k)
  <2>1. pages[k] \in Seq(Collections) /\ pages[k] # <<>>
    BY <1>2 DEF ReadSnapshot, StreamTypes
  <2>2. Head(pages[k]) \in Collections /\ Tail(pages[k]) \in Seq(Collections)
    BY <2>1, TailFacts
  <2>3. sight' \in [Threads \cup Clients -> [Agents -> Statuses]]
    BY <1>2, <2>2, SeeingTypes DEF ReadSnapshot
  <2>4. pages' \in [Clients -> Seq(Collections)]
        /\ client' \in [Clients -> {"new", "subscribed", "reading", "live", "left"}]
    BY <1>2, <2>2 DEF ReadSnapshot, StreamTypes
  <2>5. QED
    BY <1>2, <2>3, <2>4 DEF ReadSnapshot, StreamTypes
<1>3. CASE SendSnapshot(k)
  <2>1. sight[k] \in [Agents -> Statuses]
    BY DEF StreamTypes
  <2>2. view' \in [Clients -> [Agents -> Statuses]]
        /\ client' \in [Clients -> {"new", "subscribed", "reading", "live", "left"}]
    BY <1>3, <2>1 DEF SendSnapshot, StreamTypes
  <2>3. QED
    BY <1>3, <2>2 DEF SendSnapshot, StreamTypes
<1>4. CASE Enqueue(k)
  <2>1. calls' \in [Clients -> Seq(Envelopes)] /\ box' \in [Clients -> Seq(Envelopes)]
        /\ dropped' \in [Clients -> BOOLEAN]
    BY <1>4, EnqueueFacts, AgentConstantsOK
  <2>2. QED
    BY <1>4, <2>1 DEF Enqueue, StreamTypes
<1>5. CASE Hear(k)
  <2>1. /\ box' = [box EXCEPT ![k] = Tail(box[k])] /\ Tail(box[k]) \in Seq(Envelopes)
        /\ view' \in [Clients -> [Agents -> Statuses]]
        /\ latest' \in [Clients -> [published : Envelopes, heard : Envelopes]]
    BY <1>5, HearFacts
  <2>2. box' \in [Clients -> Seq(Envelopes)]
    BY <2>1 DEF StreamTypes
  <2>3. QED
    BY <1>5, <2>1, <2>2 DEF Hear, StreamTypes
<1>6. CASE Disconnect(k)
  <2>1. calls' \in [Clients -> Seq(Envelopes)] /\ box' \in [Clients -> Seq(Envelopes)]
        /\ client' \in [Clients -> {"new", "subscribed", "reading", "live", "left"}]
    BY <1>6, EmptySeq DEF Disconnect, StreamTypes
  <2>2. QED
    BY <1>6, <2>1 DEF Disconnect, StreamTypes
<1>7. QED
  BY <1>1, <1>2, <1>3, <1>4, <1>5, <1>6

(***************************************************************************)
(* One collection                                                          *)
(***************************************************************************)
LifecycleInv == JobTypes /\ StoreTypes /\ StreamTypes /\ HomeInv

\* Nothing but the requests moves the agents.
LEMMA LifecycleKept ==
  ASSUME JobTypes, HomeInv, UNCHANGED <<job, line, stage, store>>
  PROVE  JobTypes' /\ HomeInv'
<1>1. JobTypes'
  BY PlaceKept DEF JobTypes
<1>2. \A c \in Collections, a \in Agents : In(c, a)' = In(c, a)
  BY DEF In
<1>3. \A t \in Threads : HomeRight(t)'
  BY <1>2, HomeKept, CollectionNames DEF HomeInv
<1>4. Shrinks
  BY DEF Shrinks
<1>5. QED
  BY <1>1, <1>3, <1>4, ShrinkFacts DEF HomeInv

LEMMA LifecycleInit == AgentInit => LifecycleInv
<1> SUFFICES ASSUME AgentInit PROVE LifecycleInv
  OBVIOUS
<1>1. "none" \in Statuses /\ Nobody \in [Agents -> Statuses] /\ \A a \in Agents : Nobody[a] = "none"
  BY DEF Nobody, Statuses
<1>2. JobTypes
  <2>1. /\ job \in [Threads -> {"idle", "demo", "reset", "done", "raised"}]
        /\ line \in [Threads -> 1..31]
        /\ stage \in [Threads -> {"find", "pop", "store", "event", "state"}]
    BY DEF AgentInit
  <2>2. ASSUME NEW t \in Threads PROVE PlaceRight(t)
    <3>1. job[t] = "idle" /\ line[t] = 1 /\ stage[t] = "store"
      BY DEF AgentInit
    <3>2. Script[1].do = "collect"
      BY LineDoes
    <3>3. QED
      BY <3>1, <3>2 DEF PlaceRight, Running, Current
  <2>3. QED
    BY <2>1, <2>2 DEF JobTypes
<1>3. \A c \in Collections, a \in Agents : ~In(c, a)
  BY <1>1 DEF AgentInit, In
<1>4. HomeInv
  <2>1. OneCollection
    BY <1>3, CollectionNames DEF OneCollection
  <2>2. \A t \in Threads : HomeRight(t)
    BY <1>3, CollectionNames DEF HomeRight, Found
  <2>3. QED
    BY <2>1, <2>2 DEF HomeInv
<1>5. StoreTypes
  BY <1>1 DEF AgentInit, StoreTypes
<1>6. StreamTypes
  <2>1. [published |-> Narration, heard |-> Narration] \in [published : Envelopes, heard : Envelopes]
    BY EnvelopeFacts
  <2>2. latest \in [Clients -> [published : Envelopes, heard : Envelopes]]
    BY <2>1 DEF AgentInit
  <2>3. QED
    BY <1>1, <2>2, EmptySeq DEF AgentInit, StreamTypes
<1>7. QED
  BY <1>2, <1>4, <1>5, <1>6 DEF LifecycleInv

LEMMA LifecycleStep ==
  ASSUME LifecycleInv, [AgentNext]_agentVars
  PROVE  LifecycleInv'
<1> JobTypes /\ HomeInv /\ StoreTypes /\ StreamTypes
  BY DEF LifecycleInv
<1>1. ASSUME NEW t \in Threads,
             \/ \E kind \in {"demo", "reset"} : Start(t, kind)
             \/ Collect(t) \/ Discard(t) \/ Read(t) \/ Show(t) \/ Create(t) \/ Find(t)
             \/ Update(t) \/ Pop(t) \/ StoreEnded(t) \/ Report(t) \/ PublishState(t)
      PROVE  StoreTypes' /\ StreamTypes' /\ JobTypes' /\ HomeInv'
  <2>1. StreamTypes'
    BY <1>1, RequestStreams
  <2>2. JobTypes' /\ StoreTypes' /\ HomeInv'
    BY <1>1, RequestHome
  <2>3. QED
    BY <2>1, <2>2
<1>2. ASSUME NEW k \in Clients,
             \/ Subscribe(k) \/ ReadSnapshot(k) \/ SendSnapshot(k) \/ Enqueue(k) \/ Hear(k)
             \/ Disconnect(k)
      PROVE  StoreTypes' /\ StreamTypes' /\ JobTypes' /\ HomeInv'
  <2>1. StreamTypes' /\ UNCHANGED <<job, line, stage, store>>
    BY <1>2, ClientTypes
  <2>2. QED
    BY <2>1, LifecycleKept DEF StoreTypes
<1>3. ASSUME UNCHANGED agentVars PROVE StoreTypes' /\ StreamTypes' /\ JobTypes' /\ HomeInv'
  <2>1. UNCHANGED <<job, line, stage, store>>
    BY <1>3 DEF agentVars
  <2>2. StoreTypes' /\ StreamTypes'
    BY <1>3 DEF agentVars, StoreTypes, StreamTypes
  <2>3. QED
    BY <2>1, <2>2, LifecycleKept
<1>4. StoreTypes' /\ StreamTypes' /\ JobTypes' /\ HomeInv'
  BY <1>1, <1>2, <1>3 DEF AgentNext
<1>5. QED
  BY <1>4 DEF LifecycleInv

\* The requests' places and the agents' collections, whatever is interleaved.
THEOREM LifecycleInvariant == AgentSpec => []LifecycleInv
<1>1. QED
  BY LifecycleInit, LifecycleStep, PTL DEF AgentSpec

\* An agent is in one collection at most, and where it ended shows its status:
\* complete_agent and fail_agent against each other and against a reset.
THEOREM OneCollectionAtATime == AgentSpec => []OneCollection
<1>1. LifecycleInv => OneCollection
  BY DEF LifecycleInv, HomeInv
<1>2. QED
  BY <1>1, LifecycleInvariant, PTL

(***************************************************************************)
(* What the queues tell                                                    *)
(***************************************************************************)
\* The first of q is handed on.
LEMMA TellsHead ==
  ASSUME NEW q \in Seq(Envelopes), q # <<>>, NEW a, NEW v
  PROVE  /\ Tells(q, a, v) => \/ Tells(Tail(q), a, v)
                              \/ /\ Mute(Tail(q), a) /\ a \in DOMAIN Head(q).map
                                 /\ Head(q).map[a] = v
         /\ Mute(q, a) => Mute(Tail(q), a) /\ a \notin DOMAIN Head(q).map
<1> DEFINE w == Tail(q)
           n == Len(q)
<1>1. /\ Head(q) = q[1] /\ n \in Nat /\ n >= 1 /\ DOMAIN w = 1..n - 1 /\ DOMAIN q = 1..n
      /\ \A i \in 1..n - 1 : w[i] = q[i + 1]
  BY TailFacts
<1> HIDE DEF w, n
<1>2. \A i \in 1..n - 1 : i + 1 \in DOMAIN q
  BY <1>1
<1>3. 1 \in DOMAIN q
  BY <1>1
<1>4. ASSUME Mute(q, a) PROVE Mute(w, a) /\ a \notin DOMAIN Head(q).map
  BY <1>1, <1>2, <1>3, <1>4 DEF Mute
<1>5. ASSUME Tells(q, a, v)
      PROVE  \/ Tells(w, a, v)
             \/ Mute(w, a) /\ a \in DOMAIN Head(q).map /\ Head(q).map[a] = v
  <2>1. PICK i \in DOMAIN q : /\ a \in DOMAIN q[i].map /\ q[i].map[a] = v
                              /\ \A j \in DOMAIN q : j > i => a \notin DOMAIN q[j].map
    BY <1>5 DEF Tells
  <2>2. CASE i = 1
    <3>1. \A j \in 1..n - 1 : j + 1 > i
      BY <1>1, <2>2
    <3>2. Mute(w, a)
      BY <1>1, <1>2, <2>1, <3>1 DEF Mute
    <3>3. QED
      BY <1>1, <2>1, <2>2, <3>2
  <2>3. CASE i # 1
    <3>1. i - 1 \in DOMAIN w /\ w[i - 1] = q[i]
      <4>1. i - 1 \in 1..n - 1 /\ (i - 1) + 1 = i
        BY <1>1, <2>3
      <4>2. QED
        BY <1>1, <4>1
    <3>2. \A j \in DOMAIN w : j > i - 1 => a \notin DOMAIN w[j].map
      <4>1. \A j \in 1..n - 1 : j > i - 1 => j + 1 > i
        BY <1>1
      <4>2. QED
        BY <1>1, <1>2, <2>1, <4>1
    <3>3. QED
      BY <2>1, <3>1, <3>2 DEF Tells
  <2>4. QED
    BY <2>2, <2>3
<1>6. QED
  BY <1>4, <1>5 DEF w

\* e comes behind q.
LEMMA TellsAppend ==
  ASSUME NEW q \in Seq(Envelopes), NEW e \in Envelopes, NEW a, NEW v
  PROVE  /\ a \in DOMAIN e.map /\ e.map[a] = v => Tells(Append(q, e), a, v)
         /\ a \notin DOMAIN e.map /\ Tells(q, a, v) => Tells(Append(q, e), a, v)
         /\ a \notin DOMAIN e.map /\ Mute(q, a) => Mute(Append(q, e), a)
<1> DEFINE w == Append(q, e)
           n == Len(q)
<1>1. /\ DOMAIN w = 1..n + 1 /\ DOMAIN q = 1..n /\ n \in Nat
      /\ \A i \in 1..n : w[i] = q[i]
      /\ w[n + 1] = e
  BY AppendFacts
<1> HIDE DEF w, n
<1>2. n + 1 \in DOMAIN w /\ (\A i \in DOMAIN w : i \in DOMAIN q \/ i = n + 1)
      /\ (\A i \in DOMAIN q : i \in DOMAIN w) /\ (\A i \in DOMAIN w : ~(i > n + 1))
  BY <1>1
<1>3. ASSUME a \in DOMAIN e.map, e.map[a] = v PROVE Tells(w, a, v)
  BY <1>1, <1>2, <1>3 DEF Tells
<1>4. ASSUME a \notin DOMAIN e.map, Tells(q, a, v) PROVE Tells(w, a, v)
  BY <1>1, <1>2, <1>4 DEF Tells
<1>5. ASSUME a \notin DOMAIN e.map, Mute(q, a) PROVE Mute(w, a)
  BY <1>1, <1>2, <1>5 DEF Mute
<1>6. QED
  BY <1>3, <1>4, <1>5 DEF w

\* An empty queue tells nothing.
LEMMA EmptyTells ==
  ASSUME NEW a, NEW v
  PROVE  ~Tells(<<>>, a, v) /\ Mute(<<>>, a)
BY DEF Tells, Mute

(***************************************************************************)
(* The newest envelope, and the pages of a snapshot                        *)
(***************************************************************************)
QueueInv == \A k \in Clients : NewestRight(k) /\ PagesRight(k)

LEMMA QueueKept ==
  ASSUME NEW k \in Clients, NewestRight(k), PagesRight(k), client'[k] = client[k],
         pages'[k] = pages[k], calls'[k] = calls[k], box'[k] = box[k], latest'[k] = latest[k]
  PROVE  NewestRight(k)' /\ PagesRight(k)'
BY DEF NewestRight, PagesRight, Registered

LEMMA QueuePublished ==
  ASSUME StreamTypes, QueueInv, NEW e \in Seq(Envelopes), e # <<>>, Publish(e)
  PROVE  QueueInv'
<1> SUFFICES ASSUME NEW k \in Clients PROVE NewestRight(k)' /\ PagesRight(k)'
  BY DEF QueueInv
<1>1. client' = client /\ pages' = pages /\ box' = box
  BY DEF Publish, streamVars
<1>2. CASE Registered(k)
  <2>1. /\ calls'[k] # <<>> /\ latest'[k].published = calls'[k][Len(calls'[k])]
    BY <1>2, PublishFacts
  <2>2. NewestRight(k)'
    BY <2>1 DEF NewestRight
  <2>3. PagesRight(k)'
    BY <1>1, <1>2 DEF PagesRight, Registered, QueueInv
  <2>4. QED
    BY <2>2, <2>3
<1>3. CASE ~Registered(k)
  <2>1. calls'[k] = calls[k] /\ latest'[k] = latest[k]
    BY <1>3, PublishFacts
  <2>2. QED
    BY <1>1, <2>1, QueueKept DEF QueueInv
<1>4. QED
  BY <1>2, <1>3

LEMMA QueueRequest ==
  ASSUME StoreTypes, StreamTypes, JobTypes, QueueInv, NEW t \in Threads,
         \/ \E kind \in {"demo", "reset"} : Start(t, kind)
         \/ Collect(t) \/ Discard(t) \/ Read(t) \/ Show(t) \/ Create(t) \/ Find(t)
         \/ Update(t) \/ Pop(t) \/ StoreEnded(t) \/ Report(t) \/ PublishState(t)
  PROVE  QueueInv'
<1>1. CASE Show(t) \/ Report(t) \/ PublishState(t)
  <2>1. Running(t) /\ (stage[t] \in {"event", "state"} \/ Current(t).do = "show")
    BY <1>1 DEF Show, Report, PublishState
  <2>2. NewsOf(t) \in Seq(Envelopes) /\ NewsOf(t) # <<>> /\ Publish(NewsOf(t))
    BY <1>1, <2>1, NewsTypes
  <2>3. QED
    BY <2>2, QueuePublished
<1>2. ASSUME Silent PROVE QueueInv'
  <2>1. UNCHANGED <<client, pages, calls, box, latest>>
    BY <1>2 DEF Silent, streamVars
  <2>2. QED
    BY <2>1, QueueKept DEF QueueInv
<1>3. Show(t) \/ Report(t) \/ PublishState(t) \/ Silent
  BY DEF Start, Collect, Discard, Read, Create, Find, Update, Pop, StoreEnded
<1>4. QED
  BY <1>1, <1>2, <1>3

\* The last of a queue, after its first is gone, and after one more came.
LEMMA LastFacts ==
  ASSUME NEW q \in Seq(Envelopes), NEW e \in Envelopes
  PROVE  /\ Append(q, e) # <<>> /\ Append(q, e)[Len(Append(q, e))] = e
         /\ q # <<>> /\ Tail(q) # <<>> => Tail(q)[Len(Tail(q))] = q[Len(q)]
         /\ q # <<>> /\ Tail(q) = <<>> => Head(q) = q[Len(q)]
<1>1. Append(q, e) # <<>> /\ Append(q, e)[Len(Append(q, e))] = e
  BY AppendFacts
<1>2. ASSUME q # <<>>, Tail(q) # <<>> PROVE Tail(q)[Len(Tail(q))] = q[Len(q)]
  <2> DEFINE n == Len(q)
  <2>1. /\ n \in Nat /\ n >= 1 /\ Len(Tail(q)) = n - 1 /\ n # 1
        /\ \A i \in 1..n - 1 : Tail(q)[i] = q[i + 1]
    BY <1>2, TailFacts
  <2> HIDE DEF n
  <2>2. n - 1 \in 1..n - 1 /\ (n - 1) + 1 = n
    BY <2>1
  <2>3. Tail(q)[n - 1] = q[n]
    BY <2>1, <2>2
  <2>4. QED
    BY <2>1, <2>3 DEF n
<1>3. ASSUME q # <<>>, Tail(q) = <<>> PROVE Head(q) = q[Len(q)]
  BY <1>3, TailFacts
<1>4. QED
  BY <1>1, <1>2, <1>3

\* What a stream's step leaves alone of the other streams.
LEMMA OtherClients ==
  ASSUME StreamTypes, NEW k \in Clients,
         \/ Subscribe(k) \/ ReadSnapshot(k) \/ SendSnapshot(k) \/ Enqueue(k) \/ Hear(k)
         \/ Disconnect(k)
  PROVE  /\ \A j \in Clients : j # k =>
              /\ client'[j] = client[j] /\ pages'[j] = pages[j] /\ calls'[j] = calls[j]
              /\ box'[j] = box[j] /\ latest'[j] = latest[j] /\ view'[j] = view[j]
              /\ dropped'[j] = dropped[j]
         /\ \A x \in Threads \cup Clients : x # k => sight'[x] = sight[x]
<1>1. CASE Enqueue(k)
  <2>1. /\ \A j \in Clients : j # k => calls'[j] = calls[j] /\ dropped'[j] = dropped[j]
        /\ UNCHANGED <<sight, client, pages, view, latest>>
    BY <1>1 DEF Enqueue, StreamTypes
  <2>2. \A j \in Clients : j # k => box'[j] = box[j]
    BY <1>1 DEF Enqueue, StreamTypes
  <2>3. QED
    BY <2>1, <2>2
<1>2. CASE Hear(k)
  <2>1. /\ \A j \in Clients : j # k => latest'[j] = latest[j] /\ view'[j] = view[j]
    BY <1>2, HearFacts
  <2>2. \A j \in Clients : j # k => box'[j] = box[j]
    BY <1>2 DEF Hear, StreamTypes
  <2>3. QED
    BY <1>2, <2>1, <2>2 DEF Hear
<1>3. CASE Subscribe(k)
  BY <1>3 DEF Subscribe, StreamTypes
<1>4. CASE ReadSnapshot(k)
  BY <1>4 DEF ReadSnapshot, Seeing, StreamTypes
<1>5. CASE SendSnapshot(k)
  BY <1>5 DEF SendSnapshot, StreamTypes
<1>6. CASE Disconnect(k)
  BY <1>6 DEF Disconnect, StreamTypes
<1>7. QED
  BY <1>1, <1>2, <1>3, <1>4, <1>5, <1>6

\* The three pages, one after the other.
LEMMA PagesFacts ==
  ASSUME NEW p \in AllPages, p # <<>>
  PROVE  /\ Head(p) \in Collections /\ Tail(p) \in AllPages
         /\ Head(p) = "active" <=> p = <<"active", "completed", "failed">>
         /\ p = <<"active", "completed", "failed">> => Tail(p) = <<"completed", "failed">>
         /\ p = <<"completed", "failed">> => Head(p) = "completed" /\ Tail(p) = <<"failed">>
         /\ p = <<"failed">> => Head(p) = "failed" /\ Tail(p) = <<>>
<1>1. CASE p = <<"active", "completed", "failed">>
  <2>1. Head(p) = "active" /\ Tail(p) = <<"completed", "failed">> /\ Len(p) = 3
    BY <1>1
  <2>2. Len(<<"completed", "failed">>) = 2 /\ Len(<<"failed">>) = 1
    OBVIOUS
  <2>3. QED
    BY <1>1, <2>1, <2>2 DEF AllPages, Collections
<1>2. CASE p = <<"completed", "failed">>
  <2>1. Head(p) = "completed" /\ Tail(p) = <<"failed">> /\ Len(p) = 2
    BY <1>2
  <2>2. Len(<<"active", "completed", "failed">>) = 3 /\ Len(<<"failed">>) = 1
    OBVIOUS
  <2>3. QED
    BY <1>2, <2>1, <2>2 DEF AllPages, Collections
<1>3. CASE p = <<"failed">>
  <2>1. Head(p) = "failed" /\ Tail(p) = <<>> /\ Len(p) = 1
    BY <1>3
  <2>2. Len(<<"active", "completed", "failed">>) = 3 /\ Len(<<"completed", "failed">>) = 2
    OBVIOUS
  <2>3. QED
    BY <1>3, <2>1, <2>2 DEF AllPages, Collections
<1>4. QED
  BY <1>1, <1>2, <1>3 DEF AllPages

LEMMA QueueClient ==
  ASSUME StreamTypes, QueueInv, NEW k \in Clients,
         \/ Subscribe(k) \/ ReadSnapshot(k) \/ SendSnapshot(k) \/ Enqueue(k) \/ Hear(k)
         \/ Disconnect(k)
  PROVE  QueueInv'
<1>1. ASSUME NEW j \in Clients, j # k PROVE NewestRight(j)' /\ PagesRight(j)'
  BY <1>1, OtherClients, QueueKept DEF QueueInv
<1>2. NewestRight(k) /\ PagesRight(k) /\ k \in DOMAIN client /\ k \in DOMAIN pages
      /\ k \in DOMAIN calls /\ k \in DOMAIN box
  BY DEF QueueInv, StreamTypes
<1>3. CASE Subscribe(k)
  <2>1. /\ client[k] = "new" /\ client'[k] = "subscribed"
        /\ pages'[k] = <<"active", "completed", "failed">>
        /\ UNCHANGED <<calls, box, latest>>
    BY <1>2, <1>3 DEF Subscribe
  <2>2. NewestRight(k)'
    BY <1>2, <2>1 DEF NewestRight, PagesRight
  <2>3. PagesRight(k)'
    BY <2>1 DEF PagesRight, AllPages
  <2>4. QED
    BY <1>1, <2>2, <2>3 DEF QueueInv
<1>4. CASE ReadSnapshot(k)
  <2>1. /\ client[k] \in {"subscribed", "reading"} /\ client'[k] = "reading" /\ pages[k] # <<>>
        /\ pages'[k] = Tail(pages[k]) /\ UNCHANGED <<calls, box, latest>>
    BY <1>2, <1>4 DEF ReadSnapshot
  <2>2. NewestRight(k)'
    BY <1>2, <2>1 DEF NewestRight, Registered
  <2>3. Tail(pages[k]) \in AllPages
    BY <1>2, <2>1, PagesFacts DEF PagesRight
  <2>4. PagesRight(k)'
    BY <2>1, <2>3 DEF PagesRight
  <2>5. QED
    BY <1>1, <2>2, <2>4 DEF QueueInv
<1>5. CASE SendSnapshot(k)
  <2>1. /\ client[k] = "reading" /\ client'[k] = "live" /\ pages[k] = <<>>
        /\ UNCHANGED <<calls, box, latest, pages>>
    BY <1>2, <1>5 DEF SendSnapshot
  <2>2. NewestRight(k)'
    BY <1>2, <2>1 DEF NewestRight, Registered
  <2>3. PagesRight(k)'
    BY <1>2, <2>1 DEF PagesRight
  <2>4. QED
    BY <1>1, <2>2, <2>3 DEF QueueInv
<1>6. CASE Enqueue(k)
  <2> DEFINE room == IF Len(box[k]) = BoxSize THEN Tail(box[k]) ELSE box[k]
  <2>1. /\ calls[k] # <<>> /\ calls'[k] = Tail(calls[k]) /\ room \in Seq(Envelopes)
        /\ box'[k] = Append(room, Head(calls[k])) /\ Head(calls[k]) \in Envelopes
        /\ UNCHANGED <<client, pages, latest>>
    BY <1>2, <1>6, EnqueueFacts, AgentConstantsOK DEF Enqueue
  <2>2. calls[k] \in Seq(Envelopes)
    BY DEF StreamTypes
  <2> HIDE DEF room
  <2>3. /\ box'[k] # <<>> /\ box'[k][Len(box'[k])] = Head(calls[k])
    BY <2>1, LastFacts
  <2>4. /\ Tail(calls[k]) # <<>> => Tail(calls[k])[Len(Tail(calls[k]))] = calls[k][Len(calls[k])]
        /\ Tail(calls[k]) = <<>> => Head(calls[k]) = calls[k][Len(calls[k])]
    BY <2>1, <2>2, LastFacts
  <2>5. NewestRight(k)'
    BY <1>2, <2>1, <2>3, <2>4 DEF NewestRight, Registered
  <2>6. PagesRight(k)'
    BY <1>2, <2>1 DEF PagesRight
  <2>7. QED
    BY <1>1, <2>5, <2>6 DEF QueueInv
<1>7. CASE Hear(k)
  <2>1. /\ client[k] = "live" /\ box[k] # <<>> /\ box'[k] = Tail(box[k])
        /\ latest'[k].heard = Head(box[k]) /\ latest'[k].published = latest[k].published
        /\ UNCHANGED <<client, pages, calls>> /\ Head(box[k]) \in Envelopes
    BY <1>2, <1>7, HearFacts DEF Hear
  <2>2. box[k] \in Seq(Envelopes)
    BY DEF StreamTypes
  <2>3. /\ Tail(box[k]) # <<>> => Tail(box[k])[Len(Tail(box[k]))] = box[k][Len(box[k])]
        /\ Tail(box[k]) = <<>> => Head(box[k]) = box[k][Len(box[k])]
    BY <2>1, <2>2, LastFacts
  <2>4. NewestRight(k)'
    BY <1>2, <2>1, <2>3 DEF NewestRight, Registered
  <2>5. PagesRight(k)'
    BY <1>2, <2>1 DEF PagesRight
  <2>6. QED
    BY <1>1, <2>4, <2>5 DEF QueueInv
<1>8. CASE Disconnect(k)
  <2>1. client'[k] = "left" /\ UNCHANGED pages
    BY <1>2, <1>8 DEF Disconnect
  <2>2. NewestRight(k)' /\ PagesRight(k)'
    BY <1>2, <2>1 DEF NewestRight, Registered, PagesRight
  <2>3. QED
    BY <1>1, <2>2 DEF QueueInv
<1>9. QED
  BY <1>3, <1>4, <1>5, <1>6, <1>7, <1>8

(***************************************************************************)
(* What a stream will know                                                 *)
(***************************************************************************)
\* The standing of an agent is what its collection holds.
LEMMA StandingFacts ==
  ASSUME OneCollection, NEW a \in Agents
  PROVE  /\ \A c \in Collections : In(c, a) => Standing(a) = store[c][a]
         /\ ~Found(a) => Standing(a) = "none"
<1>1. \A c, d \in Collections : In(c, a) /\ In(d, a) => c = d
  BY DEF OneCollection
<1>2. ASSUME NEW c \in Collections, In(c, a) PROVE Standing(a) = store[c][a]
  <2>1. Found(a) /\ \A d \in Collections : In(d, a) => d = c
    BY <1>1, <1>2 DEF Found
  <2>2. c = "active" \/ c = "completed" \/ c = "failed"
    BY CollectionNames
  <2>3. Record(a) = store[c][a]
    BY <1>2, <2>1, <2>2, CollectionNames DEF Record
  <2>4. QED
    BY <2>1, <2>3 DEF Standing
<1>3. QED
  BY <1>2 DEF Standing

\* An agent whose record nobody touches.
LEMMA StandingKept ==
  ASSUME NEW a, \A c \in Collections : store'[c][a] = store[c][a]
  PROVE  /\ \A c \in Collections : In(c, a)' = In(c, a)
         /\ Found(a)' = Found(a) /\ Standing(a)' = Standing(a)
<1>1. \A c \in Collections : In(c, a)' = In(c, a)
  BY DEF In
<1>2. Found(a)' = Found(a)
  BY <1>1 DEF Found
<1>3. Record(a)' = Record(a) \/ ~Found(a)
  BY <1>1, CollectionNames DEF Record, Found
<1>4. QED
  BY <1>1, <1>2, <1>3 DEF Standing

LEMMA KnownKept ==
  ASSUME StreamTypes, NEW k \in Clients, NEW a \in Agents,
         \A c \in Collections : store'[c][a] = store[c][a],
         client'[k] = client[k], pages'[k] = pages[k], view'[k] = view[k], sight'[k] = sight[k],
         Known(k, a)
  PROVE  Known(k, a)'
<1>1. pages[k] \in Seq(Collections)
  BY DEF StreamTypes
<1>2. \A i \in DOMAIN pages[k] : pages[k][i] \in Collections
  BY <1>1
<1>3. Standing(a)' = Standing(a) /\ \A c \in Collections : In(c, a)' = In(c, a)
  BY StandingKept
<1>4. \A i \in DOMAIN pages[k] : In(pages[k][i], a) => store'[pages[k][i]][a] # "none"
  BY <1>2 DEF In
<1>5. CASE client[k] = "live"
  BY <1>3, <1>5 DEF Known
<1>6. CASE client[k] # "live"
  BY <1>3, <1>4, <1>6 DEF Known, In
<1>7. QED
  BY <1>5, <1>6

LEMMA WillKnowKept ==
  ASSUME StreamTypes, NEW k \in Clients, NEW a \in Agents,
         \A c \in Collections : store'[c][a] = store[c][a],
         client'[k] = client[k], pages'[k] = pages[k], view'[k] = view[k], sight'[k] = sight[k],
         calls'[k] = calls[k], box'[k] = box[k], WillKnow(k, a)
  PROVE  WillKnow(k, a)'
<1>1. Standing(a)' = Standing(a)
  BY StandingKept
<1>2. /\ \A v : Tells(calls[k], a, v)' <=> Tells(calls[k], a, v)
      /\ \A v : Tells(box[k], a, v)' <=> Tells(box[k], a, v)
      /\ Mute(calls[k], a)' <=> Mute(calls[k], a)
      /\ Mute(box[k], a)' <=> Mute(box[k], a)
  BY DEF Tells, Mute
<1>3. Known(k, a) => Known(k, a)'
  BY KnownKept
<1>4. QED
  BY <1>1, <1>2, <1>3 DEF WillKnow

\* The snapshot of a stream, page by page.
LEMMA SnapshotKnown ==
  ASSUME StoreTypes, StreamTypes, OneCollection, NEW k \in Clients, PagesRight(k),
         ReadSnapshot(k), NEW a \in Agents, Known(k, a)
  PROVE  Known(k, a)'
<1> DEFINE p == pages[k]
           c == Head(pages[k])
<1>1. /\ client[k] \in {"subscribed", "reading"} /\ p # <<>> /\ Seeing(k, c) /\ p \in AllPages
      /\ store' = store /\ client'[k] = "reading" /\ pages'[k] = Tail(p)
  BY DEF ReadSnapshot, PagesRight, StreamTypes
<1>2. p \in Seq(Collections)
  BY DEF StreamTypes
<1>3. /\ c \in Collections /\ Tail(p) \in AllPages
      /\ c = "active" <=> p = <<"active", "completed", "failed">>
      /\ p = <<"active", "completed", "failed">> => Tail(p) = <<"completed", "failed">>
  BY <1>1, PagesFacts
<1>4. /\ c = p[1] /\ Len(p) \in Nat /\ DOMAIN Tail(p) = 1..Len(p) - 1 /\ DOMAIN p = 1..Len(p)
      /\ \A i \in 1..Len(p) - 1 : Tail(p)[i] = p[i + 1]
  BY <1>1, <1>2, TailFacts
<1> HIDE DEF p, c
<1>5. sight'[k][a] = IF In(c, a) THEN store[c][a] ELSE IF c = "active" THEN "none" ELSE sight[k][a]
  BY <1>1, <1>3, SeeingTypes
<1>6. Standing(a)' = Standing(a) /\ \A d \in Collections : In(d, a)' = In(d, a)
  BY <1>1, StandingKept
<1>7. CASE In(c, a)
  <2>1. sight'[k][a] = Standing(a)
    BY <1>3, <1>5, <1>7, StandingFacts
  <2>2. QED
    BY <1>1, <1>6, <2>1 DEF Known
<1>8. CASE ~In(c, a) /\ c = "active"
  <2>1. pages'[k] = <<"completed", "failed">>
    BY <1>1, <1>3, <1>8
  <2>2. CASE Found(a)
    <3>1. In("completed", a) \/ In("failed", a)
      BY <1>8, <2>2, CollectionNames DEF Found
    <3>2. In("completed", a)' \/ In("failed", a)'
      BY <1>6, <3>1, CollectionNames
    <3>3. DOMAIN <<"completed", "failed">> = 1..2
      OBVIOUS
    <3>4. 1 \in DOMAIN pages'[k] /\ 2 \in DOMAIN pages'[k]
      BY <2>1, <3>3
    <3>5. pages'[k][1] = "completed" /\ pages'[k][2] = "failed"
      BY <2>1
    <3>6. \E i \in DOMAIN pages'[k] : In(pages[k][i], a)'
      BY <3>2, <3>4, <3>5 DEF In
    <3>7. QED
      BY <1>1, <3>6 DEF Known
  <2>3. CASE ~Found(a)
    BY <1>1, <1>5, <1>6, <1>8, <2>3, StandingFacts DEF Known
  <2>4. QED
    BY <2>2, <2>3
<1>9. CASE ~In(c, a) /\ c # "active"
  <2>1. (\E i \in DOMAIN p : In(p[i], a)) \/ sight[k][a] = Standing(a)
    BY <1>1, <1>3, <1>9 DEF Known, p
  <2>2. CASE sight[k][a] = Standing(a)
    BY <1>1, <1>5, <1>6, <1>9, <2>2 DEF Known
  <2>3. ASSUME NEW i \in DOMAIN p, In(p[i], a) PROVE Known(k, a)'
    <3>1. i # 1
      BY <1>4, <1>9, <2>3
    <3>2. i - 1 \in 1..Len(p) - 1 /\ (i - 1) + 1 = i
      BY <1>4, <3>1
    <3>3. Tail(p)[i - 1] = p[i] /\ i - 1 \in DOMAIN Tail(p)
      BY <1>4, <3>2
    <3>4. pages'[k][i - 1] = p[i] /\ i - 1 \in DOMAIN pages'[k]
      BY <1>1, <3>3
    <3>5. store'[pages'[k][i - 1]][a] # "none"
      BY <1>1, <2>3, <3>4 DEF In
    <3>6. QED
      BY <1>1, <3>4, <3>5 DEF Known, In
  <2>4. QED
    BY <2>1, <2>2, <2>3
<1>10. QED
  BY <1>7, <1>8, <1>9

\* What the requests have told does not depend on the streams.
LEMMA RequestKept ==
  ASSUME NEW t \in Threads, UNCHANGED <<job, line, stage, store>>
  PROVE  /\ Running(t)' = Running(t) /\ SaysRight(t)' = SaysRight(t)
         /\ \A a : Untold(t, a)' = Untold(t, a)
         /\ sight'[t] = sight[t] => SightRight(t)' = SightRight(t)
<1>1. Running(t)' = Running(t) /\ Current(t)' = Current(t) /\ Agent(t)' = Agent(t)
  BY DEF Running, Current, Agent
<1>2. \A a : Standing(a)' = Standing(a) /\ Found(a)' = Found(a) /\ \A c : In(c, a)' = In(c, a)
  BY DEF Standing, Record, Found, In
<1>3. Standing(Agent(t))' = Standing(Agent(t))
  BY <1>1 DEF Standing, Record, Found, In
<1>4. SaysRight(t)' = SaysRight(t)
  BY <1>1, <1>3 DEF SaysRight
<1>5. \A a : Untold(t, a)' = Untold(t, a)
  BY <1>1 DEF Untold
<1>6. sight'[t] = sight[t] => SightRight(t)' = SightRight(t)
  BY <1>1, <1>2 DEF SightRight
<1>7. QED
  BY <1>1, <1>4, <1>5, <1>6

LEMMA CalmClient ==
  ASSUME StoreTypes, StreamTypes, OneCollection, QueueInv, CalmRight, NEW k \in Clients,
         \/ Subscribe(k) \/ ReadSnapshot(k) \/ SendSnapshot(k) \/ Enqueue(k) \/ Hear(k)
         \/ Disconnect(k)
  PROVE  CalmRight'
<1> SUFFICES ASSUME calm' PROVE CalmRight'
  BY DEF CalmRight
<1>1. UNCHANGED <<job, line, stage, store, calm>>
  BY ClientTypes
<1>2. /\ Alone /\ (\A t \in Threads : SaysRight(t) /\ SightRight(t))
      /\ \A j \in Clients : ToldRight(j)
  BY <1>1 DEF CalmRight
<1>3. \A t \in Threads : t # k /\ sight'[t] = sight[t]
  BY OtherClients, AgentConstantsOK
<1>4. Alone' /\ \A t \in Threads : SaysRight(t)' /\ SightRight(t)'
  BY <1>1, <1>2, <1>3, RequestKept DEF Alone
<1>5. \A a : (\A t \in Threads : ~Untold(t, a)') <=> (\A t \in Threads : ~Untold(t, a))
  BY <1>1, RequestKept
<1>6. ASSUME NEW j \in Clients, j # k PROVE ToldRight(j)'
  <2>1. /\ client'[j] = client[j] /\ pages'[j] = pages[j] /\ calls'[j] = calls[j]
        /\ box'[j] = box[j] /\ view'[j] = view[j] /\ dropped'[j] = dropped[j]
        /\ sight'[j] = sight[j]
    BY <1>6, OtherClients
  <2>2. Registered(j)' = Registered(j)
    BY <2>1 DEF Registered
  <2>3. \A a \in Agents : WillKnow(j, a) => WillKnow(j, a)'
    BY <1>1, <2>1, WillKnowKept
  <2>4. QED
    BY <1>2, <1>5, <2>1, <2>2, <2>3 DEF ToldRight
<1>7. ToldRight(k)'
  <2> SUFFICES ASSUME Registered(k)', ~dropped'[k], NEW a \in Agents,
                      \A t \in Threads : ~Untold(t, a)'
               PROVE  WillKnow(k, a)'
    BY DEF ToldRight
  <2>1. \A t \in Threads : ~Untold(t, a)
    BY <1>5
  <2>2. Registered(k) /\ ~dropped[k] => WillKnow(k, a)
    BY <1>2, <2>1 DEF ToldRight
  <2>3. Standing(a)' = Standing(a)
    BY <1>1, StandingKept
  <2>4. k \in DOMAIN client /\ k \in DOMAIN pages /\ k \in DOMAIN calls /\ k \in DOMAIN box
        /\ k \in DOMAIN dropped /\ k \in DOMAIN view
        /\ calls[k] \in Seq(Envelopes) /\ box[k] \in Seq(Envelopes) /\ PagesRight(k)
    BY DEF StreamTypes, QueueInv
  <2>5. CASE Subscribe(k)
    <3>1. /\ calls'[k] = <<>> /\ box'[k] = <<>> /\ client'[k] = "subscribed"
          /\ pages'[k] = <<"active", "completed", "failed">>
      BY <2>4, <2>5 DEF Subscribe, PagesRight
    <3>2. Known(k, a)'
      BY <3>1 DEF Known
    <3>3. Mute(calls[k], a)' /\ Mute(box[k], a)'
      BY <3>1 DEF Mute
    <3>4. QED
      BY <3>2, <3>3 DEF WillKnow
  <2>6. CASE ReadSnapshot(k)
    <3>1. /\ Registered(k) /\ UNCHANGED <<calls, box, dropped>>
      BY <2>4, <2>6 DEF ReadSnapshot, Registered
    <3>2. WillKnow(k, a)
      BY <2>2, <3>1
    <3>3. Known(k, a) => Known(k, a)'
      BY <2>4, <2>6, SnapshotKnown
    <3>4. QED
      BY <2>3, <3>1, <3>2, <3>3 DEF WillKnow, Tells, Mute
  <2>7. CASE SendSnapshot(k)
    <3>1. /\ Registered(k) /\ UNCHANGED <<calls, box, dropped>> /\ pages[k] = <<>>
          /\ client[k] = "reading" /\ client'[k] = "live" /\ view'[k] = sight[k]
      BY <2>4, <2>7 DEF SendSnapshot, Registered
    <3>2. WillKnow(k, a)
      BY <2>2, <3>1
    <3>3. DOMAIN pages[k] = {} /\ pages[k] # <<"active", "completed", "failed">>
      <4>1. Len(<<"active", "completed", "failed">>) = 3 /\ Len(<<>>) = 0
        OBVIOUS
      <4>2. QED
        BY <3>1, <4>1
    <3>4. Known(k, a) => sight[k][a] = Standing(a)
      BY <3>1, <3>3 DEF Known
    <3>5. Known(k, a) => Known(k, a)'
      BY <2>3, <3>1, <3>4 DEF Known
    <3>6. QED
      BY <2>3, <3>1, <3>2, <3>5 DEF WillKnow, Tells, Mute
  <2>8. CASE Enqueue(k)
    <3>1. /\ calls[k] # <<>> /\ calls'[k] = Tail(calls[k]) /\ ~dropped[k]
          /\ box'[k] = Append(box[k], Head(calls[k])) /\ Head(calls[k]) \in Envelopes
          /\ UNCHANGED <<client, pages, view, sight>>
      <4>1. /\ calls[k] # <<>> /\ calls'[k] = Tail(calls[k])
            /\ box'[k] = Append(IF Len(box[k]) = BoxSize THEN Tail(box[k])
                                ELSE box[k], Head(calls[k]))
            /\ dropped'[k] = (dropped[k] \/ Len(box[k]) = BoxSize)
            /\ Head(calls[k]) \in Envelopes
        BY <2>4, <2>8, EnqueueFacts, AgentConstantsOK
      <4>2. QED
        BY <2>8, <4>1 DEF Enqueue
    <3>2. Registered(k)
      BY <3>1 DEF Registered
    <3>3. WillKnow(k, a)
      BY <2>2, <3>1, <3>2
    <3>4. Known(k, a) => Known(k, a)'
      BY <1>1, <3>1, KnownKept
    <3> DEFINE v == Standing(a)
               q == Tail(calls[k])
               b == Append(box[k], Head(calls[k]))
    <3>5. \/ Tells(q, a, v)
          \/ Mute(q, a) /\ (Tells(b, a, v) \/ (Mute(b, a) /\ Known(k, a)))
      <4> HIDE DEF v
      <4>1. WillKnow(k, a) => \/ Tells(calls[k], a, v)
                              \/ /\ Mute(calls[k], a)
                                 /\ Tells(box[k], a, v) \/ (Mute(box[k], a) /\ Known(k, a))
        BY DEF WillKnow, v
      <4>2. Tells(calls[k], a, v) =>
              Tells(q, a, v) \/ (Mute(q, a) /\ Tells(b, a, v))
        BY <2>4, <3>1, TellsHead, TellsAppend
      <4>3. Mute(calls[k], a) => /\ Mute(q, a) /\ (Tells(box[k], a, v) => Tells(b, a, v))
                                 /\ Mute(box[k], a) => Mute(b, a)
        BY <2>4, <3>1, TellsHead, TellsAppend
      <4>4. QED
        BY <3>3, <4>1, <4>2, <4>3
    <3> HIDE DEF q, b
    <3>6. calls'[k] = q /\ box'[k] = b /\ Standing(a)' = v
      BY <2>3, <3>1 DEF q, b
    <3> HIDE DEF v
    <3>7. QED
      BY <3>4, <3>5, <3>6 DEF WillKnow, Tells, Mute
  <2>9. CASE Hear(k)
    <3>1. /\ client[k] = "live" /\ client'[k] = "live" /\ box[k] # <<>> /\ box'[k] = Tail(box[k])
          /\ view'[k][a] = IF a \in DOMAIN Head(box[k]).map THEN Head(box[k]).map[a]
                           ELSE view[k][a]
          /\ UNCHANGED <<calls, dropped>>
      BY <2>4, <2>9, HearFacts DEF Hear
    <3>2. WillKnow(k, a)
      BY <2>2, <3>1 DEF Registered
    <3> DEFINE v == Standing(a)
               b == Tail(box[k])
    <3>3. Tells(box[k], a, v) => Tells(b, a, v) \/ (Mute(b, a) /\ view'[k][a] = v)
      BY <2>4, <3>1, TellsHead
    <3>4. Mute(box[k], a) => Mute(b, a) /\ view'[k][a] = view[k][a]
      BY <2>4, <3>1, TellsHead
    <3> HIDE DEF b
    <3>5. box'[k] = b /\ Standing(a)' = v
      BY <2>3, <3>1 DEF b
    <3>6. \/ Tells(calls[k], a, v)
          \/ Mute(calls[k], a) /\ (Tells(b, a, v) \/ (Mute(b, a) /\ view'[k][a] = v))
      BY <3>1, <3>2, <3>3, <3>4 DEF WillKnow, Known
    <3> HIDE DEF v
    <3>7. QED
      BY <3>1, <3>5, <3>6 DEF WillKnow, Known, Tells, Mute
  <2>10. CASE Disconnect(k)
    BY <2>4, <2>10 DEF Disconnect, Registered
  <2>11. QED
    BY <2>5, <2>6, <2>7, <2>8, <2>9, <2>10
<1>8. QED
  BY <1>4, <1>6, <1>7 DEF CalmRight

(***************************************************************************)
(* What a request tells                                                    *)
(***************************************************************************)
\* With one request under way, what it has told is what the streams will know.
LEMMA ToldBefore ==
  ASSUME CalmRight, calm, NEW t \in Threads, Running(t), NEW k \in Clients, Registered(k),
         ~dropped[k], NEW a \in Agents, ~Untold(t, a)
  PROVE  WillKnow(k, a)
<1>1. \A u \in Threads : u # t => ~Running(u)
  BY DEF CalmRight, Alone
<1>2. \A u \in Threads : ~Untold(u, a)
  BY <1>1 DEF Untold
<1>3. QED
  BY <1>2 DEF CalmRight, ToldRight

LEMMA CalmFrom ==
  ASSUME CalmRight, NEW t \in Threads, Running(t), OnlyMoves(t), calm' = calm,
         client' = client, dropped' = dropped,
         calm => SaysRight(t)' /\ SightRight(t)',
         \A k \in Clients, a \in Agents :
           calm /\ Registered(k) /\ ~dropped[k] /\ ~Untold(t, a)' => WillKnow(k, a)'
  PROVE  CalmRight'
<1> SUFFICES ASSUME calm PROVE CalmRight'
  BY DEF CalmRight
<1>1. \A u \in Threads : u # t => ~Running(u)
  BY DEF CalmRight, Alone
<1>2. \A u \in Threads : u # t => ~Running(u)'
  BY <1>1 DEF OnlyMoves, Running
<1>3. Alone' /\ \A u \in Threads : SaysRight(u)' /\ SightRight(u)'
  BY <1>2 DEF Alone, SaysRight, SightRight
<1>4. \A k \in Clients : Registered(k)' = Registered(k) /\ dropped'[k] = dropped[k]
  BY DEF Registered
<1>5. \A k \in Clients : ToldRight(k)'
  BY <1>4 DEF ToldRight
<1>6. QED
  BY <1>3, <1>5 DEF CalmRight

\* Envelopes for a stream that is subscribed.
LEMMA WillKnowTold ==
  ASSUME StreamTypes, NEW e \in Seq(Envelopes), e # <<>>, Publish(e), store' = store,
         NEW k \in Clients, Registered(k), sight'[k] = sight[k], NEW a \in Agents
  PROVE  /\ Tells(e, a, Standing(a)) => WillKnow(k, a)'
         /\ Mute(e, a) /\ WillKnow(k, a) => WillKnow(k, a)'
<1>1. calls'[k] = calls[k] \o e /\ UNCHANGED streamVars /\ calls[k] \in Seq(Envelopes)
  BY PublishFacts DEF StreamTypes
<1>2. Standing(a)' = Standing(a)
  BY StandingKept
<1> DEFINE v == Standing(a)
           q == calls[k] \o e
<1>3. /\ Tells(e, a, v) => Tells(q, a, v)
      /\ Mute(e, a) /\ Tells(calls[k], a, v) => Tells(q, a, v)
      /\ Mute(e, a) /\ Mute(calls[k], a) => Mute(q, a)
  <2> HIDE DEF v
  <2>1. QED
    BY <1>1, TellsBehind
<1>4. Known(k, a) => Known(k, a)'
  BY <1>1, KnownKept DEF streamVars
<1>5. box' = box
  BY <1>1 DEF streamVars
<1> HIDE DEF q
<1>6. calls'[k] = q /\ Standing(a)' = v
  BY <1>1, <1>2 DEF q
<1>7. ASSUME Tells(q, a, v) PROVE WillKnow(k, a)'
  <2> HIDE DEF v
  <2>1. QED
    BY <1>6, <1>7 DEF WillKnow, Tells
<1>8. ASSUME Mute(q, a), Tells(box[k], a, v) \/ (Mute(box[k], a) /\ Known(k, a))
      PROVE  WillKnow(k, a)'
  <2> HIDE DEF v
  <2>1. QED
    BY <1>4, <1>5, <1>6, <1>8 DEF WillKnow, Tells, Mute
<1>9. WillKnow(k, a) => \/ Tells(calls[k], a, v)
                        \/ /\ Mute(calls[k], a)
                           /\ Tells(box[k], a, v) \/ (Mute(box[k], a) /\ Known(k, a))
  BY DEF WillKnow
<1>10. QED
  BY <1>3, <1>7, <1>8, <1>9

\* A line and its stage where nothing is untold.
LEMMA ToldAt ==
  ASSUME JobTypes, NEW t \in Threads, NEW a, line[t] \notin 2..8,
         \/ stage[t] = "find"
         \/ Current(t).do \in {"collect", "discard", "read", "show", "say"}
         \/ stage[t] = "store" /\ Current(t).do # "end"
  PROVE  ~Untold(t, a)
<1>1. /\ stage[t] \in {"event", "state"} =>
           Current(t).do \in {"create", "update", "end", "say"}
      /\ Current(t).do = "say" => stage[t] # "state"
  BY DEF JobTypes, PlaceRight
<1>2. QED
  BY <1>1 DEF Untold

\* A request that has gone on is at the beginning of an operation: it has nothing
\* to say yet.
LEMMA WentOn ==
  ASSUME JobTypes, NEW t \in Threads, Running(t), Advance(t)
  PROVE  /\ SaysRight(t)'
         /\ line[t] \in 8..31 => \A a : ~Untold(t, a)'
         /\ line[t] \in 1..7 /\ Running(t)' => line'[t] = line[t] + 1
         /\ line[t] \in 8..26 /\ Running(t)' => line'[t] \in 9..27
         /\ line[t] \in 27..31 /\ Running(t)' => line'[t] = line[t] + 1 /\ line[t] # 31
<1>1. PlaceRight(t) /\ line[t] \in 1..31 /\ t \in DOMAIN line /\ t \in DOMAIN stage
      /\ t \in DOMAIN job
  BY DEF JobTypes
<1>2. ASSUME NEW n \in 1..31, line[t] < n, line' = [line EXCEPT ![t] = n],
             stage' = [stage EXCEPT ![t] = FirstStage(Script[n])],
             line[t] \in 1..7 \cup 27..30 => n = line[t] + 1, line[t] \in 8..26 => n <= 27
      PROVE  /\ SaysRight(t)'
             /\ line[t] \in 8..31 => \A a : ~Untold(t, a)'
             /\ line[t] \in 1..7 => line'[t] = line[t] + 1
             /\ line[t] \in 8..26 => line'[t] \in 9..27
             /\ line[t] \in 27..31 => line'[t] = line[t] + 1 /\ line[t] # 31
  <2>1. line'[t] = n /\ stage'[t] = FirstStage(Script[n]) /\ Current(t)' = Script[n]
    BY <1>1, <1>2 DEF Current
  <2>2. Script[n].do \in {"collect", "discard", "read", "show", "create", "update", "end", "say"}
    BY LineDoes
  <2>3. /\ stage'[t] \in {"find", "event", "store"} /\ (stage'[t] = "event" => Script[n].do = "say")
        /\ stage'[t] = "store" => Script[n].do # "end"
    BY <2>1, <2>2 DEF FirstStage
  <2>4. SaysRight(t)'
    BY <2>1, <2>3 DEF SaysRight
  <2>5. line[t] \in 8..31 => n \notin 2..8
    BY <1>2
  <2>6. line[t] \in 8..31 => \A a : ~Untold(t, a)'
    BY <2>1, <2>3, <2>5 DEF Untold
  <2>7. /\ line[t] \in 1..7 => n = line[t] + 1
        /\ line[t] \in 8..26 => n \in 9..27
        /\ line[t] \in 27..31 => n = line[t] + 1 /\ line[t] # 31
    BY <1>1, <1>2
  <2>8. QED
    BY <2>1, <2>4, <2>6, <2>7
<1>3. ASSUME job' = [job EXCEPT ![t] = "done"] PROVE ~Running(t)'
  BY <1>1, <1>3 DEF Running
<1>4. \/ \E n \in 1..31 : /\ line[t] < n /\ line' = [line EXCEPT ![t] = n]
                          /\ stage' = [stage EXCEPT ![t] = FirstStage(Script[n])]
                          /\ line[t] \in 1..7 \cup 27..30 => n = line[t] + 1
                          /\ line[t] \in 8..26 => n <= 27
      \/ job' = [job EXCEPT ![t] = "done"]
  BY <1>1, AdvanceFacts
<1>5. CASE ~Running(t)'
  BY <1>5 DEF SaysRight, Untold
<1>6. QED
  BY <1>2, <1>3, <1>4, <1>5

\* A collection of the snapshot a request is reading.
LEMMA CalmRead ==
  ASSUME StoreTypes, StreamTypes, JobTypes, OneCollection, CalmRight,
         NEW t \in Threads, Read(t)
  PROVE  CalmRight'
<1> DEFINE c == Current(t).to
<1>1. /\ Running(t) /\ Current(t).do = "read" /\ Seeing(t, c) /\ Advance(t) /\ Silent
      /\ UNCHANGED <<store, calm>>
  BY DEF Read
<1>2. /\ line[t] \in 5..7 \cup 27..29
      /\ line[t] \in {5, 27} => c = "active"
      /\ line[t] \in {6, 28} => c = "completed"
      /\ line[t] \in {7, 29} => c = "failed"
  <2>1. line[t] \in 1..31 /\ Current(t) = Script[line[t]]
    BY DEF JobTypes, Current
  <2>2. Script[line[t]].do = "read" /\ Script[line[t]].to = c
    BY <1>1, <2>1
  <2> HIDE DEF c
  <2>3. line[t] \in 5..7 \cup 27..29
    BY <2>1, <2>2, LineDoes
  <2>4. /\ line[t] \in {5, 27} => c = "active"
        /\ line[t] \in {6, 28} => c = "completed"
        /\ line[t] \in {7, 29} => c = "failed"
    BY <2>1, <2>2, LineTells
  <2>5. QED
    BY <2>3, <2>4
<1> HIDE DEF c
<1>3. c \in Collections
  BY <1>2, CollectionNames
<1>4. /\ \A k \in Clients : k # t /\ sight'[k] = sight[k]
      /\ \A a \in Agents : sight'[t][a] = IF In(c, a) THEN store[c][a]
                                          ELSE IF c = "active" THEN "none" ELSE sight[t][a]
  BY <1>1, <1>3, SeeingTypes, AgentConstantsOK
<1>5. /\ SaysRight(t)' /\ (line[t] \in 27..29 => \A a : ~Untold(t, a)')
      /\ Running(t)' => line'[t] = line[t] + 1
  BY <1>1, <1>2, WentOn
<1>6. \A a \in Agents : /\ Standing(a)' = Standing(a) /\ Found(a)' = Found(a)
                        /\ \A d \in Collections : In(d, a)' = In(d, a)
  BY <1>1, StandingKept
<1>7. \A a \in Agents : /\ \A d \in Collections : In(d, a) => Standing(a) = store[d][a]
                        /\ ~Found(a) => Standing(a) = "none"
                        /\ \A d \in Collections : In(d, a) => Found(a)
                        /\ Found(a) => In("active", a) \/ In("completed", a) \/ In("failed", a)
  BY StandingFacts, CollectionNames DEF Found
<1>8. calm => SightRight(t)'
  <2> SUFFICES ASSUME calm, Running(t)', NEW a \in Agents
               PROVE  /\ line'[t] \in {6, 28} /\ (In("active", a)' \/ ~Found(a)') =>
                           sight'[t][a] = Standing(a)'
                      /\ line'[t] \in {7, 29} /\ ~In("failed", a)' => sight'[t][a] = Standing(a)'
                      /\ line'[t] \in {8, 30, 31} => sight'[t][a] = Standing(a)'
    BY DEF SightRight, In
  <2>1. /\ line[t] \in {6, 28} /\ (In("active", a) \/ ~Found(a)) => sight[t][a] = Standing(a)
        /\ line[t] \in {7, 29} /\ ~In("failed", a) => sight[t][a] = Standing(a)
    BY <1>1 DEF CalmRight, SightRight
  <2>2. /\ In("active", a)' = In("active", a) /\ In("failed", a)' = In("failed", a)
    BY <1>6, CollectionNames
  <2>3. sight'[t][a] = IF In(c, a) THEN Standing(a)
                       ELSE IF c = "active" THEN "none" ELSE sight[t][a]
    BY <1>3, <1>4, <1>7
  <2>4. CASE line[t] \in {5, 27}
    <3>1. line'[t] \in {6, 28} /\ c = "active"
      BY <1>2, <1>5, <2>4
    <3>2. In("active", a) \/ ~Found(a) => sight'[t][a] = Standing(a)
      BY <1>7, <2>3, <3>1
    <3>3. QED
      BY <1>6, <2>2, <3>1, <3>2
  <2>5. CASE line[t] \in {6, 28}
    <3>1. line'[t] \in {7, 29} /\ c = "completed"
      BY <1>2, <1>5, <2>5
    <3>2. ~In("failed", a) => sight'[t][a] = Standing(a)
      BY <1>7, <2>1, <2>3, <2>5, <3>1
    <3>3. QED
      BY <1>6, <2>2, <3>1, <3>2
  <2>6. CASE line[t] \in {7, 29}
    <3>1. line'[t] \in {8, 30} /\ c = "failed"
      BY <1>2, <1>5, <2>6
    <3>2. sight'[t][a] = Standing(a)
      BY <2>1, <2>3, <2>6, <3>1
    <3>3. QED
      BY <1>6, <3>1, <3>2
  <2>7. QED
    BY <1>2, <2>4, <2>5, <2>6
<1>9. UNCHANGED <<client, pages, calls, box, view, dropped>>
  BY <1>1 DEF Silent, streamVars
<1>10. ASSUME NEW k \in Clients, NEW a \in Agents, calm, Registered(k), ~dropped[k],
              ~Untold(t, a)'
       PROVE  WillKnow(k, a)'
  <2>1. ~(line'[t] \in 2..8 /\ Running(t)')
    BY <1>10 DEF Untold
  <2>2. line[t] \notin 2..8
    <3>1. CASE line[t] \in 5..7
      <4>1. Running(t)'
        <5>1. job'[t] = job[t]
          BY <1>1, <3>1, AdvanceFacts DEF JobTypes
        <5>2. QED
          BY <1>1, <5>1 DEF Running
      <4>2. line'[t] \in 2..8
        BY <1>5, <3>1, <4>1
      <4>3. QED
        BY <2>1, <4>1, <4>2
    <3>2. QED
      BY <1>2, <3>1
  <2>3. ~Untold(t, a)
    BY <1>1, <2>2, ToldAt
  <2>4. WillKnow(k, a)
    BY <1>1, <1>10, <2>3, ToldBefore
  <2>5. QED
    BY <1>1, <1>4, <1>9, <2>4, WillKnowKept
<1>11. OnlyMoves(t)
  BY <1>1, MovesFacts
<1>12. QED
  BY <1>1, <1>5, <1>8, <1>9, <1>10, <1>11, CalmFrom

\* A snapshot is published: it tells of every agent.
LEMMA CalmShow ==
  ASSUME StoreTypes, StreamTypes, JobTypes, CalmRight, NEW t \in Threads, Show(t)
  PROVE  CalmRight'
<1>1. /\ Running(t) /\ Current(t).do = "show" /\ Publish(NewsOf(t)) /\ Advance(t)
      /\ UNCHANGED <<sight, store, calm>> /\ NewsOf(t) \in Seq(Envelopes) /\ NewsOf(t) # <<>>
  BY NewsTypes DEF Show
<1>2. line[t] \in {8, 30, 31} /\ Current(t).to \in {"DEMO_RESET", "DEMO_STARTED", "SNAPSHOT"}
  <2>1. line[t] \in 1..31 /\ Current(t) = Script[line[t]]
    BY DEF JobTypes, Current
  <2> DEFINE n == line[t]
  <2>2. n \in 1..31 /\ Script[n].do = "show"
    BY <1>1, <2>1
  <2> HIDE DEF n
  <2>3. n \in {8, 30, 31}
    BY <2>2, LineDoes
  <2>4. Script[n].to \in {"DEMO_RESET", "DEMO_STARTED", "SNAPSHOT"}
    BY <2>2, LineTells
  <2>5. QED
    BY <2>1, <2>3, <2>4 DEF n
<1>3. NewsOf(t) = <<News(Current(t).to, sight[t])>>
  BY <1>1 DEF NewsOf, JobTypes, PlaceRight
<1>4. \A a \in Agents : Tells(NewsOf(t), a, sight[t][a])
  <2> DEFINE e == News(Current(t).to, sight[t])
  <2>1. e.map = sight[t] /\ DOMAIN e.map = Agents
    BY <1>2, EnvelopeFacts DEF StreamTypes
  <2> HIDE DEF e
  <2>2. NewsOf(t) = <<e>>
    BY <1>3 DEF e
  <2>3. QED
    BY <2>1, <2>2 DEF Tells
<1>5. /\ SaysRight(t)' /\ (line[t] \in 8..31 => \A a : ~Untold(t, a)')
      /\ line[t] = 8 /\ Running(t)' => line'[t] \in 9..27
      /\ line[t] = 30 /\ Running(t)' => line'[t] = 31
      /\ line[t] = 31 => ~Running(t)'
  BY <1>1, WentOn
<1>6. calm => \A a \in Agents : line[t] \in {8, 30, 31} => sight[t][a] = Standing(a)
  BY <1>1 DEF CalmRight, SightRight
<1>7. \A a \in Agents : Standing(a)' = Standing(a)
  BY <1>1, StandingKept
<1>8. calm => SightRight(t)'
  BY <1>1, <1>2, <1>5, <1>6, <1>7 DEF SightRight
<1>9. ASSUME NEW k \in Clients, NEW a \in Agents, calm, Registered(k), ~dropped[k]
      PROVE  WillKnow(k, a)'
  <2>1. Tells(NewsOf(t), a, Standing(a))
    BY <1>2, <1>4, <1>6, <1>9
  <2>2. QED
    BY <1>1, <1>9, <2>1, WillKnowTold
<1>10. UNCHANGED <<client, dropped>> /\ OnlyMoves(t)
  BY <1>1, MovesFacts DEF Publish, streamVars
<1>11. QED
  BY <1>1, <1>5, <1>8, <1>9, <1>10, CalmFrom

\* The record that was stored is published.
LEMMA CalmPublishState ==
  ASSUME StoreTypes, StreamTypes, JobTypes, CalmRight, NEW t \in Threads,
         PublishState(t)
  PROVE  CalmRight'
<1>1. /\ Running(t) /\ stage[t] = "state" /\ Publish(NewsOf(t)) /\ Advance(t)
      /\ UNCHANGED <<sight, store, calm>> /\ NewsOf(t) \in Seq(Envelopes) /\ NewsOf(t) # <<>>
      /\ Current(t).do \in {"create", "update", "end"}
  BY NewsTypes DEF PublishState, JobTypes, PlaceRight
<1>2. Agent(t) \in Agents /\ line[t] \in 1..31 /\ Current(t) = Script[line[t]]
  BY <1>1, AgentFacts
<1>3. line[t] \in 9..25
  <2>1. Script[line[t]].role # "none"
    <3>1. Current(t).role \in Cast /\ Cast \subseteq Roles /\ "none" \notin Roles
      BY <1>1, AgentFacts, AgentConstantsOK DEF Roles
    <3>2. QED
      BY <1>2, <3>1
  <2>2. line[t] \notin 1..8 \cup 27..31 /\ line[t] # 26
    <3>1. line[t] \notin 1..8 \cup 27..31
      BY <1>2, <2>1, LineDoes
    <3>2. Script[line[t]].do # "say"
      BY <1>1, <1>2
    <3>3. QED
      BY <1>2, <3>1, <3>2, LineDoes
  <2>3. QED
    BY <1>2, <2>2
<1>4. calm => Standing(Agent(t)) = Current(t).to
  BY <1>1 DEF CalmRight, SaysRight
<1>5. NewsOf(t) = <<OfAgent(Agent(t), Current(t).to)>>
  BY <1>1 DEF NewsOf
<1>6. /\ SaysRight(t)' /\ (\A a : ~Untold(t, a)') /\ (Running(t)' => line'[t] \in 9..27)
  BY <1>1, <1>3, WentOn
<1>7. SightRight(t)'
  BY <1>6 DEF SightRight
<1>8. ASSUME NEW k \in Clients, NEW a \in Agents, calm, Registered(k), ~dropped[k]
      PROVE  WillKnow(k, a)'
  <2> DEFINE e == OfAgent(Agent(t), Current(t).to)
  <2>1. Current(t).to \in Statuses
    <3>1. \A b \in Agents : Standing(b) \in Statuses
      BY RecordTypes DEF Standing, Statuses
    <3>2. QED
      BY <1>2, <1>4, <1>8, <3>1
  <2>2. DOMAIN e.map = {Agent(t)} /\ e.map[Agent(t)] = Current(t).to
    BY <1>2, <2>1, EnvelopeFacts
  <2> HIDE DEF e
  <2>3. NewsOf(t) = <<e>>
    BY <1>5 DEF e
  <2>4. CASE a = Agent(t)
    <3>1. Tells(NewsOf(t), a, Standing(a))
      BY <1>4, <1>8, <2>2, <2>3, <2>4 DEF Tells
    <3>2. QED
      BY <1>1, <1>8, <3>1, WillKnowTold
  <2>5. CASE a # Agent(t)
    <3>1. Mute(NewsOf(t), a)
      BY <2>2, <2>3, <2>5 DEF Mute
    <3>2. ~Untold(t, a)
      BY <1>3, <2>5 DEF Untold
    <3>3. WillKnow(k, a)
      BY <1>1, <1>8, <3>2, ToldBefore
    <3>4. QED
      BY <1>1, <1>8, <3>1, <3>3, WillKnowTold
  <2>6. QED
    BY <2>4, <2>5
<1>9. UNCHANGED <<client, dropped>> /\ OnlyMoves(t)
  BY <1>1, MovesFacts DEF Publish, streamVars
<1>10. QED
  BY <1>1, <1>6, <1>7, <1>8, <1>9, CalmFrom

\* A record that has just been stored.
LEMMA StandingAfter ==
  ASSUME OneCollection', NEW a \in Agents, NEW c \in Collections, store'[c][a] # "none"
  PROVE  Standing(a)' = store'[c][a]
<1>1. In(c, a)' /\ Found(a)'
  BY DEF In, Found
<1>2. \A d \in Collections : In(d, a)' => d = c
  BY <1>1 DEF OneCollection
<1>3. c = "active" \/ c = "completed" \/ c = "failed"
  BY CollectionNames
<1>4. Record(a)' = store'[c][a]
  BY <1>1, <1>2, <1>3, CollectionNames DEF Record
<1>5. QED
  BY <1>1, <1>4 DEF Standing

\* A step that changes one agent, which will be told of.
LEMMA CalmChange ==
  ASSUME StreamTypes, JobTypes, CalmRight, NEW t \in Threads, Running(t),
         Current(t).do \in {"create", "update", "end"}, NEW s, Stage(t, s), Silent,
         sight' = sight, calm' = calm,
         \A c \in Collections, a \in Agents : a # Agent(t) => store'[c][a] = store[c][a],
         s = "event" \/ (s = "store" /\ Current(t).do = "end"),
         NEW b \in Agents, b = Agent(t), s = "event" => Standing(b)' = Current(t).to
  PROVE  CalmRight'
<1>1. Agent(t) \in Agents /\ line[t] \in 1..31 /\ Current(t) = Script[line[t]]
  BY AgentFacts
<1>2. line[t] \in 9..25
  <2>1. Current(t).role \in Cast /\ Cast \subseteq Roles /\ "none" \notin Roles
    BY AgentFacts, AgentConstantsOK DEF Roles
  <2>2. line[t] \notin 1..8 \cup 27..31 /\ line[t] # 26
    BY <1>1, <2>1, LineDoes
  <2>3. QED
    BY <1>1, <2>2
<1>3. /\ line' = line /\ job' = job /\ stage'[t] = s /\ Current(t)' = Current(t)
      /\ Agent(t)' = b /\ Running(t)'
  BY DEF Stage, JobTypes, Current, Agent, Running
<1>4. SaysRight(t)'
  <2>1. Standing(Agent(t))' = Standing(b)'
    BY <1>3 DEF Standing, Found, Record, In
  <2>2. QED
    BY <1>3, <2>1 DEF SaysRight
<1>5. SightRight(t)'
  BY <1>2, <1>3 DEF SightRight
<1>6. UNCHANGED <<client, pages, calls, box, view, dropped>> /\ OnlyMoves(t)
  BY MovesFacts DEF Silent, streamVars
<1>7. ASSUME NEW k \in Clients, NEW a \in Agents, calm, Registered(k), ~dropped[k],
             ~Untold(t, a)'
      PROVE  WillKnow(k, a)'
  <2>1. a # Agent(t)
    BY <1>3, <1>7 DEF Untold
  <2>2. ~Untold(t, a)
    BY <1>2, <2>1 DEF Untold
  <2>3. WillKnow(k, a)
    BY <1>7, <2>2, ToldBefore
  <2>4. QED
    BY <1>6, <2>1, <2>3, WillKnowKept
<1>8. QED
  BY <1>4, <1>5, <1>6, <1>7, CalmFrom

\* Create, Update, Pop and StoreEnded.
LEMMA CalmStores ==
  ASSUME StoreTypes, StreamTypes, JobTypes, HomeInv, CalmRight, NEW t \in Threads,
         Create(t) \/ Update(t) \/ Pop(t) \/ StoreEnded(t)
  PROVE  CalmRight'
<1>1. /\ Running(t) /\ Silent /\ UNCHANGED <<sight, calm>>
      /\ Current(t).do \in {"create", "update", "end"}
  BY DEF Create, Update, Pop, StoreEnded, JobTypes, PlaceRight
<1>2. Agent(t) \in Agents /\ line[t] \in 1..31 /\ Current(t) = Script[line[t]]
  BY <1>1, AgentFacts
<1>3. CASE Pop(t)
  <2>1. Stage(t, "store") /\ Current(t).do = "end"
    BY <1>3 DEF Pop, JobTypes, PlaceRight
  <2>2. \A c \in Collections, a \in Agents : a # Agent(t) => store'[c][a] = store[c][a]
    BY <1>3, PopHome
  <2>3. QED
    BY <1>1, <1>2, <2>1, <2>2, CalmChange
<1>4. CASE Create(t) \/ Update(t) \/ StoreEnded(t)
  <2>1. Stage(t, "event")
    BY <1>4 DEF Create, Update, StoreEnded
  <2>2. /\ HomeInv'
        /\ \A c \in Collections, a \in Agents : a # Agent(t) => store'[c][a] = store[c][a]
        /\ \E c \in Collections : store'[c][Agent(t)] = Current(t).to
    BY <1>4, CreateHome, UpdateHome, StoreEndedHome
  <2>3. Current(t).to # "none"
    <3>1. Current(t).do = "create" => Current(t).to = "CREATED"
      BY <1>2, LineTells
    <3>2. Current(t).do = "update" => Current(t).to # "none"
      BY <1>2, LineTells
    <3>3. Current(t).do = "end" => line[t] = 21 \/ line[t] = 25
      BY <1>2, LineDoes
    <3>4. QED
      BY <1>1, <1>2, <3>1, <3>2, <3>3, ScriptFacts
  <2>4. ASSUME NEW b \in Agents, b = Agent(t) PROVE Standing(b)' = Current(t).to
    BY <2>2, <2>3, <2>4, StandingAfter DEF HomeInv
  <2>5. QED
    BY <1>1, <1>2, <2>1, <2>2, <2>4, CalmChange
<1>5. QED
  BY <1>3, <1>4

\* The record is reported as it is found.
LEMMA CalmReport ==
  ASSUME StoreTypes, StreamTypes, JobTypes, CalmRight, NEW t \in Threads,
         Report(t)
  PROVE  CalmRight'
<1>1. /\ Running(t) /\ stage[t] = "event" /\ Publish(NewsOf(t))
      /\ UNCHANGED <<sight, store, calm>> /\ NewsOf(t) \in Seq(Envelopes) /\ NewsOf(t) # <<>>
      /\ Current(t).do \in {"create", "update", "end", "say"}
  BY NewsTypes DEF Report, JobTypes, PlaceRight
<1>2. Agent(t) \in Agents /\ line[t] \in 1..31 /\ Current(t) = Script[line[t]]
  BY <1>1, AgentFacts
<1>3. line[t] \in 9..26 /\ (Current(t).do = "say" => line[t] = 26)
  <2>1. Current(t).role \in Cast /\ Cast \subseteq Roles /\ "none" \notin Roles
    BY <1>1, AgentFacts, AgentConstantsOK DEF Roles
  <2>2. line[t] \notin 1..8 \cup 27..31 /\ (Current(t).do = "say" => line[t] = 26)
    BY <1>2, <2>1, LineDoes
  <2>3. QED
    BY <1>2, <2>2
<1> DEFINE e == IF Found(Agent(t)) THEN OfAgent(Agent(t), Record(Agent(t))) ELSE Narration
<1>4. NewsOf(t) = <<e, Narration>>
  BY <1>1 DEF NewsOf
<1>5. /\ DOMAIN e.map \subseteq {Agent(t)} /\ DOMAIN Narration.map = {}
      /\ Found(Agent(t)) => DOMAIN e.map = {Agent(t)} /\ e.map[Agent(t)] = Standing(Agent(t))
      /\ ~Found(Agent(t)) => DOMAIN e.map = {}
  BY <1>2, RecordTypes, EnvelopeFacts DEF Standing
<1> HIDE DEF e
<1>6. DOMAIN NewsOf(t) = 1..2 /\ NewsOf(t)[1] = e /\ NewsOf(t)[2] = Narration
  BY <1>4
<1>7. \A a \in Agents : a # Agent(t) \/ ~Found(Agent(t)) => Mute(NewsOf(t), a)
  BY <1>5, <1>6 DEF Mute
<1>8. Found(Agent(t)) => Tells(NewsOf(t), Agent(t), Standing(Agent(t)))
  BY <1>5, <1>6 DEF Tells
<1>9. ASSUME NEW k \in Clients, NEW a \in Agents, calm, Registered(k), ~dropped[k],
             ~Untold(t, a)
      PROVE  WillKnow(k, a)'
  <2>1. WillKnow(k, a)
    BY <1>1, <1>9, ToldBefore
  <2>2. \/ Mute(NewsOf(t), a)
        \/ Tells(NewsOf(t), a, Standing(a))
    BY <1>7, <1>8
  <2>3. QED
    BY <1>1, <1>9, <2>1, <2>2, WillKnowTold
<1>10. UNCHANGED <<client, dropped>>
  BY <1>1 DEF Publish, streamVars
<1>11. CASE Current(t).do = "say"
  <2>1. Advance(t)
    BY <1>11 DEF Report
  <2>2. /\ SaysRight(t)' /\ (Running(t)' => line'[t] \in 9..27) /\ OnlyMoves(t)
    BY <1>1, <1>3, <2>1, WentOn, MovesFacts
  <2>3. SightRight(t)'
    BY <2>2 DEF SightRight
  <2>4. \A a \in Agents : ~Untold(t, a)
    BY <1>3, <1>11, ToldAt
  <2>5. QED
    BY <1>1, <1>9, <1>10, <2>2, <2>3, <2>4, CalmFrom
<1>12. CASE Current(t).do # "say"
  <2>1. Stage(t, "state")
    BY <1>12 DEF Report
  <2>2. /\ line' = line /\ job' = job /\ stage'[t] = "state" /\ Current(t)' = Current(t)
        /\ Agent(t)' = Agent(t) /\ Running(t)' /\ OnlyMoves(t)
    BY <1>1, <2>1, MovesFacts DEF Stage, JobTypes, Current, Agent, Running
  <2>3. calm => SaysRight(t)'
    <3>1. Standing(Agent(t))' = Standing(Agent(t))
      BY <1>1, <2>2 DEF Standing, Found, Record, In
    <3>2. calm => Standing(Agent(t)) = Current(t).to
      BY <1>1, <1>12 DEF CalmRight, SaysRight
    <3>3. QED
      BY <2>2, <3>1, <3>2 DEF SaysRight
  <2>4. SightRight(t)'
    BY <1>3, <2>2 DEF SightRight
  <2>5. \A a \in Agents : ~Untold(t, a)' => ~Untold(t, a)
    BY <1>1, <1>3, <1>12, <2>2 DEF Untold
  <2>6. QED
    BY <1>1, <1>9, <1>10, <2>2, <2>3, <2>4, <2>5, CalmFrom
<1>13. QED
  BY <1>11, <1>12

\* Collect, Discard and Find: nothing is told, and nothing else is to be told.
LEMMA CalmQuiet ==
  ASSUME StoreTypes, StreamTypes, JobTypes, CalmRight, NEW t \in Threads,
         Collect(t) \/ Discard(t) \/ Find(t)
  PROVE  CalmRight'
<1>1. Running(t) /\ Silent /\ UNCHANGED <<sight, calm>> /\ line[t] \in 1..31
      /\ Current(t) = Script[line[t]]
  BY DEF Collect, Discard, Find, JobTypes, Current
<1>2. UNCHANGED <<client, pages, calls, box, view, dropped>>
  BY <1>1 DEF Silent, streamVars
<1>3. ASSUME store' = store, \A a \in Agents : ~Untold(t, a)' => ~Untold(t, a),
             OnlyMoves(t), SaysRight(t)', SightRight(t)'
      PROVE  CalmRight'
  <2>1. ASSUME NEW k \in Clients, NEW a \in Agents, calm, Registered(k), ~dropped[k],
               ~Untold(t, a)'
        PROVE  WillKnow(k, a)'
    <3>1. WillKnow(k, a)
      BY <1>1, <1>3, <2>1, ToldBefore
    <3>2. QED
      BY <1>1, <1>2, <1>3, <3>1, WillKnowKept
  <2>2. QED
    BY <1>1, <1>2, <1>3, <2>1, CalmFrom
<1>4. ASSUME Raised(t), store' = store, \A a \in Agents : ~Untold(t, a) PROVE CalmRight'
  <2>1. ~Running(t)' /\ OnlyMoves(t)
    BY <1>4, MovesFacts DEF Raised, JobTypes, Running
  <2>2. SaysRight(t)' /\ SightRight(t)'
    BY <2>1 DEF SaysRight, SightRight
  <2>3. QED
    BY <1>3, <1>4, <2>1, <2>2
<1>5. ASSUME Advance(t), line[t] \in 1..4 PROVE CalmRight'
  <2>1. /\ SaysRight(t)' /\ OnlyMoves(t) /\ job'[t] = job[t]
        /\ Running(t)' => line'[t] = line[t] + 1
    BY <1>1, <1>5, WentOn, MovesFacts, AdvanceFacts DEF JobTypes
  <2>2. Running(t)' /\ line'[t] \in 2..5
    BY <1>1, <1>5, <2>1 DEF Running
  <2>3. SightRight(t)' /\ \A a : Untold(t, a)'
    BY <2>2 DEF SightRight, Untold
  <2>4. QED
    BY <1>1, <1>2, <2>1, <2>3, CalmFrom
<1>6. CASE Collect(t)
  <2>1. Current(t).do = "collect" /\ store' = store /\ (Advance(t) \/ Raised(t))
    BY <1>6 DEF Collect
  <2>2. line[t] = 1
    BY <1>1, <2>1, LineDoes
  <2>3. \A a \in Agents : ~Untold(t, a)
    BY <2>1, <2>2, ToldAt
  <2>4. QED
    BY <1>4, <1>5, <2>1, <2>2, <2>3
<1>7. CASE Discard(t)
  <2>1. Current(t).do = "discard" /\ Advance(t)
    BY <1>7 DEF Discard
  <2>2. line[t] \in 2..4
    BY <1>1, <2>1, LineDoes
  <2>3. QED
    BY <1>5, <2>1, <2>2
<1>8. CASE Find(t)
  <2>1. /\ stage[t] = "find" /\ store' = store /\ Current(t).do \in {"update", "end"}
        /\ \/ Raised(t)
           \/ Stage(t, "pop") \/ (Stage(t, "store") /\ Current(t).do # "end")
    BY <1>8 DEF Find, JobTypes, PlaceRight
  <2>2. line[t] \notin 1..8 \cup 27..31
    <3>1. Current(t).role \in Cast /\ Cast \subseteq Roles /\ "none" \notin Roles
      BY <1>1, <2>1, AgentFacts, AgentConstantsOK DEF Roles
    <3>2. QED
      BY <1>1, <3>1, LineDoes
  <2>3. \A a \in Agents : ~Untold(t, a)
    BY <2>1, <2>2, ToldAt
  <2>4. ASSUME NEW s, Stage(t, s), s = "pop" \/ s = "store" PROVE CalmRight'
    <3>1. line' = line /\ stage'[t] = s /\ OnlyMoves(t)
      BY <2>4, MovesFacts DEF Stage, JobTypes
    <3>2. SaysRight(t)' /\ SightRight(t)'
      BY <2>2, <2>4, <3>1 DEF SaysRight, SightRight
    <3>3. QED
      BY <1>3, <2>1, <2>3, <3>1, <3>2
  <2>5. QED
    BY <1>4, <2>1, <2>3, <2>4
<1>9. QED
  BY <1>6, <1>7, <1>8

\* A request begins: if it comes while another is under way, all bets are off.
LEMMA CalmStart ==
  ASSUME StoreTypes, StreamTypes, JobTypes, CalmRight, NEW t \in Threads,
         NEW kind \in {"demo", "reset"}, Start(t, kind)
  PROVE  CalmRight'
<1> SUFFICES ASSUME calm' PROVE CalmRight'
  BY DEF CalmRight
<1>1. /\ calm /\ (\A u \in Threads \ {t} : ~Running(u)) /\ Silent
      /\ UNCHANGED <<sight, store>> /\ job[t] = "idle" /\ OnlyMoves(t)
  BY MovesFacts DEF Start
<1>2. /\ ~Running(t) /\ \A u \in Threads : ~Running(u)
  BY <1>1 DEF Running
<1>3. /\ Script[1].do = "collect" /\ FirstStage(Script[1]) = "store"
  BY LineDoes DEF FirstStage
<1>4. line'[t] = 1 /\ stage'[t] = "store" /\ Current(t)' = Script[1]
  BY <1>3 DEF Start, JobTypes, Current
<1>5. \A u \in Threads : u # t => ~Running(u)'
  BY <1>1, <1>2 DEF OnlyMoves, Running
<1>6. SaysRight(t)' /\ SightRight(t)' /\ \A a : ~Untold(t, a)'
  BY <1>3, <1>4 DEF SaysRight, SightRight, Untold
<1>7. Alone' /\ (\A u \in Threads : SaysRight(u)' /\ SightRight(u)')
      /\ \A u \in Threads, a \in Agents : ~Untold(u, a)'
  BY <1>5, <1>6 DEF Alone, SaysRight, SightRight, Untold
<1>8. UNCHANGED <<client, pages, calls, box, view, dropped>>
  BY <1>1 DEF Silent, streamVars
<1>9. ASSUME NEW k \in Clients PROVE ToldRight(k)'
  <2> SUFFICES ASSUME Registered(k)', ~dropped'[k], NEW a \in Agents PROVE WillKnow(k, a)'
    BY DEF ToldRight
  <2>1. Registered(k) /\ ~dropped[k]
    BY <1>8 DEF Registered
  <2>2. \A u \in Threads : ~Untold(u, a)
    BY <1>2 DEF Untold
  <2>3. WillKnow(k, a)
    BY <1>1, <2>1, <2>2 DEF CalmRight, ToldRight
  <2>4. QED
    BY <1>1, <1>8, <2>3, WillKnowKept
<1>10. QED
  BY <1>7, <1>9 DEF CalmRight

(***************************************************************************)
(* A stream catches up                                                     *)
(***************************************************************************)
CatchUpInv == LifecycleInv /\ QueueInv /\ CalmRight

LEMMA CatchUpInit == AgentInit => CatchUpInv
<1> SUFFICES ASSUME AgentInit PROVE CatchUpInv
  OBVIOUS
<1>1. \A k \in Clients : ~Registered(k) /\ client[k] = "new" /\ pages[k] = <<>>
  BY DEF AgentInit, Registered
<1>2. \A k \in Clients : NewestRight(k)
  BY <1>1 DEF NewestRight
<1>3. \A k \in Clients : PagesRight(k)
  BY <1>1 DEF PagesRight, AllPages, AgentInit
<1>4. \A t \in Threads : ~Running(t)
  BY DEF AgentInit, Running
<1>5. CalmRight
  BY <1>1, <1>4 DEF CalmRight, Alone, SaysRight, SightRight, ToldRight
<1>6. QED
  BY <1>2, <1>3, <1>5, LifecycleInit DEF CatchUpInv, QueueInv

LEMMA CatchUpStep ==
  ASSUME CatchUpInv, [AgentNext]_agentVars
  PROVE  CatchUpInv'
<1> /\ JobTypes /\ HomeInv /\ StoreTypes /\ StreamTypes /\ QueueInv /\ CalmRight
    /\ OneCollection
  BY DEF CatchUpInv, LifecycleInv, HomeInv
<1>1. LifecycleInv'
  BY LifecycleStep DEF CatchUpInv
<1>2. ASSUME NEW t \in Threads,
             \/ \E kind \in {"demo", "reset"} : Start(t, kind)
             \/ Collect(t) \/ Discard(t) \/ Read(t) \/ Show(t) \/ Create(t) \/ Find(t)
             \/ Update(t) \/ Pop(t) \/ StoreEnded(t) \/ Report(t) \/ PublishState(t)
      PROVE  QueueInv' /\ CalmRight'
  <2>1. QueueInv'
    BY <1>2, QueueRequest
  <2>2. CalmRight'
    BY <1>2, CalmStart, CalmQuiet, CalmRead, CalmShow, CalmStores, CalmReport, CalmPublishState
  <2>3. QED
    BY <2>1, <2>2
<1>3. ASSUME NEW k \in Clients,
             \/ Subscribe(k) \/ ReadSnapshot(k) \/ SendSnapshot(k) \/ Enqueue(k) \/ Hear(k)
             \/ Disconnect(k)
      PROVE  QueueInv' /\ CalmRight'
  BY <1>3, QueueClient, CalmClient
<1>4. ASSUME UNCHANGED agentVars PROVE QueueInv' /\ CalmRight'
  <2>1. UNCHANGED <<job, line, stage, sight, store, client, pages, calls, box, view, latest,
                    dropped, calm>>
    BY <1>4 DEF agentVars
  <2>2. QueueInv'
    BY <2>1, QueueKept DEF QueueInv
  <2>3. /\ Alone' = Alone /\ \A t \in Threads : /\ SaysRight(t)' = SaysRight(t)
                                                /\ SightRight(t)' = SightRight(t)
                                                /\ \A a : Untold(t, a)' = Untold(t, a)
    BY <2>1, RequestKept DEF Alone
  <2>4. \A k \in Clients, a \in Agents : WillKnow(k, a) => WillKnow(k, a)'
    BY <2>1, WillKnowKept
  <2>5. \A k \in Clients : ToldRight(k) => ToldRight(k)'
    BY <2>1, <2>3, <2>4 DEF ToldRight, Registered
  <2>6. CalmRight'
    BY <2>1, <2>3, <2>5 DEF CalmRight
  <2>7. QED
    BY <2>2, <2>6
<1>5. QueueInv' /\ CalmRight'
  BY <1>2, <1>3, <1>4 DEF AgentNext
<1>6. QED
  BY <1>1, <1>5 DEF CatchUpInv

LEMMA CatchUpMeans == CatchUpInv => ClientCatchesUp
<1> SUFFICES ASSUME CatchUpInv, NEW k \in Clients, client[k] = "live", calls[k] = <<>>,
                    box[k] = <<>>
             PROVE  /\ latest[k].heard = latest[k].published
                    /\ ~dropped[k] /\ calm /\ (\A t \in Threads : ~Running(t)) =>
                         view[k] = [a \in Agents |-> IF Found(a) THEN Record(a) ELSE "none"]
  BY DEF ClientCatchesUp
<1>1. Registered(k)
  BY DEF Registered
<1>2. latest[k].heard = latest[k].published
  BY <1>1 DEF CatchUpInv, QueueInv, NewestRight
<1>3. ASSUME ~dropped[k], calm, \A t \in Threads : ~Running(t)
      PROVE  view[k] = [a \in Agents |-> IF Found(a) THEN Record(a) ELSE "none"]
  <2>1. ASSUME NEW a \in Agents PROVE view[k][a] = Standing(a)
    <3>1. \A t \in Threads : ~Untold(t, a)
      BY <1>3 DEF Untold
    <3>2. WillKnow(k, a)
      BY <1>1, <1>3, <3>1 DEF CatchUpInv, CalmRight, ToldRight
    <3>3. \A v : ~Tells(calls[k], a, v) /\ ~Tells(box[k], a, v)
      BY EmptyTells
    <3>4. Known(k, a)
      BY <3>2, <3>3 DEF WillKnow
    <3>5. QED
      BY <3>4 DEF Known
  <2>2. view[k] \in [Agents -> Statuses]
    BY DEF CatchUpInv, LifecycleInv, StreamTypes
  <2>3. QED
    BY <2>1, <2>2 DEF Standing
<1>4. QED
  BY <1>2, <1>3

\* What the streams will know agrees with what the requests have stored.
THEOREM CatchUpInvariant == AgentSpec => []CatchUpInv
<1>1. QED
  BY CatchUpInit, CatchUpStep, PTL DEF AgentSpec

\* A live stream whose queue is empty has handed on the newest envelope, and, if
\* nothing was discarded and the requests came one after the other, has told its
\* client the status of every agent: publish, _enqueue_latest and stream_events.
THEOREM StreamsCatchUp == AgentSpec => []ClientCatchesUp
<1>1. QED
  BY CatchUpMeans, CatchUpInvariant, PTL
================================================================================
