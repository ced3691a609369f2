---------------------------- MODULE AgentLifecycle -----------------------------
(***************************************************************************)
(* The agents of the dashboard: AgentLifecycleManager with its             *)
(* collections, the requests that change them (the demo and its reset,     *)
(* routes/agent_lifecycle.py, each in a thread of its own and without a    *)
(* lock), AgentEventBroadcaster and the SSE streams of AgentStreamService. *)
(*                                                                         *)
(* A request runs a script of operations on the manager.  An operation is  *)
(* split where another thread can come between: it finds the record, takes *)
(* it out of its collections, stores it, reports the event and publishes   *)
(* the record.  A record is its agent and its status, so the several       *)
(* events an operation reports with the same record stand for one.  The    *)
(* list of recent events and its narrations feed only the read routes, and *)
(* nothing wired archives or terminates an agent: both are left out.       *)
(***************************************************************************)
EXTENDS Naturals, Sequences, FiniteSets

CONSTANTS
  Threads,    \* requests, one thread each
  Clients,    \* SSE streams
  Cast,       \* bound: the roles of the demo that take part
  BoxSize,    \* queue_size of a subscriber
  MaxCalls    \* bound: envelopes that wait for the loop

Roles == {"planner", "researcher", "security", "integration", "coder"}

ASSUME AgentConstantsOK ==
  /\ Cast \subseteq Roles
  /\ Threads \cap Clients = {}
  /\ {BoxSize, MaxCalls} \subseteq Nat \ {0}

Agents      == Threads \X Cast
Collections == {"active", "completed", "failed"}
Statuses    == {"none", "CREATED", "ASSIGNED", "WORKING", "COMPLETED", "REVIEWING",
                "WAITING_FOR_APPROVAL", "FAILED"}

VARIABLES
  job,      \* job[t]: "idle", "demo", "reset", "done", "raised"
  line,     \* line[t]: the operation of its script
  stage,    \* stage[t]: "find", "pop", "store", "event", "state"
  doomed,   \* doomed[t]: demo_ids of the reset
  sight,    \* sight[x]: the snapshot thread or client x is reading
  store,    \* store[c][a]: the status of a's record in collection c, or "none"
  client,   \* client[k]: "new", "subscribed", "reading", "live", "left"
  pages,    \* pages[k]: collections the client's snapshot still has to read
  calls,    \* calls[k]: _enqueue_latest calls that wait for the loop
  box,      \* box[k]: the subscriber's queue
  view,     \* view[k]: what the client has been told of each agent
  latest,   \* latest[k]: the last envelope published and the last handed on
  dropped,  \* dropped[k]: an envelope was discarded
  calm      \* no two requests have been under way at a time

streamVars == <<client, pages, box, view, dropped>>
agentVars  == <<job, line, stage, doomed, sight, store, client, pages, calls, box,
                view, latest, dropped, calm>>

Nobody == [a \in Agents |-> "none"]

(***************************************************************************)
(* The scripts                                                             *)
(***************************************************************************)
Op(do, role, to) == [do |-> do, role |-> role, to |-> to]

\* create_demo_snapshot, which begins with reset_demo_data.  "read" copies one
\* collection for a snapshot and "show" publishes it, "say" adds a mere event.
Script ==
  <<Op("collect", "none", "none"), Op("discard", "none", "active"), Op("discard", "none", "completed"),
    Op("discard", "none", "failed"), Op("read", "none", "active"), Op("read", "none", "completed"),
    Op("read", "none", "failed"), Op("show", "none", "DEMO_RESET"),
    Op("create", "planner", "CREATED"), Op("create", "researcher", "CREATED"),
    Op("create", "security", "CREATED"), Op("create", "integration", "CREATED"),
    Op("create", "coder", "CREATED"),
    Op("update", "planner", "ASSIGNED"), Op("update", "researcher", "ASSIGNED"),
    Op("update", "security", "ASSIGNED"), Op("update", "integration", "ASSIGNED"),
    Op("update", "coder", "ASSIGNED"),
    Op("update", "planner", "WORKING"), Op("update", "researcher", "COMPLETED"),
    Op("end", "researcher", "COMPLETED"), Op("update", "security", "REVIEWING"),
    Op("update", "integration", "WAITING_FOR_APPROVAL"), Op("update", "coder", "WORKING"),
    Op("end", "coder", "FAILED"), Op("say", "planner", "COMMUNICATING"),
    Op("read", "none", "active"), Op("read", "none", "completed"), Op("read", "none", "failed"),
    Op("show", "none", "DEMO_STARTED"), Op("show", "none", "SNAPSHOT")>>

\* The last line of reset_demo_data, and of a request.
ResetLength == 8
LastLine(kind) == IF kind = "reset" THEN ResetLength ELSE Len(Script)

Running(t) == job[t] \in {"demo", "reset"}
Current(t) == Script[line[t]]
Agent(t)   == <<t, Current(t).role>>

FirstStage(op) ==
  CASE op.do \in {"update", "end"} -> "find"
    [] op.do = "say"               -> "event"
    [] OTHER                       -> "store"

\* The lines a request has still to run, without those of roles that take no part.
LinesLeft(t) ==
  {n \in line[t] + 1 .. LastLine(job[t]) : Script[n].role \in Cast \cup {"none"}}

\* The request goes on to its next operation, or returns.
Advance(t) ==
  \/ \E n \in LinesLeft(t) :
       /\ \A m \in LinesLeft(t) : n <= m
       /\ line' = [line EXCEPT ![t] = n]
       /\ stage' = [stage EXCEPT ![t] = FirstStage(Script[n])]
       /\ UNCHANGED job
  \/ /\ LinesLeft(t) = {}
     /\ job' = [job EXCEPT ![t] = "done"]
     /\ UNCHANGED <<line, stage>>

Stage(t, s) == stage' = [stage EXCEPT ![t] = s] /\ UNCHANGED <<job, line>>

\* A request whose operation raised is answered with an error.
Raised(t) == job' = [job EXCEPT ![t] = "raised"] /\ UNCHANGED <<line, stage>>

(***************************************************************************)
(* The collections                                                         *)
(***************************************************************************)
In(c, a) == store[c][a] # "none"

\* _find_agent
Found(a) == \E c \in Collections : In(c, a)
Record(a) ==
  IF In("active", a) THEN store["active"][a]
  ELSE IF In("completed", a) THEN store["completed"][a] ELSE store["failed"][a]

\* _store_agent: an agent that is nowhere any more is active again.
Home(a) ==
  IF In("completed", a) THEN "completed" ELSE IF In("failed", a) THEN "failed" ELSE "active"

Put(c, a, status) == store' = [store EXCEPT ![c][a] = status]

(***************************************************************************)
(* The broadcaster                                                         *)
(***************************************************************************)
\* Mutant of Registered: the stream subscribes once its snapshot is sent.
RegisteredLate(k) == client[k] = "live"

\* subscribe comes before the snapshot.
Registered(k) == client[k] \in {"subscribed", "reading", "live"}

\* An envelope tells of one agent, of all, or of none (a narration).
News(kind, map) == [kind |-> kind, map |-> map]
OfAgent(a, status) == News("agent", [b \in {a} |-> status])
Narration == News("narration", [b \in {} |-> "none"])

\* publish: a call on the loop of every subscriber.
Publish(envelopes) ==
  /\ \A k \in Clients : Registered(k) => Len(calls[k]) + Len(envelopes) <= MaxCalls
  /\ calls' = [k \in Clients |-> IF Registered(k) THEN calls[k] \o envelopes ELSE calls[k]]
  /\ latest' = [k \in Clients |-> IF Registered(k)
                  THEN [latest[k] EXCEPT !.published = envelopes[Len(envelopes)]] ELSE latest[k]]
  /\ UNCHANGED streamVars

Silent == UNCHANGED <<calls, latest, streamVars>>

(***************************************************************************)
(* Requests                                                                *)
(***************************************************************************)
Start(t, kind) ==
  /\ job[t] = "idle"
  /\ job' = [job EXCEPT ![t] = kind]
  /\ line' = [line EXCEPT ![t] = 1]
  /\ stage' = [stage EXCEPT ![t] = FirstStage(Script[1])]
  /\ calm' = (calm /\ \A u \in Threads \ {t} : ~Running(u))
  /\ Silent
  /\ UNCHANGED <<doomed, sight, store>>

\* reset_demo_data collects the ids; a collection that another thread changes
\* meanwhile makes the iteration raise.
Collect(t) ==
  /\ Running(t) /\ Current(t).do = "collect"
  /\ \/ /\ doomed' = [doomed EXCEPT ![t] = {a \in Agents : Found(a)}]
        /\ Advance(t)
     \/ /\ \E u \in Threads \ {t} : Running(u)
        /\ Raised(t)
        /\ UNCHANGED doomed
  /\ Silent
  /\ UNCHANGED <<sight, store, calm>>

Discard(t) ==
  /\ Running(t) /\ Current(t).do = "discard"
  /\ store' = [store EXCEPT ![Current(t).to] =
                 [a \in Agents |-> IF a \in doomed[t] THEN "none" ELSE @[a]]]
  /\ Advance(t)
  /\ Silent
  /\ UNCHANGED <<doomed, sight, calm>>

\* One collection of a snapshot.
Seeing(x, c) ==
  sight' = [sight EXCEPT ![x] = [a \in Agents |-> IF In(c, a) THEN store[c][a]
                                 ELSE IF c = "active" THEN "none" ELSE @[a]]]

Read(t) ==
  /\ Running(t) /\ Current(t).do = "read"
  /\ Seeing(t, Current(t).to)
  /\ Advance(t)
  /\ Silent
  /\ UNCHANGED <<doomed, store, calm>>

Show(t) ==
  /\ Running(t) /\ Current(t).do = "show"
  /\ Publish(<<News(Current(t).to, sight[t])>>)
  /\ Advance(t)
  /\ UNCHANGED <<doomed, sight, store, calm>>

\* create_agent
Create(t) ==
  /\ Running(t) /\ Current(t).do = "create" /\ stage[t] = "store"
  /\ Put("active", Agent(t), "CREATED")
  /\ Stage(t, "event")
  /\ Silent
  /\ UNCHANGED <<doomed, sight, calm>>

\* _get_agent_or_raise: an agent another request has reset is gone.
Find(t) ==
  /\ Running(t) /\ stage[t] = "find"
  /\ IF Found(Agent(t)) THEN Stage(t, IF Current(t).do = "end" THEN "pop" ELSE "store")
     ELSE Raised(t)
  /\ Silent
  /\ UNCHANGED <<doomed, sight, store, calm>>

\* assign_task, update_status
Update(t) ==
  /\ Running(t) /\ Current(t).do = "update" /\ stage[t] = "store"
  /\ Put(Home(Agent(t)), Agent(t), Current(t).to)
  /\ Stage(t, "event")
  /\ Silent
  /\ UNCHANGED <<doomed, sight, calm>>

\* Mutant of Pop: the active collection keeps the record.
PopOthers(t) ==
  /\ Running(t) /\ stage[t] = "pop"
  /\ Stage(t, "store")
  /\ Silent
  /\ UNCHANGED <<doomed, sight, store, calm>>

\* complete_agent and fail_agent take the record out of the collections it may be
\* in and store it in their own.
Pop(t) ==
  /\ Running(t) /\ stage[t] = "pop"
  /\ store' = [c \in Collections |->
                 IF c = (IF Current(t).to = "FAILED" THEN "failed" ELSE "completed")
                 THEN store[c] ELSE [store[c] EXCEPT ![Agent(t)] = "none"]]
  /\ Stage(t, "store")
  /\ Silent
  /\ UNCHANGED <<doomed, sight, calm>>

StoreEnded(t) ==
  /\ Running(t) /\ Current(t).do = "end" /\ stage[t] = "store"
  /\ Put(IF Current(t).to = "FAILED" THEN "failed" ELSE "completed", Agent(t), Current(t).to)
  /\ Stage(t, "event")
  /\ Silent
  /\ UNCHANGED <<doomed, sight, calm>>

\* add_event: an envelope with the record as it is found now, and a narration.
Report(t) ==
  /\ Running(t) /\ stage[t] = "event"
  /\ Publish(<<IF Found(Agent(t)) THEN OfAgent(Agent(t), Record(Agent(t))) ELSE Narration,
               Narration>>)
  /\ IF Current(t).do = "say" THEN Advance(t) ELSE Stage(t, "state")
  /\ UNCHANGED <<doomed, sight, store, calm>>

\* _publish_agent_state: the record that was stored.
PublishState(t) ==
  /\ Running(t) /\ stage[t] = "state"
  /\ Publish(<<OfAgent(Agent(t), Current(t).to)>>)
  /\ Advance(t)
  /\ UNCHANGED <<doomed, sight, store, calm>>

(***************************************************************************)
(* Streams                                                                 *)
(***************************************************************************)
Subscribe(k) ==
  /\ client[k] = "new"
  /\ client' = [client EXCEPT ![k] = "subscribed"]
  /\ pages' = [pages EXCEPT ![k] = <<"active", "completed", "failed">>]
  /\ UNCHANGED <<job, line, stage, doomed, sight, store, calls, box, view, latest,
                 dropped, calm>>

\* The connected event has been sent, and the snapshot is read and sent.
ReadSnapshot(k) ==
  /\ client[k] \in {"subscribed", "reading"} /\ pages[k] # <<>>
  /\ Seeing(k, Head(pages[k]))
  /\ pages' = [pages EXCEPT ![k] = Tail(@)]
  /\ client' = [client EXCEPT ![k] = "reading"]
  /\ UNCHANGED <<job, line, stage, doomed, store, calls, box, view, latest, dropped, calm>>

SendSnapshot(k) ==
  /\ client[k] = "reading" /\ pages[k] = <<>>
  /\ view' = [view EXCEPT ![k] = sight[k]]
  /\ client' = [client EXCEPT ![k] = "live"]
  /\ UNCHANGED <<job, line, stage, doomed, sight, store, pages, calls, box, latest,
                 dropped, calm>>

\* _enqueue_latest: the oldest envelope makes room.
Enqueue(k) ==
  /\ calls[k] # <<>>
  /\ calls' = [calls EXCEPT ![k] = Tail(@)]
  /\ LET full == Len(box[k]) = BoxSize
     IN  /\ box' = [box EXCEPT ![k] = Append(IF full THEN Tail(@) ELSE @, Head(calls[k]))]
         /\ dropped' = [dropped EXCEPT ![k] = @ \/ full]
  /\ UNCHANGED <<job, line, stage, doomed, sight, store, client, pages, view, latest, calm>>

\* The stream yields the next envelope of its queue.
Hear(k) ==
  /\ client[k] = "live" /\ box[k] # <<>>
  /\ box' = [box EXCEPT ![k] = Tail(@)]
  /\ view' = [view EXCEPT ![k] = [a \in Agents |-> IF a \in DOMAIN Head(box[k]).map
                                    THEN Head(box[k]).map[a] ELSE @[a]]]
  /\ latest' = [latest EXCEPT ![k].heard = Head(box[k])]
  /\ UNCHANGED <<job, line, stage, doomed, sight, store, client, pages, calls, dropped, calm>>

\* The client goes away: the stream unsubscribes.
Disconnect(k) ==
  /\ Registered(k)
  /\ client' = [client EXCEPT ![k] = "left"]
  /\ box' = [box EXCEPT ![k] = <<>>]
  /\ calls' = [calls EXCEPT ![k] = <<>>]
  /\ UNCHANGED <<job, line, stage, doomed, sight, store, pages, view, latest, dropped, calm>>

(***************************************************************************)
(* The specification                                                       *)
(***************************************************************************)
AgentInit ==
  /\ job = [t \in Threads |-> "idle"]
  /\ line = [t \in Threads |-> 1]
  /\ stage = [t \in Threads |-> "store"]
  /\ doomed = [t \in Threads |-> {}]
  /\ sight = [x \in Threads \cup Clients |-> Nobody]
  /\ store = [c \in Collections |-> Nobody]
  /\ client = [k \in Clients |-> "new"]
  /\ pages = [k \in Clients |-> <<>>]
  /\ calls = [k \in Clients |-> <<>>]
  /\ box = [k \in Clients |-> <<>>]
  /\ view = [k \in Clients |-> Nobody]
  /\ latest = [k \in Clients |-> [published |-> Narration, heard |-> Narration]]
  /\ dropped = [k \in Clients |-> FALSE]
  /\ calm = TRUE

AgentNext ==
  \/ \E t \in Threads :
       \/ \E kind \in {"demo", "reset"} : Start(t, kind)
       \/ Collect(t) \/ Discard(t) \/ Read(t) \/ Show(t) \/ Create(t) \/ Find(t)
       \/ Update(t) \/ Pop(t) \/ StoreEnded(t) \/ Report(t) \/ PublishState(t)
  \/ \E k \in Clients :
       \/ Subscribe(k) \/ ReadSnapshot(k) \/ SendSnapshot(k) \/ Enqueue(k) \/ Hear(k)
       \/ Disconnect(k)

AgentSpec == AgentInit /\ [][AgentNext]_agentVars

(***************************************************************************)
(* Properties                                                              *)
(***************************************************************************)
\* Whatever requests run at the same time, an agent is in one collection at most,
\* and what is in the completed or failed collection has that status.
\* (complete_agent and fail_agent against reset_demo_data, which may come
\* between the finding of a record and its storing.)
OneCollection ==
  \A a \in Agents :
    /\ \A c, d \in Collections : In(c, a) /\ In(d, a) => c = d
    /\ In("completed", a) => store["completed"][a] = "COMPLETED"
    /\ In("failed", a) => store["failed"][a] = "FAILED"

\* A stream that has handed on all that was queued for it has handed on the newest
\* envelope published since it subscribed, whatever was discarded on the way; and
\* when nothing was discarded and the requests came one after the other, its
\* client knows every agent with the status of its record: nothing that happened
\* around the snapshot was missed.  (publish, _enqueue_latest, stream_events.)
ClientCatchesUp ==
  \A k \in Clients :
    client[k] = "live" /\ calls[k] = <<>> /\ box[k] = <<>> =>
      /\ latest[k].heard = latest[k].published
      /\ ~dropped[k] /\ calm /\ (\A t \in Threads : ~Running(t)) =>
           view[k] = [a \in Agents |-> IF Found(a) THEN Record(a) ELSE "none"]
================================================================================
