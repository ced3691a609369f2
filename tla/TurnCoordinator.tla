---------------------------- MODULE TurnCoordinator ----------------------------
(***************************************************************************)
(* AsyncTurnCoordinator of requests/coordinator.py: turns executed by      *)
(* asyncio tasks of one event loop.  A step is what a task does between    *)
(* two awaits that suspend it.  The coordinator's own lock is never held   *)
(* across an await, so acquiring it suspends nobody and _register and      *)
(* _unregister are part of the step that calls them.  A turn is suspended  *)
(* in three places: at the semaphore, while its context is prepared, and   *)
(* while its processor runs.                                               *)
(***************************************************************************)
EXTENDS Naturals, Sequences, FiniteSets

CONSTANTS
  Turns,        \* calls of execute, each with a turn of its own
  Sessions,     \* (user_id, session_id) pairs
  NoTurn, NoSession,
  MaxActive,    \* max_active_turns
  HistoryLimit  \* history_limit

ASSUME TurnConstantsOK ==
  /\ NoTurn \notin Turns
  /\ NoSession \notin Sessions
  /\ MaxActive \in Nat \ {0}
  /\ HistoryLimit \in Nat \ {0}

VARIABLES
  state,        \* state[t]: the turn's state, and where its task is suspended
  sessionOf,    \* sessionOf[t]: the session the turn was started for
  token,        \* token[t]: reason its CancellationToken was cancelled with
  hits,         \* hits[t]: calls of task.cancel() that its task has not met yet
  ahead,        \* ahead[t]: the waiters for the semaphore t queued behind
  active,       \* _active
  sessionTurn,  \* _session_turns
  history,      \* _history
  events        \* events[t]: turn events published

turnVars == <<state, sessionOf, token, hits, ahead, active, sessionTurn,
              history, events>>

(***************************************************************************)
(* Types                                                                   *)
(***************************************************************************)
\* ConversationTurnState.  A turn in state CREATED waits for the semaphore
\* ("created") or has been given its permit and not resumed yet ("granted").
Waiting  == {"created", "granted", "preparing_context", "running"}
Outcomes == {"completed", "failed", "timed_out", "cancelled"}

Reasons  == {"superseded_by_new_turn", "interrupted", "stream_consumer_closed",
             "deadline_exceeded", "cancelled"}

EventTypes == {"started", "context", "delta", "sentence", "tts_chunk",
               "completed", "failed", "cancelled"}
FinalEvents == {"completed", "failed", "cancelled"}

TurnTypeOK ==
  /\ state \in [Turns -> {"none"} \cup Waiting \cup Outcomes]
  /\ sessionOf \in [Turns -> Sessions \cup {NoSession}]
  /\ token \in [Turns -> Reasons \cup {"none"}]
  /\ hits \in [Turns -> SUBSET {"cancel", "deadline"}]
  /\ ahead \in [Turns -> SUBSET Turns]
  /\ active \subseteq Turns
  /\ sessionTurn \in [Sessions -> Turns \cup {NoTurn}]
  /\ history \in Seq([turn : Turns, state : Outcomes])
  /\ events \in [Turns -> Seq(EventTypes)]

TurnInit ==
  /\ state = [t \in Turns |-> "none"]
  /\ sessionOf = [t \in Turns |-> NoSession]
  /\ token = [t \in Turns |-> "none"]
  /\ hits = [t \in Turns |-> {}]
  /\ ahead = [t \in Turns |-> {}]
  /\ active = {}
  /\ sessionTurn = [s \in Sessions |-> NoTurn]
  /\ history = <<>>
  /\ events = [t \in Turns |-> <<>>]

(***************************************************************************)
(* asyncio.Semaphore                                                       *)
(***************************************************************************)
Holders == {t \in Turns : state[t] \in {"granted", "preparing_context", "running"}}

\* A waiter whose task is cancelled has left the queue.
Queue == {t \in Turns : state[t] = "created" /\ hits[t] = {}}

\* The waiters of Q that are served next, the first come or nobody.
First(Q) == {t \in Q : ahead[t] \cap Q = {}}

Granted == {t \in Turns : state[t] = "granted"}

\* locked() is true as well while somebody who was given a permit has not resumed:
\* who comes then queues behind him, even if another permit is free.
Locked(waiters) == waiters # {} \/ Granted # {} \/ Cardinality(Holders) = MaxActive

\* Mutant of WokenOnward: who resumes does not look who queued behind him.
NoneOnward == {}

\* The waiter that is woken by one who resumes and finds a permit free.
WokenOnward == IF Cardinality(Holders) < MaxActive THEN First(Queue) ELSE {}

(***************************************************************************)
(* Cancellation                                                            *)
(***************************************************************************)
\* CancellationToken.cancel: the first reason stays.
CancelToken(t, why) ==
  token' = [token EXCEPT ![t] = IF @ = "none" THEN why ELSE @]

\* cancel_turn: the token is cancelled for the worker thread, the task for the
\* event loop.
CancelActive(t, why) ==
  /\ CancelToken(t, why)
  /\ hits' = [hits EXCEPT ![t] = @ \cup {"cancel"}]

Emit(t, e) == events' = [events EXCEPT ![t] = Append(@, e)]

CancelTurn(t) ==
  /\ t \in active
  /\ CancelActive(t, "interrupted")
  /\ UNCHANGED <<state, sessionOf, ahead, active, sessionTurn, history, events>>

CancelSession(s) ==
  /\ sessionTurn[s] # NoTurn
  /\ CancelTurn(sessionTurn[s])

\* The caller of execute is cancelled, and the token is not.
CancelCaller(t) ==
  /\ t \in active
  /\ hits' = [hits EXCEPT ![t] = @ \cup {"cancel"}]
  /\ UNCHANGED <<state, sessionOf, token, ahead, active, sessionTurn, history, events>>

\* A processor that reads a provider's stream through SyncIteratorBridge.iterate
\* (requests/streaming.py) and leaves it before its end cancels the token that
\* the bridge shares with the turn.
CloseStream(t) ==
  /\ state[t] = "running"
  /\ CancelToken(t, "stream_consumer_closed")
  /\ UNCHANGED <<state, sessionOf, hits, ahead, active, sessionTurn, history, events>>

\* asyncio.timeout calls task.cancel().  It is entered after the semaphore.
DeadlineExpires(t) ==
  /\ state[t] \in {"preparing_context", "running"}
  /\ "deadline" \notin hits[t]
  /\ hits' = [hits EXCEPT ![t] = @ \cup {"deadline"}]
  /\ UNCHANGED <<state, sessionOf, token, ahead, active, sessionTurn, history, events>>

(***************************************************************************)
(* execute                                                                 *)
(***************************************************************************)
\* Mutant of Supersede: the older turn goes on.
LeaveOlder(s) == UNCHANGED <<token, hits>>

\* _register cancels the turn it finds for the session.
Supersede(s) ==
  IF sessionTurn[s] = NoTurn THEN UNCHANGED <<token, hits>>
  ELSE CancelActive(sessionTurn[s], "superseded_by_new_turn")

\* The call of execute, up to the semaphore or through it.
Execute(t, s) ==
  LET waiters == Queue \ {sessionTurn[s]}
  IN /\ state[t] = "none"
     /\ Supersede(s)
     /\ sessionOf' = [sessionOf EXCEPT ![t] = s]
     /\ active' = active \cup {t}
     /\ sessionTurn' = [sessionTurn EXCEPT ![s] = t]
     /\ Emit(t, "started")
     /\ state' = [state EXCEPT ![t] = IF Locked(waiters) THEN "created" ELSE "preparing_context"]
     /\ ahead' = [ahead EXCEPT ![t] = waiters]
     /\ UNCHANGED history

\* The task resumes with its permit.
EnterTurn(t) ==
  /\ state[t] = "granted" /\ hits[t] = {} /\ token[t] = "none"
  /\ state' = [u \in Turns |-> IF u = t THEN "preparing_context"
                               ELSE IF u \in WokenOnward THEN "granted" ELSE state[u]]
  /\ UNCHANGED <<sessionOf, token, hits, ahead, active, sessionTurn, history, events>>

\* prepare has returned, with whatever its budget left time for; the processor
\* is called.
ContextReady(t) ==
  /\ state[t] = "preparing_context" /\ hits[t] = {} /\ token[t] = "none"
  /\ state' = [state EXCEPT ![t] = "running"]
  /\ Emit(t, "context")
  /\ UNCHANGED <<sessionOf, token, hits, ahead, active, sessionTurn, history>>

\* Mutant of Unregister: the session's entry is dropped whoever it belongs to.
UnregisterSession(t) ==
  /\ active' = active \ {t}
  /\ sessionTurn' = [sessionTurn EXCEPT ![sessionOf[t]] = NoTurn]

\* _unregister
Unregister(t) ==
  /\ active' = active \ {t}
  /\ sessionTurn' = [s \in Sessions |-> IF sessionTurn[s] = t THEN NoTurn ELSE sessionTurn[s]]

\* Mutant of Woken: a turn that ends keeps its permit.
NoneWoken(t) == {}

\* The waiter that gets the permit which t gives back.
Woken(t) == IF t \in Holders THEN First(Queue) ELSE {}

\* Mutant of EndTurn: the snapshot for the history is taken too early.
EndTurnUnset(t, o, e) ==
  /\ state' = [u \in Turns |-> IF u = t THEN o
                               ELSE IF u \in Woken(t) THEN "granted" ELSE state[u]]
  /\ Emit(t, e)
  /\ Unregister(t)
  /\ history' = Append(IF Len(history) < HistoryLimit THEN history ELSE Tail(history),
                       [turn |-> t, state |-> state[t]])
  /\ UNCHANGED <<sessionOf, ahead>>

\* The semaphore is left, the turn takes its outcome o, says so with event e,
\* and is no longer registered.
EndTurn(t, o, e) ==
  /\ state' = [u \in Turns |-> IF u = t THEN o
                               ELSE IF u \in Woken(t) THEN "granted" ELSE state[u]]
  /\ Emit(t, e)
  /\ Unregister(t)
  /\ history' = Append(IF Len(history) < HistoryLimit THEN history ELSE Tail(history),
                       [turn |-> t, state |-> o])
  /\ UNCHANGED <<sessionOf, ahead>>

\* The processor has returned or raised.  A token cancelled meanwhile is noticed.
ProcessorReturns(t) ==
  /\ state[t] = "running" /\ hits[t] = {}
  /\ IF token[t] = "none" THEN EndTurn(t, "completed", "completed")
                          ELSE EndTurn(t, "cancelled", "cancelled")
  /\ UNCHANGED <<token, hits>>

\* A TimeoutError of its own is taken for the deadline's.
ProcessorFails(t) ==
  /\ state[t] = "running" /\ hits[t] = {}
  /\ \/ EndTurn(t, "failed", "failed") /\ UNCHANGED token
     \/ EndTurn(t, "timed_out", "failed") /\ CancelToken(t, "deadline_exceeded")
  /\ UNCHANGED hits

\* The task meets its cancellation wherever it is suspended.  asyncio.timeout
\* turns it into a TimeoutError only if nobody else has cancelled the task.
TimesOut(t) ==
  /\ state[t] \in Waiting /\ hits[t] = {"deadline"}
  /\ CancelToken(t, "deadline_exceeded")
  /\ hits' = [hits EXCEPT ![t] = {}]
  /\ EndTurn(t, "timed_out", "failed")

IsCancelled(t) ==
  /\ state[t] \in Waiting /\ "cancel" \in hits[t]
  /\ CancelToken(t, "cancelled")
  /\ hits' = [hits EXCEPT ![t] = {}]
  /\ EndTurn(t, "cancelled", "cancelled")

\* publish_event, called by a component of the turn, in any thread, at any time.
PublishEvent(t, e) ==
  /\ state[t] # "none"
  /\ Emit(t, e)
  /\ UNCHANGED <<state, sessionOf, token, hits, ahead, active, sessionTurn, history>>

\* Steps of the event loop that are sure to come once they are possible.
LoopStep(t) == EnterTurn(t) \/ DeadlineExpires(t) \/ TimesOut(t) \/ IsCancelled(t)

TurnNext ==
  \/ \E t \in Turns, s \in Sessions : Execute(t, s)
  \/ \E s \in Sessions : CancelSession(s)
  \/ \E t \in Turns :
       \/ LoopStep(t) \/ CancelTurn(t) \/ CancelCaller(t) \/ CloseStream(t)
       \/ ContextReady(t) \/ ProcessorReturns(t) \/ ProcessorFails(t)

TurnSpec == TurnInit /\ [][TurnNext]_turnVars

(***************************************************************************)
(* Properties                                                              *)
(***************************************************************************)
\* The registries hold the turns that have not ended, and for every session the
\* newest of them: no path through execute's handlers leaks a turn, and an old
\* turn that ends does not take the new one's entry with it.
Registered ==
  /\ active = {t \in Turns : state[t] \in Waiting}
  /\ \A s \in Sessions : sessionTurn[s] # NoTurn =>
       sessionTurn[s] \in active /\ sessionOf[sessionTurn[s]] = s
  /\ \A t \in active : sessionTurn[sessionOf[t]] # t => token[t] # "none"

\* No permit is lost, whether its holder completes, fails, times out or is
\* cancelled, while it runs or between being woken and resuming: as long as
\* anybody waits, either all of them are held or somebody who was given one has
\* yet to resume, and will hand the free one on.
PermitsKept ==
  /\ Cardinality(Holders) <= MaxActive
  /\ Queue # {} => Cardinality(Holders) = MaxActive \/ Granted # {}

\* A turn as its session sees it: doomed as soon as its task is cancelled.
phaseOf ==
  [t \in Turns |->
     IF state[t] \notin Waiting THEN state[t]
     ELSE IF "cancel" \in hits[t] THEN "doomed"
     ELSE "live"]

Promise == INSTANCE SessionTurns WITH phase <- phaseOf, session <- sessionOf

\* The newest turn of a session is the only one that goes on: one that has been
\* superseded or interrupted can only end cancelled, even if its processor has
\* returned or its deadline has passed, and no turn ends twice.
NewestTurnOnly == Promise!Spec

\* Every turn ends, whether it waits for the semaphore, for its context or for
\* its processor, although nothing makes a processor return.
TurnsEnd == \A t \in Turns : state[t] \in Waiting ~> state[t] \in Outcomes
================================================================================
