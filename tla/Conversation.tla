----------------------------- MODULE Conversation -----------------------------
(***************************************************************************)
(* ConversationManager of conversation/manager.py on top of the turn       *)
(* coordinator: every conversation context has a lock, a fork of the brain *)
(* engine and the last exchanges; a turn holds the lock while a thread of  *)
(* the executor runs process_input on the fork.  The thread is not stopped *)
(* with its turn: it notices the cancelled token when it has a sentence to *)
(* say, if it has one.                                                     *)
(***************************************************************************)
EXTENDS TurnCoordinator, SequencesExt

CONSTANTS
  Keys,         \* (user_id, conversation_context_id or session_id) pairs
  MaxSessions,  \* max_sessions
  KeepLimit,    \* exchanges kept per context: turns_per_session / 2
  PoolSize,     \* threads of the executor of asyncio.to_thread
  MaxSentences  \* bound: sentences a turn says

ASSUME ConversationConstantsOK ==
  /\ {MaxSessions, KeepLimit, PoolSize} \subseteq Nat \ {0}
  /\ MaxSentences \in Nat

VARIABLES
  asked,        \* asked[t]: session for which call t of respond was made
  ctx,          \* ctx[t]: its context, named by the call that created it
  sessions,     \* _sessions, least recently used first
  lockq,        \* lockq[c]: calls that hold (the first) or await c's lock
  kept,         \* kept[c]: exchanges kept in c.turns
  worker,       \* worker[t]: the thread that runs process_input for t
  saying,       \* saying[t]: event of its sentence that t's thread publishes next
  sentences     \* sentences[t]: sentences t's thread has begun

convVars == <<asked, ctx, sessions, lockq, kept, worker, saying, sentences>>

\* safe_delta publishes these for a sentence, then hands it to the voice.
SentenceEvents == <<"delta", "sentence", "tts_chunk">>

WorkerStates == {"none", "queued", "running", "returned", "raised", "stopped"}

ConvTypeOK ==
  /\ TurnTypeOK
  /\ asked \in [Turns -> Sessions \cup {NoSession}]
  /\ ctx \in [Turns -> Turns \cup {NoTurn}]
  /\ sessions \in Seq([key : Keys, ctx : Turns])
  /\ Len(sessions) <= MaxSessions
  /\ \A i, j \in DOMAIN sessions : sessions[i].key = sessions[j].key => i = j
  /\ lockq \in [Turns -> Seq(Turns)]
  /\ kept \in [Turns -> Seq(Turns)]
  /\ worker \in [Turns -> WorkerStates]
  /\ saying \in [Turns -> 0..Len(SentenceEvents)]
  /\ sentences \in [Turns -> 0..MaxSentences]

ConvInit ==
  /\ TurnInit
  /\ asked = [t \in Turns |-> NoSession]
  /\ ctx = [t \in Turns |-> NoTurn]
  /\ sessions = <<>>
  /\ lockq = [t \in Turns |-> <<>>]
  /\ kept = [t \in Turns |-> <<>>]
  /\ worker = [t \in Turns |-> "none"]
  /\ saying = [t \in Turns |-> 0]
  /\ sentences = [t \in Turns |-> 0]

(***************************************************************************)
(* Contexts                                                                *)
(***************************************************************************)
\* The places of k in _sessions: one or none.
PlacesOf(k) == {i \in DOMAIN sessions : sessions[i].key = k}

Without(k) ==
  IF PlacesOf(k) = {} THEN sessions
  ELSE RemoveAt(sessions, CHOOSE i \in PlacesOf(k) : TRUE)

\* Mutant of UseContext: nothing is dropped.
UseContextUnbounded(k, c) == sessions' = Append(Without(k), [key |-> k, ctx |-> c])

\* _context: the context of k, or a new one with a new fork, becomes the most
\* recently used; the least recently used one is dropped beyond MaxSessions,
\* in use or not.
UseContext(k, c) ==
  LET all == Append(Without(k), [key |-> k, ctx |-> c])
  IN sessions' = IF Len(all) > MaxSessions THEN Tail(all) ELSE all

ContextOf(k, t) ==
  IF PlacesOf(k) = {} THEN t
  ELSE sessions[CHOOSE i \in PlacesOf(k) : TRUE].ctx

\* release
Release(k) ==
  /\ PlacesOf(k) # {}
  /\ sessions' = Without(k)
  /\ UNCHANGED <<turnVars, asked, ctx, lockq, kept, worker, saying, sentences>>

(***************************************************************************)
(* respond                                                                 *)
(***************************************************************************)
\* Mutant of Free: the lock is not taken.
AlwaysFree(c) == TRUE

Free(c) == lockq[c] = <<>>

\* respond, up to the lock of its context or through it and into execute.
Respond(t, s, k) ==
  LET c == ContextOf(k, t)
  IN /\ asked[t] = NoSession
     /\ asked' = [asked EXCEPT ![t] = s]
     /\ ctx' = [ctx EXCEPT ![t] = c]
     /\ UseContext(k, c)
     /\ lockq' = [lockq EXCEPT ![c] = Append(@, t)]
     /\ IF Free(c) THEN Execute(t, s) ELSE UNCHANGED turnVars
     /\ UNCHANGED <<kept, worker, saying, sentences>>

\* The places of t in the line for lock c: one or none.
PlacesInLine(t, c) == {i \in DOMAIN lockq[c] : lockq[c][i] = t}

\* t holds or awaits the lock of its context.
InLine(t) == asked[t] # NoSession /\ PlacesInLine(t, ctx[t]) # {}

\* The lock has been released to t.
TakeLock(t) ==
  /\ state[t] = "none" /\ InLine(t) /\ Head(lockq[ctx[t]]) = t
  /\ Execute(t, asked[t])
  /\ UNCHANGED convVars

LeaveLock(t) ==
  lockq' = [lockq EXCEPT ![ctx[t]] =
              RemoveAt(@, CHOOSE i \in PlacesInLine(t, ctx[t]) : TRUE)]

\* The caller is cancelled before t has the lock.
GiveUp(t) ==
  /\ state[t] = "none" /\ InLine(t)
  /\ LeaveLock(t)
  /\ UNCHANGED <<turnVars, asked, ctx, sessions, kept, worker, saying, sentences>>

\* The context is ready; process_input is handed to the executor.
CallBrain(t) ==
  /\ ContextReady(t)
  /\ worker' = [worker EXCEPT ![t] = "queued"]
  /\ UNCHANGED <<asked, ctx, sessions, lockq, kept, saying, sentences>>

Keep(t) ==
  LET old == kept[ctx[t]]
  IN kept' = [kept EXCEPT ![ctx[t]] =
                Append(IF Len(old) < KeepLimit THEN old ELSE Tail(old), t)]

\* Mutant of Finish: the turn does not wait for its thread.
FinishEarly(t) ==
  /\ ProcessorReturns(t)
  /\ IF token[t] = "none" THEN Keep(t) ELSE UNCHANGED kept
  /\ LeaveLock(t)
  /\ UNCHANGED <<asked, ctx, sessions, worker, saying, sentences>>

\* The thread has returned: the turn ends, and if it completed the exchange is
\* kept.
Finish(t) ==
  /\ worker[t] = "returned"
  /\ ProcessorReturns(t)
  /\ IF token[t] = "none" THEN Keep(t) ELSE UNCHANGED kept
  /\ LeaveLock(t)
  /\ UNCHANGED <<asked, ctx, sessions, worker, saying, sentences>>

Fail(t) ==
  /\ worker[t] = "raised"
  /\ ProcessorFails(t)
  /\ LeaveLock(t)
  /\ UNCHANGED <<asked, ctx, sessions, kept, worker, saying, sentences>>

\* Mutant of CutOff: the lock is only released by a turn that ends by itself.
CutOffLocked(t) ==
  /\ TimesOut(t) \/ IsCancelled(t)
  /\ worker' = [worker EXCEPT ![t] = IF @ = "queued" THEN "none" ELSE @]
  /\ UNCHANGED <<asked, ctx, sessions, lockq, kept, saying, sentences>>

\* The turn is cut off.  A call that the executor has not begun is withdrawn; a
\* thread that runs goes on.
CutOff(t) ==
  /\ TimesOut(t) \/ IsCancelled(t)
  /\ worker' = [worker EXCEPT ![t] = IF @ = "queued" THEN "none" ELSE @]
  /\ LeaveLock(t)
  /\ UNCHANGED <<asked, ctx, sessions, kept, saying, sentences>>

(***************************************************************************)
(* The thread that runs process_input                                      *)
(***************************************************************************)
Busy == {t \in Turns : worker[t] = "running"}

ThreadStarts(t) ==
  /\ worker[t] = "queued" /\ Cardinality(Busy) < PoolSize
  /\ worker' = [worker EXCEPT ![t] = "running"]
  /\ UNCHANGED <<turnVars, asked, ctx, sessions, lockq, kept, saying, sentences>>

\* Mutant of Speak: safe_delta does not look at the token.
SpeakUnchecked(t) ==
  /\ t \in Busy /\ saying[t] = 0 /\ sentences[t] < MaxSentences
  /\ saying' = [saying EXCEPT ![t] = 1]
  /\ sentences' = [sentences EXCEPT ![t] = @ + 1]
  /\ UNCHANGED <<turnVars, asked, ctx, sessions, lockq, kept, worker>>

\* safe_delta: the token is looked at before the sentence, not after.
Speak(t) ==
  /\ t \in Busy /\ saying[t] = 0 /\ sentences[t] < MaxSentences
  /\ token[t] = "none"
  /\ saying' = [saying EXCEPT ![t] = 1]
  /\ sentences' = [sentences EXCEPT ![t] = @ + 1]
  /\ UNCHANGED <<turnVars, asked, ctx, sessions, lockq, kept, worker>>

Publish(t) ==
  /\ saying[t] # 0
  /\ PublishEvent(t, SentenceEvents[saying[t]])
  /\ saying' = [saying EXCEPT ![t] = IF @ < Len(SentenceEvents) THEN @ + 1 ELSE 0]
  /\ UNCHANGED <<asked, ctx, sessions, lockq, kept, worker, sentences>>

\* process_input returns, raises, or is stopped by raise_if_cancelled, which no
\* handler of an Exception catches.
ThreadEnds(t, how) ==
  /\ t \in Busy /\ saying[t] = 0
  /\ how = "stopped" => token[t] # "none"
  /\ worker' = [worker EXCEPT ![t] = how]
  /\ UNCHANGED <<turnVars, asked, ctx, sessions, lockq, kept, saying, sentences>>

\* process_input reads the model's stream in its own thread, so nobody closes it.
Interrupt(t) == (CancelTurn(t) \/ CancelCaller(t)) /\ UNCHANGED convVars

\* Steps of the event loop that are sure to come once they are possible.
RespondStep(t) ==
  \/ CutOff(t)
  \/ TakeLock(t)
  \/ (DeadlineExpires(t) \/ EnterTurn(t)) /\ UNCHANGED convVars

ConvNext ==
  \/ \E k \in Keys : Release(k)
  \/ \E t \in Turns :
       \/ \E s \in Sessions, k \in Keys : Respond(t, s, k)
       \/ RespondStep(t) \/ Interrupt(t) \/ GiveUp(t)
       \/ CallBrain(t) \/ Finish(t) \/ Fail(t)
       \/ ThreadStarts(t) \/ Speak(t) \/ Publish(t)
       \/ \E how \in {"returned", "raised", "stopped"} : ThreadEnds(t, how)

ConvSpec == ConvInit /\ [][ConvNext]_<<turnVars, convVars>>

\* The loop runs what is ready and its timers fire, and asyncio.Lock wakes the first
\* waiter.  Nothing is assumed of context stages, and threads need not end.
ConvFairness == \A t \in Turns : WF_<<turnVars, convVars>>(RespondStep(t))

(***************************************************************************)
(* Properties                                                              *)
(***************************************************************************)
\* Two threads work on one fork only if the turn of all but one of them has been
\* cut off: the fork's lock keeps live turns apart, not abandoned threads.
LiveTurnsApart ==
  \A t, u \in Busy :
    t # u /\ ctx[t] = ctx[u] => state[t] \notin Waiting \/ state[u] \notin Waiting

\* The exchanges a turn has been given as its history are those kept when it
\* ends: nobody else adds to its context meanwhile, not even a turn of the same
\* session in a context that was evicted and created anew.
HistoryStaysCurrent ==
  [][\A t \in Turns :
       state[t] \in Waiting /\ state'[t] \in Waiting =>
         kept'[ctx[t]] = kept[ctx[t]]]_<<turnVars, convVars>>

\* The events of a turn that completed are: started, context, whole sentences,
\* completed, and nothing after that.
CompletedTold ==
  \A t \in Turns :
    state[t] = "completed" =>
      /\ Len(events[t]) = 3 + Len(SentenceEvents) * sentences[t]
      /\ events[t][Len(events[t])] = "completed"

\* A turn that was cut off says at most one more sentence: the one its thread had
\* begun, having looked at the token, when the token was cancelled.
OneSentenceMore ==
  \A t \in Turns : \A i \in DOMAIN events[t] :
    events[t][i] \in FinalEvents => Len(events[t]) <= i + Len(SentenceEvents)

\* Every call of respond returns, although neither process_input nor the calls
\* before it in the same conversation need ever return by themselves.
EveryCallReturns == \A t \in Turns : InLine(t) ~> ~InLine(t)
================================================================================
