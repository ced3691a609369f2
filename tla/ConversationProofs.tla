--------------------------- MODULE ConversationProofs ---------------------------
(***************************************************************************)
(* For any number of calls, sessions, contexts and threads: the lock of a  *)
(* context keeps its live turns and their history apart, a turn that has   *)
(* completed has been told in full, and one that was cut off says at most  *)
(* one sentence more.                                                      *)
(***************************************************************************)
EXTENDS Conversation, TurnCoordinatorProofs, SequenceTheorems

\* _sessions as ConvTypeOK has it.
SessionsOK ==
  /\ sessions \in Seq([key : Keys, ctx : Turns])
  /\ Len(sessions) <= MaxSessions
  /\ \A i, j \in DOMAIN sessions : sessions[i].key = sessions[j].key => i = j

\* The other variables as ConvTypeOK has them.
CallTypes ==
  /\ asked \in [Turns -> Sessions \cup {NoSession}]
  /\ ctx \in [Turns -> Turns \cup {NoTurn}]
  /\ lockq \in [Turns -> Seq(Turns)]
  /\ kept \in [Turns -> Seq(Turns)]
  /\ worker \in [Turns -> WorkerStates]
  /\ saying \in [Turns -> 0..3]
  /\ sentences \in [Turns -> 0..MaxSentences]

\* A turn that has been started and has not ended is first in the line for the
\* lock of its context; a call that has not been made has not started a turn.
LockHeld ==
  /\ \A t \in Turns : asked[t] = NoSession => state[t] = "none"
  /\ \A t \in Turns : asked[t] # NoSession => ctx[t] \in Turns
  /\ \A t \in Turns :
       state[t] \in Waiting => lockq[ctx[t]] # <<>> /\ lockq[ctx[t]][1] = t

\* The thread of a turn exists from the moment its context is ready, says nothing
\* before it runs or after it has ended, and has a cancelled token if it goes on
\* after the turn.
ThreadRight(t) ==
  /\ state[t] \in {"none", "created", "granted", "preparing_context"} =>
       worker[t] = "none" /\ sentences[t] = 0
  /\ state[t] = "running" => worker[t] # "none"
  /\ worker[t] = "queued" => state[t] = "running" /\ sentences[t] = 0
  /\ saying[t] # 0 => worker[t] = "running" /\ sentences[t] # 0
  /\ state[t] \in Outcomes /\ worker[t] = "running" => token[t] # "none"
  /\ state[t] = "completed" => worker[t] = "returned"

\* Events of its sentence that the thread of t has still to publish.
Rest(t) == IF saying[t] = 0 THEN 0 ELSE 4 - saying[t]

\* What has been published of a turn: before it ends, what it has got to and the
\* sentences its thread has begun, less what is left of the last; after it has
\* ended, no more than a sentence, what is left of it included.
ToldRight(t) ==
  /\ state[t] = "none" => events[t] = <<>>
  /\ state[t] \in {"created", "granted", "preparing_context"} => Len(events[t]) = 1
  /\ state[t] = "running" => Len(events[t]) + Rest(t) = 2 + 3 * sentences[t]
  /\ state[t] = "completed" =>
       /\ Len(events[t]) = 3 + 3 * sentences[t]
       /\ events[t][Len(events[t])] = "completed"
  /\ \A i \in 1..Len(events[t]) :
       events[t][i] \in FinalEvents =>
         state[t] \in Outcomes /\ Len(events[t]) + Rest(t) <= i + 3

ConvInv ==
  /\ TurnInv /\ SessionsOK /\ CallTypes /\ LockHeld
  /\ \A t \in Turns : ThreadRight(t) /\ ToldRight(t)

\* What a turn u sees of a step of another turn: it may be given its permit or
\* be cancelled.
Seen(u) ==
  /\ state'[u] = state[u] \/ (state[u] = "created" /\ state'[u] = "granted")
  /\ events'[u] = events[u]
  /\ token[u] # "none" => token'[u] # "none"

(***************************************************************************)
(* Sequences                                                               *)
(***************************************************************************)
\* RemoveAt moves what is behind p one place forward.
LEMMA RemoveAtFacts ==
  ASSUME NEW S, NEW q \in Seq(S), NEW p \in 1..Len(q)
  PROVE /\ RemoveAt(q, p) \in Seq(S)
        /\ Len(RemoveAt(q, p)) = Len(q) - 1
        /\ \A i \in 1..Len(q)-1 : RemoveAt(q, p)[i] = q[IF i < p THEN i ELSE i + 1]
<1> DEFINE a == SubSeq(q, 1, p-1)
           b == SubSeq(q, p+1, Len(q))
           r == a \o b
<1>1. a \in Seq(S) /\ Len(a) = p - 1 /\ \A i \in 1..p-1 : a[i] = q[i]
  OBVIOUS
<1>2. b \in Seq(S) /\ Len(b) = Len(q) - p /\ \A i \in 1..Len(q)-p : b[i] = q[p+i]
  OBVIOUS
<1>3. RemoveAt(q, p) = r
  BY DEF RemoveAt
<1> HIDE DEF a, b
<1>4. /\ r \in Seq(S) /\ Len(r) = Len(a) + Len(b)
      /\ \A i \in 1..Len(a) + Len(b) : r[i] = IF i <= Len(a) THEN a[i] ELSE b[i - Len(a)]
  BY <1>1, <1>2, ConcatProperties
<1> HIDE DEF r
<1>5. r \in Seq(S) /\ Len(r) = Len(q) - 1
  BY <1>1, <1>2, <1>4
<1>6. ASSUME NEW i \in 1..Len(q)-1 PROVE r[i] = q[IF i < p THEN i ELSE i + 1]
  <2>1. r[i] = IF i <= p - 1 THEN a[i] ELSE b[i - (p - 1)]
    BY <1>1, <1>2, <1>4
  <2>2. CASE i < p
    BY <1>1, <2>1, <2>2
  <2>3. CASE ~(i < p)
    <3>1. i - (p - 1) \in 1..Len(q) - p /\ p + (i - (p - 1)) = i + 1
      BY <2>3
    <3>2. r[i] = b[i - (p - 1)]
      BY <2>1, <2>3
    <3> QED
      BY <1>2, <2>3, <3>1, <3>2
  <2> QED
    BY <2>2, <2>3
<1> QED
  BY <1>3, <1>5, <1>6

\* Append leaves what was there in its place.
LEMMA AppendFacts ==
  ASSUME NEW S, NEW q \in Seq(S), NEW e \in S
  PROVE  /\ Append(q, e) \in Seq(S) /\ Append(q, e) # <<>>
         /\ Len(Append(q, e)) = Len(q) + 1
         /\ \A i \in 1..Len(q) : Append(q, e)[i] = q[i]
         /\ Append(q, e)[Len(q) + 1] = e
  OBVIOUS

\* Tail moves everything one place forward.
LEMMA TailFacts ==
  ASSUME NEW S, NEW q \in Seq(S), q # <<>>
  PROVE  /\ Tail(q) \in Seq(S) /\ Len(Tail(q)) = Len(q) - 1
         /\ \A i \in 1..Len(q)-1 : Tail(q)[i] = q[i + 1]
  OBVIOUS

(***************************************************************************)
(* Contexts                                                                *)
(***************************************************************************)
\* Taking the context of k out of _sessions.
LEMMA WithoutFacts ==
  ASSUME SessionsOK, NEW k \in Keys
  PROVE  /\ Without(k) \in Seq([key : Keys, ctx : Turns])
         /\ Len(Without(k)) <= Len(sessions)
         /\ \A i, j \in 1..Len(Without(k)) : Without(k)[i].key = Without(k)[j].key => i = j
         /\ \A i \in 1..Len(Without(k)) : Without(k)[i].key # k
<1> DEFINE E == [key : Keys, ctx : Turns]
           w == Without(k)
<1>1. sessions \in Seq(E) /\ DOMAIN sessions = 1..Len(sessions) /\ Len(sessions) \in Nat
  BY DEF SessionsOK
<1>2. \A i, j \in 1..Len(sessions) : sessions[i].key = sessions[j].key => i = j
  BY <1>1 DEF SessionsOK
<1>3. CASE PlacesOf(k) = {}
  <2>1. w = sessions
    BY <1>3 DEF Without
  <2>2. \A i \in 1..Len(sessions) : sessions[i].key # k
    BY <1>1, <1>3 DEF PlacesOf
  <2> HIDE DEF w, E
  <2>3. w \in Seq(E) /\ Len(w) <= Len(sessions)
    BY <1>1, <2>1
  <2>4. /\ \A i, j \in 1..Len(w) : w[i].key = w[j].key => i = j
        /\ \A i \in 1..Len(w) : w[i].key # k
    BY <1>2, <2>1, <2>2
  <2> QED
    BY <2>3, <2>4 DEF w, E
<1>4. CASE PlacesOf(k) # {}
  <2>1. PICK p \in PlacesOf(k) : w = RemoveAt(sessions, p)
    BY <1>4 DEF Without
  <2>2. p \in 1..Len(sessions) /\ sessions[p].key = k
    BY <2>1, <1>1 DEF PlacesOf
  <2> HIDE DEF w, E
  <2>3. /\ w \in Seq(E) /\ Len(w) = Len(sessions) - 1
        /\ \A i \in 1..Len(sessions)-1 : w[i] = sessions[IF i < p THEN i ELSE i + 1]
    BY <1>1, <2>1, <2>2, RemoveAtFacts
  <2> DEFINE at(i) == IF i < p THEN i ELSE i + 1
  <2>4. \A i \in 1..Len(w) : at(i) \in 1..Len(sessions) /\ at(i) # p /\ w[i] = sessions[at(i)]
    BY <1>1, <2>2, <2>3
  <2>5. \A i, j \in 1..Len(w) : at(i) = at(j) => i = j
    BY <1>1, <2>2, <2>3
  <2> HIDE DEF at
  <2>6. \A i, j \in 1..Len(w) : w[i].key = w[j].key => i = j
    BY <1>2, <2>4, <2>5
  <2>7. \A i \in 1..Len(w) : w[i].key # k
    BY <1>2, <2>2, <2>4
  <2>8. Len(w) <= Len(sessions)
    BY <1>1, <2>3
  <2> QED
    BY <2>3, <2>6, <2>7, <2>8 DEF w, E
<1> QED
  BY <1>3, <1>4

\* The context of a call is one that some call has created.
LEMMA ContextType ==
  ASSUME SessionsOK, NEW k \in Keys, NEW t \in Turns
  PROVE  ContextOf(k, t) \in Turns
<1>1. CASE PlacesOf(k) = {}
  BY <1>1 DEF ContextOf
<1>2. CASE PlacesOf(k) # {}
  <2>1. PICK p \in PlacesOf(k) : ContextOf(k, t) = sessions[p].ctx
    BY <1>2 DEF ContextOf
  <2> DEFINE E == [key : Keys, ctx : Turns]
  <2>2. sessions \in Seq(E) /\ p \in DOMAIN sessions
    BY <2>1 DEF PlacesOf, SessionsOK
  <2>3. sessions[p] \in E
    <3> HIDE DEF E
    <3> QED
      BY <2>2
  <2> QED
    BY <2>1, <2>3
<1> QED
  BY <1>1, <1>2

\* Using a context keeps at most MaxSessions of them, one of each key.
LEMMA UseContextFacts ==
  ASSUME SessionsOK, NEW k \in Keys, NEW c \in Turns, UseContext(k, c)
  PROVE  SessionsOK'
<1> DEFINE E   == [key : Keys, ctx : Turns]
           new == [key |-> k, ctx |-> c]
           w   == Without(k)
           all == Append(w, new)
<1>1. /\ w \in Seq(E) /\ Len(w) <= MaxSessions
      /\ \A i, j \in 1..Len(w) : w[i].key = w[j].key => i = j
      /\ \A i \in 1..Len(w) : w[i].key # k
  <2>1. Len(sessions) \in Nat /\ Len(sessions) <= MaxSessions /\ MaxSessions \in Nat
    BY ConversationConstantsOK DEF SessionsOK
  <2>2. /\ w \in Seq(E) /\ Len(w) <= Len(sessions)
        /\ \A i, j \in 1..Len(w) : w[i].key = w[j].key => i = j
        /\ \A i \in 1..Len(w) : w[i].key # k
    BY WithoutFacts
  <2> HIDE DEF w, E
  <2>3. Len(w) \in Nat
    BY <2>2
  <2> QED
    BY <2>1, <2>2, <2>3
<1>2. new \in E /\ new.key = k
  OBVIOUS
<1>3. sessions' = IF Len(all) > MaxSessions THEN Tail(all) ELSE all
  BY DEF UseContext
<1> HIDE DEF E, new, w
<1>4. /\ all \in Seq(E) /\ all # <<>> /\ Len(all) = Len(w) + 1
      /\ \A i \in 1..Len(w) : all[i] = w[i]
      /\ all[Len(w) + 1] = new
  BY <1>1, <1>2, AppendFacts
<1> HIDE DEF all
<1>5. Len(w) \in Nat /\ Len(all) \in Nat /\ MaxSessions \in Nat \ {0}
  BY <1>1, <1>4, ConversationConstantsOK
<1>6. \A i, j \in 1..Len(all) : all[i].key = all[j].key => i = j
  BY <1>1, <1>2, <1>4, <1>5
<1>7. CASE Len(all) > MaxSessions
  <2>1. sessions' = Tail(all)
    BY <1>3, <1>7
  <2>2. /\ sessions' \in Seq(E) /\ Len(sessions') = Len(all) - 1
        /\ \A i \in 1..Len(all)-1 : sessions'[i] = all[i + 1]
    BY <1>4, <2>1, TailFacts
  <2>3. Len(sessions') <= MaxSessions /\ DOMAIN sessions' = 1..Len(all)-1
    BY <1>1, <1>4, <1>5, <2>2
  <2>4. ASSUME NEW i \in 1..Len(all)-1, NEW j \in 1..Len(all)-1,
               sessions'[i].key = sessions'[j].key
        PROVE  i = j
    <3>1. i + 1 \in 1..Len(all) /\ j + 1 \in 1..Len(all)
      BY <1>5
    <3>2. all[i + 1].key = all[j + 1].key
      BY <2>2, <2>4
    <3>3. i + 1 = j + 1
      BY <1>6, <3>1, <3>2
    <3> QED
      BY <3>3
  <2> QED
    BY <2>2, <2>3, <2>4 DEF SessionsOK, E
<1>8. CASE ~(Len(all) > MaxSessions)
  <2>1. sessions' = all
    BY <1>3, <1>8
  <2>2. DOMAIN all = 1..Len(all)
    BY <1>4
  <2>3. Len(all) <= MaxSessions
    BY <1>5, <1>8
  <2> QED
    BY <1>4, <1>6, <2>1, <2>2, <2>3 DEF SessionsOK, E
<1> QED
  BY <1>7, <1>8

(***************************************************************************)
(* The coordinator below the conversations                                 *)
(***************************************************************************)
\* A component of a turn has published one of its events.
Published == \E t \in Turns, e \in EventTypes : PublishEvent(t, e)

\* Whatever the conversations do is a step of the coordinator, an event that is
\* published, or nothing to the coordinator.
LEMMA CoordinatorStep ==
  ASSUME CallTypes, [ConvNext]_<<turnVars, convVars>>
  PROVE  [TurnNext]_turnVars \/ Published
<1>1. ASSUME NEW t \in Turns, NEW s \in Sessions, NEW k \in Keys, Respond(t, s, k)
      PROVE  [TurnNext]_turnVars
  <2>1. Execute(t, s) \/ UNCHANGED turnVars
    BY <1>1 DEF Respond
  <2> QED
    BY <2>1 DEF TurnNext
<1>2. ASSUME NEW t \in Turns, TakeLock(t) PROVE TurnNext
  <2>1. asked[t] \in Sessions /\ Execute(t, asked[t])
    BY <1>2 DEF TakeLock, InLine, CallTypes
  <2> QED
    BY <2>1 DEF TurnNext
<1>3. ASSUME NEW t \in Turns, RespondStep(t), ~TakeLock(t) PROVE TurnNext
  <2>1. LoopStep(t)
    BY <1>3 DEF RespondStep, CutOff, LoopStep
  <2> QED
    BY <2>1 DEF TurnNext
<1>4. ASSUME NEW t \in Turns, Interrupt(t) \/ CallBrain(t) \/ Finish(t) \/ Fail(t)
      PROVE  TurnNext
  <2>1. \/ CancelTurn(t) \/ CancelCaller(t) \/ ContextReady(t)
        \/ ProcessorReturns(t) \/ ProcessorFails(t)
    BY <1>4 DEF Interrupt, CallBrain, Finish, Fail
  <2> QED
    BY <2>1 DEF TurnNext
<1>5. ASSUME NEW t \in Turns, Publish(t) PROVE Published
  <2>1. saying[t] \in 1..3 /\ PublishEvent(t, SentenceEvents[saying[t]])
    BY <1>5 DEF Publish, CallTypes
  <2>2. SentenceEvents[saying[t]] \in EventTypes
    BY <2>1 DEF SentenceEvents, EventTypes
  <2> QED
    BY <2>1, <2>2 DEF Published
<1>6. ASSUME NEW t \in Turns,
             GiveUp(t) \/ ThreadStarts(t) \/ Speak(t)
               \/ \E how \in {"returned", "raised", "stopped"} : ThreadEnds(t, how)
      PROVE  UNCHANGED turnVars
  BY <1>6 DEF GiveUp, ThreadStarts, Speak, ThreadEnds
<1>7. ASSUME NEW k \in Keys, Release(k) PROVE UNCHANGED turnVars
  BY <1>7 DEF Release
<1>8. CASE UNCHANGED <<turnVars, convVars>>
  BY <1>8
<1> QED
  BY <1>1, <1>2, <1>3, <1>4, <1>5, <1>6, <1>7, <1>8 DEF ConvNext

\* An event that is published changes nothing that the coordinator decides by.
LEMMA PublishedKeeps ==
  ASSUME TurnInv, Published
  PROVE  TurnInv' /\ (PermitInv => PermitInv') /\ PromiseStep
<1>1. PICK t \in Turns, e \in EventTypes : PublishEvent(t, e)
  BY DEF Published
<1>2. events' \in [Turns -> Seq(EventTypes)]
  BY <1>1, EmitType DEF PublishEvent, TurnInv
<1>3. UNCHANGED <<state, sessionOf, token, hits, ahead, active, sessionTurn, history>>
  BY <1>1 DEF PublishEvent
<1>4. TurnInv'
  BY <1>2, <1>3 DEF TurnInv, TurnTypeOK, ActiveTurns, SessionEntries
<1>5. PermitInv => PermitInv'
  <2>1. Holders' = Holders /\ Granted' = Granted /\ Queue' \subseteq Queue
    BY <1>3 DEF Holders, Granted, Queue
  <2>2. \A u \in Turns : state'[u] = "none" => state[u] = "none"
    BY <1>3
  <2> QED
    BY <1>3, <2>1, <2>2, HoldersKept
<1>6. PromiseStep
  <2>1. phaseOf' = phaseOf /\ UNCHANGED sessionOf
    BY <1>3 DEF phaseOf
  <2> QED
    BY <2>1, QuietStep
<1> QED
  BY <1>4, <1>5, <1>6

(***************************************************************************)
(* What a step leaves alone                                                *)
(***************************************************************************)
\* A turn that only sees a step of another keeps what is right about it.
LEMMA SeenKeeps ==
  ASSUME NEW u \in Turns, ThreadRight(u), ToldRight(u), Seen(u),
         worker'[u] = worker[u], saying'[u] = saying[u], sentences'[u] = sentences[u]
  PROVE  ThreadRight(u)' /\ ToldRight(u)'
<1>1. ThreadRight(u)'
  BY DEF ThreadRight, Seen, Outcomes
<1>2. ToldRight(u)'
  BY DEF ToldRight, Rest, Seen, Outcomes
<1> QED
  BY <1>1, <1>2

\* A step of t: what remains to be shown is what it does to t, to the line for
\* the lock and to the types.
LEMMA StepOfTurn ==
  ASSUME ConvInv, NEW t \in Turns,
         TurnInv', SessionsOK', CallTypes', LockHeld', ThreadRight(t)', ToldRight(t)',
         \A u \in Turns \ {t} : /\ Seen(u)
                                /\ worker'[u] = worker[u] /\ saying'[u] = saying[u]
                                /\ sentences'[u] = sentences[u]
  PROVE  ConvInv'
<1>1. ASSUME NEW u \in Turns PROVE ThreadRight(u)' /\ ToldRight(u)'
  <2>1. CASE u = t
    BY <2>1
  <2>2. CASE u # t
    <3>1. ThreadRight(u) /\ ToldRight(u)
      BY DEF ConvInv
    <3> QED
      BY <2>2, <3>1, SeenKeeps
  <2> QED
    BY <2>1, <2>2
<1> QED
  BY <1>1 DEF ConvInv

\* The lock stays with whoever holds it as long as nobody starts or leaves.
LEMMA LocksKept ==
  ASSUME LockHeld, UNCHANGED <<asked, ctx, lockq>>,
         \A u \in Turns : /\ state[u] = "none" => state'[u] = "none"
                          /\ state'[u] \in Waiting => state[u] \in Waiting
  PROVE  LockHeld'
  BY DEF LockHeld

\* A step that every turn only sees.
LEMMA QuietConv ==
  ASSUME ConvInv, TurnInv', SessionsOK', \A u \in Turns : Seen(u),
         UNCHANGED <<asked, ctx, lockq, kept, worker, saying, sentences>>
  PROVE  ConvInv'
<1>1. CallTypes'
  BY DEF ConvInv, CallTypes
<1>2. LockHeld'
  <2>1. \A u \in Turns : /\ state[u] = "none" => state'[u] = "none"
                         /\ state'[u] \in Waiting => state[u] \in Waiting
    BY DEF Seen, Waiting
  <2> QED
    BY <2>1, LocksKept DEF ConvInv
<1>3. \A u \in Turns : ThreadRight(u)' /\ ToldRight(u)'
  BY SeenKeeps DEF ConvInv
<1> QED
  BY <1>1, <1>2, <1>3 DEF ConvInv

\* A call that leaves the line leaves the lock with its holder.
LEMMA LeaveFacts ==
  ASSUME CallTypes, NEW t \in Turns, ctx[t] \in Turns, PlacesInLine(t, ctx[t]) # {},
         LeaveLock(t)
  PROVE  /\ lockq' \in [Turns -> Seq(Turns)]
         /\ \A c \in Turns \ {ctx[t]} : lockq'[c] = lockq[c]
         /\ \A u \in Turns \ {t} :
              lockq[ctx[t]] # <<>> /\ lockq[ctx[t]][1] = u =>
                lockq'[ctx[t]] # <<>> /\ lockq'[ctx[t]][1] = u
<1> DEFINE c == ctx[t]
           q == lockq[c]
<1>1. q \in Seq(Turns)
  BY DEF CallTypes
<1>2. PICK p \in PlacesInLine(t, c) : lockq' = [lockq EXCEPT ![c] = RemoveAt(q, p)]
  BY DEF LeaveLock
<1>3. p \in DOMAIN q /\ q[p] = t
  BY <1>2 DEF PlacesInLine
<1>4. lockq \in [Turns -> Seq(Turns)] /\ c \in Turns
  BY DEF CallTypes
<1> HIDE DEF q, c
<1>5. p \in 1..Len(q)
  BY <1>1, <1>3
<1>6. /\ RemoveAt(q, p) \in Seq(Turns) /\ Len(RemoveAt(q, p)) = Len(q) - 1
      /\ \A i \in 1..Len(q)-1 : RemoveAt(q, p)[i] = q[IF i < p THEN i ELSE i + 1]
  BY <1>1, <1>5, RemoveAtFacts
<1> DEFINE r == RemoveAt(q, p)
<1> HIDE DEF r
<1>7. ASSUME NEW u \in Turns \ {t}, q # <<>>, q[1] = u PROVE r # <<>> /\ r[1] = u
  <2>1. p # 1 /\ p \in Nat /\ Len(q) \in Nat
    BY <1>1, <1>3, <1>5, <1>7
  <2>2. 1 < p /\ 1 \in 1..Len(q)-1
    BY <2>1, <1>5
  <2>3. r \in Seq(Turns) /\ Len(r) = Len(q) - 1 /\ r[1] = q[1]
    BY <1>6, <2>2 DEF r
  <2>4. r # <<>>
    BY <2>1, <2>2, <2>3
  <2> QED
    BY <2>3, <2>4, <1>7
<1>8. lockq' = [lockq EXCEPT ![c] = r] /\ r \in Seq(Turns)
  BY <1>2, <1>6 DEF r
<1> QED
  BY <1>4, <1>7, <1>8 DEF c, q

\* So does a call that leaves the line when its turn has ended or has not begun.
LEMMA LeaveKeepsLocks ==
  ASSUME CallTypes, LockHeld, NEW t \in Turns, asked[t] # NoSession,
         PlacesInLine(t, ctx[t]) # {}, LeaveLock(t), UNCHANGED <<asked, ctx>>,
         state'[t] \notin Waiting, \A u \in Turns \ {t} : Seen(u)
  PROVE  LockHeld' /\ lockq' \in [Turns -> Seq(Turns)]
<1>1. ctx[t] \in Turns
  BY DEF LockHeld
<1>2. /\ lockq' \in [Turns -> Seq(Turns)]
      /\ \A c \in Turns \ {ctx[t]} : lockq'[c] = lockq[c]
      /\ \A u \in Turns \ {t} :
           lockq[ctx[t]] # <<>> /\ lockq[ctx[t]][1] = u =>
             lockq'[ctx[t]] # <<>> /\ lockq'[ctx[t]][1] = u
  BY <1>1, LeaveFacts
<1>3. \A u \in Turns : asked'[u] = NoSession => state'[u] = "none"
  BY DEF LockHeld, Seen
<1>4. \A u \in Turns : asked'[u] # NoSession => ctx'[u] \in Turns
  BY DEF LockHeld
<1>5. ASSUME NEW u \in Turns, state'[u] \in Waiting
      PROVE  lockq'[ctx'[u]] # <<>> /\ lockq'[ctx'[u]][1] = u
  <2>1. u # t /\ state[u] \in Waiting
    BY <1>5 DEF Seen, Waiting
  <2>2. lockq[ctx[u]] # <<>> /\ lockq[ctx[u]][1] = u /\ ctx[u] \in Turns
    BY <2>1 DEF LockHeld, Waiting
  <2>3. CASE ctx[u] = ctx[t]
    BY <1>2, <2>1, <2>2, <2>3
  <2>4. CASE ctx[u] # ctx[t]
    BY <1>2, <2>2, <2>4
  <2> QED
    BY <2>3, <2>4
<1> QED
  BY <1>2, <1>3, <1>4, <1>5 DEF LockHeld

(***************************************************************************)
(* A turn starts                                                           *)
(***************************************************************************)
LEMMA StartFacts ==
  ASSUME ConvInv, NEW t \in Turns, NEW s \in Sessions, Execute(t, s),
         UNCHANGED <<worker, saying, sentences>>
  PROVE  /\ ThreadRight(t)' /\ ToldRight(t)'
         /\ state[t] = "none" /\ state'[t] \in Waiting
         /\ \A u \in Turns \ {t} : Seen(u) /\ state'[u] = state[u]
<1>1. /\ state \in [Turns -> {"none"} \cup Waiting \cup Outcomes]
      /\ events \in [Turns -> Seq(EventTypes)]
  BY DEF ConvInv, TurnInv, TurnTypeOK
<1>2. PICK new \in {"preparing_context", "created"} : state' = [state EXCEPT ![t] = new]
  BY DEF Execute
<1>3. state[t] = "none" /\ events' = [events EXCEPT ![t] = Append(@, "started")]
  BY DEF Execute, Emit
<1>4. \A u \in Turns : token[u] # "none" => token'[u] # "none"
  <2>1. Supersede(s)
    BY DEF Execute
  <2> QED
    BY <2>1, <1>3, SupersedeFacts DEF ConvInv
<1>5. \A u \in Turns \ {t} : Seen(u) /\ state'[u] = state[u]
  BY <1>1, <1>2, <1>3, <1>4 DEF Seen
<1>6. ThreadRight(t) /\ ToldRight(t)
  BY DEF ConvInv
<1>7. state'[t] = new
  BY <1>1, <1>2
<1>8. ThreadRight(t)'
  BY <1>3, <1>6, <1>7 DEF ThreadRight, Outcomes
<1>9. ToldRight(t)'
  <2>1. events[t] = <<>> /\ events'[t] = Append(events[t], "started")
    BY <1>1, <1>3, <1>6 DEF ToldRight
  <2>2. Len(events'[t]) = 1 /\ events'[t][1] = "started"
    BY <2>1
  <2>3. \A i \in 1..Len(events'[t]) : events'[t][i] \notin FinalEvents
    BY <2>2 DEF FinalEvents
  <2> QED
    BY <1>7, <2>2, <2>3 DEF ToldRight, Outcomes
<1> QED
  BY <1>3, <1>5, <1>7, <1>8, <1>9 DEF Waiting

LEMMA TakeLockKeeps ==
  ASSUME ConvInv, TurnInv', NEW t \in Turns, TakeLock(t)
  PROVE  ConvInv'
<1>1. /\ asked[t] \in Sessions /\ asked[t] # NoSession /\ Execute(t, asked[t])
      /\ PlacesInLine(t, ctx[t]) # {} /\ Head(lockq[ctx[t]]) = t
      /\ UNCHANGED convVars
  BY DEF TakeLock, InLine, ConvInv, CallTypes
<1>2. UNCHANGED <<asked, ctx, lockq, sessions, kept, worker, saying, sentences>>
  BY <1>1 DEF convVars
<1>3. /\ ThreadRight(t)' /\ ToldRight(t)'
      /\ state[t] = "none" /\ state'[t] \in Waiting
      /\ \A u \in Turns \ {t} : Seen(u) /\ state'[u] = state[u]
  BY <1>1, <1>2, StartFacts
<1>4. SessionsOK' /\ CallTypes'
  BY <1>2 DEF ConvInv, SessionsOK, CallTypes
<1>5. lockq[ctx[t]] # <<>> /\ lockq[ctx[t]][1] = t
  <2>1. ctx[t] \in Turns /\ lockq[ctx[t]] \in Seq(Turns)
    BY <1>1 DEF ConvInv, LockHeld, CallTypes
  <2>2. lockq[ctx[t]] # <<>>
    BY <1>1, <2>1 DEF PlacesInLine
  <2> QED
    BY <1>1, <2>1, <2>2
<1>6. LockHeld'
  BY <1>1, <1>2, <1>3, <1>5 DEF ConvInv, LockHeld
<1> QED
  BY <1>2, <1>3, <1>4, <1>6, StepOfTurn

LEMMA RespondKeeps ==
  ASSUME ConvInv, TurnInv', NEW t \in Turns, NEW s \in Sessions, NEW k \in Keys,
         Respond(t, s, k)
  PROVE  ConvInv'
<1> DEFINE c == ContextOf(k, t)
<1>1. /\ asked[t] = NoSession /\ state[t] = "none"
      /\ asked' = [asked EXCEPT ![t] = s] /\ ctx' = [ctx EXCEPT ![t] = c]
      /\ UseContext(k, c)
      /\ lockq' = [lockq EXCEPT ![c] = Append(@, t)]
      /\ UNCHANGED <<kept, worker, saying, sentences>>
  BY DEF Respond, ConvInv, LockHeld
<1>2. c \in Turns
  BY ContextType DEF ConvInv
<1>3. SessionsOK'
  BY <1>1, <1>2, UseContextFacts DEF ConvInv
<1>4. \/ lockq[c] = <<>> /\ Execute(t, s)
      \/ lockq[c] # <<>> /\ UNCHANGED turnVars
  BY DEF Respond, Free
<1> HIDE DEF c
<1>5. /\ asked \in [Turns -> Sessions \cup {NoSession}] /\ ctx \in [Turns -> Turns \cup {NoTurn}]
      /\ lockq \in [Turns -> Seq(Turns)] /\ lockq[c] \in Seq(Turns)
  BY <1>2 DEF ConvInv, CallTypes
<1>6. /\ Append(lockq[c], t) \in Seq(Turns) /\ Append(lockq[c], t) # <<>>
      /\ lockq[c] = <<>> => Append(lockq[c], t)[1] = t
      /\ lockq[c] # <<>> => Append(lockq[c], t)[1] = lockq[c][1]
  <2> DEFINE q == lockq[c]
  <2>1. q \in Seq(Turns)
    BY <1>5
  <2> HIDE DEF q
  <2>2. /\ q = <<>> => Len(q) = 0
        /\ q # <<>> => 1 \in 1..Len(q)
    BY <2>1
  <2>3. /\ Append(q, t) \in Seq(Turns) /\ Append(q, t) # <<>>
        /\ \A i \in 1..Len(q) : Append(q, t)[i] = q[i]
        /\ Append(q, t)[Len(q) + 1] = t
    BY <2>1, AppendFacts
  <2> QED
    BY <2>2, <2>3 DEF q
<1>7. CallTypes'
  BY <1>1, <1>2, <1>5, <1>6 DEF ConvInv, CallTypes
<1>8. \A u \in Turns :
        /\ asked'[u] = IF u = t THEN s ELSE asked[u]
        /\ ctx'[u] = IF u = t THEN c ELSE ctx[u]
        /\ lockq'[u] = IF u = c THEN Append(lockq[c], t) ELSE lockq[u]
  BY <1>1, <1>5
<1>9. ASSUME NEW u \in Turns \ {t}, state'[u] = state[u], state'[u] \in Waiting
      PROVE  lockq'[ctx'[u]] # <<>> /\ lockq'[ctx'[u]][1] = u
  <2>1. /\ lockq[ctx[u]] # <<>> /\ lockq[ctx[u]][1] = u /\ ctx[u] \in Turns
        /\ ctx'[u] = ctx[u]
    BY <1>8, <1>9 DEF ConvInv, LockHeld, Waiting
  <2>2. CASE ctx[u] = c
    BY <1>6, <1>8, <2>1, <2>2
  <2>3. CASE ctx[u] # c
    BY <1>8, <2>1, <2>3
  <2> QED
    BY <2>2, <2>3
<1>10. s # NoSession
  BY TurnConstantsOK
<1>11. CASE lockq[c] = <<>> /\ Execute(t, s)
  <2>1. /\ ThreadRight(t)' /\ ToldRight(t)'
        /\ state'[t] \in Waiting
        /\ \A u \in Turns \ {t} : Seen(u) /\ state'[u] = state[u]
    BY <1>1, <1>11, StartFacts
  <2>2. lockq'[ctx'[t]] # <<>> /\ lockq'[ctx'[t]][1] = t
    BY <1>2, <1>6, <1>8, <1>11
  <2>3. \A u \in Turns : state'[u] \in Waiting =>
          lockq'[ctx'[u]] # <<>> /\ lockq'[ctx'[u]][1] = u
    BY <1>9, <2>1, <2>2
  <2>4. \A u \in Turns : /\ asked'[u] = NoSession => state'[u] = "none"
                         /\ asked'[u] # NoSession => ctx'[u] \in Turns
    BY <1>2, <1>8, <1>10, <2>1 DEF ConvInv, LockHeld
  <2>5. LockHeld'
    BY <2>3, <2>4 DEF LockHeld
  <2> QED
    BY <1>1, <1>3, <1>7, <2>1, <2>5, StepOfTurn
<1>12. CASE lockq[c] # <<>> /\ UNCHANGED turnVars
  <2>1. UNCHANGED <<state, events, token>>
    BY <1>12 DEF turnVars
  <2>2. \A u \in Turns : Seen(u) /\ state'[u] = state[u]
    BY <2>1 DEF Seen
  <2>3. \A u \in Turns : state'[u] \in Waiting =>
          lockq'[ctx'[u]] # <<>> /\ lockq'[ctx'[u]][1] = u
    BY <1>1, <1>9, <2>2 DEF Waiting
  <2>4. \A u \in Turns : /\ asked'[u] = NoSession => state'[u] = "none"
                         /\ asked'[u] # NoSession => ctx'[u] \in Turns
    BY <1>2, <1>8, <1>10, <2>2 DEF ConvInv, LockHeld
  <2>5. LockHeld'
    BY <2>3, <2>4 DEF LockHeld
  <2>6. ThreadRight(t)' /\ ToldRight(t)'
    BY <1>1, <2>2, SeenKeeps DEF ConvInv
  <2> QED
    BY <1>1, <1>3, <1>7, <2>2, <2>5, <2>6, StepOfTurn
<1> QED
  BY <1>4, <1>11, <1>12

(***************************************************************************)
(* A turn goes on                                                          *)
(***************************************************************************)
LEMMA GiveUpKeeps ==
  ASSUME ConvInv, TurnInv', NEW t \in Turns, GiveUp(t)
  PROVE  ConvInv'
<1>1. /\ state[t] = "none" /\ asked[t] # NoSession /\ PlacesInLine(t, ctx[t]) # {}
      /\ LeaveLock(t)
      /\ UNCHANGED <<turnVars, asked, ctx, sessions, kept, worker, saying, sentences>>
  BY DEF GiveUp, InLine
<1>2. UNCHANGED <<state, events, token>>
  BY <1>1 DEF turnVars
<1>3. \A u \in Turns : Seen(u)
  BY <1>2 DEF Seen
<1>4. LockHeld' /\ lockq' \in [Turns -> Seq(Turns)]
  <2>1. state'[t] \notin Waiting
    BY <1>1, <1>2 DEF Waiting
  <2> QED
    BY <1>1, <1>3, <2>1, LeaveKeepsLocks DEF ConvInv
<1>5. SessionsOK' /\ CallTypes'
  BY <1>1, <1>4 DEF ConvInv, SessionsOK, CallTypes
<1>6. \A u \in Turns : ThreadRight(u)' /\ ToldRight(u)'
  BY <1>1, <1>3, SeenKeeps DEF ConvInv
<1> QED
  BY <1>4, <1>5, <1>6 DEF ConvInv

LEMMA CallBrainKeeps ==
  ASSUME ConvInv, TurnInv', NEW t \in Turns, CallBrain(t)
  PROVE  ConvInv'
<1>1. /\ state[t] = "preparing_context" /\ state' = [state EXCEPT ![t] = "running"]
      /\ events' = [events EXCEPT ![t] = Append(@, "context")] /\ token' = token
      /\ worker' = [worker EXCEPT ![t] = "queued"]
      /\ UNCHANGED <<asked, ctx, sessions, lockq, kept, saying, sentences>>
  BY DEF CallBrain, ContextReady, Emit
<1>2. /\ state \in [Turns -> {"none"} \cup Waiting \cup Outcomes]
      /\ events \in [Turns -> Seq(EventTypes)]
      /\ worker \in [Turns -> WorkerStates]
  BY DEF ConvInv, TurnInv, TurnTypeOK, CallTypes
<1>3. /\ \A u \in Turns \ {t} : Seen(u) /\ worker'[u] = worker[u]
      /\ state'[t] = "running" /\ worker'[t] = "queued"
      /\ events'[t] = Append(events[t], "context")
  BY <1>1, <1>2 DEF Seen
<1>4. SessionsOK' /\ CallTypes'
  BY <1>1, <1>2 DEF ConvInv, SessionsOK, CallTypes, WorkerStates
<1>5. LockHeld'
  <2>1. \A u \in Turns : /\ state[u] = "none" => state'[u] = "none"
                         /\ state'[u] \in Waiting => state[u] \in Waiting
    BY <1>1, <1>3 DEF Seen, Waiting
  <2> QED
    BY <1>1, <2>1, LocksKept DEF ConvInv
<1>6. ThreadRight(t) /\ ToldRight(t) /\ worker[t] = "none" /\ sentences[t] = 0 /\ saying[t] = 0
  BY <1>1 DEF ConvInv, ThreadRight
<1>7. ThreadRight(t)'
  BY <1>1, <1>3, <1>6 DEF ThreadRight, Outcomes
<1>8. ToldRight(t)'
  <2>1. events[t] \in Seq(EventTypes) /\ Len(events[t]) = 1 /\ events[t][1] \notin FinalEvents
    BY <1>1, <1>2, <1>6 DEF ToldRight, Outcomes
  <2>2. /\ Len(events'[t]) = 2
        /\ events'[t][1] = events[t][1] /\ events'[t][2] = "context"
    BY <1>3, <2>1
  <2>3. \A i \in 1..Len(events'[t]) : events'[t][i] \notin FinalEvents
    BY <2>1, <2>2 DEF FinalEvents
  <2> QED
    BY <1>1, <1>3, <1>6, <2>2, <2>3 DEF ToldRight, Rest, Outcomes
<1> QED
  BY <1>1, <1>3, <1>4, <1>5, <1>7, <1>8, StepOfTurn

\* The others see of t's entering only that the one it woke was granted a permit.
LEMMA EnterKeeps ==
  ASSUME ConvInv, TurnInv', NEW t \in Turns, EnterTurn(t), UNCHANGED convVars
  PROVE  ConvInv'
<1>1. /\ UNCHANGED <<events, token>>
      /\ UNCHANGED <<asked, ctx, sessions, lockq, kept, worker, saying, sentences>>
  BY DEF EnterTurn, convVars
<1>2. /\ state[t] = "granted" /\ state'[t] = "preparing_context"
      /\ \A u \in Turns \ {t} :
           state'[u] = IF u \in WokenOnward THEN "granted" ELSE state[u]
      /\ \A u \in WokenOnward : state[u] = "created"
  BY EnterFacts DEF ConvInv
<1>3. \A u \in Turns \ {t} : Seen(u)
  BY <1>1, <1>2 DEF Seen
<1>4. SessionsOK' /\ CallTypes'
  BY <1>1 DEF ConvInv, SessionsOK, CallTypes
<1>5. LockHeld'
  <2>1. \A u \in Turns : /\ state[u] = "none" => state'[u] = "none"
                         /\ state'[u] \in Waiting => state[u] \in Waiting
    BY <1>2, <1>3 DEF Seen, Waiting
  <2> QED
    BY <1>1, <2>1, LocksKept DEF ConvInv
<1>6. ThreadRight(t)'
  BY <1>1, <1>2 DEF ConvInv, ThreadRight, Outcomes
<1>7. ToldRight(t)'
  BY <1>1, <1>2 DEF ConvInv, ToldRight, Rest, Outcomes
<1> QED
  BY <1>1, <1>3, <1>4, <1>5, <1>6, <1>7, StepOfTurn

(***************************************************************************)
(* A turn ends                                                             *)
(***************************************************************************)
\* What EndTurn does to its turn, and what the others see of it.
LEMMA EndFacts ==
  ASSUME TurnInv, NEW t \in Turns, NEW o \in Outcomes, NEW e \in FinalEvents,
         EndTurn(t, o, e),
         \A u \in Turns \ {t} : token[u] # "none" => token'[u] # "none"
  PROVE  /\ state'[t] = o
         /\ events'[t] = Append(events[t], e)
         /\ \A u \in Turns \ {t} : Seen(u)
<1>1. /\ state' = [u \in Turns |-> IF u = t THEN o
                                   ELSE IF u \in Woken(t) THEN "granted" ELSE state[u]]
      /\ events' = [events EXCEPT ![t] = Append(@, e)]
  BY DEF EndTurn, Emit
<1>2. events \in [Turns -> Seq(EventTypes)]
  BY DEF TurnInv, TurnTypeOK
<1>3. \A u \in Woken(t) : state[u] = "created"
  BY DEF Woken, First, Queue
<1> QED
  BY <1>1, <1>2, <1>3 DEF Seen

\* The last thing that is told of a turn is its outcome, but for the rest of a
\* sentence.
LEMMA LastTold ==
  ASSUME NEW t \in Turns, ThreadRight(t), ToldRight(t), events[t] \in Seq(EventTypes),
         saying[t] \in 0..3, sentences[t] \in Nat,
         state[t] \in Waiting,
         NEW o \in Outcomes, NEW e \in FinalEvents,
         state'[t] = o, events'[t] = Append(events[t], e),
         saying'[t] = saying[t], sentences'[t] = sentences[t],
         o = "completed" =>
           e = "completed" /\ state[t] = "running" /\ worker[t] = "returned"
  PROVE  ToldRight(t)'
<1> DEFINE old == events[t]
           n   == Len(old)
<1>1. e \in EventTypes
  BY DEF FinalEvents, EventTypes
<1> HIDE DEF old
<1>2. old \in Seq(EventTypes) /\ n \in Nat
  BY DEF old
<1>3. /\ Len(events'[t]) = n + 1
      /\ \A i \in 1..n : events'[t][i] = old[i]
      /\ events'[t][n + 1] = e
  <2>1. events'[t] = Append(old, e)
    BY DEF old
  <2> QED
    BY <1>1, <1>2, <2>1, AppendFacts
<1>4. \A i \in 1..n : old[i] \notin FinalEvents
  BY DEF ToldRight, Waiting, Outcomes, old
<1>5. Rest(t)' = Rest(t) /\ Rest(t) \in 0..3
  BY DEF Rest
<1>6. \A i \in 1..Len(events'[t]) : events'[t][i] \in FinalEvents => i = n + 1
  BY <1>2, <1>3, <1>4
<1>7. \A i \in 1..Len(events'[t]) :
        events'[t][i] \in FinalEvents =>
          state'[t] \in Outcomes /\ Len(events'[t]) + Rest(t)' <= i + 3
  BY <1>2, <1>3, <1>5, <1>6
<1>8. o = "completed" => Len(events'[t]) = 3 + 3 * sentences'[t] /\ events'[t][Len(events'[t])] = "completed"
  <2> SUFFICES ASSUME o = "completed"
               PROVE  Len(events'[t]) = 3 + 3 * sentences'[t] /\ events'[t][Len(events'[t])] = "completed"
    OBVIOUS
  <2>1. state[t] = "running" /\ saying[t] = 0 /\ e = "completed"
    BY DEF ThreadRight
  <2>2. n = 2 + 3 * sentences[t]
    BY <2>1, <1>2 DEF ToldRight, Rest, old
  <2>3. Len(events'[t]) = 3 + 3 * sentences'[t]
    BY <2>2, <1>3
  <2> QED
    BY <2>1, <2>3, <1>3
<1>9. o \notin {"none", "created", "granted", "preparing_context", "running"}
  BY DEF Outcomes
<1> QED
  BY <1>7, <1>8, <1>9 DEF ToldRight

\* A turn that ends leaves the lock; a thread that has not returned is withdrawn
\* or goes on under a cancelled token.
LEMMA EndKeeps ==
  ASSUME ConvInv, TurnInv', NEW t \in Turns, state[t] \in Waiting,
         NEW o \in Outcomes, NEW e \in FinalEvents, EndTurn(t, o, e), LeaveLock(t),
         UNCHANGED <<asked, ctx, sessions, saying, sentences>>,
         kept' \in [Turns -> Seq(Turns)],
         \A u \in Turns : token[u] # "none" => token'[u] # "none",
         worker' = [worker EXCEPT ![t] = IF @ = "queued" THEN "none" ELSE @],
         worker[t] = "running" => token'[t] # "none",
         o = "completed" =>
           e = "completed" /\ state[t] = "running" /\ worker[t] = "returned"
  PROVE  ConvInv'
<1>1. /\ events[t] \in Seq(EventTypes) /\ saying[t] \in 0..3 /\ sentences[t] \in Nat
      /\ worker \in [Turns -> WorkerStates]
      /\ ThreadRight(t) /\ ToldRight(t)
  BY ConversationConstantsOK DEF ConvInv, TurnInv, TurnTypeOK, CallTypes
<1>2. /\ state'[t] = o /\ events'[t] = Append(events[t], e)
      /\ \A u \in Turns \ {t} : Seen(u)
  BY EndFacts DEF ConvInv
<1>3. worker'[t] = IF worker[t] = "queued" THEN "none" ELSE worker[t]
  BY <1>1
<1>4. \A u \in Turns \ {t} : worker'[u] = worker[u]
  BY <1>1
<1>5. worker' \in [Turns -> WorkerStates]
  BY <1>1 DEF WorkerStates
<1>6. LockHeld' /\ lockq' \in [Turns -> Seq(Turns)]
  <2>1. asked[t] # NoSession
    BY DEF ConvInv, LockHeld, Waiting
  <2>2. /\ lockq[ctx[t]] # <<>> /\ lockq[ctx[t]][1] = t
        /\ lockq[ctx[t]] \in Seq(Turns)
    BY <2>1 DEF ConvInv, LockHeld, CallTypes
  <2>3. PlacesInLine(t, ctx[t]) # {}
    <3>1. 1 \in DOMAIN lockq[ctx[t]]
      BY <2>2
    <3> QED
      BY <2>2, <3>1 DEF PlacesInLine
  <2>4. state'[t] \notin Waiting
    BY <1>2 DEF Outcomes, Waiting
  <2> QED
    BY <1>2, <2>1, <2>3, <2>4, LeaveKeepsLocks DEF ConvInv
<1>7. SessionsOK' /\ CallTypes'
  BY <1>5, <1>6 DEF ConvInv, SessionsOK, CallTypes
<1>8. ThreadRight(t)'
  <2>1. /\ saying[t] # 0 => worker[t] = "running" /\ sentences[t] # 0
        /\ worker'[t] # "queued"
        /\ worker[t] = "running" => worker'[t] = "running"
        /\ worker'[t] = "running" => token'[t] # "none"
        /\ o = "completed" => worker'[t] = "returned"
    BY <1>1, <1>3 DEF ThreadRight
  <2>2. o \notin {"none", "created", "granted", "preparing_context", "running"}
    BY DEF Outcomes
  <2> QED
    BY <1>2, <2>1, <2>2 DEF ThreadRight
<1>9. ToldRight(t)'
  BY <1>1, <1>2, LastTold
<1> QED
  BY <1>2, <1>4, <1>6, <1>7, <1>8, <1>9, StepOfTurn

\* The exchanges kept in a context stay a sequence of turns.
LEMMA KeepType ==
  ASSUME CallTypes, NEW t \in Turns, ctx[t] \in Turns, Keep(t)
  PROVE  kept' \in [Turns -> Seq(Turns)]
<1> DEFINE old == kept[ctx[t]]
           cut == IF Len(old) < KeepLimit THEN old ELSE Tail(old)
<1>1. old \in Seq(Turns) /\ kept \in [Turns -> Seq(Turns)]
  BY DEF CallTypes
<1>2. kept' = [kept EXCEPT ![ctx[t]] = Append(cut, t)]
  BY DEF Keep
<1> HIDE DEF old
<1>3. ~(Len(old) < KeepLimit) => old # <<>>
  BY <1>1, ConversationConstantsOK
<1>4. cut \in Seq(Turns)
  BY <1>1, <1>3
<1> HIDE DEF cut
<1> QED
  BY <1>1, <1>2, <1>4

LEMMA FinishKeeps ==
  ASSUME ConvInv, TurnInv', NEW t \in Turns, Finish(t)
  PROVE  ConvInv'
<1>1. /\ worker[t] = "returned" /\ state[t] = "running" /\ LeaveLock(t)
      /\ UNCHANGED <<asked, ctx, sessions, worker, saying, sentences, token>>
      /\ kept' = kept \/ Keep(t)
      /\ EndTurn(t, "completed", "completed") \/ EndTurn(t, "cancelled", "cancelled")
  BY DEF Finish, ProcessorReturns
<1>2. /\ {"completed", "cancelled"} \subseteq Outcomes \cap FinalEvents
      /\ state[t] \in Waiting
  BY <1>1 DEF Outcomes, FinalEvents, Waiting
<1>3. ctx[t] \in Turns
  BY <1>1 DEF ConvInv, LockHeld
<1>4. kept' \in [Turns -> Seq(Turns)]
  BY <1>1, <1>3, KeepType DEF ConvInv, CallTypes
<1>5. worker' = [worker EXCEPT ![t] = IF @ = "queued" THEN "none" ELSE @]
  BY <1>1 DEF ConvInv, CallTypes
<1> QED
  BY <1>1, <1>2, <1>4, <1>5, EndKeeps

LEMMA FailKeeps ==
  ASSUME ConvInv, TurnInv', NEW t \in Turns, Fail(t)
  PROVE  ConvInv'
<1>1. /\ worker[t] = "raised" /\ state[t] = "running" /\ LeaveLock(t)
      /\ UNCHANGED <<asked, ctx, sessions, kept, worker, saying, sentences>>
      /\ EndTurn(t, "failed", "failed") \/ EndTurn(t, "timed_out", "failed")
      /\ token' = token \/ CancelToken(t, "deadline_exceeded")
  BY DEF Fail, ProcessorFails
<1>2. /\ {"failed", "timed_out"} \subseteq Outcomes /\ "failed" \in FinalEvents
      /\ state[t] \in Waiting /\ "completed" \notin {"failed", "timed_out"}
  BY <1>1 DEF Outcomes, FinalEvents, Waiting
<1>3. \A u \in Turns : token[u] # "none" => token'[u] # "none"
  BY <1>1 DEF CancelToken, ConvInv, TurnInv, TurnTypeOK
<1>4. /\ kept' \in [Turns -> Seq(Turns)]
      /\ worker' = [worker EXCEPT ![t] = IF @ = "queued" THEN "none" ELSE @]
  BY <1>1 DEF ConvInv, CallTypes
<1> QED
  BY <1>1, <1>2, <1>3, <1>4, EndKeeps

LEMMA CutOffKeeps ==
  ASSUME ConvInv, TurnInv', NEW t \in Turns, CutOff(t)
  PROVE  ConvInv'
<1>1. PICK o \in {"timed_out", "cancelled"}, e \in {"failed", "cancelled"},
           why \in {"deadline_exceeded", "cancelled"} :
        EndTurn(t, o, e) /\ CancelToken(t, why) /\ state[t] \in Waiting
  BY DEF CutOff, TimesOut, IsCancelled
<1>2. /\ LeaveLock(t)
      /\ worker' = [worker EXCEPT ![t] = IF @ = "queued" THEN "none" ELSE @]
      /\ UNCHANGED <<asked, ctx, sessions, kept, saying, sentences>>
  BY DEF CutOff
<1>3. o \in Outcomes /\ e \in FinalEvents /\ o # "completed"
  BY DEF Outcomes, FinalEvents
<1>4. token'[t] # "none" /\ \A u \in Turns : token[u] # "none" => token'[u] # "none"
  BY <1>1 DEF CancelToken, ConvInv, TurnInv, TurnTypeOK
<1>5. kept' \in [Turns -> Seq(Turns)]
  BY <1>2 DEF ConvInv, CallTypes
<1> QED
  BY <1>1, <1>2, <1>3, <1>4, <1>5, EndKeeps

(***************************************************************************)
(* The thread                                                              *)
(***************************************************************************)
\* A thread is run, or ends between two sentences.
LEMMA ThreadKeeps ==
  ASSUME ConvInv, TurnInv', NEW t \in Turns,
         ThreadStarts(t)
           \/ \E how \in {"returned", "raised", "stopped"} : ThreadEnds(t, how)
  PROVE  ConvInv'
<1>1. PICK new \in {"running", "returned", "raised", "stopped"} :
        /\ worker' = [worker EXCEPT ![t] = new]
        /\ \/ worker[t] = "queued" /\ new = "running"
           \/ worker[t] = "running" /\ saying[t] = 0 /\ new # "running"
  BY DEF ThreadStarts, ThreadEnds, Busy
<1>2. UNCHANGED <<turnVars, asked, ctx, sessions, lockq, kept, saying, sentences>>
  BY DEF ThreadStarts, ThreadEnds
<1>3. UNCHANGED <<state, events, token>>
  BY <1>2 DEF turnVars
<1>4. \A u \in Turns : Seen(u)
  BY <1>3 DEF Seen
<1>5. worker \in [Turns -> WorkerStates]
  BY DEF ConvInv, CallTypes
<1>6. worker' \in [Turns -> WorkerStates] /\ worker'[t] = new
      /\ \A u \in Turns \ {t} : worker'[u] = worker[u]
  BY <1>1, <1>5 DEF WorkerStates
<1>7. SessionsOK' /\ CallTypes' /\ LockHeld'
  BY <1>2, <1>3, <1>6 DEF ConvInv, SessionsOK, CallTypes, LockHeld
<1>8. ThreadRight(t) /\ ToldRight(t)
  BY DEF ConvInv
<1>9. ThreadRight(t)'
  BY <1>1, <1>2, <1>3, <1>6, <1>8 DEF ThreadRight, Outcomes
<1>10. ToldRight(t)'
  BY <1>2, <1>3, <1>8 DEF ToldRight, Rest
<1> QED
  BY <1>2, <1>4, <1>6, <1>7, <1>9, <1>10, StepOfTurn

\* A sentence is begun with a token that nobody has cancelled, so not after the
\* end of the turn.
LEMMA SpeakKeeps ==
  ASSUME ConvInv, TurnInv', NEW t \in Turns, Speak(t)
  PROVE  ConvInv'
<1>1. /\ worker[t] = "running" /\ saying[t] = 0 /\ sentences[t] < MaxSentences
      /\ token[t] = "none"
      /\ saying' = [saying EXCEPT ![t] = 1]
      /\ sentences' = [sentences EXCEPT ![t] = @ + 1]
      /\ UNCHANGED <<turnVars, asked, ctx, sessions, lockq, kept, worker>>
  BY DEF Speak, Busy
<1>2. UNCHANGED <<state, events, token>>
  BY <1>1 DEF turnVars
<1>3. \A u \in Turns : Seen(u)
  BY <1>2 DEF Seen
<1>4. saying \in [Turns -> 0..3] /\ sentences \in [Turns -> 0..MaxSentences] /\ MaxSentences \in Nat
  BY ConversationConstantsOK DEF ConvInv, CallTypes
<1>5. /\ saying' \in [Turns -> 0..3] /\ sentences' \in [Turns -> 0..MaxSentences]
      /\ saying'[t] = 1 /\ sentences'[t] = sentences[t] + 1
      /\ \A u \in Turns \ {t} : saying'[u] = saying[u] /\ sentences'[u] = sentences[u]
  BY <1>1, <1>4
<1>6. SessionsOK' /\ CallTypes' /\ LockHeld'
  BY <1>1, <1>2, <1>5 DEF ConvInv, SessionsOK, CallTypes, LockHeld
<1>7. /\ ThreadRight(t) /\ ToldRight(t)
      /\ state[t] \in {"none"} \cup Waiting \cup Outcomes /\ events[t] \in Seq(EventTypes)
  BY DEF ConvInv, TurnInv, TurnTypeOK
<1>8. state[t] = "running"
  BY <1>1, <1>7 DEF ThreadRight, Waiting
<1>9. ThreadRight(t)'
  BY <1>1, <1>2, <1>4, <1>5, <1>8 DEF ThreadRight, Outcomes
<1>10. ToldRight(t)'
  <2>1. Len(events'[t]) \in Nat /\ Len(events'[t]) = 2 + 3 * sentences[t]
    BY <1>1, <1>2, <1>7, <1>8 DEF ToldRight, Rest
  <2>2. Rest(t)' = 3
    BY <1>5 DEF Rest
  <2>3. Len(events'[t]) + Rest(t)' = 2 + 3 * sentences'[t]
    BY <1>4, <1>5, <2>1, <2>2
  <2>4. \A i \in 1..Len(events'[t]) : events'[t][i] \notin FinalEvents
    BY <1>2, <1>7, <1>8 DEF ToldRight, Outcomes
  <2> QED
    BY <1>2, <1>8, <2>3, <2>4 DEF ToldRight
<1> QED
  BY <1>1, <1>3, <1>5, <1>6, <1>9, <1>10, StepOfTurn

\* An event of a sentence is published: one more is told, one less is left.
LEMMA PublishKeeps ==
  ASSUME ConvInv, TurnInv', NEW t \in Turns, Publish(t)
  PROVE  ConvInv'
<1>1. /\ saying[t] # 0
      /\ events' = [events EXCEPT ![t] = Append(@, SentenceEvents[saying[t]])]
      /\ saying' = [saying EXCEPT ![t] = IF @ < 3 THEN @ + 1 ELSE 0]
      /\ UNCHANGED <<state, token>>
      /\ UNCHANGED <<asked, ctx, sessions, lockq, kept, worker, sentences>>
  BY DEF Publish, PublishEvent, Emit, SentenceEvents
<1>2. /\ events \in [Turns -> Seq(EventTypes)] /\ saying \in [Turns -> 0..3]
      /\ state[t] \in {"none"} \cup Waiting \cup Outcomes
      /\ sentences[t] \in Nat
  BY ConversationConstantsOK DEF ConvInv, TurnInv, TurnTypeOK, CallTypes
<1>3. saying[t] \in 1..3
  BY <1>1, <1>2
<1>4. SentenceEvents[saying[t]] \in EventTypes \ FinalEvents
  BY <1>3 DEF SentenceEvents, EventTypes, FinalEvents
<1>5. /\ saying' \in [Turns -> 0..3]
      /\ saying'[t] = IF saying[t] < 3 THEN saying[t] + 1 ELSE 0
      /\ events'[t] = Append(events[t], SentenceEvents[saying[t]])
      /\ \A u \in Turns \ {t} : saying'[u] = saying[u] /\ events'[u] = events[u]
  <2>1. /\ saying' \in [Turns -> 0..3]
        /\ saying'[t] = IF saying[t] < 3 THEN saying[t] + 1 ELSE 0
        /\ \A u \in Turns \ {t} : saying'[u] = saying[u]
    <3>1. (IF saying[t] < 3 THEN saying[t] + 1 ELSE 0) \in 0..3
      BY <1>3
    <3>2. saying' = [saying EXCEPT ![t] = IF saying[t] < 3 THEN saying[t] + 1 ELSE 0]
      BY <1>1
    <3> QED
      BY <1>2, <3>1, <3>2
  <2>2. /\ events'[t] = Append(events[t], SentenceEvents[saying[t]])
        /\ \A u \in Turns \ {t} : events'[u] = events[u]
    <3>1. events' = [events EXCEPT ![t] = Append(events[t], SentenceEvents[saying[t]])]
      BY <1>1
    <3> QED
      BY <1>2, <3>1
  <2> QED
    BY <2>1, <2>2
<1>6. \A u \in Turns \ {t} : Seen(u)
  BY <1>1, <1>5 DEF Seen
<1>7. SessionsOK' /\ CallTypes' /\ LockHeld'
  BY <1>1, <1>5 DEF ConvInv, SessionsOK, CallTypes, LockHeld
<1>8. ThreadRight(t) /\ ToldRight(t)
  BY DEF ConvInv
<1>9. ThreadRight(t)'
  BY <1>1, <1>5, <1>8 DEF ThreadRight
<1>10. ToldRight(t)'
  <2> DEFINE old == events[t]
             new == events'[t]
             n   == Len(old)
             e   == SentenceEvents[saying[t]]
  <2>1. old \in Seq(EventTypes) /\ e \in EventTypes \ FinalEvents /\ new = Append(old, e)
    BY <1>2, <1>4, <1>5
  <2>2. Rest(t) \in 1..3 /\ Rest(t)' = Rest(t) - 1
    BY <1>3, <1>5 DEF Rest
  <2>3. state[t] = "running" \/ state[t] \in Outcomes \ {"completed"}
    BY <1>1, <1>2, <1>8 DEF ThreadRight, Waiting
  <2>4. /\ state[t] = "running" => n + Rest(t) = 2 + 3 * sentences[t]
        /\ \A i \in 1..n : old[i] \in FinalEvents =>
             state[t] \in Outcomes /\ n + Rest(t) <= i + 3
    BY <1>8 DEF ToldRight
  <2> HIDE DEF old, new, e
  <2>5. /\ n \in Nat /\ Len(new) = n + 1
        /\ \A i \in 1..n : new[i] = old[i]
        /\ new[n + 1] = e
    BY <2>1, AppendFacts
  <2>6. Len(new) + Rest(t)' = n + Rest(t)
    BY <2>2, <2>5
  <2>7. \A i \in 1..Len(new) : new[i] \in FinalEvents => i \in 1..n /\ old[i] \in FinalEvents
    BY <2>1, <2>5
  <2>8. \A i \in 1..Len(new) : new[i] \in FinalEvents =>
             state[t] \in Outcomes /\ Len(new) + Rest(t)' <= i + 3
    BY <2>4, <2>6, <2>7
  <2>9. state[t] = "running" => Len(new) + Rest(t)' = 2 + 3 * sentences[t]
    BY <2>4, <2>6
  <2>10. state'[t] = state[t] /\ sentences'[t] = sentences[t]
    BY <1>1
  <2>11. state[t] \notin {"none", "created", "granted", "preparing_context", "completed"}
    BY <2>3 DEF Outcomes
  <2> QED
    BY <2>8, <2>9, <2>10, <2>11 DEF ToldRight, new
<1> QED
  BY <1>1, <1>5, <1>6, <1>7, <1>9, <1>10, StepOfTurn

(***************************************************************************)
(* The invariant                                                           *)
(***************************************************************************)
LEMMA ConvInitInv == ConvInit => ConvInv
<1> SUFFICES ASSUME ConvInit PROVE ConvInv
  OBVIOUS
<1>1. TurnInv
  BY TurnInitInv DEF ConvInit
<1>2. SessionsOK
  <2>1. /\ <<>> \in Seq([key : Keys, ctx : Turns]) /\ Len(<<>>) = 0
        /\ DOMAIN <<>> = {} /\ MaxSessions \in Nat
    BY ConversationConstantsOK
  <2> QED
    BY <2>1 DEF ConvInit, SessionsOK
<1>3. CallTypes
  <2>1. <<>> \in Seq(Turns) /\ 0 \in 0..3 /\ 0 \in 0..MaxSentences
    BY ConversationConstantsOK
  <2> QED
    BY <2>1 DEF ConvInit, CallTypes, WorkerStates
<1>4. \A t \in Turns : state[t] = "none" /\ events[t] = <<>>
  BY DEF ConvInit, TurnInit
<1>5. LockHeld
  BY <1>4 DEF ConvInit, LockHeld, Waiting
<1>6. \A t \in Turns : ThreadRight(t)
  BY <1>4 DEF ConvInit, ThreadRight, Outcomes
<1>7. \A t \in Turns : ToldRight(t)
  BY <1>4 DEF ToldRight, Outcomes
<1> QED
  BY <1>1, <1>2, <1>3, <1>5, <1>6, <1>7 DEF ConvInv

\* Every step keeps the invariant.
LEMMA ConvNextInv == ConvInv /\ [ConvNext]_<<turnVars, convVars>> => ConvInv'
<1> SUFFICES ASSUME ConvInv, [ConvNext]_<<turnVars, convVars>> PROVE ConvInv'
  OBVIOUS
<1>0. TurnInv'
  BY CoordinatorStep, TurnNextInv, PublishedKeeps DEF ConvInv
<1>1. ASSUME NEW k \in Keys, Release(k) PROVE ConvInv'
  <2>1. /\ sessions' = Without(k)
        /\ UNCHANGED <<turnVars, asked, ctx, lockq, kept, worker, saying, sentences>>
    BY <1>1 DEF Release
  <2>2. SessionsOK'
    <3> DEFINE E == [key : Keys, ctx : Turns]
               w == Without(k)
    <3>1. /\ w \in Seq(E) /\ Len(w) <= Len(sessions)
          /\ \A i, j \in 1..Len(w) : w[i].key = w[j].key => i = j
          /\ Len(sessions) \in Nat /\ Len(sessions) <= MaxSessions
      BY WithoutFacts DEF ConvInv, SessionsOK
    <3> HIDE DEF w, E
    <3>2. DOMAIN w = 1..Len(w) /\ Len(w) <= MaxSessions
      BY <3>1, ConversationConstantsOK
    <3> QED
      BY <3>1, <3>2, <2>1 DEF SessionsOK, w, E
  <2>3. \A u \in Turns : Seen(u)
    BY <2>1 DEF Seen, turnVars
  <2> QED
    BY <1>0, <2>1, <2>2, <2>3, QuietConv
<1>2. ASSUME NEW t \in Turns, NEW s \in Sessions, NEW k \in Keys, Respond(t, s, k)
      PROVE  ConvInv'
  BY <1>0, <1>2, RespondKeeps
<1>3. ASSUME \A u \in Turns : Seen(u), UNCHANGED convVars PROVE ConvInv'
  <2>1. UNCHANGED <<asked, ctx, sessions, lockq, kept, worker, saying, sentences>>
    BY <1>3 DEF convVars
  <2>2. SessionsOK'
    BY <2>1 DEF ConvInv, SessionsOK
  <2> QED
    BY <1>0, <1>3, <2>1, <2>2, QuietConv
<1>4. ASSUME NEW t \in Turns, Interrupt(t) PROVE ConvInv'
  <2>1. UNCHANGED <<state, events>> /\ UNCHANGED convVars
    BY <1>4 DEF Interrupt, CancelTurn, CancelCaller
  <2>2. \A u \in Turns : token[u] # "none" => token'[u] # "none"
    BY <1>4 DEF Interrupt, CancelTurn, CancelCaller, CancelActive, CancelToken,
                ConvInv, TurnInv, TurnTypeOK
  <2> QED
    BY <2>1, <2>2, <1>3 DEF Seen
<1>5. ASSUME NEW t \in Turns, DeadlineExpires(t), UNCHANGED convVars PROVE ConvInv'
  <2>1. UNCHANGED <<state, events, token>>
    BY <1>5 DEF DeadlineExpires
  <2> QED
    BY <2>1, <1>3, <1>5 DEF Seen
<1>6. ASSUME NEW t \in Turns, RespondStep(t) PROVE ConvInv'
  BY <1>0, <1>5, <1>6, CutOffKeeps, TakeLockKeeps, EnterKeeps DEF RespondStep
<1>7. ASSUME NEW t \in Turns, GiveUp(t) \/ CallBrain(t) \/ Finish(t) \/ Fail(t)
      PROVE  ConvInv'
  BY <1>0, <1>7, GiveUpKeeps, CallBrainKeeps, FinishKeeps, FailKeeps
<1>8. ASSUME NEW t \in Turns,
             ThreadStarts(t) \/ Speak(t) \/ Publish(t)
               \/ \E how \in {"returned", "raised", "stopped"} : ThreadEnds(t, how)
      PROVE  ConvInv'
  BY <1>0, <1>8, ThreadKeeps, SpeakKeeps, PublishKeeps
<1>9. CASE UNCHANGED <<turnVars, convVars>>
  <2>1. UNCHANGED <<state, events, token>> /\ UNCHANGED convVars
    BY <1>9 DEF turnVars
  <2> QED
    BY <2>1, <1>3 DEF Seen
<1> QED
  BY <1>1, <1>2, <1>4, <1>6, <1>7, <1>8, <1>9 DEF ConvNext

\* The variables of the conversations are well typed, the coordinator below them
\* keeps its own invariant, the locks are where they should be, and threads and
\* events agree (ConvInv), in every reachable state.
THEOREM ConversationInvariant == ConvSpec => []ConvInv
  BY ConvInitInv, ConvNextInv, PTL DEF ConvSpec

\* Every variable keeps its type; _sessions holds one context of each key and
\* never more than max_sessions.
THEOREM ConversationTypes == ConvSpec => []ConvTypeOK
<1>1. ConvInv => ConvTypeOK
  <2>1. Len(SentenceEvents) = 3
    BY DEF SentenceEvents
  <2> QED
    BY <2>1 DEF ConvInv, TurnInv, SessionsOK, CallTypes, ConvTypeOK
<1> QED
  BY <1>1, ConversationInvariant, PTL

\* Of the turns whose threads work on one fork of the brain, one at most has not
\* ended: it holds the lock of the context.
THEOREM LiveTurnsKeptApart == ConvSpec => []LiveTurnsApart
<1>1. ConvInv => LiveTurnsApart
  <2> SUFFICES ASSUME ConvInv, NEW t \in Busy, NEW u \in Busy, t # u, ctx[t] = ctx[u],
                      state[t] \in Waiting, state[u] \in Waiting
               PROVE  FALSE
    BY DEF LiveTurnsApart
  <2>1. t \in Turns /\ u \in Turns
    BY DEF Busy
  <2>2. lockq[ctx[t]][1] = t /\ lockq[ctx[u]][1] = u
    BY <2>1 DEF ConvInv, LockHeld
  <2> QED
    BY <2>2
<1> QED
  BY <1>1, ConversationInvariant, PTL

\* A turn that completed has been told whole sentences, all of its thread's, and
\* its completion last.
THEOREM CompletedInFull == ConvSpec => []CompletedTold
<1>1. ConvInv => CompletedTold
  <2>1. Len(SentenceEvents) = 3
    BY DEF SentenceEvents
  <2> QED
    BY <2>1 DEF ConvInv, ToldRight, CompletedTold
<1> QED
  BY <1>1, ConversationInvariant, PTL

\* After its final event a turn says no more than the three events of the
\* sentence its thread had begun.
THEOREM OneSentenceAtMost == ConvSpec => []OneSentenceMore
<1>1. ConvInv => OneSentenceMore
  <2> SUFFICES ASSUME ConvInv, NEW t \in Turns, NEW i \in DOMAIN events[t],
                      events[t][i] \in FinalEvents
               PROVE  Len(events[t]) <= i + 3
    BY DEF OneSentenceMore, SentenceEvents
  <2>1. events[t] \in Seq(EventTypes) /\ saying[t] \in 0..3
    BY DEF ConvInv, TurnInv, TurnTypeOK, CallTypes
  <2>2. i \in 1..Len(events[t]) /\ Len(events[t]) \in Nat /\ Rest(t) \in Nat
    BY <2>1 DEF Rest
  <2>3. Len(events[t]) + Rest(t) <= i + 3
    BY <2>2 DEF ConvInv, ToldRight
  <2> QED
    BY <2>2, <2>3
<1> QED
  BY <1>1, ConversationInvariant, PTL

\* Only the turn that ends adds to the exchanges of its context, and it holds the
\* context's lock: the history another live turn was given stays what it was.
THEOREM HistoryKept == ConvSpec => HistoryStaysCurrent
<1>1. ASSUME ConvInv, [ConvNext]_<<turnVars, convVars>>, NEW t \in Turns,
             state[t] \in Waiting, state'[t] \in Waiting
      PROVE  kept'[ctx[t]] = kept[ctx[t]]
  <2>1. ASSUME NEW u \in Turns, Finish(u) PROVE kept'[ctx[t]] = kept[ctx[t]]
    <3>1. /\ state[u] = "running"
          /\ EndTurn(u, "completed", "completed") \/ EndTurn(u, "cancelled", "cancelled")
          /\ kept' = kept \/ Keep(u)
      BY <2>1 DEF Finish, ProcessorReturns
    <3>2. u # t
      <4>1. state'[u] \in {"completed", "cancelled"}
        BY <3>1 DEF EndTurn
      <4> QED
        BY <4>1, <1>1 DEF Waiting
    <3>3. ctx[u] # ctx[t]
      BY <1>1, <3>1, <3>2 DEF ConvInv, LockHeld, Waiting
    <3>4. ctx[t] \in Turns /\ kept \in [Turns -> Seq(Turns)]
      BY <1>1 DEF ConvInv, LockHeld, CallTypes, Waiting
    <3> QED
      BY <3>1, <3>3, <3>4 DEF Keep
  <2>2. (\E u \in Turns : Finish(u)) \/ kept' = kept
    BY <1>1 DEF ConvNext, Release, Respond, RespondStep, Interrupt, GiveUp, CallBrain,
                Fail, CutOff, TakeLock, ThreadStarts, Speak, Publish, ThreadEnds, convVars
  <2> QED
    BY <2>1, <2>2
<1>2. ConvInv /\ [ConvNext]_<<turnVars, convVars>> =>
        [\A t \in Turns :
           state[t] \in Waiting /\ state'[t] \in Waiting =>
             kept'[ctx[t]] = kept[ctx[t]]]_<<turnVars, convVars>>
  BY <1>1
<1> QED
  BY <1>2, ConversationInvariant, PTL DEF ConvSpec, HistoryStaysCurrent

(***************************************************************************)
(* The coordinator under conversations                                     *)
(***************************************************************************)
\* What the coordinator promises by itself it also promises to conversations,
\* whose locks decide when turns start and whose threads publish events at any
\* time: its registries are exact and no permit is lost.
THEOREM ConversationsKeepTurns == ConvSpec => [](Registered /\ PermitsKept)
<1>1. ConvInit => PermitInv
  BY TurnInitPermits DEF ConvInit
<1>2. ConvInv /\ PermitInv /\ [ConvNext]_<<turnVars, convVars>> => PermitInv'
  BY CoordinatorStep, NextKeepsPermits, PublishedKeeps DEF ConvInv
<1>3. ConvInv /\ PermitInv => Registered /\ PermitsKept
  <2>1. TurnInv => Registered
    BY DEF TurnInv, TurnTypeOK, ActiveTurns, SessionEntries, Registered
  <2> QED
    BY <2>1 DEF ConvInv, PermitInv
<1> QED
  BY <1>1, <1>2, <1>3, ConversationInvariant, PTL DEF ConvSpec

\* A turn of a conversation, too, can only end cancelled once it has been
\* superseded or interrupted, and ends once.
THEOREM ConversationsKeepPromise == ConvSpec => NewestTurnOnly
<1>1. ConvInit => Promise!Init
  BY DEF ConvInit, TurnInit, Promise!Init, phaseOf, Waiting
<1>2. ConvInv /\ [ConvNext]_<<turnVars, convVars>> => [Promise!Next]_(Promise!vars)
  BY CoordinatorStep, NextKeepsPromise, PublishedKeeps DEF ConvInv, PromiseStep
<1> QED
  BY <1>1, <1>2, ConversationInvariant, PTL DEF ConvSpec, NewestTurnOnly, Promise!Spec

(***************************************************************************)
(* No call waits for ever                                                  *)
(***************************************************************************)
\* A line for a lock holds calls of its own context, each once, whose turns have not
\* ended.
LinesRight ==
  /\ \A c \in Turns : \A i \in 1..Len(lockq[c]) :
       LET u == lockq[c][i]
       IN  asked[u] # NoSession /\ ctx[u] = c /\ state[u] \notin Outcomes
  /\ \A c \in Turns : \A i, j \in 1..Len(lockq[c]) : lockq[c][i] = lockq[c][j] => i = j

\* The guard of TakeLock(t).
LockIsFor(t) == state[t] = "none" /\ InLine(t) /\ Head(lockq[ctx[t]]) = t

\* As long as a call has not returned, the loop has something to do for one of them.
SomeCallGoesOn ==
  (\E t \in Turns : InLine(t)) => \E t \in Turns : LoopCanServe(t) \/ LockIsFor(t)

\* A step that leaves the lines alone and ends nobody.
LEMMA LinesKept ==
  ASSUME ConvInv, LinesRight, UNCHANGED <<asked, ctx, lockq>>,
         \A u \in Turns : state'[u] \in Outcomes => state[u] \in Outcomes
  PROVE  LinesRight'
<1>1. \A c \in Turns : \A i \in 1..Len(lockq[c]) : lockq[c][i] \in Turns
  BY DEF ConvInv, CallTypes
<1> QED
  BY <1>1 DEF LinesRight

\* A call that leaves its line leaves the others in it; it may end.
LEMMA LinesLeft ==
  ASSUME ConvInv, LinesRight, NEW t \in Turns, InLine(t), LeaveLock(t),
         UNCHANGED <<asked, ctx>>,
         \A u \in Turns \ {t} : state'[u] \in Outcomes => state[u] \in Outcomes
  PROVE  LinesRight' /\ PlacesInLine(t, ctx[t])' = {}
<1>1. ctx[t] \in Turns /\ PlacesInLine(t, ctx[t]) # {}
  BY DEF InLine, ConvInv, LockHeld
<1>2. lockq \in [Turns -> Seq(Turns)]
  BY DEF ConvInv, CallTypes
<1>3. PICK c \in Turns : c = ctx[t]
  BY <1>1
<1>4. PICK q \in Seq(Turns) : q = lockq[c]
  BY <1>2
<1>5. PICK p \in PlacesInLine(t, c) : lockq' = [lockq EXCEPT ![c] = RemoveAt(q, p)]
  BY <1>1, <1>3, <1>4 DEF LeaveLock
<1>6. p \in 1..Len(q) /\ q[p] = t /\ Len(q) \in Nat
  BY <1>4, <1>5 DEF PlacesInLine
<1>7. PICK r \in Seq(Turns) : r = RemoveAt(q, p)
  BY <1>6, RemoveAtFacts
<1>8. Len(r) = Len(q) - 1 /\ \A i \in 1..Len(q)-1 : r[i] = q[IF i < p THEN i ELSE i + 1]
  BY <1>6, <1>7, RemoveAtFacts
<1>9. lockq'[c] = r /\ \A d \in Turns \ {c} : lockq'[d] = lockq[d]
  BY <1>2, <1>5, <1>7
<1>10. /\ \A i, j \in 1..Len(q) : q[i] = q[j] => i = j
       /\ \A i \in 1..Len(q) : /\ q[i] \in Turns
                               /\ asked[q[i]] # NoSession /\ ctx[q[i]] = c
                               /\ state[q[i]] \notin Outcomes
  BY <1>4 DEF LinesRight
<1> DEFINE at(i) == IF i < p THEN i ELSE i + 1
<1>11. /\ \A i \in 1..Len(r) : at(i) \in 1..Len(q) /\ at(i) # p /\ r[i] = q[at(i)]
       /\ \A i, j \in 1..Len(r) : at(i) = at(j) => i = j
  BY <1>6, <1>8
<1> HIDE DEF at
<1>12. \A i \in 1..Len(r) : r[i] # t
  BY <1>6, <1>10, <1>11
<1>13. \A i \in 1..Len(r) : /\ r[i] \in Turns \ {t}
                            /\ asked[r[i]] # NoSession /\ ctx[r[i]] = c
                            /\ state[r[i]] \notin Outcomes
  BY <1>10, <1>11, <1>12
<1>14. \A i, j \in 1..Len(r) : r[i] = r[j] => i = j
  BY <1>10, <1>11
<1>15. ASSUME NEW d \in Turns, d # c, NEW i \in 1..Len(lockq[d])
       PROVE  /\ asked'[lockq[d][i]] # NoSession /\ ctx'[lockq[d][i]] = d
              /\ state'[lockq[d][i]] \notin Outcomes
  <2>1. /\ lockq[d][i] \in Turns
        /\ asked[lockq[d][i]] # NoSession /\ ctx[lockq[d][i]] = d
        /\ state[lockq[d][i]] \notin Outcomes
    BY <1>2 DEF LinesRight
  <2>2. lockq[d][i] # t
    BY <2>1, <1>3, <1>15
  <2> QED
    BY <2>1, <2>2
<1>16. ASSUME NEW d \in Turns, NEW i \in 1..Len(lockq'[d])
       PROVE  /\ asked'[lockq'[d][i]] # NoSession /\ ctx'[lockq'[d][i]] = d
              /\ state'[lockq'[d][i]] \notin Outcomes
  <2>1. CASE d = c
    BY <2>1, <1>9, <1>13, <1>16
  <2>2. CASE d # c
    BY <2>2, <1>9, <1>15, <1>16
  <2> QED
    BY <2>1, <2>2
<1>17. \A d \in Turns : \A i, j \in 1..Len(lockq'[d]) : lockq'[d][i] = lockq'[d][j] => i = j
  BY <1>9, <1>14 DEF LinesRight
<1>18. PlacesInLine(t, ctx[t])' = {}
  <2>1. ctx'[t] = c /\ DOMAIN r = 1..Len(r)
    BY <1>3
  <2> QED
    BY <2>1, <1>9, <1>12 DEF PlacesInLine
<1> QED
  BY <1>16, <1>17, <1>18 DEF LinesRight

\* A call joins one line, at its end, and was in none.
LEMMA LinesJoined ==
  ASSUME ConvInv, LinesRight, NEW t \in Turns, NEW s \in Sessions, NEW k \in Keys,
         Respond(t, s, k)
  PROVE  LinesRight'
<1>1. PICK c \in Turns : c = ContextOf(k, t)
  BY ContextType DEF ConvInv
<1>2. /\ asked[t] = NoSession /\ state[t] = "none"
      /\ asked' = [asked EXCEPT ![t] = s] /\ ctx' = [ctx EXCEPT ![t] = c]
      /\ lockq' = [lockq EXCEPT ![c] = Append(@, t)]
      /\ UNCHANGED <<worker, saying, sentences>>
  BY <1>1 DEF Respond, ConvInv, LockHeld
<1>3. /\ asked \in [Turns -> Sessions \cup {NoSession}] /\ ctx \in [Turns -> Turns \cup {NoTurn}]
      /\ lockq \in [Turns -> Seq(Turns)]
  BY DEF ConvInv, CallTypes
<1>4. s # NoSession
  BY TurnConstantsOK
<1>5. /\ asked'[t] = s /\ ctx'[t] = c
      /\ \A u \in Turns \ {t} : asked'[u] = asked[u] /\ ctx'[u] = ctx[u]
  BY <1>2, <1>3
<1>6. state'[t] \notin Outcomes /\ \A u \in Turns \ {t} : state'[u] = state[u]
  <2>1. CASE Execute(t, s)
    <3>1. state'[t] \in Waiting /\ \A u \in Turns \ {t} : state'[u] = state[u]
      BY <1>2, <2>1, StartFacts
    <3> QED
      BY <3>1 DEF Waiting, Outcomes
  <2>2. CASE UNCHANGED turnVars
    BY <1>2, <2>2 DEF turnVars, Outcomes
  <2> QED
    BY <2>1, <2>2 DEF Respond
<1>7. PICK q \in Seq(Turns) : q = lockq[c]
  BY <1>3
<1>8. PICK r \in Seq(Turns) : r = Append(q, t)
  BY AppendFacts
<1>9. Len(q) \in Nat /\ Len(r) = Len(q) + 1 /\ r[Len(q) + 1] = t
      /\ \A i \in 1..Len(q) : r[i] = q[i]
  BY <1>7, <1>8, AppendFacts
<1>10. lockq'[c] = r /\ \A d \in Turns \ {c} : lockq'[d] = lockq[d]
  BY <1>2, <1>3, <1>7, <1>8
<1>11. ASSUME NEW d \in Turns, NEW i \in 1..Len(lockq[d])
       PROVE  /\ lockq[d][i] \in Turns \ {t}
              /\ asked'[lockq[d][i]] # NoSession /\ ctx'[lockq[d][i]] = d
              /\ state'[lockq[d][i]] \notin Outcomes
  <2>1. /\ lockq[d][i] \in Turns
        /\ asked[lockq[d][i]] # NoSession /\ ctx[lockq[d][i]] = d
        /\ state[lockq[d][i]] \notin Outcomes
    BY <1>3 DEF LinesRight
  <2>2. lockq[d][i] # t
    BY <2>1, <1>2
  <2> QED
    BY <2>1, <2>2, <1>5, <1>6
<1>12. ASSUME NEW i \in 1..Len(r)
       PROVE  /\ asked'[r[i]] # NoSession /\ ctx'[r[i]] = c /\ state'[r[i]] \notin Outcomes
  <2>1. CASE i \in 1..Len(q)
    BY <2>1, <1>7, <1>9, <1>11
  <2>2. CASE i = Len(q) + 1
    BY <2>2, <1>4, <1>5, <1>6, <1>9
  <2> QED
    BY <2>1, <2>2, <1>9
<1>13. ASSUME NEW i \in 1..Len(r), NEW j \in 1..Len(r), r[i] = r[j]
       PROVE  i = j
  <2>1. \A n \in 1..Len(q) : r[n] = q[n] /\ q[n] # t
    BY <1>7, <1>9, <1>11
  <2>2. \A n, m \in 1..Len(q) : q[n] = q[m] => n = m
    BY <1>7 DEF LinesRight
  <2> QED
    BY <2>1, <2>2, <1>9, <1>13
<1>14. ASSUME NEW d \in Turns, NEW i \in 1..Len(lockq'[d])
       PROVE  /\ asked'[lockq'[d][i]] # NoSession /\ ctx'[lockq'[d][i]] = d
              /\ state'[lockq'[d][i]] \notin Outcomes
  <2>1. CASE d = c
    BY <2>1, <1>10, <1>12, <1>14
  <2>2. CASE d # c
    BY <2>2, <1>10, <1>11, <1>14
  <2> QED
    BY <2>1, <2>2
<1>15. \A d \in Turns : \A i, j \in 1..Len(lockq'[d]) : lockq'[d][i] = lockq'[d][j] => i = j
  BY <1>10, <1>13 DEF LinesRight
<1> QED
  BY <1>14, <1>15 DEF LinesRight

\* A turn that has not ended is in its line.
LEMMA WaitingInLine ==
  ASSUME ConvInv, NEW t \in Turns, state[t] \in Waiting
  PROVE  InLine(t)
<1>1. asked[t] # NoSession
  BY DEF ConvInv, LockHeld, Waiting
<1>2. /\ lockq[ctx[t]] # <<>> /\ lockq[ctx[t]][1] = t
      /\ lockq[ctx[t]] \in Seq(Turns)
  BY <1>1 DEF ConvInv, LockHeld, CallTypes
<1>3. 1 \in DOMAIN lockq[ctx[t]]
  BY <1>2
<1> QED
  BY <1>1, <1>2, <1>3 DEF InLine, PlacesInLine

\* Every step keeps the lines right.
LEMMA LinesStep == ConvInv /\ LinesRight /\ [ConvNext]_<<turnVars, convVars>> => LinesRight'
<1> SUFFICES ASSUME ConvInv, LinesRight, [ConvNext]_<<turnVars, convVars>> PROVE LinesRight'
  OBVIOUS
<1>0. state \in [Turns -> {"none"} \cup Waiting \cup Outcomes]
  BY DEF ConvInv, TurnInv, TurnTypeOK
<1>1. ASSUME UNCHANGED state, UNCHANGED <<asked, ctx, lockq>> PROVE LinesRight'
  BY <1>1, LinesKept
<1>2. ASSUME NEW t \in Turns, NEW s \in Sessions, NEW k \in Keys, Respond(t, s, k)
      PROVE  LinesRight'
  BY <1>2, LinesJoined
<1>3. ASSUME NEW t \in Turns, TakeLock(t) PROVE LinesRight'
  <2>1. asked[t] \in Sessions /\ Execute(t, asked[t]) /\ UNCHANGED convVars
    BY <1>3 DEF TakeLock, InLine, ConvInv, CallTypes
  <2>2. UNCHANGED <<worker, saying, sentences>> /\ UNCHANGED <<asked, ctx, lockq>>
    BY <2>1 DEF convVars
  <2>3. state'[t] \in Waiting /\ \A u \in Turns \ {t} : state'[u] = state[u]
    BY <2>1, <2>2, StartFacts
  <2>4. \A u \in Turns : state'[u] \in Outcomes => state[u] \in Outcomes
    BY <2>3 DEF Waiting, Outcomes
  <2> QED
    BY <2>2, <2>4, LinesKept
<1>4. ASSUME NEW t \in Turns, CallBrain(t) \/ (EnterTurn(t) /\ UNCHANGED convVars)
      PROVE  LinesRight'
  <2>1. \A u \in Turns : state'[u] \in Outcomes => state[u] \in Outcomes
    BY <1>0, <1>4 DEF CallBrain, ContextReady, EnterTurn, Outcomes
  <2>2. UNCHANGED <<asked, ctx, lockq>>
    BY <1>4 DEF CallBrain, convVars
  <2> QED
    BY <2>1, <2>2, LinesKept
<1>5. ASSUME NEW t \in Turns, GiveUp(t) PROVE LinesRight'
  <2>1. InLine(t) /\ LeaveLock(t) /\ UNCHANGED <<state, asked, ctx>>
    BY <1>5 DEF GiveUp, turnVars
  <2> QED
    BY <2>1, LinesLeft
<1>6. ASSUME NEW t \in Turns, Finish(t) \/ Fail(t) \/ CutOff(t) PROVE LinesRight'
  <2>1. /\ \E o \in Outcomes, e \in FinalEvents : EndTurn(t, o, e)
        /\ state[t] \in Waiting
        /\ LeaveLock(t) /\ UNCHANGED <<asked, ctx>>
    BY <1>6 DEF Finish, Fail, CutOff, ProcessorReturns, ProcessorFails, TimesOut,
                IsCancelled, Outcomes, FinalEvents, Waiting
  <2>2. \A u \in Turns \ {t} : state'[u] \in Outcomes => state[u] \in Outcomes
    BY <2>1 DEF EndTurn, Outcomes
  <2>3. InLine(t)
    BY <2>1, WaitingInLine
  <2> QED
    BY <2>1, <2>2, <2>3, LinesLeft
<1>7. ASSUME NEW t \in Turns, Interrupt(t) PROVE LinesRight'
  BY <1>1, <1>7 DEF Interrupt, CancelTurn, CancelCaller, convVars
<1>8. ASSUME NEW t \in Turns, DeadlineExpires(t), UNCHANGED convVars PROVE LinesRight'
  BY <1>1, <1>8 DEF DeadlineExpires, convVars
<1>9. ASSUME NEW t \in Turns, RespondStep(t) PROVE LinesRight'
  BY <1>3, <1>4, <1>6, <1>8, <1>9 DEF RespondStep
<1>10. ASSUME NEW t \in Turns,
              ThreadStarts(t) \/ Speak(t)
                \/ \E how \in {"returned", "raised", "stopped"} : ThreadEnds(t, how)
       PROVE  LinesRight'
  BY <1>1, <1>10 DEF ThreadStarts, Speak, ThreadEnds, turnVars
<1>11. ASSUME NEW t \in Turns, Publish(t) PROVE LinesRight'
  BY <1>1, <1>11 DEF Publish, PublishEvent
<1>12. ASSUME NEW k \in Keys, Release(k) PROVE LinesRight'
  BY <1>1, <1>12 DEF Release, turnVars
<1>13. CASE UNCHANGED <<turnVars, convVars>>
  BY <1>1, <1>13 DEF turnVars, convVars
<1> QED
  BY <1>2, <1>4, <1>5, <1>6, <1>7, <1>9, <1>10, <1>11, <1>12, <1>13 DEF ConvNext

\* In every reachable state the lines for the locks hold the calls that have not
\* returned and nobody else.
THEOREM LinesExact == ConvSpec => []LinesRight
<1>1. ConvInit => LinesRight
  BY DEF ConvInit, LinesRight
<1> QED
  BY <1>1, LinesStep, ConversationInvariant, PTL DEF ConvSpec

\* The first in the line of a call has its lock to take, or a turn that is under way.
LEMMA CallGoesOn ==
  ASSUME ConvInv, LinesRight, SomeTurnGoesOn
  PROVE  SomeCallGoesOn
<1> SUFFICES ASSUME NEW t \in Turns, InLine(t)
             PROVE  \E u \in Turns : LoopCanServe(u) \/ LockIsFor(u)
  BY DEF SomeCallGoesOn
<1>1. PICK c \in Turns : c = ctx[t]
  BY DEF InLine, ConvInv, LockHeld
<1>2. PICK q \in Seq(Turns) : q = lockq[c]
  BY DEF ConvInv, CallTypes
<1>3. q # <<>>
  BY <1>1, <1>2 DEF InLine, PlacesInLine
<1>4. PICK h \in Turns : h = q[1] /\ Head(q) = h /\ 1 \in 1..Len(q) /\ 1 \in DOMAIN q
  BY <1>3
<1>5. asked[h] # NoSession /\ ctx[h] = c /\ state[h] \notin Outcomes
  BY <1>2, <1>4 DEF LinesRight
<1>6. CASE state[h] = "none"
  <2>1. InLine(h)
    BY <1>2, <1>4, <1>5 DEF InLine, PlacesInLine
  <2> QED
    BY <1>2, <1>4, <1>5, <1>6, <2>1 DEF LockIsFor
<1>7. CASE state[h] \in Waiting
  BY <1>7 DEF SomeTurnGoesOn
<1> QED
  BY <1>5, <1>6, <1>7 DEF ConvInv, TurnInv, TurnTypeOK

\* Calls that wait for the lock of their context, for a permit, for their context or for
\* their thread never all wait for each other, threads that hang included: the first of
\* each line can take its lock, be served, or be cut off.
THEOREM CallsNeverStuck == ConvSpec => []SomeCallGoesOn
<1>1. ConvInit => PermitInv /\ TokenWithTask
  BY TurnInitPermits DEF ConvInit, TurnInit, TokenWithTask
<1>2. ConvInv /\ PermitInv /\ TokenWithTask /\ [ConvNext]_<<turnVars, convVars>>
        => PermitInv' /\ TokenWithTask'
  <2> SUFFICES ASSUME ConvInv, PermitInv, TokenWithTask, [ConvNext]_<<turnVars, convVars>>
               PROVE  PermitInv' /\ TokenWithTask'
    OBVIOUS
  <2>1. TurnInv /\ ([TurnNext]_turnVars \/ Published)
    BY CoordinatorStep DEF ConvInv
  <2>2. CASE Published
    <3>1. UNCHANGED <<state, token, hits>>
      BY <2>2 DEF Published, PublishEvent
    <3> QED
      BY <2>1, <2>2, <3>1, PublishedKeeps DEF TokenWithTask
  <2> QED
    BY <2>1, <2>2, NextKeepsPermits, TokensStep
<1>3. ConvInv /\ PermitInv /\ TokenWithTask /\ LinesRight => SomeCallGoesOn
  BY TurnGoesOn, CallGoesOn DEF ConvInv
<1> QED
  BY <1>1, <1>2, <1>3, LinesExact, ConversationInvariant, PTL DEF ConvSpec
================================================================================
