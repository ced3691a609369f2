------------------------- MODULE TurnCoordinatorProofs -------------------------
(***************************************************************************)
(* For any number of turns, sessions and permits: the registries of the    *)
(* coordinator hold exactly the turns that have not ended, and the newest  *)
(* turn of a session is the only one that goes on.                         *)
(***************************************************************************)
EXTENDS TurnCoordinator, FiniteSetTheorems, TLAPS

\* A turn that has not started has not been cancelled, one that has started and
\* not ended is registered and belongs to a session, and nothing else is.
ActiveTurns ==
  /\ \A t \in Turns : state[t] = "none" => hits[t] = {}
  /\ \A t \in Turns : t \in active <=> state[t] \in Waiting
  /\ \A t \in active : sessionOf[t] \in Sessions

\* A session's entry is one of its turns, and a turn that is not its session's
\* entry has been cancelled, task and token.
SessionEntries ==
  /\ \A s \in Sessions :
       sessionTurn[s] # NoTurn =>
         sessionTurn[s] \in active /\ sessionOf[sessionTurn[s]] = s
  /\ \A t \in active :
       sessionTurn[sessionOf[t]] # t => token[t] # "none" /\ "cancel" \in hits[t]

TurnInv == TurnTypeOK /\ ActiveTurns /\ SessionEntries

(***************************************************************************)
(* Steps that several actions share                                        *)
(***************************************************************************)
\* Cancelling a registered turn keeps the types.
LEMMA CancelTypes ==
  ASSUME TurnInv, NEW t \in Turns, NEW why \in Reasons, CancelActive(t, why)
  PROVE  /\ token' \in [Turns -> Reasons \cup {"none"}]
         /\ hits' \in [Turns -> SUBSET {"cancel", "deadline"}]
         /\ token'[t] # "none" /\ "cancel" \in hits'[t]
         /\ \A u \in Turns : /\ token[u] # "none" => token'[u] # "none"
                             /\ "cancel" \in hits[u] => "cancel" \in hits'[u]
                             /\ u # t => hits'[u] = hits[u]
  BY DEF TurnInv, TurnTypeOK, CancelActive, CancelToken, Reasons

\* Publishing an event keeps the type of events.
LEMMA EmitType ==
  ASSUME TurnTypeOK, NEW t \in Turns, NEW e \in EventTypes, Emit(t, e)
  PROVE  events' \in [Turns -> Seq(EventTypes)]
<1>1. events[t] \in Seq(EventTypes)
  BY DEF TurnTypeOK
<1>2. Append(events[t], e) \in Seq(EventTypes)
  BY <1>1
<1> QED
  BY <1>2 DEF TurnTypeOK, Emit

\* A turn that ends keeps the invariant, whatever becomes of its token.
LEMMA EndKeepsInv ==
  ASSUME TurnInv,
         NEW t \in Turns, state[t] \in Waiting,
         NEW o \in Outcomes, NEW e \in EventTypes, EndTurn(t, o, e),
         token' \in [Turns -> Reasons \cup {"none"}],
         hits' \in [Turns -> SUBSET {"cancel", "deadline"}],
         \A u \in Turns \ {t} : token'[u] = token[u] /\ hits'[u] = hits[u]
  PROVE  TurnInv'
<1>1. /\ state' \in [Turns -> {"none"} \cup Waiting \cup Outcomes]
      /\ state'[t] = o
      /\ \A u \in Turns \ {t} : /\ state'[u] \in Waiting <=> state[u] \in Waiting
                                /\ state'[u] = "none" => state[u] = "none"
  BY DEF TurnInv, TurnTypeOK, EndTurn, Woken, First, Queue, Waiting, Outcomes
<1>2. events' \in [Turns -> Seq(EventTypes)]
  BY EmitType DEF EndTurn, TurnInv
<1>3. history' \in Seq([turn : Turns, state : Outcomes])
  <2> DEFINE old == IF Len(history) < HistoryLimit THEN history ELSE Tail(history)
             new == [turn |-> t, state |-> o]
  <2>1. history \in Seq([turn : Turns, state : Outcomes])
    BY DEF TurnInv, TurnTypeOK
  <2>2. ~(Len(history) < HistoryLimit) => history # <<>>
    BY <2>1, TurnConstantsOK
  <2>3. old \in Seq([turn : Turns, state : Outcomes])
    BY <2>1, <2>2
  <2>4. new \in [turn : Turns, state : Outcomes]
    OBVIOUS
  <2>5. history' = Append(old, new)
    BY DEF EndTurn
  <2> HIDE DEF old, new
  <2> QED
    BY <2>3, <2>4, <2>5
<1>4. /\ active' = active \ {t}
      /\ sessionTurn' = [s \in Sessions |-> IF sessionTurn[s] = t THEN NoTurn
                                                                 ELSE sessionTurn[s]]
      /\ sessionOf' = sessionOf /\ ahead' = ahead
  BY DEF EndTurn, Unregister
<1>5. TurnTypeOK'
  BY <1>1, <1>2, <1>3, <1>4 DEF TurnInv, TurnTypeOK
<1>6. ActiveTurns'
  BY <1>1, <1>4 DEF TurnInv, TurnTypeOK, ActiveTurns, Outcomes, Waiting
<1>7. SessionEntries'
  BY <1>1, <1>4, <1>6, TurnConstantsOK DEF TurnInv, TurnTypeOK, ActiveTurns, SessionEntries
<1> QED
  BY <1>5, <1>6, <1>7 DEF TurnInv

(***************************************************************************)
(* The invariant                                                           *)
(***************************************************************************)
LEMMA TurnInitInv == TurnInit => TurnInv
<1> SUFFICES ASSUME TurnInit PROVE TurnInv
  OBVIOUS
<1>1. <<>> \in Seq([turn : Turns, state : Outcomes]) /\ <<>> \in Seq(EventTypes)
  OBVIOUS
<1>2. TurnTypeOK
  BY <1>1 DEF TurnInit, TurnTypeOK
<1>3. ActiveTurns
  BY DEF TurnInit, ActiveTurns, Waiting
<1>4. SessionEntries
  BY DEF TurnInit, SessionEntries
<1> QED
  BY <1>2, <1>3, <1>4 DEF TurnInv

\* What becomes of the session's entry and of the cancellations when a turn
\* starts.
LEMMA SupersedeFacts ==
  ASSUME TurnInv, NEW t \in Turns, NEW s \in Sessions, state[t] = "none", Supersede(s)
  PROVE  /\ token' \in [Turns -> Reasons \cup {"none"}]
         /\ hits' \in [Turns -> SUBSET {"cancel", "deadline"}]
         /\ t \notin active /\ sessionTurn[s] # t
         /\ hits'[t] = {}
         /\ sessionTurn[s] # NoTurn =>
              token'[sessionTurn[s]] # "none" /\ "cancel" \in hits'[sessionTurn[s]]
         /\ \A u \in Turns : /\ token[u] # "none" => token'[u] # "none"
                             /\ "cancel" \in hits[u] => "cancel" \in hits'[u]
                             /\ u # sessionTurn[s] => hits'[u] = hits[u]
<1>1. t \notin active /\ sessionTurn[s] # t
  <2>1. t \notin active
    BY DEF TurnInv, ActiveTurns, Waiting
  <2> QED
    BY <2>1, TurnConstantsOK DEF TurnInv, SessionEntries
<1>2. CASE sessionTurn[s] = NoTurn
  BY <1>1, <1>2 DEF Supersede, TurnInv, TurnTypeOK, ActiveTurns
<1>3. CASE sessionTurn[s] # NoTurn
  <2>1. sessionTurn[s] \in Turns
    BY <1>3 DEF TurnInv, TurnTypeOK
  <2>2. CancelActive(sessionTurn[s], "superseded_by_new_turn")
    BY <1>3 DEF Supersede
  <2>3. "superseded_by_new_turn" \in Reasons
    BY DEF Reasons
  <2>4. hits[t] = {}
    BY DEF TurnInv, ActiveTurns
  <2> DEFINE old == sessionTurn[s]
  <2> HIDE DEF old
  <2>5. /\ token' \in [Turns -> Reasons \cup {"none"}]
        /\ hits' \in [Turns -> SUBSET {"cancel", "deadline"}]
        /\ token'[old] # "none" /\ "cancel" \in hits'[old]
        /\ \A u \in Turns : /\ token[u] # "none" => token'[u] # "none"
                            /\ "cancel" \in hits[u] => "cancel" \in hits'[u]
                            /\ u # old => hits'[u] = hits[u]
    <3>1. old \in Turns /\ CancelActive(old, "superseded_by_new_turn")
      BY <2>1, <2>2 DEF old
    <3> QED
      BY <3>1, <2>3, CancelTypes
  <2> QED
    BY <1>1, <2>4, <2>5 DEF old
<1> QED
  BY <1>2, <1>3

LEMMA ExecuteKeepsInv ==
  ASSUME TurnInv, NEW t \in Turns, NEW s \in Sessions, Execute(t, s)
  PROVE  TurnInv'
<1>1. state[t] = "none" /\ Supersede(s)
  BY DEF Execute
<1>2. /\ token' \in [Turns -> Reasons \cup {"none"}]
      /\ hits' \in [Turns -> SUBSET {"cancel", "deadline"}]
      /\ t \notin active /\ sessionTurn[s] # t
      /\ hits'[t] = {}
      /\ sessionTurn[s] # NoTurn =>
           token'[sessionTurn[s]] # "none" /\ "cancel" \in hits'[sessionTurn[s]]
      /\ \A u \in Turns : /\ token[u] # "none" => token'[u] # "none"
                          /\ "cancel" \in hits[u] => "cancel" \in hits'[u]
                          /\ u # sessionTurn[s] => hits'[u] = hits[u]
  BY <1>1, SupersedeFacts
<1>3. /\ sessionOf' = [sessionOf EXCEPT ![t] = s]
      /\ active' = active \cup {t}
      /\ sessionTurn' = [sessionTurn EXCEPT ![s] = t]
      /\ history' = history
      /\ ahead' = [ahead EXCEPT ![t] = Queue \ {sessionTurn[s]}]
  BY DEF Execute
<1>4. \E new \in {"preparing_context", "created"} : state' = [state EXCEPT ![t] = new]
  BY DEF Execute
<1>5. events' \in [Turns -> Seq(EventTypes)]
  <2>1. Emit(t, "started") /\ "started" \in EventTypes
    BY DEF Execute, EventTypes
  <2> QED
    BY <2>1, EmitType DEF TurnInv
<1>6. TurnTypeOK'
  <2>1. state' \in [Turns -> {"none"} \cup Waiting \cup Outcomes]
    BY <1>4 DEF TurnInv, TurnTypeOK, Waiting
  <2>2. /\ sessionOf' \in [Turns -> Sessions \cup {NoSession}]
        /\ sessionTurn' \in [Sessions -> Turns \cup {NoTurn}]
        /\ active' \subseteq Turns /\ history' \in Seq([turn : Turns, state : Outcomes])
    BY <1>3 DEF TurnInv, TurnTypeOK
  <2>3. ahead' \in [Turns -> SUBSET Turns]
    BY <1>3 DEF TurnInv, TurnTypeOK, Queue
  <2> QED
    BY <1>2, <1>5, <2>1, <2>2, <2>3 DEF TurnTypeOK
<1>7. ActiveTurns'
  <2>1. \A u \in Turns : state'[u] = "none" => hits'[u] = {}
    <3> SUFFICES ASSUME NEW u \in Turns, state'[u] = "none" PROVE hits'[u] = {}
      OBVIOUS
    <3>1. u # t /\ state[u] = "none"
      BY <1>4 DEF TurnInv, TurnTypeOK
    <3>2. hits[u] = {} /\ u \notin active
      BY <3>1 DEF TurnInv, ActiveTurns, Waiting
    <3>3. u # sessionTurn[s]
      BY <3>2, TurnConstantsOK DEF TurnInv, SessionEntries
    <3> QED
      BY <3>2, <3>3, <1>2
  <2>2. \A u \in Turns : u \in active' <=> state'[u] \in Waiting
    BY <1>3, <1>4 DEF TurnInv, TurnTypeOK, ActiveTurns, Waiting
  <2>3. \A u \in active' : sessionOf'[u] \in Sessions
    BY <1>3 DEF TurnInv, TurnTypeOK, ActiveTurns
  <2> QED
    BY <2>1, <2>2, <2>3 DEF ActiveTurns
<1>8. SessionEntries'
  <2>1. ASSUME NEW r \in Sessions, sessionTurn'[r] # NoTurn
        PROVE  sessionTurn'[r] \in active' /\ sessionOf'[sessionTurn'[r]] = r
    BY <1>2, <1>3, <2>1 DEF TurnInv, TurnTypeOK, ActiveTurns, SessionEntries
  <2>2. ASSUME NEW u \in active', sessionTurn'[sessionOf'[u]] # u
        PROVE  token'[u] # "none" /\ "cancel" \in hits'[u]
    <3>1. u # t /\ u \in active /\ u \in Turns /\ sessionOf[u] \in Sessions
      BY <2>2, <1>3 DEF TurnInv, TurnTypeOK, ActiveTurns
    <3>2. sessionOf'[u] = sessionOf[u]
      BY <3>1, <1>3 DEF TurnInv, TurnTypeOK
    <3>3. CASE sessionOf[u] = s /\ sessionTurn[s] = u
      BY <3>1, <3>3, <1>2, TurnConstantsOK
    <3>4. CASE ~(sessionOf[u] = s /\ sessionTurn[s] = u)
      <4>1. sessionTurn[sessionOf[u]] # u
        BY <3>1, <3>2, <3>4, <2>2, <1>3 DEF TurnInv, TurnTypeOK
      <4> QED
        BY <4>1, <3>1, <1>2 DEF TurnInv, SessionEntries
    <3> QED
      BY <3>3, <3>4
  <2> QED
    BY <2>1, <2>2 DEF SessionEntries
<1> QED
  BY <1>6, <1>7, <1>8 DEF TurnInv

\* A turn that resumes with its permit may wake one that waits.
LEMMA EnterFacts ==
  ASSUME TurnInv, NEW t \in Turns, EnterTurn(t)
  PROVE  /\ state[t] = "granted" /\ state'[t] = "preparing_context"
         /\ \A u \in Turns \ {t} :
              state'[u] = IF u \in WokenOnward THEN "granted" ELSE state[u]
         /\ \A u \in WokenOnward : u \in Queue /\ state[u] = "created" /\ state'[u] = "granted"
         /\ state' \in [Turns -> {"none"} \cup Waiting \cup Outcomes]
<1>1. /\ state[t] = "granted"
      /\ state' = [u \in Turns |-> IF u = t THEN "preparing_context"
                                   ELSE IF u \in WokenOnward THEN "granted" ELSE state[u]]
  BY DEF EnterTurn
<1>2. \A u \in WokenOnward : u \in Queue /\ u \in Turns /\ state[u] = "created"
  BY DEF WokenOnward, First, Queue
<1>3. state \in [Turns -> {"none"} \cup Waiting \cup Outcomes]
  BY DEF TurnInv, TurnTypeOK
<1> QED
  BY <1>1, <1>2, <1>3 DEF Waiting

\* Every step keeps the invariant.
LEMMA TurnNextInv == TurnInv /\ [TurnNext]_turnVars => TurnInv'
<1> SUFFICES ASSUME TurnInv, [TurnNext]_turnVars PROVE TurnInv'
  OBVIOUS
<1>1. ASSUME NEW t \in Turns, NEW s \in Sessions, Execute(t, s) PROVE TurnInv'
  BY <1>1, ExecuteKeepsInv
<1>2. ASSUME NEW t \in Turns, CancelTurn(t) PROVE TurnInv'
  <2>1. CancelActive(t, "interrupted") /\ "interrupted" \in Reasons
    BY <1>2 DEF CancelTurn, Reasons
  <2>2. /\ token' \in [Turns -> Reasons \cup {"none"}]
        /\ hits' \in [Turns -> SUBSET {"cancel", "deadline"}]
        /\ \A u \in Turns : /\ token[u] # "none" => token'[u] # "none"
                            /\ "cancel" \in hits[u] => "cancel" \in hits'[u]
                            /\ u # t => hits'[u] = hits[u]
    BY <2>1, CancelTypes
  <2>3. t \in active /\ UNCHANGED <<state, sessionOf, ahead, active, sessionTurn, history, events>>
    BY <1>2 DEF CancelTurn
  <2> QED
    BY <2>2, <2>3 DEF TurnInv, TurnTypeOK, ActiveTurns, SessionEntries, Waiting
<1>3. ASSUME NEW s \in Sessions, CancelSession(s) PROVE TurnInv'
  <2>1. sessionTurn[s] \in Turns /\ CancelTurn(sessionTurn[s])
    BY <1>3 DEF CancelSession, TurnInv, TurnTypeOK
  <2> QED
    BY <2>1, <1>2
<1>4. ASSUME NEW t \in Turns, CancelCaller(t) PROVE TurnInv'
  <2>1. /\ t \in active /\ hits' = [hits EXCEPT ![t] = @ \cup {"cancel"}]
        /\ UNCHANGED <<state, sessionOf, token, ahead, active, sessionTurn, history, events>>
    BY <1>4 DEF CancelCaller
  <2>2. hits' \in [Turns -> SUBSET {"cancel", "deadline"}]
        /\ \A u \in Turns : /\ "cancel" \in hits[u] => "cancel" \in hits'[u]
                            /\ u # t => hits'[u] = hits[u]
    BY <2>1 DEF TurnInv, TurnTypeOK
  <2>3. state[t] # "none"
    BY <2>1 DEF TurnInv, ActiveTurns, Waiting
  <2>4. TurnTypeOK' /\ ActiveTurns'
    BY <2>1, <2>2, <2>3 DEF TurnInv, TurnTypeOK, ActiveTurns
  <2>5. SessionEntries'
    BY <2>1, <2>2 DEF TurnInv, TurnTypeOK, SessionEntries
  <2> QED
    BY <2>4, <2>5 DEF TurnInv
<1>5. ASSUME NEW t \in Turns, CloseStream(t) PROVE TurnInv'
  BY <1>5 DEF CloseStream, CancelToken, TurnInv, TurnTypeOK, ActiveTurns, SessionEntries, Reasons
<1>6. ASSUME NEW t \in Turns, DeadlineExpires(t) PROVE TurnInv'
  BY <1>6 DEF DeadlineExpires, TurnInv, TurnTypeOK, ActiveTurns, SessionEntries
<1>7. ASSUME NEW t \in Turns, EnterTurn(t) PROVE TurnInv'
  <2>1. UNCHANGED <<sessionOf, token, hits, ahead, active, sessionTurn, history, events>>
    BY <1>7 DEF EnterTurn
  <2>2. TurnTypeOK'
    BY <1>7, <2>1, EnterFacts DEF TurnInv, TurnTypeOK
  <2>3. \A u \in Turns : /\ state'[u] = "none" => state[u] = "none"
                         /\ state'[u] \in Waiting <=> state[u] \in Waiting
    BY <1>7, EnterFacts DEF Waiting
  <2>4. ActiveTurns'
    BY <2>1, <2>3 DEF TurnInv, ActiveTurns
  <2>5. SessionEntries'
    BY <2>1 DEF TurnInv, SessionEntries
  <2> QED
    BY <2>2, <2>4, <2>5 DEF TurnInv
<1>8. ASSUME NEW t \in Turns, ContextReady(t) PROVE TurnInv'
  <2>1. Emit(t, "context") /\ "context" \in EventTypes
    BY <1>8 DEF ContextReady, EventTypes
  <2>2. events' \in [Turns -> Seq(EventTypes)]
    BY <2>1, EmitType DEF TurnInv
  <2>3. TurnTypeOK'
    BY <1>8, <2>2 DEF ContextReady, TurnInv, TurnTypeOK, Waiting
  <2>4. ActiveTurns'
    BY <1>8 DEF ContextReady, TurnInv, TurnTypeOK, ActiveTurns, Waiting
  <2>5. SessionEntries'
    BY <1>8 DEF ContextReady, TurnInv, SessionEntries
  <2> QED
    BY <2>3, <2>4, <2>5 DEF TurnInv
<1>9. ASSUME NEW t \in Turns, NEW o \in Outcomes, NEW e \in EventTypes, EndTurn(t, o, e),
             state[t] \in Waiting, UNCHANGED <<token, hits>>
      PROVE  TurnInv'
  <2>1. /\ token' \in [Turns -> Reasons \cup {"none"}]
        /\ hits' \in [Turns -> SUBSET {"cancel", "deadline"}]
        /\ \A u \in Turns \ {t} : token'[u] = token[u] /\ hits'[u] = hits[u]
    BY <1>9 DEF TurnInv, TurnTypeOK
  <2> QED
    BY <1>9, <2>1, EndKeepsInv
<1>10. ASSUME NEW t \in Turns, ProcessorReturns(t) PROVE TurnInv'
  <2>1. state[t] \in Waiting /\ UNCHANGED <<token, hits>>
    BY <1>10 DEF ProcessorReturns, Waiting
  <2>2. {"completed", "cancelled"} \subseteq Outcomes \cap EventTypes
    BY DEF Outcomes, EventTypes
  <2>3. EndTurn(t, "completed", "completed") \/ EndTurn(t, "cancelled", "cancelled")
    BY <1>10 DEF ProcessorReturns
  <2> QED
    BY <2>1, <2>2, <2>3, <1>9
<1>11. ASSUME NEW t \in Turns, NEW why \in Reasons, CancelToken(t, why),
              hits' = [hits EXCEPT ![t] = {}] \/ hits' = hits
       PROVE  /\ token' \in [Turns -> Reasons \cup {"none"}]
              /\ hits' \in [Turns -> SUBSET {"cancel", "deadline"}]
              /\ \A u \in Turns \ {t} : token'[u] = token[u] /\ hits'[u] = hits[u]
  BY <1>11 DEF CancelToken, TurnInv, TurnTypeOK
<1>12. ASSUME NEW t \in Turns, ProcessorFails(t) PROVE TurnInv'
  <2>1. state[t] \in Waiting /\ hits' = hits
    BY <1>12 DEF ProcessorFails, Waiting
  <2>2. {"failed", "timed_out"} \subseteq Outcomes /\ "failed" \in EventTypes
    BY DEF Outcomes, EventTypes
  <2>3. CASE EndTurn(t, "failed", "failed") /\ UNCHANGED token
    BY <2>1, <2>2, <2>3, <1>9
  <2>4. CASE EndTurn(t, "timed_out", "failed") /\ CancelToken(t, "deadline_exceeded")
    <3>1. "deadline_exceeded" \in Reasons
      BY DEF Reasons
    <3> QED
      BY <2>1, <2>2, <2>4, <3>1, <1>11, EndKeepsInv
  <2> QED
    BY <2>3, <2>4, <1>12 DEF ProcessorFails
<1>13. ASSUME NEW t \in Turns, TimesOut(t) PROVE TurnInv'
  <2>1. /\ state[t] \in Waiting /\ CancelToken(t, "deadline_exceeded")
        /\ hits' = [hits EXCEPT ![t] = {}] /\ EndTurn(t, "timed_out", "failed")
    BY <1>13 DEF TimesOut
  <2>2. "deadline_exceeded" \in Reasons /\ "timed_out" \in Outcomes /\ "failed" \in EventTypes
    BY DEF Reasons, Outcomes, EventTypes
  <2> QED
    BY <2>1, <2>2, <1>11, EndKeepsInv
<1>14. ASSUME NEW t \in Turns, IsCancelled(t) PROVE TurnInv'
  <2>1. /\ state[t] \in Waiting /\ CancelToken(t, "cancelled")
        /\ hits' = [hits EXCEPT ![t] = {}] /\ EndTurn(t, "cancelled", "cancelled")
    BY <1>14 DEF IsCancelled
  <2>2. "cancelled" \in Reasons /\ "cancelled" \in Outcomes /\ "cancelled" \in EventTypes
    BY DEF Reasons, Outcomes, EventTypes
  <2> QED
    BY <2>1, <2>2, <1>11, EndKeepsInv
<1>15. CASE UNCHANGED turnVars
  BY <1>15 DEF turnVars, TurnInv, TurnTypeOK, ActiveTurns, SessionEntries
<1> QED
  BY <1>1, <1>2, <1>3, <1>4, <1>5, <1>6, <1>7, <1>8, <1>10, <1>12, <1>13, <1>14, <1>15
  DEF TurnNext, LoopStep

\* The coordinator's variables are well typed, and its registries and its turns
\* agree (TurnInv), in every reachable state.
THEOREM TurnInvariant == TurnSpec => []TurnInv
  BY TurnInitInv, TurnNextInv, PTL DEF TurnSpec

\* Every variable of the coordinator keeps its type.
THEOREM TurnTypes == TurnSpec => []TurnTypeOK
<1>1. TurnInv => TurnTypeOK
  BY DEF TurnInv
<1> QED
  BY <1>1, TurnInvariant, PTL

\* _active and _session_turns hold exactly the turns that have not ended, each
\* session's entry is its newest turn, and all its other turns are cancelled.
THEOREM RegistriesExact == TurnSpec => []Registered
<1>1. TurnInv => Registered
  BY DEF TurnInv, TurnTypeOK, ActiveTurns, SessionEntries, Registered
<1> QED
  BY <1>1, TurnInvariant, PTL

(***************************************************************************)
(* What a session is promised                                              *)
(***************************************************************************)
\* The coordinator's step is a step of SessionTurns, or none that it can see.
PromiseStep == [Promise!Next]_(Promise!vars)

\* Only a turn whose task nobody has cancelled can end other than cancelled.
LEMMA EndKeepsPromise ==
  ASSUME TurnInv,
         NEW t \in Turns, state[t] \in Waiting,
         NEW o \in Outcomes, NEW e \in EventTypes, EndTurn(t, o, e),
         "cancel" \in hits[t] => o = "cancelled",
         \A u \in Turns \ {t} : hits'[u] = hits[u]
  PROVE  PromiseStep
<1>1. /\ state'[t] = o
      /\ \A u \in Turns \ {t} : \/ state'[u] = state[u]
                                \/ state[u] = "created" /\ state'[u] = "granted"
  BY DEF TurnInv, TurnTypeOK, EndTurn, Woken, First, Queue
<1>2. phaseOf' = [phaseOf EXCEPT ![t] = o]
  BY <1>1 DEF phaseOf, Waiting, Outcomes
<1>3. sessionOf' = sessionOf
  BY DEF EndTurn
<1>4. phaseOf[t] \in {"live", "doomed"} /\ (phaseOf[t] = "doomed" => o = "cancelled")
  BY DEF phaseOf
<1>5. Promise!End(t, o)
  BY <1>2, <1>3, <1>4 DEF Promise!End
<1>6. o \in Promise!Ends
  BY DEF Promise!Ends, Outcomes
<1> QED
  BY <1>5, <1>6 DEF PromiseStep, Promise!Next

\* A turn whose task is cancelled is doomed, if it was not before.
LEMMA CancelKeepsPromise ==
  ASSUME TurnInv, NEW t \in active,
         hits' = [hits EXCEPT ![t] = @ \cup {"cancel"}], UNCHANGED <<state, sessionOf>>
  PROVE  PromiseStep
<1>1. t \in Turns /\ state[t] \in Waiting
  BY DEF TurnInv, TurnTypeOK, ActiveTurns
<1>2. phaseOf' = [phaseOf EXCEPT ![t] = "doomed"]
  BY <1>1 DEF phaseOf, TurnInv, TurnTypeOK
<1>3. CASE "cancel" \in hits[t]
  <2>1. phaseOf' = phaseOf
    BY <1>1, <1>3 DEF phaseOf, TurnInv, TurnTypeOK
  <2> QED
    BY <2>1 DEF PromiseStep, Promise!vars
<1>4. CASE "cancel" \notin hits[t]
  <2>1. phaseOf[t] = "live"
    BY <1>1, <1>4 DEF phaseOf
  <2>2. Promise!Doom(t)
    BY <1>2, <2>1 DEF Promise!Doom
  <2> QED
    BY <1>1, <2>2 DEF PromiseStep, Promise!Next
<1> QED
  BY <1>3, <1>4

\* A turn that starts dooms the live turn of its session: there is one at most,
\* the session's entry.
LEMMA ExecuteKeepsPromise ==
  ASSUME TurnInv, NEW t \in Turns, NEW s \in Sessions, Execute(t, s)
  PROVE  PromiseStep
<1>1. state[t] = "none" /\ Supersede(s) /\ sessionOf' = [sessionOf EXCEPT ![t] = s]
  BY DEF Execute
<1>2. /\ t \notin active /\ sessionTurn[s] # t
      /\ hits'[t] = {}
      /\ sessionTurn[s] # NoTurn => "cancel" \in hits'[sessionTurn[s]]
      /\ \A u \in Turns : u # sessionTurn[s] => hits'[u] = hits[u]
  BY <1>1, SupersedeFacts
<1>3. /\ state'[t] \in Waiting
      /\ \A u \in Turns \ {t} : state'[u] = state[u]
  BY DEF Execute, TurnInv, TurnTypeOK, Waiting
<1>4. phaseOf[t] = "none"
  BY <1>1 DEF phaseOf, Waiting
<1>5. phaseOf'[t] = "live"
  BY <1>2, <1>3 DEF phaseOf
<1>6. ASSUME NEW u \in Turns \ {t}
      PROVE  phaseOf'[u] = IF phaseOf[u] = "live" /\ sessionOf[u] = s THEN "doomed"
                                                                     ELSE phaseOf[u]
  <2>1. state'[u] = state[u]
    BY <1>3
  <2>2. CASE state[u] \notin Waiting
    <3>1. phaseOf'[u] = state[u] /\ phaseOf[u] = state[u]
      BY <2>1, <2>2 DEF phaseOf
    <3>2. state[u] # "live"
      BY DEF TurnInv, TurnTypeOK, Waiting, Outcomes
    <3> QED
      BY <3>1, <3>2
  <2>3. CASE state[u] \in Waiting /\ u = sessionTurn[s]
    <3>1. "cancel" \in hits'[u]
      BY <1>2, <2>3, TurnConstantsOK
    <3>2. phaseOf'[u] = "doomed"
      BY <2>1, <2>3, <3>1 DEF phaseOf
    <3>3. sessionOf[u] = s
      BY <2>3, TurnConstantsOK DEF TurnInv, SessionEntries
    <3>4. phaseOf[u] \in {"live", "doomed"}
      BY <2>3 DEF phaseOf
    <3> QED
      BY <3>2, <3>3, <3>4
  <2>4. CASE state[u] \in Waiting /\ u # sessionTurn[s]
    <3>1. hits'[u] = hits[u]
      BY <1>2, <2>4
    <3>2. phaseOf'[u] = phaseOf[u]
      BY <2>1, <2>4, <3>1 DEF phaseOf
    <3>3. u \in active
      BY <2>4 DEF TurnInv, ActiveTurns
    <3>4. sessionOf[u] = s => "cancel" \in hits[u]
      BY <2>4, <3>3 DEF TurnInv, SessionEntries
    <3>5. phaseOf[u] = "live" => "cancel" \notin hits[u]
      BY <2>4 DEF phaseOf
    <3> QED
      BY <3>2, <3>4, <3>5
  <2> QED
    BY <2>2, <2>3, <2>4
<1>7. phaseOf' = [u \in Turns |->
                    IF u = t THEN "live"
                    ELSE IF phaseOf[u] = "live" /\ sessionOf[u] = s THEN "doomed"
                    ELSE phaseOf[u]]
  <2>1. phaseOf' = [u \in Turns |-> phaseOf'[u]]
    BY DEF phaseOf
  <2> QED
    BY <2>1, <1>5, <1>6
<1>8. Promise!Start(t, s)
  BY <1>1, <1>4, <1>7 DEF Promise!Start
<1> QED
  BY <1>8 DEF PromiseStep, Promise!Next

\* A step that changes neither outcomes nor cancellations shows nothing.
LEMMA QuietStep ==
  ASSUME UNCHANGED sessionOf, phaseOf' = phaseOf
  PROVE  PromiseStep
  BY DEF PromiseStep, Promise!vars

LEMMA NextKeepsPromise == TurnInv /\ [TurnNext]_turnVars => PromiseStep
<1> SUFFICES ASSUME TurnInv, [TurnNext]_turnVars PROVE PromiseStep
  OBVIOUS
<1>1. ASSUME NEW t \in Turns, NEW s \in Sessions, Execute(t, s) PROVE PromiseStep
  BY <1>1, ExecuteKeepsPromise
<1>2. ASSUME NEW t \in Turns, CancelTurn(t) PROVE PromiseStep
  <2>1. t \in active /\ hits' = [hits EXCEPT ![t] = @ \cup {"cancel"}]
        /\ UNCHANGED <<state, sessionOf>>
    BY <1>2 DEF CancelTurn, CancelActive
  <2> QED
    BY <2>1, CancelKeepsPromise
<1>3. ASSUME NEW s \in Sessions, CancelSession(s) PROVE PromiseStep
  <2>1. sessionTurn[s] \in Turns /\ CancelTurn(sessionTurn[s])
    BY <1>3 DEF CancelSession, TurnInv, TurnTypeOK
  <2> QED
    BY <2>1, <1>2
<1>4. ASSUME NEW t \in Turns, CancelCaller(t) PROVE PromiseStep
  <2>1. t \in active /\ hits' = [hits EXCEPT ![t] = @ \cup {"cancel"}]
        /\ UNCHANGED <<state, sessionOf>>
    BY <1>4 DEF CancelCaller
  <2> QED
    BY <2>1, CancelKeepsPromise
<1>5. ASSUME NEW t \in Turns, CloseStream(t) PROVE PromiseStep
  BY <1>5, QuietStep DEF CloseStream, phaseOf
<1>6. ASSUME NEW t \in Turns, DeadlineExpires(t) PROVE PromiseStep
  <2>1. \A u \in Turns : "cancel" \in hits'[u] <=> "cancel" \in hits[u]
    BY <1>6 DEF DeadlineExpires, TurnInv, TurnTypeOK
  <2>2. phaseOf' = phaseOf /\ UNCHANGED sessionOf
    BY <1>6, <2>1 DEF DeadlineExpires, phaseOf
  <2> QED
    BY <2>2, QuietStep
<1>7. ASSUME NEW t \in Turns, EnterTurn(t) PROVE PromiseStep
  <2>1. \A u \in Turns : state'[u] = state[u] \/ (state[u] \in Waiting /\ state'[u] \in Waiting)
    BY <1>7, EnterFacts DEF Waiting
  <2>2. UNCHANGED <<sessionOf, hits>>
    BY <1>7 DEF EnterTurn
  <2>3. phaseOf' = phaseOf
    BY <2>1, <2>2 DEF phaseOf
  <2> QED
    BY <2>2, <2>3, QuietStep
<1>8. ASSUME NEW t \in Turns, ContextReady(t) PROVE PromiseStep
  BY <1>8, QuietStep DEF ContextReady, phaseOf, Waiting, TurnInv, TurnTypeOK
<1>9. ASSUME NEW t \in Turns, ProcessorReturns(t) PROVE PromiseStep
  <2>1. state[t] \in Waiting /\ hits[t] = {} /\ hits' = hits
    BY <1>9 DEF ProcessorReturns, Waiting
  <2>2. {"completed", "cancelled"} \subseteq Outcomes \cap EventTypes
    BY DEF Outcomes, EventTypes
  <2>3. EndTurn(t, "completed", "completed") \/ EndTurn(t, "cancelled", "cancelled")
    BY <1>9 DEF ProcessorReturns
  <2> QED
    BY <2>1, <2>2, <2>3, EndKeepsPromise
<1>10. ASSUME NEW t \in Turns, ProcessorFails(t) PROVE PromiseStep
  <2>1. state[t] \in Waiting /\ hits[t] = {} /\ hits' = hits
    BY <1>10 DEF ProcessorFails, Waiting
  <2>2. {"failed", "timed_out"} \subseteq Outcomes /\ "failed" \in EventTypes
    BY DEF Outcomes, EventTypes
  <2>3. EndTurn(t, "failed", "failed") \/ EndTurn(t, "timed_out", "failed")
    BY <1>10 DEF ProcessorFails
  <2> QED
    BY <2>1, <2>2, <2>3, EndKeepsPromise
<1>11. ASSUME NEW t \in Turns, TimesOut(t) PROVE PromiseStep
  <2>1. state[t] \in Waiting /\ hits[t] = {"deadline"} /\ EndTurn(t, "timed_out", "failed")
    BY <1>11 DEF TimesOut
  <2>2. \A u \in Turns \ {t} : hits'[u] = hits[u]
    BY <1>11 DEF TimesOut, TurnInv, TurnTypeOK
  <2>3. "timed_out" \in Outcomes /\ "failed" \in EventTypes
    BY DEF Outcomes, EventTypes
  <2> QED
    BY <2>1, <2>2, <2>3, EndKeepsPromise
<1>12. ASSUME NEW t \in Turns, IsCancelled(t) PROVE PromiseStep
  <2>1. state[t] \in Waiting /\ EndTurn(t, "cancelled", "cancelled")
    BY <1>12 DEF IsCancelled
  <2>2. \A u \in Turns \ {t} : hits'[u] = hits[u]
    BY <1>12 DEF IsCancelled, TurnInv, TurnTypeOK
  <2>3. "cancelled" \in Outcomes /\ "cancelled" \in EventTypes
    BY DEF Outcomes, EventTypes
  <2> QED
    BY <2>1, <2>2, <2>3, EndKeepsPromise
<1>13. CASE UNCHANGED turnVars
  BY <1>13, QuietStep DEF turnVars, phaseOf
<1> QED
  BY <1>1, <1>2, <1>3, <1>4, <1>5, <1>6, <1>7, <1>8, <1>9, <1>10, <1>11, <1>12, <1>13
  DEF TurnNext, LoopStep

\* The coordinator implements SessionTurns: a turn that has been superseded or
\* interrupted can only end cancelled, and no turn ends twice.
THEOREM NewestTurnGoesOn == TurnSpec => NewestTurnOnly
<1>1. TurnInit => Promise!Init
  BY DEF TurnInit, Promise!Init, phaseOf, Waiting
<1>2. TurnInv /\ [TurnNext]_turnVars => [Promise!Next]_(Promise!vars)
  BY NextKeepsPromise DEF PromiseStep
<1> QED
  BY <1>1, <1>2, TurnInvariant, PTL DEF TurnSpec, NewestTurnOnly, Promise!Spec

(***************************************************************************)
(* The semaphore                                                           *)
(***************************************************************************)
\* Each waiter has joined the queue behind all those that are still in it, or
\* before them; nobody has queued behind a turn that has not started.
QueueOrder ==
  /\ \A u \in Queue : u \notin ahead[u]
  /\ \A u, v \in Queue : u # v => u \in ahead[v] \/ v \in ahead[u]
  /\ \A u, v, w \in Queue : u \in ahead[v] /\ v \in ahead[w] => u \in ahead[w]
  /\ \A t, u \in Turns : state[t] = "none" => t \notin ahead[u]

\* There are finitely many turns at a time, so that somebody is first in the
\* queue and permits can be counted.
PermitInv == IsFiniteSet(active) /\ QueueOrder /\ PermitsKept

\* Holders and waiters are registered.
LEMMA SemaphoreFinite ==
  ASSUME TurnInv, IsFiniteSet(active)
  PROVE  /\ IsFiniteSet(Holders) /\ Cardinality(Holders) \in Nat
         /\ IsFiniteSet(Queue)
<1>1. Holders \in SUBSET active /\ Queue \in SUBSET active
  BY DEF TurnInv, ActiveTurns, Holders, Queue, Waiting
<1> QED
  BY <1>1, FS_Subset, FS_CardinalityType

\* A queue has somebody who is behind nobody in it, the one whose predecessors
\* in the queue are the smallest of these finite sets.
LEMMA SomebodyIsFirst ==
  ASSUME QueueOrder, IsFiniteSet(Queue), Queue # {}
  PROVE  \E w : First(Queue) = {w}
<1> DEFINE Before(u) == ahead[u] \cap Queue
           Befores   == {Before(u) : u \in Queue}
<1>1. Befores \subseteq FiniteSubsetsOf(Queue) /\ Befores # {}
  <2>1. \A u \in Queue : Before(u) \in SUBSET Queue
    OBVIOUS
  <2>2. \A u \in Queue : Before(u) \in FiniteSubsetsOf(Queue)
    BY <2>1, FS_Subset DEF FiniteSubsetsOf
  <2> QED
    BY <2>2
<1>2. IsWellFoundedOn(StrictSubsetOrdering(Queue), FiniteSubsetsOf(Queue))
  BY FS_StrictSubsetOrderingWellFounded
<1>3. PICK x \in Befores :
        \A y \in Befores : <<y, x>> \notin StrictSubsetOrdering(Queue)
  <2> HIDE DEF Befores
  <2> QED
    BY <1>1, <1>2, WFMin
<1>4. PICK w \in Queue : x = Before(w)
  OBVIOUS
<1>5. Before(w) = {}
  <2> SUFFICES ASSUME NEW v \in Before(w) PROVE FALSE
    OBVIOUS
  <2>1. Before(v) \subseteq Before(w)
    BY DEF QueueOrder
  <2>2. v \notin Before(v)
    BY DEF QueueOrder
  <2>3. <<Before(v), Before(w)>> \in (SUBSET Queue) \X (SUBSET Queue)
    OBVIOUS
  <2>4. <<Before(v), Before(w)>> \in StrictSubsetOrdering(Queue)
    <3>1. Before(v) # Before(w)
      BY <2>2
    <3> HIDE DEF Before
    <3> QED
      BY <2>1, <2>3, <3>1 DEF StrictSubsetOrdering
  <2>5. Before(v) \in Befores
    OBVIOUS
  <2> QED
    BY <1>3, <1>4, <2>4, <2>5
<1>6. w \in First(Queue)
  BY <1>5 DEF First
<1>7. \A u \in First(Queue) : u = w
  BY <1>6 DEF First, QueueOrder
<1> QED
  BY <1>6, <1>7

\* Waiters that leave the queue leave the others in their order.
LEMMA ShorterQueue ==
  ASSUME QueueOrder, ahead' = ahead, Queue' \subseteq Queue,
         \A t \in Turns : state'[t] = "none" => state[t] = "none"
  PROVE  QueueOrder'
  BY DEF QueueOrder

\* A step that hands out no permit and takes none keeps them.
LEMMA HoldersKept ==
  ASSUME PermitInv, UNCHANGED <<active, ahead>>, Holders' = Holders, Granted' = Granted,
         Queue' \subseteq Queue,
         \A t \in Turns : state'[t] = "none" => state[t] = "none"
  PROVE  PermitInv'
<1>1. QueueOrder'
  BY ShorterQueue DEF PermitInv
<1>2. PermitsKept'
  BY DEF PermitInv, PermitsKept
<1> QED
  BY <1>1, <1>2 DEF PermitInv

\* A turn that resumes hands a free permit on.
LEMMA EnterKeepsPermits ==
  ASSUME TurnInv, PermitInv, NEW t \in Turns, EnterTurn(t)
  PROVE  PermitInv'
<1>1. UNCHANGED <<active, ahead, hits>> /\ t \in Holders
  BY DEF EnterTurn, Holders
<1>2. /\ state'[t] = "preparing_context"
      /\ \A u \in Turns \ {t} : state'[u] = IF u \in WokenOnward THEN "granted" ELSE state[u]
      /\ \A u \in WokenOnward : u \in Queue /\ state[u] = "created" /\ state'[u] = "granted"
      /\ WokenOnward \subseteq Turns
  BY EnterFacts DEF Queue
<1>3. Queue' \subseteq Queue
  BY <1>1, <1>2 DEF Queue
<1>4. Holders' = Holders \cup WokenOnward
  BY <1>1, <1>2 DEF Holders
<1>5. QueueOrder'
  <2>1. \A u \in Turns : state'[u] = "none" => state[u] = "none"
    BY <1>2
  <2> QED
    BY <1>1, <1>3, <2>1, ShorterQueue DEF PermitInv
<1>6. IsFiniteSet(Holders) /\ Cardinality(Holders) \in Nat /\ IsFiniteSet(Queue)
  BY SemaphoreFinite DEF PermitInv
<1>7. PermitsKept'
  <2>1. CASE ~(Cardinality(Holders) < MaxActive)
    <3>1. Cardinality(Holders) = MaxActive
      BY <1>6, <2>1, TurnConstantsOK DEF PermitInv, PermitsKept
    <3>2. Holders' = Holders
      BY <1>4, <2>1 DEF WokenOnward
    <3> QED
      BY <3>1, <3>2, TurnConstantsOK DEF PermitsKept
  <2>2. CASE Cardinality(Holders) < MaxActive /\ Queue = {}
    <3>1. WokenOnward = {}
      BY <1>2, <2>2
    <3> QED
      BY <1>3, <1>4, <2>2, <3>1 DEF PermitInv, PermitsKept
  <2>3. CASE Cardinality(Holders) < MaxActive /\ Queue # {}
    <3>1. PICK w : WokenOnward = {w}
      BY <1>6, <2>3, SomebodyIsFirst DEF PermitInv, WokenOnward
    <3>2. w \notin Holders /\ w \in Turns /\ state'[w] = "granted"
      BY <1>2, <3>1 DEF Holders
    <3>3. Cardinality(Holders') = Cardinality(Holders) + 1
      BY <1>4, <1>6, <3>1, <3>2, FS_AddElement
    <3>4. w \in Granted'
      BY <3>2 DEF Granted
    <3>5. Cardinality(Holders') <= MaxActive
      BY <1>6, <2>3, <3>3, TurnConstantsOK
    <3> QED
      BY <3>4, <3>5 DEF PermitsKept
  <2> QED
    BY <2>1, <2>2, <2>3
<1> QED
  BY <1>1, <1>5, <1>7 DEF PermitInv

\* A turn that cannot enter at once queues behind all that wait, and enters only
\* if nobody waits, nobody is about to resume and a permit is left.
LEMMA ExecuteKeepsPermits ==
  ASSUME TurnInv, PermitInv, NEW t \in Turns, NEW s \in Sessions, Execute(t, s)
  PROVE  PermitInv'
<1> DEFINE waiters == Queue \ {sessionTurn[s]}
           enters  == ~Locked(waiters)
<1>1. /\ state[t] = "none" /\ Supersede(s)
      /\ active' = active \cup {t}
      /\ state' = [state EXCEPT ![t] = IF enters THEN "preparing_context" ELSE "created"]
      /\ ahead' = [ahead EXCEPT ![t] = waiters]
  BY DEF Execute
<1>2. /\ t \notin active /\ sessionTurn[s] # t
      /\ hits'[t] = {}
      /\ sessionTurn[s] # NoTurn => "cancel" \in hits'[sessionTurn[s]]
      /\ \A u \in Turns : u # sessionTurn[s] => hits'[u] = hits[u]
  BY <1>1, SupersedeFacts
<1>3. /\ t \notin Queue /\ t \notin Holders
      /\ Queue \subseteq Turns /\ state \in [Turns -> {"none"} \cup Waiting \cup Outcomes]
      /\ ahead \in [Turns -> SUBSET Turns]
  BY <1>1 DEF Queue, Holders, TurnInv, TurnTypeOK
<1>4. IsFiniteSet(active')
  BY <1>1, FS_AddElement DEF PermitInv
<1>5. Cardinality(Holders) \in Nat /\ IsFiniteSet(Holders)
  BY SemaphoreFinite DEF PermitInv
<1>6. \A u \in Turns \ {t} : u \in Queue' <=> u \in waiters
  <2> SUFFICES ASSUME NEW u \in Turns \ {t} PROVE u \in Queue' <=> u \in waiters
    OBVIOUS
  <2>1. state'[u] = state[u]
    BY <1>1, <1>3
  <2>2. u = sessionTurn[s] => hits'[u] # {}
    BY <1>2, TurnConstantsOK
  <2>3. u # sessionTurn[s] => hits'[u] = hits[u]
    BY <1>2
  <2> QED
    BY <2>1, <2>2, <2>3 DEF Queue
<1>7. \A u \in Queue : ahead'[u] = ahead[u] /\ t \notin ahead[u]
  BY <1>1, <1>3 DEF PermitInv, QueueOrder
<1>8. ahead'[t] = waiters
  BY <1>1, <1>3
<1>9. QueueOrder'
  <2>0. Queue' \subseteq waiters \cup {t} /\ waiters \subseteq Queue
    BY <1>6 DEF Queue
  <2>1. \A u \in Queue' : u \notin ahead'[u]
    BY <2>0, <1>3, <1>7, <1>8 DEF PermitInv, QueueOrder
  <2>2. ASSUME NEW u \in Queue', NEW v \in Queue', u # v
        PROVE  u \in ahead'[v] \/ v \in ahead'[u]
    BY <2>0, <2>2, <1>3, <1>7, <1>8 DEF PermitInv, QueueOrder
  <2>3. ASSUME NEW u \in Queue', NEW v \in Queue', NEW w \in Queue',
               u \in ahead'[v], v \in ahead'[w]
        PROVE  u \in ahead'[w]
    <3>1. v \in waiters
      BY <2>0, <2>3, <1>3, <1>7, <1>8
    <3>2. u \in waiters
      BY <2>0, <2>3, <3>1, <1>7
    <3> QED
      BY <2>0, <2>3, <3>1, <3>2, <1>7, <1>8 DEF PermitInv, QueueOrder
  <2>4. ASSUME NEW r \in Turns, NEW u \in Turns, state'[r] = "none"
        PROVE  r \notin ahead'[u]
    <3>1. state[r] = "none" /\ r \notin Queue
      BY <2>4, <1>1, <1>3 DEF Queue
    <3> QED
      BY <3>1, <1>1, <1>3 DEF PermitInv, QueueOrder
  <2> HIDE DEF waiters
  <2> QED
    BY <2>1, <2>2, <2>3, <2>4 DEF QueueOrder
<1>10. PermitsKept'
  <2>1. CASE enters
    <3>1. state'[t] = "preparing_context" /\ \A u \in Turns \ {t} : state'[u] = state[u]
      BY <2>1, <1>1, <1>3
    <3>2. Holders' = Holders \cup {t}
      BY <3>1 DEF Holders
    <3>3. Cardinality(Holders') = Cardinality(Holders) + 1
      BY <3>2, <1>3, <1>5, FS_AddElement
    <3>31. waiters = {} /\ Cardinality(Holders) # MaxActive
      BY <2>1 DEF Locked
    <3>4. Queue' = {}
      <4>1. t \notin Queue'
        BY <3>1 DEF Queue
      <4>2. \A u \in Queue' : u \in Turns
        BY DEF Queue
      <4> QED
        BY <4>1, <4>2, <1>6, <3>31
    <3>5. Cardinality(Holders') <= MaxActive
      BY <3>3, <3>31, <1>5, TurnConstantsOK DEF PermitInv, PermitsKept
    <3> QED
      BY <3>4, <3>5 DEF PermitsKept
  <2>2. CASE ~enters
    <3>1. state'[t] = "created" /\ \A u \in Turns \ {t} : state'[u] = state[u]
      BY <2>2, <1>1, <1>3
    <3>2. Holders' = Holders
      BY <3>1, <1>3 DEF Holders
    <3>3. Granted' = Granted
      BY <3>1, <1>1 DEF Granted
    <3>4. Cardinality(Holders) = MaxActive \/ Granted # {}
      <4>1. waiters # {} => Queue # {}
        OBVIOUS
      <4> QED
        BY <2>2, <4>1 DEF Locked, PermitInv, PermitsKept
    <3>5. Cardinality(Holders) <= MaxActive
      BY DEF PermitInv, PermitsKept
    <3> QED
      BY <3>2, <3>3, <3>4, <3>5 DEF PermitsKept
  <2> QED
    BY <2>1, <2>2
<1> QED
  BY <1>4, <1>9, <1>10 DEF PermitInv

\* A turn that ends gives its permit, if it has one, to the first waiter.
LEMMA EndKeepsPermits ==
  ASSUME TurnInv, PermitInv,
         NEW t \in Turns, state[t] \in Waiting,
         NEW o \in Outcomes, NEW e \in EventTypes, EndTurn(t, o, e),
         \A u \in Turns \ {t} : hits'[u] = hits[u]
  PROVE  PermitInv'
<1>1. /\ active' = active \ {t}
      /\ ahead' = ahead
      /\ state' = [u \in Turns |-> IF u = t THEN o
                                   ELSE IF u \in Woken(t) THEN "granted" ELSE state[u]]
  BY DEF EndTurn, Unregister
<1>2. o \notin Waiting /\ o # "none"
  BY DEF Outcomes, Waiting
<1>3. Woken(t) \subseteq Queue /\ Woken(t) \subseteq Turns
  BY DEF Woken, First, Queue
<1>4. Queue' \subseteq Queue \ Woken(t)
  BY <1>1, <1>2 DEF Queue, Waiting
<1>5. IsFiniteSet(active')
  BY <1>1, FS_RemoveElement DEF PermitInv
<1>6. QueueOrder'
  <2>1. \A u \in Turns : state'[u] = "none" => state[u] = "none"
    BY <1>1, <1>2
  <2> QED
    BY <1>1, <1>4, <2>1, ShorterQueue DEF PermitInv
<1>7. IsFiniteSet(Holders) /\ Cardinality(Holders) \in Nat /\ IsFiniteSet(Queue)
  BY SemaphoreFinite DEF PermitInv
<1>8. Holders' = (Holders \ {t}) \cup Woken(t)
  <2>1. t \notin Woken(t)
    BY DEF Woken, Holders, First, Queue
  <2>2. \A u \in Turns : u \in Holders' <=> u # t /\ (u \in Woken(t) \/ u \in Holders)
    BY <1>1, <1>2 DEF Holders, Waiting
  <2>3. Holders' \subseteq Turns /\ Holders \subseteq Turns
    BY DEF Holders
  <2> QED
    BY <2>1, <2>2, <2>3, <1>3
<1>9. PermitsKept'
  <2>1. CASE t \notin Holders
    <3>1. Holders' = Holders /\ Woken(t) = {}
      BY <2>1, <1>8 DEF Woken
    <3>2. Granted' = Granted
      BY <2>1, <3>1, <1>1, <1>2 DEF Granted, Holders, Waiting
    <3> QED
      BY <3>1, <3>2, <1>4 DEF PermitInv, PermitsKept
  <2>2. CASE t \in Holders /\ Queue = {}
    <3>1. Woken(t) = {}
      BY <2>2, <1>3
    <3>2. Cardinality(Holders') = Cardinality(Holders) - 1
      <4>1. Holders' = Holders \ {t}
        BY <3>1, <1>8
      <4> QED
        BY <4>1, <2>2, <1>7, FS_RemoveElement
    <3>3. Queue' = {}
      BY <2>2, <1>4
    <3> QED
      BY <3>2, <3>3, <1>7, TurnConstantsOK DEF PermitInv, PermitsKept
  <2>3. CASE t \in Holders /\ Queue # {}
    <3>1. PICK w : First(Queue) = {w}
      BY <2>3, <1>7, SomebodyIsFirst DEF PermitInv
    <3>2. Woken(t) = {w}
      BY <3>1, <2>3 DEF Woken
    <3>3. w \notin Holders
      BY <3>2, <1>3 DEF Queue, Holders
    <3>4. IsFiniteSet(Holders \ {t}) /\ Cardinality(Holders \ {t}) = Cardinality(Holders) - 1
      BY <2>3, <1>7, FS_RemoveElement
    <3>5. Cardinality(Holders') = Cardinality(Holders \ {t}) + 1
      BY <3>2, <3>3, <3>4, <1>8, FS_AddElement
    <3>6. Cardinality(Holders') <= MaxActive
      BY <3>4, <3>5, <1>7 DEF PermitInv, PermitsKept
    <3>7. w \in Granted'
      <4>1. w \in Turns /\ w # t /\ w \in Woken(t)
        BY <2>3, <3>2, <3>3, <1>3
      <4> QED
        BY <4>1, <1>1 DEF Granted
    <3> QED
      BY <3>6, <3>7 DEF PermitsKept
  <2> QED
    BY <2>1, <2>2, <2>3
<1> QED
  BY <1>5, <1>6, <1>9 DEF PermitInv

LEMMA TurnInitPermits == TurnInit => PermitInv
<1> SUFFICES ASSUME TurnInit PROVE PermitInv
  OBVIOUS
<1>1. IsFiniteSet(active)
  BY FS_EmptySet DEF TurnInit
<1>2. Queue = {} /\ Holders = {}
  BY DEF TurnInit, Queue, Holders
<1>3. QueueOrder
  BY <1>2 DEF TurnInit, QueueOrder
<1>4. PermitsKept
  BY <1>2, FS_EmptySet, TurnConstantsOK DEF PermitsKept
<1> QED
  BY <1>1, <1>3, <1>4 DEF PermitInv

LEMMA NextKeepsPermits == TurnInv /\ PermitInv /\ [TurnNext]_turnVars => PermitInv'
<1> SUFFICES ASSUME TurnInv, PermitInv, [TurnNext]_turnVars PROVE PermitInv'
  OBVIOUS
<1>0. /\ state \in [Turns -> {"none"} \cup Waiting \cup Outcomes]
      /\ hits \in [Turns -> SUBSET {"cancel", "deadline"}]
  BY DEF TurnInv, TurnTypeOK
<1>1. ASSUME NEW t \in Turns, NEW s \in Sessions, Execute(t, s) PROVE PermitInv'
  BY <1>1, ExecuteKeepsPermits
<1>2. ASSUME UNCHANGED <<state, active, ahead>>, \A u \in Turns : hits[u] \subseteq hits'[u]
      PROVE  PermitInv'
  <2>1. Holders' = Holders /\ Granted' = Granted /\ Queue' \subseteq Queue
    BY <1>2 DEF Holders, Granted, Queue
  <2> QED
    BY <1>2, <2>1, HoldersKept
<1>3. ASSUME NEW t \in Turns, CancelTurn(t) PROVE PermitInv'
  BY <1>0, <1>2, <1>3 DEF CancelTurn, CancelActive
<1>4. ASSUME NEW s \in Sessions, CancelSession(s) PROVE PermitInv'
  <2>1. sessionTurn[s] \in Turns /\ CancelTurn(sessionTurn[s])
    BY <1>4 DEF CancelSession, TurnInv, TurnTypeOK
  <2> QED
    BY <2>1, <1>3
<1>5. ASSUME NEW t \in Turns, CancelCaller(t) PROVE PermitInv'
  BY <1>0, <1>2, <1>5 DEF CancelCaller
<1>6. ASSUME NEW t \in Turns, CloseStream(t) PROVE PermitInv'
  BY <1>0, <1>2, <1>6 DEF CloseStream
<1>7. ASSUME NEW t \in Turns, DeadlineExpires(t) PROVE PermitInv'
  BY <1>0, <1>2, <1>7 DEF DeadlineExpires
<1>8. ASSUME NEW t \in Turns, ContextReady(t) PROVE PermitInv'
  <2>1. /\ state[t] = "preparing_context" /\ state' = [state EXCEPT ![t] = "running"]
        /\ UNCHANGED <<active, ahead, hits>>
    BY <1>8 DEF ContextReady
  <2>2. Holders' = Holders /\ Granted' = Granted /\ Queue' \subseteq Queue
    BY <1>0, <2>1 DEF Holders, Granted, Queue
  <2>3. \A u \in Turns : state'[u] = "none" => state[u] = "none"
    BY <1>0, <2>1
  <2> QED
    BY <2>1, <2>2, <2>3, HoldersKept
<1>9. ASSUME NEW t \in Turns, EnterTurn(t) PROVE PermitInv'
  BY <1>9, EnterKeepsPermits
<1>10. ASSUME NEW t \in Turns, ProcessorReturns(t) PROVE PermitInv'
  <2>1. state[t] \in Waiting /\ hits' = hits
    BY <1>10 DEF ProcessorReturns, Waiting
  <2>2. {"completed", "cancelled"} \subseteq Outcomes \cap EventTypes
    BY DEF Outcomes, EventTypes
  <2>3. EndTurn(t, "completed", "completed") \/ EndTurn(t, "cancelled", "cancelled")
    BY <1>10 DEF ProcessorReturns
  <2> QED
    BY <2>1, <2>2, <2>3, EndKeepsPermits
<1>11. ASSUME NEW t \in Turns, ProcessorFails(t) PROVE PermitInv'
  <2>1. state[t] \in Waiting /\ hits' = hits
    BY <1>11 DEF ProcessorFails, Waiting
  <2>2. {"failed", "timed_out"} \subseteq Outcomes /\ "failed" \in EventTypes
    BY DEF Outcomes, EventTypes
  <2>3. EndTurn(t, "failed", "failed") \/ EndTurn(t, "timed_out", "failed")
    BY <1>11 DEF ProcessorFails
  <2> QED
    BY <2>1, <2>2, <2>3, EndKeepsPermits
<1>12. ASSUME NEW t \in Turns, TimesOut(t) \/ IsCancelled(t) PROVE PermitInv'
  <2>1. /\ state[t] \in Waiting
        /\ EndTurn(t, "timed_out", "failed") \/ EndTurn(t, "cancelled", "cancelled")
        /\ hits' = [hits EXCEPT ![t] = {}]
    BY <1>12 DEF TimesOut, IsCancelled
  <2>2. \A u \in Turns \ {t} : hits'[u] = hits[u]
    BY <1>0, <2>1
  <2>3. {"timed_out", "cancelled"} \subseteq Outcomes /\ {"failed", "cancelled"} \subseteq EventTypes
    BY DEF Outcomes, EventTypes
  <2> QED
    BY <2>1, <2>2, <2>3, EndKeepsPermits
<1>13. CASE UNCHANGED turnVars
  BY <1>2, <1>13 DEF turnVars
<1> QED
  BY <1>1, <1>3, <1>4, <1>5, <1>6, <1>7, <1>8, <1>9, <1>10, <1>11, <1>12, <1>13
  DEF TurnNext, LoopStep

\* Never more turns than permits hold one, and as long as anybody waits all are
\* held or somebody who has been given one is about to resume.  Who comes in
\* between queues behind him although another permit may be free, and he wakes the
\* first waiter for it; so does a turn that ends, however it ends.
THEOREM NoPermitLost == TurnSpec => []PermitsKept
<1>1. PermitInv => PermitsKept
  BY DEF PermitInv
<1> QED
  BY <1>1, TurnInitPermits, NextKeepsPermits, TurnInvariant, PTL DEF TurnSpec

(***************************************************************************)
(* No turn waits for ever                                                  *)
(***************************************************************************)
\* The guards of LoopStep(t): the loop has a step of t's task to run, or its deadline
\* is to come.
LoopCanServe(t) ==
  \/ state[t] = "granted" /\ hits[t] = {} /\ token[t] = "none"
  \/ state[t] \in {"preparing_context", "running"} /\ "deadline" \notin hits[t]
  \/ state[t] \in Waiting /\ (hits[t] = {"deadline"} \/ "cancel" \in hits[t])

\* As long as a turn has not ended, the loop has something to do for one of them.
SomeTurnGoesOn ==
  (\E t \in Turns : state[t] \in Waiting) => \E t \in Turns : LoopCanServe(t)

\* Before the processor runs, a token is cancelled together with its task, which has
\* not met that yet: a turn cannot be granted its permit with a dead token only.
TokenWithTask ==
  \A t \in Turns :
    state[t] \in {"none", "created", "granted"} /\ hits[t] = {} => token[t] = "none"

\* A turn that ends hands its permit to a turn that nobody has cancelled.
LEMMA EndKeepsTokens ==
  ASSUME TurnInv, TokenWithTask,
         NEW t \in Turns, NEW o \in Outcomes, NEW e \in EventTypes, EndTurn(t, o, e),
         \A u \in Turns \ {t} : token'[u] = token[u] /\ hits'[u] = hits[u]
  PROVE  TokenWithTask'
<1> SUFFICES ASSUME NEW u \in Turns, state'[u] \in {"none", "created", "granted"},
                    hits'[u] = {}
             PROVE  token'[u] = "none"
  BY DEF TokenWithTask
<1>1. state'[u] = (IF u = t THEN o ELSE IF u \in Woken(t) THEN "granted" ELSE state[u])
  BY DEF EndTurn
<1>2. u # t
  BY <1>1 DEF Outcomes
<1>3. u \in Woken(t) => state[u] = "created"
  BY DEF Woken, First, Queue
<1>4. state[u] \in {"none", "created", "granted"} /\ hits[u] = {} /\ token'[u] = token[u]
  BY <1>1, <1>2, <1>3
<1> QED
  BY <1>4 DEF TokenWithTask

LEMMA ExecuteKeepsTokens ==
  ASSUME TurnInv, TokenWithTask, NEW t \in Turns, NEW s \in Sessions, Execute(t, s)
  PROVE  TokenWithTask'
<1>1. /\ state[t] = "none" /\ Supersede(s)
      /\ \A u \in Turns \ {t} : state'[u] = state[u]
  BY DEF Execute, TurnInv, TurnTypeOK
<1>2. /\ hits'[t] = {} /\ t \notin active /\ sessionTurn[s] # t
      /\ sessionTurn[s] # NoTurn => "cancel" \in hits'[sessionTurn[s]]
      /\ \A u \in Turns : u # sessionTurn[s] => hits'[u] = hits[u]
  BY <1>1, SupersedeFacts
<1>3. hits[t] = {}
  BY <1>1 DEF TurnInv, ActiveTurns
<1>4. \A u \in Turns : u # sessionTurn[s] => token'[u] = token[u]
  BY <1>1 DEF Supersede, CancelActive, CancelToken, TurnInv, TurnTypeOK
<1> SUFFICES ASSUME NEW u \in Turns, state'[u] \in {"none", "created", "granted"},
                    hits'[u] = {}
             PROVE  token'[u] = "none"
  BY DEF TokenWithTask
<1>5. u # sessionTurn[s]
  BY <1>2, TurnConstantsOK
<1>6. state[u] \in {"none", "created", "granted"} /\ hits[u] = {} /\ token'[u] = token[u]
  BY <1>1, <1>2, <1>3, <1>4, <1>5
<1> QED
  BY <1>6 DEF TokenWithTask

\* Every step keeps tokens and tasks together.
LEMMA TokensStep == TurnInv /\ TokenWithTask /\ [TurnNext]_turnVars => TokenWithTask'
<1> SUFFICES ASSUME TurnInv, TokenWithTask, [TurnNext]_turnVars PROVE TokenWithTask'
  OBVIOUS
<1>0. /\ state \in [Turns -> {"none"} \cup Waiting \cup Outcomes]
      /\ hits \in [Turns -> SUBSET {"cancel", "deadline"}]
      /\ token \in [Turns -> Reasons \cup {"none"}]
  BY DEF TurnInv, TurnTypeOK
<1>1. ASSUME NEW t \in Turns, NEW s \in Sessions, Execute(t, s) PROVE TokenWithTask'
  BY <1>1, ExecuteKeepsTokens
<1>2. ASSUME NEW t \in Turns, state' = state, \A u \in Turns \ {t} : token'[u] = token[u],
             \A u \in Turns : hits[u] \subseteq hits'[u],
             \/ hits'[t] # {}
             \/ token'[t] = token[t]
             \/ state[t] = "running"
      PROVE  TokenWithTask'
  <2> SUFFICES ASSUME NEW u \in Turns, state[u] \in {"none", "created", "granted"},
                      hits'[u] = {}
               PROVE  token'[u] = "none"
    BY <1>2 DEF TokenWithTask
  <2>1. hits[u] = {} /\ token'[u] = token[u]
    BY <1>2
  <2> QED
    BY <2>1 DEF TokenWithTask
<1>3. ASSUME NEW t \in Turns, CancelTurn(t) PROVE TokenWithTask'
  <2>1. /\ state' = state /\ "cancel" \in hits'[t]
        /\ \A u \in Turns : hits[u] \subseteq hits'[u]
        /\ \A u \in Turns \ {t} : token'[u] = token[u]
    BY <1>0, <1>3 DEF CancelTurn, CancelActive, CancelToken
  <2> QED
    BY <2>1, <1>2
<1>4. ASSUME NEW s \in Sessions, CancelSession(s) PROVE TokenWithTask'
  <2>1. sessionTurn[s] \in Turns /\ CancelTurn(sessionTurn[s])
    BY <1>4 DEF CancelSession, TurnInv, TurnTypeOK
  <2> QED
    BY <2>1, <1>3
<1>5. ASSUME NEW t \in Turns, CancelCaller(t) \/ DeadlineExpires(t) PROVE TokenWithTask'
  <2>1. state' = state /\ token' = token /\ \A u \in Turns : hits[u] \subseteq hits'[u]
    BY <1>0, <1>5 DEF CancelCaller, DeadlineExpires
  <2> QED
    BY <2>1, <1>2
<1>6. ASSUME NEW t \in Turns, CloseStream(t) PROVE TokenWithTask'
  <2>1. /\ state' = state /\ hits' = hits /\ state[t] = "running"
        /\ \A u \in Turns \ {t} : token'[u] = token[u]
    BY <1>0, <1>6 DEF CloseStream, CancelToken
  <2> QED
    BY <2>1, <1>2
<1>71. ASSUME NEW t \in Turns, EnterTurn(t) PROVE TokenWithTask'
  <2>1. \A u \in Turns :
          state'[u] \in {"none", "created", "granted"} => state[u] \in {"none", "created", "granted"}
    BY <1>71, EnterFacts
  <2>2. UNCHANGED <<token, hits>>
    BY <1>71 DEF EnterTurn
  <2> QED
    BY <2>1, <2>2 DEF TokenWithTask
<1>7. ASSUME NEW t \in Turns, ContextReady(t) PROVE TokenWithTask'
  <2>1. /\ \A u \in Turns \ {t} : state'[u] = state[u]
        /\ state'[t] = "running"
        /\ UNCHANGED <<token, hits>>
    BY <1>0, <1>7 DEF ContextReady
  <2> QED
    BY <2>1 DEF TokenWithTask
<1>8. ASSUME NEW t \in Turns, ProcessorReturns(t) \/ ProcessorFails(t)
                                \/ TimesOut(t) \/ IsCancelled(t)
      PROVE  TokenWithTask'
  <2>1. PICK o \in Outcomes, e \in EventTypes : EndTurn(t, o, e)
    BY <1>8 DEF ProcessorReturns, ProcessorFails, TimesOut, IsCancelled, Outcomes, EventTypes
  <2>2. \A u \in Turns \ {t} : token'[u] = token[u] /\ hits'[u] = hits[u]
    BY <1>0, <1>8 DEF ProcessorReturns, ProcessorFails, TimesOut, IsCancelled, CancelToken
  <2> QED
    BY <2>1, <2>2, EndKeepsTokens
<1>9. CASE UNCHANGED turnVars
  BY <1>9 DEF turnVars, TokenWithTask
<1> QED
  BY <1>1, <1>3, <1>4, <1>5, <1>6, <1>7, <1>71, <1>8, <1>9 DEF TurnNext, LoopStep

\* A turn that holds a permit, or that is cancelled while it waits for one, can be served.
LEMMA ServedAtOnce ==
  ASSUME TurnInv, TokenWithTask, NEW t \in Turns, t \in Holders \/ hits[t] # {},
         state[t] \in Waiting
  PROVE  LoopCanServe(t)
<1>1. hits[t] \subseteq {"cancel", "deadline"}
  BY DEF TurnInv, TurnTypeOK
<1>2. CASE hits[t] # {}
  BY <1>1, <1>2 DEF LoopCanServe
<1>3. CASE hits[t] = {} /\ t \in Holders
  BY <1>3 DEF TokenWithTask, Holders, LoopCanServe
<1> QED
  BY <1>2, <1>3

LEMMA TurnGoesOn ==
  ASSUME TurnInv, PermitInv, TokenWithTask
  PROVE  SomeTurnGoesOn
<1> SUFFICES ASSUME NEW t \in Turns, state[t] \in Waiting
             PROVE  \E u \in Turns : LoopCanServe(u)
  BY DEF SomeTurnGoesOn
<1>1. CASE t \in Holders \/ hits[t] # {}
  BY <1>1, ServedAtOnce
<1>2. CASE t \notin Holders /\ hits[t] = {}
  <2>1. t \in Queue
    BY <1>2 DEF Queue, Holders, Waiting
  <2>2. Cardinality(Holders) = MaxActive \/ Granted # {}
    BY <2>1 DEF PermitInv, PermitsKept
  <2>3. Holders # {}
    BY <2>2, FS_EmptySet, TurnConstantsOK DEF Granted, Holders
  <2>4. PICK h \in Holders : h \in Turns /\ state[h] \in Waiting
    BY <2>3 DEF Holders, Waiting
  <2> QED
    BY <2>4, ServedAtOnce
<1> QED
  BY <1>1, <1>2

\* Turns that wait never all wait for each other: as long as anybody has to wait for a
\* permit there is a turn that has one, and such a turn can go on or has its deadline ahead.  So the
\* loop comes to rest only when every turn has ended.
THEOREM TurnsNeverStuck == TurnSpec => []SomeTurnGoesOn
<1>1. TurnInit => TokenWithTask
  BY DEF TurnInit, TokenWithTask
<1>2. TurnInv /\ PermitInv /\ TokenWithTask => SomeTurnGoesOn
  BY TurnGoesOn
<1> QED
  BY <1>1, <1>2, TokensStep, TurnInitPermits, NextKeepsPermits, TurnInvariant, PTL
  DEF TurnSpec
================================================================================
