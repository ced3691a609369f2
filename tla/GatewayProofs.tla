----------------------------- MODULE GatewayProofs -----------------------------
(***************************************************************************)
(* For any number of requests, routes, attempts and tokens: what Gateway   *)
(* promises of the circuits, of privacy, of streams and of the             *)
(* observatory's history.                                                  *)
(***************************************************************************)
EXTENDS Gateway, FiniteSetTheorems, TLAPS

(***************************************************************************)
(* Circuits                                                                *)
(***************************************************************************)
Sound(c) == c \in Circuits /\ Consistent(c)

\* The circuits' part of the invariant: typed and consistent.
SoundCircuits == circuit \in [Routes -> Circuits] /\ CircuitConsistent

\* Whatever is reported to a circuit leaves it sound.
LEMMA Reports ==
  ASSUME NEW c, Sound(c), NEW limited \in BOOLEAN
  PROVE  Sound(AfterAllow(c)) /\ Sound(AfterSuccess(c)) /\ Sound(AfterFailure(c, limited))
<1> USE DEF Sound, Circuits, Consistent, Shut, CircuitStates
<1>1. Threshold \in Nat \ {0}
  BY GatewayConstantsOK
<1>2. Sound(AfterAllow(c))
  BY DEF AfterAllow, Allows
<1>3. Sound(AfterSuccess(c))
  BY <1>1 DEF AfterSuccess, Closed
<1>4. Sound(AfterFailure(c, limited))
  <2> DEFINE n == c.failures + 1
  <2>1. n \in Nat /\ n > 0
    OBVIOUS
  <2>2. CASE limited
    <3>1. AfterFailure(c, limited) = [state |-> "rate_limited", failures |-> n,
                                      opened |-> TRUE, elapsed |-> FALSE]
      BY <2>2 DEF AfterFailure
    <3> QED
      BY <2>1, <3>1
  <2>3. CASE ~limited /\ n >= Threshold
    <3>1. AfterFailure(c, limited) = [state |-> "circuit_open", failures |-> n,
                                      opened |-> TRUE, elapsed |-> FALSE]
      BY <2>3 DEF AfterFailure
    <3> QED
      BY <2>1, <3>1
  <2>4. CASE ~limited /\ ~(n >= Threshold)
    BY <1>1, <2>1, <2>4 DEF AfterFailure
  <2> QED
    BY <2>2, <2>3, <2>4
<1> QED
  BY <1>2, <1>3, <1>4

LEMMA OneReport ==
  ASSUME SoundCircuits, NEW r \in Requests, NEW c,
         Current(r).route \in Routes => Sound(c),
         OnCircuit(r, c)
  PROVE  SoundCircuits'
  BY DEF SoundCircuits, CircuitConsistent, OnCircuit, Sound, Circuits

LEMMA CircuitStep ==
  ASSUME SoundCircuits, GatewayNext
  PROVE  SoundCircuits'
<1>1. ASSUME NEW r \in Requests, NEW limited \in BOOLEAN,
             \/ OnCircuit(r, AfterAllow(CircuitOf(r)))
             \/ OnCircuit(r, AfterSuccess(CircuitOf(r)))
             \/ OnCircuit(r, AfterFailure(CircuitOf(r), limited))
      PROVE  SoundCircuits'
  <2>1. Current(r).route \in Routes => Sound(CircuitOf(r))
    BY DEF SoundCircuits, CircuitConsistent, Sound, CircuitOf
  <2> QED
    BY <1>1, <2>1, Reports, OneReport
<1>2. ASSUME UNCHANGED circuit
      PROVE  SoundCircuits'
  BY <1>2 DEF SoundCircuits, CircuitConsistent
<1>3. ASSUME NEW i \in Routes, Elapse(i)
      PROVE  SoundCircuits'
  <2>1. /\ circuit' \in [Routes -> Circuits]
        /\ \A j \in Routes : /\ circuit'[j].state = circuit[j].state
                             /\ circuit'[j].failures = circuit[j].failures
                             /\ circuit'[j].opened = circuit[j].opened
    BY <1>3 DEF Elapse, SoundCircuits, Circuits
  <2> QED
    BY <2>1 DEF SoundCircuits, CircuitConsistent, Consistent, Shut
<1>4. ASSUME NEW r \in Requests, Progress(r)
      PROVE  SoundCircuits'
  BY <1>1, <1>2, <1>4
     DEF Progress, Offer, Exhausted, Call, FailCall, Malformed, Answer, FailStream, Token,
         Done, Finish, SilentEnd
<1>5. ASSUME NEW r \in Requests, Abandon(r) \/ \E m, k : Refuse(r, m, k) \/ Begin(r, m, k)
      PROVE  SoundCircuits'
  BY <1>2, <1>5 DEF Refuse, Begin, Abandon
<1> QED
  BY <1>3, <1>4, <1>5 DEF GatewayNext

(***************************************************************************)
(* Types                                                                   *)
(***************************************************************************)
Actions(r) ==
  \/ \E m \in Messages, k \in Modes : Refuse(r, m, k) \/ Begin(r, m, k)
  \/ Progress(r) \/ Abandon(r)

\* The variables of the requests' own course.
CourseTypes ==
  /\ phase \in [Requests -> Phases]
  /\ at \in [Requests -> Nat \ {0}]
  /\ tries \in [Requests -> 0 .. Attempts - 1]
  /\ tokens \in [Requests -> 0 .. MaxTokens]

LEMMA CourseMoves ==
  ASSUME CourseTypes, NEW r \in Requests,
         NextCandidate(r) \/ \E p \in Phases : Stay(r, p)
  PROVE  CourseTypes'
  BY GatewayConstantsOK DEF CourseTypes, Stay, NextCandidate, Phases

\* The observatory's variables.
WatchTypes ==
  /\ record \in [Requests -> [cand : Nat, state : RouteStates]]
  /\ selected \in [Requests -> Nat]
  /\ history \in Seq([request : Requests, cand : Nat, state : {"completed", "failed"}])

LEMMA Follows ==
  ASSUME WatchTypes, at \in [Requests -> Nat \ {0}], NEW r \in Requests,
         NEW s \in RouteStates, Follow(r, s)
  PROVE  record' \in [Requests -> [cand : Nat, state : RouteStates]]
  BY DEF WatchTypes, Follow

LEMMA Concludes ==
  ASSUME WatchTypes, at \in [Requests -> Nat \ {0}], NEW r \in Requests,
         NEW s \in {"completed", "failed"}, Conclude(r, s)
  PROVE  /\ record' \in [Requests -> [cand : Nat, state : RouteStates]]
         /\ history' \in Seq([request : Requests, cand : Nat,
                               state : {"completed", "failed"}])
<1> DEFINE Entry == [request : Requests, cand : Nat, state : {"completed", "failed"}]
           entry == [request |-> r, cand |-> at[r], state |-> s]
           longer == Append(history, entry)
<1>1. entry \in Entry /\ history \in Seq(Entry)
  BY DEF WatchTypes
<1>2. longer \in Seq(Entry) /\ longer # <<>>
  <2> HIDE DEF Entry, entry
  <2> QED
    BY <1>1
<1>3. Tail(longer) \in Seq(Entry)
  <2> HIDE DEF Entry, longer
  <2> QED
    BY <1>2
<1>4. history' \in {longer, Tail(longer)}
  BY DEF Conclude
<1>5. Follow(r, s) /\ s \in RouteStates
  BY DEF Conclude, RouteStates
<1> QED
  BY <1>2, <1>3, <1>4, <1>5, Follows

LEMMA TypeStep ==
  ASSUME GatewayTypeOK, NEW r \in Requests, Actions(r)
  PROVE  CourseTypes' /\ WatchTypes'
<1> DEFINE Ended == {"completed", "failed"}
<1>1. CourseTypes /\ WatchTypes /\ at \in [Requests -> Nat \ {0}]
  BY DEF GatewayTypeOK, CourseTypes, WatchTypes
<1>2. ASSUME NextCandidate(r) \/ \E p \in Phases : Stay(r, p)
      PROVE  CourseTypes'
  BY <1>1, <1>2, CourseMoves
<1>3. ASSUME UNCHANGED watchVars
      PROVE  WatchTypes'
  BY <1>1, <1>3 DEF WatchTypes, watchVars
<1>4. ASSUME \E s \in Ended : Conclude(r, s), UNCHANGED selected \/ Announce(r)
      PROVE  WatchTypes'
  <2>1. UNCHANGED selected \/ Announce(r)
    BY <1>4
  <2>2. selected' \in [Requests -> Nat]
    BY <1>1, <2>1 DEF WatchTypes, Announce
  <2> QED
    BY <1>1, <1>4, <2>2, Concludes DEF WatchTypes
<1>5. ASSUME \E s \in RouteStates : Follow(r, s), UNCHANGED selected \/ Announce(r),
             UNCHANGED history
      PROVE  WatchTypes'
  <2>1. selected' \in [Requests -> Nat]
    BY <1>1, <1>5 DEF WatchTypes, Announce
  <2> QED
    BY <1>1, <1>5, <2>1, Follows DEF WatchTypes
<1>6. ASSUME Actions(r), ~Progress(r)
      PROVE  CourseTypes' /\ WatchTypes'
  <2>1. \E p \in Phases : Stay(r, p)
    BY <1>6 DEF Actions, Refuse, Begin, Abandon, Phases, Ends
  <2>2. UNCHANGED watchVars
    BY <1>6 DEF Actions, Refuse, Begin, Abandon, watchVars
  <2> QED
    BY <1>2, <1>3, <2>1, <2>2
<1>7. CASE Offer(r)
  <2>1. NextCandidate(r) \/ \E p \in Phases : Stay(r, p)
    BY <1>7 DEF Offer, Phases
  <2>2. \/ UNCHANGED watchVars
        \/ Announce(r) /\ \E s \in Ended : Conclude(r, s)
        \/ Announce(r) /\ UNCHANGED history /\ \E s \in RouteStates : Follow(r, s)
    BY <1>7 DEF Offer, RouteStates
  <2> QED
    BY <1>2, <1>3, <1>4, <1>5, <2>1, <2>2
<1>8. ASSUME CallFailed(r) \/ StreamFailed(r)
      PROVE  CourseTypes' /\ WatchTypes'
  <2>1. CASE Retry(r) /\ tries[r] + 1 < Attempts /\ UNCHANGED selected
    <3>1. /\ tries' = [tries EXCEPT ![r] = @ + 1] /\ tries[r] + 1 < Attempts
          /\ phase' = [phase EXCEPT ![r] = "connecting"] /\ "connecting" \in Phases
          /\ UNCHANGED <<at, tokens, record, selected, history>>
      BY <2>1 DEF Retry, Phases
    <3>2. /\ phase \in [Requests -> Phases] /\ tries \in [Requests -> 0 .. Attempts - 1]
          /\ Attempts \in Nat
      BY <1>1, GatewayConstantsOK DEF CourseTypes
    <3>3. tries[r] + 1 \in 0 .. Attempts - 1
      BY <3>1, <3>2
    <3>4. phase' \in [Requests -> Phases] /\ tries' \in [Requests -> 0 .. Attempts - 1]
      BY <3>1, <3>2, <3>3
    <3> QED
      BY <1>1, <3>1, <3>4 DEF CourseTypes, WatchTypes
  <2>2. CASE Conclude(r, "failed") /\ UNCHANGED selected
             /\ (NextCandidate(r) \/ \E p \in Phases : Stay(r, p))
    BY <1>2, <1>4, <2>2
  <2> QED
    BY <1>8, <2>1, <2>2 DEF CallFailed, StreamFailed, Phases, Ends
<1>9. CASE FailCall(r) \/ FailStream(r) \/ Malformed(r)
  BY <1>8, <1>9 DEF FailCall, FailStream, Malformed
<1>10. CASE Call(r)
  <2>1. CASE CallFailed(r) \/ StreamFailed(r)
    BY <1>8, <2>1
  <2>2. CASE Stay(r, "calling") /\ UNCHANGED <<record, selected, history>>
    BY <1>2, <1>3, <2>2 DEF Phases, watchVars
  <2> QED
    BY <1>10, <2>1, <2>2 DEF Call
<1>11. CASE Token(r)
  <2>1. CourseTypes'
    <3>1. tokens[r] + 1 \in 0 .. MaxTokens
      BY <1>1, <1>11, GatewayConstantsOK DEF Token, CourseTypes
    <3> QED
      BY <1>1, <1>11, <3>1 DEF Token, CourseTypes
  <2>2. Follow(r, "streaming") /\ UNCHANGED selected /\ UNCHANGED history
    BY <1>11 DEF Token
  <2> QED
    BY <1>5, <2>1, <2>2 DEF RouteStates
<1>12. CASE Answer(r) \/ Finish(r)
  <2>1. Stay(r, "answered") /\ Conclude(r, "completed") /\ UNCHANGED selected
    BY <1>12 DEF Answer, Finish
  <2> QED
    BY <1>2, <1>4, <2>1 DEF Phases, Ends
<1>13. CASE Done(r)
  <2>1. Stay(r, "finishing") /\ Follow(r, "validating") /\ UNCHANGED selected
        /\ UNCHANGED history
    BY <1>13 DEF Done
  <2> QED
    BY <1>2, <1>5, <2>1 DEF Phases, RouteStates
<1>14. CASE Exhausted(r) \/ SilentEnd(r)
  <2>1. NextCandidate(r) \/ \E p \in Phases : Stay(r, p)
    BY <1>14 DEF Exhausted, SilentEnd, Phases, Ends
  <2>2. UNCHANGED watchVars
    BY <1>14 DEF Exhausted, SilentEnd, watchVars
  <2> QED
    BY <1>2, <1>3, <2>1, <2>2
<1> QED
  BY <1>6, <1>7, <1>9, <1>10, <1>11, <1>12, <1>13, <1>14 DEF Progress

AskTypes ==
  /\ msg \in [Requests -> Messages]
  /\ mode \in [Requests -> {"generate", "stream"}]
  /\ shown \in [Requests -> BOOLEAN]

LEMMA AskStep ==
  ASSUME AskTypes, NEW r \in Requests, Actions(r)
  PROVE  AskTypes'
<1>1. CASE Progress(r) \/ Abandon(r)
  BY <1>1
     DEF AskTypes, Abandon, Progress, Offer, Exhausted, Call, CallFailed, StreamFailed,
         FailCall, Malformed, Answer, FailStream, Token, Done, Finish, SilentEnd
<1>2. ASSUME NEW m \in Messages, NEW k \in Modes, Refuse(r, m, k) \/ Begin(r, m, k)
      PROVE  AskTypes'
  <2>1. k \in {"generate", "stream"}
    BY GatewayConstantsOK
  <2> QED
    BY <1>2, <2>1 DEF AskTypes, Refuse, Begin
<1> QED
  BY <1>1, <1>2 DEF Actions

\* Every variable keeps its type: the circuits by SoundCircuits.
Sorts == GatewayTypeOK /\ CircuitConsistent

LEMMA SortsInit == GatewayInit => Sorts
<1> SUFFICES ASSUME GatewayInit PROVE Sorts
  OBVIOUS
<1> USE GatewayConstantsOK
<1>1. AskTypes
  BY DEF GatewayInit, AskTypes
<1>2. CourseTypes
  BY DEF GatewayInit, CourseTypes, Phases
<1>3. WatchTypes
  BY DEF GatewayInit, WatchTypes, NoRecord, RouteStates
<1>4. SoundCircuits
  <2>1. Sound(Closed)
    BY DEF Sound, Closed, Circuits, CircuitStates, Consistent, Shut
  <2> QED
    BY <2>1 DEF GatewayInit, SoundCircuits, CircuitConsistent, Sound
<1> QED
  BY <1>1, <1>2, <1>3, <1>4
     DEF Sorts, GatewayTypeOK, AskTypes, CourseTypes, WatchTypes, SoundCircuits

LEMMA SortsStep == Sorts /\ [GatewayNext]_gatewayVars => Sorts'
<1> SUFFICES ASSUME Sorts, [GatewayNext]_gatewayVars PROVE Sorts'
  OBVIOUS
<1> DEFINE Parts == AskTypes /\ CourseTypes /\ WatchTypes /\ SoundCircuits
<1>1. Parts
  BY DEF Sorts, GatewayTypeOK, AskTypes, CourseTypes, WatchTypes, SoundCircuits
<1>2. Parts' => Sorts'
  BY DEF Sorts, GatewayTypeOK, AskTypes, CourseTypes, WatchTypes, SoundCircuits
<1>3. CASE GatewayNext
  <2>1. SoundCircuits'
    BY <1>1, <1>3, CircuitStep
  <2>2. ASSUME NEW r \in Requests, Actions(r)
        PROVE  AskTypes' /\ CourseTypes' /\ WatchTypes'
    BY <1>1, <2>2, AskStep, TypeStep DEF Sorts
  <2>3. ASSUME NEW i \in Routes, Elapse(i)
        PROVE  AskTypes' /\ CourseTypes' /\ WatchTypes'
    BY <1>1, <2>3 DEF Elapse, AskTypes, CourseTypes, WatchTypes
  <2> QED
    BY <1>2, <1>3, <2>1, <2>2, <2>3 DEF GatewayNext, Actions
<1>4. CASE UNCHANGED gatewayVars
  <2>1. Parts'
    BY <1>1, <1>4
       DEF gatewayVars, AskTypes, CourseTypes, WatchTypes, SoundCircuits, CircuitConsistent
  <2> QED
    BY <1>2, <2>1
<1> QED
  BY <1>3, <1>4

\* Whatever the requests ask, however often and in whatever order they fail, and
\* whatever the gateway's routes and limits are, every variable keeps its type: no
\* candidate is tried more than Attempts times.  (IntelligenceRouter)
THEOREM GatewayTypes == GatewaySpec => []GatewayTypeOK
  BY SortsInit, SortsStep, PTL DEF GatewaySpec, Sorts

\* Whatever the order in which concurrent calls report to it, a circuit that refuses
\* was opened, one at its threshold is shut or on trial, and a healthy one has
\* forgotten its failures.  (GatewayCircuitBreaker)
THEOREM CircuitsConsistent == GatewaySpec => []CircuitConsistent
  BY SortsInit, SortsStep, PTL DEF GatewaySpec, Sorts

(***************************************************************************)
(* Who is served where                                                     *)
(***************************************************************************)
\* A candidate that is a route of the gateway passes the filter for its request, and
\* a request in a call is at one of its candidates.
Offered(r) ==
  \A k \in Nat \ {0} : k \in DOMAIN cands[r] =>
    cands[r][k].route \in {0} \cup Eligible(Gateway, msg[r])

Settled(r) ==
  /\ Offered(r)
  /\ Live(r) => at[r] \in DOMAIN cands[r]
  /\ phase[r] = "new" => cands[r] = <<>>

Candidates ==
  /\ DOMAIN cands = Requests /\ DOMAIN msg = Requests
  /\ \A r \in Requests : Settled(r)

LEMMA ThenOffers ==
  ASSUME NEW S, NEW chosen \in {<<>>} \cup {<<Through(i)>> : i \in S}, NEW providers,
         NEW k \in Nat \ {0}, k \in DOMAIN Then(chosen, providers)
  PROVE  Then(chosen, providers)[k].route \in {0} \cup S
<1>1. CASE k <= Len(chosen)
  <2>1. chosen # <<>>
    BY <1>1
  <2>2. PICK i \in S : chosen = <<Through(i)>>
    BY <2>1
  <2>3. k = 1 /\ chosen[1] = Through(i)
    BY <1>1, <2>2
  <2>4. Then(chosen, providers)[k] = chosen[k]
    BY <1>1 DEF Then
  <2> QED
    BY <2>3, <2>4 DEF Through
<1>2. CASE ~(k <= Len(chosen))
  BY <1>2 DEF Then, Direct
<1> QED
  BY <1>1, <1>2

LEMMA BeginOffers ==
  ASSUME Sorts, Candidates, NEW r \in Requests, NEW m, NEW k, Begin(r, m, k)
  PROVE  Candidates'
<1> DEFINE S == Eligible(Gateway, m)
<1>1. PICK chosen \in Selections(Gateway, m) :
        cands' = [cands EXCEPT ![r] = IF k = "generate" THEN GenerateCandidates(chosen, m)
                                      ELSE StreamCandidates(Gateway, chosen, m)]
  BY DEF Begin
<1>2. chosen \in {<<>>} \cup {<<Through(i)>> : i \in S}
  BY DEF Selections, Best
<1>3. msg' = [msg EXCEPT ![r] = m] /\ phase' = [phase EXCEPT ![r] = "routing"] /\ at' = at
  BY DEF Begin, Stay
<1>a. PICK first \in {<<>>} \cup {<<Through(i)>> : i \in S} :
        \E rest : cands'[r] = Then(first, rest)
  BY <1>1, <1>2 DEF Candidates, GenerateCandidates, StreamCandidates
<1>4. PICK rest : cands'[r] = Then(first, rest)
  BY <1>a
<1>5. Offered(r)'
  BY <1>3, <1>4, ThenOffers DEF Offered, Candidates
<1>6. ASSUME NEW q \in Requests \ {r}
      PROVE  Settled(q)'
  <2>1. cands'[q] = cands[q] /\ msg'[q] = msg[q] /\ phase'[q] = phase[q]
    BY <1>1, <1>3
  <2>2. Settled(q) /\ at'[q] = at[q]
    BY <1>3 DEF Candidates
  <2> QED
    BY <2>1, <2>2 DEF Settled, Offered, Live
<1>7. ~Live(r)' /\ phase'[r] # "new"
  BY <1>3 DEF Live, Sorts, GatewayTypeOK
<1> QED
  BY <1>1, <1>3, <1>5, <1>6, <1>7 DEF Candidates, Settled

\* The candidates of a request are settled when it begins, and it is in a call only
\* when it has been offered one.
LEMMA CandidatesStep ==
  ASSUME Sorts, Candidates, [GatewayNext]_gatewayVars
  PROVE  Candidates'
<1>1. phase \in [Requests -> Phases] /\ at \in [Requests -> Nat \ {0}]
  BY DEF Sorts, GatewayTypeOK
<1>2. ASSUME UNCHANGED <<msg, cands>>,
             \A q \in Requests : /\ Live(q)' => at'[q] \in DOMAIN cands[q]
                                 /\ phase'[q] = "new" => phase[q] = "new"
      PROVE  Candidates'
  <2>1. ASSUME NEW q \in Requests
        PROVE  Settled(q)'
    <3>1. Settled(q)
      BY DEF Candidates
    <3> QED
      BY <1>2, <3>1 DEF Settled, Offered
  <2> QED
    BY <1>2, <2>1 DEF Candidates
<1>3. ASSUME NEW r \in Requests, UNCHANGED <<msg, cands>>,
             \A q \in Requests \ {r} : phase'[q] = phase[q] /\ at'[q] = at[q],
             phase'[r] # "new",
             \/ ~Live(r)'
             \/ at'[r] = at[r] /\ (Live(r) \/ at[r] \in DOMAIN cands[r])
      PROVE  Candidates'
  <2>1. \A q \in Requests \ {r} : Live(q)' => at'[q] \in DOMAIN cands[q]
    BY <1>3 DEF Candidates, Settled, Live
  <2>2. Live(r)' => at'[r] \in DOMAIN cands[r]
    BY <1>3 DEF Candidates, Settled
  <2> QED
    BY <1>2, <1>3, <2>1, <2>2
<1>4. ASSUME NEW r \in Requests, UNCHANGED <<msg, cands>>,
             \/ NextCandidate(r)
             \/ Retry(r) /\ Live(r)
             \/ \E p \in Phases \ {"new"} :
                  Stay(r, p) /\ (Live(r) \/ at[r] \in DOMAIN cands[r])
             \/ \E p \in Ends : Stay(r, p)
      PROVE  Candidates'
  <2>1. \A q \in Requests \ {r} : phase'[q] = phase[q] /\ at'[q] = at[q]
    BY <1>1, <1>4 DEF NextCandidate, Retry, Stay
  <2>2. /\ phase'[r] # "new"
        /\ \/ ~Live(r)'
           \/ at'[r] = at[r] /\ (Live(r) \/ at[r] \in DOMAIN cands[r])
    BY <1>1, <1>4 DEF NextCandidate, Retry, Stay, Live, Ends
  <2> QED
    BY <1>3, <1>4, <2>1, <2>2
<1>5. ASSUME NEW r \in Requests, Progress(r) \/ Abandon(r)
      PROVE  Candidates'
  <2>1. CASE Offer(r)
    BY <1>4, <2>1 DEF Offer, Phases
  <2>2. ASSUME CallFailed(r) \/ StreamFailed(r), Live(r)
        PROVE  Candidates'
    BY <1>4, <2>2 DEF CallFailed, StreamFailed, Ends
  <2>3. CASE Call(r)
    <3>1. Live(r)
      BY <2>3 DEF Call, Live
    <3> QED
      BY <1>4, <2>2, <2>3, <3>1 DEF Call, Phases
  <2>4. CASE FailCall(r) \/ FailStream(r) \/ Malformed(r)
    <3>1. Live(r)
      BY <2>4 DEF FailCall, FailStream, Malformed, Live
    <3> QED
      BY <2>2, <2>4, <3>1 DEF FailCall, FailStream, Malformed
  <2>5. CASE Answer(r) \/ Done(r) \/ Finish(r) \/ Exhausted(r) \/ SilentEnd(r) \/ Abandon(r)
    <3>1. UNCHANGED <<msg, cands>>
      BY <2>5 DEF Answer, Done, Finish, Exhausted, SilentEnd, Abandon
    <3>2. \/ NextCandidate(r)
          \/ Stay(r, "finishing") /\ Live(r)
          \/ \E p \in Ends : Stay(r, p)
      BY <2>5 DEF Answer, Done, Finish, Exhausted, SilentEnd, Abandon, Ends, Live
    <3> QED
      BY <1>4, <3>1, <3>2 DEF Phases
  <2>6. CASE Token(r)
    BY <1>2, <2>6 DEF Token, Live, Candidates, Settled
  <2> QED
    BY <1>5, <2>1, <2>3, <2>4, <2>5, <2>6 DEF Progress
<1>6. ASSUME NEW r \in Requests, NEW m, NEW k, Refuse(r, m, k)
      PROVE  Candidates'
  <2>1. \A q \in Requests \ {r} : msg'[q] = msg[q] /\ phase'[q] = phase[q]
    BY <1>6 DEF Refuse, Stay
  <2>2. /\ at' = at /\ cands' = cands /\ DOMAIN msg' = DOMAIN msg
        /\ ~Live(r)' /\ phase[r] = "new" /\ phase'[r] # "new"
    BY <1>1, <1>6 DEF Refuse, Stay, Live
  <2> QED
    BY <2>1, <2>2 DEF Candidates, Settled, Offered, Live
<1>7. CASE UNCHANGED gatewayVars
  BY <1>2, <1>7 DEF gatewayVars, Live, Candidates, Settled
<1>8. ASSUME NEW i \in Routes, Elapse(i)
      PROVE  Candidates'
  BY <1>2, <1>8 DEF Elapse, Live, Candidates, Settled
<1> QED
  BY <1>5, <1>6, <1>7, <1>8, BeginOffers DEF GatewayNext

LEMMA CandidatesInit == GatewayInit => Candidates
  BY DEF GatewayInit, Candidates, Settled, Offered, Live

\* A route that was offered has the request's privacy class, as the server sees it.
LEMMA OfferedIsAllowed == Sorts /\ Candidates => CloudNeedsAuthority
<1> SUFFICES ASSUME Sorts, Candidates, NEW r \in Requests, Live(r), ByGateway(r)
             PROVE  LET route == Gateway.routes[Current(r).route]
                    IN  /\ route.enabled /\ route.terms = "approved"
                        /\ route.locality # "local" =>
                             /\ route.locality = "cloud" /\ Gateway.allowCloud
                             /\ msg[r].privacy = "cloud_allowed" /\ msg[r].authorized
                        /\ msg[r].command =>
                             msg[r].voice \/ TaskType(msg[r]) = "voice" \/ "long_context" \in msg[r].words
  BY DEF CloudNeedsAuthority
<1> DEFINE i == Current(r).route
           route == Gateway.routes[i]
<1>1. at[r] \in DOMAIN cands[r] /\ at[r] \in Nat \ {0} /\ Offered(r)
  BY DEF Sorts, GatewayTypeOK, Candidates, Settled
<1>2. i \in Eligible(Gateway, msg[r])
  BY <1>1 DEF Offered, Current, ByGateway
<1>3. i \in Routes /\ PassesFilter(Gateway, route, msg[r])
  BY <1>2 DEF Eligible, Routes
<1>4. route.locality \in {"local", "cloud"}
  BY <1>3, GatewayConstantsOK DEF PassesFilter
<1>5. route.enabled /\ route.terms = "approved" /\ Category(msg[r]) # "system_command"
  BY <1>3 DEF PassesFilter, OperatorApproved
<1>6. ASSUME route.locality # "local"
      PROVE  /\ Gateway.allowCloud
             /\ msg[r].privacy = "cloud_allowed" /\ msg[r].authorized
  <2>1. CloudAllowed(Gateway, route, msg[r])
    BY <1>3, <1>4, <1>6 DEF PassesFilter
  <2>2. Gateway.allowCloud /\ RoutePrivacy(msg[r]) = "cloud_allowed"
    BY <2>1 DEF CloudAllowed
  <2> QED
    BY <2>2 DEF RoutePrivacy, PrivacyClass
<1>7. msg[r].command =>
        msg[r].voice \/ TaskType(msg[r]) = "voice" \/ "long_context" \in msg[r].words
  BY <1>5 DEF Category
<1> QED
  BY <1>4, <1>5, <1>6, <1>7

\* Whatever the gateway's routes and the operator's settings are, and whatever fails on
\* the way: a request is served by a route that leaves the machine only if it asked for
\* the cloud with the server's authority and the operator allowed it, and no route of the
\* gateway serves a system command that is neither voiced nor about a long context.
THEOREM CloudIsAuthorized == GatewaySpec => []CloudNeedsAuthority
<1>1. Sorts /\ Candidates /\ [GatewayNext]_gatewayVars => (Sorts /\ Candidates)'
  BY SortsStep, CandidatesStep
<1> QED
  BY <1>1, SortsInit, CandidatesInit, OfferedIsAllowed, PTL DEF GatewaySpec

(***************************************************************************)
(* What has been heard                                                     *)
(***************************************************************************)
\* Tokens are those of the candidate in use, of a stream, and the observatory knows.
Heard(r) ==
  /\ phase[r] \in {"new", "routing", "connecting"} => tokens[r] = 0
  /\ mode[r] = "generate" => tokens[r] = 0
  /\ phase[r] = "calling" /\ tokens[r] > 0 => record[r].state = "streaming"

HeardAll == \A r \in Requests : Heard(r)

\* The variables Heard speaks of.
LEMMA HeardTypes ==
  ASSUME Sorts
  PROVE  /\ phase \in [Requests -> Phases] /\ mode \in [Requests -> {"generate", "stream"}]
         /\ tokens \in [Requests -> 0 .. MaxTokens] /\ at \in [Requests -> Nat \ {0}]
         /\ record \in [Requests -> [cand : Nat, state : RouteStates]]
  BY DEF Sorts, GatewayTypeOK

LEMMA OthersUnmoved ==
  ASSUME Sorts, NEW r \in Requests, Actions(r), NEW q \in Requests \ {r}
  PROVE  /\ phase'[q] = phase[q] /\ mode'[q] = mode[q] /\ tokens'[q] = tokens[q]
         /\ at'[q] = at[q] /\ record'[q] = record[q]
<1> DEFINE Unmoved == /\ phase'[q] = phase[q] /\ mode'[q] = mode[q]
                      /\ tokens'[q] = tokens[q] /\ at'[q] = at[q]
                      /\ record'[q] = record[q]
<1> USE HeardTypes
<1>1. CASE Abandon(r) \/ \E m, k : Refuse(r, m, k) \/ Begin(r, m, k)
  BY <1>1 DEF Abandon, Refuse, Begin, Stay
<1>2. CASE Offer(r)
  <2>1. /\ UNCHANGED mode
        /\ NextCandidate(r) \/ Stay(r, "connecting")
        /\ UNCHANGED record \/ \E s : Follow(r, s)
    BY <1>2 DEF Offer, Conclude, watchVars
  <2> QED
    BY <2>1 DEF Stay, NextCandidate, Follow
<1>3. ASSUME CallFailed(r) \/ StreamFailed(r)
      PROVE  Unmoved
  BY <1>3 DEF CallFailed, StreamFailed, Retry, Stay, NextCandidate, Follow, Conclude
<1>4. CASE FailCall(r) \/ FailStream(r) \/ Malformed(r) \/ Call(r)
  BY <1>3, <1>4 DEF FailCall, FailStream, Malformed, Call, Stay
<1>5. CASE Exhausted(r) \/ Answer(r) \/ Token(r) \/ Done(r) \/ Finish(r) \/ SilentEnd(r)
  BY <1>5 DEF Exhausted, Answer, Token, Done, Finish, SilentEnd, Stay, NextCandidate,
              Follow, Conclude
<1> QED
  BY <1>1, <1>2, <1>4, <1>5 DEF Actions, Progress

LEMMA HeardMove ==
  ASSUME Sorts, NEW r \in Requests, Heard(r), Actions(r)
  PROVE  Heard(r)'
<1> USE HeardTypes
<1>1. ASSUME tokens'[r] = 0
      PROVE  Heard(r)'
  BY <1>1 DEF Heard
<1>2. ASSUME NEW p \in Phases \ {"new", "routing", "connecting", "calling"}, Stay(r, p),
             UNCHANGED mode
      PROVE  Heard(r)'
  BY <1>2 DEF Stay, Heard
<1>3. ASSUME NextCandidate(r)
      PROVE  Heard(r)'
  <2>1. tokens'[r] = 0
    BY <1>3 DEF NextCandidate
  <2> QED
    BY <1>1, <2>1
<1>4. ASSUME phase[r] \in {"new", "routing", "connecting"} \/ mode[r] = "generate",
             UNCHANGED tokens
      PROVE  Heard(r)'
  <2>1. tokens'[r] = 0
    BY <1>4 DEF Heard
  <2> QED
    BY <1>1, <2>1
<1>5. ASSUME CallFailed(r) \/ StreamFailed(r)
      PROVE  Heard(r)'
  <2>1. CASE CallFailed(r)
    BY <1>3, <1>4, <2>1 DEF CallFailed, Retry
  <2>2. CASE StreamFailed(r)
    BY <1>2, <1>3, <2>2 DEF StreamFailed, Phases, Ends
  <2> QED
    BY <1>5, <2>1, <2>2
<1>6. CASE ~Progress(r)
  <2>1. CASE Abandon(r)
    BY <1>2, <2>1 DEF Abandon, Phases, Ends
  <2>2. CASE \E m, k : Refuse(r, m, k) \/ Begin(r, m, k)
    BY <1>4, <2>2 DEF Refuse, Begin, Stay
  <2> QED
    BY <1>6, <2>1, <2>2 DEF Actions
<1>7. CASE Offer(r) \/ Exhausted(r)
  BY <1>3, <1>4, <1>7 DEF Offer, Exhausted, Stay
<1>8. CASE Call(r)
  BY <1>4, <1>5, <1>8 DEF Call, Stay
<1>9. CASE FailCall(r) \/ FailStream(r) \/ Malformed(r)
  BY <1>5, <1>9 DEF FailCall, FailStream, Malformed
<1>10. CASE Answer(r) \/ Done(r) \/ Finish(r)
  BY <1>2, <1>10 DEF Answer, Done, Finish, Phases, Ends
<1>11. CASE SilentEnd(r)
  BY <1>3, <1>11 DEF SilentEnd
<1>12. CASE Token(r)
  <2>1. /\ phase'[r] = "calling" /\ mode'[r] = "stream"
        /\ record'[r].state = "streaming"
    BY <1>12 DEF Token, Follow
  <2> QED
    BY <2>1 DEF Heard
<1> QED
  BY <1>6, <1>7, <1>8, <1>9, <1>10, <1>11, <1>12 DEF Progress

LEMMA HeardStep ==
  ASSUME Sorts, HeardAll, [GatewayNext]_gatewayVars
  PROVE  HeardAll'
<1>1. ASSUME UNCHANGED <<phase, mode, tokens, record>>
      PROVE  HeardAll'
  BY <1>1 DEF HeardAll, Heard
<1>2. ASSUME NEW r \in Requests, Actions(r)
      PROVE  HeardAll'
  <2>1. Heard(r)'
    BY <1>2, HeardMove DEF HeardAll
  <2>2. ASSUME NEW q \in Requests \ {r}
        PROVE  Heard(q)'
    BY <1>2, OthersUnmoved DEF HeardAll, Heard
  <2> QED
    BY <2>1, <2>2 DEF HeardAll
<1> QED
  BY <1>1, <1>2 DEF GatewayNext, Actions, Elapse, gatewayVars

\* The step by which a request that has been heard goes to another candidate is not
\* one that reports a failure.
LEMMA RouteKept ==
  ASSUME Sorts, HeardAll, NEW r \in Requests, tokens[r] > 0, [GatewayNext]_gatewayVars,
         at'[r] # at[r]
  PROVE  record'[r].state # "failed"
<1> USE HeardTypes
<1>1. /\ phase[r] \notin {"new", "routing", "connecting"} /\ mode[r] = "stream"
      /\ phase[r] = "calling" => record[r].state = "streaming"
  BY DEF HeardAll, Heard
<1>2. Actions(r)
  BY OthersUnmoved DEF GatewayNext, Actions, Elapse, gatewayVars
<1>3. ASSUME NEW p, Stay(r, p)
      PROVE  FALSE
  BY <1>3 DEF Stay
<1>4. ~CallFailed(r)
  BY <1>1 DEF CallFailed
<1>5. ~StreamFailed(r)
  BY <1>3 DEF StreamFailed
<1>6. SilentEnd(r)
  BY <1>1, <1>2, <1>3, <1>4, <1>5
     DEF Actions, Refuse, Begin, Abandon, Progress, Offer, Exhausted, Call,
         FailCall, Malformed, Answer, FailStream, Token, Done, Finish
<1> QED
  BY <1>1, <1>6 DEF SilentEnd

\* Whatever fails, in whatever order: a stream of which something was heard does not go
\* on with another candidate because the one that was heard failed.  (generate_stream)
THEOREM FailureKeepsRoute == GatewaySpec => OutputKeepsRoute
<1> DEFINE I == Sorts /\ HeardAll
           Kept == \A r \in Requests :
                     tokens[r] > 0 /\ at'[r] # at[r] => record'[r].state # "failed"
<1>1. GatewayInit => I
  <2>1. GatewayInit => HeardAll
    BY DEF GatewayInit, HeardAll, Heard
  <2> QED
    BY <2>1, SortsInit
<1>2. I /\ [GatewayNext]_gatewayVars => I'
  BY SortsStep, HeardStep
<1>3. I /\ [GatewayNext]_gatewayVars => Kept
  BY RouteKept
<1> QED
  BY <1>1, <1>2, <1>3, PTL DEF GatewaySpec, OutputKeepsRoute

(***************************************************************************)
(* What the history tells                                                  *)
(***************************************************************************)
Where(h, r, s) == {k \in DOMAIN h : h[k].request = r /\ h[k].state = s}

\* The number of entries is a number, and grows by one with an entry of the kind.
LEMMA EntriesGrow ==
  ASSUME NEW E, NEW h \in Seq(E), NEW e \in E, NEW r, NEW s
  PROVE  /\ Cardinality(Where(h, r, s)) \in Nat
         /\ Cardinality(Where(Append(h, e), r, s)) =
              Cardinality(Where(h, r, s))
              + (IF e.request = r /\ e.state = s THEN 1 ELSE 0)
<1> DEFINE n == Len(h)
           longer == Append(h, e)
<1>1. n \in Nat /\ DOMAIN h = 1 .. n
  OBVIOUS
<1>2. IsFiniteSet(Where(h, r, s))
  <2>1. IsFiniteSet(1 .. n)
    BY <1>1, FS_Interval
  <2> QED
    BY <1>1, <2>1, FS_Subset DEF Where
<1>3. DOMAIN longer = 1 .. n + 1
  BY <1>1
<1>4. \A k \in 1 .. n : longer[k] = h[k]
  BY <1>1
<1>5. longer[n + 1] = e
  BY <1>1
<1>6. Where(longer, r, s) = Where(h, r, s) \cup
        (IF e.request = r /\ e.state = s THEN {n + 1} ELSE {})
  <2> HIDE DEF longer, n
  <2> QED
    BY <1>1, <1>3, <1>4, <1>5 DEF Where
<1>7. n + 1 \notin Where(h, r, s)
  BY <1>1 DEF Where
<1> HIDE DEF longer, n
<1>8. CASE e.request = r /\ e.state = s
  <2>1. Where(longer, r, s) = Where(h, r, s) \cup {n + 1}
    BY <1>6, <1>8
  <2> QED
    <3>1. Cardinality(Where(h, r, s) \cup {n + 1}) = Cardinality(Where(h, r, s)) + 1
      BY <1>2, <1>7, FS_AddElement
    <3>2. Cardinality(Where(h, r, s)) \in Nat
      BY <1>2, FS_CardinalityType
    <3> QED
      BY <1>8, <2>1, <3>1, <3>2 DEF longer
<1>9. CASE ~(e.request = r /\ e.state = s)
  <2>1. Where(longer, r, s) = Where(h, r, s)
    BY <1>6, <1>9
  <2> QED
    BY <1>2, <1>9, <2>1, FS_CardinalityType DEF longer
<1> QED
  BY <1>8, <1>9

\* What is true of one request as long as the history has room.
Account(r) ==
  /\ phase[r] = "new" => mode[r] = "generate"
  /\ mode[r] = "generate" =>
       selected[r] = Entries(r, "failed") + Entries(r, "completed")
                     + (IF Live(r) \/ phase[r] = "gone" THEN 1 ELSE 0)
  /\ Entries(r, "failed") + Entries(r, "completed") + (IF Live(r) THEN 1 ELSE 0)
       <= selected[r]
  /\ Entries(r, "completed") = (IF phase[r] = "answered" THEN 1 ELSE 0)
  /\ phase[r] = "answered" => record[r] = [cand |-> at[r], state |-> "completed"]

Books == Len(history) < HistoryLimit => \A r \in Requests : Account(r)

LEMMA EntriesCount ==
  ASSUME Sorts
  PROVE  \A r, s : Entries(r, s) \in Nat
<1>1. history \in Seq([request : Requests, cand : Nat, state : {"completed", "failed"}])
  BY DEF Sorts, GatewayTypeOK
<1>2. \A r, s : Entries(r, s) = Cardinality(Where(history, r, s))
  BY DEF Entries, Where
<1>3. \A r, s : Cardinality(Where(history, r, s)) \in Nat
  <2> TAKE r, s
  <2>1. IsFiniteSet(1 .. Len(history)) /\ DOMAIN history = 1 .. Len(history)
    BY <1>1, FS_Interval
  <2> QED
    BY <2>1, FS_Subset, FS_CardinalityType DEF Where
<1> QED
  BY <1>2, <1>3

\* A conclusion that leaves room in the history adds its entry to it.
LEMMA ConcludeEntries ==
  ASSUME Sorts, NEW r \in Requests, NEW s \in {"completed", "failed"}, Conclude(r, s),
         Len(history') < HistoryLimit
  PROVE  /\ Len(history) < HistoryLimit
         /\ \A q, t : Entries(q, t)' = Entries(q, t) + (IF q = r /\ t = s THEN 1 ELSE 0)
<1> DEFINE Entry == [request : Requests, cand : Nat, state : {"completed", "failed"}]
           entry == [request |-> r, cand |-> at[r], state |-> s]
<1>1. entry \in Entry /\ history \in Seq(Entry)
  BY DEF Sorts, GatewayTypeOK
<1>2. HistoryLimit \in Nat
  BY GatewayConstantsOK
<1>3. history' = Append(history, entry) /\ Len(history) < HistoryLimit
  <2>1. history' = IF Len(Append(history, entry)) > HistoryLimit
                   THEN Tail(Append(history, entry)) ELSE Append(history, entry)
    BY DEF Conclude
  <2> HIDE DEF entry, Entry
  <2>2. Len(Append(history, entry)) = Len(history) + 1 /\ Len(history) \in Nat
    BY <1>1
  <2>3. Len(Tail(Append(history, entry))) = Len(history)
    BY <1>1
  <2> QED
    BY <1>2, <2>1, <2>2, <2>3
<1>4. ASSUME NEW q, NEW t
      PROVE  Entries(q, t)' = Entries(q, t) + (IF q = r /\ t = s THEN 1 ELSE 0)
  <2>1. entry.request = r /\ entry.state = s
    OBVIOUS
  <2>2. Entries(q, t) = Cardinality(Where(history, q, t))
    BY DEF Entries, Where
  <2>3. Entries(q, t)' = Cardinality(Where(Append(history, entry), q, t))
    BY <1>3 DEF Entries, Where
  <2> HIDE DEF entry, Entry
  <2> QED
    BY <1>1, <2>1, <2>2, <2>3, EntriesGrow
<1> QED
  BY <1>3, <1>4

\* A step of r that announces a routes and reports f failures and c successes.
Effect(r, a, f, c) ==
  /\ selected'[r] = selected[r] + a
  /\ Entries(r, "failed")' = Entries(r, "failed") + f
  /\ Entries(r, "completed")' = Entries(r, "completed") + c
  /\ c = 1 <=> phase'[r] = "answered"
  /\ phase'[r] = "answered" => record'[r] = [cand |-> at'[r], state |-> "completed"]

\* The ways in which a step of r may move it, with its effect.
Moves(r, a, f, c) ==
  /\ phase[r] # "answered" /\ phase'[r] # "new"
  /\ \/ /\ phase[r] = "new" /\ a = 0 /\ f = 0
        /\ phase'[r] \in {"routing", "refused"}
     \/ /\ mode'[r] = mode[r]
        /\ \/ /\ Live(r) /\ a = 0 /\ f + c = 1 /\ ~Live(r)' /\ phase'[r] # "gone"
           \/ /\ Live(r) /\ a = 0 /\ f + c = 0
              /\ Live(r)' \/ phase'[r] = "gone" \/ mode[r] = "stream"
           \/ /\ phase[r] = "routing" /\ a = f + c
              /\ phase'[r] \in {"routing", "exhausted"}
           \/ /\ phase[r] = "routing" /\ a = 1 /\ f + c = 0 /\ Live(r)'

LEMMA AccountBalances ==
  ASSUME Sorts, NEW r \in Requests, Account(r),
         NEW a \in {0, 1}, NEW f \in {0, 1}, NEW c \in {0, 1},
         Effect(r, a, f, c), Moves(r, a, f, c)
  PROVE  Account(r)'
<1> DEFINE F == Entries(r, "failed")
           C == Entries(r, "completed")
           N == selected[r]
<1>1. F \in Nat /\ C \in Nat /\ N \in Nat
  BY EntriesCount DEF Sorts, GatewayTypeOK
<1>2. selected'[r] = N + a /\ F' = F + f /\ C' = C + c
  BY DEF Effect
<1>3. mode[r] \in {"generate", "stream"} /\ phase[r] \in Phases
  BY DEF Sorts, GatewayTypeOK
<1>4. /\ phase[r] = "new" => mode[r] = "generate"
      /\ mode[r] = "generate" =>
           N = F + C + (IF Live(r) \/ phase[r] = "gone" THEN 1 ELSE 0)
      /\ F + C + (IF Live(r) THEN 1 ELSE 0) <= N
      /\ C = 0
  BY DEF Account, Moves
<1>5. /\ phase'[r] = "new" => mode'[r] = "generate"
      /\ C' = (IF phase'[r] = "answered" THEN 1 ELSE 0)
      /\ phase'[r] = "answered" => record'[r] = [cand |-> at'[r], state |-> "completed"]
  BY <1>2, <1>4 DEF Effect, Moves
<1>6. /\ F' + C' + (IF Live(r)' THEN 1 ELSE 0) <= selected'[r]
      /\ mode'[r] = "generate" =>
           selected'[r] = F' + C' + (IF Live(r)' \/ phase'[r] = "gone" THEN 1 ELSE 0)
  <2> HIDE DEF F, C, N
  <2>1. CASE phase[r] = "new"
    BY <1>1, <1>2, <1>4, <2>1 DEF Live, Moves, Effect
  <2>2. CASE phase[r] = "routing"
    BY <1>1, <1>2, <1>4, <2>2 DEF Live, Moves, Effect
  <2>3. CASE Live(r)
    BY <1>1, <1>2, <1>3, <1>4, <2>3 DEF Live, Moves, Effect
  <2> QED
    BY <2>1, <2>2, <2>3 DEF Moves
<1> QED
  BY <1>5, <1>6 DEF Account

LEMMA AccountMove ==
  ASSUME Sorts, NEW r \in Requests, Account(r), Actions(r), Len(history') < HistoryLimit
  PROVE  Account(r)'
<1>1. /\ phase \in [Requests -> Phases] /\ mode \in [Requests -> {"generate", "stream"}]
      /\ selected \in [Requests -> Nat] /\ at \in [Requests -> Nat \ {0}]
      /\ record \in [Requests -> [cand : Nat, state : RouteStates]]
      /\ Entries(r, "failed") \in Nat /\ Entries(r, "completed") \in Nat
  BY EntriesCount DEF Sorts, GatewayTypeOK
<1>2. ASSUME UNCHANGED <<history, selected>>, phase'[r] # "answered", Moves(r, 0, 0, 0)
      PROVE  Account(r)'
  <2>1. Effect(r, 0, 0, 0)
    BY <1>1, <1>2 DEF Effect, Entries
  <2> QED
    BY <1>2, <2>1, AccountBalances
<1>3. ASSUME Conclude(r, "failed"), UNCHANGED selected, phase'[r] # "answered",
             Moves(r, 0, 1, 0)
      PROVE  Account(r)'
  <2>1. Effect(r, 0, 1, 0)
    BY <1>1, <1>3, ConcludeEntries DEF Effect
  <2> QED
    BY <1>3, <2>1, AccountBalances
<1>4. ASSUME CallFailed(r) \/ StreamFailed(r), Live(r)
      PROVE  Account(r)'
  <2>1. CASE Retry(r) /\ UNCHANGED <<selected, mode>>
    <3>1. Moves(r, 0, 0, 0)
      BY <1>1, <1>4, <2>1 DEF Retry, Moves, Live
    <3> QED
      BY <1>1, <1>2, <2>1, <3>1 DEF Retry
  <2>2. CASE /\ Conclude(r, "failed") /\ UNCHANGED <<selected, mode>>
             /\ NextCandidate(r) \/ Stay(r, "broken")
    <3>1. phase'[r] \in {"routing", "broken"}
      BY <1>1, <2>2 DEF NextCandidate, Stay
    <3>2. Moves(r, 0, 1, 0)
      BY <1>4, <2>2, <3>1 DEF Moves, Live
    <3> QED
      BY <1>3, <2>2, <3>1, <3>2
  <2> QED
    BY <1>4, <2>1, <2>2 DEF CallFailed, StreamFailed
<1>5. CASE Offer(r)
  <2>1. phase[r] = "routing" /\ mode' = mode
    BY <1>5 DEF Offer
  <2>2. CASE Stay(r, "connecting") /\ Announce(r) /\ UNCHANGED history
    <3>1. phase'[r] = "connecting" /\ selected'[r] = selected[r] + 1
      BY <1>1, <2>2 DEF Stay, Announce
    <3>2. Effect(r, 1, 0, 0)
      BY <1>1, <2>2, <3>1 DEF Effect, Entries
    <3>3. Moves(r, 1, 0, 0)
      BY <2>1, <3>1 DEF Moves, Live
    <3> QED
      BY <3>2, <3>3, AccountBalances
  <2>3. CASE NextCandidate(r) /\ Conclude(r, "failed") /\ Announce(r)
    <3>1. phase'[r] = "routing" /\ selected'[r] = selected[r] + 1
      BY <1>1, <2>3 DEF NextCandidate, Announce
    <3>2. Effect(r, 1, 1, 0)
      BY <1>1, <2>3, <3>1, ConcludeEntries DEF Effect
    <3>3. Moves(r, 1, 1, 0)
      BY <2>1, <3>1 DEF Moves
    <3> QED
      BY <3>2, <3>3, AccountBalances
  <2>4. CASE NextCandidate(r) /\ UNCHANGED watchVars
    <3>1. phase'[r] = "routing"
      BY <1>1, <2>4 DEF NextCandidate
    <3>2. Moves(r, 0, 0, 0)
      BY <2>1, <3>1 DEF Moves
    <3> QED
      BY <1>2, <2>4, <3>1, <3>2 DEF watchVars
  <2> QED
    BY <1>5, <2>2, <2>3, <2>4 DEF Offer
<1>6. CASE Answer(r) \/ Finish(r)
  <2>1. /\ Live(r) /\ mode' = mode /\ Conclude(r, "completed") /\ selected' = selected
        /\ phase'[r] = "answered" /\ at'[r] = at[r]
    BY <1>1, <1>6 DEF Answer, Finish, Live, Stay
  <2>2. record'[r] = [cand |-> at'[r], state |-> "completed"]
    BY <1>1, <2>1 DEF Conclude, Follow
  <2>3. Effect(r, 0, 0, 1)
    BY <1>1, <2>1, <2>2, ConcludeEntries DEF Effect
  <2>4. Moves(r, 0, 0, 1)
    BY <2>1 DEF Moves, Live
  <2> QED
    BY <2>3, <2>4, AccountBalances
<1>7. CASE \E m, k : Refuse(r, m, k) \/ Begin(r, m, k)
  <2>1. /\ phase[r] = "new" /\ phase'[r] \in {"routing", "refused"}
        /\ UNCHANGED <<history, selected>>
    BY <1>1, <1>7 DEF Refuse, Begin, Stay
  <2> QED
    BY <1>2, <2>1 DEF Moves
<1>8. CASE Exhausted(r)
  <2>1. /\ phase[r] = "routing" /\ phase'[r] = "exhausted" /\ mode' = mode
        /\ UNCHANGED <<history, selected>>
    BY <1>1, <1>8 DEF Exhausted, Stay
  <2> QED
    BY <1>2, <2>1 DEF Moves
<1>9. CASE Abandon(r) \/ SilentEnd(r) \/ Token(r) \/ Done(r)
  <2>1. /\ Live(r) /\ mode' = mode /\ UNCHANGED <<history, selected>>
        /\ \/ phase'[r] \in {"gone", "calling", "finishing"}
           \/ phase'[r] = "routing" /\ mode[r] = "stream"
    BY <1>1, <1>9 DEF Abandon, SilentEnd, Token, Done, Live, Stay, NextCandidate
  <2> QED
    BY <1>2, <2>1 DEF Moves, Live
<1>10. CASE FailCall(r) \/ FailStream(r) \/ Malformed(r)
  <2>1. Live(r)
    BY <1>10 DEF FailCall, FailStream, Malformed, Live
  <2> QED
    BY <1>4, <1>10, <2>1 DEF FailCall, FailStream, Malformed
<1>11. CASE Call(r)
  <2>1. Live(r)
    BY <1>11 DEF Call, Live
  <2>2. CASE Stay(r, "calling") /\ mode' = mode /\ UNCHANGED <<history, selected>>
    <3>1. phase'[r] = "calling"
      BY <1>1, <2>2 DEF Stay
    <3> QED
      BY <1>2, <2>1, <2>2, <3>1 DEF Moves, Live
  <2> QED
    BY <1>4, <1>11, <2>1, <2>2 DEF Call
<1> QED
  BY <1>5, <1>6, <1>7, <1>8, <1>9, <1>10, <1>11 DEF Actions, Progress

\* The requests that do not move keep their accounts.
LEMMA OthersAccounts ==
  ASSUME Sorts, NEW r \in Requests, Actions(r), NEW q \in Requests \ {r}, Account(q),
         Len(history') < HistoryLimit
  PROVE  Account(q)'
<1>1. /\ phase'[q] = phase[q] /\ mode'[q] = mode[q] /\ at'[q] = at[q]
      /\ record'[q] = record[q]
  BY OthersUnmoved
<1>2. selected'[q] = selected[q]
  <2>1. selected \in [Requests -> Nat]
    BY DEF Sorts, GatewayTypeOK
  <2>2. UNCHANGED selected \/ Announce(r)
    BY DEF Actions, Refuse, Begin, Abandon, Progress, Offer, Exhausted, Call, CallFailed,
           StreamFailed, FailCall, Malformed, Answer, FailStream, Token, Done, Finish,
           SilentEnd, watchVars
  <2> QED
    BY <2>1, <2>2 DEF Announce
<1>3. UNCHANGED history \/ \E s \in {"completed", "failed"} : Conclude(r, s)
  BY DEF Actions, Refuse, Begin, Abandon, Progress, Offer, Exhausted, Call, CallFailed,
         StreamFailed, FailCall, Malformed, Answer, FailStream, Token, Done, Finish,
         SilentEnd, Retry, watchVars
<1>4. \A s : Entries(q, s)' = Entries(q, s)
  <2>1. CASE UNCHANGED history
    BY <2>1 DEF Entries
  <2>2. ASSUME NEW s \in {"completed", "failed"}, Conclude(r, s)
        PROVE  \A t : Entries(q, t)' = Entries(q, t)
    <3>1. \A t : Entries(q, t) \in Nat
      BY EntriesCount
    <3>2. \A t : Entries(q, t)' = Entries(q, t) + 0
      BY <2>2, ConcludeEntries
    <3> QED
      BY <3>1, <3>2
  <2> QED
    BY <1>3, <2>1, <2>2
<1> QED
  BY <1>1, <1>2, <1>4 DEF Account, Live

\* The history does not get room back.
LEMMA RoomBefore ==
  ASSUME Sorts, NEW r \in Requests, Actions(r), Len(history') < HistoryLimit
  PROVE  Len(history) < HistoryLimit
<1>1. UNCHANGED history \/ \E s \in {"completed", "failed"} : Conclude(r, s)
  BY DEF Actions, Refuse, Begin, Abandon, Progress, Offer, Exhausted, Call, CallFailed,
         StreamFailed, FailCall, Malformed, Answer, FailStream, Token, Done, Finish,
         SilentEnd, Retry, watchVars
<1> QED
  BY <1>1, ConcludeEntries

LEMMA BooksStep ==
  ASSUME Sorts, Books, [GatewayNext]_gatewayVars
  PROVE  Books'
<1>1. ASSUME UNCHANGED <<phase, mode, at, record, selected, history>>
      PROVE  Books'
  BY <1>1 DEF Books, Account, Entries, Live
<1>2. ASSUME NEW r \in Requests, Actions(r), Len(history') < HistoryLimit
      PROVE  \A q \in Requests : Account(q)'
  <2>1. \A q \in Requests : Account(q)
    BY <1>2, RoomBefore DEF Books
  <2> QED
    BY <1>2, <2>1, AccountMove, OthersAccounts
<1>3. ASSUME NEW r \in Requests, Actions(r)
      PROVE  Books'
  BY <1>2, <1>3 DEF Books
<1> QED
  BY <1>1, <1>3 DEF GatewayNext, Actions, Elapse, gatewayVars

LEMMA BooksInit == GatewayInit => Books
<1> SUFFICES ASSUME GatewayInit, NEW r \in Requests PROVE Account(r)
  BY DEF Books
<1>1. \A s : Entries(r, s) = 0
  <2>1. \A s : {k \in DOMAIN history : history[k].request = r /\ history[k].state = s} = {}
    BY DEF GatewayInit
  <2> QED
    BY <2>1, FS_EmptySet DEF Entries
<1> QED
  BY <1>1 DEF GatewayInit, Account, Live

\* Whatever fails, in whatever order: as long as the observatory's history has room, it
\* has one entry for what became of each route announced for a generated answer, except
\* the one in use or left by an exception, and an entry of success exactly for what was
\* answered.  (IntelligenceRouter against LLMRoutingObservatory._terminal)
THEOREM HistoryAddsUp == GatewaySpec => []AttemptsAccounted
<1>1. Sorts /\ Books => AttemptsAccounted
  <2> SUFFICES ASSUME Sorts, Len(history) < HistoryLimit, NEW r \in Requests, Account(r)
               PROVE  /\ mode[r] = "generate" =>
                           selected[r] = Entries(r, "failed") + Entries(r, "completed")
                                         + (IF Live(r) \/ phase[r] = "gone" THEN 1 ELSE 0)
                      /\ Entries(r, "failed") + Entries(r, "completed") <= selected[r]
                      /\ Entries(r, "completed") = (IF phase[r] = "answered" THEN 1 ELSE 0)
                      /\ phase[r] = "answered" =>
                           record[r] = [cand |-> at[r], state |-> "completed"]
    BY DEF AttemptsAccounted, Books
  <2> DEFINE F == Entries(r, "failed")
             C == Entries(r, "completed")
  <2>1. F \in Nat /\ C \in Nat /\ selected[r] \in Nat
    BY EntriesCount DEF Sorts, GatewayTypeOK
  <2>2. F + C + (IF Live(r) THEN 1 ELSE 0) <= selected[r]
    BY DEF Account
  <2>3. F + C <= selected[r]
    <3> HIDE DEF F, C
    <3> QED
      BY <2>1, <2>2
  <2> QED
    BY <2>3 DEF Account
<1>2. Sorts /\ Books /\ [GatewayNext]_gatewayVars => (Sorts /\ Books)'
  BY SortsStep, BooksStep
<1> QED
  BY <1>1, <1>2, SortsInit, BooksInit, PTL DEF GatewaySpec
================================================================================
