----------------------------- MODULE SessionTurns -----------------------------
(***************************************************************************)
(* What the turn runtime promises a session: its newest turn is the only   *)
(* one that goes on.  An older turn that has not ended when a newer one    *)
(* starts, and a turn that is interrupted, can only end cancelled; no turn *)
(* ends twice.                                                             *)
(***************************************************************************)
CONSTANTS
  Turns, Sessions,
  NoSession      \* the session of a turn that has not started

VARIABLES
  phase,         \* phase[t]: how far turn t has come
  session        \* session[t]: the session it belongs to

Ends   == {"completed", "failed", "timed_out", "cancelled"}
Phases == {"none", "live", "doomed"} \cup Ends

TurnsTypeOK ==
  /\ phase \in [Turns -> Phases]
  /\ session \in [Turns -> Sessions \cup {NoSession}]

Init ==
  /\ phase = [t \in Turns |-> "none"]
  /\ session = [t \in Turns |-> NoSession]

Start(t, s) ==
  /\ phase[t] = "none"
  /\ phase' = [u \in Turns |->
                 IF u = t THEN "live"
                 ELSE IF phase[u] = "live" /\ session[u] = s THEN "doomed"
                 ELSE phase[u]]
  /\ session' = [session EXCEPT ![t] = s]

Doom(t) ==
  /\ phase[t] = "live"
  /\ phase' = [phase EXCEPT ![t] = "doomed"]
  /\ UNCHANGED session

End(t, o) ==
  /\ phase[t] \in {"live", "doomed"}
  /\ phase[t] = "doomed" => o = "cancelled"
  /\ phase' = [phase EXCEPT ![t] = o]
  /\ UNCHANGED session

Next ==
  \E t \in Turns : \/ \E s \in Sessions : Start(t, s)
                   \/ Doom(t)
                   \/ \E o \in Ends : End(t, o)

vars == <<phase, session>>
Spec == Init /\ [][Next]_vars
================================================================================
