---------------------------- MODULE MCConversation ----------------------------
(* Instances of Conversation for TLC. *)
EXTENDS Conversation, TLC

CONSTANTS t1, t2, t3, s1, s2, k1, k2

\* Calls are interchangeable, and so are contexts.
CallSymmetry == Permutations(Turns) \cup Permutations(Keys)

\* Three calls that come in this order, the second from another session: it waits for the
\* first one's permit and nobody supersedes it, while the third supersedes the first.
Arrival == <<t1, t2, t3>>
Caller  == <<s1, s2, s1>>

InOrder ==
  \A i \in DOMAIN Arrival :
    asked'[Arrival[i]] # NoSession =>
      /\ asked'[Arrival[i]] = Caller[i]
      /\ \A j \in 1..(i - 1) : asked'[Arrival[j]] # NoSession

OrderedSpec == ConvInit /\ [][ConvNext /\ InOrder]_<<turnVars, convVars>> /\ ConvFairness
================================================================================
