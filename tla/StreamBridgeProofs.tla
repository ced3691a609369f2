--------------------------- MODULE StreamBridgeProofs --------------------------
(***************************************************************************)
(* ItemsInOrder, for every kind and number of items and every size of the  *)
(* queue.  What the reader has taken is right only because of what waits   *)
(* for it, so the invariant follows an item from the iterator, over the    *)
(* scheduled put, through the queue: as long as the reader goes on, the    *)
(* places in line are the next positions of the stream without a gap, and  *)
(* a mark comes behind the last item.                                      *)
(***************************************************************************)
EXTENDS StreamBridge, TLAPS

(***************************************************************************)
(* The invariant                                                           *)
(***************************************************************************)
\* What the variables may hold.
BridgeTypeOK ==
  /\ maker \in {"making", "next", "pushing", "closing", "over", "broken"}
  /\ given \in Seq(Kinds) /\ Len(given) <= MaxItems
  /\ ending \in {"open", "end", "failure", "abandoned"}
  /\ {put, pushed} \subseteq 0 .. FailMark
  /\ queue \in Seq(1 .. FailMark)
  /\ reader \in {"check", "get", "yield", "finally", "dropped", "reaping", "over"}
  /\ taken \in Seq(1 .. MaxItems) /\ events \in Seq(1 .. MaxItems)
  /\ {token, stopping} \subseteq BOOLEAN
  /\ result \in {"none", "success", "error", "cancelled"}

\* The maker asks the iterator as long as it is open and puts one thing at a time.
MakerRight ==
  /\ maker \in {"making", "next"} => ending = "open" /\ put = Nothing
  /\ maker \in {"closing", "over", "broken"} => put = Nothing
  /\ maker = "closing" /\ ~token => ending # "open"
  /\ maker = "pushing" => put \in {Nothing, pushed} /\ pushed # Nothing
  /\ maker = "pushing" /\ pushed \notin Marks => ending = "open"
  /\ maker = "pushing" /\ pushed = FailMark => ending = "failure"

\* A reader that goes on has no result; the end of a dropped one has set the token.
ReaderRight ==
  /\ reader \in {"check", "get", "yield"} => result = "none"
  /\ reader = "reaping" => token

\* What may be at the place i of the queue: the item of the iterator whose turn it
\* is, or a mark behind the last one.
Fits(x, i) ==
  LET p == Len(taken) + i
  IN  \/ x = p /\ p <= Len(given)
      \/ x = FailMark /\ ending = "failure" /\ p = Len(given) + 1
      \/ x = EndMark /\ ending \in {"end", "abandoned"} /\ p = Len(given) + 1
      \/ x = EndMark /\ ending = "failure" /\ p = Len(given) + 2

\* What has been taken, waits in the queue or is being put.
Passed == Len(taken) + Len(queue) + (IF put = Nothing THEN 0 ELSE 1)

Reading == reader \in {"check", "get", "yield"}

\* While the reader goes on, nothing is missing between what it has taken and what
\* the maker holds, and nothing is out of place; a put that was given up, with the
\* token set, was the last.
LineRight ==
  Reading =>
    /\ \A i \in DOMAIN queue : Fits(queue[i], i)
    /\ put # Nothing => Fits(put, Len(queue) + 1)
    /\ maker \in {"making", "next"} => Passed = Len(given)
    /\ maker = "pushing" /\ pushed \notin Marks => Passed = Len(given)
    /\ maker = "pushing" /\ pushed = FailMark =>
         ending = "failure" /\ Passed = Len(given) + 1
    /\ maker \in {"closing", "broken"} /\ ~token =>
         Passed = Len(given) + (IF ending = "failure" THEN 1 ELSE 0)

\* All of it.
BridgeInv == BridgeTypeOK /\ MakerRight /\ ReaderRight /\ LineRight /\ ItemsInOrder

(***************************************************************************)
(* Sequences, constants                                                    *)
(***************************************************************************)
\* Append adds its element at the end and leaves the others where they are.
LEMMA AppendFacts ==
  ASSUME NEW S, NEW q \in Seq(S), NEW e \in S
  PROVE  /\ Append(q, e) \in Seq(S)
         /\ Len(Append(q, e)) = Len(q) + 1
         /\ DOMAIN Append(q, e) = 1..Len(q) + 1
         /\ \A i \in 1..Len(q) : Append(q, e)[i] = q[i]
         /\ Append(q, e)[Len(q) + 1] = e
  OBVIOUS

\* Tail moves everything one place forward; Head was in front.
LEMMA TailFacts ==
  ASSUME NEW S, NEW q \in Seq(S), q # <<>>
  PROVE  /\ Tail(q) \in Seq(S) /\ Len(Tail(q)) = Len(q) - 1
         /\ DOMAIN Tail(q) = 1..Len(q) - 1
         /\ \A i \in 1..Len(q) - 1 : Tail(q)[i] = q[i + 1]
         /\ Head(q) = q[1] /\ 1 \in 1..Len(q)
  OBVIOUS

\* The marks are no positions of the stream, and nothing is no mark.
LEMMA MarkFacts ==
  /\ MaxItems \in Nat /\ EndMark = MaxItems + 1 /\ FailMark = MaxItems + 2 /\ Nothing = 0
  /\ Marks = {EndMark, FailMark} /\ QueueSize \in Nat
BY BridgeConstantsOK DEF EndMark, FailMark, Nothing, Marks

\* ItemsInOrder is about what was given, taken and handed on, and about how the two
\* sides ended: a step that leaves the first three alone, and ends at most the
\* iterator that was open or the stream that is cancelled, keeps it.
LEMMA ItemsKept ==
  ASSUME ItemsInOrder, UNCHANGED <<given, taken, events>>,
         ending' = ending \/ ending = "open", result' \in {result, "cancelled"}
  PROVE  ItemsInOrder'
<1>1. /\ Len(taken) <= Len(given)
      /\ \A k \in DOMAIN taken : taken[k] = k
      /\ \A i, j \in DOMAIN events : i < j => events[i] < events[j]
  BY DEF ItemsInOrder
<1>2. {events[i] : i \in DOMAIN events} = {k \in DOMAIN taken : given[k] = "token"}
  BY DEF ItemsInOrder
<1>3. /\ result = "success" => ending \in {"end", "abandoned"} /\ Len(taken) = Len(given)
      /\ result = "error" => \/ taken # <<>> /\ given[Len(taken)] = "error"
                             \/ ending = "failure" /\ Len(taken) = Len(given)
  BY DEF ItemsInOrder
<1>4. given' = given /\ taken' = taken /\ events' = events
  OBVIOUS
<1> QED
  BY <1>1, <1>2, <1>3, <1>4 DEF ItemsInOrder

\* The invariant at the start.
LEMMA InitRight == BridgeInit => BridgeInv
<1> SUFFICES ASSUME BridgeInit PROVE BridgeInv
  OBVIOUS
<1>1. BridgeTypeOK
  <2>1. given \in Seq(Kinds) /\ Len(given) = 0 /\ queue \in Seq(1 .. FailMark)
        /\ taken \in Seq(1 .. MaxItems) /\ events \in Seq(1 .. MaxItems)
    BY DEF BridgeInit
  <2>2. {put, pushed} \subseteq 0 .. FailMark
    BY MarkFacts DEF BridgeInit
  <2>3. {token, stopping} \subseteq BOOLEAN
    BY DEF BridgeInit
  <2>4. /\ maker \in {"making", "next", "pushing", "closing", "over", "broken"}
        /\ ending \in {"open", "end", "failure", "abandoned"}
        /\ reader \in {"check", "get", "yield", "finally", "dropped", "reaping", "over"}
        /\ result \in {"none", "success", "error", "cancelled"}
    BY DEF BridgeInit
  <2>5. Len(given) <= MaxItems
    BY <2>1, MarkFacts
  <2>6. QED
    BY <2>1, <2>2, <2>3, <2>4, <2>5 DEF BridgeTypeOK
<1>2. MakerRight /\ ReaderRight
  BY MarkFacts DEF BridgeInit, MakerRight, ReaderRight
<1>3. LineRight
  BY MarkFacts DEF BridgeInit, LineRight, Passed
<1>4. ItemsInOrder
  BY DEF BridgeInit, ItemsInOrder
<1>5. QED
  BY <1>1, <1>2, <1>3, <1>4 DEF BridgeInv

\* The provider gives its iterator.
LEMMA MakeIteratorRight == ASSUME BridgeInv, MakeIterator PROVE BridgeInv'
<1> USE MarkFacts DEF BridgeInv
<1>1. BridgeTypeOK'
  BY DEF MakeIterator, makerVars, readerVars, BridgeTypeOK
<1>2. MakerRight'
  BY DEF MakeIterator, makerVars, readerVars, BridgeTypeOK, MakerRight
<1>3. ReaderRight'
  BY DEF MakeIterator, makerVars, readerVars, BridgeTypeOK, ReaderRight
<1>4. LineRight'
  BY DEF MakeIterator, makerVars, readerVars, BridgeTypeOK, MakerRight, ReaderRight, LineRight, Passed, Reading, Fits
<1>5. ItemsInOrder'
  <2>1. /\ UNCHANGED <<given, taken, events>>
        /\ ending' = ending \/ ending = "open"
        /\ result' \in {result, "cancelled"}
    BY DEF MakeIterator, makerVars, readerVars, MakerRight
  <2>2. QED
    BY <2>1, ItemsKept
<1>6. QED
  BY <1>1, <1>2, <1>3, <1>4, <1>5

\* The provider raises instead.
LEMMA FactoryRaisesRight == ASSUME BridgeInv, FactoryRaises PROVE BridgeInv'
<1> USE MarkFacts DEF BridgeInv
<1>1. BridgeTypeOK'
  BY DEF FactoryRaises, makerVars, readerVars, BridgeTypeOK
<1>2. MakerRight'
  BY DEF FactoryRaises, makerVars, readerVars, BridgeTypeOK, MakerRight
<1>3. ReaderRight'
  BY DEF FactoryRaises, makerVars, readerVars, BridgeTypeOK, ReaderRight
<1>4. LineRight'
  BY DEF FactoryRaises, makerVars, readerVars, BridgeTypeOK, MakerRight, ReaderRight, LineRight, Passed, Reading, Fits
<1>5. ItemsInOrder'
  <2>1. /\ UNCHANGED <<given, taken, events>>
        /\ ending' = ending \/ ending = "open"
        /\ result' \in {result, "cancelled"}
    BY DEF FactoryRaises, makerVars, readerVars, MakerRight
  <2>2. QED
    BY <2>1, ItemsKept
<1>6. QED
  BY <1>1, <1>2, <1>3, <1>4, <1>5

\* The iterator is exhausted.
LEMMA ExhaustRight == ASSUME BridgeInv, Exhaust PROVE BridgeInv'
<1> USE MarkFacts DEF BridgeInv
<1>1. BridgeTypeOK'
  BY DEF Exhaust, makerVars, readerVars, BridgeTypeOK
<1>2. MakerRight'
  BY DEF Exhaust, makerVars, readerVars, BridgeTypeOK, MakerRight
<1>3. ReaderRight'
  BY DEF Exhaust, makerVars, readerVars, BridgeTypeOK, ReaderRight
<1>4. LineRight'
  BY DEF Exhaust, makerVars, readerVars, BridgeTypeOK, MakerRight, ReaderRight, LineRight, Passed, Reading, Fits
<1>5. ItemsInOrder'
  <2>1. /\ UNCHANGED <<given, taken, events>>
        /\ ending' = ending \/ ending = "open"
        /\ result' \in {result, "cancelled"}
    BY DEF Exhaust, makerVars, readerVars, MakerRight
  <2>2. QED
    BY <2>1, ItemsKept
<1>6. QED
  BY <1>1, <1>2, <1>3, <1>4, <1>5

\* The iterator raises.
LEMMA RaiseRight == ASSUME BridgeInv, Raise PROVE BridgeInv'
<1> USE MarkFacts DEF BridgeInv
<1>1. BridgeTypeOK'
  BY DEF Raise, Push, makerVars, readerVars, BridgeTypeOK
<1>2. MakerRight'
  BY DEF Raise, Push, makerVars, readerVars, BridgeTypeOK, MakerRight
<1>3. ReaderRight'
  BY DEF Raise, Push, makerVars, readerVars, BridgeTypeOK, ReaderRight
<1>4. LineRight'
  BY DEF Raise, Push, makerVars, readerVars, BridgeTypeOK, MakerRight, ReaderRight, LineRight, Passed, Reading, Fits
<1>5. ItemsInOrder'
  <2>1. /\ UNCHANGED <<given, taken, events>>
        /\ ending' = ending \/ ending = "open"
        /\ result' \in {result, "cancelled"}
    BY DEF Raise, Push, makerVars, readerVars, MakerRight
  <2>2. QED
    BY <2>1, ItemsKept
<1>6. QED
  BY <1>1, <1>2, <1>3, <1>4, <1>5

\* The iterator is broken off.
LEMMA AbandonRight == ASSUME BridgeInv, Abandon PROVE BridgeInv'
<1> USE MarkFacts DEF BridgeInv
<1>1. BridgeTypeOK'
  BY DEF Abandon, makerVars, readerVars, BridgeTypeOK
<1>2. MakerRight'
  BY DEF Abandon, makerVars, readerVars, BridgeTypeOK, MakerRight
<1>3. ReaderRight'
  BY DEF Abandon, makerVars, readerVars, BridgeTypeOK, ReaderRight
<1>4. LineRight'
  BY DEF Abandon, makerVars, readerVars, BridgeTypeOK, MakerRight, ReaderRight, LineRight, Passed, Reading, Fits
<1>5. ItemsInOrder'
  <2>1. /\ UNCHANGED <<given, taken, events>>
        /\ ending' = ending \/ ending = "open"
        /\ result' \in {result, "cancelled"}
    BY DEF Abandon, makerVars, readerVars, MakerRight
  <2>2. QED
    BY <2>1, ItemsKept
<1>6. QED
  BY <1>1, <1>2, <1>3, <1>4, <1>5

\* The end is pushed, or the thread ends.
LEMMA CloseRight == ASSUME BridgeInv, Close PROVE BridgeInv'
<1> USE MarkFacts DEF BridgeInv
<1>1. BridgeTypeOK'
  BY DEF Close, Push, makerVars, readerVars, BridgeTypeOK
<1>2. MakerRight'
  BY DEF Close, Push, makerVars, readerVars, BridgeTypeOK, MakerRight
<1>3. ReaderRight'
  BY DEF Close, Push, makerVars, readerVars, BridgeTypeOK, ReaderRight
<1>4. LineRight'
  <2>1. /\ maker = "closing" /\ put = Nothing /\ UNCHANGED <<given, ending, queue, reader, taken, token>>
        /\ Len(queue) \in Nat /\ Len(taken) \in Nat /\ Len(given) \in Nat
    BY DEF Close, readerVars, MakerRight, BridgeTypeOK
  <2>2. /\ Reading' = Reading
        /\ (\A i \in DOMAIN queue : Fits(queue[i], i))' = \A i \in DOMAIN queue : Fits(queue[i], i)
        /\ Fits(EndMark, Len(queue) + 1)' = Fits(EndMark, Len(queue) + 1)
    BY <2>1 DEF Reading, Fits, EndMark, FailMark
  <2>3. CASE token
    <3>1. maker' = "over" /\ put' = Nothing
      BY <2>1, <2>3 DEF Close
    <3>2. QED
      BY <2>2, <3>1 DEF LineRight
  <2>4. CASE ~token
    <3>1. maker' = "pushing" /\ pushed' = EndMark /\ put' = EndMark
      BY <2>4 DEF Close, Push
    <3>2. Reading => Fits(EndMark, Len(queue) + 1)
      <4>1. ending \in {"end", "failure", "abandoned"}
        BY <2>1, <2>4 DEF MakerRight, BridgeTypeOK
      <4>2. Reading => Len(taken) + Len(queue) = Len(given) + (IF ending = "failure" THEN 1 ELSE 0)
        BY <2>1, <2>4 DEF LineRight, Passed
      <4>3. QED
        BY <2>1, <4>1, <4>2 DEF Fits
    <3>3. EndMark \in Marks /\ EndMark # FailMark
      OBVIOUS
    <3>4. QED
      BY <2>2, <3>1, <3>2, <3>3 DEF LineRight
  <2>5. QED
    BY <2>3, <2>4
<1>5. ItemsInOrder'
  <2>1. /\ UNCHANGED <<given, taken, events>>
        /\ ending' = ending \/ ending = "open"
        /\ result' \in {result, "cancelled"}
    BY DEF Close, Push, makerVars, readerVars
  <2>2. QED
    BY <2>1, ItemsKept
<1>6. QED
  BY <1>1, <1>2, <1>3, <1>4, <1>5

\* The iterator raises as it is closed.
LEMMA CloseRaisesRight == ASSUME BridgeInv, CloseRaises PROVE BridgeInv'
<1> USE MarkFacts DEF BridgeInv
<1>1. BridgeTypeOK'
  BY DEF CloseRaises, makerVars, readerVars, BridgeTypeOK
<1>2. MakerRight'
  BY DEF CloseRaises, makerVars, readerVars, BridgeTypeOK, MakerRight
<1>3. ReaderRight'
  BY DEF CloseRaises, makerVars, readerVars, BridgeTypeOK, ReaderRight
<1>4. LineRight'
  BY DEF CloseRaises, makerVars, readerVars, BridgeTypeOK, MakerRight, ReaderRight, LineRight, Passed, Reading, Fits
<1>5. ItemsInOrder'
  <2>1. /\ UNCHANGED <<given, taken, events>>
        /\ ending' = ending \/ ending = "open"
        /\ result' \in {result, "cancelled"}
    BY DEF CloseRaises, makerVars, readerVars, MakerRight
  <2>2. QED
    BY <2>1, ItemsKept
<1>6. QED
  BY <1>1, <1>2, <1>3, <1>4, <1>5

\* push returns, and may give its put up.
LEMMA PushedRight == ASSUME BridgeInv, Pushed PROVE BridgeInv'
<1> USE MarkFacts DEF BridgeInv
<1>1. BridgeTypeOK'
  BY DEF Pushed, makerVars, readerVars, BridgeTypeOK
<1>2. MakerRight'
  BY DEF Pushed, makerVars, readerVars, BridgeTypeOK, MakerRight
<1>3. ReaderRight'
  BY DEF Pushed, makerVars, readerVars, BridgeTypeOK, ReaderRight
<1>4. LineRight'
  BY DEF Pushed, makerVars, readerVars, BridgeTypeOK, MakerRight, ReaderRight, LineRight, Passed, Reading, Fits
<1>5. ItemsInOrder'
  <2>1. /\ UNCHANGED <<given, taken, events>>
        /\ ending' = ending \/ ending = "open"
        /\ result' \in {result, "cancelled"}
    BY DEF Pushed, makerVars, readerVars
  <2>2. QED
    BY <2>1, ItemsKept
<1>6. QED
  BY <1>1, <1>2, <1>3, <1>4, <1>5

\* The reader looks at the token.
LEMMA CheckRight == ASSUME BridgeInv, Check PROVE BridgeInv'
<1> USE MarkFacts DEF BridgeInv
<1>1. BridgeTypeOK'
  BY DEF Check, Leave, makerVars, readerVars, BridgeTypeOK
<1>2. MakerRight'
  BY DEF Check, Leave, makerVars, readerVars, BridgeTypeOK, MakerRight
<1>3. ReaderRight'
  BY DEF Check, Leave, makerVars, readerVars, BridgeTypeOK, ReaderRight
<1>4. LineRight'
  BY DEF Check, Leave, makerVars, readerVars, BridgeTypeOK, MakerRight, ReaderRight, LineRight, Passed, Reading, Fits
<1>5. ItemsInOrder'
  <2>1. /\ UNCHANGED <<given, taken, events>>
        /\ ending' = ending \/ ending = "open"
        /\ result' \in {result, "cancelled"}
    BY DEF Check, Leave, makerVars, readerVars
  <2>2. QED
    BY <2>1, ItemsKept
<1>6. QED
  BY <1>1, <1>2, <1>3, <1>4, <1>5

\* The turn asks for the next event.
LEMMA ResumeRight == ASSUME BridgeInv, Resume PROVE BridgeInv'
<1> USE MarkFacts DEF BridgeInv
<1>1. BridgeTypeOK'
  BY DEF Resume, makerVars, readerVars, BridgeTypeOK
<1>2. MakerRight'
  BY DEF Resume, makerVars, readerVars, BridgeTypeOK, MakerRight
<1>3. ReaderRight'
  BY DEF Resume, makerVars, readerVars, BridgeTypeOK, ReaderRight
<1>4. LineRight'
  BY DEF Resume, makerVars, readerVars, BridgeTypeOK, MakerRight, ReaderRight, LineRight, Passed, Reading, Fits
<1>5. ItemsInOrder'
  <2>1. /\ UNCHANGED <<given, taken, events>>
        /\ ending' = ending \/ ending = "open"
        /\ result' \in {result, "cancelled"}
    BY DEF Resume, makerVars, readerVars
  <2>2. QED
    BY <2>1, ItemsKept
<1>6. QED
  BY <1>1, <1>2, <1>3, <1>4, <1>5

\* The turn closes the stream.
LEMMA CloseStreamRight == ASSUME BridgeInv, CloseStream PROVE BridgeInv'
<1> USE MarkFacts DEF BridgeInv
<1>1. BridgeTypeOK'
  BY DEF CloseStream, Drop, makerVars, readerVars, BridgeTypeOK
<1>2. MakerRight'
  BY DEF CloseStream, Drop, makerVars, readerVars, BridgeTypeOK, MakerRight
<1>3. ReaderRight'
  BY DEF CloseStream, Drop, makerVars, readerVars, BridgeTypeOK, ReaderRight
<1>4. LineRight'
  BY DEF CloseStream, Drop, makerVars, readerVars, BridgeTypeOK, MakerRight, ReaderRight, LineRight, Passed, Reading, Fits
<1>5. ItemsInOrder'
  <2>1. /\ UNCHANGED <<given, taken, events>>
        /\ ending' = ending \/ ending = "open"
        /\ result' \in {result, "cancelled"}
    BY DEF CloseStream, Drop, makerVars, readerVars
  <2>2. QED
    BY <2>1, ItemsKept
<1>6. QED
  BY <1>1, <1>2, <1>3, <1>4, <1>5

\* The dropped generator is closed.
LEMMA FinalizeRight == ASSUME BridgeInv, Finalize PROVE BridgeInv'
<1> USE MarkFacts DEF BridgeInv
<1>1. BridgeTypeOK'
  BY DEF Finalize, makerVars, readerVars, BridgeTypeOK
<1>2. MakerRight'
  BY DEF Finalize, makerVars, readerVars, BridgeTypeOK, MakerRight
<1>3. ReaderRight'
  BY DEF Finalize, makerVars, readerVars, BridgeTypeOK, ReaderRight
<1>4. LineRight'
  BY DEF Finalize, makerVars, readerVars, BridgeTypeOK, MakerRight, ReaderRight, LineRight, Passed, Reading, Fits
<1>5. ItemsInOrder'
  <2>1. /\ UNCHANGED <<given, taken, events>>
        /\ ending' = ending \/ ending = "open"
        /\ result' \in {result, "cancelled"}
    BY DEF Finalize, makerVars, readerVars, MakerRight
  <2>2. QED
    BY <2>1, ItemsKept
<1>6. QED
  BY <1>1, <1>2, <1>3, <1>4, <1>5

\* cancel_turn.
LEMMA CancelTurnRight == ASSUME BridgeInv, CancelTurn PROVE BridgeInv'
<1> USE MarkFacts DEF BridgeInv
<1>1. BridgeTypeOK'
  BY DEF CancelTurn, OwnTask, makerVars, readerVars, BridgeTypeOK
<1>2. MakerRight'
  BY DEF CancelTurn, OwnTask, makerVars, readerVars, BridgeTypeOK, MakerRight
<1>3. ReaderRight'
  BY DEF CancelTurn, OwnTask, makerVars, readerVars, BridgeTypeOK, ReaderRight
<1>4. LineRight'
  BY DEF CancelTurn, OwnTask, makerVars, readerVars, BridgeTypeOK, MakerRight, ReaderRight, LineRight, Passed, Reading, Fits
<1>5. ItemsInOrder'
  <2>1. /\ UNCHANGED <<given, taken, events>>
        /\ ending' = ending \/ ending = "open"
        /\ result' \in {result, "cancelled"}
    BY DEF CancelTurn, OwnTask, makerVars, readerVars
  <2>2. QED
    BY <2>1, ItemsKept
<1>6. QED
  BY <1>1, <1>2, <1>3, <1>4, <1>5

\* The deadline.
LEMMA CancelTaskRight == ASSUME BridgeInv, CancelTask PROVE BridgeInv'
<1> USE MarkFacts DEF BridgeInv
<1>1. BridgeTypeOK'
  BY DEF CancelTask, OwnTask, makerVars, readerVars, BridgeTypeOK
<1>2. MakerRight'
  BY DEF CancelTask, OwnTask, makerVars, readerVars, BridgeTypeOK, MakerRight
<1>3. ReaderRight'
  BY DEF CancelTask, OwnTask, makerVars, readerVars, BridgeTypeOK, ReaderRight
<1>4. LineRight'
  BY DEF CancelTask, OwnTask, makerVars, readerVars, BridgeTypeOK, MakerRight, ReaderRight, LineRight, Passed, Reading, Fits
<1>5. ItemsInOrder'
  <2>1. /\ UNCHANGED <<given, taken, events>>
        /\ ending' = ending \/ ending = "open"
        /\ result' \in {result, "cancelled"}
    BY DEF CancelTask, OwnTask, makerVars, readerVars, MakerRight
  <2>2. QED
    BY <2>1, ItemsKept
<1>6. QED
  BY <1>1, <1>2, <1>3, <1>4, <1>5

\* Somebody else sets the token.
LEMMA SetTokenRight == ASSUME BridgeInv, SetToken PROVE BridgeInv'
<1> USE MarkFacts DEF BridgeInv
<1>1. BridgeTypeOK'
  BY DEF SetToken, makerVars, readerVars, BridgeTypeOK
<1>2. MakerRight'
  BY DEF SetToken, makerVars, readerVars, BridgeTypeOK, MakerRight
<1>3. ReaderRight'
  BY DEF SetToken, makerVars, readerVars, BridgeTypeOK, ReaderRight
<1>4. LineRight'
  BY DEF SetToken, makerVars, readerVars, BridgeTypeOK, MakerRight, ReaderRight, LineRight, Passed, Reading, Fits
<1>5. ItemsInOrder'
  <2>1. /\ UNCHANGED <<given, taken, events>>
        /\ ending' = ending \/ ending = "open"
        /\ result' \in {result, "cancelled"}
    BY DEF SetToken, makerVars, readerVars, MakerRight
  <2>2. QED
    BY <2>1, ItemsKept
<1>6. QED
  BY <1>1, <1>2, <1>3, <1>4, <1>5

\* The reader hears of the cancellation.
LEMMA HearCancelRight == ASSUME BridgeInv, HearCancel PROVE BridgeInv'
<1> USE MarkFacts DEF BridgeInv
<1>1. BridgeTypeOK'
  BY DEF HearCancel, Leave, makerVars, readerVars, BridgeTypeOK
<1>2. MakerRight'
  BY DEF HearCancel, Leave, makerVars, readerVars, BridgeTypeOK, MakerRight
<1>3. ReaderRight'
  BY DEF HearCancel, Leave, makerVars, readerVars, BridgeTypeOK, ReaderRight
<1>4. LineRight'
  BY DEF HearCancel, Leave, makerVars, readerVars, BridgeTypeOK, MakerRight, ReaderRight, LineRight, Passed, Reading, Fits
<1>5. ItemsInOrder'
  <2>1. /\ UNCHANGED <<given, taken, events>>
        /\ ending' = ending \/ ending = "open"
        /\ result' \in {result, "cancelled"}
    BY DEF HearCancel, Leave, makerVars, readerVars
  <2>2. QED
    BY <2>1, ItemsKept
<1>6. QED
  BY <1>1, <1>2, <1>3, <1>4, <1>5

\* The thread has ended.
LEMMA JoinRight == ASSUME BridgeInv, Join PROVE BridgeInv'
<1> USE MarkFacts DEF BridgeInv
<1>1. BridgeTypeOK'
  BY DEF Join, MakerEnded, makerVars, readerVars, BridgeTypeOK
<1>2. MakerRight'
  BY DEF Join, MakerEnded, makerVars, readerVars, BridgeTypeOK, MakerRight
<1>3. ReaderRight'
  BY DEF Join, MakerEnded, makerVars, readerVars, BridgeTypeOK, ReaderRight
<1>4. LineRight'
  BY DEF Join, MakerEnded, makerVars, readerVars, BridgeTypeOK, MakerRight, ReaderRight, LineRight, Passed, Reading, Fits
<1>5. ItemsInOrder'
  <2>1. /\ UNCHANGED <<given, taken, events>>
        /\ ending' = ending \/ ending = "open"
        /\ result' \in {result, "cancelled"}
    BY DEF Join, MakerEnded, makerVars, readerVars
  <2>2. QED
    BY <2>1, ItemsKept
<1>6. QED
  BY <1>1, <1>2, <1>3, <1>4, <1>5

\* The iterator yields an item.
LEMMA YieldRight == ASSUME BridgeInv, NEW kind \in Kinds, Yield(kind) PROVE BridgeInv'
<1> USE MarkFacts DEF BridgeInv
<1>1. BridgeTypeOK'
  BY DEF Yield, Push, makerVars, readerVars, BridgeTypeOK
<1>2. MakerRight'
  BY DEF Yield, Push, makerVars, readerVars, BridgeTypeOK, MakerRight
<1>3. ReaderRight'
  BY DEF Yield, Push, makerVars, readerVars, BridgeTypeOK, ReaderRight
<1>4. LineRight'
  <2>1. /\ maker = "next" /\ put = Nothing /\ given' = Append(given, kind)
        /\ UNCHANGED <<ending, queue, reader, taken, token>> /\ ending = "open"
        /\ Len(queue) \in Nat /\ Len(taken) \in Nat /\ Len(given) \in Nat
        /\ Len(given) < MaxItems /\ given \in Seq(Kinds) /\ DOMAIN queue = 1..Len(queue)
    BY DEF Yield, readerVars, MakerRight, BridgeTypeOK
  <2>2. Len(given') = Len(given) + 1
    BY <2>1, AppendFacts
  <2>3. Reading' = Reading /\ (Reading => Len(taken) + Len(queue) = Len(given))
    BY <2>1 DEF Reading, LineRight, Passed
  <2>4. ASSUME Reading, NEW i \in DOMAIN queue PROVE Fits(queue[i], i)'
    <3>1. Fits(queue[i], i)
      BY <2>4 DEF LineRight
    <3>2. queue[i] = Len(taken) + i /\ Len(taken) + i <= Len(given)
      BY <2>1, <3>1 DEF Fits
    <3>3. i \in Nat /\ Len(taken') + i <= Len(given')
      BY <2>1, <2>2, <3>2
    <3>4. QED
      BY <2>1, <3>2, <3>3 DEF Fits
  <2>5. CASE token
    <3>1. maker' = "closing" /\ put' = Nothing /\ token'
      BY <2>1, <2>5 DEF Yield
    <3>2. QED
      BY <2>1, <2>3, <2>4, <3>1 DEF LineRight
  <2>6. CASE ~token
    <3>1. maker' = "pushing" /\ pushed' = Len(given) + 1 /\ put' = Len(given) + 1
      BY <2>1, <2>6 DEF Yield, Push
    <3>2. pushed' \notin Marks /\ pushed' # FailMark /\ put' # Nothing
      BY <2>1, <3>1
    <3>3. Reading => Fits(put, Len(queue) + 1)'
      BY <2>1, <2>2, <2>3, <3>1 DEF Fits
    <3>4. Reading => Passed' = Len(given')
      BY <2>1, <2>2, <2>3, <3>2 DEF Passed
    <3>5. QED
      BY <2>1, <2>3, <2>4, <3>1, <3>2, <3>3, <3>4 DEF LineRight
  <2>7. QED
    BY <2>5, <2>6
<1>5. ItemsInOrder'
  <2>1. /\ given' = Append(given, kind) /\ UNCHANGED <<ending, taken, events, result>>
        /\ ending = "open"
    BY DEF Yield, Push, readerVars, MakerRight
  <2>2. given \in Seq(Kinds) /\ Len(given) \in Nat /\ Len(taken) \in Nat
        /\ DOMAIN taken = 1..Len(taken)
    BY DEF BridgeTypeOK
  <2>3. Len(taken) <= Len(given)
    BY DEF ItemsInOrder
  <2>4. Len(given') = Len(given) + 1 /\ \A k \in 1..Len(given) : given'[k] = given[k]
    BY <2>1, <2>2, AppendFacts
  <2>5. \A k \in DOMAIN taken : k \in 1..Len(given) /\ given'[k] = given[k]
    BY <2>2, <2>3, <2>4
  <2>6. {k \in DOMAIN taken' : given'[k] = "token"} = {k \in DOMAIN taken : given[k] = "token"}
    BY <2>1, <2>5
  <2>7. result # "success" /\ (result = "error" => taken # <<>> /\ given[Len(taken)] = "error")
    BY <2>1 DEF ItemsInOrder
  <2>8. result = "error" => taken # <<>> /\ given'[Len(taken)] = "error"
    <3>1. taken # <<>> => Len(taken) \in DOMAIN taken
      BY DEF BridgeTypeOK
    <3>2. QED
      BY <3>1, <2>5, <2>7
  <2>9. Len(taken') <= Len(given')
    BY <2>1, <2>2, <2>3, <2>4
  <2>10. /\ \A k \in DOMAIN taken : taken[k] = k
         /\ \A i, j \in DOMAIN events : i < j => events[i] < events[j]
         /\ {events[i] : i \in DOMAIN events} = {k \in DOMAIN taken : given[k] = "token"}
    BY DEF ItemsInOrder
  <2>11. QED
    BY <2>1, <2>6, <2>7, <2>8, <2>9, <2>10 DEF ItemsInOrder
<1>6. QED
  BY <1>1, <1>2, <1>3, <1>4, <1>5

\* The loop runs the put: it keeps its place in line.
LEMMA RunPutRight == ASSUME BridgeInv, RunPut PROVE BridgeInv'
<1> USE MarkFacts DEF BridgeInv
<1>1. BridgeTypeOK'
  BY DEF RunPut, makerVars, readerVars, BridgeTypeOK
<1>2. MakerRight'
  BY DEF RunPut, makerVars, readerVars, BridgeTypeOK, MakerRight
<1>3. ReaderRight'
  BY DEF RunPut, makerVars, readerVars, BridgeTypeOK, ReaderRight
<1>4. LineRight'
  <2> SUFFICES ASSUME Reading PROVE LineRight'
    BY DEF RunPut, LineRight, Reading, readerVars
  <2>1. queue \in Seq(1 .. FailMark) /\ put \in 1 .. FailMark /\ queue' = Append(queue, put)
    BY DEF RunPut, BridgeTypeOK
  <2>2. /\ Len(queue') = Len(queue) + 1
        /\ DOMAIN queue' = 1..Len(queue) + 1
        /\ \A i \in 1..Len(queue) : queue'[i] = queue[i]
        /\ queue'[Len(queue) + 1] = put
    BY <2>1, AppendFacts
  <2>3. \A x, i : Fits(x, i)' = Fits(x, i)
    BY DEF RunPut, makerVars, readerVars, Fits
  <2>4. \A i \in DOMAIN queue : Fits(queue[i], i)
    BY DEF LineRight
  <2>5. Fits(put, Len(queue) + 1)
    BY DEF LineRight, RunPut
  <2>6. ASSUME NEW i \in DOMAIN queue' PROVE Fits(queue'[i], i)
    <3>1. CASE i = Len(queue) + 1
      BY <3>1, <2>2, <2>5
    <3>2. CASE i # Len(queue) + 1
      <4>1. i \in DOMAIN queue /\ queue'[i] = queue[i]
        BY <3>2, <2>1, <2>2, <2>6
      <4>2. QED
        BY <4>1, <2>4
    <3>3. QED
      BY <3>1, <3>2
  <2>7. \A i \in DOMAIN queue' : Fits(queue[i], i)'
    BY <2>6 DEF RunPut, makerVars, readerVars, Fits
  <2>8. Len(queue) \in Nat /\ Len(taken) \in Nat
    BY DEF BridgeTypeOK
  <2>9. Len(queue') + 0 = Len(queue) + 1 /\ put' = Nothing
    BY <2>2, <2>8 DEF RunPut
  <2>10. Passed' = Passed
    BY <2>8, <2>9 DEF Passed, RunPut, readerVars
  <2>11. UNCHANGED <<maker, pushed, given, ending, token>>
    BY DEF RunPut
  <2>12. QED
    BY <2>7, <2>9, <2>10, <2>11 DEF LineRight
<1>5. ItemsInOrder'
  <2>1. /\ UNCHANGED <<given, taken, events>>
        /\ ending' = ending \/ ending = "open"
        /\ result' \in {result, "cancelled"}
    BY DEF RunPut, makerVars, readerVars
  <2>2. QED
    BY <2>1, ItemsKept
<1>6. QED
  BY <1>1, <1>2, <1>3, <1>4, <1>5

\* The reader takes a mark.  The mark of the end, in front of the line, stands for
\* an exhausted iterator all of whose items are taken; that of a failure likewise.
LEMMA TakeMarkRight == ASSUME BridgeInv, TakeMark PROVE BridgeInv'
<1> USE MarkFacts DEF BridgeInv
<1>1. BridgeTypeOK'
  BY DEF TakeMark, Leave, makerVars, readerVars, BridgeTypeOK
<1>2. MakerRight'
  BY DEF TakeMark, Leave, makerVars, readerVars, BridgeTypeOK, MakerRight
<1>3. ReaderRight'
  BY DEF TakeMark, Leave, makerVars, readerVars, BridgeTypeOK, ReaderRight
<1>4. LineRight'
  BY DEF TakeMark, Leave, makerVars, readerVars, BridgeTypeOK, LineRight, Reading
<1>5. ItemsInOrder'
  <2>1. Reading
    BY DEF TakeMark, Reading
  <2>2. Head(queue) = queue[1] /\ 1 \in DOMAIN queue
    BY DEF TakeMark, BridgeTypeOK
  <2>3. Fits(Head(queue), 1) /\ Head(queue) \in Marks
    BY <2>1, <2>2 DEF LineRight, TakeMark
  <2>4. Len(taken) \in Nat /\ Len(given) \in 0 .. MaxItems /\ Len(taken) <= Len(given)
    BY DEF BridgeTypeOK, ItemsInOrder
  <2>5. /\ Head(queue) = EndMark => ending \in {"end", "abandoned"} /\ Len(taken) = Len(given)
        /\ Head(queue) # EndMark => ending = "failure" /\ Len(taken) = Len(given)
    BY <2>3, <2>4 DEF Fits
  <2>6. result' = (IF Head(queue) = EndMark THEN "success" ELSE "error")
        /\ UNCHANGED <<makerVars, taken, events>>
    BY DEF TakeMark, Leave
  <2>7. QED
    BY <2>5, <2>6 DEF ItemsInOrder, makerVars
<1>6. QED
  BY <1>1, <1>2, <1>3, <1>4, <1>5

\* The reader takes an item: it is the next one of the stream.
LEMMA NextIsTaken ==
  ASSUME BridgeInv, TakeItem
  PROVE  /\ Len(taken) \in Nat /\ Head(queue) = Len(taken) + 1
         /\ Head(queue) \in 1..Len(given) /\ Head(queue) \in 1..MaxItems /\ Reading
         /\ taken' \in Seq(1..MaxItems) /\ Len(taken') = Len(taken) + 1
         /\ taken' = Append(taken, Len(taken) + 1)
         /\ \A i \in 1..Len(taken) : taken'[i] = taken[i]
         /\ taken'[Len(taken) + 1] = Len(taken) + 1
<1> USE MarkFacts DEF BridgeInv
<1>1. Reading
  BY DEF TakeItem, Reading
<1>2. Head(queue) = queue[1] /\ 1 \in DOMAIN queue /\ Head(queue) \notin Marks
  BY DEF TakeItem, BridgeTypeOK
<1>3. Fits(Head(queue), 1)
  BY <1>1, <1>2 DEF LineRight
<1>4. Len(taken) \in Nat /\ Len(given) \in 0 .. MaxItems /\ taken \in Seq(1..MaxItems)
  BY DEF BridgeTypeOK
<1>5. Head(queue) = Len(taken) + 1 /\ Head(queue) \in 1..Len(given)
  BY <1>2, <1>3, <1>4 DEF Fits
<1>6. Len(taken) + 1 \in 1..MaxItems
  BY <1>4, <1>5
<1>7. taken' = Append(taken, Len(taken) + 1)
  BY <1>5 DEF TakeItem
<1>8. QED
  BY <1>1, <1>4, <1>5, <1>6, <1>7, AppendFacts

LEMMA TakeItemRight == ASSUME BridgeInv, TakeItem PROVE BridgeInv'
<1> USE MarkFacts DEF BridgeInv
<1>0. DEFINE n == Len(taken) + 1
<1>1. /\ Len(taken) \in Nat /\ Head(queue) = n /\ n \in 1..Len(given) /\ n \in 1..MaxItems
      /\ Reading /\ taken' \in Seq(1..MaxItems) /\ Len(taken') = n
      /\ \A i \in 1..Len(taken) : taken'[i] = taken[i]
      /\ taken'[n] = n
  BY NextIsTaken
<1>2. /\ DOMAIN taken' = 1..n /\ DOMAIN taken = 1..Len(taken)
      /\ DOMAIN events = 1..Len(events) /\ Len(events) \in Nat
      /\ Len(given) \in Nat /\ events \in Seq(1..MaxItems) /\ queue \in Seq(1..FailMark)
      /\ queue # <<>>
  <2>1. /\ events \in Seq(1..MaxItems) /\ queue \in Seq(1..FailMark) /\ given \in Seq(Kinds)
        /\ taken \in Seq(1..MaxItems) /\ queue # <<>>
    BY DEF BridgeTypeOK, TakeItem
  <2>2. DOMAIN taken' = 1..n
    <3>1. taken' \in Seq(1..MaxItems) /\ Len(taken') = n
      BY <1>1
    <3>2. QED
      BY <3>1
  <2>3. QED
    BY <2>1, <2>2
<1>3. UNCHANGED <<makerVars, stopping>> /\ queue' = Tail(queue)
  BY DEF TakeItem
<1>4. \/ /\ given[n] = "token" /\ events' = Append(events, n)
         /\ reader' = "yield" /\ UNCHANGED <<token, result>>
      \/ given[n] = "error" /\ Drop("error") /\ UNCHANGED events
      \/ /\ given[n] # "token" /\ given[n] # "error"
         /\ reader' = "check" /\ UNCHANGED <<events, token, result>>
  BY <1>1 DEF TakeItem
<1>5. /\ queue' \in Seq(1 .. FailMark) /\ Len(queue') = Len(queue) - 1
      /\ DOMAIN queue' = 1..Len(queue) - 1
      /\ \A i \in 1..Len(queue) - 1 : queue'[i] = queue[i + 1]
  BY <1>2, <1>3, TailFacts
<1>6. events' \in Seq(1..MaxItems)
  <2>1. Append(events, n) \in Seq(1..MaxItems)
    BY <1>1, <1>2, AppendFacts
  <2>2. events' = Append(events, n) \/ events' = events
    BY <1>4
  <2>3. QED
    BY <2>1, <2>2, <1>2
<1> HIDE DEF n
<1>7. BridgeTypeOK'
  BY <1>1, <1>3, <1>4, <1>5, <1>6 DEF makerVars, Drop, BridgeTypeOK
<1>8. MakerRight'
  <2>1. token' = token
    BY <1>4 DEF Drop
  <2>2. QED
    BY <1>3, <2>1 DEF makerVars, MakerRight
<1>9. ReaderRight'
  BY <1>3, <1>4 DEF Drop, ReaderRight, TakeItem
<1>10. LineRight'
  <2> SUFFICES ASSUME Reading' PROVE LineRight'
    BY DEF LineRight
  <2>1. /\ Len(queue) \in Nat /\ Len(queue') + 1 = Len(queue) /\ DOMAIN queue = 1..Len(queue)
        /\ Len(taken') = Len(taken) + 1
    <3>1. Len(queue) \in Nat /\ DOMAIN queue = 1..Len(queue)
      BY <1>2
    <3>2. QED
      BY <3>1, <1>1, <1>5 DEF n
  <2>2. given' = given /\ ending' = ending
    BY <1>3 DEF makerVars
  <2>3. ASSUME NEW i \in DOMAIN queue' PROVE Fits(queue[i], i)'
    <3>1. i \in Nat /\ i + 1 \in DOMAIN queue /\ queue'[i] = queue[i + 1]
      <4>1. i \in 1..Len(queue) - 1
        BY <1>5, <2>3
      <4>2. QED
        BY <4>1, <1>5, <2>1
    <3>2. Fits(queue[i + 1], i + 1)
      BY <3>1, <1>1 DEF LineRight
    <3>3. Len(taken') + i = Len(taken) + (i + 1)
      BY <3>1, <2>1, <1>1
    <3>4. QED
      BY <3>1, <3>2, <3>3, <2>2 DEF Fits
  <2>4. put # Nothing => Fits(put, Len(queue) + 1)
    BY <1>1 DEF LineRight
  <2>5. (put # Nothing => Fits(put, Len(queue) + 1))'
    <3>1. put' = put /\ Len(taken') + (Len(queue') + 1) = Len(taken) + (Len(queue) + 1)
      BY <2>1, <1>1, <1>3, <1>5 DEF makerVars
    <3>2. QED
      BY <3>1, <2>2, <2>4 DEF Fits
  <2>6. Passed' = Passed
    <3>1. Len(taken') + Len(queue') = Len(taken) + Len(queue) /\ put' = put
      BY <2>1, <1>1, <1>3, <1>5 DEF makerVars
    <3>2. QED
      BY <3>1 DEF Passed
  <2>7. \/ reader' \in {"check", "yield"} /\ token' = token
        \/ reader' = "dropped"
    BY <1>4 DEF Drop
  <2>8. token' = token /\ UNCHANGED <<maker, pushed, given, ending>>
    BY <2>7, <1>3 DEF Reading, makerVars
  <2>9. QED
    BY <2>3, <2>5, <2>6, <2>8, <1>1 DEF LineRight
<1>11. ItemsInOrder'
  <2>1. /\ Len(taken') <= Len(given')
        /\ \A k \in DOMAIN taken' : taken'[k] = k
    <3>1. given' = given
      BY <1>3 DEF makerVars
    <3>2. ASSUME NEW k \in 1..n PROVE taken'[k] = k
      <4>1. CASE k \in 1..Len(taken)
        BY <4>1, <1>1, <1>2 DEF ItemsInOrder
      <4>2. CASE k = n
        BY <4>2, <1>1
      <4>3. QED
        BY <4>1, <4>2, <1>1, <3>2 DEF n
    <3>3. QED
      BY <3>1, <3>2, <1>1, <1>2
  <2>2. \A i \in DOMAIN events : events[i] \in DOMAIN taken /\ given[events[i]] = "token"
    BY DEF ItemsInOrder
  <2>3. {k \in DOMAIN taken' : given'[k] = "token"} =
          {k \in DOMAIN taken : given[k] = "token"} \cup
            (IF given[n] = "token" THEN {n} ELSE {})
    <3>1. given' = given /\ DOMAIN taken = 1..Len(taken) /\ DOMAIN taken' = 1..n
      BY <1>2, <1>3 DEF makerVars
    <3>2. 1..n = 1..Len(taken) \cup {n}
      BY <1>1 DEF n
    <3>3. QED
      BY <3>1, <3>2
  <2>4. CASE given[n] = "token"
    <3>1. /\ Len(events') = Len(events) + 1 /\ DOMAIN events' = 1..Len(events) + 1
          /\ \A i \in 1..Len(events) : events'[i] = events[i]
          /\ events'[Len(events) + 1] = n
      <4>1. events' = Append(events, n)
        BY <1>4, <2>4
      <4>2. QED
        BY <4>1, <1>1, <1>2, AppendFacts
    <3>2. ASSUME NEW i \in DOMAIN events', NEW j \in DOMAIN events', i < j
          PROVE  events'[i] < events'[j]
      <4>1. i \in 1..Len(events) /\ events'[i] = events[i] /\ events[i] \in 1..Len(taken)
        BY <3>1, <3>2, <1>2, <2>2
      <4>2. CASE j = Len(events) + 1
        BY <4>1, <4>2, <3>1, <1>1 DEF n
      <4>3. CASE j # Len(events) + 1
        <5>1. j \in 1..Len(events) /\ events'[j] = events[j]
          BY <4>3, <3>1, <3>2, <1>2
        <5>2. QED
          BY <4>1, <5>1, <3>2, <1>2 DEF ItemsInOrder
      <4>4. QED
        BY <4>2, <4>3
    <3>3. {events'[i] : i \in DOMAIN events'} = {events[i] : i \in DOMAIN events} \cup {n}
      <4>1. Len(events) + 1 \in DOMAIN events' /\ DOMAIN events \subseteq DOMAIN events'
        BY <3>1, <1>2
      <4>2. \A i \in DOMAIN events' : i \in DOMAIN events \/ i = Len(events) + 1
        BY <3>1, <1>2
      <4>3. \A i \in DOMAIN events : events'[i] = events[i]
        BY <3>1, <1>2
      <4>4. events'[Len(events) + 1] = n
        BY <3>1
      <4>5. QED
        BY <4>1, <4>2, <4>3, <4>4
    <3>4. {events'[i] : i \in DOMAIN events'} = {k \in DOMAIN taken' : given'[k] = "token"}
      BY <3>3, <2>3, <2>4 DEF ItemsInOrder
    <3>5. result' = "none"
      BY <1>4, <2>4 DEF ReaderRight, TakeItem, Drop
    <3>6. QED
      BY <2>1, <3>2, <3>4, <3>5 DEF ItemsInOrder
  <2>5. CASE given[n] # "token"
    <3>1. events' = events
      BY <1>4, <2>5
    <3>2. {events'[i] : i \in DOMAIN events'} = {k \in DOMAIN taken' : given'[k] = "token"}
      BY <3>1, <2>3, <2>5 DEF ItemsInOrder
    <3>3. \A i, j \in DOMAIN events' : i < j => events'[i] < events'[j]
      BY <3>1 DEF ItemsInOrder
    <3>4. \/ result' = "none"
          \/ result' = "error" /\ given[n] = "error"
      BY <1>4, <2>5 DEF ReaderRight, TakeItem, Drop
    <3>5. taken' # <<>>
      BY <1>1 DEF n
    <3>6. QED
      BY <2>1, <3>2, <3>3, <3>4, <3>5, <1>1, <1>3 DEF ItemsInOrder, makerVars
  <2>6. QED
    BY <2>4, <2>5
<1>12. QED
  BY <1>7, <1>8, <1>9, <1>10, <1>11

(***************************************************************************)
(* The theorems                                                            *)
(***************************************************************************)
LEMMA BridgeStepRight == ASSUME BridgeInv, [BridgeNext]_bridgeVars PROVE BridgeInv'
<1>1. CASE BridgeNext
  <2>1. ASSUME NEW kind \in Kinds, Yield(kind) PROVE BridgeInv'
    BY <2>1, YieldRight
  <2>2. CASE MakerStep
    BY <2>1, <2>2, MakeIteratorRight, FactoryRaisesRight, ExhaustRight, RaiseRight,
       AbandonRight, PushedRight, CloseRight, CloseRaisesRight DEF MakerStep
  <2>3. CASE ReaderStep
    BY <2>3, CheckRight, TakeMarkRight, TakeItemRight, ResumeRight, CloseStreamRight,
       FinalizeRight, HearCancelRight, JoinRight DEF ReaderStep
  <2>4. QED
    BY <1>1, <2>2, <2>3, RunPutRight, CancelTurnRight, CancelTaskRight, SetTokenRight
       DEF BridgeNext
<1>2. CASE UNCHANGED bridgeVars
  BY <1>2 DEF bridgeVars, BridgeInv, BridgeTypeOK, MakerRight, ReaderRight, LineRight,
              Passed, Reading, Fits, ItemsInOrder
<1>3. QED
  BY <1>1, <1>2

\* Every behaviour of the bridge keeps its invariant.
THEOREM BridgeKeepsLine == BridgeSpec => []BridgeInv
<1>1. BridgeInit => BridgeInv
  BY InitRight
<1>2. BridgeInv /\ [BridgeNext]_bridgeVars => BridgeInv'
  BY BridgeStepRight
<1>3. QED
  BY <1>1, <1>2, PTL DEF BridgeSpec

\* The events of a turn are the tokens of its provider's stream, each once and in
\* order; a stream that ended well, or with the failure of the iterator, has handed on
\* everything before its end.
THEOREM StreamHandedOn == BridgeSpec => []ItemsInOrder
<1>1. BridgeInv => ItemsInOrder
  BY DEF BridgeInv
<1>2. QED
  BY <1>1, BridgeKeepsLine, PTL

(***************************************************************************)
(* Nobody waits for ever for the other                                     *)
(***************************************************************************)
\* The guards of the maker's steps, of the loop's and of the reader's.
MakerCanGo ==
  maker \in {"making", "next", "closing"} \/ (maker = "pushing" /\ (put = Nothing \/ token))

LoopCanGo == put # Nothing /\ Len(queue) < QueueSize

ReaderCanGo ==
  \/ reader \in {"check", "yield", "dropped"}
  \/ reader = "get" /\ (stopping \/ queue # <<>>)
  \/ reader = "finally" /\ (stopping \/ MakerEnded)
  \/ reader = "reaping" /\ MakerEnded

\* The reader waits for an item that nobody will put: the maker raised where nobody
\* catches it, or ended without the mark of the end because the token was set.
Stranded ==
  /\ reader = "get" /\ ~stopping /\ queue = <<>> /\ put = Nothing
  /\ maker = "broken" \/ (maker = "over" /\ token)

\* Until both have come to an end, one of them can go on, but for a stranded reader.
SomeoneGoesOn ==
  (MakerEnded /\ reader = "over") \/ MakerCanGo \/ LoopCanGo \/ ReaderCanGo \/ Stranded

\* While the reader goes on and the token is not set, the mark of the end is the last
\* thing that the maker pushes, and it is behind the items; a reader that left without
\* setting the token had it from the queue.
EndRight ==
  /\ Reading /\ ~token /\ (maker = "over" \/ (maker = "pushing" /\ pushed = EndMark)) =>
       \/ ending \in {"end", "abandoned"} /\ Passed = Len(given) + 1
       \/ ending = "failure" /\ Passed = Len(given) + 2
  /\ reader \in {"finally", "over"} /\ ~token =>
       maker = "over" \/ (maker = "pushing" /\ pushed = EndMark /\ put = Nothing)

\* A mark of the end that is in front of the queue is the last thing pushed.
LEMMA EndIsLast ==
  ASSUME BridgeInv, EndRight, TakeMark, Head(queue) = EndMark, ~token
  PROVE  maker = "over" \/ (maker = "pushing" /\ pushed = EndMark /\ put = Nothing)
<1>1. /\ Reading /\ Head(queue) = queue[1] /\ 1 \in DOMAIN queue
      /\ Len(queue) \in Nat \ {0}
  BY DEF TakeMark, Reading, BridgeInv, BridgeTypeOK
<1>2. Len(taken) \in Nat /\ Len(given) \in 0 .. MaxItems /\ Len(taken) <= Len(given)
  BY DEF BridgeInv, BridgeTypeOK, ItemsInOrder
<1>3. Fits(EndMark, 1)
  BY <1>1 DEF BridgeInv, LineRight
<1>4. \/ ending \in {"end", "abandoned"} /\ Len(taken) = Len(given)
      \/ ending = "failure" /\ Len(taken) = Len(given) + 1
  BY <1>2, <1>3, MarkFacts DEF Fits
<1>5. ending \in {"end", "abandoned"} /\ Len(taken) = Len(given)
  BY <1>2, <1>4
<1>6. Len(taken) + Len(queue) > Len(given) /\ Passed >= Len(taken) + Len(queue)
  BY <1>1, <1>2, <1>5 DEF Passed
<1>7. maker \notin {"making", "next", "closing", "broken"}
  BY <1>1, <1>2, <1>5, <1>6 DEF BridgeInv, LineRight, MakerRight
<1>8. CASE maker = "pushing"
  <2>1. pushed \in Marks /\ pushed # FailMark
    BY <1>1, <1>5, <1>8 DEF BridgeInv, LineRight, MakerRight
  <2>2. pushed = EndMark
    BY <2>1, MarkFacts
  <2>3. put # Nothing => Fits(EndMark, Len(queue) + 1)
    BY <1>1, <1>8, <2>2 DEF BridgeInv, LineRight, MakerRight
  <2>4. ~Fits(EndMark, Len(queue) + 1)
    BY <1>1, <1>2, <1>5, MarkFacts DEF Fits
  <2>5. QED
    BY <1>8, <2>2, <2>3, <2>4
<1>9. QED
  BY <1>7, <1>8 DEF BridgeInv, BridgeTypeOK

\* The reader takes the next thing of the line, which goes on to count.
LEMMA TakeKeepsPassed ==
  ASSUME BridgeInv, TakeItem
  PROVE  Passed' = Passed
<1>1. Len(taken') = Len(taken) + 1 /\ Len(taken) \in Nat
  BY NextIsTaken
<1>2. queue \in Seq(1 .. FailMark) /\ queue # <<>> /\ queue' = Tail(queue) /\ put' = put
  BY DEF TakeItem, makerVars, BridgeInv, BridgeTypeOK
<1>3. Len(queue') = Len(queue) - 1 /\ Len(queue) \in Nat
  BY <1>2, TailFacts
<1>4. QED
  BY <1>1, <1>2, <1>3 DEF Passed

LEMMA MakerKeepsEnd ==
  ASSUME BridgeInv, EndRight, MakerStep
  PROVE  EndRight'
<1>1. UNCHANGED <<readerVars, queue, token>>
  BY DEF MakerStep, MakeIterator, FactoryRaises, Yield, Exhaust, Raise, Abandon, Pushed,
         Close, CloseRaises
<1>2. Len(taken) \in Nat /\ Len(queue) \in Nat /\ Len(given) \in Nat
  BY DEF BridgeInv, BridgeTypeOK
<1>3. ASSUME NEW kind \in Kinds, Yield(kind) PROVE EndRight'
  <2>1. maker = "next" /\ (maker' = "closing" \/ (maker' = "pushing" /\ pushed' = Len(given) + 1))
        /\ Len(given) < MaxItems
    BY <1>3 DEF Yield, Push
  <2>2. pushed' # EndMark \/ maker' # "pushing"
    BY <1>2, <2>1, MarkFacts
  <2>3. QED
    BY <1>1, <2>1, <2>2 DEF EndRight, readerVars, EndMark
<1>4. CASE MakeIterator \/ FactoryRaises \/ Exhaust \/ Abandon \/ CloseRaises
  <2>1. maker \notin {"over", "pushing"} /\ maker' \notin {"over", "pushing"}
    BY <1>4 DEF MakeIterator, FactoryRaises, Exhaust, Abandon, CloseRaises
  <2>2. QED
    BY <1>1, <2>1 DEF EndRight, readerVars
<1>5. CASE Raise
  <2>1. maker = "next" /\ pushed' = FailMark /\ EndMark' = EndMark /\ FailMark # EndMark
    BY <1>5, MarkFacts DEF Raise, Push, EndMark
  <2>2. maker' = "pushing"
    BY <1>5 DEF Raise, Push
  <2>3. QED
    BY <1>1, <2>1, <2>2 DEF EndRight, readerVars
<1>6. CASE Pushed
  <2>1. /\ maker = "pushing" /\ put' = Nothing /\ UNCHANGED <<given, ending, pushed>>
        /\ maker' \in {"next", "closing", "over"}
        /\ maker' = "over" <=> pushed = EndMark
        /\ put = Nothing \/ token
    BY <1>6, MarkFacts DEF Pushed
  <2>2. ~token => Passed' = Passed
    BY <1>1, <1>2, <2>1 DEF Passed, readerVars
  <2>3. QED
    BY <1>1, <2>1, <2>2 DEF EndRight, readerVars, Reading, EndMark, Nothing
<1>7. CASE Close
  <2>1. /\ maker = "closing" /\ UNCHANGED <<given, ending>>
        /\ IF token THEN maker' = "over"
           ELSE maker' = "pushing" /\ pushed' = EndMark /\ put' = EndMark /\ EndMark # Nothing
    BY <1>7, MarkFacts DEF Close, Push
  <2>2. put = Nothing
    BY <2>1 DEF BridgeInv, MakerRight
  <2>3. ~token => Passed' = Passed + 1
    BY <1>1, <1>2, <2>1, <2>2 DEF Passed, readerVars, Nothing
  <2>4. Passed \in Nat
    BY <1>2 DEF Passed
  <2>5. ~token /\ Reading => Passed = Len(given) + (IF ending = "failure" THEN 1 ELSE 0)
    BY <2>1 DEF BridgeInv, LineRight
  <2>6. ~token => ending \in {"end", "failure", "abandoned"}
    BY <2>1 DEF BridgeInv, MakerRight, BridgeTypeOK
  <2>7. Reading' = Reading /\ token' = token /\ reader' = reader
    BY <1>1 DEF Reading, readerVars
  <2>8. CASE token
    BY <2>7, <2>8 DEF EndRight
  <2>9. CASE ~token
    <3>1. Reading => \/ ending' \in {"end", "abandoned"} /\ Passed' = Len(given') + 1
                     \/ ending' = "failure" /\ Passed' = Len(given') + 2
      BY <1>2, <2>1, <2>3, <2>4, <2>5, <2>6, <2>9
    <3>2. reader \notin {"finally", "over"}
      BY <2>1, <2>9 DEF EndRight
    <3>3. QED
      BY <2>7, <3>1, <3>2 DEF EndRight
  <2>10. QED
    BY <2>8, <2>9
<1>8. QED
  BY <1>3, <1>4, <1>5, <1>6, <1>7 DEF MakerStep

LEMMA ReaderKeepsEnd ==
  ASSUME BridgeInv, EndRight, ReaderStep
  PROVE  EndRight'
<1>1. UNCHANGED makerVars
  BY DEF ReaderStep, Check, TakeMark, TakeItem, Resume, CloseStream, Finalize, HearCancel, Join
<1>2. CASE Check
  <2>1. /\ UNCHANGED <<queue, taken>>
        /\ \/ reader' = "finally" /\ token'
           \/ reader = "check" /\ reader' = "get" /\ token' = token
    BY <1>2 DEF Check, Leave
  <2>2. Passed' = Passed
    BY <1>1, <2>1 DEF Passed, makerVars, Nothing
  <2>3. QED
    BY <1>1, <2>1, <2>2 DEF EndRight, Reading, EndMark, Nothing, makerVars
<1>3. CASE TakeMark
  <2>1. /\ reader' = "finally" /\ (Head(queue) # EndMark => token')
        /\ token => token'
    BY <1>3 DEF TakeMark, Leave
  <2>2. ~token' => maker = "over" \/ (maker = "pushing" /\ pushed = EndMark /\ put = Nothing)
    BY <1>3, <2>1, EndIsLast
  <2>3. QED
    BY <1>1, <2>1, <2>2 DEF EndRight, Reading, makerVars, EndMark, Nothing
<1>4. CASE TakeItem
  <2>1. Passed' = Passed /\ Reading
    BY <1>4, TakeKeepsPassed, NextIsTaken
  <2>2. \/ reader' \in {"check", "yield"} /\ token' = token
        \/ reader' = "dropped"
    BY <1>4 DEF TakeItem, Drop
  <2>3. QED
    BY <1>1, <2>1, <2>2 DEF EndRight, Reading, makerVars
<1>5. CASE Resume
  BY <1>1, <1>5 DEF Resume, EndRight, Reading, Passed, makerVars
<1>6. CASE CloseStream \/ Finalize
  <2>1. reader' \in {"dropped", "reaping"}
    BY <1>6 DEF CloseStream, Drop, Finalize
  <2>2. QED
    BY <2>1 DEF EndRight, Reading
<1>7. CASE HearCancel
  <2>1. \/ reader' = "finally" /\ token'
        \/ reader = "finally" /\ reader' = "over" /\ token' = token
    BY <1>7 DEF HearCancel, Leave
  <2>2. QED
    BY <1>1, <2>1 DEF EndRight, Reading, makerVars
<1>8. CASE Join
  <2>1. reader' = "over" /\ token' = token /\ (reader = "finally" \/ token)
    BY <1>8 DEF Join, BridgeInv, ReaderRight
  <2>2. QED
    BY <1>1, <2>1 DEF EndRight, Reading, makerVars
<1>9. QED
  BY <1>2, <1>3, <1>4, <1>5, <1>6, <1>7, <1>8 DEF ReaderStep

LEMMA EndStep ==
  ASSUME BridgeInv, EndRight, [BridgeNext]_bridgeVars
  PROVE  EndRight'
<1>1. CASE RunPut
  <2>1. /\ queue' = Append(queue, put) /\ put # Nothing /\ put' = Nothing
        /\ UNCHANGED <<maker, given, ending, pushed, reader, taken, token>>
    BY <1>1 DEF RunPut, readerVars
  <2>2. queue \in Seq(1 .. FailMark) /\ put \in 1 .. FailMark
        /\ Len(queue) \in Nat /\ Len(taken) \in Nat
    BY <2>1, MarkFacts DEF BridgeInv, BridgeTypeOK
  <2>3. Len(queue') = Len(queue) + 1
    BY <2>1, <2>2, AppendFacts
  <2>4. Passed' = Passed
    BY <2>1, <2>2, <2>3 DEF Passed, Nothing
  <2>5. QED
    BY <2>1, <2>4 DEF EndRight, Reading, EndMark, Nothing
<1>2. CASE CancelTurn \/ CancelTask \/ SetToken
  <2>1. UNCHANGED <<makerVars, queue, reader, taken>> /\ (token => token')
    BY <1>2 DEF CancelTurn, CancelTask, SetToken, readerVars
  <2>2. Passed' = Passed
    BY <2>1 DEF Passed, makerVars, Nothing
  <2>3. QED
    BY <2>1, <2>2 DEF EndRight, Reading, makerVars, EndMark, Nothing
<1>3. CASE UNCHANGED bridgeVars
  BY <1>3 DEF bridgeVars, EndRight, Reading, Passed, EndMark, Nothing
<1>4. QED
  BY <1>1, <1>2, <1>3, MakerKeepsEnd, ReaderKeepsEnd DEF BridgeNext

\* The line and its end leave nobody without a step, but for a stranded reader.
LEMMA GoesOn ==
  ASSUME BridgeInv, EndRight
  PROVE  SomeoneGoesOn
<1> SUFFICES ASSUME ~MakerCanGo, ~LoopCanGo, ~ReaderCanGo
             PROVE  (MakerEnded /\ reader = "over") \/ Stranded
  BY DEF SomeoneGoesOn
<1>1. /\ maker \in {"making", "next", "pushing", "closing", "over", "broken"}
      /\ reader \in {"check", "get", "yield", "finally", "dropped", "reaping", "over"}
      /\ Len(queue) \in Nat /\ Len(taken) \in Nat /\ Len(given) \in Nat
      /\ token \in BOOLEAN
  BY DEF BridgeInv, BridgeTypeOK
<1>2. queue = <<>> <=> Len(queue) = 0
  BY DEF BridgeInv, BridgeTypeOK
<1>3. MakerEnded \/ (maker = "pushing" /\ put # Nothing /\ ~token)
  BY <1>1 DEF MakerCanGo, MakerEnded
<1>4. /\ reader \in {"get", "finally", "reaping", "over"}
      /\ reader = "get" => ~stopping /\ queue = <<>>
      /\ reader \in {"finally", "reaping"} => ~MakerEnded
  BY <1>1 DEF ReaderCanGo
<1>5. MakerEnded
  <2> SUFFICES ASSUME maker = "pushing", put # Nothing, ~token PROVE FALSE
    BY <1>3
  <2>1. queue # <<>>
    <3>1. QueueSize \in Nat \ {0} /\ ~(Len(queue) < QueueSize)
      BY <1>1, BridgeConstantsOK DEF LoopCanGo
    <3>2. QED
      BY <1>1, <1>2, <3>1
  <2>2. reader \in {"finally", "over"}
    BY <1>4, <2>1 DEF BridgeInv, ReaderRight
  <2>3. QED
    BY <2>2 DEF EndRight
<1>6. reader \in {"get", "over"}
  BY <1>4, <1>5
<1>7. CASE reader = "get"
  <2>1. /\ ~stopping /\ queue = <<>> /\ Reading
        /\ put = Nothing /\ Len(queue) = 0
    BY <1>2, <1>4, <1>5, <1>7 DEF BridgeInv, MakerRight, Reading, MakerEnded
  <2>2. Passed = Len(taken) /\ Len(taken) <= Len(given)
    BY <1>1, <2>1 DEF Passed, BridgeInv, ItemsInOrder
  <2>3. token \/ maker = "broken"
    <3> SUFFICES ASSUME ~token, maker = "over" PROVE FALSE
      BY <1>5 DEF MakerEnded
    <3>1. Passed > Len(given)
      BY <1>1, <2>1 DEF EndRight
    <3>2. QED
      BY <1>1, <2>2, <3>1
  <2>4. QED
    BY <1>5, <1>7, <2>1, <2>3 DEF Stranded, MakerEnded
<1>8. QED
  BY <1>5, <1>6, <1>7

\* The thread of the maker and the reader never wait for each other at once, the one for
\* room or for its put to run, the other for an item, a mark or the thread's end: the
\* bridge comes to rest only where both have come to an end, or where the reader waits for
\* an item although the maker raised outside its try (its iterator was not made, or raised
\* as it was closed) or ended with the token set by somebody who did not cancel the
\* reader's task.  That reader depends on the deadline of its turn.
THEOREM BridgeNeverStuck == BridgeSpec => []SomeoneGoesOn
<1>1. BridgeInit => EndRight
  BY DEF BridgeInit, EndRight
<1>2. BridgeInv /\ EndRight /\ [BridgeNext]_bridgeVars => EndRight'
  BY EndStep
<1>3. BridgeInv /\ EndRight => SomeoneGoesOn
  BY GoesOn
<1>4. QED
  BY <1>1, <1>2, <1>3, BridgeKeepsLine, PTL DEF BridgeSpec
================================================================================
