----------------------------- MODULE StreamBridge ------------------------------
(***************************************************************************)
(* A provider's blocking stream read by an asyncio turn: the bridge of     *)
(* requests/streaming.py (SyncIteratorBridge.iterate), its bounded queue   *)
(* (requests/queues.py, the blocking policy) and the adapter that turns    *)
(* the stream's items into events (adapters.py,                            *)
(* DirectLLMProviderAdapter.execute_stream).                               *)
(*                                                                         *)
(* The maker is the worker thread (produce and push); the reader is the    *)
(* coroutine on the loop (iterate and execute_stream).  They share the     *)
(* cancellation token; a put runs on the loop.                             *)
(***************************************************************************)
EXTENDS Naturals, Sequences

CONSTANTS
  Kinds,      \* what an item may be: "token", "empty" (a token without text), "done", "error"
  MaxItems,   \* bound: items the provider yields
  QueueSize   \* maxsize of the queue

ASSUME BridgeConstantsOK ==
  /\ Kinds \subseteq {"token", "empty", "done", "error"}
  /\ MaxItems \in Nat /\ QueueSize \in Nat \ {0}

VARIABLES
  maker,     \* "making", "next", "pushing", "closing", "over", or "broken": produce
             \* raised where nobody catches it, and pushed neither a failure nor the end
  given,     \* the items the provider has yielded, by their kinds
  ending,    \* how the provider's iterator stopped: "open", "end", "failure" or
             \* "abandoned", by an exception that produce does not catch
  put,       \* the put scheduled on the loop: a position of given, a mark or Nothing
  pushed,    \* what push was called with
  queue,     \* the bounded queue
  reader,    \* "check", "get", "yield", "finally", "over"; "dropped", the generator is
             \* left at its yield, and "reaping", its finally runs in a task of its own
  taken,     \* the positions of given the reader has taken
  events,    \* the positions whose DELTA has been yielded
  token,     \* the cancellation token is set
  stopping,  \* the reader's task has been cancelled and does not know yet
  result     \* how iterate ended: "none" (not yet), "success", "error", "cancelled"

bridgeVars == <<maker, given, ending, put, pushed, queue, reader, taken, events,
                token, stopping, result>>
makerVars  == <<maker, given, ending, put, pushed>>
readerVars == <<reader, taken, events, stopping, result>>

\* What a put may hold: a position of given, or one of these.
Nothing == 0
EndMark  == MaxItems + 1
FailMark == MaxItems + 2
Marks    == {EndMark, FailMark}

(***************************************************************************)
(* The maker                                                               *)
(***************************************************************************)
\* The provider is asked for its iterator, outside the try of produce.
MakeIterator ==
  /\ maker = "making"
  /\ maker' = "next"
  /\ UNCHANGED <<given, ending, put, pushed, queue, readerVars, token>>

FactoryRaises ==
  /\ maker = "making"
  /\ maker' = "broken"
  /\ UNCHANGED <<given, ending, put, pushed, queue, readerVars, token>>

\* push: the put is scheduled on the loop and the thread waits for it.
Push(item) ==
  /\ maker' = "pushing"
  /\ pushed' = item
  /\ put' = item

\* The iterator yields an item; a token that is set ends the loop instead.
Yield(kind) ==
  /\ maker = "next" /\ Len(given) < MaxItems
  /\ given' = Append(given, kind)
  /\ IF token THEN maker' = "closing" /\ UNCHANGED <<put, pushed>>
     ELSE Push(Len(given) + 1)
  /\ UNCHANGED <<ending, queue, readerVars, token>>

\* The iterator is exhausted, or raises; the exception is pushed.
Exhaust ==
  /\ maker = "next"
  /\ ending' = "end"
  /\ maker' = "closing"
  /\ UNCHANGED <<given, put, pushed, queue, readerVars, token>>

Raise ==
  /\ maker = "next"
  /\ ending' = "failure"
  /\ Push(FailMark)
  /\ UNCHANGED <<given, queue, readerVars, token>>

\* A cancellation raised in the iterator, by the token of the request, is no
\* Exception: nothing is pushed for it, and the finally clause comes next.
Abandon ==
  /\ maker = "next"
  /\ ending' = "abandoned"
  /\ maker' = "closing"
  /\ UNCHANGED <<given, put, pushed, queue, readerVars, token>>

\* Mutant of RunPut: the queue's policy is to drop the oldest item when full.
RunPutDropping ==
  /\ put # Nothing
  /\ queue' = Append(IF Len(queue) = QueueSize THEN Tail(queue) ELSE queue, put)
  /\ put' = Nothing
  /\ UNCHANGED <<maker, given, ending, pushed, readerVars, token>>

\* The loop runs the put, which waits for room.
RunPut ==
  /\ put # Nothing /\ Len(queue) < QueueSize
  /\ queue' = Append(queue, put)
  /\ put' = Nothing
  /\ UNCHANGED <<maker, given, ending, pushed, readerVars, token>>

\* Mutant of Pushed: push waits for its put, whatever the token says.
PushedInTheEnd ==
  /\ maker = "pushing" /\ put = Nothing
  /\ maker' = CASE pushed = EndMark  -> "over"
                [] pushed = FailMark -> "closing"
                [] OTHER             -> "next"
  /\ UNCHANGED <<put, given, ending, pushed, queue, readerVars, token>>

\* push returned.  It looks at the token before it looks at the put, and with the
\* token set it may give the put up: the loop of produce is left.
Pushed ==
  /\ maker = "pushing"
  /\ \/ /\ put = Nothing
        /\ maker' = CASE pushed = EndMark  -> "over"
                      [] pushed = FailMark -> "closing"
                      [] OTHER             -> "next"
     \/ /\ token
        /\ maker' = IF pushed = EndMark THEN "over" ELSE "closing"
  /\ put' = Nothing
  /\ UNCHANGED <<given, ending, pushed, queue, readerVars, token>>

\* The finally clause of produce: the iterator is closed, which may raise, and the
\* end is pushed, unless the token is set.
Close ==
  /\ maker = "closing"
  /\ IF token THEN maker' = "over" /\ UNCHANGED <<put, pushed>> ELSE Push(EndMark)
  /\ UNCHANGED <<given, ending, queue, readerVars, token>>

CloseRaises ==
  /\ maker = "closing"
  /\ maker' = "broken"
  /\ UNCHANGED <<given, ending, put, pushed, queue, readerVars, token>>

(***************************************************************************)
(* The reader                                                              *)
(***************************************************************************)
\* The finally clause of iterate: an early end sets the token.  The reader then
\* waits for the maker.
Leave(how) ==
  /\ reader' = "finally"
  /\ result' = how
  /\ token' = (token \/ how # "success")

\* Whoever iterates leaves the generator at its yield, which does not close it.
Drop(how) ==
  /\ reader' = "dropped"
  /\ result' = how
  /\ UNCHANGED token

\* The hook of the loop closes a generator that nobody holds, in a task of its own.
Finalize ==
  /\ reader = "dropped"
  /\ reader' = "reaping"
  /\ token' = TRUE
  /\ UNCHANGED <<makerVars, queue, taken, events, stopping, result>>

Check ==
  /\ reader = "check"
  /\ IF token THEN Leave("cancelled") ELSE reader' = "get" /\ UNCHANGED <<token, result>>
  /\ UNCHANGED <<makerVars, queue, taken, events, stopping>>

\* The end mark is the success of the stream, whatever its last item was; the
\* mark of a failure is raised.
TakeMark ==
  /\ reader = "get" /\ ~stopping
  /\ queue # <<>> /\ Head(queue) \in Marks
  /\ queue' = Tail(queue)
  /\ Leave(IF Head(queue) = EndMark THEN "success" ELSE "error")
  /\ UNCHANGED <<makerVars, taken, events, stopping>>

\* A token with text is yielded as a DELTA, an error item is raised.
TakeItem ==
  /\ reader = "get" /\ ~stopping
  /\ queue # <<>> /\ Head(queue) \notin Marks
  /\ LET item == Head(queue)
     IN  /\ taken' = Append(taken, item)
         /\ CASE given[item] = "token" ->
                   /\ events' = Append(events, item)
                   /\ reader' = "yield"
                   /\ UNCHANGED <<token, result>>
              [] given[item] = "error" -> Drop("error") /\ UNCHANGED events
              [] OTHER -> reader' = "check" /\ UNCHANGED <<events, token, result>>
  /\ queue' = Tail(queue)
  /\ UNCHANGED <<makerVars, stopping>>

\* The turn asks for the next event, or closes the stream.
Resume ==
  /\ reader = "yield" /\ ~stopping
  /\ reader' = "check"
  /\ UNCHANGED <<makerVars, queue, taken, events, token, stopping, result>>

CloseStream ==
  /\ reader = "yield"
  /\ Drop("cancelled")
  /\ stopping' = FALSE
  /\ UNCHANGED <<makerVars, queue, taken, events>>

\* The task of the turn is still that of the reader.
OwnTask == reader \in {"check", "get", "yield", "finally"}

\* cancel_turn sets the token and cancels the task; the deadline of the turn, or
\* its caller, cancels the task alone; the end of another stream of the turn sets
\* the token alone.
CancelTurn ==
  /\ OwnTask /\ ~stopping
  /\ token' = TRUE
  /\ stopping' = TRUE
  /\ UNCHANGED <<makerVars, queue, reader, taken, events, result>>

CancelTask ==
  /\ OwnTask /\ ~stopping
  /\ stopping' = TRUE
  /\ UNCHANGED <<makerVars, queue, reader, taken, events, result, token>>

SetToken ==
  /\ reader # "over" /\ ~token
  /\ token' = TRUE
  /\ UNCHANGED <<makerVars, queue, readerVars>>

\* The task hears of it where it waits: for an item, or for the maker, whose
\* thread goes on alone.
HearCancel ==
  /\ stopping
  /\ \/ reader = "get" /\ Leave("cancelled")
     \/ reader = "finally" /\ reader' = "over" /\ result' = "cancelled" /\ UNCHANGED token
  /\ stopping' = FALSE
  /\ UNCHANGED <<makerVars, queue, taken, events>>

\* The thread has ended, what it raised included.
MakerEnded == maker \in {"over", "broken"}

Join ==
  /\ reader \in {"finally", "reaping"} /\ MakerEnded
  /\ reader' = "over"
  /\ UNCHANGED <<makerVars, queue, taken, events, token, stopping, result>>

(***************************************************************************)
(* The specification                                                       *)
(***************************************************************************)
BridgeInit ==
  /\ maker = "making" /\ given = <<>> /\ ending = "open"
  /\ put = Nothing /\ pushed = Nothing /\ queue = <<>>
  /\ reader = "check" /\ taken = <<>> /\ events = <<>>
  /\ token = FALSE /\ stopping = FALSE /\ result = "none"

MakerStep ==
  \/ \E kind \in Kinds : Yield(kind)
  \/ MakeIterator \/ FactoryRaises \/ Exhaust \/ Raise \/ Abandon \/ Pushed
  \/ Close \/ CloseRaises

ReaderStep ==
  \/ Check \/ TakeMark \/ TakeItem \/ Resume \/ CloseStream \/ Finalize
  \/ HearCancel \/ Join

BridgeNext == MakerStep \/ RunPut \/ ReaderStep \/ CancelTurn \/ CancelTask \/ SetToken

\* A wait for an item does not outlast the turn.
Deadline == reader = "get" /\ CancelTask

\* The provider's iterator answers every next in its own time limit, the loop runs
\* what is ready, the turn reads on or closes the stream, and the deadline of the
\* turn cancels a wait that has no end.
BridgeFairness ==
  /\ WF_bridgeVars(MakerStep) /\ WF_bridgeVars(RunPut) /\ WF_bridgeVars(ReaderStep)
  /\ WF_bridgeVars(Deadline)

BridgeSpec == BridgeInit /\ [][BridgeNext]_bridgeVars /\ BridgeFairness

(***************************************************************************)
(* Properties                                                              *)
(***************************************************************************)
\* The reader has taken the first items the provider yielded, each once and in
\* order, and its events are the tokens among them, whoever set the token and
\* whatever put was given up.  A stream that is a success has handed on every item
\* of an iterator that was exhausted, or that a cancellation of its request broke
\* off; one that raised the failure of the iterator all that came before.  (push
\* and iterate across a full queue, a cancelled put and the end mark.)
ItemsInOrder ==
  /\ Len(taken) <= Len(given)
  /\ \A k \in DOMAIN taken : taken[k] = k
  /\ \A i, j \in DOMAIN events : i < j => events[i] < events[j]
  /\ {events[i] : i \in DOMAIN events} = {k \in DOMAIN taken : given[k] = "token"}
  /\ result = "success" => ending \in {"end", "abandoned"} /\ Len(taken) = Len(given)
  /\ result = "error" =>
       \/ taken # <<>> /\ given[Len(taken)] = "error"
       \/ ending = "failure" /\ Len(taken) = Len(given)

\* The reader and the thread of the maker both come to an end: the thread does not
\* wait for ever for room in the queue, nor the reader for the thread.  That it does
\* not wait for ever for an item it owes to the deadline of its turn where the maker
\* raised outside its try or somebody else set the token.
BridgeEnds == <>(reader = "over" /\ MakerEnded)
================================================================================
