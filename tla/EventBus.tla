------------------------------ MODULE EventBus ------------------------------
(***************************************************************************)
(* The asynchronous event bus, internal/events/bus.go: a buffered channel, *)
(* workers that hand each event to the subscribers of its type, and        *)
(* subscribers that come and go.  An event is numbered by its place among  *)
(* the accepted ones.  The order of the subscribers of an event is         *)
(* abstracted.                                                             *)
(***************************************************************************)
EXTENDS Naturals, Sequences, FiniteSets

CONSTANTS
  Worker,    \* the goroutines of start
  Capacity,  \* of eventChan
  Type,      \* event types
  Handler,   \* subscribers
  Client,    \* the WebSocket clients among them, which come and go
  Listens    \* the types each handler subscribes to

ASSUME BusAssumption ==
  /\ Capacity \in Nat \ {0}
  /\ Client \subseteq Handler
  /\ Listens \in [Handler -> SUBSET Type]

VARIABLES
  accepted,     \* history: every event that entered eventChan
  taken,        \* how many of them the workers have received
  worker,       \* the event each worker dispatches (0: none) and whom it has
                \* still to call; copied is false until it has copied them
  subscribers,  \* pairs of a type and a handler
  seen          \* history: the events each handler was called with

busVars == <<accepted, taken, worker, subscribers, seen>>

Idle == [event |-> 0, copied |-> FALSE, todo |-> {}]
Received(n) == [event |-> n, copied |-> FALSE, todo |-> {}]
Dispatching(n, todo) == IF todo = {} THEN Idle ELSE [event |-> n, copied |-> TRUE, todo |-> todo]

(* The handlers of the program subscribe before anything is published. *)
BusInit ==
  /\ accepted = <<>>
  /\ taken = 0
  /\ worker = [k \in Worker |-> Idle]
  /\ subscribers = {s \in Type \X Handler : s[2] \notin Client /\ s[1] \in Listens[s[2]]}
  /\ seen = [h \in Handler |-> <<>>]

HasRoom == Len(accepted) - taken < Capacity

(* Never blocks: with the buffer full the event is gone. *)
Publish(e) == accepted' = IF HasRoom THEN Append(accepted, e) ELSE accepted

(* Mutant of Receive: the event stays in the channel. *)
ReceiveAgain(k) ==
  /\ worker[k] = Idle
  /\ taken < Len(accepted)
  /\ worker' = [worker EXCEPT ![k] = Received(taken + 1)]
  /\ UNCHANGED <<accepted, taken, subscribers, seen>>

Receive(k) ==
  /\ worker[k] = Idle
  /\ taken < Len(accepted)
  /\ taken' = taken + 1
  /\ worker' = [worker EXCEPT ![k] = Received(taken + 1)]
  /\ UNCHANGED <<accepted, subscribers, seen>>

CopySubscribers(k) ==
  LET n == worker[k].event
      subs == {h \in Handler : <<accepted[n].type, h>> \in subscribers}
  IN  /\ n # 0
      /\ ~worker[k].copied
      /\ worker' = [worker EXCEPT ![k] = Dispatching(n, subs)]
      /\ UNCHANGED <<accepted, taken, subscribers, seen>>

(* Mutant of CallHandler: dispatch returns after its first subscriber. *)
CallOneHandler(k, h) ==
  /\ h \in worker[k].todo
  /\ seen' = [seen EXCEPT ![h] = Append(@, worker[k].event)]
  /\ worker' = [worker EXCEPT ![k] = Idle]
  /\ UNCHANGED <<accepted, taken, subscribers>>

(* The worker calls the handler, whether or not it has unsubscribed since. *)
(* The handler of a client drops the event when its own channel is full.   *)
CallHandler(k, h) ==
  /\ h \in worker[k].todo
  /\ \/ seen' = [seen EXCEPT ![h] = Append(@, worker[k].event)]
     \/ h \in Client /\ UNCHANGED seen
  /\ worker' = [worker EXCEPT ![k] = Dispatching(@.event, @.todo \ {h})]
  /\ UNCHANGED <<accepted, taken, subscribers>>

(* A client that connects subscribes to its types one by one, and when the *)
(* connection drops it unsubscribes in the same way.                       *)
Subscribe(h, y) ==
  /\ h \in Client /\ y \in Listens[h]
  /\ subscribers' = subscribers \cup {<<y, h>>}
  /\ UNCHANGED <<accepted, taken, worker, seen>>

Unsubscribe(h, y) ==
  /\ h \in Client
  /\ <<y, h>> \in subscribers
  /\ subscribers' = subscribers \ {<<y, h>>}
  /\ UNCHANGED <<accepted, taken, worker, seen>>
=============================================================================
