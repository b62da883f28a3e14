-------------------------- MODULE AgentTaskProofs --------------------------
(***************************************************************************)
(* Theorems of AgentTask, for any tasks, agents, policies and subscribers. *)
(* With one worker, whatever the capacity, the event bus implements        *)
(* EventFeed.  With any number of them: no token that a provider counted   *)
(* is lost track of, the cost-aware router lists the executors from the    *)
(* cheapest to the dearest, and the delay before a retry is the one its    *)
(* policy describes.                                                       *)
(***************************************************************************)
EXTENDS AgentTask, InductionLemmas

(* The steps of AgentTask as the bus sees them. *)
BusPublish(e) == Publish(e) /\ UNCHANGED <<taken, worker, subscribers, seen>>

BusNext ==
  \/ \E e \in Event : BusPublish(e)
  \/ \E k \in Worker :
       \/ Receive(k)
       \/ CopySubscribers(k)
       \/ \E h \in Handler : CallHandler(k, h)
  \/ \E h \in Client, y \in Type : Subscribe(h, y) \/ Unsubscribe(h, y)
  \/ UNCHANGED busVars

Job == [event : Nat, copied : BOOLEAN, todo : SUBSET Handler]

BusTypeOK ==
  /\ accepted \in Seq(Event)
  /\ taken \in Nat
  /\ taken <= Len(accepted)
  /\ worker \in [Worker -> Job]
  /\ subscribers \subseteq {s \in Type \X Handler : s[1] \in Listens[s[2]]}
  /\ seen \in [Handler -> Seq(Nat)]

(* The only worker is at the last event taken out of the channel, and the  *)
(* handlers it has still to call have seen none later.                     *)
AtWork(k) ==
  LET n == worker[k].event
  IN  /\ n # 0 => n = taken
      /\ ~worker[k].copied => worker[k].todo = {}
      /\ n = 0 => ~worker[k].copied
      /\ n # 0 /\ ~worker[k].copied => \A h \in Handler : Feed!Latest(h) < n
      /\ \A h \in worker[k].todo : Feed!Latest(h) < n /\ accepted[n].type \in Listens[h]

NoneFromTheFuture == \A h \in Handler : Feed!Latest(h) <= taken

BusInv(k) == BusTypeOK /\ AtWork(k) /\ NoneFromTheFuture
----------------------------------------------------------------------------
(* Every event the program publishes is one of Event. *)
LEMMA EventsTyped ==
  ASSUME NEW t \in Task, NEW y \in {"TASK_STARTED", "TASK_RETRIED", "TASK_COMPLETED", "TASK_FAILED"}
  PROVE  [type |-> y, task |-> t, tokens |-> 0] \in Event
  BY AgentAssumption DEF Event

LEMMA UsageTyped ==
  ASSUME NEW t \in Task, NEW a \in Agent
  PROVE  [type |-> "TASK_TOKEN_USAGE", task |-> t, tokens |-> Tokens[a]] \in Event
  BY AgentAssumption DEF Event

(* What a task does is, to the bus, to publish an event or nothing. *)
LEMMA StepOfBus ==
  ASSUME [Next]_vars
  PROVE  BusNext
<1>1. CASE UNCHANGED vars
  BY <1>1 DEF vars, busVars, BusNext
<1>2. ASSUME NEW t \in Task, TaskStep(t) PROVE BusNext
  <2> USE DEF BusFrame
  <2>1. SUFFICES \/ UNCHANGED busVars
                 \/ \E e \in Event : BusPublish(e)
    BY DEF BusNext
  <2>2. ASSUME NEW y \in {"TASK_STARTED", "TASK_RETRIED", "TASK_COMPLETED", "TASK_FAILED"},
               Tells(t, y), BusFrame
        PROVE  \E e \in Event : BusPublish(e)
    BY <2>2, EventsTyped DEF Tells, BusPublish
  <2>3. CASE StartTask(t)
    BY <2>2, <2>3 DEF StartTask, busVars
  <2>4. CASE BeginAttempt(t) \/ FallBack(t)
    BY <2>4 DEF BeginAttempt, FallBack, busVars
  <2>5. CASE Generate(t)
    BY <2>5, UsageTyped DEF Generate, BusPublish
  <2>6. CASE AttemptFails(t)
    BY <2>2, <2>6 DEF AttemptFails
  <2>7. CASE RetryCancelled(t)
    BY <2>2, <2>7 DEF RetryCancelled
  <2>8. CASE CompleteTask(t)
    BY <2>2, <2>8 DEF CompleteTask
  <2> QED BY <1>2, <2>3, <2>4, <2>5, <2>6, <2>7, <2>8 DEF TaskStep
<1>3. ASSUME NEW k \in Worker, WorkerStep(k) PROVE BusNext
  BY <1>3 DEF WorkerStep, BusNext
<1>4. ASSUME NEW h \in Client, ClientStep(h) PROVE BusNext
  BY <1>4 DEF ClientStep, BusNext
<1> QED BY <1>1, <1>2, <1>3, <1>4 DEF Next
----------------------------------------------------------------------------
LEMMA BusInitially == ASSUME NEW k, Worker = {k}, Init PROVE BusInv(k)
<1> USE DEF Init, BusInit, Idle
<1>1. BusTypeOK
  BY BusAssumption DEF BusTypeOK, Job
<1>2. \A h \in Handler : Feed!Latest(h) = 0
  BY DEF Feed!Latest
<1> QED BY <1>1, <1>2 DEF BusInv, AtWork, NoneFromTheFuture

(* A call of a handler is the only step that changes what it has seen. *)
LEMMA LatestKept ==
  ASSUME seen' = seen
  PROVE  \A h \in Handler : Feed!Latest(h)' = Feed!Latest(h)
  BY DEF Feed!Latest

LEMMA LatestCalled ==
  ASSUME BusTypeOK, NEW h \in Handler, NEW n \in Nat,
         seen' = [seen EXCEPT ![h] = Append(@, n)]
  PROVE  /\ Feed!Latest(h)' = n
         /\ \A g \in Handler \ {h} : Feed!Latest(g)' = Feed!Latest(g)
         /\ seen' \in [Handler -> Seq(Nat)]
<1>1. seen[h] \in Seq(Nat) /\ seen \in [Handler -> Seq(Nat)]
  BY DEF BusTypeOK
<1>2. seen'[h] = Append(seen[h], n) /\ \A g \in Handler \ {h} : seen'[g] = seen[g]
  BY <1>1
<1>3. seen'[h] # <<>> /\ seen'[h][Len(seen'[h])] = n
  BY <1>1, <1>2
<1> QED BY <1>1, <1>2, <1>3 DEF Feed!Latest

LEMMA LatestTyped ==
  ASSUME BusTypeOK PROVE \A h \in Handler : Feed!Latest(h) \in Nat
<1> SUFFICES ASSUME NEW h \in Handler PROVE Feed!Latest(h) \in Nat
  OBVIOUS
<1>1. seen[h] \in Seq(Nat)
  BY DEF BusTypeOK
<1>2. seen[h] # <<>> => Len(seen[h]) \in DOMAIN seen[h]
  BY <1>1
<1> QED BY <1>1, <1>2 DEF Feed!Latest
----------------------------------------------------------------------------
LEMMA PublishKeeps ==
  ASSUME NEW k, Worker = {k}, BusInv(k), NEW e \in Event, BusPublish(e)
  PROVE  BusInv(k)'
<1> USE DEF BusInv
<1>1. accepted \in Seq(Event) /\ taken \in Nat /\ taken <= Len(accepted)
  BY DEF BusTypeOK
<1>2. /\ accepted' \in Seq(Event)
      /\ Len(accepted') >= Len(accepted)
      /\ \A n \in 1..Len(accepted) : accepted'[n] = accepted[n]
  BY <1>1 DEF BusPublish, Publish
<1>3. BusTypeOK'
  BY <1>1, <1>2 DEF BusTypeOK, BusPublish
<1>4. UNCHANGED <<taken, worker, subscribers, seen>>
  BY DEF BusPublish
<1>5. \A h \in Handler : Feed!Latest(h)' = Feed!Latest(h)
  BY <1>4, LatestKept
<1>6. NoneFromTheFuture'
  BY <1>4, <1>5 DEF NoneFromTheFuture
<1>7. worker[k] \in Job
  BY DEF BusTypeOK
<1>8. worker[k].event # 0 => worker[k].event \in 1..Len(accepted)
  BY <1>1, <1>7 DEF AtWork, Job
<1>9. worker[k].todo # {} => worker[k].event # 0
  BY DEF AtWork
<1>10. worker[k].todo \subseteq Handler
  BY <1>7 DEF Job
<1>11. AtWork(k)'
  BY <1>2, <1>4, <1>5, <1>8, <1>9, <1>10 DEF AtWork
<1> QED BY <1>3, <1>6, <1>11

LEMMA ReceiveKeeps ==
  ASSUME NEW k, Worker = {k}, BusInv(k), Receive(k)
  PROVE  BusInv(k)'
<1> USE DEF BusInv
<1>1. accepted \in Seq(Event) /\ taken \in Nat /\ worker \in [Worker -> Job] /\ worker[k] = Idle
  BY DEF BusTypeOK, Receive
<1>2. /\ worker'[k] = [event |-> taken + 1, copied |-> FALSE, todo |-> {}]
      /\ worker' \in [Worker -> Job]
  BY <1>1 DEF Receive, Received, Job
<1>3. UNCHANGED <<accepted, subscribers, seen>> /\ taken' = taken + 1 /\ taken < Len(accepted)
  BY DEF Receive
<1>4. BusTypeOK'
  BY <1>1, <1>2, <1>3 DEF BusTypeOK
<1>5. \A h \in Handler : Feed!Latest(h)' = Feed!Latest(h) /\ Feed!Latest(h) \in Nat /\ Feed!Latest(h) <= taken
  BY <1>3, LatestKept, LatestTyped DEF NoneFromTheFuture
<1>6. NoneFromTheFuture' /\ AtWork(k)'
  BY <1>1, <1>2, <1>3, <1>5 DEF NoneFromTheFuture, AtWork
<1> QED BY <1>4, <1>6

LEMMA CopyKeeps ==
  ASSUME NEW k, Worker = {k}, BusInv(k), CopySubscribers(k)
  PROVE  BusInv(k)'
<1> USE DEF BusInv
<1> DEFINE n == worker[k].event
           subs == {h \in Handler : <<accepted[n].type, h>> \in subscribers}
<1>1. taken \in Nat /\ worker \in [Worker -> Job] /\ worker[k] \in Job
  BY DEF BusTypeOK
<1>2. n # 0 /\ ~worker[k].copied /\ n = taken
  BY DEF CopySubscribers, AtWork
<1>3. UNCHANGED <<accepted, taken, subscribers, seen>>
  BY DEF CopySubscribers
<1>4. worker' = [worker EXCEPT ![k] = Dispatching(n, subs)]
  BY DEF CopySubscribers
<1>5. worker'[k] = IF subs = {} THEN Idle ELSE [event |-> n, copied |-> TRUE, todo |-> subs]
  BY <1>1, <1>4 DEF Dispatching
<1>6. worker' \in [Worker -> Job]
  <2>1. worker'[k] \in Job
    BY <1>1, <1>5 DEF Job, Idle
  <2> QED BY <1>1, <1>4, <2>1
<1>7. BusTypeOK'
  BY <1>3, <1>6 DEF BusTypeOK
<1>8. \A h \in Handler : Feed!Latest(h)' = Feed!Latest(h) /\ Feed!Latest(h) < n
  BY <1>2, <1>3, LatestKept DEF AtWork
<1>9. \A h \in subs : accepted[n].type \in Listens[h]
  BY DEF BusTypeOK
<1>10. NoneFromTheFuture'
  BY <1>3, <1>8, LatestKept DEF NoneFromTheFuture
<1>11. CASE subs = {}
  <2>1. worker'[k] = [event |-> 0, copied |-> FALSE, todo |-> {}]
    BY <1>5, <1>11 DEF Idle
  <2> QED BY <2>1, <1>7, <1>10 DEF AtWork
<1>12. CASE subs # {}
  <2>1. worker'[k] = [event |-> n, copied |-> TRUE, todo |-> subs]
    BY <1>5, <1>12
  <2>2. worker'[k].event = n /\ worker'[k].copied = TRUE /\ worker'[k].todo = subs /\ subs \subseteq Handler
    BY <2>1
  <2> HIDE DEF n, subs
  <2>3. AtWork(k)'
    BY <2>2, <1>2, <1>3, <1>8, <1>9 DEF AtWork
  <2> QED BY <2>3, <1>7, <1>10
<1> QED BY <1>11, <1>12

LEMMA CallKeeps ==
  ASSUME NEW k, Worker = {k}, BusInv(k), NEW h \in Handler, CallHandler(k, h)
  PROVE  BusInv(k)'
<1> USE DEF BusInv
<1> DEFINE n == worker[k].event
           rest == worker[k].todo \ {h}
<1>1. taken \in Nat /\ worker \in [Worker -> Job] /\ worker[k] \in Job /\ n \in Nat
  BY DEF BusTypeOK, Job
<1>2. h \in worker[k].todo /\ worker[k].copied /\ n # 0 /\ n = taken
  BY <1>1 DEF CallHandler, AtWork, Job
<1>3. UNCHANGED <<accepted, taken, subscribers>>
  BY DEF CallHandler
<1>4. worker'[k] = IF rest = {} THEN Idle ELSE [event |-> n, copied |-> TRUE, todo |-> rest]
  BY <1>1 DEF CallHandler, Dispatching
<1>5. worker' \in [Worker -> Job]
  <2>1. worker'[k] \in Job
    BY <1>1, <1>4 DEF Job, Idle
  <2> QED BY <1>1, <2>1 DEF CallHandler
<1>6. /\ seen' \in [Handler -> Seq(Nat)]
      /\ \A g \in Handler \ {h} : Feed!Latest(g)' = Feed!Latest(g)
      /\ Feed!Latest(h)' \in {n, Feed!Latest(h)}
  <2>1. CASE seen' = [seen EXCEPT ![h] = Append(@, n)]
    BY <1>1, <2>1, LatestCalled
  <2>2. CASE UNCHANGED seen
    BY <2>2, LatestKept DEF BusTypeOK
  <2> QED BY <2>1, <2>2 DEF CallHandler
<1>7. BusTypeOK'
  BY <1>3, <1>5, <1>6 DEF BusTypeOK
<1>8. NoneFromTheFuture'
  <2>1. taken' = taken /\ taken \in Nat /\ n <= taken
    BY <1>1, <1>2, <1>3
  <2>2. \A g \in Handler : Feed!Latest(g) <= taken
    BY DEF NoneFromTheFuture
  <2> HIDE DEF n, BusInv
  <2>3. ASSUME NEW g \in Handler PROVE Feed!Latest(g)' <= taken
    <3>1. Feed!Latest(g)' \in {n, Feed!Latest(g)}
      BY <1>6
    <3> QED BY <2>1, <2>2, <3>1
  <2> QED BY <2>1, <2>3 DEF NoneFromTheFuture
<1>9. CASE rest = {}
  <2>1. worker'[k] = [event |-> 0, copied |-> FALSE, todo |-> {}]
    BY <1>4, <1>9 DEF Idle
  <2> QED BY <2>1, <1>7, <1>8 DEF AtWork
<1>10. CASE rest # {}
  <2>1. worker'[k].event = n /\ worker'[k].copied = TRUE /\ worker'[k].todo = rest
    BY <1>4, <1>10
  <2>2. \A g \in rest : g \in worker[k].todo /\ g \in Handler \ {h}
    BY <1>1 DEF Job
  <2>3. \A g \in rest : Feed!Latest(g) < n /\ accepted[n].type \in Listens[g]
    BY <2>2 DEF AtWork
  <2> HIDE DEF n, rest
  <2>4. AtWork(k)'
    BY <2>1, <2>2, <2>3, <1>2, <1>3, <1>6 DEF AtWork
  <2> QED BY <2>4, <1>7, <1>8
<1> QED BY <1>9, <1>10

LEMMA ClientKeeps ==
  ASSUME NEW k, Worker = {k}, BusInv(k), NEW h \in Client, NEW y \in Type,
         Subscribe(h, y) \/ Unsubscribe(h, y)
  PROVE  BusInv(k)'
<1> USE DEF BusInv
<1>1. UNCHANGED <<accepted, taken, worker, seen>>
  BY DEF Subscribe, Unsubscribe
<1>2. subscribers' \subseteq {s \in Type \X Handler : s[1] \in Listens[s[2]]}
  BY BusAssumption DEF Subscribe, Unsubscribe, BusTypeOK
<1>3. BusTypeOK'
  BY <1>1, <1>2 DEF BusTypeOK
<1>4. worker[k].todo \subseteq Handler
  BY DEF BusTypeOK, Job
<1> QED BY <1>1, <1>3, <1>4, LatestKept DEF AtWork, NoneFromTheFuture

LEMMA BusStep ==
  ASSUME NEW k, Worker = {k}, BusInv(k), BusNext
  PROVE  BusInv(k)'
<1>1. CASE UNCHANGED busVars
  <2>1. UNCHANGED <<accepted, taken, worker, subscribers, seen>>
    BY <1>1 DEF busVars
  <2>2. worker[k].todo \subseteq Handler
    BY DEF BusInv, BusTypeOK, Job
  <2> QED BY <2>1, <2>2, LatestKept DEF BusInv, BusTypeOK, AtWork, NoneFromTheFuture
<1> QED BY <1>1, PublishKeeps, ReceiveKeeps, CopyKeeps, CallKeeps, ClientKeeps DEF BusNext
----------------------------------------------------------------------------
LEMMA FeedInitially == ASSUME Init PROVE Feed!Init
  BY DEF Init, BusInit, Feed!Init

(* Each step of the bus is a step of the feed, or is hidden from it: an    *)
(* event that finds room is accepted, and a call shows the handler an      *)
(* event later than all it has seen.                                       *)
LEMMA FeedStep ==
  ASSUME NEW k, Worker = {k}, BusInv(k), BusNext
  PROVE  [Feed!Next]_Feed!feedVars
<1> USE DEF Feed!feedVars
<1>1. ASSUME NEW e \in Event, BusPublish(e) PROVE Feed!Next \/ UNCHANGED <<accepted, seen>>
  BY <1>1 DEF BusPublish, Publish, Feed!Next, Feed!Accept
<1>2. CASE Receive(k) \/ CopySubscribers(k)
  BY <1>2 DEF Receive, CopySubscribers
<1>3. ASSUME NEW h \in Handler, CallHandler(k, h), ~UNCHANGED <<accepted, seen>>
      PROVE  Feed!Show(h)
  <2> DEFINE n == worker[k].event
  <2>1. /\ h \in worker[k].todo
        /\ accepted' = accepted
        /\ seen' = [seen EXCEPT ![h] = Append(@, n)]
    BY <1>3 DEF CallHandler
  <2>2. Feed!Latest(h) < n /\ accepted[n].type \in Listens[h]
    BY <2>1 DEF BusInv, AtWork
  <2>3. n \in Nat /\ Feed!Latest(h) \in Nat /\ taken <= Len(accepted) /\ taken \in Nat
        /\ Len(accepted) \in Nat
    BY LatestTyped DEF BusInv, BusTypeOK, Job
  <2>4. n # 0 /\ n = taken
    BY <2>2, <2>3 DEF BusInv, AtWork
  <2>5. n \in (Feed!Latest(h) + 1)..Len(accepted)
    BY <2>2, <2>3, <2>4
  <2> QED BY <2>1, <2>2, <2>5 DEF Feed!Show
<1>4. ASSUME NEW h \in Client, NEW y \in Type, Subscribe(h, y) \/ Unsubscribe(h, y)
      PROVE  UNCHANGED <<accepted, seen>>
  BY <1>4 DEF Subscribe, Unsubscribe
<1>5. CASE UNCHANGED busVars
  BY <1>5 DEF busVars
<1> QED BY <1>1, <1>2, <1>3, <1>4, <1>5 DEF BusNext, Feed!Next

(* The bus of the server, which has one worker, shows every subscriber     *)
(* accepted events of its types only, none twice and none out of order,    *)
(* whatever is dropped and whoever comes and goes (bus.go:34-88).          *)
THEOREM FeedImplemented ==
  ASSUME NEW CONSTANT k, Worker = {k}
  PROVE  Spec => ImplementsFeed
<1>1. Init => BusInv(k) /\ Feed!Init
  BY BusInitially, FeedInitially
<1>2. BusInv(k) /\ [Next]_vars => BusInv(k)' /\ [Feed!Next]_Feed!feedVars
  BY StepOfBus, BusStep, FeedStep
<1> QED BY <1>1, <1>2, PTL DEF Spec, ImplementsFeed, Feed!Spec
----------------------------------------------------------------------------
(* Tokens.  The workers are at different events, all taken out of the      *)
(* channel, and the handler of the server has not seen the event of a      *)
(* worker that has still to call it.                                       *)

Counted == ToSet(seen["tokens"])

Once ==
  /\ \A n \in Counted : n <= taken
  /\ \A j, k \in Worker : j # k /\ worker[j].event # 0 => worker[j].event # worker[k].event
  /\ \A k \in Worker :
       /\ worker[k].event <= taken
       /\ worker[k].todo # {} => worker[k].event # 0 /\ worker[k].copied
       /\ worker[k].event # 0 /\ (~ worker[k].copied \/ "tokens" \in worker[k].todo) =>
            worker[k].event \notin Counted

Usage == [n \in DOMAIN accepted |-> accepted[n].tokens]

Totals ==
  /\ spent \in Nat /\ lost \in Nat /\ tokenStats \in Nat
  /\ TokensAccounted

TokenInv == BusTypeOK /\ Once /\ Totals

LEMMA CountedTyped ==
  ASSUME BusTypeOK
  PROVE  Counted \subseteq Nat /\ seen["tokens"] \in Seq(Nat)
<1>1. seen["tokens"] \in Seq(Nat)
  BY AgentAssumption DEF BusTypeOK
<1> QED BY <1>1 DEF Counted, ToSet

LEMMA UsageFacts ==
  ASSUME BusTypeOK
  PROVE  /\ DOMAIN accepted = 1..Len(accepted) /\ Len(accepted) \in Nat
         /\ DOMAIN Usage = DOMAIN accepted
         /\ \A n \in DOMAIN accepted : Usage[n] = accepted[n].tokens /\ Usage[n] \in Nat
         /\ IsFiniteSet(Pending) /\ Pending \subseteq DOMAIN accepted
         /\ TokensAccounted <=> spent = tokenStats + lost + SumFunctionOnSet(Usage, Pending)
         /\ SumFunctionOnSet(Usage, Pending) \in Nat
<1>1. accepted \in Seq(Event)
  BY DEF BusTypeOK
<1>2. DOMAIN accepted = 1..Len(accepted) /\ Len(accepted) \in Nat
  BY <1>1
<1>3. \A n \in DOMAIN accepted : accepted[n].tokens \in Nat
  <2> SUFFICES ASSUME NEW n \in DOMAIN accepted PROVE accepted[n].tokens \in Nat
    OBVIOUS
  <2>1. accepted[n] \in Event
    BY <1>1, <1>2
  <2>2. accepted[n].tokens \in {0} \cup {Tokens[a] : a \in Agent}
    BY <2>1 DEF Event
  <2> QED BY <2>2, AgentAssumption
<1>4. IsFiniteSet(Pending)
  <2>1. IsFiniteSet(1..Len(accepted))
    BY <1>2, FS_Interval
  <2>2. Pending \subseteq 1..Len(accepted)
    BY <1>2 DEF Pending
  <2> QED BY <2>1, <2>2, FS_Subset
<1>5. \A n \in DOMAIN accepted : Usage[n] = accepted[n].tokens
  BY DEF Usage
<1>6. SumFunctionOnSet(Usage, Pending) \in Nat
  BY <1>3, <1>4, <1>5, SumOfNats DEF Pending
<1> QED BY <1>2, <1>3, <1>4, <1>5, <1>6 DEF Usage, Pending, TokensAccounted

LEMMA TokensInitially == ASSUME Init PROVE TokenInv
<1> USE DEF Init, BusInit, Idle
<1>1. BusTypeOK
  BY BusAssumption DEF BusTypeOK, Job
<1>2. Counted = {}
  BY AgentAssumption DEF Counted, ToSet
<1>3. Once
  BY <1>2 DEF Once
<1>4. Pending = {}
  BY DEF Pending
<1>5. SumFunctionOnSet(Usage, {}) = 0
  BY FS_EmptySet, SumRest
<1> QED BY <1>1, <1>3, <1>4, <1>5, UsageFacts DEF TokenInv, Totals

(* The tokens of an event are spent when it is published, and lost when    *)
(* the buffer is full.                                                     *)
LEMMA TokensPublished ==
  ASSUME TokenInv, NEW e \in Event, BusPublish(e), tokenStats' = tokenStats,
         spent' = spent + e.tokens, lost' = IF HasRoom THEN lost ELSE lost + e.tokens
  PROVE  TokenInv'
<1> DEFINE n == Len(accepted) + 1
<1>1. accepted \in Seq(Event) /\ taken \in Nat /\ taken <= Len(accepted) /\ e.tokens \in Nat
  BY AgentAssumption DEF TokenInv, BusTypeOK, Event
<1>2. UNCHANGED <<taken, worker, subscribers, seen>>
  BY DEF BusPublish
<1>3. accepted' = accepted \/ (accepted' = Append(accepted, e) /\ HasRoom)
  BY DEF BusPublish, Publish
<1>4. BusTypeOK'
  <2>1. accepted' \in Seq(Event) /\ Len(accepted') >= Len(accepted)
    BY <1>1, <1>3
  <2>2. Len(accepted') \in Nat /\ Len(accepted) \in Nat
    BY <1>1, <2>1
  <2> QED BY <1>1, <1>2, <2>1, <2>2 DEF TokenInv, BusTypeOK
<1>5. Once'
  BY <1>2 DEF TokenInv, Once, Counted
<1>6. Counted' = Counted /\ \A m \in Counted : m \in Nat /\ m <= taken
  BY <1>2, CountedTyped DEF TokenInv, Once, Counted
<1>7. CASE ~ HasRoom
  <2>1. accepted' = accepted /\ Pending' = Pending /\ Usage' = Usage
    BY <1>2, <1>3, <1>7 DEF Pending, Usage
  <2>2. spent' = tokenStats' + lost' + SumFunctionOnSet(Usage, Pending)
    <3>1. SumFunctionOnSet(Usage, Pending) \in Nat
      BY UsageFacts DEF TokenInv
    <3>2. spent = tokenStats + lost + SumFunctionOnSet(Usage, Pending)
      BY UsageFacts DEF TokenInv, Totals
    <3> QED BY <1>1, <1>7, <3>1, <3>2, SMTT(30) DEF TokenInv, Totals
  <2>3. spent' \in Nat /\ lost' \in Nat /\ tokenStats' \in Nat
    BY <1>1, <1>7 DEF TokenInv, Totals
  <2> QED BY <1>4, <1>5, <2>1, <2>2, <2>3 DEF TokenInv, Totals, TokensAccounted, Usage
<1>8. CASE HasRoom
  <2>1. accepted' = Append(accepted, e)
    BY <1>8 DEF BusPublish, Publish
  <2>2. /\ DOMAIN accepted' = DOMAIN accepted \cup {n} /\ n \notin DOMAIN accepted
        /\ accepted'[n] = e /\ \A m \in DOMAIN accepted : accepted'[m] = accepted[m]
    BY <1>1, <2>1
  <2>3. Pending' = Pending \cup {n} /\ n \notin Pending
    BY <1>1, <1>6, <2>2 DEF Pending, Counted
  <2>4. \A m \in Pending : Usage'[m] = Usage[m]
    BY <2>2 DEF Usage, Pending
  <2>5. Usage'[n] = e.tokens /\ \A m \in Pending' : Usage'[m] \in Nat
    BY <1>4, <2>2, UsageFacts, <1>1, <2>3, <2>4 DEF Usage, TokenInv
  <2>6. IsFiniteSet(Pending) /\ IsFiniteSet(Pending')
    BY <2>3, UsageFacts, FS_AddElement DEF TokenInv
  <2>7. SumFunctionOnSet(Usage', Pending') = e.tokens + SumFunctionOnSet(Usage', Pending' \ {n})
    BY <2>3, <2>5, <2>6, SumOfNats
  <2>8. Pending' \ {n} = Pending
    BY <2>3
  <2>9. SumFunctionOnSet(Usage', Pending) = SumFunctionOnSet(Usage, Pending)
    BY <2>4, <2>6, SumSame
  <2>10. spent' = tokenStats' + lost' + SumFunctionOnSet(Usage', Pending')
    <3>1. SumFunctionOnSet(Usage, Pending) \in Nat
      BY UsageFacts DEF TokenInv
    <3>2. spent = tokenStats + lost + SumFunctionOnSet(Usage, Pending)
      BY UsageFacts DEF TokenInv, Totals
    <3>3. SumFunctionOnSet(Usage', Pending') = e.tokens + SumFunctionOnSet(Usage, Pending)
      BY <2>7, <2>8, <2>9
    <3> QED BY <1>1, <1>8, <3>1, <3>2, <3>3 DEF TokenInv, Totals
  <2>11. spent' \in Nat /\ lost' \in Nat /\ tokenStats' \in Nat
    BY <1>1, <1>8 DEF TokenInv, Totals
  <2> QED BY <1>4, <1>5, <2>10, <2>11 DEF TokenInv, Totals, TokensAccounted, Usage
<1> QED BY <1>7, <1>8

(* A step that leaves the totals and what has been counted. *)
LEMMA TokensKept ==
  ASSUME TokenInv, BusTypeOK', Once', UNCHANGED <<accepted, spent, lost, tokenStats>>, Counted' = Counted
  PROVE  TokenInv'
  BY DEF TokenInv, Totals, TokensAccounted, Pending, Counted

LEMMA TokensReceived ==
  ASSUME TokenInv, NEW k \in Worker, Receive(k), UNCHANGED <<spent, lost, tokenStats>>
  PROVE  TokenInv'
<1>1. BusTypeOK /\ worker \in [Worker -> Job] /\ taken \in Nat
  BY DEF TokenInv, BusTypeOK
<1>2. /\ taken' = taken + 1 /\ taken < Len(accepted)
      /\ UNCHANGED <<accepted, subscribers, seen>>
      /\ worker' = [worker EXCEPT ![k] = Received(taken + 1)]
  BY DEF Receive
<1>3. Received(taken + 1) \in Job
  BY <1>1 DEF Received, Job
<1>4. BusTypeOK'
  BY <1>1, <1>2, <1>3 DEF BusTypeOK
<1>5. Counted' = Counted /\ \A n \in Counted : n \in Nat /\ n <= taken
  BY <1>1, <1>2, CountedTyped DEF Counted, TokenInv, Once
<1>6. worker'[k] = Received(taken + 1) /\ \A j \in Worker \ {k} : worker'[j] = worker[j]
  BY <1>1, <1>2
<1>7. \A j \in Worker : worker[j].event \in Nat /\ worker[j].event <= taken
  BY <1>1 DEF TokenInv, Once, Job
<1>8. taken + 1 \notin Counted /\ taken + 1 # 0
  BY <1>1, <1>5
<1>9. \A n \in Counted : n <= taken'
  BY <1>1, <1>2, <1>5
<1>10. \A i, j \in Worker : i # j /\ worker'[i].event # 0 => worker'[i].event # worker'[j].event
  BY <1>1, <1>6, <1>7 DEF TokenInv, Once, Received
<1>11. ASSUME NEW j \in Worker
       PROVE  /\ worker'[j].event <= taken'
              /\ worker'[j].todo # {} => worker'[j].event # 0 /\ worker'[j].copied
              /\ worker'[j].event # 0 /\ (~ worker'[j].copied \/ "tokens" \in worker'[j].todo) =>
                   worker'[j].event \notin Counted
  <2>1. CASE j = k
    BY <1>1, <1>2, <1>6, <1>8, <2>1 DEF Received
  <2>2. CASE j # k
    BY <1>1, <1>2, <1>6, <1>7, <2>2 DEF TokenInv, Once
  <2> QED BY <2>1, <2>2
<1>12. Once'
  BY <1>5, <1>9, <1>10, <1>11 DEF Once
<1> QED BY <1>2, <1>4, <1>5, <1>12, TokensKept

LEMMA DispatchingTyped ==
  ASSUME NEW n \in Nat, NEW todo \in SUBSET Handler
  PROVE  LET d == Dispatching(n, todo)
         IN  /\ d \in Job
             /\ d.todo = todo
             /\ d.event = IF todo = {} THEN 0 ELSE n
             /\ d.copied <=> todo # {}
<1>1. CASE todo = {}
  BY <1>1 DEF Dispatching, Idle, Job
<1>2. CASE todo # {}
  BY <1>2 DEF Dispatching, Job
<1> QED BY <1>1, <1>2

(* A worker goes on dispatching. *)
LEMMA DispatchOnce ==
  ASSUME TokenInv, NEW k \in Worker, worker[k].event # 0, NEW todo \in SUBSET Handler,
         worker' = [worker EXCEPT ![k] = Dispatching(worker[k].event, todo)],
         UNCHANGED <<accepted, taken, subscribers>>, seen' \in [Handler -> Seq(Nat)],
         \A n \in Counted' : n \in Counted \/ (n = worker[k].event /\ "tokens" \notin todo),
         "tokens" \in todo => ~ worker[k].copied \/ "tokens" \in worker[k].todo
  PROVE  BusTypeOK' /\ Once'
<1> DEFINE d == Dispatching(worker[k].event, todo)
<1>1. worker \in [Worker -> Job] /\ taken \in Nat /\ \A j \in Worker : worker[j] \in Job /\ worker[j].event \in Nat
  BY DEF TokenInv, BusTypeOK, Job
<1>2. d \in Job /\ d.todo = todo /\ (d.event = IF todo = {}
                                                 THEN 0
                                                 ELSE worker[k].event) /\ (d.copied <=> todo # {})
  BY <1>1, DispatchingTyped
<1>3. worker'[k] = d /\ (\A j \in Worker \ {k} : worker'[j] = worker[j]) /\ worker' \in [Worker -> Job]
  <2> HIDE DEF d
  <2>1. worker' = [worker EXCEPT ![k] = d]
    BY DEF d
  <2> QED BY <1>1, <1>2, <2>1
<1> HIDE DEF d
<1>4. BusTypeOK'
  BY <1>3 DEF TokenInv, BusTypeOK
<1>5. \A n \in Counted' : n <= taken'
  BY DEF TokenInv, Once
<1>6. \A i, j \in Worker : i # j /\ worker'[i].event # 0 => worker'[i].event # worker'[j].event
  BY <1>2, <1>3 DEF TokenInv, Once
<1>8. ASSUME NEW j \in Worker
      PROVE  /\ worker'[j].event <= taken'
             /\ worker'[j].todo # {} => worker'[j].event # 0 /\ worker'[j].copied
             /\ worker'[j].event # 0 /\ (~ worker'[j].copied \/ "tokens" \in worker'[j].todo) =>
                  worker'[j].event \notin Counted'
  <2>1. CASE j = k
    BY <1>1, <1>2, <1>3, <2>1 DEF TokenInv, Once
  <2>2. CASE j # k
    BY <1>1, <1>3, <2>2 DEF TokenInv, Once
  <2> QED BY <2>1, <2>2
<1> QED BY <1>4, <1>5, <1>6, <1>8 DEF Once

LEMMA TokensCopied ==
  ASSUME TokenInv, NEW k \in Worker, CopySubscribers(k), UNCHANGED <<spent, lost, tokenStats>>
  PROVE  TokenInv'
<1> DEFINE subs == {h \in Handler : <<accepted[worker[k].event].type, h>> \in subscribers}
<1>1. /\ worker[k].event # 0 /\ ~ worker[k].copied
      /\ worker' = [worker EXCEPT ![k] = Dispatching(worker[k].event, subs)]
      /\ UNCHANGED <<accepted, taken, subscribers, seen>>
  BY DEF CopySubscribers
<1>2. Counted' = Counted /\ seen' \in [Handler -> Seq(Nat)]
  BY <1>1 DEF Counted, TokenInv, BusTypeOK
<1>3. subs \in SUBSET Handler
  OBVIOUS
<1> HIDE DEF subs
<1>4. BusTypeOK' /\ Once'
  BY <1>1, <1>2, <1>3, DispatchOnce
<1> QED BY <1>1, <1>2, <1>4, TokensKept

LEMMA TokensCalled ==
  ASSUME TokenInv, NEW k \in Worker, NEW h \in Handler, CallHandler(k, h), SumTokens(h, k),
         UNCHANGED <<spent, lost>>
  PROVE  TokenInv'
<1> DEFINE n == worker[k].event
           rest == worker[k].todo \ {h}
<1>1. /\ worker \in [Worker -> Job] /\ worker[k] \in Job /\ n \in Nat /\ worker[k].todo \in SUBSET Handler
      /\ taken \in Nat /\ taken <= Len(accepted) /\ seen \in [Handler -> Seq(Nat)]
  BY DEF TokenInv, BusTypeOK, Job
<1>2. h \in worker[k].todo /\ n # 0 /\ n <= taken /\ (h = "tokens" => n \notin Counted)
  BY DEF CallHandler, TokenInv, Once
<1>3. UNCHANGED <<accepted, taken, subscribers>>
  BY DEF CallHandler
<1>4. worker' = [worker EXCEPT ![k] = Dispatching(n, rest)]
  BY <1>1 DEF CallHandler
<1>5. \/ seen' = [seen EXCEPT ![h] = Append(@, n)]
      \/ h # "tokens" /\ seen' = seen
  BY AgentAssumption DEF CallHandler
<1>6. /\ seen' \in [Handler -> Seq(Nat)]
      /\ Counted' = IF h = "tokens" THEN Counted \cup {n} ELSE Counted
  <2>1. CASE h # "tokens" /\ seen' = seen
    BY <1>1, <2>1 DEF Counted
  <2>2. CASE h # "tokens" /\ seen' = [seen EXCEPT ![h] = Append(@, n)]
    <3>1. seen' \in [Handler -> Seq(Nat)] /\ seen'["tokens"] = seen["tokens"]
      BY <1>1, <2>2, AgentAssumption
    <3> QED BY <2>2, <3>1 DEF Counted
  <2>3. CASE h = "tokens" /\ seen' = [seen EXCEPT ![h] = Append(@, n)]
    <3>1. seen["tokens"] \in Seq(Nat)
      BY <1>1, AgentAssumption
    <3>2. seen' \in [Handler -> Seq(Nat)] /\ seen'["tokens"] = Append(seen["tokens"], n)
      BY <1>1, <2>3, <3>1
    <3>3. ToSet(Append(seen["tokens"], n)) = ToSet(seen["tokens"]) \cup {n}
      <4> DEFINE s == seen["tokens"]
                 m == Len(s) + 1
      <4>1. DOMAIN Append(s, n) = DOMAIN s \cup {m} /\ DOMAIN s = 1..Len(s) /\ Len(s) \in Nat
        BY <1>1, <3>1
      <4>2. Append(s, n)[m] = n /\ \A i \in DOMAIN s : Append(s, n)[i] = s[i]
        BY <1>1, <3>1
      <4> HIDE DEF s, m, n
      <4>3. ToSet(Append(s, n)) = {Append(s, n)[i] : i \in DOMAIN s \cup {m}}
        BY <4>1 DEF ToSet
      <4>4. {Append(s, n)[i] : i \in DOMAIN s \cup {m}} = {s[i] : i \in DOMAIN s} \cup {n}
        BY <4>2
      <4> QED BY <4>3, <4>4 DEF ToSet, s
    <3> QED BY <2>3, <3>2, <3>3 DEF Counted
  <2> QED BY <1>5, <2>1, <2>2, <2>3
<1>7. BusTypeOK' /\ Once'
  <2>1. rest \in SUBSET Handler /\ ("tokens" \in rest => "tokens" \in worker[k].todo)
    BY <1>1
  <2>2. \A m \in Counted' : m \in Counted \/ (m = n /\ "tokens" \notin rest)
    BY <1>6
  <2> HIDE DEF rest
  <2> QED BY <1>2, <1>3, <1>4, <1>6, <2>1, <2>2, DispatchOnce
<1>8. CASE h # "tokens"
  <2>1. Counted' = Counted /\ tokenStats' = tokenStats
    BY <1>6, <1>8 DEF SumTokens
  <2> QED BY <1>3, <1>7, <2>1, TokensKept
<1>9. CASE h = "tokens"
  <2> HIDE DEF n
  <2>1. n \in Pending /\ Pending' = Pending \ {n}
    BY <1>1, <1>2, <1>3, <1>6, <1>9, UsageFacts DEF Pending, Counted, TokenInv
  <2>2. tokenStats' = tokenStats + Usage[n] /\ Usage' = Usage
    BY <1>3, <1>9, <2>1, UsageFacts DEF SumTokens, n, Usage, TokenInv
  <2>3. IsFiniteSet(Pending) /\ \A m \in Pending : Usage[m] \in Nat
    BY UsageFacts DEF TokenInv
  <2>4. /\ SumFunctionOnSet(Usage, Pending) = Usage[n] + SumFunctionOnSet(Usage, Pending \ {n})
        /\ SumFunctionOnSet(Usage, Pending \ {n}) \in Nat
    <3>1. IsFiniteSet(Pending \ {n})
      BY <2>3, FS_RemoveElement
    <3> QED BY <2>1, <2>3, <3>1, SumOfNats
  <2>5. spent = tokenStats + lost + SumFunctionOnSet(Usage, Pending)
    BY UsageFacts DEF TokenInv, Totals
  <2>6. spent = (tokenStats + Usage[n]) + lost + SumFunctionOnSet(Usage, Pending \ {n})
    BY <2>1, <2>3, <2>4, <2>5 DEF TokenInv, Totals
  <2>7. tokenStats' \in Nat
    BY <2>1, <2>2, <2>3 DEF TokenInv, Totals
  <2>8. TokensAccounted'
    BY <2>1, <2>2, <2>6 DEF TokensAccounted, Usage
  <2> QED BY <1>7, <2>7, <2>8 DEF TokenInv, Totals
<1> QED BY <1>8, <1>9

LEMMA TokensOfClients ==
  ASSUME TokenInv, NEW h \in Client, NEW y \in Type, Subscribe(h, y) \/ Unsubscribe(h, y),
         UNCHANGED <<spent, lost, tokenStats>>
  PROVE  TokenInv'
<1>1. UNCHANGED <<accepted, taken, worker, seen>>
  BY DEF Subscribe, Unsubscribe
<1>2. subscribers' \subseteq {s \in Type \X Handler : s[1] \in Listens[s[2]]}
  BY BusAssumption DEF Subscribe, Unsubscribe, TokenInv, BusTypeOK
<1>3. BusTypeOK' /\ Once' /\ Counted' = Counted
  BY <1>1, <1>2 DEF TokenInv, BusTypeOK, Once, Counted
<1> QED BY <1>1, <1>3, TokensKept

LEMMA TokensOfTasks ==
  ASSUME TokenInv, NEW t \in Task, TaskStep(t)
  PROVE  TokenInv'
<1> USE DEF BusFrame
<1>1. ASSUME UNCHANGED <<accepted, taken, worker, subscribers, seen, spent, lost, tokenStats>>
      PROVE  TokenInv'
  <2>1. BusTypeOK' /\ Once' /\ Counted' = Counted
    BY <1>1 DEF TokenInv, BusTypeOK, Once, Counted
  <2> QED BY <1>1, <2>1, TokensKept
<1>2. ASSUME NEW y \in {"TASK_STARTED", "TASK_RETRIED", "TASK_COMPLETED", "TASK_FAILED"},
             Tells(t, y), BusFrame, UNCHANGED <<spent, lost>>
      PROVE  TokenInv'
  <2> DEFINE e == [type |-> y, task |-> t, tokens |-> 0]
  <2>1. e \in Event /\ e.tokens = 0 /\ BusPublish(e)
    BY <1>2, EventsTyped DEF Tells, BusPublish
  <2>2. spent \in Nat /\ lost \in Nat
    BY DEF TokenInv, Totals
  <2> HIDE DEF e
  <2> QED BY <1>2, <2>1, <2>2, TokensPublished
<1>3. CASE StartTask(t)
  BY <1>1, <1>2, <1>3 DEF StartTask
<1>4. CASE BeginAttempt(t) \/ FallBack(t)
  BY <1>1, <1>4 DEF BeginAttempt, FallBack
<1>5. CASE Generate(t)
  <2> DEFINE a == agentIDs[t][turn[t]]
             e == [type |-> "TASK_TOKEN_USAGE", task |-> t, tokens |-> Tokens[a]]
  <2>1. /\ a \in Agent /\ BusPublish(e) /\ tokenStats' = tokenStats
        /\ spent' = spent + Tokens[a]
        /\ lost' = IF HasRoom THEN lost ELSE lost + Tokens[a]
    BY <1>5 DEF Generate, BusPublish
  <2>2. e \in Event /\ e.tokens = Tokens[a]
    BY <2>1, UsageTyped
  <2> HIDE DEF e, a
  <2> QED BY <2>1, <2>2, TokensPublished
<1>6. CASE AttemptFails(t)
  BY <1>2, <1>6 DEF AttemptFails
<1>7. CASE RetryCancelled(t)
  BY <1>2, <1>7 DEF RetryCancelled
<1>8. CASE CompleteTask(t)
  BY <1>2, <1>8 DEF CompleteTask
<1> QED BY <1>3, <1>4, <1>5, <1>6, <1>7, <1>8 DEF TaskStep

(* No token is counted twice or forgotten, with however many workers,      *)
(* agents, retries and clients (agents.go:233-247, bus.go:34-88,           *)
(* server.go:74-101).                                                      *)
THEOREM TokensAreAccounted == Spec => []TokensAccounted
<1>1. TokenInv /\ [Next]_vars => TokenInv'
  <2> SUFFICES ASSUME TokenInv, [Next]_vars PROVE TokenInv'
    OBVIOUS
  <2>1. CASE UNCHANGED vars
    <3>1. UNCHANGED <<accepted, taken, worker, subscribers, seen, spent, lost, tokenStats>>
      BY <2>1 DEF vars, busVars, taskVars
    <3>2. BusTypeOK' /\ Once' /\ Counted' = Counted
      BY <3>1 DEF TokenInv, BusTypeOK, Once, Counted
    <3> QED BY <3>1, <3>2, TokensKept
  <2>2. ASSUME NEW k \in Worker, WorkerStep(k), UNCHANGED taskVars PROVE TokenInv'
    <3>1. UNCHANGED <<spent, lost>>
      BY <2>2 DEF taskVars
    <3> QED BY <2>2, <3>1, TokensReceived, TokensCopied, TokensCalled DEF WorkerStep
  <2>3. ASSUME NEW h \in Client, ClientStep(h), UNCHANGED taskVars PROVE TokenInv'
    <3>1. UNCHANGED <<spent, lost>>
      BY <2>3 DEF taskVars
    <3> QED BY <2>3, <3>1, TokensOfClients DEF ClientStep
  <2> QED BY <2>1, <2>2, <2>3, TokensOfTasks DEF Next
<1>2. TokenInv => TokensAccounted
  BY DEF TokenInv, Totals
<1> QED BY <1>1, <1>2, TokensInitially, PTL DEF Spec
----------------------------------------------------------------------------
(* The exchange sort of CostAwareRouter.                                   *)

List(n) == [1..n -> Agent]

LEMMA ListLen == ASSUME NEW n \in Nat, NEW s \in List(n) PROVE Len(s) = n
<1>1. s \in Seq(Agent)
  BY DEF List
<1>2. DOMAIN s = 1..Len(s) /\ Len(s) \in Nat
  BY <1>1
<1>3. DOMAIN s = 1..n
  BY DEF List
<1> DEFINE l == Len(s)
<1>4. 1..l = 1..n /\ l \in Nat
  BY <1>2, <1>3
<1> HIDE DEF l
<1>5. l <= n
  <2>1. l = 0 \/ l \in 1..n
    BY <1>4
  <2> QED BY <2>1
<1>6. n <= l
  <2>1. n = 0 \/ n \in 1..l
    BY <1>4
  <2> QED BY <1>4, <2>1
<1> QED BY <1>4, <1>5, <1>6 DEF l

(* What an exchange does. *)
LEMMA Swapped ==
  ASSUME NEW n \in Nat, NEW r \in List(n), NEW i \in 1..n, NEW j \in 1..n
  PROVE  /\ Swap(r, i, j) \in List(n)
         /\ \A k \in 1..n : Swap(r, i, j)[k] = IF k = j THEN r[i] ELSE IF k = i THEN r[j] ELSE r[k]
  BY DEF Swap, List

(* The inner loop, step by step. *)
LEMMA ExchangedIs ==
  ASSUME NEW n \in Nat, NEW s \in List(n), NEW i \in 1..n
  PROVE  \E f \in [i..n -> List(n)] :
           /\ f[i] = s
           /\ \A j \in i..n : j # i =>
                f[j] = IF Dearer(f[j - 1][i], f[j - 1][j]) THEN Swap(f[j - 1], i, j) ELSE f[j - 1]
           /\ Exchanged(s, i) = f[n]
<1> DEFINE Body(r, j) == IF Dearer(r[i], r[j]) THEN Swap(r, i, j) ELSE r
           Rule(f) == f = [j \in i..n |-> IF j = i THEN s ELSE Body(f[j - 1], j)]
           upTo == CHOOSE f : Rule(f)
           step == [p \in List(n) \X Int |-> IF p[2] \in i..n THEN Body(p[1], p[2]) ELSE s]
<1>1. Exchanged(s, i) = upTo[n]
  BY ListLen DEF Exchanged
<1>2. step \in [List(n) \X Int -> List(n)]
  <2>1. ASSUME NEW p \in List(n) \X Int PROVE step[p] \in List(n)
    <3>1. p[1] \in List(n)
      OBVIOUS
    <3>2. CASE p[2] \in i..n
      <4>1. p[2] \in 1..n
        BY <3>2
      <4>2. Swap(p[1], i, p[2]) \in List(n)
        BY <3>1, <4>1, Swapped
      <4> QED BY <3>1, <3>2, <4>2
    <3> QED BY <3>2
  <2> QED BY <2>1
<1>3. PICK f \in [i..n -> List(n)] :
        \A j \in i..n : f[j] = IF j = i THEN s ELSE step[<<f[j - 1], j>>]
  <2>1. i \in Int /\ n \in Int /\ i <= n
    OBVIOUS
  <2> DEFINE L == List(n)
  <2> HIDE DEF step, L
  <2>2. s \in L /\ step \in LoopSteps(L)
    BY <1>2 DEF L, LoopSteps
  <2>3. \E f : LoopRuns(f, L, i, n, s, step)
    BY <2>1, <2>2, IntervalRecursion
  <2> QED BY <2>3 DEF L, LoopRuns
<1>4. ASSUME NEW j \in i..n, j # i PROVE step[<<f[j - 1], j>>] = Body(f[j - 1], j)
  <2>1. j - 1 \in i..n /\ j \in Int
    BY <1>4
  <2>2. <<f[j - 1], j>> \in List(n) \X Int
    BY <2>1
  <2> HIDE DEF Body
  <2> QED BY <2>2
<1>5. Rule(f)
  <2>1. f = [j \in i..n |-> f[j]]
    OBVIOUS
  <2>2. \A j \in i..n : f[j] = IF j = i THEN s ELSE Body(f[j - 1], j)
    <3> HIDE DEF step, Body
    <3> QED BY <1>3, <1>4
  <2> HIDE DEF Body
  <2> QED BY <2>1, <2>2
<1>6. Rule(upTo)
  <2> HIDE DEF Rule
  <2> QED BY <1>5
<1>7. \A j \in i..n : upTo[j] = IF j = i THEN s ELSE Body(upTo[j - 1], j)
  <2> HIDE DEF Body, upTo
  <2> QED BY <1>6
<1>8. upTo \in [i..n -> List(n)]
  <2> DEFINE P == {j \in i..n : upTo[j] \in List(n)}
  <2>1. i \in P
    <3> HIDE DEF upTo, Body
    <3>1. i \in i..n
      OBVIOUS
    <3>2. upTo[i] = s
      BY <1>7, <3>1
    <3> QED BY <3>1, <3>2
  <2>2. ASSUME NEW j \in i..(n - 1), j \in P PROVE j + 1 \in P
    <3>1. j + 1 \in i..n /\ j + 1 # i /\ (j + 1) - 1 = j /\ j + 1 \in 1..n
      OBVIOUS
    <3>2. upTo[j] \in List(n)
      BY <2>2
    <3>3. upTo[j + 1] = Body(upTo[j], j + 1)
      <4> HIDE DEF Body, upTo
      <4> QED BY <1>7, <3>1
    <3> HIDE DEF upTo
    <3>4. Swap(upTo[j], i, j + 1) \in List(n)
      BY <3>1, <3>2, Swapped
    <3> QED BY <3>1, <3>2, <3>3, <3>4
  <2>3. \A j \in i..n : j \in P
    <3> HIDE DEF P
    <3>1. i \in Int /\ n \in Int
      OBVIOUS
    <3> QED BY <2>1, <2>2, <3>1, IntervalInduction
  <2> HIDE DEF upTo, Body
  <2> QED BY <1>6, <2>3
<1> HIDE DEF upTo
<1>9. i \in i..n
  OBVIOUS
<1> QED BY <1>1, <1>7, <1>8, <1>9

(* The round of place i puts the cheapest of the places from i on there,   *)
(* leaves the places before, and loses none.                               *)
LEMMA PlaceFilled ==
  ASSUME NEW n \in Nat, NEW s \in List(n), NEW i \in 1..n
  PROVE  /\ Exchanged(s, i) \in List(n)
         /\ \A k \in 1..(i - 1) : Exchanged(s, i)[k] = s[k]
         /\ \A k \in i..n : \E m \in i..n : Exchanged(s, i)[k] = s[m]
         /\ \A m \in i..n : \E k \in i..n : Exchanged(s, i)[k] = s[m]
         /\ \A k \in i..n : Cost[Exchanged(s, i)[i]] <= Cost[Exchanged(s, i)[k]]
<1>1. PICK f \in [i..n -> List(n)] :
           /\ f[i] = s
           /\ \A j \in i..n : j # i =>
                f[j] = IF Dearer(f[j - 1][i], f[j - 1][j]) THEN Swap(f[j - 1], i, j) ELSE f[j - 1]
           /\ Exchanged(s, i) = f[n]
  BY ExchangedIs
<1> DEFINE Before(r) == \A k \in 1..(i - 1) : r[k] = s[k]
           Within(r) == \A k \in i..n : \E m \in i..n : r[k] = s[m]
           All(r) == \A m \in i..n : \E k \in i..n : r[k] = s[m]
           Least(r, j) == \A k \in i..j : Cost[r[i]] <= Cost[r[k]]
           P == {j \in i..n : Before(f[j]) /\ Within(f[j]) /\ All(f[j]) /\ Least(f[j], j)}
<1>2. \A r \in List(n) : \A k \in 1..n : Cost[r[k]] \in Nat
  BY AgentAssumption DEF List
<1>3. i \in P
  <2>1. i \in 1..n
    OBVIOUS
  <2>2. \A k \in i..i : k = i
    OBVIOUS
  <2>3. Cost[s[i]] <= Cost[s[i]]
    BY <1>2
  <2>4. Before(s) /\ Within(s) /\ All(s) /\ Least(s, i)
    BY <2>2, <2>3
  <2>5. i \in i..n /\ f[i] = s
    BY <1>1
  <2> HIDE DEF Before, Within, All, Least
  <2> QED BY <2>4, <2>5
<1>4. ASSUME NEW j \in i..(n - 1), j \in P PROVE j + 1 \in P
  <2> DEFINE r == f[j]
             q == f[j + 1]
             l == j + 1
  <2>1. l \in i..n /\ l # i /\ l - 1 = j /\ l \in 1..n /\ j \in i..n /\ i \in 1..n
    OBVIOUS
  <2>2. r \in List(n) /\ q \in List(n)
    BY <2>1
  <2>3. q = IF Dearer(r[i], r[l]) THEN Swap(r, i, l) ELSE r
    BY <1>1, <2>1
  <2>4. Before(r) /\ Within(r) /\ All(r) /\ Least(r, j)
    BY <1>4
  <2> HIDE DEF r, q
  <2>5. \A k \in i..l : k \in i..j \/ k = l
    OBVIOUS
  <2>6. i..n \subseteq 1..n /\ 1..(i - 1) \subseteq 1..n /\ i..j \subseteq 1..n
    OBVIOUS
  <2>7. CASE ~ Dearer(r[i], r[l])
    <3>1. q = r
      BY <2>3, <2>7
    <3>2. Cost[r[i]] <= Cost[r[l]]
      BY <1>2, <2>1, <2>2, <2>7 DEF Dearer
    <3>3. Least(r, l)
      BY <2>4, <2>5, <3>2
    <3> HIDE DEF Before, Within, All, Least
    <3> QED BY <2>1, <2>4, <3>1, <3>3 DEF q
  <2>8. CASE Dearer(r[i], r[l])
    <3>1. q = Swap(r, i, l)
      BY <2>3, <2>8
    <3>2. \A k \in 1..n : q[k] = IF k = l THEN r[i] ELSE IF k = i THEN r[l] ELSE r[k]
      <4> HIDE DEF l, Before, Within, All, Least
      <4> SUFFICES ASSUME NEW k \in 1..n
                   PROVE  Swap(r, i, l)[k] = IF k = l THEN r[i] ELSE IF k = i THEN r[l] ELSE r[k]
        BY <3>1
      <4> QED BY <2>1, <2>2, Swapped
    <3>3. Before(q)
      <4>1. \A k \in 1..(i - 1) : k \in 1..n /\ k # i /\ k # l
        BY <2>1
      <4> HIDE DEF l
      <4> QED BY <2>4, <3>2, <4>1
    <3>4. i \in i..n
      OBVIOUS
    <3> HIDE DEF l
    <3>5. Within(q)
      <4> SUFFICES ASSUME NEW k \in i..n PROVE \E m \in i..n : q[k] = s[m]
        OBVIOUS
      <4>1. \A p \in i..n : \E m \in i..n : r[p] = s[m]
        BY <2>4
      <4>2. q[k] \in {r[i], r[l], r[k]}
        BY <2>6, <3>2
      <4> QED BY <2>1, <3>4, <4>1, <4>2
    <3>6. All(q)
      <4> SUFFICES ASSUME NEW m \in i..n PROVE \E k \in i..n : q[k] = s[m]
        OBVIOUS
      <4>1. PICK k \in i..n : r[k] = s[m]
        BY <2>4
      <4>2. CASE k = i
        BY <2>1, <2>6, <3>2, <4>1, <4>2
      <4>3. CASE k = l
        BY <2>1, <2>6, <3>2, <3>4, <4>1, <4>3
      <4>4. CASE k # i /\ k # l
        BY <2>6, <3>2, <4>1, <4>4
      <4> QED BY <4>2, <4>3, <4>4
    <3>7. Least(q, l)
      <4>1. q[i] = r[l] /\ q[l] = r[i] /\ Cost[r[l]] <= Cost[r[i]] /\ Cost[r[l]] \in Nat
        BY <1>2, <2>1, <2>2, <2>8, <3>2 DEF Dearer
      <4>2. ASSUME NEW k \in i..j PROVE Cost[r[l]] <= Cost[q[k]]
        <5>1. CASE k = i
          BY <4>1, <5>1
        <5>2. CASE k # i
          <6>1. k # l
            BY DEF l
          <6>2. q[k] = r[k]
            BY <2>6, <3>2, <5>2, <6>1
          <6>3. Cost[r[i]] <= Cost[r[k]] /\ Cost[r[k]] \in Nat /\ Cost[r[i]] \in Nat
            BY <1>2, <2>1, <2>2, <2>4, <2>6
          <6> QED BY <4>1, <6>2, <6>3
        <5> QED BY <5>1, <5>2
      <4> QED BY <2>5, <4>1, <4>2
    <3> HIDE DEF Before, Within, All, Least
    <3> QED BY <2>1, <3>3, <3>5, <3>6, <3>7 DEF q, l
  <2> QED BY <2>7, <2>8
<1>5. n \in P
  <2> HIDE DEF P
  <2>1. i \in Int /\ n \in Int /\ n \in i..n
    OBVIOUS
  <2> QED BY <1>3, <1>4, <2>1, IntervalInduction
<1>6. Exchanged(s, i) = f[n] /\ f[n] \in List(n)
  BY <1>1
<1> QED BY <1>5, <1>6

(* The outer loop. *)
LEMMA SortIs ==
  ASSUME NEW n \in Nat, NEW ids \in List(n)
  PROVE  \E f \in [0..n -> List(n)] :
           /\ f[0] = ids
           /\ \A i \in 0..n : i # 0 => f[i] = Exchanged(f[i - 1], i)
           /\ SortByCost(ids) = f[n]
<1> DEFINE Rule(f) == f = [i \in 0..n |-> IF i = 0 THEN ids ELSE Exchanged(f[i - 1], i)]
           sorted == CHOOSE f : Rule(f)
           L == List(n)
           step == [p \in L \X Int |-> IF p[2] \in 1..n THEN Exchanged(p[1], p[2]) ELSE ids]
<1>1. SortByCost(ids) = sorted[n]
  BY ListLen DEF SortByCost
<1>2. step \in [L \X Int -> L]
  <2>1. ASSUME NEW p \in L \X Int PROVE step[p] \in L
    <3>1. p[1] \in List(n)
      OBVIOUS
    <3>2. CASE p[2] \in 1..n
      <4>1. Exchanged(p[1], p[2]) \in List(n)
        BY <3>1, <3>2, PlaceFilled
      <4> QED BY <3>2, <4>1
    <3> QED BY <3>2
  <2> QED BY <2>1
<1>3. ids \in L
  OBVIOUS
<1>4. PICK f \in [0..n -> L] :
        \A i \in 0..n : f[i] = IF i = 0 THEN ids ELSE step[<<f[i - 1], i>>]
  <2>1. 0 \in Int /\ n \in Int /\ 0 <= n
    OBVIOUS
  <2> HIDE DEF step, L
  <2>2. step \in LoopSteps(L)
    BY <1>2 DEF LoopSteps
  <2>3. \E f : LoopRuns(f, L, 0, n, ids, step)
    BY <1>3, <2>1, <2>2, IntervalRecursion
  <2> QED BY <2>3 DEF LoopRuns
<1>5. ASSUME NEW i \in 0..n, i # 0 PROVE step[<<f[i - 1], i>>] = Exchanged(f[i - 1], i)
  <2>1. i - 1 \in 0..n /\ i \in Int /\ i \in 1..n
    BY <1>5
  <2> HIDE DEF L
  <2>2. <<f[i - 1], i>> \in L \X Int
    BY <2>1
  <2> QED BY <2>1, <2>2
<1>6. Rule(f)
  <2>1. f = [i \in 0..n |-> f[i]]
    OBVIOUS
  <2>2. \A i \in 0..n : f[i] = IF i = 0 THEN ids ELSE Exchanged(f[i - 1], i)
    <3> HIDE DEF step
    <3> QED BY <1>4, <1>5
  <2> QED BY <2>1, <2>2
<1>7. Rule(sorted)
  <2> HIDE DEF Rule
  <2> QED BY <1>6
<1> HIDE DEF sorted
<1>8. \A i \in 0..n : sorted[i] = IF i = 0 THEN ids ELSE Exchanged(sorted[i - 1], i)
  BY <1>7
<1>9. \A i \in 0..n : i \in {i1 \in 0..n : sorted[i1] \in List(n)}
  <2> DEFINE P == {i \in 0..n : sorted[i] \in List(n)}
  <2>1. 0 \in P
    <3>1. 0 \in 0..n
      OBVIOUS
    <3> QED BY <1>8, <3>1
  <2>2. ASSUME NEW i \in 0..(n - 1), i \in P PROVE i + 1 \in P
    <3>1. i + 1 \in 0..n /\ i + 1 # 0 /\ (i + 1) - 1 = i /\ i + 1 \in 1..n
      OBVIOUS
    <3>2. sorted[i] \in List(n)
      BY <2>2
    <3>3. sorted[i + 1] = Exchanged(sorted[i], i + 1)
      BY <1>8, <3>1
    <3>4. Exchanged(sorted[i], i + 1) \in List(n)
      BY <3>1, <3>2, PlaceFilled
    <3> QED BY <3>1, <3>3, <3>4
  <2>3. 0 \in Int /\ n \in Int
    OBVIOUS
  <2> HIDE DEF P
  <2>4. \A i \in 0..n : i \in P
    BY <2>1, <2>2, <2>3, IntervalInduction
  <2> QED BY <2>4 DEF P
<1>10. sorted \in [0..n -> List(n)]
  BY <1>7, <1>9
<1>11. 0 \in 0..n
  OBVIOUS
<1> QED BY <1>1, <1>8, <1>10, <1>11

(* SortByCost sorts: the places hold the same agents, the cheapest first.  *)
LEMMA SortSorts ==
  ASSUME NEW n \in Nat, NEW ids \in List(n)
  PROVE  /\ SortByCost(ids) \in List(n)
         /\ \A k \in 1..n : \E m \in 1..n : SortByCost(ids)[k] = ids[m]
         /\ \A m \in 1..n : \E k \in 1..n : SortByCost(ids)[k] = ids[m]
         /\ \A p \in 1..n, q \in 1..n : p < q => Cost[SortByCost(ids)[p]] <= Cost[SortByCost(ids)[q]]
<1>1. PICK f \in [0..n -> List(n)] :
           /\ f[0] = ids
           /\ \A i \in 0..n : i # 0 => f[i] = Exchanged(f[i - 1], i)
           /\ SortByCost(ids) = f[n]
  BY SortIs
<1> DEFINE Within(r) == \A k \in 1..n : \E m \in 1..n : r[k] = ids[m]
           Has(r) == \A m \in 1..n : \E k \in 1..n : r[k] = ids[m]
           Settled(r, i) == \A p \in 1..i : \A q \in p..n : Cost[r[p]] <= Cost[r[q]]
           P == {i \in 0..n : Within(f[i]) /\ Has(f[i]) /\ Settled(f[i], i)}
<1>2. 0 \in P
  <2>1. 0 \in 0..n /\ \A p \in 1..0 : FALSE
    OBVIOUS
  <2> QED BY <1>1, <2>1
<1>3. ASSUME NEW i \in 0..(n - 1), i \in P PROVE i + 1 \in P
  <2> DEFINE r == f[i]
             l == i + 1
             x == Exchanged(r, l)
  <2>1. l \in 0..n /\ l # 0 /\ l - 1 = i /\ l \in 1..n /\ i \in 0..n /\ l \in Nat
    OBVIOUS
  <2>2. r \in List(n) /\ f[l] = x
    BY <1>1, <2>1
  <2>3. Within(r) /\ Has(r) /\ Settled(r, i)
    BY <1>3
  <2> HIDE DEF r, l
  <2>4. /\ x \in List(n)
        /\ \A k \in 1..(l - 1) : x[k] = r[k]
        /\ \A k \in l..n : \E m \in l..n : x[k] = r[m]
        /\ \A m \in l..n : \E k \in l..n : x[k] = r[m]
        /\ \A k \in l..n : Cost[x[l]] <= Cost[x[k]]
    BY <2>1, <2>2, PlaceFilled
  <2> HIDE DEF x
  <2>5. Has(x)
    <3> SUFFICES ASSUME NEW m \in 1..n PROVE \E k \in 1..n : x[k] = ids[m]
      OBVIOUS
    <3>1. PICK k \in 1..n : r[k] = ids[m]
      BY <2>3
    <3>2. CASE k \in 1..(l - 1)
      BY <2>4, <3>1, <3>2
    <3>3. CASE k \in l..n
      <4>1. PICK h \in l..n : x[h] = r[k]
        BY <2>4, <3>3
      <4>2. h \in 1..n
        BY <2>1
      <4> QED BY <3>1, <4>1, <4>2
    <3>4. k \in 1..(l - 1) \/ k \in l..n
      BY <2>1
    <3> QED BY <3>2, <3>3, <3>4
  <2>6. Settled(x, l)
    <3> SUFFICES ASSUME NEW p \in 1..l, NEW q \in p..n PROVE Cost[x[p]] <= Cost[x[q]]
      OBVIOUS
    <3>1. CASE p = l
      BY <2>4, <3>1
    <3>2. CASE p # l
      <4>1. p \in 1..i /\ p \in 1..(l - 1)
        BY <2>1, <3>2
      <4>2. x[p] = r[p]
        BY <2>4, <4>1
      <4>3. \A h \in p..n : Cost[r[p]] <= Cost[r[h]]
        BY <2>3, <4>1
      <4>4. CASE q \in 1..(l - 1)
        BY <2>4, <4>2, <4>3, <4>4
      <4>5. CASE q \in l..n
        <5>1. PICK h \in l..n : x[q] = r[h]
          BY <2>4, <4>5
        <5>2. h \in p..n
          BY <2>1
        <5> QED BY <4>2, <4>3, <5>1, <5>2
      <4>6. q \in 1..(l - 1) \/ q \in l..n
        BY <2>1
      <4> QED BY <4>4, <4>5, <4>6
    <3> QED BY <3>1, <3>2
  <2>7. Within(x)
    <3> SUFFICES ASSUME NEW k \in 1..n PROVE \E m \in 1..n : x[k] = ids[m]
      OBVIOUS
    <3>1. \E h \in 1..n : x[k] = r[h]
      <4>1. CASE k \in 1..(l - 1)
        BY <2>4, <4>1
      <4>2. CASE k \in l..n
        <5>1. PICK h \in l..n : x[k] = r[h]
          BY <2>4, <4>2
        <5>2. h \in 1..n
          BY <2>1
        <5> QED BY <5>1, <5>2
      <4>3. k \in 1..(l - 1) \/ k \in l..n
        BY <2>1
      <4> QED BY <4>1, <4>2, <4>3
    <3> QED BY <2>3, <3>1
  <2> HIDE DEF Within, Has, Settled
  <2>8. l \in P
    BY <2>1, <2>2, <2>5, <2>6, <2>7
  <2> QED BY <2>8 DEF l
<1>4. n \in P
  <2> HIDE DEF P
  <2>1. 0 \in Int /\ n \in Int /\ n \in 0..n
    OBVIOUS
  <2> QED BY <1>2, <1>3, <2>1, IntervalInduction
<1>5. Within(f[n]) /\ Has(f[n]) /\ Settled(f[n], n) /\ f[n] \in List(n)
  BY <1>4
<1>6. \A p \in 1..n, q \in 1..n : p < q => q \in p..n
  OBVIOUS
<1> QED BY <1>1, <1>5, <1>6

(* What the router gives for a task it has to choose for. *)
LEMMA RouteSorted ==
  ASSUME NEW t \in Task, CostAware, Assigned[t] = None, NEW ids \in Routes(t)
  PROVE  /\ ToSet(ids) = Executors /\ Len(ids) = Cardinality(Executors)
         /\ \A i, j \in DOMAIN ids : i < j => Cost[ids[i]] <= Cost[ids[j]]
<1> DEFINE n == Cardinality(Executors)
<1>1. IsFiniteSet(Executors) /\ n \in Nat
  BY AgentAssumption, FS_Subset, FS_CardinalityType
<1>2. PICK list \in SetToSeqs(Executors) : ids = SortByCost(list)
  BY DEF Routes
<1> HIDE DEF n
<1>3. list \in [1..n -> Executors] /\ \A i, j \in 1..n : i # j => list[i] # list[j]
  BY DEF SetToSeqs, n
<1>4. list \in List(n)
  BY <1>3, AgentAssumption DEF List
<1>5. \A a \in Executors : \E m \in 1..n : list[m] = a
  <2>1. list \in Injection(1..n, Executors)
    BY <1>3 DEF Injection, IsInjective
  <2>2. Cardinality(1..n) = Cardinality(Executors)
    <3>1. Cardinality(1..n) = IF 1 > n THEN 0 ELSE n - 1 + 1
      BY <1>1, FS_Interval
    <3> QED BY <1>1, <3>1 DEF n
  <2>3. list \in Surjection(1..n, Executors)
    BY <1>1, <2>1, <2>2, FS_Injection
  <2> QED BY <2>3 DEF Surjection
<1>6. /\ ids \in List(n)
      /\ \A k \in 1..n : \E m \in 1..n : ids[k] = list[m]
      /\ \A m \in 1..n : \E k \in 1..n : ids[k] = list[m]
      /\ \A p \in 1..n, q \in 1..n : p < q => Cost[ids[p]] <= Cost[ids[q]]
  BY <1>1, <1>2, <1>4, SortSorts
<1>7. DOMAIN ids = 1..n
  BY <1>6 DEF List
<1>8. Len(ids) = n
  BY <1>1, <1>6, ListLen
<1>9. ToSet(ids) = {ids[k] : k \in 1..n}
  BY <1>7 DEF ToSet
<1>10. \A k \in 1..n : ids[k] \in Executors
  BY <1>3, <1>6
<1>11. \A a \in Executors : \E k \in 1..n : ids[k] = a
  <2> SUFFICES ASSUME NEW a \in Executors PROVE \E k \in 1..n : ids[k] = a
    OBVIOUS
  <2>1. PICK m \in 1..n : list[m] = a
    BY <1>5
  <2>2. PICK k \in 1..n : ids[k] = list[m]
    BY <1>6
  <2> QED BY <2>1, <2>2
<1>12. ToSet(ids) = Executors
  BY <1>9, <1>10, <1>11
<1> QED BY <1>6, <1>7, <1>8, <1>12 DEF n
----------------------------------------------------------------------------
(* The delay.  The loop of CalculateDelay next to the same loop without    *)
(* a bound: equal as long as it fits, else the least Duration for good.    *)
(* Division: the quotient is the whole part. *)
LEMMA Quotient ==
  ASSUME NEW a \in Nat, NEW d \in Nat \ {0}
  PROVE  /\ a \div d \in Nat
         /\ (a \div d) * d <= a
         /\ a < (a \div d) * d + d
OBVIOUS

LEMMA Times ==
  ASSUME NEW a \in Int, NEW b \in Int, NEW c \in Nat, a <= b
  PROVE  a * c <= b * c
OBVIOUS

(* A factor of one or less makes nothing greater, one or more nothing less. *)
LEMMA Smaller ==
  ASSUME NEW x \in Nat, NEW n \in Nat, NEW d \in Nat \ {0}, n <= d
  PROVE  (x * n) \div d <= x
<1> DEFINE q == (x * n) \div d
<1>1. x * n \in Nat
  OBVIOUS
<1>2. q \in Nat /\ q * d <= x * n
  BY <1>1, Quotient
<1>3. x * n <= x * d
  OBVIOUS
<1> HIDE DEF q
<1>4. ASSUME q > x PROVE FALSE
  <2>1. (x + 1) * d <= q * d
    BY <1>2, <1>4, Times
  <2>2. (x + 1) * d = x * d + d
    OBVIOUS
  <2> QED BY <2>1, <2>2, <1>2, <1>3
<1> QED BY <1>2, <1>4 DEF q

LEMMA Greater ==
  ASSUME NEW x \in Nat, NEW n \in Nat, NEW d \in Nat \ {0}, d <= n
  PROVE  x <= (x * n) \div d
<1> DEFINE q == (x * n) \div d
<1>1. x * n \in Nat
  OBVIOUS
<1>2. q \in Nat /\ x * n < q * d + d
  BY <1>1, Quotient
<1>3. x * d <= x * n
  OBVIOUS
<1> HIDE DEF q
<1>4. ASSUME q < x PROVE FALSE
  <2>1. (q + 1) * d <= x * d
    BY <1>2, <1>4, Times
  <2>2. (q + 1) * d = q * d + d
    BY <1>2
  <2> QED BY <2>1, <2>2, <1>2, <1>3
<1> QED BY <1>2, <1>4 DEF q

Factors == [num : Nat, den : Nat \ {0}]

LEMMA TruncatedIs ==
  ASSUME NEW b \in Factors
  PROVE  /\ \A x \in Int : Truncated(x, b) \in Int
         /\ \A x \in Nat : /\ Truncated(x, b) = (x * b.num) \div b.den
                           /\ Truncated(x, b) \in Nat
<1> DEFINE n == b.num
           d == b.den
<1>1. n \in Nat /\ d \in Nat \ {0}
  BY DEF Factors
<1>2. \A x \in Int : Truncated(x, b) = IF x < 0 THEN -(((-x) * n) \div d) ELSE (x * n) \div d
  BY DEF Truncated
<1> HIDE DEF n, d
<1>3. ASSUME NEW x \in Nat PROVE (x * n) \div d \in Nat
  <2>1. x * n \in Nat
    BY <1>1
  <2> QED BY <1>1, <2>1, Quotient
<1>4. ASSUME NEW x \in Int, x < 0 PROVE Truncated(x, b) \in Int
  <2>1. -x \in Nat
    BY <1>4
  <2>2. ((-x) * n) \div d \in Nat
    <3> DEFINE y == -x
    <3>1. y \in Nat
      BY <2>1
    <3> HIDE DEF y
    <3>2. (y * n) \div d \in Nat
      BY <1>3, <3>1
    <3> QED BY <3>2 DEF y
  <2>3. Truncated(x, b) = -(((-x) * n) \div d)
    BY <1>2, <1>4
  <2> QED BY <2>2, <2>3
<1>5. ASSUME NEW x \in Nat PROVE Truncated(x, b) = (x * n) \div d
  <2>1. x \in Int /\ ~(x < 0)
    OBVIOUS
  <2> QED BY <1>2, <2>1
<1>6. ASSUME NEW x \in Int PROVE Truncated(x, b) \in Int
  <2>1. CASE x < 0
    BY <1>4, <2>1
  <2>2. CASE x >= 0
    <3>1. x \in Nat
      BY <2>2
    <3> QED BY <1>3, <1>5, <3>1
  <2> QED BY <2>1, <2>2
<1> QED BY <1>3, <1>5, <1>6 DEF n, d

LEMMA DelayIs ==
  ASSUME NEW t \in Task, NEW n \in Nat \ {0}, MaxRetries[t] # 0, Policy[t].strategy = "EXPONENTIAL"
  PROVE  \E f \in [1..n -> Int] :
           /\ f[1] = Policy[t].initialDelay
           /\ \A i \in 1..n : i # 1 => f[i] = ToDuration(Truncated(f[i - 1], Policy[t].backoffFactor))
           /\ CalculateDelay(t, n) = Capped(f[n], Policy[t].maxDelay)
<1> DEFINE d == Policy[t].initialDelay
           b == Policy[t].backoffFactor
           Rule(f) == f = [i \in 1..n |-> IF i = 1 THEN d ELSE ToDuration(Truncated(f[i - 1], b))]
           grown == CHOOSE f : Rule(f)
           step == [p \in Int \X Int |-> ToDuration(Truncated(p[1], b))]
<1>1. d \in Int /\ b \in Factors /\ IntMax \in Int
  BY AgentAssumption DEF Factors
<1>2. CalculateDelay(t, n) = Capped(grown[n], Policy[t].maxDelay)
  BY DEF CalculateDelay
<1> HIDE DEF d, b
<1>3. step \in LoopSteps(Int)
  <2>1. ASSUME NEW p \in Int \X Int PROVE ToDuration(Truncated(p[1], b)) \in Int
    <3>1. p[1] \in Int
      OBVIOUS
    <3>2. Truncated(p[1], b) \in Int
      BY <1>1, <3>1, TruncatedIs
    <3> QED BY <1>1, <3>2 DEF ToDuration
  <2> QED BY <2>1 DEF LoopSteps
<1>4. PICK f : LoopRuns(f, Int, 1, n, d, step)
  <2> HIDE DEF step
  <2>1. 1 \in Int /\ n \in Int /\ 1 <= n
    OBVIOUS
  <2> QED BY <1>1, <1>3, <2>1, IntervalRecursion
<1>5. f \in [1..n -> Int] /\ \A i \in 1..n : f[i] = IF i = 1 THEN d ELSE ToDuration(Truncated(f[i - 1], b))
  <2>1. f \in [1..n -> Int] /\ \A i \in 1..n : f[i] = IF i = 1 THEN d ELSE step[<<f[i - 1], i>>]
    BY <1>4 DEF LoopRuns
  <2>2. ASSUME NEW i \in 1..n, i # 1 PROVE step[<<f[i - 1], i>>] = ToDuration(Truncated(f[i - 1], b))
    <3>1. i - 1 \in 1..n /\ i \in Int
      BY <2>2
    <3>2. <<f[i - 1], i>> \in Int \X Int
      BY <2>1, <3>1
    <3> QED BY <3>2
  <2> HIDE DEF step
  <2> QED BY <2>1, <2>2
<1>6. Rule(f)
  BY <1>5
<1>7. Rule(grown)
  <2> HIDE DEF Rule
  <2> QED BY <1>6
<1> HIDE DEF grown
<1>8. grown \in [1..n -> Int]
  <2> DEFINE P == {i \in 1..n : grown[i] \in Int}
  <2>1. 1 \in P
    BY <1>1, <1>7
  <2>2. ASSUME NEW i \in 1..(n - 1), i \in P PROVE i + 1 \in P
    <3>1. i + 1 \in 1..n /\ i + 1 # 1 /\ (i + 1) - 1 = i
      OBVIOUS
    <3>2. grown[i + 1] = ToDuration(Truncated(grown[i], b))
      BY <1>7, <3>1
    <3>3. Truncated(grown[i], b) \in Int
      BY <1>1, <2>2, TruncatedIs
    <3>4. ToDuration(Truncated(grown[i], b)) \in Int
      BY <1>1, <3>3 DEF ToDuration
    <3> QED BY <3>1, <3>2, <3>4
  <2>3. 1 \in Int /\ n \in Int
    OBVIOUS
  <2> HIDE DEF P
  <2>4. \A i \in 1..n : i \in P
    BY <2>1, <2>2, <2>3, IntervalInduction
  <2> QED BY <1>7, <2>4 DEF P
<1>9. 1 \in 1..n
  OBVIOUS
<1> QED BY <1>2, <1>7, <1>8, <1>9 DEF d, b

LEMMA IdealIs ==
  ASSUME NEW t \in Task, NEW n \in Nat \ {0}, Policy[t].strategy = "EXPONENTIAL"
  PROVE  \E f \in [1..n -> Nat] :
           /\ f[1] = Policy[t].initialDelay
           /\ \A i \in 1..n : i # 1 => f[i] = (f[i - 1] * Policy[t].backoffFactor.num) \div Policy[t].backoffFactor.den
           /\ IdealDelay(Policy[t], n) = f[n]
<1> DEFINE d == Policy[t].initialDelay
           num == Policy[t].backoffFactor.num
           den == Policy[t].backoffFactor.den
           Rule(f) == f = [i \in 1..n |-> IF i = 1 THEN d ELSE (f[i - 1] * num) \div den]
           grown == CHOOSE f : Rule(f)
           step == [p \in Nat \X Int |-> (p[1] * num) \div den]
<1>1. d \in Nat /\ num \in Nat /\ den \in Nat \ {0}
  BY AgentAssumption
<1>2. IdealDelay(Policy[t], n) = grown[n]
  BY DEF IdealDelay
<1> HIDE DEF d, num, den
<1>3. step \in LoopSteps(Nat)
  <2>1. ASSUME NEW p \in Nat \X Int PROVE (p[1] * num) \div den \in Nat
    <3>1. p[1] \in Nat
      OBVIOUS
    <3>2. p[1] * num \in Nat
      BY <1>1, <3>1
    <3> QED BY <1>1, <3>2, Quotient
  <2> QED BY <2>1 DEF LoopSteps
<1>4. PICK f : LoopRuns(f, Nat, 1, n, d, step)
  <2> HIDE DEF step
  <2>1. 1 \in Int /\ n \in Int /\ 1 <= n
    OBVIOUS
  <2> QED BY <1>1, <1>3, <2>1, IntervalRecursion
<1>5. f \in [1..n -> Nat] /\ \A i \in 1..n : f[i] = IF i = 1 THEN d ELSE (f[i - 1] * num) \div den
  <2>1. f \in [1..n -> Nat] /\ \A i \in 1..n : f[i] = IF i = 1 THEN d ELSE step[<<f[i - 1], i>>]
    BY <1>4 DEF LoopRuns
  <2>2. ASSUME NEW i \in 1..n, i # 1 PROVE step[<<f[i - 1], i>>] = (f[i - 1] * num) \div den
    <3>1. i - 1 \in 1..n /\ i \in Int
      BY <2>2
    <3>2. <<f[i - 1], i>> \in Nat \X Int
      BY <2>1, <3>1
    <3> QED BY <3>2
  <2> HIDE DEF step
  <2> QED BY <2>1, <2>2
<1>6. Rule(f)
  BY <1>5
<1>7. Rule(grown)
  <2> HIDE DEF Rule
  <2> QED BY <1>6
<1> HIDE DEF grown
<1>8. grown \in [1..n -> Nat]
  <2> DEFINE P == {i \in 1..n : grown[i] \in Nat}
  <2>1. 1 \in P
    BY <1>1, <1>7
  <2>2. ASSUME NEW i \in 1..(n - 1), i \in P PROVE i + 1 \in P
    <3>1. i + 1 \in 1..n /\ i + 1 # 1 /\ (i + 1) - 1 = i
      OBVIOUS
    <3>2. grown[i + 1] = (grown[i] * num) \div den
      BY <1>7, <3>1
    <3>3. (grown[i] * num) \div den \in Nat
      <4>1. grown[i] * num \in Nat
        BY <1>1, <2>2
      <4> QED BY <1>1, <4>1, Quotient
    <3> QED BY <3>1, <3>2, <3>3
  <2>3. 1 \in Int /\ n \in Int
    OBVIOUS
  <2> HIDE DEF P
  <2>4. \A i \in 1..n : i \in P
    BY <2>1, <2>2, <2>3, IntervalInduction
  <2> QED BY <1>7, <2>4 DEF P
<1>9. 1 \in 1..n
  OBVIOUS
<1> QED BY <1>2, <1>7, <1>8, <1>9 DEF d, num, den

(* One multiplication: with M the greatest Duration, x the product without *)
(* a bound and y the one of the code.                                      *)
Tracks(y, x, b) == IF x <= IntMax THEN y = x ELSE y = -IntMax - 1 /\ b.num > b.den

LEMMA Multiplied ==
  ASSUME NEW x \in Nat, NEW y \in Int, NEW b \in Factors, Tracks(y, x, b)
  PROVE  Tracks(ToDuration(Truncated(y, b)), (x * b.num) \div b.den, b)
<1> DEFINE M == IntMax
           n == b.num
           d == b.den
           z == (x * n) \div d
<1>1. M \in Nat /\ n \in Nat /\ d \in Nat \ {0}
  BY AgentAssumption DEF Factors
<1>2. z \in Nat
  <2> HIDE DEF n, d
  <2>1. x * n \in Nat
    BY <1>1
  <2> QED BY <1>1, <2>1, Quotient
<1>3. n <= d => z <= x
  BY <1>1, Smaller
<1>4. n >= d => z >= x
  BY <1>1, Greater
<1>5. CASE x <= M
  <2>1. Truncated(y, b) = z
    BY <1>5, TruncatedIs DEF Tracks
  <2>2. z > M => n > d
    <3> HIDE DEF M, n, d, z
    <3> QED BY <1>1, <1>2, <1>3, <1>5
  <2>3. ToDuration(z) = IF z > M THEN -M - 1 ELSE z
    <3> HIDE DEF z
    <3> QED BY <1>1, <1>2 DEF ToDuration
  <2>4. Tracks(ToDuration(z), z, b)
    <3> HIDE DEF z
    <3>1. z <= M => ToDuration(z) = z
      BY <1>1, <1>2, <2>3
    <3>2. ~(z <= M) => ToDuration(z) = -M - 1
      BY <1>1, <1>2, <2>3
    <3> QED BY <1>1, <1>2, <2>2, <3>1, <3>2 DEF Tracks
  <2> QED BY <2>1, <2>4
<1>6. CASE x > M
  <2>1. y = -M - 1 /\ n > d
    BY <1>1, <1>6 DEF Tracks
  <2>2. z > M
    <3> HIDE DEF M, n, d, z
    <3> QED BY <1>1, <1>2, <1>4, <1>6, <2>1
  <2> DEFINE w == ((M + 1) * n) \div d
  <2>3. Truncated(y, b) = -w
    <3>1. y < 0 /\ -y = M + 1
      BY <1>1, <2>1
    <3>2. Truncated(y, b) = -(((-y) * b.num) \div b.den)
      BY <3>1 DEF Truncated
    <3>3. (-y) * b.num = (M + 1) * b.num
      BY <3>1
    <3> HIDE DEF M
    <3> QED BY <3>2, <3>3
  <2>4. w \in Nat /\ w >= M + 1
    <3> HIDE DEF M, n, d
    <3>1. M + 1 \in Nat /\ (M + 1) * n \in Nat /\ d <= n
      BY <1>1, <2>1
    <3>2. w \in Nat
      BY <1>1, <3>1, Quotient
    <3>3. M + 1 <= w
      BY <1>1, <3>1, Greater
    <3> QED BY <1>1, <3>2, <3>3
  <2> HIDE DEF w
  <2>5. ToDuration(-w) = -M - 1
    <3>1. -w < -M
      BY <1>1, <2>4
    <3> QED BY <1>1, <2>4, <3>1 DEF ToDuration
  <2> HIDE DEF z
  <2> QED BY <1>1, <1>2, <2>1, <2>2, <2>3, <2>5 DEF Tracks
<1> QED BY <1>1, <1>5, <1>6

(* The delay of attempt n is what BackoffCapped says of it. *)
LEMMA DelayMeant ==
  ASSUME NEW t \in Task, NEW n \in Nat \ {0}, MaxRetries[t] # 0, Policy[t].strategy # "IMMEDIATE"
  PROVE  LET ideal == IdealDelay(Policy[t], n)
             max == Policy[t].maxDelay
         IN  IF ideal > IntMax THEN CalculateDelay(t, n) < 0
             ELSE CalculateDelay(t, n) = IF max = 0 \/ ideal < max THEN ideal ELSE max
<1> DEFINE p == Policy[t]
           b == p.backoffFactor
           max == p.maxDelay
<1>1. /\ IntMax \in Nat /\ b \in Factors /\ max \in Nat
      /\ p.initialDelay \in Nat /\ p.initialDelay <= IntMax
      /\ p.strategy \in {"IMMEDIATE", "FIXED", "EXPONENTIAL"}
  BY AgentAssumption DEF Factors
<1>2. ASSUME NEW x \in Nat, NEW y \in Int, Tracks(y, x, b)
      PROVE  IF x > IntMax THEN Capped(y, max) < 0
             ELSE Capped(y, max) = IF max = 0 \/ x < max THEN x ELSE max
  <2> HIDE DEF b, max
  <2> QED BY <1>1, <1>2 DEF Tracks, Capped
<1>3. CASE p.strategy # "EXPONENTIAL"
  <2>1. /\ IdealDelay(p, n) = p.initialDelay
        /\ CalculateDelay(t, n) = Capped(p.initialDelay, max)
    BY <1>3 DEF IdealDelay, CalculateDelay
  <2>2. Tracks(p.initialDelay, p.initialDelay, b)
    BY <1>1 DEF Tracks
  <2> QED BY <1>1, <1>2, <2>1, <2>2
<1>4. CASE p.strategy = "EXPONENTIAL"
  <2>1. PICK f \in [1..n -> Int] :
          /\ f[1] = p.initialDelay
          /\ \A i \in 1..n : i # 1 => f[i] = ToDuration(Truncated(f[i - 1], b))
          /\ CalculateDelay(t, n) = Capped(f[n], max)
    BY <1>4, DelayIs
  <2>2. PICK g \in [1..n -> Nat] :
          /\ g[1] = p.initialDelay
          /\ \A i \in 1..n : i # 1 => g[i] = (g[i - 1] * b.num) \div b.den
          /\ IdealDelay(p, n) = g[n]
    BY <1>4, IdealIs
  <2> DEFINE P == {i \in 1..n : Tracks(f[i], g[i], b)}
  <2>3. 1 \in P
    BY <1>1, <2>1, <2>2 DEF Tracks
  <2> HIDE DEF b, max
  <2>4. ASSUME NEW i \in 1..(n - 1), i \in P PROVE i + 1 \in P
    <3>1. i + 1 \in 1..n /\ i + 1 # 1 /\ (i + 1) - 1 = i /\ i \in 1..n
      OBVIOUS
    <3>2. f[i + 1] = ToDuration(Truncated(f[i], b)) /\ g[i + 1] = (g[i] * b.num) \div b.den
      BY <2>1, <2>2, <3>1
    <3>3. Tracks(ToDuration(Truncated(f[i], b)), (g[i] * b.num) \div b.den, b)
      BY <1>1, <2>4, <3>1, Multiplied
    <3> QED BY <3>1, <3>2, <3>3
  <2>5. Tracks(f[n], g[n], b)
    <3> HIDE DEF P
    <3>1. 1 \in Int /\ n \in Int /\ n \in 1..n
      OBVIOUS
    <3>2. n \in P
      BY <2>3, <2>4, <3>1, IntervalInduction
    <3> QED BY <3>2 DEF P
  <2>6. n \in 1..n
    OBVIOUS
  <2>7. f[n] \in Int /\ g[n] \in Nat
    BY <2>6
  <2> QED BY <1>2, <2>1, <2>2, <2>5, <2>7 DEF max
<1> QED BY <1>3, <1>4
----------------------------------------------------------------------------
(* What the goroutine of a task holds: the list the router gave it, sorted *)
(* from its start on, and in a delay the one of the attempt that failed.   *)

Places == {"waiting", "started", "calling", "answered", "backoff", "completed", "failed"}

TasksTyped ==
  /\ pc \in [Task -> Places]
  /\ attempt \in [Task -> Nat]
  /\ agentIDs = [t \in Task |-> agentIDs[t]]
  /\ delay = [t \in Task |-> delay[t]]

SortedList(t) ==
  CostAware /\ Assigned[t] = None /\ pc[t] # "waiting" =>
    /\ ToSet(agentIDs[t]) = Executors /\ Len(agentIDs[t]) = Cardinality(Executors)
    /\ \A i, j \in DOMAIN agentIDs[t] : i < j => Cost[agentIDs[t][i]] <= Cost[agentIDs[t][j]]

DelaySet(t) ==
  /\ pc[t] \in {"calling", "answered", "backoff"} => attempt[t] # 0
  /\ pc[t] = "backoff" => attempt[t] <= MaxRetries[t] /\ delay[t] = CalculateDelay(t, attempt[t])

TaskInv == TasksTyped /\ \A t \in Task : SortedList(t) /\ DelaySet(t)

LEMMA TasksInitially == ASSUME Init PROVE TaskInv
  BY DEF Init, TaskInv, TasksTyped, Places, SortedList, DelaySet

(* A step of one task changes nothing of another's. *)
LEMMA OneTaskMoves ==
  ASSUME TaskInv, NEW t \in Task, TasksTyped', SortedList(t)', DelaySet(t)',
         \A x \in Task \ {t} : /\ pc'[x] = pc[x] /\ attempt'[x] = attempt[x]
                               /\ agentIDs'[x] = agentIDs[x] /\ delay'[x] = delay[x]
  PROVE  TaskInv'
<1>1. ASSUME NEW x \in Task \ {t} PROVE SortedList(x)' /\ DelaySet(x)'
  <2>1. pc'[x] = pc[x] /\ attempt'[x] = attempt[x] /\ agentIDs'[x] = agentIDs[x] /\ delay'[x] = delay[x]
    OBVIOUS
  <2>2. SortedList(x) /\ DelaySet(x)
    BY DEF TaskInv
  <2> QED BY <2>1, <2>2 DEF SortedList, DelaySet
<1> QED BY <1>1 DEF TaskInv

(* A step that leaves the lists: the task has been started before. *)
LEMMA ListsLeft ==
  ASSUME TaskInv, NEW t \in Task, NEW place \in Places, GoTo(t, place), pc[t] # "waiting",
         agentIDs' = agentIDs
  PROVE  /\ pc' \in [Task -> Places] /\ pc'[t] = place
         /\ \A x \in Task \ {t} : pc'[x] = pc[x]
         /\ SortedList(t)'
<1>1. pc \in [Task -> Places] /\ SortedList(t)
  BY DEF TaskInv, TasksTyped
<1>2. pc' = [pc EXCEPT ![t] = place]
  BY DEF GoTo
<1>3. pc' \in [Task -> Places] /\ pc'[t] = place /\ \A x \in Task \ {t} : pc'[x] = pc[x]
  BY <1>1, <1>2
<1> QED BY <1>1, <1>3 DEF SortedList

LEMMA TaskStepKeeps ==
  ASSUME TaskInv, NEW t \in Task, TaskStep(t)
  PROVE  TaskInv'
<1>1. TasksTyped /\ SortedList(t) /\ DelaySet(t)
  BY DEF TaskInv
<1>2. CASE StartTask(t)
  <2>1. PICK ids \in Routes(t) :
          /\ agentIDs' = [agentIDs EXCEPT ![t] = ids]
          /\ \E place \in {"failed", "started"} : GoTo(t, place)
    BY <1>2 DEF StartTask
  <2>2. attempt' = attempt /\ delay' = delay
    BY <1>2 DEF StartTask
  <2>3. agentIDs' = [x \in Task |-> agentIDs'[x]] /\ agentIDs'[t] = ids
        /\ \A x \in Task \ {t} : agentIDs'[x] = agentIDs[x]
    BY <1>1, <2>1 DEF TasksTyped
  <2>4. /\ pc' \in [Task -> Places] /\ pc'[t] \in {"failed", "started"}
        /\ \A x \in Task \ {t} : pc'[x] = pc[x]
    BY <1>1, <2>1 DEF TasksTyped, GoTo, Places
  <2>5. SortedList(t)'
    BY <2>3, RouteSorted DEF SortedList
  <2>6. DelaySet(t)'
    BY <2>4 DEF DelaySet
  <2>7. TasksTyped'
    BY <1>1, <2>2, <2>3, <2>4 DEF TasksTyped
  <2> QED BY <2>2, <2>3, <2>4, <2>5, <2>6, <2>7, OneTaskMoves
<1>3. CASE BeginAttempt(t)
  <2>1. /\ pc[t] # "waiting" /\ "calling" \in Places /\ GoTo(t, "calling")
        /\ agentIDs' = agentIDs /\ delay' = delay
        /\ attempt' = [attempt EXCEPT ![t] = @ + 1]
    BY <1>3 DEF BeginAttempt, Places
  <2>2. attempt' \in [Task -> Nat] /\ attempt'[t] # 0 /\ \A x \in Task \ {t} : attempt'[x] = attempt[x]
    BY <1>1, <2>1 DEF TasksTyped
  <2>3. /\ pc' \in [Task -> Places] /\ pc'[t] = "calling" /\ SortedList(t)'
        /\ \A x \in Task \ {t} : pc'[x] = pc[x]
    BY <2>1, ListsLeft
  <2>4. DelaySet(t)' /\ TasksTyped'
    BY <1>1, <2>1, <2>2, <2>3 DEF DelaySet, TasksTyped
  <2> QED BY <2>1, <2>2, <2>3, <2>4, OneTaskMoves
<1>4. CASE FallBack(t)
  <2>1. pc' = pc /\ attempt' = attempt /\ agentIDs' = agentIDs /\ delay' = delay
    BY <1>4 DEF FallBack
  <2>2. TasksTyped' /\ SortedList(t)' /\ DelaySet(t)'
    BY <1>1, <2>1 DEF TasksTyped, SortedList, DelaySet
  <2> QED BY <2>1, <2>2, OneTaskMoves
<1>5. CASE AttemptFails(t)
  <2>1. /\ pc[t] \in {"calling", "answered"} /\ attempt[t] # 0
        /\ agentIDs' = agentIDs /\ attempt' = attempt
    BY <1>1, <1>5 DEF AttemptFails, DelaySet
  <2>2. CASE attempt[t] <= MaxRetries[t]
    <3>1. delay' = [delay EXCEPT ![t] = CalculateDelay(t, attempt[t])] /\ GoTo(t, "backoff")
      BY <1>5, <2>2 DEF AttemptFails
    <3>2. /\ delay' = [x \in Task |-> delay'[x]] /\ delay'[t] = CalculateDelay(t, attempt[t])
          /\ \A x \in Task \ {t} : delay'[x] = delay[x]
      BY <1>1, <3>1 DEF TasksTyped
    <3>3. /\ pc' \in [Task -> Places] /\ pc'[t] = "backoff" /\ SortedList(t)'
          /\ \A x \in Task \ {t} : pc'[x] = pc[x]
      <4>1. "backoff" \in Places /\ pc[t] # "waiting"
        BY <2>1 DEF Places
      <4> QED BY <2>1, <3>1, <4>1, ListsLeft
    <3>4. DelaySet(t)' /\ TasksTyped'
      <4>1. CalculateDelay(t, attempt[t])' = CalculateDelay(t, attempt[t])
        BY <2>1 DEF CalculateDelay
      <4> QED BY <1>1, <2>1, <2>2, <3>2, <3>3, <4>1 DEF DelaySet, TasksTyped
    <3> QED BY <2>1, <3>2, <3>3, <3>4, OneTaskMoves
  <2>3. CASE ~ (attempt[t] <= MaxRetries[t])
    <3>1. delay' = delay /\ GoTo(t, "failed")
      BY <1>5, <2>3 DEF AttemptFails
    <3>2. /\ pc' \in [Task -> Places] /\ pc'[t] = "failed" /\ SortedList(t)'
          /\ \A x \in Task \ {t} : pc'[x] = pc[x]
      <4>1. "failed" \in Places /\ pc[t] # "waiting"
        BY <2>1 DEF Places
      <4> QED BY <2>1, <3>1, <4>1, ListsLeft
    <3>3. DelaySet(t)' /\ TasksTyped'
      BY <1>1, <2>1, <3>1, <3>2 DEF DelaySet, TasksTyped
    <3> QED BY <2>1, <3>1, <3>2, <3>3, OneTaskMoves
  <2> QED BY <2>2, <2>3
<1>6. CASE Generate(t) \/ RetryCancelled(t) \/ CompleteTask(t)
  <2>1. PICK place \in {"answered", "failed", "completed"} : GoTo(t, place)
    BY <1>6 DEF Generate, RetryCancelled, CompleteTask
  <2>2. /\ pc[t] \in {"calling", "backoff", "answered"}
        /\ agentIDs' = agentIDs /\ attempt' = attempt /\ delay' = delay
    BY <1>6 DEF Generate, RetryCancelled, CompleteTask
  <2>3. /\ pc' \in [Task -> Places] /\ pc'[t] = place /\ SortedList(t)'
        /\ \A x \in Task \ {t} : pc'[x] = pc[x]
    <3>1. place \in Places /\ pc[t] # "waiting"
      BY <2>2 DEF Places
    <3> QED BY <2>1, <2>2, <3>1, ListsLeft
  <2>4. DelaySet(t)' /\ TasksTyped'
    BY <1>1, <2>2, <2>3 DEF DelaySet, TasksTyped
  <2> QED BY <2>2, <2>3, <2>4, OneTaskMoves
<1> QED BY <1>2, <1>3, <1>4, <1>5, <1>6 DEF TaskStep

LEMMA TasksKept == TaskInv /\ [Next]_vars => TaskInv'
<1> SUFFICES ASSUME TaskInv, [Next]_vars PROVE TaskInv'
  OBVIOUS
<1>1. CASE UNCHANGED taskVars
  BY <1>1 DEF taskVars, TaskInv, TasksTyped, SortedList, DelaySet
<1>2. UNCHANGED vars => UNCHANGED taskVars
  BY DEF vars
<1> QED BY <1>1, <1>2, TaskStepKeeps DEF Next

(* The cost-aware router tries the executors from the cheapest to the      *)
(* dearest, each of them once, whatever their number, their costs and the  *)
(* order in which the registry listed them (router.go:62-103).             *)
THEOREM ExecutorsCheapestFirst == Spec => []CheapestFirst
<1>1. TaskInv => CheapestFirst
  BY DEF TaskInv, SortedList, CheapestFirst
<1> QED BY <1>1, TasksInitially, TasksKept, PTL DEF Spec

(* The delay before a retry is the one the policy describes and never      *)
(* above its maximum, for every attempt, width of a Duration and factor    *)
(* that is a fraction, above one or below, each product losing what is     *)
(* behind the point; what does not fit is no delay at all (retry.go:37-55).*)
(* Negative factors are left out, and so is the rounding of a product to   *)
(* the 53 bits of a float64.                                               *)
THEOREM DelaysAreCapped == Spec => []BackoffCapped
<1>1. TaskInv => BackoffCapped
  <2> SUFFICES ASSUME TaskInv, NEW t \in Task, pc[t] = "backoff", Policy[t].strategy # "IMMEDIATE"
               PROVE  LET ideal == IdealDelay(Policy[t], attempt[t])
                          max == Policy[t].maxDelay
                      IN  IF ideal > IntMax THEN delay[t] < 0
                          ELSE delay[t] = IF max = 0 \/ ideal < max THEN ideal ELSE max
    BY DEF BackoffCapped
  <2>1. attempt[t] \in Nat \ {0} /\ MaxRetries[t] # 0 /\ delay[t] = CalculateDelay(t, attempt[t])
    <3>1. attempt[t] \in Nat /\ MaxRetries[t] \in Nat
      BY AgentAssumption DEF TaskInv, TasksTyped
    <3> QED BY <3>1 DEF TaskInv, DelaySet
  <2> QED BY <2>1, DelayMeant
<1> QED BY <1>1, TasksInitially, TasksKept, PTL DEF Spec
=============================================================================
