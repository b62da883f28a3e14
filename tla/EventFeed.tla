----------------------------- MODULE EventFeed -----------------------------
(***************************************************************************)
(* What the event bus promises a subscriber when it has one worker: it is  *)
(* shown events that were accepted, of the types it listens to, each once  *)
(* and in the order of acceptance.  Some may be missing: those published   *)
(* before it subscribed, after it left, or while a client was too slow.    *)
(***************************************************************************)
EXTENDS Naturals, Sequences

CONSTANTS
  Event,    \* records with a type
  Handler,  \* subscribers
  Listens   \* the types each of them may subscribe to

VARIABLES accepted, seen

feedVars == <<accepted, seen>>

Init == accepted = <<>> /\ seen = [h \in Handler |-> <<>>]

Accept(e) == accepted' = Append(accepted, e) /\ UNCHANGED seen

Latest(h) == IF seen[h] = <<>> THEN 0 ELSE seen[h][Len(seen[h])]

Show(h) ==
  \E n \in (Latest(h) + 1)..Len(accepted) :
    /\ accepted[n].type \in Listens[h]
    /\ seen' = [seen EXCEPT ![h] = Append(@, n)]
    /\ UNCHANGED accepted

Next == (\E e \in Event : Accept(e)) \/ (\E h \in Handler : Show(h))

Spec == Init /\ [][Next]_feedVars
=============================================================================
