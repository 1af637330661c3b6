------------------------------- MODULE PubSub -------------------------------
(***************************************************************************)
(* What the server promises about subscriptions, without locks, threads    *)
(* or a second map: a subscription starts at one instant for all of its    *)
(* tickers, ends at one instant for all of them, never starts again, and   *)
(* only between the two is a quote of these tickers put into its queue.    *)
(***************************************************************************)
EXTENDS Sequences

CONSTANTS
  Ticker,
  Id,
  Quote    \* records with a field ticker

VARIABLES
  phase,   \* of each id: "new", then "active", then "closed"
  subs,    \* the ids subscribed to each ticker
  queue    \* the quotes waiting to be streamed to each id

Init ==
  /\ phase = [id \in Id |-> "new"]
  /\ subs = [t \in Ticker |-> {}]
  /\ queue = [id \in Id |-> <<>>]

Subscribe(id, ts) ==
  /\ phase[id] = "new"
  /\ phase' = [phase EXCEPT ![id] = "active"]
  /\ subs' = [t \in Ticker |-> IF t \in ts THEN subs[t] \cup {id} ELSE subs[t]]
  /\ UNCHANGED queue

Deliver(id, q) ==
  /\ id \in subs[q.ticker]
  /\ queue' = [queue EXCEPT ![id] = Append(@, q)]
  /\ UNCHANGED <<phase, subs>>

Take(id) ==
  /\ queue[id] # <<>>
  /\ queue' = [queue EXCEPT ![id] = Tail(@)]
  /\ UNCHANGED <<phase, subs>>

Unsubscribe(id) ==
  /\ phase[id] = "active"
  /\ phase' = [phase EXCEPT ![id] = "closed"]
  /\ subs' = [t \in Ticker |-> subs[t] \ {id}]
  /\ UNCHANGED queue

\* The consumer goes away and with it what was queued for it.
Discard(id) ==
  /\ queue' = [queue EXCEPT ![id] = <<>>]
  /\ UNCHANGED <<phase, subs>>

Next ==
  \E id \in Id :
    \/ \E ts \in SUBSET Ticker : Subscribe(id, ts)
    \/ \E q \in Quote : Deliver(id, q)
    \/ Take(id)
    \/ Unsubscribe(id)
    \/ Discard(id)

Spec == Init /\ [][Next]_<<phase, subs, queue>>
=============================================================================
