------------------------------- MODULE Locks -------------------------------
(***************************************************************************)
(* The locks of the server, seen from the lock: what every kind of thread  *)
(* acquires and releases, in which order, and the queues in which threads  *)
(* wait.  parking_lot's RwLock does not let a reader overtake a writer     *)
(* that waits, so that a thread can be held up by one that holds nothing.  *)
(* Processor leaves the queues out and assumes that writers enter; here    *)
(* it follows from the queues.  The prices lock, which is only ever        *)
(* taken alone and by ticker threads, is left out.                         *)
(***************************************************************************)
EXTENDS Naturals, Sequences

CONSTANTS Handlers,   \* threads in handle_request
          Streams,    \* threads in start_streaming
          Tickers     \* threads in start_for_quote

Threads == Handlers \cup Streams \cup Tickers
Locks == {"generator", "subscribers", "receivers", "tickers"}

Read(l) == [op |-> "read", lock |-> l]
Write(l) == [op |-> "write", lock |-> l]   \* of a Mutex: lock()
Drop(l) == [op |-> "drop", lock |-> l]

-----------------------------------------------------------------------------
(* What the operations do with the locks.                                  *)

\* Variant: the read guard lives until the end of the function.
AddReceiverKeepsGuard ==
    <<Read("tickers"), Write("receivers"), Drop("receivers"),
      Write("tickers"), Drop("tickers"), Drop("tickers")>>

AddReceiver ==
    <<Read("tickers"), Write("receivers"), Drop("receivers"),
      Drop("tickers"), Write("tickers"), Drop("tickers")>>

RemoveReceiver ==
    <<Read("receivers"), Drop("receivers"), Write("receivers"),
      Drop("receivers"), Write("tickers"), Drop("tickers")>>

\* Variant: the guard of the generator outlives the request.
AddSubscriberKeepsGenerator ==
    <<Write("generator")>> \o AddReceiver
       \o <<Write("subscribers"), Drop("subscribers")>>

AddSubscriber ==
    <<Write("generator")>> \o AddReceiver
       \o <<Drop("generator"), Write("subscribers"), Drop("subscribers")>>

\* A ticker is unknown: add_receiver returns, and both guards go.
RefusedSubscriber ==
    <<Write("generator"), Read("tickers"), Drop("tickers"), Drop("generator")>>

RemoveSubscriber ==
    <<Write("subscribers"), Drop("subscribers"), Write("generator"),
      Drop("generator")>> \o RemoveReceiver

SendQuotes ==
    <<Read("tickers"), Drop("tickers"), Read("receivers"), Drop("receivers")>>

\* Variant: the dead receivers are removed while receivers is still read.
CleanupUnderGuard ==
    <<Read("tickers"), Drop("tickers"), Read("receivers")>>
       \o RemoveReceiver \o <<Drop("receivers")>>

\* The dead receivers are removed after recv_guard is gone.
SendAndCleanup == SendQuotes \o RemoveReceiver

\* A round that finds several dead receivers goes on with one removal for each.
Scripts(th) ==
    CASE th \in Handlers -> {AddSubscriber, RefusedSubscriber}
      [] th \in Streams -> {RemoveSubscriber}
      [] th \in Tickers -> {SendQuotes, SendAndCleanup, RemoveReceiver}

-----------------------------------------------------------------------------
VARIABLES todo,     \* what is left of each thread's operation
          queue,    \* the threads that wait for each lock, in order
          readers,  \* the threads that hold it for reading
          writer    \* the thread that holds it for writing, if any

vars == <<todo, queue, readers, writer>>

Init == /\ todo = [th \in Threads |-> <<>>]
        /\ queue = [l \in Locks |-> <<>>]
        /\ readers = [l \in Locks |-> {}]
        /\ writer = [l \in Locks |-> {}]

\* The next connection, subscription or quote.
Begin(th) ==
    /\ todo[th] = <<>>
    /\ \E s \in Scripts(th) : todo' = [todo EXCEPT ![th] = s]
    /\ UNCHANGED <<queue, readers, writer>>

Waiting(th, l) == \E k \in DOMAIN queue[l] : queue[l][k] = th

Idle(th) == \A l \in Locks : ~Waiting(th, l)

\* A thread asks for a lock and joins the queue.
Ask(th) ==
    /\ todo[th] # <<>> /\ Head(todo[th]).op # "drop" /\ Idle(th)
    /\ queue' = [queue EXCEPT ![Head(todo[th]).lock] = Append(@, th)]
    /\ UNCHANGED <<todo, readers, writer>>

\* The first in the queue enters as soon as the holders allow it.
Enter(th, l) ==
    /\ queue[l] # <<>> /\ Head(queue[l]) = th
    /\ writer[l] = {}
    /\ IF Head(todo[th]).op = "read"
       THEN /\ readers' = [readers EXCEPT ![l] = @ \cup {th}]
            /\ UNCHANGED writer
       ELSE /\ readers[l] = {}
            /\ writer' = [writer EXCEPT ![l] = {th}]
            /\ UNCHANGED readers
    /\ queue' = [queue EXCEPT ![l] = Tail(@)]
    /\ todo' = [todo EXCEPT ![th] = Tail(@)]

Leave(th) ==
    /\ todo[th] # <<>> /\ Head(todo[th]).op = "drop"
    /\ LET l == Head(todo[th]).lock
       IN  /\ readers' = [readers EXCEPT ![l] = @ \ {th}]
           /\ writer' = [writer EXCEPT ![l] = @ \ {th}]
    /\ todo' = [todo EXCEPT ![th] = Tail(@)]
    /\ UNCHANGED queue

Next == \E th \in Threads : \/ Begin(th) \/ Ask(th) \/ Leave(th)
                            \/ \E l \in Locks : Enter(th, l)

\* Threads run; a lock that is free is given to the first that waits.
Fairness == \A th \in Threads : /\ WF_vars(Ask(th)) /\ WF_vars(Leave(th))
                                /\ \A l \in Locks : WF_vars(Enter(th, l))

Spec == Init /\ [][Next]_vars /\ Fairness

-----------------------------------------------------------------------------
\* a waits for b: b holds the lock, or is ahead in its queue.
WaitsFor(a, b) ==
    \E l \in Locks : \E k \in DOMAIN queue[l] :
        /\ queue[l][k] = a
        /\ \/ b \in readers[l] \cup writer[l]
           \/ \E j \in 1..(k - 1) : queue[l][j] = b

\* No circle of threads that wait for one another, however handlers, streaming
\* threads and ticker threads interleave and queue up: in every group of
\* threads there is one that waits for nobody of the group.
NoCircularWait ==
    \A group \in (SUBSET Threads) \ {{}} :
        \E a \in group : \A b \in group : ~WaitsFor(a, b)

\* The next step of th, whichever it is, can be taken: nobody is in its way.
CanGo(th) ==
    /\ todo[th] # <<>>
    /\ \/ Idle(th)
       \/ \E l \in Locks : /\ queue[l] # <<>> /\ Head(queue[l]) = th
                           /\ writer[l] = {}
                           /\ Head(todo[th]).op = "read" \/ readers[l] = {}

\* Whatever an unfinished operation waits for, directly or through others,
\* there is an operation among it that can go on: nobody waits, at the end,
\* for a lock that was never released, or for a thread that waits itself.
NobodyStuck ==
    \A group \in SUBSET Threads :
        /\ \E a \in group : todo[a] # <<>>
        /\ \A a \in group, b \in Threads : WaitsFor(a, b) => b \in group
        => \E a \in group : CanGo(a)

\* Every thread that waits for a lock gets it: the assumption that Processor
\* makes about writers (its strong fairness) follows from the queue.
EveryoneEnters == \A th \in Threads : ~Idle(th) ~> Idle(th)
=============================================================================
