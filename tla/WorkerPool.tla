----------------------------- MODULE WorkerPool -----------------------------
(***************************************************************************)
(* The thread pool of the embedded web server (src/jni/civetweb/civetweb.c)*)
(* on which every browser session of the DAMN server runs.  A master       *)
(* thread accepts connections and puts them into the ring ctx->queue       *)
(* (produce_socket); worker threads take them out (consume_socket), serve  *)
(* and close them; mg_stop asks everybody to leave and frees the context.  *)
(*                                                                         *)
(* A step of the model is what a thread does between two points at which   *)
(* another thread can interfere.  thread_mutex is modelled by its owner.   *)
(* A condition variable is the set of the threads asleep on it: a waiter   *)
(* puts itself to sleep and gives the mutex up in one step, a signal takes *)
(* one thread out of the set, and a thread that was taken out must win the *)
(* mutex again.  The test of a wait loop and the wait itself are separate  *)
(* steps, because stop_flag is written without the mutex.                  *)
(***************************************************************************)
EXTENDS Integers, FiniteSets

CONSTANTS
    Workers,      \* the num_threads worker threads
    Flaky,        \* workers whose creation, or first allocation, may fail
    Stuck,        \* workers that may wait in a websocket handler for ever
    Sockets,      \* the connections that clients open
    MGSQLEN,      \* the number of slots of ctx->queue
    NoSocket,     \* INVALID_SOCKET
    Master,       \* the master thread
    Free          \* owner of an unlocked mutex

ASSUME MGSQLENAssumption == MGSQLEN \in Nat \ {0}
ASSUME WorkersAssumption == /\ IsFiniteSet(Workers)
                            /\ Flaky \subseteq Workers /\ Stuck \subseteq Workers
ASSUME NamesAssumption == /\ NoSocket \notin Sockets
                          /\ Master \notin Workers
                          /\ Free \notin Workers \cup {Master}

VARIABLES
    stop_flag,    \* 0 running, 1 asked to stop, 2 the master has left
    queue,        \* the ring of accepted sockets
    sq_head,      \* next slot to fill
    sq_tail,      \* next slot to empty
    num_threads,  \* workers that have not signed off
    owner,        \* who holds thread_mutex
    sq_full,      \* threads asleep until a socket is produced
    sq_empty,     \* threads asleep until a socket is consumed
    thread_cond,  \* threads asleep until a worker signs off
    wpc,          \* where each worker is
    client,       \* conn->client.sock of each worker
    mpc,          \* where the master is
    so,           \* the socket the master is handing over
    accepted,     \* history: sockets returned by accept()
    served,       \* history: sockets served and closed by a worker
    dropped,      \* history: sockets produce_socket did not enqueue
    freed         \* free_context() has run

ring    == <<queue, sq_head, sq_tail>>
conds   == <<sq_full, sq_empty, thread_cond>>
history == <<accepted, served, dropped>>
vars    == <<stop_flag, ring, num_threads, owner, conds, wpc, client, mpc, so,
             history, freed>>

-----------------------------------------------------------------------------
\* Mutant: the ring is indexed one slot short.
SlotShort(i) == i % (IF MGSQLEN = 1 THEN 1 ELSE MGSQLEN - 1)
\* The slot of the ring a running index falls into.
Slot(i) == i % MGSQLEN

\* Mutant: off by one, ">" for ">=".
FullLate == sq_head - sq_tail > MGSQLEN
Full == sq_head - sq_tail >= MGSQLEN
\* Mutant: off by one, the last socket of the ring is not seen.
EmptyEarly == sq_head <= sq_tail + 1
Empty == sq_head = sq_tail

\* Mutant: the signal is forgotten.
SignalLost(c) == {c}
\* pthread_cond_signal: one of the sleepers, if there is any, is released.
Signal(c) == IF c = {} THEN {{}} ELSE {c \ {t} : t \in c}

Init ==
    /\ stop_flag = 0
    /\ queue = [i \in 0..(MGSQLEN - 1) |-> NoSocket]
    /\ sq_head = 0 /\ sq_tail = 0
    /\ num_threads = 0
    /\ owner = Free
    /\ sq_full = {} /\ sq_empty = {} /\ thread_cond = {}
    /\ wpc = [w \in Workers |-> "unborn"]
    /\ client = [w \in Workers |-> NoSocket]
    /\ mpc = "polling"
    /\ so = NoSocket
    /\ accepted = {} /\ served = {} /\ dropped = {}
    /\ freed = FALSE

-----------------------------------------------------------------------------
(* The starter of the server: mg_start, and later mg_stop.                 *)

\* mg_start counts the worker, then creates it; the worker allocates its
\* connection and gives up at once when it cannot.
StartWorker(w) ==
    /\ wpc[w] = "unborn" /\ owner = Free
    /\ num_threads' = num_threads + 1
    /\ \E pc \in {"idle"} \cup (IF w \in Flaky THEN {"leaving"} ELSE {}) :
         wpc' = [wpc EXCEPT ![w] = pc]
    /\ UNCHANGED <<stop_flag, ring, owner, conds, client, mpc, so, history, freed>>

\* The thread could not be created: the count is taken back.
StartFails(w) ==
    /\ wpc[w] = "unborn" /\ owner = Free /\ w \in Flaky
    /\ wpc' = [wpc EXCEPT ![w] = "failed"]
    /\ UNCHANGED <<stop_flag, ring, num_threads, owner, conds, client, mpc, so,
                   history, freed>>

\* mg_stop can only be called once mg_start has returned.
MgStop ==
    /\ stop_flag = 0
    /\ \A w \in Workers : wpc[w] # "unborn"
    /\ stop_flag' = 1
    /\ UNCHANGED <<ring, num_threads, owner, conds, wpc, client, mpc, so,
                   history, freed>>

\* Mutant: mg_stop does not wait for the master.
FreeAtOnce ==
    /\ stop_flag # 0 /\ ~freed
    /\ freed' = TRUE
    /\ UNCHANGED <<stop_flag, ring, num_threads, owner, conds, wpc, client, mpc,
                   so, history>>

\* mg_stop sees stop_flag = 2, joins the master and frees the context.
FreeContext ==
    /\ stop_flag = 2 /\ ~freed
    /\ freed' = TRUE
    /\ UNCHANGED <<stop_flag, ring, num_threads, owner, conds, wpc, client, mpc,
                   so, history>>

-----------------------------------------------------------------------------
(* A worker: worker_thread_run and consume_socket.                         *)

WorkerAt(w, from, to) == wpc[w] = from /\ wpc' = [wpc EXCEPT ![w] = to]

ConsumeLock(w) ==
    /\ WorkerAt(w, "idle", "looking")
    /\ owner = Free /\ owner' = w
    /\ UNCHANGED <<stop_flag, ring, num_threads, conds, client, mpc, so, history,
                   freed>>

\* Mutant: the wait loop does not look at stop_flag.
DozeRegardless(w) ==
    /\ WorkerAt(w, "looking", "dozing")
    /\ Empty
    /\ UNCHANGED <<stop_flag, ring, num_threads, owner, conds, client, mpc, so,
                   history, freed>>

\* The test of the wait loop holds ...
ConsumeDoze(w) ==
    /\ WorkerAt(w, "looking", "dozing")
    /\ Empty /\ stop_flag = 0
    /\ UNCHANGED <<stop_flag, ring, num_threads, owner, conds, client, mpc, so,
                   history, freed>>

\* ... and pthread_cond_wait puts the worker to sleep.
ConsumeWait(w) ==
    /\ WorkerAt(w, "dozing", "asleep")
    /\ owner' = Free
    /\ sq_full' = sq_full \cup {w}
    /\ UNCHANGED <<stop_flag, ring, num_threads, sq_empty, thread_cond, client,
                   mpc, so, history, freed>>

ConsumeWake(w) ==
    /\ WorkerAt(w, "asleep", "looking")
    /\ w \notin sq_full
    /\ owner = Free /\ owner' = w
    /\ UNCHANGED <<stop_flag, ring, num_threads, conds, client, mpc, so, history,
                   freed>>

\* The wait loop is over: copy the oldest socket, if there is one, wrap both
\* indices, tell the master, unlock.
ConsumeTake(w) ==
    /\ WorkerAt(w, "looking", "took")
    /\ ~(Empty /\ stop_flag = 0)
    /\ \/ /\ sq_head > sq_tail
          /\ client' = [client EXCEPT ![w] = queue[Slot(sq_tail)]]
          /\ LET wrap == IF sq_tail + 1 > MGSQLEN THEN MGSQLEN ELSE 0
             IN  /\ sq_tail' = sq_tail + 1 - wrap
                 /\ sq_head' = sq_head - wrap
       \/ /\ ~(sq_head > sq_tail)
          /\ UNCHANGED <<client, sq_tail, sq_head>>
    /\ sq_empty' \in Signal(sq_empty)
    /\ owner' = Free
    /\ UNCHANGED <<stop_flag, queue, num_threads, sq_full, thread_cond, mpc, so,
                   history, freed>>

\* return !ctx->stop_flag, read after the mutex was given up.
ConsumeReturn(w) ==
    /\ WorkerAt(w, "took", IF stop_flag = 0 THEN "serving" ELSE "leaving")
    /\ UNCHANGED <<stop_flag, ring, num_threads, owner, conds, client, mpc, so,
                   history, freed>>

\* process_new_connection and close_connection.
Serve(w) ==
    /\ WorkerAt(w, "serving", "idle")
    /\ client' = [client EXCEPT ![w] = NoSocket]
    /\ served' = served \cup {client[w]}
    /\ UNCHANGED <<stop_flag, ring, num_threads, owner, conds, mpc, so, accepted,
                   dropped, freed>>

\* The worker signs off; after the unlock it does not touch the context.
SignOff(w) ==
    /\ WorkerAt(w, "leaving", "gone")
    /\ owner = Free
    /\ num_threads' = num_threads - 1
    /\ thread_cond' \in Signal(thread_cond)
    /\ UNCHANGED <<stop_flag, ring, owner, sq_full, sq_empty, client, mpc, so,
                   history, freed>>

-----------------------------------------------------------------------------
(* The master: master_thread_run, accept_new_connection, produce_socket.   *)

MasterAt(from, to) == mpc = from /\ mpc' = to

Accept(s) ==
    /\ MasterAt("polling", "produce")
    /\ stop_flag = 0
    /\ s \in Sockets \ accepted
    /\ so' = s
    /\ accepted' = accepted \cup {s}
    /\ UNCHANGED <<stop_flag, ring, num_threads, owner, conds, wpc, client, served,
                   dropped, freed>>

ProduceLock ==
    /\ MasterAt("produce", "looking")
    /\ owner = Free /\ owner' = Master
    /\ UNCHANGED <<stop_flag, ring, num_threads, conds, wpc, client, so, history,
                   freed>>

ProduceDoze ==
    /\ MasterAt("looking", "dozing")
    /\ stop_flag = 0 /\ Full
    /\ UNCHANGED <<stop_flag, ring, num_threads, owner, conds, wpc, client, so,
                   history, freed>>

ProduceWait ==
    /\ MasterAt("dozing", "asleep")
    /\ owner' = Free
    /\ sq_empty' = sq_empty \cup {Master}
    /\ UNCHANGED <<stop_flag, ring, num_threads, sq_full, thread_cond, wpc, client,
                   so, history, freed>>

ProduceWake ==
    /\ MasterAt("asleep", "looking")
    /\ Master \notin sq_empty
    /\ owner = Free /\ owner' = Master
    /\ UNCHANGED <<stop_flag, ring, num_threads, conds, wpc, client, so, history,
                   freed>>

\* The wait loop is over: the socket is enqueued if there is room, otherwise
\* (we are stopping) it is forgotten.
ProducePut ==
    /\ MasterAt("looking", "polling")
    /\ ~(stop_flag = 0 /\ Full)
    /\ \/ /\ ~Full
          /\ queue' = [queue EXCEPT ![Slot(sq_head)] = so]
          /\ sq_head' = sq_head + 1
          /\ UNCHANGED dropped
       \/ /\ Full
          /\ dropped' = dropped \cup {so}
          /\ UNCHANGED <<queue, sq_head>>
    /\ so' = NoSocket
    /\ sq_full' \in Signal(sq_full)
    /\ owner' = Free
    /\ UNCHANGED <<stop_flag, sq_tail, num_threads, sq_empty, thread_cond, wpc,
                   client, accepted, served, freed>>

\* The poll loop ends; the listening sockets are closed and every sleeping
\* worker is woken.  The mutex is not taken.
CloseListeners ==
    /\ MasterAt("polling", "counting")
    /\ stop_flag # 0
    /\ sq_full' = {}
    /\ UNCHANGED <<stop_flag, ring, num_threads, owner, sq_empty, thread_cond, wpc,
                   client, so, history, freed>>

\* while (ctx->num_threads > 0) pthread_cond_wait(...): num_threads changes
\* only under the mutex, so the test and the wait are one step.
CountWait ==
    /\ mpc = "counting" /\ Master \notin thread_cond /\ owner = Free
    /\ num_threads > 0
    /\ thread_cond' = thread_cond \cup {Master}
    /\ UNCHANGED <<stop_flag, ring, num_threads, owner, sq_full, sq_empty, wpc,
                   client, mpc, so, history, freed>>

CountDone ==
    /\ MasterAt("counting", "joining")
    /\ Master \notin thread_cond /\ owner = Free
    /\ ~(num_threads > 0)
    /\ UNCHANGED <<stop_flag, ring, num_threads, owner, conds, wpc, client, so,
                   history, freed>>

\* All workers joined: the last thing the master does is stop_flag = 2.
JoinWorkers ==
    /\ MasterAt("joining", "stopped")
    /\ \A w \in Workers : wpc[w] \in {"gone", "failed"}
    /\ stop_flag' = 2
    /\ UNCHANGED <<ring, num_threads, owner, conds, wpc, client, so, history, freed>>

-----------------------------------------------------------------------------
\* pthread_cond_wait may return without a signal.
SpuriousWakeup ==
    /\ \/ /\ sq_full # {}
          /\ sq_full' \in Signal(sq_full) /\ UNCHANGED <<sq_empty, thread_cond>>
       \/ /\ sq_empty # {}
          /\ sq_empty' = {} /\ UNCHANGED <<sq_full, thread_cond>>
       \/ /\ thread_cond # {}
          /\ thread_cond' = {} /\ UNCHANGED <<sq_full, sq_empty>>
    /\ UNCHANGED <<stop_flag, ring, num_threads, owner, wpc, client, mpc, so,
                   history, freed>>

Worker(w) ==
    \/ ConsumeLock(w) \/ ConsumeDoze(w) \/ ConsumeWait(w) \/ ConsumeWake(w)
    \/ ConsumeTake(w) \/ ConsumeReturn(w) \/ Serve(w) \/ SignOff(w)

MasterNext ==
    \/ \E s \in Sockets : Accept(s)
    \/ ProduceLock \/ ProduceDoze \/ ProduceWait \/ ProduceWake \/ ProducePut
    \/ CloseListeners \/ CountWait \/ CountDone \/ JoinWorkers

Next ==
    \/ \E w \in Workers : StartWorker(w) \/ StartFails(w) \/ Worker(w)
    \/ MasterNext
    \/ MgStop \/ FreeContext
    \/ SpuriousWakeup

Spec == Init /\ [][Next]_vars

(***************************************************************************)
(* Fairness.  A runnable thread runs (weak fairness).  A thread that waits *)
(* for the mutex gets it when it keeps becoming free (strong fairness:     *)
(* Linux futexes wake a waiter at every unlock).  Nothing obliges a        *)
(* connection to end while the server runs: a websocket keeps its worker   *)
(* as long as its tab is open.  After mg_stop, reads fail at once and      *)
(* writes within the 30 s request_timeout, so a service ends, but for that *)
(* of a Stuck worker: the handlers of the websockets wait without a limit  *)
(* for rwlock and for room in a pipe.  Nobody has to call mg_stop, no      *)
(* client has to connect, nothing is hoped for from spurious wakeups.      *)
(***************************************************************************)
Fairness ==
    /\ \A w \in Workers :
         /\ SF_vars(StartWorker(w) \/ StartFails(w))
         /\ SF_vars(ConsumeLock(w)) /\ SF_vars(ConsumeWake(w)) /\ SF_vars(SignOff(w))
         /\ WF_vars(ConsumeDoze(w) \/ ConsumeWait(w) \/ ConsumeTake(w) \/ ConsumeReturn(w))
    /\ \A w \in Workers \ Stuck : WF_vars(stop_flag # 0 /\ Serve(w))
    /\ SF_vars(ProduceLock) /\ SF_vars(ProduceWake)
    /\ SF_vars(CountWait \/ CountDone)
    /\ WF_vars(ProduceDoze \/ ProduceWait \/ ProducePut)
    /\ WF_vars(CloseListeners \/ JoinWorkers)
    /\ WF_vars(FreeContext)

FairSpec == Spec /\ Fairness

-----------------------------------------------------------------------------
TypeOK ==
    /\ stop_flag \in 0..2
    /\ queue \in [0..(MGSQLEN - 1) -> Sockets \cup {NoSocket}]
    /\ sq_tail \in 0..MGSQLEN
    /\ sq_head \in sq_tail..(sq_tail + MGSQLEN)
    /\ num_threads \in 0..Cardinality(Workers)
    /\ owner \in Workers \cup {Master, Free}
    /\ sq_full \subseteq Workers
    /\ sq_empty \subseteq {Master} /\ thread_cond \subseteq {Master}
    /\ wpc \in [Workers -> {"unborn", "failed", "idle", "looking", "dozing",
                            "asleep", "took", "serving", "leaving", "gone"}]
    /\ client \in [Workers -> Sockets \cup {NoSocket}]
    /\ mpc \in {"polling", "produce", "looking", "dozing", "asleep", "counting",
                "joining", "stopped"}
    /\ so \in Sockets \cup {NoSocket}
    /\ accepted \subseteq Sockets /\ served \subseteq Sockets
    /\ dropped \subseteq Sockets
    /\ freed \in BOOLEAN

\* The running indices of the slots that hold a socket.
Window == sq_tail..(sq_head - 1)

\* consume_socket returns true only with a connection of the caller's own: a
\* worker in process_new_connection has a live socket, not the closed one of
\* its previous round.
ServesItsOwn == \A w \in Workers : wpc[w] = "serving" => client[w] # NoSocket

\* free_context runs "All threads exited, no sync is needed": nobody holds
\* or waits for the mutex and condition variables it destroys, and nobody
\* comes back to the memory it returns.
FreedOnlyWhenQuiet ==
    freed => /\ owner = Free /\ sq_full = {} /\ sq_empty = {} /\ thread_cond = {}
             /\ \A w \in Workers : wpc[w] \in {"gone", "failed"}

\* The count the master waits for is exact: once it has seen 0, no worker is
\* inside a connection (or will ever be), so the joins return at once.
CountIsExact ==
    mpc \in {"joining", "stopped"} => \A w \in Workers : wpc[w] \in {"gone", "failed"}

\* Workers that went through their allocation and have not left.
Ready == {w \in Workers : wpc[w] \notin {"unborn", "failed", "leaving", "gone"}}

\* No wake-up is lost: while a socket waits in the ring and the server runs, some
\* worker is not asleep, and the master is asleep only while the ring is full.
NoStall ==
    /\ stop_flag = 0 /\ sq_head > sq_tail /\ Ready # {} => ~(Ready \subseteq sq_full)
    /\ stop_flag = 0 /\ Master \in sq_empty => Full

\* A worker has, or had, connection s.
Taken(s) == s \in served \/ \E w \in Workers : client[w] = s

\* A connection that was accepted gets a worker.  It waits for ever only if the
\* server is stopped first or every worker that was started keeps the connection
\* it has: num_threads open tabs shut out all others, and nothing else does.
AcceptedIsTaken ==
    \A s \in Sockets :
        s \in accepted /\ Ready # {} ~>
            Taken(s) \/ stop_flag # 0 \/ [](\A w \in Ready : wpc[w] = "serving")

\* The pool hands connections to workers first come, first served, as the
\* abstract queue does: the ring with its running indices implements it.
Fifo == INSTANCE SocketFifo WITH
            Capacity <- MGSQLEN,
            pending  <- [i \in 1..(sq_head - sq_tail) |-> queue[Slot(sq_tail + i - 1)]],
            hold     <- client,
            known    <- accepted \ (dropped \cup {so})
ImplementsFifo == Fifo!Spec

\* When the broadcast of the stopping master has left no worker asleep, none is
\* between its test and its wait, and none is caught in a websocket handler,
\* mg_stop returns.
StopsIfAllAwake ==
    (/\ mpc = "counting" /\ sq_full = {}
     /\ \A w \in Workers : wpc[w] # "dozing"
     /\ \A w \in Stuck : wpc[w] # "serving") ~> freed
=============================================================================
