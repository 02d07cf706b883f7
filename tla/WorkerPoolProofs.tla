-------------------------- MODULE WorkerPoolProofs --------------------------
(***************************************************************************)
(* The safety of the worker pool for every number of workers, every ring   *)
(* length and any connections.  The invariants the runs check are not      *)
(* inductive; IndInv adds who may hold the mutex, who may be asleep, what  *)
(* num_threads counts and what the places of a socket hold.                *)
(***************************************************************************)
EXTENDS WorkerPool, FiniteSetTheorems, SequenceTheorems, TLAPS

\* The program points inside the critical sections.
Inside == {"looking", "dozing"}

\* The mutex is held by exactly the thread that is inside a critical section.
MutexInv ==
    /\ \A w \in Workers : owner = w <=> wpc[w] \in Inside
    /\ owner = Master <=> mpc \in Inside

\* A thread asleep on a condition variable is at that variable's wait.
SleepInv ==
    /\ \A w \in sq_full : wpc[w] = "asleep"
    /\ Master \in sq_empty => mpc = "asleep"
    /\ Master \in thread_cond => mpc = "counting"

\* The workers that were counted and have not signed off.
Counted == {w \in Workers : wpc[w] \notin {"unborn", "failed", "gone"}}

CountInv == num_threads = Cardinality(Counted)

\* A test made under the mutex is still true when the thread goes to sleep.
DozeInv ==
    /\ \A w \in Workers : wpc[w] = "dozing" => Empty
    /\ mpc = "dozing" => Full
    /\ Master \in sq_empty => Full

\* A socket in the ring and a sleeping worker: another worker is awake.
WakeInv ==
    stop_flag = 0 /\ ~Empty /\ sq_full # {} =>
        \E w \in Workers \ sq_full :
            wpc[w] \in {"idle", "looking", "asleep", "took", "serving"}

\* What the phases of the stop imply.
PhaseInv ==
    /\ mpc \in {"counting", "joining", "stopped"} => stop_flag # 0
    /\ mpc \in {"joining", "stopped"} => num_threads = 0
    /\ stop_flag = 2 <=> mpc = "stopped"
    /\ freed => stop_flag = 2
    /\ stop_flag # 0 => \A w \in Workers : wpc[w] # "unborn"

\* Slots in use, the master and the workers hold real connections.
HandInv ==
    /\ \A i \in Window : queue[Slot(i)] \in Sockets
    /\ so \in Sockets <=> mpc \in {"produce", "looking", "dozing", "asleep"}
    /\ \A w \in Workers :
         /\ wpc[w] = "serving" => client[w] \in Sockets
         /\ wpc[w] = "took" /\ stop_flag = 0 => client[w] \in Sockets
         /\ wpc[w] \in {"unborn", "failed", "idle", "looking", "dozing", "asleep"}
              => client[w] = NoSocket

IndInv == /\ TypeOK /\ MutexInv /\ SleepInv /\ CountInv /\ DozeInv /\ WakeInv
          /\ PhaseInv /\ HandInv

-----------------------------------------------------------------------------
(* Facts about the ring and the count.                                     *)

\* A running index falls into a slot of the ring.
LEMMA SlotRange == \A i \in Nat : Slot(i) \in 0..(MGSQLEN - 1)
BY MGSQLENAssumption DEF Slot

\* The indices of the first round are their own slots.
LEMMA SlotFirst == \A i \in 0..(MGSQLEN - 1) : Slot(i) = i
BY MGSQLENAssumption DEF Slot

\* The indices of the second round are one ring length ahead.
LEMMA SlotSecond == \A i \in MGSQLEN..(2 * MGSQLEN - 1) : Slot(i) = i - MGSQLEN
BY MGSQLENAssumption DEF Slot

\* What is counted is a part of Workers.
LEMMA CountedFinite ==
    /\ IsFiniteSet(Counted)
    /\ Cardinality(Counted) \in 0..Cardinality(Workers)
<1>1. Counted \subseteq Workers
  BY DEF Counted
<1>2. IsFiniteSet(Workers)
  BY WorkersAssumption
<1>3. /\ IsFiniteSet(Counted)
      /\ Cardinality(Counted) <= Cardinality(Workers)
  BY <1>1, <1>2, FS_Subset
<1>4. /\ Cardinality(Workers) \in Nat
      /\ Cardinality(Counted) \in Nat
  BY <1>2, <1>3, FS_CardinalityType
<1> QED
  BY <1>3, <1>4

\* The same for the workers counted after a step.
LEMMA CountedFinitePrime == Cardinality(Counted') \in 0..Cardinality(Workers)
<1>1. Counted' \subseteq Workers
  BY DEF Counted
<1>2. IsFiniteSet(Workers)
  BY WorkersAssumption
<1>3. /\ IsFiniteSet(Counted')
      /\ Cardinality(Counted') <= Cardinality(Workers)
  BY <1>1, <1>2, FS_Subset
<1>4. /\ Cardinality(Workers) \in Nat
      /\ Cardinality(Counted') \in Nat
  BY <1>2, <1>3, FS_CardinalityType
<1> QED
  BY <1>3, <1>4

\* A step that does not change who is counted keeps the count.
LEMMA CountKept ==
    ASSUME CountInv, Counted' = Counted, num_threads' = num_threads
    PROVE  CountInv'
BY DEF CountInv
-----------------------------------------------------------------------------
(* One lemma per action: it preserves the inductive invariant.  CountInv   *)
(* is handled by the lemmas above; the other parts are expanded here.      *)

USE NamesAssumption
    DEF IndInv, TypeOK, MutexInv, SleepInv, DozeInv, WakeInv, PhaseInv, HandInv,
        Inside, Empty, Full, Window, WorkerAt, MasterAt, Signal, ring, conds, history

\* A worker is created and counted.
LEMMA StartWorkerStep == ASSUME IndInv, NEW w \in Workers, StartWorker(w) PROVE IndInv'
<1>1. Counted' = Counted \cup {w} /\ w \notin Counted
  BY DEF Counted, StartWorker
<1>2. CountInv'
  BY <1>1, CountedFinite, FS_AddElement DEF CountInv, StartWorker
<1>3. TypeOK' /\ MutexInv' /\ SleepInv' /\ DozeInv'
  BY <1>2, CountedFinitePrime DEF CountInv, StartWorker
<1>4. WakeInv' /\ PhaseInv' /\ HandInv'
  BY DEF StartWorker
<1> QED
  BY <1>2, <1>3, <1>4

\* A worker cannot be created.
LEMMA StartFailsStep == ASSUME IndInv, NEW w \in Workers, StartFails(w) PROVE IndInv'
<1>1. Counted' = Counted
  BY DEF Counted, StartFails
<1>2. CountInv'
  BY <1>1, CountKept DEF StartFails
<1>3. TypeOK' /\ MutexInv' /\ SleepInv' /\ DozeInv'
  BY DEF StartFails
<1>4. WakeInv' /\ PhaseInv' /\ HandInv'
  BY DEF StartFails
<1> QED
  BY <1>2, <1>3, <1>4

\* The server is asked to stop.
LEMMA MgStopStep == ASSUME IndInv, MgStop PROVE IndInv'
<1>1. Counted' = Counted /\ CountInv'
  BY CountKept DEF Counted, MgStop
<1>2. TypeOK' /\ MutexInv' /\ SleepInv' /\ DozeInv'
  BY DEF MgStop
<1>3. WakeInv' /\ PhaseInv' /\ HandInv'
  BY DEF MgStop
<1> QED
  BY <1>1, <1>2, <1>3

\* The context is freed.
LEMMA FreeContextStep == ASSUME IndInv, FreeContext PROVE IndInv'
<1>1. Counted' = Counted /\ CountInv'
  BY CountKept DEF Counted, FreeContext
<1>2. TypeOK' /\ MutexInv' /\ SleepInv' /\ DozeInv'
  BY DEF FreeContext
<1>3. WakeInv' /\ PhaseInv' /\ HandInv'
  BY DEF FreeContext
<1> QED
  BY <1>1, <1>2, <1>3

\* A worker enters consume_socket.
LEMMA ConsumeLockStep == ASSUME IndInv, NEW w \in Workers, ConsumeLock(w) PROVE IndInv'
<1>1. Counted' = Counted
  BY DEF Counted, ConsumeLock
<1>2. CountInv'
  BY <1>1, CountKept DEF ConsumeLock
<1>3. TypeOK' /\ MutexInv' /\ SleepInv' /\ DozeInv'
  BY DEF ConsumeLock
<1>4. WakeInv' /\ PhaseInv' /\ HandInv'
  BY DEF ConsumeLock
<1> QED
  BY <1>2, <1>3, <1>4

\* A worker finds the ring empty.
LEMMA ConsumeDozeStep == ASSUME IndInv, NEW w \in Workers, ConsumeDoze(w) PROVE IndInv'
<1>1. Counted' = Counted
  BY DEF Counted, ConsumeDoze
<1>2. CountInv'
  BY <1>1, CountKept DEF ConsumeDoze
<1>3. TypeOK' /\ MutexInv' /\ SleepInv' /\ DozeInv'
  BY DEF ConsumeDoze
<1>4. WakeInv' /\ PhaseInv' /\ HandInv'
  BY DEF ConsumeDoze
<1> QED
  BY <1>2, <1>3, <1>4

\* A worker falls asleep.
LEMMA ConsumeWaitStep == ASSUME IndInv, NEW w \in Workers, ConsumeWait(w) PROVE IndInv'
<1>1. Counted' = Counted
  BY DEF Counted, ConsumeWait
<1>2. CountInv'
  BY <1>1, CountKept DEF ConsumeWait
<1>3. TypeOK' /\ MutexInv' /\ SleepInv' /\ DozeInv'
  BY DEF ConsumeWait
<1>4. WakeInv' /\ PhaseInv' /\ HandInv'
  BY DEF ConsumeWait
<1> QED
  BY <1>2, <1>3, <1>4

\* A woken worker has won the mutex.
LEMMA ConsumeWakeStep == ASSUME IndInv, NEW w \in Workers, ConsumeWake(w) PROVE IndInv'
<1>1. Counted' = Counted
  BY DEF Counted, ConsumeWake
<1>2. CountInv'
  BY <1>1, CountKept DEF ConsumeWake
<1>3. TypeOK' /\ MutexInv' /\ SleepInv' /\ DozeInv'
  BY DEF ConsumeWake
<1>4. WakeInv' /\ PhaseInv' /\ HandInv'
  BY DEF ConsumeWake
<1> QED
  BY <1>2, <1>3, <1>4

\* A worker takes the oldest socket.
LEMMA ConsumeTakeStep == ASSUME IndInv, NEW w \in Workers, ConsumeTake(w) PROVE IndInv'
<1>1. Counted' = Counted
  BY DEF Counted, ConsumeTake
<1>2. CountInv'
  BY <1>1, CountKept DEF ConsumeTake
<1>3. TypeOK' /\ MutexInv'
  BY MGSQLENAssumption DEF ConsumeTake
<1>4. SleepInv' /\ DozeInv'
  BY DEF ConsumeTake
<1>5. WakeInv' /\ PhaseInv'
  BY DEF ConsumeTake
<1>6. HandInv'
  <2>1. ASSUME sq_head > sq_tail
        PROVE  /\ queue[Slot(sq_tail)] \in Sockets
               /\ \A i \in Window' : queue'[Slot(i)] \in Sockets
    <3>1. queue[Slot(sq_tail)] \in Sockets
      BY <2>1 DEF IndInv, TypeOK, HandInv, Window
    <3>2. \A i \in (sq_tail + 1)..(sq_head - 1) : queue[Slot(i)] \in Sockets
      BY <2>1 DEF IndInv, TypeOK, HandInv, Window
    <3>3. CASE sq_tail + 1 > MGSQLEN
      <4>1. sq_tail = MGSQLEN /\ sq_head <= 2 * MGSQLEN
        BY <3>3, MGSQLENAssumption DEF IndInv, TypeOK
      <4>2. sq_tail' = 1 /\ sq_head' = sq_head - MGSQLEN /\ queue' = queue
        BY <2>1, <3>3, <4>1, MGSQLENAssumption DEF IndInv, TypeOK, ConsumeTake
      <4>3. ASSUME NEW i \in 1..(sq_head - MGSQLEN - 1)
            PROVE  Slot(i) = Slot(i + MGSQLEN)
        BY <4>1, MGSQLENAssumption, SlotFirst, SlotSecond DEF IndInv, TypeOK
      <4> QED
        BY <3>1, <3>2, <4>1, <4>2, <4>3, MGSQLENAssumption
        DEF IndInv, TypeOK, Window
    <3>4. CASE ~(sq_tail + 1 > MGSQLEN)
      <4>1. sq_tail' = sq_tail + 1 /\ sq_head' = sq_head /\ queue' = queue
        BY <2>1, <3>4, MGSQLENAssumption DEF IndInv, TypeOK, ConsumeTake
      <4> QED
        BY <3>1, <3>2, <4>1 DEF Window
    <3> QED
      BY <3>3, <3>4
  <2>2. ASSUME ~(sq_head > sq_tail)
        PROVE  \A i \in Window' : queue'[Slot(i)] \in Sockets
    BY <2>2 DEF IndInv, TypeOK, HandInv, Window, ConsumeTake
  <2> QED
    BY <2>1, <2>2 DEF IndInv, TypeOK, HandInv, Empty, ConsumeTake, WorkerAt
<1> QED
  BY <1>2, <1>3, <1>4, <1>5, <1>6

\* A worker leaves consume_socket.
LEMMA ConsumeReturnStep == ASSUME IndInv, NEW w \in Workers, ConsumeReturn(w) PROVE IndInv'
<1>1. Counted' = Counted
  BY DEF Counted, ConsumeReturn
<1>2. CountInv'
  BY <1>1, CountKept DEF ConsumeReturn
<1>3. TypeOK' /\ MutexInv' /\ SleepInv' /\ DozeInv'
  BY DEF ConsumeReturn
<1>4. WakeInv' /\ PhaseInv' /\ HandInv'
  BY DEF ConsumeReturn
<1> QED
  BY <1>2, <1>3, <1>4

\* A worker serves and closes its socket.
LEMMA ServeStep == ASSUME IndInv, NEW w \in Workers, Serve(w) PROVE IndInv'
<1>1. Counted' = Counted
  BY DEF Counted, Serve
<1>2. CountInv'
  BY <1>1, CountKept DEF Serve
<1>3. TypeOK' /\ MutexInv' /\ SleepInv' /\ DozeInv'
  BY DEF Serve
<1>4. WakeInv' /\ PhaseInv' /\ HandInv'
  BY DEF Serve
<1> QED
  BY <1>2, <1>3, <1>4

\* A worker signs off.
LEMMA SignOffStep == ASSUME IndInv, NEW w \in Workers, SignOff(w) PROVE IndInv'
<1>1. Counted' = Counted \ {w} /\ w \in Counted
  BY DEF Counted, SignOff
<1>2. CountInv'
  BY <1>1, CountedFinite, FS_RemoveElement DEF CountInv, SignOff
<1>3. num_threads # 0
  BY <1>1, CountedFinite, FS_EmptySet DEF CountInv
<1>4. TypeOK' /\ MutexInv' /\ SleepInv' /\ DozeInv'
  BY <1>2, CountedFinitePrime DEF CountInv, SignOff
<1>5. WakeInv' /\ PhaseInv' /\ HandInv'
  BY <1>3 DEF SignOff
<1> QED
  BY <1>2, <1>4, <1>5

\* The master accepts a connection.
LEMMA AcceptStep == ASSUME IndInv, NEW s \in Sockets, Accept(s) PROVE IndInv'
<1>1. Counted' = Counted /\ CountInv'
  BY CountKept DEF Counted, Accept
<1>2. TypeOK' /\ MutexInv' /\ SleepInv' /\ DozeInv'
  BY DEF Accept
<1>3. WakeInv' /\ PhaseInv' /\ HandInv'
  BY DEF Accept
<1> QED
  BY <1>1, <1>2, <1>3

\* The master enters produce_socket.
LEMMA ProduceLockStep == ASSUME IndInv, ProduceLock PROVE IndInv'
<1>1. Counted' = Counted /\ CountInv'
  BY CountKept DEF Counted, ProduceLock
<1>2. TypeOK' /\ MutexInv' /\ SleepInv' /\ DozeInv'
  BY DEF ProduceLock
<1>3. WakeInv' /\ PhaseInv' /\ HandInv'
  BY DEF ProduceLock
<1> QED
  BY <1>1, <1>2, <1>3

\* The master finds the ring full.
LEMMA ProduceDozeStep == ASSUME IndInv, ProduceDoze PROVE IndInv'
<1>1. Counted' = Counted /\ CountInv'
  BY CountKept DEF Counted, ProduceDoze
<1>2. TypeOK' /\ MutexInv' /\ SleepInv' /\ DozeInv'
  BY DEF ProduceDoze
<1>3. WakeInv' /\ PhaseInv' /\ HandInv'
  BY DEF ProduceDoze
<1> QED
  BY <1>1, <1>2, <1>3

\* The master falls asleep.
LEMMA ProduceWaitStep == ASSUME IndInv, ProduceWait PROVE IndInv'
<1>1. Counted' = Counted /\ CountInv'
  BY CountKept DEF Counted, ProduceWait
<1>2. TypeOK' /\ MutexInv' /\ SleepInv' /\ DozeInv'
  BY DEF ProduceWait
<1>3. WakeInv' /\ PhaseInv' /\ HandInv'
  BY DEF ProduceWait
<1> QED
  BY <1>1, <1>2, <1>3

\* The woken master has won the mutex.
LEMMA ProduceWakeStep == ASSUME IndInv, ProduceWake PROVE IndInv'
<1>1. Counted' = Counted /\ CountInv'
  BY CountKept DEF Counted, ProduceWake
<1>2. TypeOK' /\ MutexInv' /\ SleepInv' /\ DozeInv'
  BY DEF ProduceWake
<1>3. WakeInv' /\ PhaseInv' /\ HandInv'
  BY DEF ProduceWake
<1> QED
  BY <1>1, <1>2, <1>3

\* The master enqueues its socket.
LEMMA ProducePutStep == ASSUME IndInv, ProducePut PROVE IndInv'
<1>1. Counted' = Counted /\ CountInv'
  BY CountKept DEF Counted, ProducePut
<1>2. TypeOK'
  <2>1. so \in Sockets /\ sq_head \in Nat /\ Slot(sq_head) \in 0..(MGSQLEN - 1)
    BY SlotRange, MGSQLENAssumption DEF IndInv, TypeOK, HandInv, ProducePut, MasterAt
  <2>2. queue' \in [0..(MGSQLEN - 1) -> Sockets \cup {NoSocket}]
    BY <2>1 DEF IndInv, TypeOK, ProducePut
  <2>3. sq_head' \in sq_tail'..(sq_tail' + MGSQLEN)
    BY MGSQLENAssumption DEF IndInv, TypeOK, ProducePut, Full
  <2> QED
    BY <2>1, <2>2, <2>3 DEF IndInv, TypeOK, ProducePut, MasterAt, Signal
<1>3. MutexInv' /\ SleepInv' /\ DozeInv'
  BY DEF ProducePut
<1>4. WakeInv' /\ PhaseInv'
  BY DEF ProducePut
<1>5. HandInv'
  <2>1. \A i \in Window' : queue'[Slot(i)] \in Sockets
    <3>1. so \in Sockets /\ sq_tail' = sq_tail
      BY DEF IndInv, HandInv, ProducePut, MasterAt
    <3>2. \A i \in Window : Slot(i) \in 0..(MGSQLEN - 1)
      BY SlotRange, MGSQLENAssumption DEF IndInv, TypeOK, Window
    <3>3. CASE ~Full
      <4>1. /\ sq_head' = sq_head + 1
            /\ queue' = [queue EXCEPT ![Slot(sq_head)] = so]
        BY <3>3 DEF ProducePut
      <4>2. /\ Window' = Window \cup {sq_head}
            /\ Slot(sq_head) \in 0..(MGSQLEN - 1)
        <5>1. sq_tail \in Nat /\ sq_head \in Nat /\ sq_tail <= sq_head
          BY MGSQLENAssumption DEF IndInv, TypeOK
        <5>2. Window' = sq_tail..sq_head
          BY <3>1, <4>1, <5>1 DEF Window
        <5>3. ASSUME NEW i
              PROVE  i \in sq_tail..sq_head <=> i \in Window \/ i = sq_head
          BY <5>1 DEF Window
        <5>4. Window' = Window \cup {sq_head}
          BY <5>2, <5>3
        <5> QED
          BY <5>1, <5>4, SlotRange
      <4>3. queue'[Slot(sq_head)] = so
        BY <4>1, <4>2 DEF IndInv, TypeOK
      <4>4. ASSUME NEW i \in Window PROVE queue'[Slot(i)] \in {so, queue[Slot(i)]}
        BY <3>2, <4>1, <4>2 DEF IndInv, TypeOK
      <4> QED
        BY <3>1, <4>2, <4>3, <4>4 DEF IndInv, HandInv
    <3>4. CASE Full
      BY <3>1, <3>4 DEF IndInv, HandInv, Window, ProducePut
    <3> QED
      BY <3>3, <3>4
  <2> QED
    BY <2>1, NamesAssumption DEF IndInv, TypeOK, HandInv, ProducePut, MasterAt
<1> QED
  BY <1>1, <1>2, <1>3, <1>4, <1>5

\* The master stops polling and wakes the workers.
LEMMA CloseListenersStep == ASSUME IndInv, CloseListeners PROVE IndInv'
<1>1. Counted' = Counted /\ CountInv'
  BY CountKept DEF Counted, CloseListeners
<1>2. TypeOK' /\ MutexInv' /\ SleepInv' /\ DozeInv'
  BY DEF CloseListeners
<1>3. WakeInv' /\ PhaseInv' /\ HandInv'
  BY DEF CloseListeners
<1> QED
  BY <1>1, <1>2, <1>3

\* The master waits for the workers to sign off.
LEMMA CountWaitStep == ASSUME IndInv, CountWait PROVE IndInv'
<1>1. Counted' = Counted /\ CountInv'
  BY CountKept DEF Counted, CountWait
<1>2. TypeOK' /\ MutexInv' /\ SleepInv' /\ DozeInv'
  BY DEF CountWait
<1>3. WakeInv' /\ PhaseInv' /\ HandInv'
  BY DEF CountWait
<1> QED
  BY <1>1, <1>2, <1>3

\* The master has seen the count at zero.
LEMMA CountDoneStep == ASSUME IndInv, CountDone PROVE IndInv'
<1>1. Counted' = Counted /\ CountInv'
  BY CountKept DEF Counted, CountDone
<1>2. TypeOK' /\ MutexInv' /\ SleepInv' /\ DozeInv'
  BY DEF CountDone
<1>3. WakeInv' /\ PhaseInv' /\ HandInv'
  BY DEF CountDone
<1> QED
  BY <1>1, <1>2, <1>3

\* The master leaves.
LEMMA JoinWorkersStep == ASSUME IndInv, JoinWorkers PROVE IndInv'
<1>1. Counted' = Counted /\ CountInv'
  BY CountKept DEF Counted, JoinWorkers
<1>2. TypeOK' /\ MutexInv' /\ SleepInv' /\ DozeInv'
  BY DEF JoinWorkers
<1>3. WakeInv' /\ PhaseInv' /\ HandInv'
  BY DEF JoinWorkers
<1> QED
  BY <1>1, <1>2, <1>3

\* A wait returns by itself.
LEMMA SpuriousWakeupStep == ASSUME IndInv, SpuriousWakeup PROVE IndInv'
<1>1. Counted' = Counted /\ CountInv'
  BY CountKept DEF Counted, SpuriousWakeup
<1>2. TypeOK' /\ MutexInv' /\ SleepInv' /\ DozeInv'
  BY DEF SpuriousWakeup
<1>3. WakeInv' /\ PhaseInv' /\ HandInv'
  BY DEF SpuriousWakeup
<1> QED
  BY <1>1, <1>2, <1>3

HIDE NamesAssumption
     DEF IndInv, TypeOK, MutexInv, SleepInv, DozeInv, WakeInv, PhaseInv, HandInv,
         Inside, Empty, Full, Window, WorkerAt, MasterAt, Signal, ring, conds, history

-----------------------------------------------------------------------------
(* The theorems.                                                           *)

\* mg_start leaves the pool in a state of the inductive invariant.
LEMMA InitStep == Init => IndInv
<1> SUFFICES ASSUME Init PROVE IndInv
  OBVIOUS
<1>1. Counted = {}
  BY DEF Init, Counted
<1>2. CountInv
  BY <1>1, FS_EmptySet DEF Init, CountInv
<1>3. TypeOK
  <2>1. 0 \in 0..Cardinality(Workers)
    BY <1>1, CountedFinite, FS_EmptySet
  <2>2. queue \in [0..(MGSQLEN - 1) -> Sockets \cup {NoSocket}]
    BY DEF Init
  <2>3. sq_tail \in 0..MGSQLEN /\ sq_head \in sq_tail..(sq_tail + MGSQLEN)
    BY MGSQLENAssumption DEF Init
  <2>4. /\ wpc \in [Workers -> {"unborn", "failed", "idle", "looking", "dozing",
                                "asleep", "took", "serving", "leaving", "gone"}]
        /\ client \in [Workers -> Sockets \cup {NoSocket}]
    BY DEF Init
  <2>5. freed \in BOOLEAN /\ owner \in Workers \cup {Master, Free}
    BY DEF Init
  <2>6. /\ stop_flag \in 0..2 /\ num_threads \in 0..Cardinality(Workers)
        /\ so \in Sockets \cup {NoSocket}
    BY <2>1 DEF Init
  <2> QED
    BY <2>2, <2>3, <2>4, <2>5, <2>6 DEF Init, TypeOK
<1>4. MutexInv /\ SleepInv /\ DozeInv /\ WakeInv /\ PhaseInv
  BY NamesAssumption DEF Init, MutexInv, SleepInv, DozeInv, WakeInv, PhaseInv, Inside
<1>5. HandInv
  BY NamesAssumption DEF Init, HandInv, Window
<1> QED
  BY <1>2, <1>3, <1>4, <1>5 DEF IndInv

\* What touches none of the pool's variables keeps the invariant.
LEMMA StutterStep == ASSUME IndInv, UNCHANGED vars PROVE IndInv'
BY DEF vars, ring, conds, history, IndInv, TypeOK, MutexInv, SleepInv, CountInv, DozeInv,
       WakeInv, PhaseInv, HandInv, Inside, Counted, Empty, Full, Window, Slot

\* Every step of the workers, the master and the starter keeps the invariant.
LEMMA NextStep == IndInv /\ [Next]_vars => IndInv'
<1> SUFFICES ASSUME IndInv, [Next]_vars PROVE IndInv'
  OBVIOUS
<1>1. CASE \E w \in Workers : StartWorker(w) \/ StartFails(w)
  BY <1>1, StartWorkerStep, StartFailsStep
<1>2. CASE \E w \in Workers : Worker(w)
  BY <1>2, ConsumeLockStep, ConsumeDozeStep, ConsumeWaitStep, ConsumeWakeStep,
     ConsumeTakeStep, ConsumeReturnStep, ServeStep, SignOffStep DEF Worker
<1>3. CASE MasterNext
  BY <1>3, AcceptStep, ProduceLockStep, ProduceDozeStep, ProduceWaitStep,
     ProduceWakeStep, ProducePutStep, CloseListenersStep, CountWaitStep,
     CountDoneStep, JoinWorkersStep DEF MasterNext
<1>4. CASE MgStop \/ FreeContext \/ SpuriousWakeup
  BY <1>4, MgStopStep, FreeContextStep, SpuriousWakeupStep
<1>5. CASE UNCHANGED vars
  BY <1>5, StutterStep
<1> QED
  BY <1>1, <1>2, <1>3, <1>4, <1>5 DEF Next

\* The inductive invariant holds in every reachable state.
THEOREM Invariance == Spec => []IndInv
<1> QED
  BY InitStep, NextStep, PTL DEF Spec

\* Type correctness of the pool: in particular the ring indices stay within
\* their first two rounds and num_threads never goes below 0
\* (assert(ctx->num_threads >= 0) in worker_thread_run).
THEOREM TypeCorrect == Spec => []TypeOK
<1>1. IndInv => TypeOK
  BY DEF IndInv
<1> QED
  BY <1>1, Invariance, PTL

\* consume_socket returns true only with a live connection of its caller.
THEOREM ServesItsOwnTheorem == Spec => []ServesItsOwn
<1>1. IndInv => ServesItsOwn
  BY NamesAssumption DEF IndInv, HandInv, ServesItsOwn
<1> QED
  BY <1>1, Invariance, PTL

\* What CountIsExact says is a part of the invariant.
LEMMA ZeroMeansNobody == IndInv => CountIsExact
<1> SUFFICES ASSUME IndInv, mpc \in {"joining", "stopped"}
             PROVE  \A w \in Workers : wpc[w] \in {"gone", "failed"}
  BY DEF CountIsExact
<1>1. Cardinality(Counted) = 0 /\ \A w \in Workers : wpc[w] # "unborn"
  BY DEF IndInv, PhaseInv, CountInv
<1>2. Counted = {}
  BY <1>1, CountedFinite, FS_EmptySet
<1> QED
  BY <1>1, <1>2 DEF Counted

\* Once the master has seen num_threads = 0, every worker has signed off: the
\* count is exact at every point where the code tests it.
THEOREM CountIsExactTheorem == Spec => []CountIsExact
BY ZeroMeansNobody, Invariance, PTL

\* free_context destroys nothing that a thread still uses.
THEOREM FreedOnlyWhenQuietTheorem == Spec => []FreedOnlyWhenQuiet
<1>1. IndInv => FreedOnlyWhenQuiet
  <2> SUFFICES ASSUME IndInv, freed PROVE FreedOnlyWhenQuiet
    BY DEF FreedOnlyWhenQuiet
  <2>1. mpc = "stopped"
    BY DEF IndInv, PhaseInv
  <2>2. \A w \in Workers : wpc[w] \in {"gone", "failed"}
    BY <2>1, ZeroMeansNobody DEF CountIsExact
  <2>3. owner = Free
    BY <2>1, <2>2 DEF IndInv, TypeOK, MutexInv, Inside
  <2>4. sq_full = {} /\ sq_empty = {} /\ thread_cond = {}
    BY <2>1, <2>2 DEF IndInv, TypeOK, SleepInv
  <2> QED
    BY <2>2, <2>3, <2>4 DEF FreedOnlyWhenQuiet
<1> QED
  BY <1>1, Invariance, PTL

\* No wake-up is lost: neither the workers nor the master sleep on work.
THEOREM NoStallTheorem == Spec => []NoStall
<1>1. IndInv => NoStall
  BY DEF IndInv, TypeOK, WakeInv, DozeInv, NoStall, Ready, Empty
<1> QED
  BY <1>1, Invariance, PTL

-----------------------------------------------------------------------------
(* The pool implements the abstract queue SocketFifo.  Beyond IndInv this   *)
(* needs the history: what the master has in its hand was accepted, and is  *)
(* neither in the ring nor given up.                                        *)

HistoryInv == dropped \subseteq accepted /\ (so \in Sockets => so \in accepted \ dropped)

\* The values of the abstract variables.
Pending == [i \in 1..(sq_head - sq_tail) |-> queue[Slot(sq_tail + i - 1)]]
Known == accepted \ (dropped \cup {so})

\* The bounds of the ring.
LEMMA RingBounds ==
    ASSUME IndInv
    PROVE /\ sq_tail \in Nat /\ sq_head \in Nat /\ MGSQLEN \in Nat
          /\ sq_tail <= sq_head /\ sq_head - sq_tail <= MGSQLEN /\ sq_tail <= MGSQLEN
BY MGSQLENAssumption DEF IndInv, TypeOK

\* Two indices of one window have slots of their own.
LEMMA SlotsDiffer ==
    ASSUME NEW i \in 0..(2 * MGSQLEN - 1), NEW j \in 0..(2 * MGSQLEN - 1),
           i < j, j - i < MGSQLEN
    PROVE Slot(i) # Slot(j)
<1>1. CASE j < MGSQLEN
  BY <1>1, SlotFirst, MGSQLENAssumption
<1>2. CASE i >= MGSQLEN
  BY <1>2, SlotSecond, MGSQLENAssumption
<1>3. CASE i < MGSQLEN /\ j >= MGSQLEN
  BY <1>3, SlotFirst, SlotSecond, MGSQLENAssumption
<1> QED
  BY <1>1, <1>2, <1>3, MGSQLENAssumption

\* A window of a ring is a sequence of sockets.
LEMMA WindowIsSeq ==
    ASSUME NEW q, NEW t \in Nat, NEW h \in Nat, t <= h,
           \A i \in t..(h - 1) : q[Slot(i)] \in Sockets
    PROVE  /\ [i \in 1..(h - t) |-> q[Slot(t + i - 1)]] \in Seq(Sockets)
           /\ Len([i \in 1..(h - t) |-> q[Slot(t + i - 1)]]) = h - t
<1> DEFINE n == h - t
           W == [i \in 1..n |-> q[Slot(t + i - 1)]]
<1>1. n \in Nat
  OBVIOUS
<1>2. ASSUME NEW i \in 1..n PROVE q[Slot(t + i - 1)] \in Sockets
  <2>1. t + i - 1 \in t..(h - 1)
    OBVIOUS
  <2> QED
    BY <2>1
<1>3. W \in [1..n -> Sockets] /\ DOMAIN W = 1..n
  BY <1>2
<1> HIDE DEF W, n
<1>4. W \in Seq(Sockets)
  BY <1>1, <1>3, SeqDef
<1>5. DOMAIN W = 1..Len(W) /\ Len(W) \in Nat
  BY <1>4, LenProperties
<1>6. Len(W) = n
  BY <1>1, <1>3, <1>5
<1> QED
  BY <1>4, <1>6 DEF W, n

\* So are the sockets that wait.
LEMMA PendingIsSeq ==
    ASSUME IndInv
    PROVE Pending \in Seq(Sockets) /\ Len(Pending) = sq_head - sq_tail
BY WindowIsSeq, RingBounds DEF Pending, IndInv, HandInv, Window

\* The same after a step.
LEMMA PendingIsSeqPrime ==
    ASSUME IndInv'
    PROVE Pending' \in Seq(Sockets) /\ Len(Pending') = sq_head' - sq_tail'
<1>1. sq_tail' \in Nat /\ sq_head' \in Nat /\ sq_tail' <= sq_head'
  BY MGSQLENAssumption DEF IndInv, TypeOK
<1>2. \A i \in sq_tail'..(sq_head' - 1) : queue'[Slot(i)] \in Sockets
  BY DEF IndInv, HandInv, Window, Slot
<1>3. Pending' = [i \in 1..(sq_head' - sq_tail') |-> queue'[Slot(sq_tail' + i - 1)]]
  BY DEF Pending, Slot
<1> QED
  BY <1>1, <1>2, <1>3, WindowIsSeq

\* What the abstract queue sees of a step.
Seen == <<ring, client, so, accepted, dropped>>

\* Only four steps of the pool change what the queue sees.
LEMMA SeenSteps ==
    ASSUME [Next]_vars
    PROVE \/ \E s \in Sockets : Accept(s)
          \/ \E w \in Workers : ConsumeTake(w) \/ Serve(w)
          \/ ProducePut
          \/ UNCHANGED Seen
<1> USE DEF Seen, ring, history
<1>1. CASE \E w \in Workers : StartWorker(w) \/ StartFails(w)
  BY <1>1 DEF StartWorker, StartFails
<1>2. CASE \E w \in Workers : Worker(w)
  BY <1>2 DEF Worker, ConsumeLock, ConsumeDoze, ConsumeWait, ConsumeWake, ConsumeReturn, SignOff
<1>3. CASE MasterNext
  BY <1>3 DEF MasterNext, ProduceLock, ProduceDoze, ProduceWait, ProduceWake, CloseListeners,
     CountWait, CountDone, JoinWorkers
<1>4. CASE MgStop \/ FreeContext \/ SpuriousWakeup
  BY <1>4 DEF MgStop, FreeContext, SpuriousWakeup
<1>5. CASE UNCHANGED vars
  BY <1>5 DEF vars
<1> QED
  BY <1>1, <1>2, <1>3, <1>4, <1>5 DEF Next

\* The history is kept by every step.
LEMMA HistoryStep == IndInv /\ HistoryInv /\ [Next]_vars => HistoryInv'
<1> SUFFICES ASSUME IndInv, HistoryInv, [Next]_vars PROVE HistoryInv'
  OBVIOUS
<1> USE DEF HistoryInv
<1>1. CASE \E s \in Sockets : Accept(s)
  BY <1>1 DEF Accept, IndInv, TypeOK
<1>2. CASE \E w \in Workers : ConsumeTake(w) \/ Serve(w)
  BY <1>2 DEF ConsumeTake, Serve, history
<1>3. CASE ProducePut
  BY <1>3, NamesAssumption DEF ProducePut, MasterAt, IndInv, HandInv
<1>4. CASE UNCHANGED Seen
  BY <1>4 DEF Seen
<1> QED
  BY <1>1, <1>2, <1>3, <1>4, SeenSteps

\* One step of the pool is one of the queue, or none.
LEMMA AcceptMaps ==
    ASSUME IndInv, HistoryInv, NEW s \in Sockets, Accept(s)
    PROVE UNCHANGED <<Pending, client, Known>>
<1>1. so \notin Sockets /\ so = NoSocket
  BY DEF Accept, MasterAt, IndInv, TypeOK, HandInv
<1>2. Known' = Known
  BY <1>1, NamesAssumption DEF Accept, Known, IndInv, TypeOK
<1>3. Pending' = Pending
  BY DEF Accept, Pending, ring, Slot
<1> QED
  BY <1>2, <1>3 DEF Accept

\* The master enqueues its socket, or gives it up.
LEMMA PutMaps ==
    ASSUME IndInv, HistoryInv, IndInv', ProducePut
    PROVE \/ \E s \in Sockets : Fifo!Enqueue(s)
          \/ UNCHANGED <<Pending, client, Known>>
<1>1. so \in Sockets /\ so \in accepted \ dropped /\ so' = NoSocket /\ accepted' = accepted
  BY DEF ProducePut, MasterAt, IndInv, HandInv, HistoryInv
<1>2. NoSocket \notin accepted
  BY NamesAssumption DEF IndInv, TypeOK
<1>3. CASE Full
  <2>1. dropped' = dropped \cup {so} /\ UNCHANGED ring /\ UNCHANGED client
    BY <1>3 DEF ProducePut, ring
  <2>2. Known' = Known
    BY <1>1, <1>2, <2>1 DEF Known
  <2>3. Pending' = Pending
    BY <2>1 DEF ring, Pending, Slot
  <2> QED
    BY <2>1, <2>2, <2>3
<1>4. CASE ~Full
  <2>1. /\ queue' = [queue EXCEPT ![Slot(sq_head)] = so]
        /\ sq_head' = sq_head + 1 /\ sq_tail' = sq_tail
        /\ dropped' = dropped /\ client' = client
    BY <1>4 DEF ProducePut
  <2>2. Known' = Known \cup {so} /\ so \notin Known
    BY <1>1, <1>2, <2>1 DEF Known
  <2>3. Pending' = Append(Pending, so)
    <3>1. Pending \in Seq(Sockets) /\ Len(Pending) = sq_head - sq_tail
      BY PendingIsSeq
    <3>2. Pending' \in Seq(Sockets) /\ Len(Pending') = sq_head + 1 - sq_tail
      <4>1. Pending' \in Seq(Sockets) /\ Len(Pending') = sq_head' - sq_tail'
        BY PendingIsSeqPrime
      <4>2. sq_head' - sq_tail' = sq_head + 1 - sq_tail
        BY <2>1, RingBounds
      <4> QED
        BY <4>1, <4>2
    <3>3. /\ Append(Pending, so) \in Seq(Sockets)
          /\ Len(Append(Pending, so)) = sq_head + 1 - sq_tail
          /\ \A i \in 1..(sq_head - sq_tail) : Append(Pending, so)[i] = Pending[i]
          /\ Append(Pending, so)[sq_head - sq_tail + 1] = so
      BY <1>1, <3>1, AppendProperties, RingBounds
    <3>4. ASSUME NEW i \in 1..(sq_head + 1 - sq_tail)
          PROVE  Pending'[i] = Append(Pending, so)[i]
      <4>1. Pending'[i] = queue'[Slot(sq_tail + i - 1)]
        BY <2>1, RingBounds DEF Pending, Slot
      <4>2. Slot(sq_tail + i - 1) \in 0..(MGSQLEN - 1) /\ Slot(sq_head) \in 0..(MGSQLEN - 1)
        BY SlotRange, RingBounds
      <4>3. CASE i = sq_head + 1 - sq_tail
        BY <2>1, <3>3, <4>1, <4>2, <4>3, RingBounds DEF IndInv, TypeOK
      <4>4. CASE i \in 1..(sq_head - sq_tail)
        <5>1. Slot(sq_tail + i - 1) # Slot(sq_head)
          BY <1>4, <4>4, RingBounds, SlotsDiffer DEF Full
        <5>2. Pending'[i] = queue[Slot(sq_tail + i - 1)]
          BY <2>1, <4>1, <4>2, <5>1 DEF IndInv, TypeOK
        <5>3. Pending[i] = queue[Slot(sq_tail + i - 1)]
          BY <4>4 DEF Pending
        <5> QED
          BY <3>3, <4>4, <5>2, <5>3
      <4>5. i = sq_head + 1 - sq_tail \/ i \in 1..(sq_head - sq_tail)
        BY RingBounds
      <4> QED
        BY <4>3, <4>4, <4>5
    <3> QED
      BY <3>2, <3>3, <3>4, SeqEqual
  <2>4. Len(Pending) < MGSQLEN
    BY <1>4, PendingIsSeq, RingBounds DEF Full
  <2> QED
    BY <1>1, <2>1, <2>2, <2>3, <2>4 DEF Fifo!Enqueue, Pending, Known
<1> QED
  BY <1>3, <1>4

\* A worker dequeues the oldest socket, around the end of the ring too, or finds none.
LEMMA TakeMaps ==
    ASSUME IndInv, HistoryInv, IndInv', NEW w \in Workers, ConsumeTake(w)
    PROVE Fifo!Dequeue(w) \/ UNCHANGED <<Pending, client, Known>>
<1>1. Known' = Known
  BY DEF ConsumeTake, Known, history
<1>2. CASE ~(sq_head > sq_tail)
  <2>1. UNCHANGED <<queue, sq_head, sq_tail, client>>
    BY <1>2 DEF ConsumeTake
  <2>2. Pending' = Pending
    BY <2>1 DEF Pending, Slot
  <2> QED
    BY <1>1, <2>1, <2>2
<1>3. CASE sq_head > sq_tail
  <2> DEFINE wrap == IF sq_tail + 1 > MGSQLEN THEN MGSQLEN ELSE 0
  <2>1. /\ client' = [client EXCEPT ![w] = queue[Slot(sq_tail)]] /\ queue' = queue
        /\ sq_tail' = sq_tail + 1 - wrap /\ sq_head' = sq_head - wrap
    BY <1>3 DEF ConsumeTake
  <2>2. client[w] = NoSocket
    BY DEF ConsumeTake, WorkerAt, IndInv, HandInv
  <2>3. Pending \in Seq(Sockets) /\ Len(Pending) = sq_head - sq_tail
    BY PendingIsSeq
  <2>4. Pending # <<>> /\ Head(Pending) = queue[Slot(sq_tail)]
    <3>1. Pending # <<>>
      BY <1>3, <2>3, RingBounds, EmptySeq
    <3>2. Head(Pending) = Pending[1]
      BY <2>3, <3>1
    <3>3. 1 \in 1..(sq_head - sq_tail) /\ sq_tail + 1 - 1 = sq_tail
      BY <1>3, RingBounds
    <3> QED
      BY <3>1, <3>2, <3>3 DEF Pending
  <2>5. Pending' = Tail(Pending)
    <3>1. Pending' \in Seq(Sockets) /\ Len(Pending') = sq_head - sq_tail - 1
      <4>1. Pending' \in Seq(Sockets) /\ Len(Pending') = sq_head' - sq_tail'
        BY PendingIsSeqPrime
      <4>2. sq_head' - sq_tail' = sq_head - sq_tail - 1
        BY <2>1, RingBounds
      <4> QED
        BY <4>1, <4>2
    <3>2. /\ Tail(Pending) \in Seq(Sockets) /\ Len(Tail(Pending)) = sq_head - sq_tail - 1
          /\ \A i \in 1..(sq_head - sq_tail - 1) : Tail(Pending)[i] = Pending[i + 1]
      BY <2>3, <2>4, HeadTailProperties
    <3>3. ASSUME NEW i \in 1..(sq_head - sq_tail - 1)
          PROVE  Pending'[i] = Tail(Pending)[i]
      <4>1. Pending[i + 1] = queue[Slot(sq_tail + i)]
        <5>1. i + 1 \in 1..(sq_head - sq_tail) /\ sq_tail + (i + 1) - 1 = sq_tail + i
          BY RingBounds
        <5> QED
          BY <5>1 DEF Pending
      <4>2. Pending'[i] = queue[Slot(sq_tail + 1 - wrap + i - 1)]
        <5>1. i \in 1..(sq_head' - sq_tail')
          BY <2>1, RingBounds
        <5> QED
          BY <2>1, <5>1 DEF Pending, Slot
      <4>3. Slot(sq_tail + 1 - wrap + i - 1) = Slot(sq_tail + i)
        <5>1. CASE sq_tail + 1 > MGSQLEN
          <6>1. sq_tail = MGSQLEN /\ wrap = MGSQLEN /\ i \in 1..(MGSQLEN - 1)
            BY <5>1, RingBounds
          <6>2. Slot(sq_tail + i) = i
            BY <6>1, SlotSecond, MGSQLENAssumption
          <6>3. Slot(sq_tail + 1 - wrap + i - 1) = i
            BY <6>1, SlotFirst, MGSQLENAssumption
          <6> QED
            BY <6>2, <6>3
        <5>2. CASE ~(sq_tail + 1 > MGSQLEN)
          <6>1. wrap = 0 /\ sq_tail + 1 - wrap + i - 1 = sq_tail + i
            BY <5>2, RingBounds
          <6> QED
            BY <6>1
        <5> QED
          BY <5>1, <5>2
      <4> QED
        BY <3>2, <4>1, <4>2, <4>3
    <3> QED
      BY <3>1, <3>2, <3>3, SeqEqual
  <2> QED
    BY <1>1, <2>1, <2>2, <2>4, <2>5 DEF Fifo!Dequeue, Pending, Known
<1> QED
  BY <1>2, <1>3

\* A worker releases its socket.
LEMMA ServeMaps ==
    ASSUME IndInv, HistoryInv, NEW w \in Workers, Serve(w)
    PROVE Fifo!Release(w)
<1>1. client[w] # NoSocket /\ client' = [client EXCEPT ![w] = NoSocket]
  BY NamesAssumption DEF Serve, WorkerAt, IndInv, HandInv
<1>2. Pending' = Pending /\ Known' = Known
  BY DEF Serve, ring, Pending, Known, Slot
<1> QED
  BY <1>1, <1>2 DEF Fifo!Release, Pending, Known

\* Every step of the pool is a step of the queue or leaves it alone.
LEMMA StepMaps ==
    IndInv /\ HistoryInv /\ IndInv' /\ [Next]_vars => [Fifo!Next]_<<Pending, client, Known>>
<1> SUFFICES ASSUME IndInv, HistoryInv, IndInv', [Next]_vars
             PROVE  Fifo!Next \/ UNCHANGED <<Pending, client, Known>>
  OBVIOUS
<1>1. CASE \E s \in Sockets : Accept(s)
  BY <1>1, AcceptMaps
<1>2. CASE \E w \in Workers : ConsumeTake(w) \/ Serve(w)
  BY <1>2, TakeMaps, ServeMaps DEF Fifo!Next
<1>3. CASE ProducePut
  BY <1>3, PutMaps DEF Fifo!Next
<1>4. CASE UNCHANGED Seen
  BY <1>4 DEF Seen, ring, Pending, Known, Slot
<1> QED
  BY <1>1, <1>2, <1>3, <1>4, SeenSteps

\* The started pool is an empty queue.
LEMMA InitMaps == Init => Fifo!Init /\ HistoryInv
<1> SUFFICES ASSUME Init PROVE Fifo!Init /\ HistoryInv
  OBVIOUS
<1>1. Pending = <<>>
  BY DEF Init, Pending
<1>2. Known = {}
  BY DEF Init, Known
<1> QED
  BY <1>1, <1>2, NamesAssumption DEF Init, HistoryInv, Fifo!Init, Pending, Known

\* For every number of workers and every length of the ring: accepted
\* connections go to the workers first come, first served, each to one worker
\* and once, through the wrap of the indices, the waits and the stop.
THEOREM ImplementsFifoTheorem == Spec => ImplementsFifo
<1>1. Spec => []HistoryInv
  BY Invariance, InitMaps, HistoryStep, PTL DEF Spec
<1>2. Spec => [](IndInv /\ HistoryInv)
  BY <1>1, Invariance, PTL
<1> QED
  BY <1>2, Invariance, InitMaps, StepMaps, NextStep, PTL DEF Spec, ImplementsFifo, Fifo!Spec, Pending, Known
=============================================================================
