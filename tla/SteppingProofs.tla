-------------------------- MODULE SteppingProofs --------------------------
(***************************************************************************)
(* For any number of app threads and any depth of hooked calls: what a     *)
(* command of one tab wakes or stops never stops a thread whose own tab    *)
(* has not asked for it.                                                   *)
(*                                                                         *)
(* A thread reads STEPPING at the gate, without the monitor, and waits     *)
(* later: the invariant has to remember, for every thread between the two, *)
(* that its tab was told.  That a thread in a hook has a live listener     *)
(* rests on the unsynchronized map: entries get lost, but none appears for *)
(* a listener that has ended.                                              *)
(***************************************************************************)
EXTENDS Stepping, TLAPS

\* A stepping thread, and one that has passed the test of STEPPING, was told.
ToldInv ==
    \A t \in Threads \ {Main} :
        STEPPING[t] \/ pc[t] \in {"initwait", "monitor", "waiting"} => t \in told

\* A thread of the map has a listener that goes on, unless it is dead itself.
MapInv == \A t \in threads : listener[t] = "on" \/ pc[t] = "dead"

\* Listeners end after their threads only.
EndInv == \A t \in Threads : listener[t] \in {"ending", "over"} => pc[t] = "dead"

IndInv == TypeOK /\ ToldInv /\ MapInv /\ EndInv

\* Where a thread may be.
PCs == {"connecting", "hooking", "app", "putting", "reputting", "init",
        "initwait", "gate", "monitor", "waiting", "notified", "dead"}

USE ThreadsAssumption, DepthAssumption
    DEF PCs, Goto, NewListener, Writing, WriteMap, Alive, Wake, Waiting, NotifyAll, Notify,
        Listening, fields

-----------------------------------------------------------------------------
(* One lemma for each action.                                              *)

\* The main thread has a tab.
LEMMA OpenSiteStep == ASSUME IndInv, OpenSite PROVE IndInv'
<1>1. TypeOK'
  BY DEF IndInv, TypeOK, MapInv, EndInv, OpenSite
<1>2. ToldInv'
  BY DEF IndInv, TypeOK, ToldInv, OpenSite
<1>3. MapInv' /\ EndInv'
  BY DEF IndInv, TypeOK, MapInv, EndInv, OpenSite
<1> QED
  BY <1>1, <1>2, <1>3 DEF IndInv

\* The hooks are set.
LEMMA HookDoneStep == ASSUME IndInv, HookDone PROVE IndInv'
<1>1. TypeOK'
  BY DEF IndInv, TypeOK, MapInv, EndInv, HookDone
<1>2. ToldInv'
  BY DEF IndInv, TypeOK, ToldInv, HookDone
<1>3. MapInv' /\ EndInv'
  BY DEF IndInv, TypeOK, MapInv, EndInv, HookDone
<1> QED
  BY <1>1, <1>2, <1>3 DEF IndInv

\* A thread enters a hooked method.
LEMMA BeforeStep == ASSUME IndInv, NEW t \in Threads, Before(t) PROVE IndInv'
<1>a. depth' \in [Threads -> 0..MaxDepth]
  BY DEF IndInv, TypeOK, Before
<1>b. pc' \in [Threads -> PCs] /\ listener' \in [Threads -> {"none", "on", "ending", "over"}]
  BY DEF IndInv, TypeOK, Before
<1>c. STEPPING' \in [Threads -> BOOLEAN] /\ first' \in [Threads -> BOOLEAN]
  BY DEF IndInv, TypeOK, Before
<1>d. \A u \in Threads :
        pc'[u] \notin {"connecting", "hooking", "app", "dead"} => listener'[u] = "on"
  BY DEF IndInv, TypeOK, MapInv, EndInv, Before
<1>1. TypeOK'
  BY <1>a, <1>b, <1>c, <1>d DEF IndInv, TypeOK, Before
<1>2. ToldInv'
  BY DEF IndInv, TypeOK, ToldInv, Before
<1>3. MapInv' /\ EndInv'
  BY DEF IndInv, TypeOK, MapInv, EndInv, Before
<1> QED
  BY <1>1, <1>2, <1>3 DEF IndInv

\* A thread leaves a hooked method.
LEMMA AfterStep == ASSUME IndInv, NEW t \in Threads, After(t) PROVE IndInv'
<1>a. depth' \in [Threads -> 0..MaxDepth]
  BY DEF IndInv, TypeOK, After
<1>b. pc' \in [Threads -> PCs] /\ listener' \in [Threads -> {"none", "on", "ending", "over"}]
  BY DEF IndInv, TypeOK, After
<1>c. STEPPING' \in [Threads -> BOOLEAN] /\ first' \in [Threads -> BOOLEAN]
  BY DEF IndInv, TypeOK, After
<1>d. \A u \in Threads :
        pc'[u] \notin {"connecting", "hooking", "app", "dead"} => listener'[u] = "on"
  BY DEF IndInv, TypeOK, MapInv, EndInv, After
<1>1. TypeOK'
  BY <1>a, <1>b, <1>c, <1>d DEF IndInv, TypeOK, After
<1>2. ToldInv'
  BY DEF IndInv, TypeOK, ToldInv, After
<1>3. MapInv' /\ EndInv'
  BY DEF IndInv, TypeOK, MapInv, EndInv, After
<1> QED
  BY <1>1, <1>2, <1>3 DEF IndInv

\* A thread has put its listener into the map.
LEMMA PutStep == ASSUME IndInv, NEW t \in Threads, Put(t) PROVE IndInv'
<1>1. TypeOK'
  BY DEF IndInv, TypeOK, MapInv, EndInv, Put
<1>2. ToldInv'
  BY DEF IndInv, TypeOK, ToldInv, Put
<1>3. MapInv' /\ EndInv'
  BY DEF IndInv, TypeOK, MapInv, EndInv, Put
<1> QED
  BY <1>1, <1>2, <1>3 DEF IndInv

\* A thread tests init_done.
LEMMA CheckInitStep == ASSUME IndInv, NEW t \in Threads, CheckInit(t) PROVE IndInv'
<1>1. TypeOK'
  BY DEF IndInv, TypeOK, MapInv, EndInv, CheckInit
<1>2. ToldInv'
  BY DEF IndInv, TypeOK, ToldInv, CheckInit
<1>3. MapInv' /\ EndInv'
  BY DEF IndInv, TypeOK, MapInv, EndInv, CheckInit
<1> QED
  BY <1>1, <1>2, <1>3 DEF IndInv

\* A thread tests STEPPING.
LEMMA GateStep == ASSUME IndInv, NEW t \in Threads, Gate(t) PROVE IndInv'
<1>1. TypeOK'
  BY DEF IndInv, TypeOK, MapInv, EndInv, Gate
<1>2. ToldInv'
  BY DEF IndInv, TypeOK, ToldInv, Gate
<1>3. MapInv' /\ EndInv'
  BY DEF IndInv, TypeOK, MapInv, EndInv, Gate
<1> QED
  BY <1>1, <1>2, <1>3 DEF IndInv

\* A thread waits for a command, or the first time does not.
LEMMA WaitForNextStepStep == ASSUME IndInv, NEW t \in Threads, WaitForNextStep(t) PROVE IndInv'
<1>1. TypeOK'
  BY DEF IndInv, TypeOK, MapInv, EndInv, WaitForNextStep
<1>2. ToldInv'
  BY DEF IndInv, TypeOK, ToldInv, WaitForNextStep
<1>3. MapInv' /\ EndInv'
  BY DEF IndInv, TypeOK, MapInv, EndInv, WaitForNextStep
<1> QED
  BY <1>1, <1>2, <1>3 DEF IndInv

\* A notified thread goes on.
LEMMA ResumeStep == ASSUME IndInv, NEW t \in Threads, Resume(t) PROVE IndInv'
<1>1. TypeOK'
  BY DEF IndInv, TypeOK, MapInv, EndInv, Resume
<1>2. ToldInv'
  BY DEF IndInv, TypeOK, ToldInv, Resume
<1>3. MapInv' /\ EndInv'
  BY DEF IndInv, TypeOK, MapInv, EndInv, Resume
<1> QED
  BY <1>1, <1>2, <1>3 DEF IndInv

\* A waiting thread is interrupted.
LEMMA InterruptStep == ASSUME IndInv, NEW t \in Threads, Interrupt(t) PROVE IndInv'
<1>1. TypeOK'
  BY DEF IndInv, TypeOK, MapInv, EndInv, Interrupt
<1>2. ToldInv'
  BY DEF IndInv, TypeOK, ToldInv, Interrupt
<1>3. MapInv' /\ EndInv'
  BY DEF IndInv, TypeOK, MapInv, EndInv, Interrupt
<1> QED
  BY <1>1, <1>2, <1>3 DEF IndInv

\* A thread ends.
LEMMA ThreadEndsStep == ASSUME IndInv, NEW t \in Threads, ThreadEnds(t) PROVE IndInv'
<1>1. TypeOK'
  BY DEF IndInv, TypeOK, MapInv, EndInv, ThreadEnds
<1>2. ToldInv'
  BY DEF IndInv, TypeOK, ToldInv, ThreadEnds
<1>3. MapInv' /\ EndInv'
  BY DEF IndInv, TypeOK, MapInv, EndInv, ThreadEnds
<1> QED
  BY <1>1, <1>2, <1>3 DEF IndInv

\* A thread is joined.
LEMMA JoinStep == ASSUME IndInv, NEW t \in Threads, Join(t) PROVE IndInv'
<1>1. TypeOK'
  BY DEF IndInv, TypeOK, MapInv, EndInv, Join
<1>2. ToldInv'
  BY DEF IndInv, TypeOK, ToldInv, Join
<1>3. MapInv' /\ EndInv'
  BY DEF IndInv, TypeOK, MapInv, EndInv, Join
<1> QED
  BY <1>1, <1>2, <1>3 DEF IndInv

\* A play command.
LEMMA PlayStep == ASSUME IndInv, NEW t \in Threads, Play(t) PROVE IndInv'
<1>1. TypeOK'
  BY DEF IndInv, TypeOK, MapInv, EndInv, Play
<1>2. ToldInv'
  BY DEF IndInv, TypeOK, ToldInv, Play
<1>3. MapInv' /\ EndInv'
  BY DEF IndInv, TypeOK, MapInv, EndInv, Play
<1> QED
  BY <1>1, <1>2, <1>3 DEF IndInv

\* A pause or step command.
LEMMA PauseOrStepStep == ASSUME IndInv, NEW t \in Threads, PauseOrStep(t) PROVE IndInv'
<1>1. TypeOK'
  BY DEF IndInv, TypeOK, MapInv, EndInv, PauseOrStep
<1>2. ToldInv'
  BY DEF IndInv, TypeOK, ToldInv, PauseOrStep
<1>3. MapInv' /\ EndInv'
  BY DEF IndInv, TypeOK, MapInv, EndInv, PauseOrStep
<1> QED
  BY <1>1, <1>2, <1>3 DEF IndInv

\* A wait returns by itself.
LEMMA SpuriousWakeupStep == ASSUME IndInv, NEW t \in Threads, SpuriousWakeup(t) PROVE IndInv'
<1>1. TypeOK'
  BY DEF IndInv, TypeOK, MapInv, EndInv, SpuriousWakeup
<1>2. ToldInv'
  BY DEF IndInv, TypeOK, ToldInv, SpuriousWakeup
<1>3. MapInv' /\ EndInv'
  BY DEF IndInv, TypeOK, MapInv, EndInv, SpuriousWakeup
<1> QED
  BY <1>1, <1>2, <1>3 DEF IndInv

-----------------------------------------------------------------------------
(* The theorems.                                                           *)

\* The app starts in a state of the invariant.
LEMMA InitStep == Init => IndInv
<1> SUFFICES ASSUME Init PROVE IndInv
  OBVIOUS
<1>a. pc \in [Threads -> PCs] /\ depth \in [Threads -> 0..MaxDepth]
  BY DEF Init
<1>b. /\ STEPPING \in [Threads -> BOOLEAN] /\ first \in [Threads -> BOOLEAN]
      /\ listener \in [Threads -> {"none", "on", "ending", "over"}]
  BY DEF Init
<1>1. TypeOK
  BY <1>a, <1>b DEF Init, TypeOK
<1>2. ToldInv /\ MapInv /\ EndInv
  BY DEF Init, ToldInv, MapInv, EndInv
<1> QED
  BY <1>1, <1>2 DEF IndInv

\* What touches no variable keeps it.
LEMMA StutterStep == ASSUME IndInv, UNCHANGED vars PROVE IndInv'
BY DEF vars, IndInv, TypeOK, ToldInv, MapInv, EndInv

\* Every step keeps it.
LEMMA NextStep == IndInv /\ [Next]_vars => IndInv'
<1> SUFFICES ASSUME IndInv, [Next]_vars PROVE IndInv'
  OBVIOUS
<1>1. CASE OpenSite \/ HookDone
  BY <1>1, OpenSiteStep, HookDoneStep
<1>2. CASE \E t \in Threads : Hooked(t)
  BY <1>2, BeforeStep, AfterStep, PutStep, CheckInitStep, GateStep, WaitForNextStepStep,
     ResumeStep, InterruptStep, ThreadEndsStep, JoinStep DEF Hooked
<1>3. CASE \E t \in Threads : Command(t)
  BY <1>3, PlayStep, PauseOrStepStep, SpuriousWakeupStep DEF Command
<1>4. CASE UNCHANGED vars
  BY <1>4, StutterStep
<1> QED
  BY <1>1, <1>2, <1>3, <1>4 DEF Next

\* The invariant holds in every reachable state.
LEMMA Invariance == Spec => []IndInv
BY InitStep, NextStep, PTL DEF Spec

\* Type correctness: in particular a thread in a hook has a listener that
\* goes on, although the map of the listeners loses entries.
THEOREM TypeCorrect == Spec => []TypeOK
<1>1. IndInv => TypeOK
  BY DEF IndInv
<1> QED
  BY <1>1, Invariance, PTL

\* A thread whose tab never sent pause or step is never stopped, whoever
\* else is stepped and whichever entries of the map get lost.
THEOREM StopsOnlyIfToldTheorem == Spec => []StopsOnlyIfTold
<1>1. IndInv => StopsOnlyIfTold
  BY DEF IndInv, ToldInv, StopsOnlyIfTold
<1> QED
  BY <1>1, Invariance, PTL
=============================================================================
