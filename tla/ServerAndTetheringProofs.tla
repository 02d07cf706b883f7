--------------------- MODULE ServerAndTetheringProofs ---------------------
(***************************************************************************)
(* What the app starts and stops: the server, and the USB tethering (in    *)
(* the second half).                                                       *)
(*                                                                         *)
(* For any number of processes that want to be the server and any number   *)
(* of callers of stop_server: a server that opens its file finds it, and   *)
(* no stop stops two servers.                                              *)
(*                                                                         *)
(* The argument counts files.  Every file that was removed had been        *)
(* opened, or made, by a call of stop_server of its own, and every end of  *)
(* start_server has removed a file of its own.  Both need that only the    *)
(* process with the ports gets near the file.                              *)
(***************************************************************************)
EXTENDS ServerLifecycle, UsbTethering, TLAPS

\* Files that were made and removed again.
Removed == IF name = 0 THEN made ELSE made - 1

\* A caller has touched the file that is there now: made it, waits in it, has
\* it open, or has let a server read to the end of it.
Touched ==
    /\ name # 0
    /\ \/ kind[name] = "regular"
       \/ \E p \in Stoppers : fd[p] = name
       \/ \E s \in Servers : spc[s] \in {"reading", "read", "closed"}

\* Whoever is past mg_start and not yet in the end of mg_stop has the ports.
PortInv == \A s \in Servers : spc[s] \notin {"off", "init", "stopping"} => port = s

\* The file is there until its reader removes it, and is the one it reads.
FileInv ==
    \A s \in Servers :
        /\ spc[s] \in {"made", "opening", "reading", "read", "closed"} => name # 0
        /\ fd[s] # 0 => fd[s] = name

\* Each removed file, and the present one when it is touched, has its call.
CallsInv == Removed + (IF Touched THEN 1 ELSE 0) <= calls

\* Each end has its removed file.
EndsInv == ends <= Removed

IndInv == TypeOK /\ PortInv /\ FileInv /\ CallsInv /\ EndsInv
-----------------------------------------------------------------------------
(* One lemma for each action.                                              *)

\* A process calls start_server.
LEMMA StartStep == ASSUME IndInv, NEW s \in Servers, Start(s) PROVE IndInv'
<1> USE LifecycleAssumption DEF IndInv, TypeOK, PortInv, FileInv, Start, ServerAt, files
<1>1. TypeOK'
  OBVIOUS
<1>2. PortInv' /\ FileInv'
  OBVIOUS
<1>3. CallsInv'
  BY DEF CallsInv, Removed, Touched
<1>4. EndsInv'
  BY DEF EndsInv, Removed
<1> QED
  BY <1>1, <1>2, <1>3, <1>4

\* A server gets the ports.
LEMMA MgStartStep == ASSUME IndInv, NEW s \in Servers, MgStart(s) PROVE IndInv'
<1> USE LifecycleAssumption DEF IndInv, TypeOK, PortInv, FileInv, MgStart, ServerAt, files
<1>1. TypeOK'
  OBVIOUS
<1>2. PortInv' /\ FileInv'
  OBVIOUS
<1>3. CallsInv'
  BY DEF CallsInv, Removed, Touched
<1>4. EndsInv'
  BY DEF EndsInv, Removed
<1> QED
  BY <1>1, <1>2, <1>3, <1>4

\* A second server dies for want of the ports.
LEMMA MgStartFailsStep == ASSUME IndInv, NEW s \in Servers, MgStartFails(s) PROVE IndInv'
<1> USE LifecycleAssumption DEF IndInv, TypeOK, PortInv, FileInv, MgStartFails, ServerAt, files
<1>1. TypeOK'
  OBVIOUS
<1>2. PortInv' /\ FileInv'
  OBVIOUS
<1>3. CallsInv'
  BY DEF CallsInv, Removed, Touched
<1>4. EndsInv'
  BY DEF EndsInv, Removed
<1> QED
  BY <1>1, <1>2, <1>3, <1>4

\* The server makes its pipe, or finds a file under the name.
LEMMA MknodStep == ASSUME IndInv, NEW s \in Servers, Mknod(s) PROVE IndInv'
<1> USE LifecycleAssumption DEF IndInv, TypeOK, PortInv, FileInv, Mknod, Make, ServerAt, files
<1>a. made' \in 0..MaxFiles /\ name' \in {0, made'} /\ 0..made \subseteq 0..made'
  OBVIOUS
<1>b. kind' \in [1..MaxFiles -> {"fifo", "regular"}]
  OBVIOUS
<1>c. fd' \in [Servers \cup Stoppers -> 0..made']
  BY <1>a
<1>d. spc' \in [Servers -> {"off", "init", "up", "made", "opening", "reading", "read", "closed", "unlinked", "stopping"}]
  OBVIOUS
<1>e. \A t \in Servers : fd'[t] # 0 <=> spc'[t] \in {"opening", "reading", "read"}
  OBVIOUS
<1>1. TypeOK'
  BY <1>a, <1>b, <1>c, <1>d, <1>e
<1>2. PortInv' /\ FileInv'
  OBVIOUS
<1>3. CallsInv'
  BY DEF CallsInv, Removed, Touched
<1>4. EndsInv'
  BY DEF EndsInv, Removed
<1> QED
  BY <1>1, <1>2, <1>3, <1>4

\* The server opens the file.
LEMMA OpenReadStep == ASSUME IndInv, NEW s \in Servers, OpenRead(s) PROVE IndInv'
<1> USE LifecycleAssumption DEF IndInv, TypeOK, PortInv, FileInv, OpenRead, Blocked, Open,
      ServerAt, files
<1>1. TypeOK'
  OBVIOUS
<1>2. PortInv' /\ FileInv'
  OBVIOUS
<1>3. CallsInv'
  BY DEF CallsInv, Removed, Touched
<1>4. EndsInv'
  BY DEF EndsInv, Removed
<1> QED
  BY <1>1, <1>2, <1>3, <1>4

\* The server reads to the end of the file.
LEMMA FgetsStep == ASSUME IndInv, NEW s \in Servers, Fgets(s) PROVE IndInv'
<1> USE LifecycleAssumption DEF IndInv, TypeOK, PortInv, FileInv, Fgets, Open, ServerAt, files
<1>1. TypeOK'
  OBVIOUS
<1>2. PortInv' /\ FileInv'
  OBVIOUS
<1>3. CallsInv'
  BY DEF CallsInv, Removed, Touched
<1>4. EndsInv'
  BY DEF EndsInv, Removed
<1> QED
  BY <1>1, <1>2, <1>3, <1>4

\* The server closes the file.
LEMMA FcloseStep == ASSUME IndInv, NEW s \in Servers, Fclose(s) PROVE IndInv'
<1> USE LifecycleAssumption DEF IndInv, TypeOK, PortInv, FileInv, Fclose, ServerAt, files
<1>1. TypeOK'
  OBVIOUS
<1>2. PortInv' /\ FileInv'
  OBVIOUS
<1>3. CallsInv'
  BY DEF CallsInv, Removed, Touched
<1>4. EndsInv'
  BY DEF EndsInv, Removed
<1> QED
  BY <1>1, <1>2, <1>3, <1>4

\* The server removes the file.
LEMMA UnlinkStep == ASSUME IndInv, NEW s \in Servers, Unlink(s) PROVE IndInv'
<1> USE LifecycleAssumption DEF IndInv, TypeOK, PortInv, FileInv, Unlink, ServerAt, files
<1>1. TypeOK'
  OBVIOUS
<1>2. PortInv' /\ FileInv'
  OBVIOUS
<1>3. CallsInv'
  BY DEF CallsInv, Removed, Touched
<1>4. EndsInv'
  BY DEF EndsInv, Removed
<1> QED
  BY <1>1, <1>2, <1>3, <1>4

\* The master closes the listening sockets.
LEMMA CloseListenersStep == ASSUME IndInv, NEW s \in Servers, CloseListeners(s) PROVE IndInv'
<1> USE LifecycleAssumption DEF IndInv, TypeOK, PortInv, FileInv, CloseListeners, ServerAt, files
<1>1. TypeOK'
  OBVIOUS
<1>2. PortInv' /\ FileInv'
  OBVIOUS
<1>3. CallsInv'
  BY DEF CallsInv, Removed, Touched
<1>4. EndsInv'
  BY DEF EndsInv, Removed
<1> QED
  BY <1>1, <1>2, <1>3, <1>4

\* start_server returns.
LEMMA MgStopStep == ASSUME IndInv, NEW s \in Servers, MgStop(s) PROVE IndInv'
<1> USE LifecycleAssumption DEF IndInv, TypeOK, PortInv, FileInv, MgStop, ServerAt, files
<1>1. TypeOK'
  OBVIOUS
<1>2. PortInv' /\ FileInv'
  OBVIOUS
<1>3. CallsInv'
  BY DEF CallsInv, Removed, Touched
<1>4. EndsInv'
  BY DEF EndsInv, Removed
<1> QED
  BY <1>1, <1>2, <1>3, <1>4

\* A process is killed.
LEMMA KillStep == ASSUME IndInv, NEW s \in Servers, Kill(s) PROVE IndInv'
<1> USE LifecycleAssumption DEF IndInv, TypeOK, PortInv, FileInv, Kill, ServerAt, files
<1>1. TypeOK'
  OBVIOUS
<1>2. PortInv' /\ FileInv'
  OBVIOUS
<1>3. CallsInv'
  BY DEF CallsInv, Removed, Touched
<1>4. EndsInv'
  BY DEF EndsInv, Removed
<1> QED
  BY <1>1, <1>2, <1>3, <1>4

\* A caller of stop_server opens the file, or makes one.
LEMMA OpenWriteStep == ASSUME IndInv, NEW p \in Stoppers, OpenWrite(p) PROVE IndInv'
<1> USE LifecycleAssumption DEF IndInv, TypeOK, PortInv, FileInv, OpenWrite, Make, Reading,
      ServerAt, files
<1>a. made' \in 0..MaxFiles /\ name' \in {0, made'} /\ 0..made \subseteq 0..made'
  OBVIOUS
<1>b. kind' \in [1..MaxFiles -> {"fifo", "regular"}] /\ calls' \in 0..MaxCalls
  OBVIOUS
<1>c. fd' \in [Servers \cup Stoppers -> 0..made'] /\ name' # 0
  BY <1>a
<1>d. /\ spc' \in [Servers -> {"off", "init", "up", "made", "opening", "reading", "read",
                                "closed", "unlinked", "stopping"}]
      /\ ppc' \in [Stoppers -> {"idle", "blocked", "open"}]
  OBVIOUS
<1>e. \A s \in Servers : fd'[s] # 0 <=> spc'[s] \in {"opening", "reading", "read"}
  OBVIOUS
<1>f. \A q \in Stoppers : fd'[q] # 0 <=> ppc'[q] # "idle"
  BY <1>c
<1>1. TypeOK'
  BY <1>a, <1>b, <1>c, <1>d, <1>e, <1>f
<1>2. PortInv' /\ FileInv'
  OBVIOUS
<1>3. CallsInv'
  BY DEF CallsInv, Removed, Touched
<1>4. EndsInv'
  BY DEF EndsInv, Removed
<1> QED
  BY <1>1, <1>2, <1>3, <1>4

\* stop_server returns.
LEMMA StopReturnsStep == ASSUME IndInv, NEW p \in Stoppers, StopReturns(p) PROVE IndInv'
<1> USE LifecycleAssumption DEF IndInv, TypeOK, PortInv, FileInv, StopReturns, ServerAt, files
<1>1. TypeOK'
  OBVIOUS
<1>2. PortInv' /\ FileInv'
  OBVIOUS
<1>3. CallsInv'
  BY DEF CallsInv, Removed, Touched
<1>4. EndsInv'
  BY DEF EndsInv, Removed
<1> QED
  BY <1>1, <1>2, <1>3, <1>4

-----------------------------------------------------------------------------
(* The theorems.                                                           *)

\* With no server and no file the invariant holds.
LEMMA InitStep == Init => IndInv
BY LifecycleAssumption DEF Init, IndInv, TypeOK, PortInv, FileInv, CallsInv, EndsInv,
                           Removed, Touched

\* What touches none of the variables keeps the invariant.
LEMMA StutterStep == ASSUME IndInv, UNCHANGED vars PROVE IndInv'
BY DEF vars, files, IndInv, TypeOK, PortInv, FileInv, CallsInv, EndsInv, Removed, Touched

\* Every step of a server or a caller keeps the invariant.
LEMMA NextStep == IndInv /\ [Next]_vars => IndInv'
<1> SUFFICES ASSUME IndInv, [Next]_vars PROVE IndInv'
  OBVIOUS
<1>1. ASSUME NEW s \in Servers, Server(s) PROVE IndInv'
  BY <1>1, MgStartStep, MgStartFailsStep, MknodStep, OpenReadStep, FgetsStep, FcloseStep,
     UnlinkStep, CloseListenersStep, MgStopStep DEF Server
<1>2. ASSUME NEW s \in Servers, Start(s) \/ Kill(s) PROVE IndInv'
  BY <1>2, StartStep, KillStep
<1>3. ASSUME NEW p \in Stoppers, Stopper(p) PROVE IndInv'
  BY <1>3, OpenWriteStep, StopReturnsStep DEF Stopper
<1> QED
  BY <1>1, <1>2, <1>3, StutterStep DEF Next

\* The inductive invariant holds in every reachable state.
THEOREM Invariance == Spec => []IndInv
BY InitStep, NextStep, PTL DEF Spec

\* Type correctness: a file is open just while a server or a caller needs it.
THEOREM TypeCorrect == Spec => []TypeOK
<1>1. IndInv => TypeOK
  BY DEF IndInv
<1> QED
  BY <1>1, Invariance, PTL

\* fopen finds the file in start_server, whoever else starts, stops or dies:
\* fgets is never called with a null pointer.
THEOREM FileIsThereTheorem == Spec => []FileIsThere
<1>1. IndInv => FileIsThere
  BY DEF IndInv, FileInv, FileIsThere
<1> QED
  BY <1>1, Invariance, PTL

\* start_server never comes to its end more often than stop_server was called.
THEOREM StopsAreAnsweredOnceTheorem == Spec => []StopsAreAnsweredOnce
<1>1. IndInv => StopsAreAnsweredOnce
  BY DEF IndInv, TypeOK, CallsInv, EndsInv, Removed, StopsAreAnsweredOnce
<1> QED
  BY <1>1, Invariance, PTL

-----------------------------------------------------------------------------
(* USB tethering: when no call is under way and the state is OFF the        *)
(* interface is down, and a start that returns null has taken it down,      *)
(* provided that every DHCPACK line has its fifth token.                    *)

\* Behind the ifconfig command of stop_tethering the interface is down.
UsbDownInv == pc \in {"stop_off", "failed_off", "late_off"} => ~up

\* At the return of start_tethering the state is not OFF any more.
UsbReturnInv == pc = "return" => state \in {"CONNECT", "READY"}

UsbIndInv == UsbTypeOK /\ UsbDownInv /\ UsbReturnInv /\ OffIsDown

\* A start that goes on to CONNECT without a client has taken everything back;
\* it needs that a log thread never makes client_ip NULL again.
UsbNullInv == pc \in {"connect", "return"} /\ ~client => ~up

USE TetheringAssumption DEF log, caller, Starts

-----------------------------------------------------------------------------
(* One lemma for each action.                                              *)

\* start_tethering is called.
LEMMA UsbStartStep ==
    ASSUME UsbIndInv, StartTethering
    PROVE UsbIndInv' /\ (Tokens \subseteq {TRUE} /\ UsbNullInv => UsbNullInv')
<1>1. asleep' \subseteq Readers /\ awake' \subseteq Readers
  BY DEF StartTethering, change_state, Signal, UsbIndInv, UsbTypeOK
<1>2. starts' \in 0..MaxStarts /\ starts' = starts + 1
  BY DEF StartTethering, UsbIndInv, UsbTypeOK
<1>3. CASE up
  BY <1>1, <1>2, <1>3 DEF UsbIndInv, UsbTypeOK, UsbDownInv, UsbReturnInv, OffIsDown,
        UsbNullInv, StartTethering, change_state
<1>4. CASE ~up
  BY <1>1, <1>2, <1>4 DEF UsbIndInv, UsbTypeOK, UsbDownInv, UsbReturnInv, OffIsDown,
        UsbNullInv, StartTethering, change_state
<1> QED
  BY <1>3, <1>4

\* The shell commands run.
LEMMA UsbCommandsStep ==
    ASSUME UsbIndInv, Commands
    PROVE UsbIndInv' /\ (Tokens \subseteq {TRUE} /\ UsbNullInv => UsbNullInv')
BY DEF UsbIndInv, UsbTypeOK, UsbDownInv, UsbReturnInv, OffIsDown, UsbNullInv, Commands,
      Goto, Quiet

\* The interface is ready.
LEMMA UsbReadyStep ==
    ASSUME UsbIndInv, Ready
    PROVE UsbIndInv' /\ (Tokens \subseteq {TRUE} /\ UsbNullInv => UsbNullInv')
BY DEF UsbIndInv, UsbTypeOK, UsbDownInv, UsbReturnInv, OffIsDown, UsbNullInv, Ready,
      Goto, change_state, Signal

\* The threads are created.
LEMMA UsbThreadsStep ==
    ASSUME UsbIndInv, Threads
    PROVE UsbIndInv' /\ (Tokens \subseteq {TRUE} /\ UsbNullInv => UsbNullInv')
<1>1. logcat' \in [Starts -> {"off", "started", "reading"}]
  BY DEF Threads, UsbIndInv, UsbTypeOK
<1>2. \A i \in Starts : logcat'[i] # "off" => i <= starts
  BY DEF Threads, UsbIndInv, UsbTypeOK
<1>a. 0 \in 0..Timeout + 1
  BY DEF UsbIndInv
<1>3. ticks' \in 0..Timeout + 1 /\ pc = "threads" /\ pc' \in {"waiting", "failed"}
  BY <1>a, Zenon DEF Threads, Goto
<1>4. UNCHANGED <<state, up, client, answer, starts, check, acked, asleep, awake>>
  BY DEF Threads, Quiet
<1> QED
  BY <1>1, <1>2, <1>3, <1>4 DEF UsbIndInv, UsbTypeOK, UsbDownInv, UsbReturnInv, OffIsDown,
        UsbNullInv

\* A second passes.
LEMMA UsbTickStep ==
    ASSUME UsbIndInv, Tick
    PROVE UsbIndInv' /\ (Tokens \subseteq {TRUE} /\ UsbNullInv => UsbNullInv')
BY DEF UsbIndInv, UsbTypeOK, UsbDownInv, UsbReturnInv, OffIsDown, UsbNullInv, Tick,
      Quiet

\* timeout() returns.
LEMMA UsbTimeoutDoneStep ==
    ASSUME UsbIndInv, TimeoutDone
    PROVE UsbIndInv' /\ (Tokens \subseteq {TRUE} /\ UsbNullInv => UsbNullInv')
BY DEF UsbIndInv, UsbTypeOK, UsbDownInv, UsbReturnInv, OffIsDown, UsbNullInv,
      TimeoutDone, Goto, Quiet

\* start_tethering looks at client_ip again.
LEMMA UsbTakeBackStep ==
    ASSUME UsbIndInv, TakeBack
    PROVE UsbIndInv' /\ (Tokens \subseteq {TRUE} /\ UsbNullInv => UsbNullInv')
BY DEF UsbIndInv, UsbTypeOK, UsbDownInv, UsbReturnInv, OffIsDown, UsbNullInv, TakeBack,
      Goto, Quiet

\* CONNECT is announced.
LEMMA UsbConnectStep ==
    ASSUME UsbIndInv, Connect
    PROVE UsbIndInv' /\ (Tokens \subseteq {TRUE} /\ UsbNullInv => UsbNullInv')
BY DEF UsbIndInv, UsbTypeOK, UsbDownInv, UsbReturnInv, OffIsDown, UsbNullInv, Connect,
      Goto, change_state, Signal

\* start_tethering returns.
LEMMA UsbReturnStep ==
    ASSUME UsbIndInv, Return
    PROVE UsbIndInv' /\ (Tokens \subseteq {TRUE} /\ UsbNullInv => UsbNullInv')
BY DEF UsbIndInv, UsbTypeOK, UsbDownInv, UsbReturnInv, OffIsDown, UsbNullInv, Return,
      Goto, Quiet

\* stop_tethering is called.
LEMMA UsbStopStep ==
    ASSUME UsbIndInv, StopTethering
    PROVE UsbIndInv' /\ (Tokens \subseteq {TRUE} /\ UsbNullInv => UsbNullInv')
BY DEF UsbIndInv, UsbTypeOK, UsbDownInv, UsbReturnInv, OffIsDown, UsbNullInv, StopTethering,
      Goto, Quiet

\* The interface is taken down.
LEMMA UsbDownStep ==
    ASSUME UsbIndInv, Down
    PROVE UsbIndInv' /\ (Tokens \subseteq {TRUE} /\ UsbNullInv => UsbNullInv')
<1>1. \/ pc = "stop" /\ pc' = "stop_off"
      \/ pc = "failed" /\ pc' = "failed_off"
      \/ pc = "late" /\ pc' = "late_off"
  BY DEF Down, After
<1> QED
  BY <1>1 DEF UsbIndInv, UsbTypeOK, UsbDownInv, UsbReturnInv, OffIsDown, UsbNullInv,
        Down, Quiet

\* OFF is announced.
LEMMA UsbOffStep ==
    ASSUME UsbIndInv, Off
    PROVE UsbIndInv' /\ (Tokens \subseteq {TRUE} /\ UsbNullInv => UsbNullInv')
BY DEF UsbIndInv, UsbTypeOK, UsbDownInv, UsbReturnInv, OffIsDown, UsbNullInv, Off,
      Goto, change_state, Signal

\* Another thread looks at the interface.
LEMMA UsbNetcfgStep ==
    ASSUME UsbIndInv, Netcfg
    PROVE UsbIndInv' /\ (Tokens \subseteq {TRUE} /\ UsbNullInv => UsbNullInv')
BY DEF UsbIndInv, UsbTypeOK, UsbDownInv, UsbReturnInv, OffIsDown, UsbNullInv, Netcfg,
      Quiet

\* It announces READY.
LEMMA UsbNetcfgReadyStep ==
    ASSUME UsbIndInv, NetcfgReady
    PROVE UsbIndInv' /\ (Tokens \subseteq {TRUE} /\ UsbNullInv => UsbNullInv')
BY DEF UsbIndInv, UsbTypeOK, UsbDownInv, UsbReturnInv, OffIsDown, UsbNullInv,
      NetcfgReady, change_state, Signal

\* A client gets its address.
LEMMA UsbDhcpackStep ==
    ASSUME UsbIndInv, Dhcpack
    PROVE UsbIndInv' /\ (Tokens \subseteq {TRUE} /\ UsbNullInv => UsbNullInv')
BY DEF UsbIndInv, UsbTypeOK, UsbDownInv, UsbReturnInv, OffIsDown, UsbNullInv, Dhcpack,
      Quiet

\* A log thread clears the log.
LEMMA UsbClearStep ==
    ASSUME UsbIndInv, NEW i \in Starts, Clear(i)
    PROVE UsbIndInv' /\ (Tokens \subseteq {TRUE} /\ UsbNullInv => UsbNullInv')
<1>1. logcat' \in [Starts -> {"off", "started", "reading"}]
  BY DEF Clear, UsbIndInv, UsbTypeOK
<1>2. \A j \in Starts : logcat'[j] # "off" => j <= starts
  BY DEF Clear, UsbIndInv, UsbTypeOK
<1>3. acked' \subseteq Starts
  BY DEF Clear, UsbIndInv, UsbTypeOK
<1> QED
  BY <1>1, <1>2, <1>3 DEF UsbIndInv, UsbTypeOK, UsbDownInv, UsbReturnInv, OffIsDown,
        UsbNullInv, Clear, Quiet

\* A log thread reads the answer.
LEMMA UsbReadStep ==
    ASSUME UsbIndInv, NEW i \in Starts, Read(i)
    PROVE UsbIndInv' /\ (Tokens \subseteq {TRUE} /\ UsbNullInv => UsbNullInv')
BY DEF UsbIndInv, UsbTypeOK, UsbDownInv, UsbReturnInv, OffIsDown, UsbNullInv, Read,
      Quiet

\* A reader waits.
LEMMA UsbWaitStep ==
    ASSUME UsbIndInv, NEW r \in Readers, Wait(r)
    PROVE UsbIndInv' /\ (Tokens \subseteq {TRUE} /\ UsbNullInv => UsbNullInv')
BY DEF UsbIndInv, UsbTypeOK, UsbDownInv, UsbReturnInv, OffIsDown, UsbNullInv, Wait

\* A reader goes on.
LEMMA UsbLearnStep ==
    ASSUME UsbIndInv, NEW r \in Readers, Learn(r)
    PROVE UsbIndInv' /\ (Tokens \subseteq {TRUE} /\ UsbNullInv => UsbNullInv')
BY DEF UsbIndInv, UsbTypeOK, UsbDownInv, UsbReturnInv, OffIsDown, UsbNullInv, Learn

-----------------------------------------------------------------------------
(* The theorems.                                                           *)

\* Before the first call both invariants hold.
LEMMA UsbInitStep == UsbInit => UsbIndInv /\ UsbNullInv
<1> SUFFICES ASSUME UsbInit PROVE UsbIndInv /\ UsbNullInv
  OBVIOUS
<1>1. logcat \in [Starts -> {"off", "started", "reading"}]
  BY DEF UsbInit
<1>2. \A i \in Starts : logcat[i] = "off"
  BY DEF UsbInit
<1>a. acked \subseteq Starts /\ asleep \subseteq Readers /\ awake \subseteq Readers
  BY Zenon DEF UsbInit
<1>b. ticks \in 0..Timeout + 1 /\ starts \in 0..MaxStarts
  BY DEF UsbInit
<1>c. up \in BOOLEAN /\ client \in BOOLEAN
  BY DEF UsbInit
<1>3. UsbTypeOK
  BY <1>1, <1>2, <1>a, <1>b, <1>c DEF UsbInit, UsbTypeOK
<1> QED
  BY <1>3 DEF UsbInit, UsbIndInv, UsbDownInv, UsbReturnInv, OffIsDown, UsbNullInv

\* What touches none of the variables keeps both.
LEMMA UsbStutterStep ==
    ASSUME UsbIndInv, UNCHANGED usb
    PROVE UsbIndInv' /\ (UsbNullInv => UsbNullInv')
BY DEF usb, UsbIndInv, UsbTypeOK, UsbDownInv, UsbReturnInv, OffIsDown, UsbNullInv

\* Every step keeps both, the second one when the lines are whole.
LEMMA UsbNextStep ==
    UsbIndInv /\ [UsbNext]_usb
        => UsbIndInv' /\ (Tokens \subseteq {TRUE} /\ UsbNullInv => UsbNullInv')
<1> SUFFICES ASSUME UsbIndInv, [UsbNext]_usb
             PROVE UsbIndInv' /\ (Tokens \subseteq {TRUE} /\ UsbNullInv => UsbNullInv')
  OBVIOUS
<1>1. CASE Caller
  BY <1>1, UsbCommandsStep, UsbReadyStep, UsbThreadsStep, UsbTickStep, UsbTimeoutDoneStep,
     UsbTakeBackStep, UsbConnectStep, UsbReturnStep, UsbDownStep, UsbOffStep DEF Caller
<1>2. CASE StartTethering \/ StopTethering \/ Netcfg \/ NetcfgReady \/ Dhcpack
  BY <1>2, UsbStartStep, UsbStopStep, UsbNetcfgStep, UsbNetcfgReadyStep, UsbDhcpackStep
<1>3. ASSUME NEW i \in Starts, Clear(i) \/ Read(i)
      PROVE UsbIndInv' /\ (Tokens \subseteq {TRUE} /\ UsbNullInv => UsbNullInv')
  BY <1>3, UsbClearStep, UsbReadStep
<1>4. ASSUME NEW r \in Readers, Wait(r) \/ Learn(r)
      PROVE UsbIndInv' /\ (Tokens \subseteq {TRUE} /\ UsbNullInv => UsbNullInv')
  BY <1>4, UsbWaitStep, UsbLearnStep
<1> QED
  BY <1>1, <1>2, <1>3, <1>4, UsbStutterStep DEF UsbNext

\* The inductive invariant holds in every reachable state.
THEOREM UsbInvariance == UsbSpec => []UsbIndInv
<1>1. UsbInit => UsbIndInv
  BY UsbInitStep
<1>2. UsbIndInv /\ [UsbNext]_usb => UsbIndInv'
  BY UsbNextStep
<1> QED
  BY <1>1, <1>2, PTL DEF UsbSpec

\* Type correctness: in particular n in timeout() stays within TIMEOUT + 1.
THEOREM UsbTypeCorrect == UsbSpec => []UsbTypeOK
<1>1. UsbIndInv => UsbTypeOK
  BY DEF UsbIndInv
<1> QED
  BY <1>1, UsbInvariance, PTL

\* With no call under way and the state OFF the interface is down, whichever
\* step of a start has failed and whatever late log threads do.
THEOREM OffIsDownTheorem == UsbSpec => []OffIsDown
<1>1. UsbIndInv => OffIsDown
  BY DEF UsbIndInv
<1> QED
  BY <1>1, UsbInvariance, PTL

\* A step that makes null the answer of start_tethering finds the interface
\* down.
LEMMA UsbNullStep ==
    UsbIndInv /\ UsbNullInv /\ [UsbNext]_usb
        => [answer' = "null" /\ answer # "null" => ~up']_usb
<1> SUFFICES ASSUME UsbIndInv, UsbNullInv, UsbNext, answer' = "null", answer # "null" PROVE ~up'
  OBVIOUS
<1>1. Return \/ Off
  BY DEF UsbNext, Caller, StartTethering, StopTethering, Commands, Ready, Threads,
        Tick, TimeoutDone, TakeBack, Connect,
         Down, Netcfg, NetcfgReady, Dhcpack, Clear, Read, Wait, Learn
<1>2. CASE Return
  BY <1>2 DEF Return, Goto, UsbNullInv
<1>3. CASE Off
  BY <1>3 DEF Off, Goto, UsbIndInv, UsbDownInv
<1> QED
  BY <1>1, <1>2, <1>3

\* When every DHCPACK line has its fifth token, a start that returns null has
\* put everything back.
THEOREM NullIsDownTheorem ==
    ASSUME Tokens \subseteq {TRUE} PROVE UsbSpec => NullIsDown
<1>1. UsbInit => UsbIndInv /\ UsbNullInv
  BY UsbInitStep
<1>2. UsbIndInv /\ UsbNullInv /\ [UsbNext]_usb => UsbIndInv' /\ UsbNullInv'
  BY UsbNextStep
<1> QED
  BY <1>1, <1>2, UsbNullStep, PTL DEF UsbSpec, NullIsDown
=============================================================================
