----------------------------- MODULE Stepping -----------------------------
(***************************************************************************)
(* How the threads of a traced app are stopped and stepped (XHookAll,      *)
(* XDAMNHook, XListener).  Around every hooked method a thread runs        *)
(* beforeHookedMethod and afterHookedMethod: it shows the call in its      *)
(* browser tab and, while its listener says STEPPING, waits for a command. *)
(* One XListener thread for each app thread obeys the commands play, pause *)
(* and step.  All listeners of a process wait and notify on one monitor,   *)
(* that of the string app; the map hook.threads is an unsynchronized       *)
(* HashMap.                                                                *)
(*                                                                         *)
(* Commands arrive through a pipe that may lose them: here a listener gets *)
(* one whenever it likes.  What a step command brings for the parameters   *)
(* or the result is left out; method calls are abstracted to a depth.      *)
(***************************************************************************)
EXTENDS Integers, FiniteSets

CONSTANTS
    Threads,    \* the threads of the app that call hooked methods
    Main,       \* the thread that runs XHookAll.hook, with tid 1
    MaxDepth    \* bound: hooked methods a thread is in

ASSUME ThreadsAssumption == Main \in Threads
ASSUME DepthAssumption == MaxDepth \in Nat \ {0}

VARIABLES
    pc,         \* where each app thread is
    depth,      \* hooked methods it is in
    threads,    \* the keys of hook.threads
    init_done,
    STEPPING, first,   \* the fields of each thread's listener
    listener,   \* the thread of this listener: "none", "on", "ending" or "over"
    told        \* history: other threads whose tab has sent pause or step

fields == <<STEPPING, first>>
vars   == <<pc, depth, threads, init_done, fields, listener, told>>

-----------------------------------------------------------------------------
Init ==
    /\ pc = [t \in Threads |-> IF t = Main THEN "connecting" ELSE "app"]
    /\ depth = [t \in Threads |-> 0]
    /\ threads = {}
    /\ init_done = FALSE
    /\ STEPPING = [t \in Threads |-> FALSE]
    /\ first = [t \in Threads |-> FALSE]
    /\ listener = [t \in Threads |-> "none"]
    /\ told = {}

Goto(t, to) == pc' = [pc EXCEPT ![t] = to]

\* A listener object for t, and its thread.
NewListener(t, stepping) ==
    /\ STEPPING' = [STEPPING EXCEPT ![t] = stepping]
    /\ first' = [first EXCEPT ![t] = FALSE]
    /\ listener' = [listener EXCEPT ![t] = "on"]

\* hook.threads is written without a lock: when two threads write at once,
\* entries may get lost.
Writing(t) == {u \in Threads \ {t} : pc[u] \in {"putting", "reputting"}}

WriteMap(t, entries) ==
    IF Writing(t) = {} THEN threads' = entries ELSE threads' \in SUBSET entries

-----------------------------------------------------------------------------
(* XHookAll.hook, run by the main thread before the app starts.            *)

\* newAppStarted has returned: a tab is connected.  The main listener steps
\* from the beginning.
OpenSite ==
    /\ pc[Main] = "connecting"
    /\ NewListener(Main, TRUE)
    /\ WriteMap(Main, threads \cup {Main})
    /\ Goto(Main, "hooking")
    /\ UNCHANGED <<depth, init_done, told>>

\* The hooks are set.  l.notify() without l's monitor throws, and the
\* exception is caught: nobody is woken.
HookDone ==
    /\ pc[Main] = "hooking"
    /\ init_done' = TRUE
    /\ Goto(Main, "app")
    /\ UNCHANGED <<depth, threads, fields, listener, told>>

-----------------------------------------------------------------------------
(* XDAMNHook, on the thread that calls the hooked method.                  *)

Alive(t) == pc[t] = "app" /\ pc[Main] # "connecting"

\* Mutant: the listener of a new thread steps like the one of the main one.
BeforeSteps(t) ==
    /\ Alive(t) /\ depth[t] < MaxDepth
    /\ depth' = [depth EXCEPT ![t] = @ + 1]
    /\ IF t \in threads
         THEN Goto(t, "init") /\ UNCHANGED <<fields, listener>>
         ELSE Goto(t, "putting") /\ NewListener(t, TRUE)
    /\ UNCHANGED <<threads, init_done, told>>

\* beforeHookedMethod: a thread without a listener gets one.
Before(t) ==
    /\ Alive(t) /\ depth[t] < MaxDepth
    /\ depth' = [depth EXCEPT ![t] = @ + 1]
    /\ IF t \in threads
         THEN Goto(t, "init") /\ UNCHANGED <<fields, listener>>
         ELSE Goto(t, "putting") /\ NewListener(t, FALSE)
    /\ UNCHANGED <<threads, init_done, told>>

\* afterHookedMethod: the map is read before that.
After(t) ==
    /\ Alive(t) /\ depth[t] > 0
    /\ depth' = [depth EXCEPT ![t] = @ - 1]
    /\ IF t \in threads
         THEN Goto(t, "gate") /\ UNCHANGED <<fields, listener>>
         ELSE Goto(t, "reputting") /\ NewListener(t, FALSE)
    /\ UNCHANGED <<threads, init_done, told>>

\* threads.put.  Without an entry lock is null and the hook throws; in
\* afterHookedMethod lock was null from the start.
Put(t) ==
    /\ pc[t] \in {"putting", "reputting"}
    /\ WriteMap(t, threads \cup {t})
    /\ Goto(t, IF pc[t] = "putting" /\ t \in threads' THEN "init" ELSE "app")
    /\ UNCHANGED <<depth, init_done, fields, listener, told>>

\* "if init not done- wait for it!"
CheckInit(t) ==
    /\ pc[t] = "init"
    /\ Goto(t, IF ~init_done /\ STEPPING[t] THEN "initwait" ELSE "gate")
    /\ UNCHANGED <<depth, threads, init_done, fields, listener, told>>

\* The call is pushed to the tab.  "wait for response if stepping is on":
\* tested without the monitor app.
Gate(t) ==
    /\ pc[t] = "gate"
    /\ Goto(t, IF STEPPING[t] THEN "monitor" ELSE "app")
    /\ UNCHANGED <<depth, threads, init_done, fields, listener, told>>

\* waitForNextStep: the first call does not wait.
WaitForNextStep(t) ==
    /\ pc[t] = "monitor"
    /\ first' = [first EXCEPT ![t] = TRUE]
    /\ Goto(t, IF first[t] THEN "waiting" ELSE "app")
    /\ UNCHANGED <<depth, threads, init_done, STEPPING, listener, told>>

\* It returns data.
Resume(t) ==
    /\ pc[t] = "notified"
    /\ Goto(t, "app")
    /\ UNCHANGED <<depth, threads, init_done, fields, listener, told>>

\* Another thread of the app interrupts a waiting one.
Interrupt(t) ==
    /\ pc[t] \in {"waiting", "initwait"}
    /\ Goto(t, "app")
    /\ UNCHANGED <<depth, threads, init_done, fields, listener, told>>

\* The thread ends.
ThreadEnds(t) ==
    /\ t # Main /\ Alive(t) /\ depth[t] = 0
    /\ Goto(t, "dead")
    /\ UNCHANGED <<depth, threads, init_done, fields, listener, told>>

\* The thread that joins t takes it out of the map.
Join(t) ==
    /\ pc[t] = "dead" /\ listener[t] = "on"
    /\ WriteMap(t, threads \ {t})
    /\ listener' = [listener EXCEPT ![t] = "ending"]
    /\ UNCHANGED <<pc, depth, init_done, fields, told>>

-----------------------------------------------------------------------------
(* XListener.run: one command, under the monitor app.                      *)

Waiting == {t \in Threads : pc[t] = "waiting"}

Wake(S) == pc' = [t \in Threads |-> IF t \in S THEN "notified" ELSE pc[t]]

NotifyAll == Wake(Waiting)

\* The virtual machine picks one of those who wait.
Notify == IF Waiting = {} THEN UNCHANGED pc ELSE \E t \in Waiting : Wake({t})

\* A listener whose thread has ended leaves after the command it waits for.
Listening(t) ==
    /\ listener[t] \in {"on", "ending"}
    /\ listener' = [listener EXCEPT ![t] = IF @ = "ending" THEN "over" ELSE @]

\* Mutant: play wakes one thread only.
PlayNotifyOne(t) ==
    /\ Listening(t)
    /\ STEPPING' = [STEPPING EXCEPT ![t] = FALSE]
    /\ Notify
    /\ UNCHANGED <<depth, threads, init_done, first, told>>

Play(t) ==
    /\ Listening(t)
    /\ STEPPING' = [STEPPING EXCEPT ![t] = FALSE]
    /\ NotifyAll
    /\ UNCHANGED <<depth, threads, init_done, first, told>>

\* Pause and step: both set stepping and wake one of those who wait, who
\* need not be the thread of this tab.
PauseOrStep(t) ==
    /\ Listening(t)
    /\ STEPPING' = [STEPPING EXCEPT ![t] = TRUE]
    /\ Notify
    /\ told' = told \cup ({t} \ {Main})
    /\ UNCHANGED <<depth, threads, init_done, first>>

\* Object.wait may return without a reason; so may a thread be woken by a
\* listener that has been replaced because its entry was lost.
SpuriousWakeup(t) ==
    /\ t \in Waiting
    /\ Wake({t})
    /\ UNCHANGED <<depth, threads, init_done, fields, listener, told>>

Hooked(t) ==
    \/ Before(t) \/ After(t) \/ Put(t) \/ CheckInit(t)
    \/ Gate(t) \/ WaitForNextStep(t) \/ Resume(t)
    \/ Interrupt(t) \/ ThreadEnds(t) \/ Join(t)

Command(t) == Play(t) \/ PauseOrStep(t) \/ SpuriousWakeup(t)

Next == OpenSite \/ HookDone \/ \E t \in Threads : Hooked(t) \/ Command(t)

Spec == Init /\ [][Next]_vars

\* A thread goes on once it is in a hook; in the tab of the main thread play
\* is pressed again and again while somebody waits.
Fairness ==
    /\ \A t \in Threads :
         WF_vars(Put(t) \/ CheckInit(t) \/ Gate(t) \/ WaitForNextStep(t) \/ Resume(t))
    /\ WF_vars(Waiting # {} /\ Play(Main))

FairSpec == Spec /\ Fairness

-----------------------------------------------------------------------------
(* Properties.                                                             *)

\* Every variable has its type; a thread in a hook has a listener, and only
\* a live thread is in a hook.
TypeOK ==
    /\ pc \in [Threads -> {"connecting", "hooking", "app", "putting", "reputting", "init",
                           "initwait", "gate", "monitor", "waiting", "notified", "dead"}]
    /\ depth \in [Threads -> 0..MaxDepth]
    /\ threads \subseteq Threads
    /\ init_done \in BOOLEAN
    /\ STEPPING \in [Threads -> BOOLEAN] /\ first \in [Threads -> BOOLEAN]
    /\ listener \in [Threads -> {"none", "on", "ending", "over"}]
    /\ \A t \in Threads : pc[t] \notin {"connecting", "hooking", "app", "dead"} => listener[t] = "on"
    /\ told \subseteq Threads \ {Main}

\* A thread whose tab never asked for it is never stopped (but for the main
\* thread, which starts in stepping mode): the app runs on although nobody
\* has opened its tab.
StopsOnlyIfTold ==
    \A t \in Threads \ {Main} : pc[t] \in {"initwait", "waiting"} => t \in told

\* A thread that comes to the gate passes it, if play is pressed again and
\* again in the tab of the main thread, whatever other commands come.
PassesGate == \A t \in Threads : pc[t] = "gate" ~> pc[t] = "app"

\* "wait for response if stepping is on": a thread that waits has stepping on.
WaitsOnlyStepping == \A t \in Threads : pc[t] = "waiting" => STEPPING[t]
=============================================================================
