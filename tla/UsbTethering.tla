---------------------------- MODULE UsbTethering ----------------------------
(***************************************************************************)
(* USB tethering (usb_tethering.c).  start_tethering runs shell commands,  *)
(* any of which may fail, and then waits for a client: a thread of its own *)
(* reads the log for the answer of the DHCP server.  When nobody answers   *)
(* in time it takes everything back, while that thread reads on.  The Java *)
(* side waits for changes of the state in getStateBlocking.                *)
(*                                                                         *)
(* start_tethering and stop_tethering are called one after the other by    *)
(* one thread.  The command that takes the interface down works.           *)
(***************************************************************************)
EXTENDS Naturals

CONSTANTS
    Readers,    \* threads that call getStateBlocking
    Timeout,    \* TIMEOUT
    MaxStarts,  \* bound: calls of start_tethering
    Tokens      \* whether tokens[4] of a DHCPACK line is there: {TRUE} or BOOLEAN

ASSUME TetheringAssumption == Timeout \in Nat /\ MaxStarts \in Nat /\ Tokens \subseteq BOOLEAN

VARIABLES
    state,      \* state
    up,         \* rndis0 is up
    client,     \* client_ip # NULL
    pc,         \* where the caller of start_tethering or stop_tethering is
    ticks,      \* n in timeout()
    answer,     \* what start_tethering returned: "none", "null", "host" or "ip"
    check,      \* where a caller of is_tethering_active is: "idle" or "active"
    starts,     \* number of calls of start_tethering
    logcat,     \* where the log thread of each call is
    acked,      \* the log threads that have a DHCPACK line to read
    asleep,     \* the readers in pthread_cond_wait
    awake       \* the readers that have left it and go on to read state

caller == <<pc, ticks, answer, starts>>
log    == <<logcat, acked>>
usb   == <<state, up, client, caller, check, log, asleep, awake>>

Starts == 1..MaxStarts

UsbInit ==
    /\ state = "UNKNOWN" /\ up = FALSE /\ client = FALSE
    /\ pc = "idle" /\ ticks = 0 /\ answer = "none" /\ starts = 0
    /\ check = "idle"
    /\ logcat = [i \in Starts |-> "off"] /\ acked = {}
    /\ asleep = {} /\ awake = {}

-----------------------------------------------------------------------------
Goto(from, to) == pc = from /\ pc' = to

\* pthread_cond_signal wakes one reader, whichever.
Signal ==
    IF asleep = {} THEN UNCHANGED <<asleep, awake>>
    ELSE \E r \in asleep : asleep' = asleep \ {r} /\ awake' = awake \cup {r}

\* Mutant: nobody is told.
SetState(s) == state' = s /\ UNCHANGED <<asleep, awake>>

change_state(s) == state' = s /\ Signal

Quiet == UNCHANGED <<state, asleep, awake>>

-----------------------------------------------------------------------------
(* start_tethering                                                         *)

\* is_tethering_active: if it is, the answer is "unknown host".
StartTethering ==
    /\ pc = "idle" /\ starts < MaxStarts
    /\ starts' = starts + 1
    /\ IF up
       THEN /\ change_state("READY")
            /\ answer' = "host"
            /\ UNCHANGED pc
       ELSE /\ change_state("INIT")
            /\ pc' = "commands"
            /\ answer' = "none"
    /\ UNCHANGED <<up, client, ticks, check, log>>

\* touch, setprop, ifconfig, route.
Commands ==
    \/ Goto("commands", "ready") /\ up' = TRUE
       /\ Quiet /\ UNCHANGED <<client, ticks, answer, starts, check, log>>
    \/ Goto("commands", "failed") /\ up' \in {up, TRUE}
       /\ Quiet /\ UNCHANGED <<client, ticks, answer, starts, check, log>>

Ready ==
    /\ Goto("ready", "threads")
    /\ change_state("READY")
    /\ UNCHANGED <<up, client, ticks, answer, starts, check, log>>

\* pthread_create, twice; each may fail.
Threads ==
    /\ \/ Goto("threads", "waiting") /\ logcat' = [logcat EXCEPT ![starts] = "started"]
       \/ Goto("threads", "failed") /\ logcat' = [logcat EXCEPT ![starts] = "started"]
       \/ Goto("threads", "failed") /\ UNCHANGED logcat
    /\ ticks' = 0
    /\ Quiet /\ UNCHANGED <<up, client, answer, starts, check, acked>>

\* while (client_ip == NULL && n++ <= TIMEOUT) sleep(1)
Tick ==
    /\ pc = "waiting" /\ ~client /\ ticks <= Timeout
    /\ ticks' = ticks + 1
    /\ Quiet /\ UNCHANGED <<up, client, pc, answer, starts, check, log>>

TimeoutDone ==
    /\ client \/ ticks > Timeout
    /\ Goto("waiting", "waited")
    /\ Quiet /\ UNCHANGED <<up, client, ticks, answer, starts, check, log>>

\* Mutant: nothing is taken back.
NoTakeBack ==
    /\ Goto("waited", "connect")
    /\ Quiet /\ UNCHANGED <<up, client, ticks, answer, starts, check, log>>

\* if (client_ip == NULL) stop_tethering()
TakeBack ==
    /\ Goto("waited", IF client THEN "connect" ELSE "late")
    /\ Quiet /\ UNCHANGED <<up, client, ticks, answer, starts, check, log>>

\* change_state(CONNECT), also when there is no client.
Connect ==
    /\ Goto("connect", "return")
    /\ change_state("CONNECT")
    /\ UNCHANGED <<up, client, ticks, answer, starts, check, log>>

Return ==
    /\ Goto("return", "idle")
    /\ answer' = IF client THEN "ip" ELSE "null"
    /\ Quiet /\ UNCHANGED <<up, client, ticks, starts, check, log>>

-----------------------------------------------------------------------------
(* stop_tethering, called from outside ("stop"), from start_tethering when *)
(* a step has failed ("failed") or when nobody has answered ("late").      *)

StopTethering ==
    /\ Goto("idle", "stop")
    /\ Quiet /\ UNCHANGED <<up, client, ticks, answer, starts, check, log>>

After == [stop |-> "stop_off", failed |-> "failed_off", late |-> "late_off"]

\* Mutant: a step that fails leaves the interface as it is.
DownUnlessFailed ==
    /\ pc \in DOMAIN After
    /\ pc' = After[pc]
    /\ up' = IF pc = "failed" THEN up ELSE FALSE
    /\ client' = FALSE
    /\ Quiet /\ UNCHANGED <<ticks, answer, starts, check, log>>

\* ifconfig down; client_ip = NULL.
Down ==
    /\ pc \in DOMAIN After
    /\ pc' = After[pc]
    /\ up' = FALSE /\ client' = FALSE
    /\ Quiet /\ UNCHANGED <<ticks, answer, starts, check, log>>

\* change_state(OFF); setprop.
Off ==
    /\ \/ Goto("stop_off", "idle") /\ UNCHANGED answer
       \/ Goto("failed_off", "idle") /\ answer' = "null"
       \/ Goto("late_off", "connect") /\ UNCHANGED answer
    /\ change_state("OFF")
    /\ UNCHANGED <<up, client, ticks, starts, check, log>>

-----------------------------------------------------------------------------
(* is_tethering_active from another thread: netcfg, then change_state.     *)

Netcfg ==
    /\ check = "idle" /\ up
    /\ check' = "active"
    /\ Quiet /\ UNCHANGED <<up, client, caller, log>>

NetcfgReady ==
    /\ check = "active"
    /\ check' = "idle"
    /\ change_state("READY")
    /\ UNCHANGED <<up, client, caller, log>>

-----------------------------------------------------------------------------
(* The log threads.                                                        *)

\* logcat -c clears the log of all of them, but a line already in the pipe of
\* another one stays; either command may fail.
Clear(i) ==
    /\ logcat[i] = "started"
    /\ \E to \in {"reading", "off"} : logcat' = [logcat EXCEPT ![i] = to]
    /\ acked' \in {acked, {}}
    /\ Quiet /\ UNCHANGED <<up, client, caller, check>>

\* The DHCP server has given a client its address.
Dhcpack ==
    /\ up
    /\ acked' = acked \cup {i \in Starts : logcat[i] = "reading"}
    /\ Quiet /\ UNCHANGED <<up, client, caller, check, logcat>>

\* client_ip = tokens[4], which is NULL when a long process number and a
\* client without a name leave the line with fewer tokens.
Read(i) ==
    /\ i \in acked /\ logcat[i] = "reading"
    /\ acked' = acked \ {i}
    /\ logcat' = [logcat EXCEPT ![i] = "off"]
    /\ client' \in Tokens
    /\ Quiet /\ UNCHANGED <<up, caller, check>>

-----------------------------------------------------------------------------
(* getStateBlocking                                                        *)

Wait(r) ==
    /\ r \notin asleep \cup awake
    /\ asleep' = asleep \cup {r}
    /\ UNCHANGED <<state, up, client, caller, check, log, awake>>

\* The mutex is free again and state is read without it.
Learn(r) ==
    /\ r \in awake
    /\ awake' = awake \ {r}
    /\ UNCHANGED <<state, up, client, caller, check, log, asleep>>

-----------------------------------------------------------------------------
Caller ==
    \/ Commands \/ Ready \/ Threads \/ Tick \/ TimeoutDone \/ TakeBack
    \/ Connect \/ Return \/ Down \/ Off

UsbNext ==
    \/ StartTethering \/ StopTethering \/ Caller
    \/ Netcfg \/ NetcfgReady \/ Dhcpack
    \/ \E i \in Starts : Clear(i) \/ Read(i)
    \/ \E r \in Readers : Wait(r) \/ Learn(r)

UsbSpec == UsbInit /\ [][UsbNext]_usb

\* A call that has begun goes on, and so does a reader that was woken.
UsbFairSpec == UsbSpec /\ WF_usb(Caller) /\ \A r \in Readers : WF_usb(Learn(r))

-----------------------------------------------------------------------------
(* Properties.                                                             *)

\* The variables have their types, n stays within TIMEOUT + 1, and no log
\* thread runs that no call has started.
UsbTypeOK ==
    /\ state \in {"UNKNOWN", "INIT", "READY", "CONNECT", "OFF"}
    /\ up \in BOOLEAN /\ client \in BOOLEAN
    /\ pc \in {"idle", "commands", "ready", "threads", "waiting", "waited", "connect", "return",
              "stop", "failed", "late", "stop_off", "failed_off", "late_off"}
    /\ ticks \in 0..Timeout + 1
    /\ answer \in {"none", "null", "host", "ip"}
    /\ check \in {"idle", "active"}
    /\ starts \in 0..MaxStarts
    /\ logcat \in [Starts -> {"off", "started", "reading"}]
    /\ \A i \in Starts : logcat[i] # "off" => i <= starts
    /\ acked \subseteq Starts
    /\ asleep \subseteq Readers /\ awake \subseteq Readers

\* "if a client is connected, return its ip address, null otherwise", and a
\* start_tethering that returns null has put everything back.
NullIsDown == [][answer' = "null" /\ answer # "null" => ~up']_usb

\* When no call is under way and the state is OFF, the interface is down,
\* whatever step of the last start has failed.
OffIsDown == pc = "idle" /\ state = "OFF" => ~up

\* "Block until status changed": whatever step of a call fails or is raced by a
\* log thread, a change that is announced before the call returns lets a reader
\* go.  It is one reader: of several that wait the others sleep on.
SomeoneHears == pc \notin {"idle", "return"} /\ asleep # {} ~> awake # {}
=============================================================================
