-------------------------- MODULE ServerLifecycle --------------------------
(***************************************************************************)
(* Starting and stopping the DAMN server (start_server and stop_server in  *)
(* damn_server.c).  A running server waits in fopen on a named pipe; who   *)
(* wants to stop it opens the same file name for writing.  That open waits *)
(* for a reader when the name is a pipe, and makes a regular file when     *)
(* there is none; mknod of the next server then leaves that file alone.    *)
(* Processes that want to be the server race for the listening port, and   *)
(* may be killed at any time.                                              *)
(***************************************************************************)
EXTENDS Integers, FiniteSets

CONSTANTS
    Servers,    \* processes that call start_server
    Stoppers,   \* threads that call stop_server
    MaxCalls,   \* bound: calls of stop_server
    MaxFiles,   \* bound: files ever made under the name
    Nobody

ASSUME LifecycleAssumption == /\ Nobody \notin Servers
                              /\ Servers \cap Stoppers = {}
                              /\ MaxCalls \in Nat /\ MaxFiles \in Nat

VARIABLES
    name,    \* the file DAMN_SERVER_FILE names now; 0: none
    made,    \* number of files made so far
    kind,    \* "fifo" or "regular", for each file made
    port,    \* the process that listens on the ports
    spc,     \* where each server is
    ppc,     \* where each caller of stop_server is
    fd,      \* the file each of them has open or waits to open; 0: none
    calls,   \* history: how often stop_server was called
    ends     \* history: how often start_server has gone on to its end

files == <<name, made, kind>>
vars  == <<files, port, spc, ppc, fd, calls, ends>>

Init ==
    /\ name = 0 /\ made = 0
    /\ kind = [i \in 1..MaxFiles |-> "fifo"]
    /\ port = Nobody
    /\ spc = [s \in Servers |-> "off"]
    /\ ppc = [p \in Stoppers |-> "idle"]
    /\ fd = [u \in Servers \cup Stoppers |-> 0]
    /\ calls = 0 /\ ends = 0

-----------------------------------------------------------------------------
\* Servers that have file i open for reading, or wait for a writer of it;
\* callers of stop_server that have it open, or wait for a reader.
Reading(i) == {s \in Servers : fd[s] = i /\ spc[s] \in {"opening", "reading", "read"}}
Blocked(i) == {p \in Stoppers : fd[p] = i /\ ppc[p] = "blocked"}
Open(i)    == {p \in Stoppers : fd[p] = i /\ ppc[p] = "open"}

Make(k) ==
    /\ made < MaxFiles
    /\ made' = made + 1 /\ name' = made'
    /\ kind' = [kind EXCEPT ![made'] = k]

ServerAt(s, from, to) == spc[s] = from /\ spc' = [spc EXCEPT ![s] = to]

-----------------------------------------------------------------------------
(* start_server                                                            *)

Start(s) ==
    /\ ServerAt(s, "off", "init")
    /\ UNCHANGED <<files, port, ppc, fd, calls, ends>>

\* mg_start binds the ports.
MgStart(s) ==
    /\ port = Nobody
    /\ ServerAt(s, "init", "up")
    /\ port' = s
    /\ UNCHANGED <<files, ppc, fd, calls, ends>>

\* Mutant: the server goes on without the ports.
MgStartUnchecked(s) ==
    /\ port # Nobody
    /\ ServerAt(s, "init", "up")
    /\ UNCHANGED <<files, port, ppc, fd, calls, ends>>

\* Without them, a certificate or memory it returns NULL, and mg_get_option(NULL,
\* ..), called for the greeting, kills the process.
MgStartFails(s) ==
    /\ ServerAt(s, "init", "off")
    /\ UNCHANGED <<files, port, ppc, fd, calls, ends>>

\* mknod does nothing when the name is taken.
Mknod(s) ==
    /\ ServerAt(s, "up", "made")
    /\ IF name = 0 THEN Make("fifo") ELSE UNCHANGED files
    /\ UNCHANGED <<port, ppc, fd, calls, ends>>

\* fopen "r".
OpenRead(s) ==
    /\ name # 0
    /\ ServerAt(s, "made", IF kind[name] = "regular" \/ Blocked(name) \cup Open(name) # {}
                           THEN "reading" ELSE "opening")
    /\ fd' = [fd EXCEPT ![s] = name]
    /\ ppc' = [p \in Stoppers |-> IF p \in Blocked(name) THEN "open" ELSE ppc[p]]
    /\ UNCHANGED <<files, port, calls, ends>>

\* fgets: at the end of the file, whatever it has read.
Fgets(s) ==
    /\ ServerAt(s, "reading", "read")
    /\ kind[fd[s]] = "regular" \/ Open(fd[s]) = {}
    /\ UNCHANGED <<files, port, ppc, fd, calls, ends>>

\* Mutant: the file is not closed.
LeaveOpen(s) ==
    /\ ServerAt(s, "read", "closed")
    /\ UNCHANGED <<files, port, ppc, fd, calls, ends>>

Fclose(s) ==
    /\ ServerAt(s, "read", "closed")
    /\ fd' = [fd EXCEPT ![s] = 0]
    /\ UNCHANGED <<files, port, ppc, calls, ends>>

\* Mutant: the file is left.
KeepFile(s) ==
    /\ ServerAt(s, "closed", "unlinked")
    /\ ends' = ends + 1
    /\ UNCHANGED <<files, port, ppc, fd, calls>>

\* From here start_server returns, whatever happens but a kill.
Unlink(s) ==
    /\ ServerAt(s, "closed", "unlinked")
    /\ name' = 0
    /\ ends' = ends + 1
    /\ UNCHANGED <<made, kind, port, ppc, fd, calls>>

\* mg_stop: the master gives the ports back first.  Another process can have
\* them while this one still waits for its workers.
CloseListeners(s) ==
    /\ ServerAt(s, "unlinked", "stopping")
    /\ port' = Nobody
    /\ UNCHANGED <<files, ppc, fd, calls, ends>>

\* mg_stop and start_server return.
MgStop(s) ==
    /\ ServerAt(s, "stopping", "off")
    /\ UNCHANGED <<files, port, ppc, fd, calls, ends>>

\* The process is killed.
Kill(s) ==
    /\ spc[s] # "off"
    /\ spc' = [spc EXCEPT ![s] = "off"]
    /\ fd' = [fd EXCEPT ![s] = 0]
    /\ port' = IF port = s THEN Nobody ELSE port
    /\ UNCHANGED <<files, ppc, calls, ends>>

-----------------------------------------------------------------------------
(* stop_server                                                             *)

\* Mutant: the waiting server is not woken (an open that does not block).
OpenWriteQuietly(p) ==
    /\ ppc[p] = "idle" /\ calls < MaxCalls
    /\ calls' = calls + 1
    /\ IF name = 0 THEN Make("regular") ELSE UNCHANGED files
    /\ fd' = [fd EXCEPT ![p] = name']
    /\ ppc' = [ppc EXCEPT ![p] = "open"]
    /\ UNCHANGED <<port, spc, ends>>

\* fopen "w".
OpenWrite(p) ==
    /\ ppc[p] = "idle" /\ calls < MaxCalls
    /\ calls' = calls + 1
    /\ IF name = 0 THEN Make("regular") ELSE UNCHANGED files
    /\ fd' = [fd EXCEPT ![p] = name']
    /\ ppc' = [ppc EXCEPT ![p] = IF kind'[name'] = "fifo" /\ Reading(name') = {} THEN "blocked" ELSE "open"]
    /\ spc' = [s \in Servers |-> IF spc[s] = "opening" /\ fd[s] = name' THEN "reading" ELSE spc[s]]
    /\ UNCHANGED <<port, ends>>

\* fputs, fclose, "return true".
StopReturns(p) ==
    /\ ppc[p] = "open"
    /\ ppc' = [ppc EXCEPT ![p] = "idle"]
    /\ fd' = [fd EXCEPT ![p] = 0]
    /\ UNCHANGED <<files, port, spc, calls, ends>>

-----------------------------------------------------------------------------
Server(s) ==
    \/ MgStart(s) \/ MgStartFails(s) \/ Mknod(s) \/ OpenRead(s)
    \/ Fgets(s) \/ Fclose(s) \/ Unlink(s) \/ CloseListeners(s) \/ MgStop(s)

Stopper(p) == OpenWrite(p) \/ StopReturns(p)

Next ==
    \/ \E s \in Servers : Server(s) \/ Start(s) \/ Kill(s)
    \/ \E p \in Stoppers : Stopper(p)

Spec == Init /\ [][Next]_vars

\* A started server and a caller that has opened the file go on.
Fairness ==
    /\ \A s \in Servers : WF_vars(Server(s))
    /\ \A p \in Stoppers : WF_vars(StopReturns(p))

FairSpec == Spec /\ Fairness

-----------------------------------------------------------------------------
(* Properties.                                                             *)

\* The variables have their types; a file is open just while a caller needs it.
TypeOK ==
    /\ made \in 0..MaxFiles /\ name \in {0, made}
    /\ kind \in [1..MaxFiles -> {"fifo", "regular"}]
    /\ port \in Servers \cup {Nobody}
    /\ spc \in [Servers -> {"off", "init", "up", "made", "opening", "reading", "read",
                            "closed", "unlinked", "stopping"}]
    /\ ppc \in [Stoppers -> {"idle", "blocked", "open"}]
    /\ fd \in [Servers \cup Stoppers -> 0..made]
    /\ \A s \in Servers : fd[s] # 0 <=> spc[s] \in {"opening", "reading", "read"}
    /\ \A p \in Stoppers : fd[p] # 0 <=> ppc[p] # "idle"
    /\ calls \in 0..MaxCalls /\ ends \in Nat

\* The file that a server is about to open is there: fopen cannot return
\* NULL, which fgets would not survive.  It depends on the order of unlink
\* and mg_stop, in which the ports are free before the server has ended, and
\* on the ports keeping other servers out until then.
FileIsThere == \A s \in Servers : spc[s] = "made" => name # 0

\* Every end of start_server answers a call of stop_server of its own:
\* neither a left-over file nor a second caller stops two servers.
StopsAreAnsweredOnce == ends <= calls

\* "Stop the server and cause 'start_server' to return": once stop_server has
\* opened the file that the server reads, or has made a file of its own before
\* the server came, that server goes down; and a call that came before the
\* server does not wait in vain unless the server is killed.
StopStops ==
    \A s \in Servers, p \in Stoppers :
        /\ (port = s /\ ppc[p] = "open" /\ fd[p] = name
              /\ (fd[s] = name \/ kind[name] = "regular"))
            ~> port # s
        /\ (spc[s] \in {"up", "made"} /\ ppc[p] = "blocked" /\ fd[p] = name)
            ~> ppc[p] # "blocked" \/ spc[s] = "off"
=============================================================================
