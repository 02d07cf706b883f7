----------------------------- MODULE WsSessions -----------------------------
(***************************************************************************)
(* The websocket sessions of the DAMN server (damn_server.c): the table    *)
(* ws_conn, the civetweb callbacks that use it on the worker threads, and  *)
(* the two detached threads each session starts: ws_server_thread sends    *)
(* PINGs and cleans up, read_thread forwards what a traced thread of an    *)
(* app pushes to the browser tab that shows it.                            *)
(*                                                                         *)
(* A worker keeps its struct mg_connection for all the connections it      *)
(* serves one after the other, so a conn pointer names the worker and not  *)
(* the connection; and the names in ws_conn are pointers into the request  *)
(* buffer of that worker, which the next request overwrites.  No lock      *)
(* protects ws_conn.  A scan of the table is one step; each store that     *)
(* follows from its result is another one.                                 *)
(***************************************************************************)
EXTENDS Integers

CONSTANTS
    Workers,      \* the worker threads, and their connection structures
    Tabs,         \* browser tabs; each connects once
    Names,        \* the traced threads: each is an app and a thread id
    ThreadOf,     \* the traced thread that a tab shows
    CONNECTIONS,  \* number of slots of ws_conn
    Patient,      \* sessions open and close one at a time, one to a thread
    Takes,        \* bound: which worker may take the connection of which tab
    Browsing,     \* bound: the workers that get page requests, too
    Pushing,      \* bound: the traced threads that push messages
    NoWorker,     \* NULL
    NoTab,        \* a worker without a websocket
    NoName        \* a buffer that holds the query of no tab

ASSUME NamesAssumption == \A n \in Names : n = [app |-> n.app, thread |-> n.thread]
ASSUME TabsAssumption == ThreadOf \in [Tabs -> Names]
ASSUME TableAssumption == CONNECTIONS \in Nat \ {0} /\ Patient \in BOOLEAN
ASSUME BoundAssumption == Takes \subseteq Workers \X Tabs /\ Browsing \subseteq Workers
                          /\ Pushing \subseteq Names
ASSUME AbsentAssumption == /\ NoWorker \notin Workers
                           /\ NoTab \notin Tabs
                           /\ NoName \notin Names

VARIABLES
    conn,      \* ws_conn[i].conn
    closing,   \* ws_conn[i].closing
    sApp,      \* the worker whose buffer ws_conn[i].sApp points into, or NULL
    sThread,   \* the same for ws_conn[i].sThread
    rest,      \* the buffer that strtok goes on in, shared by all threads
    tok,       \* the buffer that a worker's last token is in
    raced,     \* history: slots filled while another worker filled one, too
    wpc,       \* where each worker is
    tab,       \* the tab at the other end of the worker's socket
    buf,       \* the query in the worker's request buffer
    found,     \* the slot a worker's scan has found
    server,    \* the ws_server_thread started for each tab
    reader,    \* the read_thread started for each tab
    msgPipes,  \* names whose message pipe exists
    appReads,  \* names whose app thread waits on the current receive pipe
    last       \* what the last step delivered between a thread and a tab

table   == <<conn, closing, sApp, sThread, raced>>
strtok  == <<rest, tok>>
workers == <<wpc, tab, buf, found, strtok>>
pipes   == <<msgPipes, appReads>>
vars    == <<table, workers, server, reader, pipes, last>>

-----------------------------------------------------------------------------
Nothing == [kind |-> "nothing", thread |-> NoName, tab |-> NoTab, by |-> NoTab]

\* A step that delivers something, for the session of tab u, and one that does
\* not.
Deliver(kind, n, t, u) == last' = [kind |-> kind, thread |-> n, tab |-> t, by |-> u]
Silent == last' = Nothing

Slots == 0..(CONNECTIONS - 1)

\* The slots that the loops "if (ws_conn[i].conn == c)" meet, and the first.
SlotsOf(c) == {i \in Slots : conn[i] = c}
First(S)   == CHOOSE i \in S : \A j \in S : i <= j

\* What the pointers sApp and sThread of a slot point to now: the app of one
\* query and the thread of another name some thread together, or none.
At(p)     == IF p = NoWorker THEN NoName ELSE buf[p]
NameAt(i) == LET a == At(sApp[i])
                 h == At(sThread[i])
                 n == [app |-> a.app, thread |-> h.thread]
             IN  IF NoName \in {a, h} \/ n \notin Names THEN NoName ELSE n

\* The stores of websocket_connect_handler, in their order.
FillPcs    == {"take", "clear", "cutApp", "storeApp", "cutThread", "storeThread"}
Filling(w) == wpc[w] \in FillPcs

Opened == {t \in Tabs : \/ server[t].pc # "none"
                        \/ \E w \in Workers : tab[w] = t}

\* No session is being set up or torn down.
Settled ==
    /\ \A w \in Workers : wpc[w] \in {"idle", "open"}
    /\ \A i \in Slots : conn[i] # NoWorker => closing[i] = 0
    /\ \A t \in Tabs : /\ server[t].pc \in {"none", "running", "done"}
                       /\ reader[t].pc # "starting"

\* A tab that shows thread n is connected.
Shown(n) == \E w \in Workers : tab[w] # NoTab /\ ThreadOf[tab[w]] = n

\* When a patient user opens tab t: one tab to a thread, unless it will be
\* refused anyway.
MayOpen(t) == Settled /\ (Shown(ThreadOf[t]) => SlotsOf(NoWorker) = {})

Init ==
    /\ conn = [i \in Slots |-> NoWorker]
    /\ closing = [i \in Slots |-> 0]
    /\ sApp = [i \in Slots |-> NoWorker]
    /\ sThread = [i \in Slots |-> NoWorker]
    /\ raced = {}
    /\ rest = NoWorker
    /\ tok = [w \in Workers |-> NoWorker]
    /\ wpc = [w \in Workers |-> "idle"]
    /\ tab = [w \in Workers |-> NoTab]
    /\ buf = [w \in Workers |-> NoName]
    /\ found = [w \in Workers |-> 0]
    /\ server = [t \in Tabs |-> [pc |-> "none", slot |-> 0, conn |-> NoWorker]]
    /\ reader = [t \in Tabs |-> [pc |-> "none", name |-> NoName, conn |-> NoWorker,
                                 outlived |-> FALSE]]
    /\ msgPipes = Names
    /\ appReads = Names
    /\ last = Nothing

-----------------------------------------------------------------------------
(* A worker serves a websocket, or a plain page.                           *)

WorkerAt(w, from, to) == wpc[w] = from /\ wpc' = [wpc EXCEPT ![w] = to]

\* The upgrade request of a tab is read into the worker's buffer.  A tab
\* that was refused may come again.
Connect(w, t) ==
    /\ WorkerAt(w, "idle", "connecting")
    /\ t \notin Opened /\ (Patient => MayOpen(t))
    /\ tab' = [tab EXCEPT ![w] = t]
    /\ buf' = [buf EXCEPT ![w] = ThreadOf[t]]
    /\ Silent
    /\ UNCHANGED <<table, found, strtok, server, reader, pipes>>

\* Mutant: a full table is not noticed.
FindPastEnd(w) ==
    /\ WorkerAt(w, "connecting", "take")
    /\ found' = [found EXCEPT ![w] = IF SlotsOf(NoWorker) = {} THEN CONNECTIONS
                                      ELSE First(SlotsOf(NoWorker))]
    /\ Silent
    /\ UNCHANGED <<table, tab, buf, strtok, server, reader, pipes>>

\* Mutant: the loop gives up after slot 0.
FindInSlotZero(w) ==
    /\ \/ conn[0] = NoWorker /\ WorkerAt(w, "connecting", "take")
       \/ conn[0] # NoWorker /\ WorkerAt(w, "connecting", "refused")
    /\ found' = [found EXCEPT ![w] = 0]
    /\ Silent
    /\ UNCHANGED <<table, tab, buf, strtok, server, reader, pipes>>

\* websocket_connect_handler: look for a free slot; without one the
\* handshake is refused.  Another worker may be in here, too.
FindSlot(w) ==
    LET i      == First(SlotsOf(NoWorker))
        others == {v \in Workers : v # w /\ Filling(v)}
    IN  /\ \/ /\ SlotsOf(NoWorker) # {}
              /\ WorkerAt(w, "connecting", "take")
              /\ found' = [found EXCEPT ![w] = i]
              /\ raced' = IF others = {} THEN raced \ {i}
                          ELSE raced \cup {i} \cup {found[v] : v \in others}
           \/ /\ SlotsOf(NoWorker) = {}
              /\ WorkerAt(w, "connecting", "refused")
              /\ UNCHANGED <<found, raced>>
        /\ Silent
        /\ UNCHANGED <<conn, closing, sApp, sThread, tab, buf, strtok, server, reader, pipes>>

\* ws_conn[i].conn = conn ...
TakeConn(w) ==
    /\ WorkerAt(w, "take", "clear")
    /\ conn' = [conn EXCEPT ![found[w]] = w]
    /\ Silent
    /\ UNCHANGED <<closing, sApp, sThread, raced, tab, buf, found, strtok, server, reader, pipes>>

\* Mutant: closing is not reset.
KeepClosing(w) ==
    /\ WorkerAt(w, "clear", "cutApp")
    /\ Silent
    /\ UNCHANGED <<table, tab, buf, found, strtok, server, reader, pipes>>

\* ... closing = 0 ...
ClearClosing(w) ==
    /\ WorkerAt(w, "clear", "cutApp")
    /\ closing' = [closing EXCEPT ![found[w]] = 0]
    /\ Silent
    /\ UNCHANGED <<conn, sApp, sThread, raced, tab, buf, found, strtok, server, reader, pipes>>

\* ... strtok of the query, which it remembers for the next call ...
CutApp(w) ==
    /\ WorkerAt(w, "cutApp", "storeApp")
    /\ rest' = w
    /\ Silent
    /\ UNCHANGED <<table, tab, buf, found, tok, server, reader, pipes>>

\* Mutant: sApp of the previous session is kept.
KeepApp(w) ==
    /\ WorkerAt(w, "storeApp", "cutThread")
    /\ sApp' = [sApp EXCEPT ![found[w]] = IF @ = NoWorker THEN w ELSE @]
    /\ Silent
    /\ UNCHANGED <<conn, closing, sThread, raced, tab, buf, found, strtok, server, reader, pipes>>

\* ... its first token ...
StoreApp(w) ==
    /\ WorkerAt(w, "storeApp", "cutThread")
    /\ sApp' = [sApp EXCEPT ![found[w]] = w]
    /\ Silent
    /\ UNCHANGED <<conn, closing, sThread, raced, tab, buf, found, strtok, server, reader, pipes>>

\* ... strtok of what is left, of the query of whoever called it last ...
CutThread(w) ==
    /\ WorkerAt(w, "cutThread", "storeThread")
    /\ tok' = [tok EXCEPT ![w] = rest]
    /\ rest' = NoWorker
    /\ Silent
    /\ UNCHANGED <<table, tab, buf, found, server, reader, pipes>>

\* ... and the second token.
StoreThread(w) ==
    /\ WorkerAt(w, "storeThread", "ready")
    /\ sThread' = [sThread EXCEPT ![found[w]] = tok[w]]
    /\ found' = [found EXCEPT ![w] = 0]
    /\ tok' = [tok EXCEPT ![w] = NoWorker]
    /\ Silent
    /\ UNCHANGED <<conn, closing, sApp, raced, tab, buf, rest, server, reader, pipes>>

FillSlot(w) == \/ TakeConn(w) \/ ClearClosing(w) \/ CutApp(w) \/ StoreApp(w)
               \/ CutThread(w) \/ StoreThread(w)

\* websocket_ready_handler: a server thread for the first slot of this conn.
ReadySession(w) ==
    /\ WorkerAt(w, "ready", "open")
    /\ IF SlotsOf(w) # {}
         THEN server' = [server EXCEPT ![tab[w]].pc = "starting",
                                       ![tab[w]].slot = First(SlotsOf(w))]
         ELSE UNCHANGED server
    /\ Silent
    /\ UNCHANGED <<table, tab, buf, found, strtok, reader, pipes>>

\* websocket_data_handler, TEXT: the command goes to the receive pipe of the
\* thread named in the slot; without that pipe it is dropped.
Command(w) ==
    /\ wpc[w] = "open" /\ SlotsOf(w) # {}
    /\ LET n == NameAt(First(SlotsOf(w)))
       IN IF n \in appReads THEN Deliver("command", n, tab[w], tab[w]) ELSE Silent
    /\ UNCHANGED <<table, workers, server, reader, pipes>>

\* websocket_data_handler, CONNECTION_CLOSE: the first slot is marked.
CloseFrame(w) ==
    /\ WorkerAt(w, "open", "closing") /\ (Patient => Settled)
    /\ IF SlotsOf(w) # {} /\ closing[First(SlotsOf(w))] = 0
         THEN closing' = [closing EXCEPT ![First(SlotsOf(w))] = 1]
         ELSE UNCHANGED closing
    /\ Silent
    /\ UNCHANGED <<conn, sApp, sThread, raced, tab, buf, found, strtok, server, reader, pipes>>

\* read_websocket ends because the client went away without a word.
ConnectionLost(w) ==
    /\ WorkerAt(w, "open", "closing") /\ (Patient => Settled)
    /\ Silent
    /\ UNCHANGED <<table, tab, buf, found, strtok, server, reader, pipes>>

\* websocket_close_handler: every slot of this conn is marked.
MarkClosing(w) ==
    closing' = [i \in Slots |-> IF conn[i] = w THEN 1 ELSE closing[i]]

CloseConnection(w) ==
    /\ WorkerAt(w, "closing", "idle") \/ WorkerAt(w, "refused", "idle")
    /\ MarkClosing(w)
    /\ tab' = [tab EXCEPT ![w] = NoTab]
    /\ Silent
    /\ UNCHANGED <<conn, sApp, sThread, raced, buf, found, strtok, server, reader, pipes>>

\* A page request: it overwrites the buffer, and its end is reported to
\* websocket_close_handler like the end of a websocket.
ServePage(w) ==
    /\ wpc[w] = "idle" /\ (Patient => Settled)
    /\ buf' = [buf EXCEPT ![w] = NoName]
    /\ MarkClosing(w)
    /\ Silent
    /\ UNCHANGED <<conn, sApp, sThread, raced, wpc, tab, found, strtok, server, reader, pipes>>

-----------------------------------------------------------------------------
(* ws_server_thread, one for each session.                                 *)

ServerAt(t, from, to) == server[t].pc = from /\ server' = [server EXCEPT ![t].pc = to]

ServerStart(t) ==
    /\ server[t].pc = "starting"
    /\ server' = [server EXCEPT ![t].pc = "running",
                                ![t].conn = conn[server[t].slot]]
    /\ reader' = [reader EXCEPT ![t].pc = "starting"]
    /\ Silent
    /\ UNCHANGED <<table, workers, pipes>>

\* Once a second, while the slot is not closing.
Ping(t) ==
    /\ server[t].pc = "running" /\ closing[server[t].slot] = 0
    /\ server[t].conn # NoWorker
    /\ Deliver("ping", NoName, tab[server[t].conn], t)
    /\ UNCHANGED <<table, workers, server, reader, pipes>>

ServerLeave(t) ==
    /\ ServerAt(t, "running", "removing")
    /\ closing[server[t].slot] # 0
    /\ Silent
    /\ UNCHANGED <<table, workers, reader, pipes>>

\* Mutant: only the receive pipe is unlinked.
RemoveReceivePipe(t) ==
    /\ ServerAt(t, "removing", "clearing")
    /\ appReads' = appReads \ {NameAt(server[t].slot)}
    /\ Silent
    /\ UNCHANGED <<table, workers, reader, msgPipes>>

\* A reader waits in fopen of the pipe of thread n; one that comes no more.
Waits(t, n) == reader[t].pc = "opening" /\ reader[t].name = n
Ended(pc)   == [pc |-> pc, name |-> NoName, conn |-> NoWorker, outlived |-> FALSE]

\* What the reader of tab t is after the pipe of thread n was unlinked: in fopen
\* it waits for good, on a file that no one can open any more; elsewhere it
\* goes on.
Unlinked(t, n) ==
    CASE Waits(t, n) -> Ended("deaf")
      [] reader[t].name = n /\ reader[t].pc \in {"closed", "writing"} ->
           [reader[t] EXCEPT !.outlived = TRUE]
      [] OTHER -> reader[t]

\* The two pipes of the thread named in the slot are unlinked.
RemovePipes(t) ==
    /\ ServerAt(t, "removing", "clearing")
    /\ LET n == NameAt(server[t].slot)
       IN /\ reader' = [u \in Tabs |-> Unlinked(u, n)]
          /\ msgPipes' = msgPipes \ {n}
          /\ appReads' = appReads \ {n}
    /\ Silent
    /\ UNCHANGED <<table, workers>>

\* Mutant: conn is not reset.
ClearNothing(t) ==
    /\ ServerAt(t, "clearing", "marking")
    /\ Silent
    /\ UNCHANGED <<table, workers, reader, pipes>>

\* ws_conn[wsd].conn = NULL ...
ClearConn(t) ==
    /\ ServerAt(t, "clearing", "marking")
    /\ conn' = [conn EXCEPT ![server[t].slot] = NoWorker]
    /\ Silent
    /\ UNCHANGED <<closing, sApp, sThread, raced, workers, reader, pipes>>

\* ... and, when others may already have seen it, closing = 2.
MarkFree(t) ==
    /\ server[t].pc = "marking"
    /\ server' = [server EXCEPT ![t] = [pc |-> "done", slot |-> 0, conn |-> NoWorker]]
    /\ closing' = [closing EXCEPT ![server[t].slot] = 2]
    /\ Silent
    /\ UNCHANGED <<conn, sApp, sThread, raced, workers, reader, pipes>>

-----------------------------------------------------------------------------
(* read_thread, one for each session: it opens its pipe, waits there for a  *)
(* thread that pushes, reads, closes and writes, and comes back.  Closing   *)
(* is not looked at.                                                        *)

\* The pipe is made if it is not there.
ReaderStart(t) ==
    /\ reader[t].pc = "starting"
    /\ LET n == NameAt(server[t].slot)
       IN /\ reader' = [reader EXCEPT ![t] = [pc |-> "closed", name |-> n,
                                              conn |-> conn[server[t].slot],
                                              outlived |-> FALSE]]
          /\ msgPipes' = msgPipes \cup {n}
    /\ Silent
    /\ UNCHANGED <<table, workers, server, appReads>>

\* fopen, which fails when the pipe is gone.
OpenPipe(t) ==
    /\ reader[t].pc = "closed"
    /\ reader' = [reader EXCEPT ![t] = IF @.name \in msgPipes THEN [@ EXCEPT !.pc = "opening"]
                                                              ELSE Ended("dead")]
    /\ Silent
    /\ UNCHANGED <<table, workers, server, pipes>>

\* pushJNI: an app thread opens its pipe, made again if it is not there, and
\* whoever waits in fopen returns; fgets gets the message, and the reader
\* closes the pipe; or it gets none, and the reader ends: another reader was
\* faster, or the app thread has closed the pipe behind the message before.
Push(n) ==
    /\ msgPipes' = msgPipes \cup {n}
    /\ \E R \in SUBSET {t \in Tabs : Waits(t, n)} :
         reader' = [t \in Tabs |-> CASE t \in R -> [reader[t] EXCEPT !.pc = "writing"]
                                    [] t \notin R /\ Waits(t, n) -> Ended("eof")
                                    [] OTHER -> reader[t]]
    /\ Silent
    /\ UNCHANGED <<table, workers, server, appReads>>

\* The message goes to the connection that conn stands for now.
WriteMessage(t) ==
    /\ reader[t].pc = "writing"
    /\ IF reader[t].conn = NoWorker
         THEN /\ reader' = [reader EXCEPT ![t] = Ended("dead")]
              /\ Silent
         ELSE /\ reader' = [reader EXCEPT ![t].pc = "closed"]
              /\ Deliver("message", reader[t].name, tab[reader[t].conn], t)
    /\ UNCHANGED <<table, workers, server, pipes>>

Reader(t) == ReaderStart(t) \/ OpenPipe(t) \/ WriteMessage(t)

-----------------------------------------------------------------------------
Worker(w) ==
    \/ \E t \in Tabs : <<w, t>> \in Takes /\ Connect(w, t)
    \/ FindSlot(w) \/ FillSlot(w) \/ ReadySession(w)
    \/ Command(w) \/ CloseFrame(w) \/ ConnectionLost(w)
    \/ CloseConnection(w)
    \/ w \in Browsing /\ ServePage(w)

Server(t) ==
    \/ ServerStart(t) \/ Ping(t) \/ ServerLeave(t)
    \/ RemovePipes(t) \/ ClearConn(t) \/ MarkFree(t)

Next ==
    \/ \E w \in Workers : Worker(w)
    \/ \E t \in Tabs : Server(t) \/ Reader(t)
    \/ \E n \in Pushing : Push(n)

Spec == Init /\ [][Next]_vars

\* A worker goes on in the callbacks that wait for nothing, and the server
\* threads run; clients need not come, stay, go or send, and what waits for a
\* lock or a pipe may wait for ever.
Fairness ==
    /\ \A w \in Workers : WF_vars(FindSlot(w) \/ FillSlot(w) \/ CloseConnection(w))
    /\ \A t \in Tabs : WF_vars(Server(t))

FairSpec == Spec /\ Fairness
-----------------------------------------------------------------------------
TypeOK ==
    /\ conn \in [Slots -> Workers \cup {NoWorker}]
    /\ closing \in [Slots -> 0..2]
    /\ sApp \in [Slots -> Workers \cup {NoWorker}]
    /\ sThread \in [Slots -> Workers \cup {NoWorker}]
    /\ raced \subseteq Slots
    /\ rest \in Workers \cup {NoWorker}
    /\ tok \in [Workers -> Workers \cup {NoWorker}]
    /\ wpc \in [Workers -> {"idle", "connecting", "ready", "open", "closing", "refused"}
                            \cup FillPcs]
    /\ tab \in [Workers -> Tabs \cup {NoTab}]
    /\ buf \in [Workers -> Names \cup {NoName}]
    /\ found \in [Workers -> Slots]
    /\ server \in [Tabs -> [pc : {"none", "starting", "running", "removing",
                                  "clearing", "marking", "done"},
                            slot : Slots, conn : Workers \cup {NoWorker}]]
    /\ reader \in [Tabs -> [pc : {"none", "starting", "closed", "opening", "writing", "deaf", "eof", "dead"},
                            name : Names \cup {NoName},
                            conn : Workers \cup {NoWorker}, outlived : BOOLEAN]]
    /\ msgPipes \subseteq Names \cup {NoName}
    /\ appReads \subseteq Names
    /\ last \in [kind : {"nothing", "command", "ping", "message"},
                thread : Names \cup {NoName}, tab : Tabs \cup {NoTab}, by : Tabs \cup {NoTab}]

\* A command reaches the thread whose tab sent it, and no other, although the
\* names in the table are pointers into buffers that later requests overwrite;
\* unless its slot was filled while another worker filled one, too
\* (damn_server.c:316-327).
ObeyedByOwnThread ==
    last.kind = "command" =>
        \/ last.thread = ThreadOf[last.tab]
        \/ \E w \in Workers : tab[w] = last.tab /\ First(SlotsOf(w)) \in raced

\* A worker that left its websocket has marked every slot that names it: no
\* slot of a departed client goes on being pinged, unless it was filled while
\* another worker filled one, too.
DepartedAreMarked ==
    \A w \in Workers, i \in Slots :
        wpc[w] = "idle" /\ conn[i] = w => closing[i] # 0 \/ i \in raced

\* A message of a thread appears in a tab of that thread, and in no other,
\* unless its reader was not in fopen when the pipe of its session was
\* unlinked (damn_server.c:243-256, 292).
ShownInOwnTab ==
    last.kind = "message" /\ last.tab # NoTab =>
        last.thread = ThreadOf[last.tab] \/ reader[last.by].outlived

\* The session of an open tab is whole: one slot of its own, watched by its
\* own server thread, and a reader for its own thread and connection, whose
\* pipe is there when it comes back to open it; unless it has read the end of
\* file (damn_server.c:249).
Whole(w) ==
    LET t == tab[w]
    IN  /\ \E i \in Slots : /\ SlotsOf(w) = {i} /\ closing[i] = 0
                            /\ server[t].slot = i /\ server[t].conn = w
        /\ server[t].pc = "running"
        /\ \/ /\ reader[t].pc \in {"closed", "opening", "writing"}
              /\ reader[t].name = ThreadOf[t] /\ reader[t].name \in msgPipes
              /\ reader[t].conn = w /\ ~reader[t].outlived
           \/ reader[t].pc = "eof"

OpenIsWhole ==
    Settled => \A w \in Workers : wpc[w] = "open" => Whole(w)

\* A client is refused only when as many tabs are open as there are slots.
RefusedOnlyWhenFull ==
    (\E w \in Workers : wpc[w] = "refused")
        => \A i \in Slots : conn[i] # NoWorker /\ closing[i] = 0

\* "reset connection information to allow reuse by new client": a slot that
\* is marked for release is released, and may be with a new client by then.
SlotsAreReset == \A i \in Slots :
    closing[i] = 1 ~> conn[i] = NoWorker \/ closing[i] = 0

\* "Send periodic PING to assure websocket remains connected, except if we
\* are closing": an open websocket is sent a PING.
OpenIsPinged == \A t \in Tabs :
    (\E w \in Workers : wpc[w] = "open" /\ tab[w] = t)
        ~> (last.kind = "ping" /\ last.tab = t) \/ \A w \in Workers : tab[w] # t
=============================================================================
