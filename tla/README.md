# DAMN: a verification project

DAMN traces and steps Android apps. An Xposed module hooks the methods of an app; a native web server
(damn-server, on top of the embedded library civetweb) shows the calls in a browser and sends the commands
*play*, *pause* and *step* back. App and server talk through named pipes, server and browser through
websockets. This directory holds TLA+ models of these parts, the TLC configurations that check them, and
TLAPS proofs of the most important properties.

    traced app (Java, Xposed)             damn-server (C, JNI)                       browser
    app threads: hooks, waits    -pipe->  read_thread       } of each     -wss->     one tab for each
    XListener of each thread     <-pipe-  websocket handler } session     <-wss-     traced thread
                                          ws_server_thread  }
                                          civetweb: master, workers, connections
    user interface of DAMN (Java)  --file, pipe-->  start_server / stop_server, USB tethering, package files

To run a check: `tlc -config MCWorkerPool_safety.cfg MCWorkerPool`; to run the proofs of a module:
`tlapm WorkerPoolProofs.tla`.

## 1. Inventory

Every component, with its state, its operations, what makes it hard, and what makes it correct. The last
column names the module; `PROJECT.json` lists the source files, and for each definition the lines it models.

| component | state | operations | hard behaviour | correct when | module |
|---|---|---|---|---|---|
| civetweb worker pool (`civetweb.c`) | ring of accepted sockets with running indices, `num_threads`, `stop_flag`, a mutex and three condition variables | `produce_socket`, `consume_socket`, `worker_thread_run`, `master_thread_run`, `mg_start`, `mg_stop`, `free_context` | lost wake-ups, full ring, start-up failures, freeing what others still use | each connection is served at most once and in order; nobody sleeps while there is work; memory is freed when nobody needs it; stop ends | `WorkerPool`, abstract `SocketFifo` |
| browser connections (`civetweb.c`, handlers of `damn_server.c`) | `buf`, `data_len`, `request_len`, the frame at hand, `conn->mutex`, the socket | `read_request`, `handle_request`, `mg_read`, `read_websocket`, `mg_websocket_write`, `close_connection`, `begin_request_handler`, `websocket_data_handler` | pieces of any size, read-ahead, time limits, several writers on one socket | frames arrive whole, in order, once; written frames do not mix; a live browser is answered and, while it is pinged, not dropped; the worker comes free | `HttpConnection`, abstract `FrameChannel` |
| websocket sessions (`damn_server.c`) | the unlocked table `ws_conn` of 20 slots, two detached threads for each session | `websocket_connect_handler`, `websocket_ready_handler`, `websocket_data_handler`, `websocket_close_handler`, `ws_server_thread`, `read_thread` | races for slots and for `strtok`, a `conn` pointer that names a worker and not a connection, names that point into a reused buffer, readers that outlive their session | a command reaches only the thread of its tab, a message only the tab of its thread; slots are released; live sessions are pinged | `WsSessions` |
| named pipes (`damn_server.c`, `DAMNServer.java`) | files, data in the kernel, one rwlock for each process | `pushJNI`, `receiveBlockingJNI`, `newAppJNI`, `deleteAppJNI`, `read_thread` | opens that wait, data lost with the last close, removal while in use, full pipe with the lock held | nothing is duplicated or reordered; the lock is freed when its holder need not wait; what a reader has open is handed on | `CommandPipe`, abstract `LossyChannel` |
| stepping (`XDAMNHook`, `XListener`, `XHookAll`) | `hook.threads` (unlocked map), `STEPPING`, `first`, `init_done`, one monitor for all listeners | `beforeHookedMethod`, `afterHookedMethod`, `waitForNextStep`, `XListener.run`, `hook`, the joining threads | test and wait under different monitors, one `notify` for many waiters, lost map entries | only threads that were told to stop do; who stops can be started again | `Stepping` |
| server lifecycle (`start_server`, `stop_server`) | the file they meet in (a pipe, or a regular file made by a stop without a server), the ports | start, stop, being killed | left-over files, two candidates, stop before start | no stop stops two servers; a stop that meets a server stops it; `fopen` never returns NULL to `fgets` | `ServerLifecycle` |
| USB tethering (`usb_tethering.c`) | `state`, `client_ip`, the interface, log threads | `start_tethering`, `stop_tethering`, `get_log`, `netcfg`, `getStateBlocking` | five steps that may fail, a timeout that races a late answer, `pthread_cond_wait` without a predicate | off means down; null means taken back; of those who wait for a change one hears of it | `UsbTethering` |
| files for the browser (`civetweb.c`) | the document root, what a worker knows of a request, the copy in the browser's cache | `parse_http_message`, `mg_url_decode`, `remove_double_dots_and_double_slashes`, `convert_uri_to_file_name`, `handle_request`, `substitute_index_file`, `is_not_modified`, `handle_static_file_request`, `send_file_data`, `handle_directory_request`, `handle_propfind` | files that grow while they are sent, times in whole seconds, lengths kept from before a text was changed in place, memory that is refused in a listing | an answer is whole and is what is on the disk; 304 is true; a redirect helps; every request ends | `FileService`, `HttpText` |
| asset extraction (`Extract.java`) | the files of the document root | `copyAssetFolder`, `extractFiles`, `copyFile` | it runs beside the server; a write fails; the process ends in the middle of a file | a file that is served is whole | `FileService` |
| app activation (`AppDetailActivity`, `AppListFragment`, `BootCompleteNotifier`, `XModuleService`, `XModule`) | the preferences in memory and on disk, the sets that views share with them, the temporary file, the package file of each app, the service | `onCreate`, `onCheckedChanged`, `getView`, `onClick`, `onReceive`, `handleLoadPackage`; `su cp` in a process of its own | remove and put are two commits; sets shared by reference; stacked views with stale names; a copy that outlives its process | the preferences name the apps the user chose; the service runs while there are any; a tracked app has a list of its own | `AppActivation` |
| state notifications (`change_state`, `getStateBlockingJNI`) | a notification pipe, `state` | one write per change, one read per call | two changes read as one string | every reader learns the last state | the pipe itself: `CommandPipe` |
| hooking pool (`XHookAll`, `XCallableHookMethods`, `XCallableHookConstructors`) | an executor with 1 to 300 threads, a limit of 5 seconds | `invokeAll`, shutdown | cancelled tasks, tasks that run on | all methods are hooked before the app runs, or a part of them | beginning and end in `Stepping` |
| browser pages (`index.html`, `track.html`, `rules.html`) | rows of the table | display, building commands | none of its own | | what they send is chosen freely in the models |
| app list views, library installation, `daemonize` | none that lasts | | one pass, nothing concurrent; `daemonize` has no caller | | not modelled |
| rest of civetweb | | SSL, CGI, SSI, password files, uploads, reading the options | vendored library code that `start_server` does not turn on, but for SSL | | not modelled |

How they interact: a worker of the pool serves a connection (`WorkerPool` calls it "serving"; `HttpConnection` is the
inside of that step; its property `WorkerIsFreed`, with its two exceptions, is what `WorkerPool` assumes of a stopped
server: there only the workers in `Stuck` may be kept for ever). A connection that is upgraded calls the websocket
callbacks (`WsSessions`), whose PING every second is what keeps a browser from the time limit of `HttpConnection`, as
long as it is sent (`pinged`). A session's `read_thread` and the text frames of the browser are the two users of a
`CommandPipe`; its other ends are `pushJNI` and the `XListener` of `Stepping`, to which a command may or may not come,
as the lossy channel says. A connection that asks for a page is "handled" in one step of `HttpConnection`;
`FileService` is the inside of that step, and its property `Answered` is what the step assumes. `AppActivation`
decides which apps run `XHookAll`, where `Stepping` begins.

## 2. Modules and the code

The names of actions are those of the functions, or say which part of one they are; a comment at each says
what it stands for. Definitions whose comment begins with "Mutant" are faulty versions of the definition
below them: no specification uses them, they serve to test that the properties notice the fault.

**`WorkerPool`.** The master accepts and puts sockets into the ring (`ProduceLock`, `ProduceWait`, `ProducePut`),
workers take and serve them (`ConsumeLock` ... `Serve`). A test under the mutex and the wait that follows it are
two steps (`ConsumeDoze`, `ConsumeWait`; `ProduceDoze`, `ProduceWait`), as `pthread_cond_wait` releases the mutex
only when it sleeps, and the stopping master broadcasts without the mutex. Wake-ups may be spurious. The indices
`sq_head` and `sq_tail` are kept as the code keeps them, wrapped back when both exceed the ring. The workers in
`Flaky` may fail in `pthread_create` or in their first allocation; those in `Stuck` may be kept by a websocket handler
for ever, also when the server stops. `SocketFifo` is the abstract queue.

**`HttpConnection`.** The bytes of the browser arrive in pieces of any size (`Pull`, `Arrived`). A byte is a pair of
message number and place, so a frame put together from the wrong bytes is noticed whatever its contents. `conn->buf`
holds the head of the request and behind it the queue of what was read ahead. A read fails at end of file, at the time
limit of 30 s, or when the server stops; on a websocket the time limit cannot hit a browser that is there and is
pinged, because it answers the PINGs. Whether it is pinged is chosen when the ready handler returns, since a websocket
whose `conn` is still in an older slot gets no server thread, and may end at any time. The ready handler and the
handler of a text frame wait for `rwlock` and the latter for room in a pipe, so each is entered in one step and left
in another (`ReadyReturns`, `CommandReturns`) that need not come. Threads of the session write frames as two writes
under `conn->mutex`. "enable_keep_alive" is "no", so there is one request to a connection. `FrameChannel` is the
abstract view.

**`WsSessions`.** Workers keep their `struct mg_connection` from one connection to the next, so `conn` in a slot is
a worker; the names in a slot are two pointers into the request buffer of a worker, each followed on its own (`At`,
`NameAt`). A scan of the table is one step, and each store that follows another: a new session takes its slot in six,
`TakeConn` to `StoreThread`, between which other workers do the same. `strtok` keeps its place in a static pointer
(`rest`) that all of them share, so the second token of one query may come from another (`CutThread`). The history
variable `raced` has the slots that were filled while another worker filled one, too.

A `read_thread` goes round: `OpenPipe` (it waits in `fopen`), `Push` (an app thread opens the pipe; those who wait go
on, and each has the line or the end of file), `WriteMessage` to whatever its `conn` serves by then. When its pipe is
unlinked (`Unlinked`) it waits in `fopen` for good, or, from elsewhere in the loop, goes on to the pipe that is made
next: it has `outlived` its session. It ends at the end of file, when `fopen` fails, or without a `conn`.

`Patient = TRUE` restricts sessions to open and close one at a time, with one tab to a thread (`MayOpen`), while
nothing is being set up or torn down: what a user does who waits a second between two clicks. Apps push at any time.
`Patient = FALSE` allows every interleaving. `Takes`, `Browsing` and `Pushing` bound the instance only: which worker
gets which tab, which workers get page requests, which threads push.

**`CommandPipe`.** One named pipe. Writers take the lock of their process and open the pipe "r+", so they do not wait
for a reader; readers open it anew for every message. The kernel's rules (a first-in-first-out buffer of limited size,
dropped with the last close; an unlinked pipe lives on for those who have it) are part of the model and marked
external. A reader may stay away for ever, and a writer then waits in a full pipe (`Waits`). `LossyChannel` is the
abstract view: a reader gets pieces in the order they were sent, and no piece comes twice.

**`Stepping`.** Threads of an app run through hooked methods; each step of a hook that touches shared state is an
action. `WriteMap` lets concurrent unsynchronised writes of the `HashMap` lose entries. Commands come at any time.
A `notify` wakes any one of the waiters, of whichever tab.

**`ServerLifecycle`.** `start_server` from `mg_start` to the return, one system call to an action; `stop_server` as
open, which may wait or make a regular file, and return. Processes may be killed between any two steps.
`mg_stop` is two steps here: the master closes the listening sockets, so that another process can have the
ports, and later the call returns; `WorkerPool` has its inside. `ends` counts how often a server has removed its
file and gone on to its end, which is at least as often as `start_server` returns.

**`UsbTethering`.** `start_tethering` with the failure of each of its commands, `timeout()` against the log threads
of this and of earlier starts, `stop_tethering`, and two readers of the state, of which one signal wakes one.

**`HttpText`.** What civetweb does with the text of a request, as operators on sequences of symbols: cutting the head
into words and headers, decoding a URI, removing double dots and slashes, matching patterns, dates. A symbol is a
character, or a word inside of which no character matters. `MCFileService` compares them with reference
definitions: one pass over a path with rewriting it as long as there is something to remove, the pattern for hidden
files with what it means, `parse_date_string` with the calendar over three years.

**`FileService`.** `Extract` and `CopyFile` fill the document root in pieces, `WriteFails` and `Kill` stop them. The
browser asks (`Ask`), follows redirects and keeps what it got (`GetAnswer`), or closes (`Leave`). The worker goes from
the message to the file as the code does: `ReadRequest`, `ConvertGz`, then one action for each branch of
`handle_request` that these options leave, `SubstituteIndexFile`, `SendHead` from the `stat` of before, `SendFileData`
piece by piece from the file as it is by then, listings entry by entry with an array that grows. `conn.buffer` is the
memory in which a URI is decoded and cleaned, as `handle_request` goes on to look at the place where its last character
was.

**`AppActivation`.** The sets of names live in a heap and views hold references to them, as `getStringSet` hands out
the set that the preferences hold. A commit writes all keys when one has changed; a put of an equal set changes
nothing. `onClick` is `Press` (the names removed and committed), `StartOrStopService`, `Put` (the names put back),
`SavePackages`, `WriteList`, the `cp` of another process, `DeleteTmp`. The process may be killed in between, and its
`cp` goes on (`orphan`). A new set takes any object that nothing refers to. What the user has chosen is kept apart
from what the code makes of it: `Choose` adds or takes away the app of the view that is pressed, whatever becomes of
the names, notes which other views hold an older set (`overtaken`), and whether a press goes out from one of them or
dies between its two commits (`forgot`). `Layout` is what Android does after `notifyDataSetChanged`: rows whose state
changes call their listener.

The modules `*Proofs` hold the theorems, `MC*` the constants that a configuration file cannot express.

## 3. Runs

Bounds are constants in the `.cfg` files, or named ones in the modules (`Max...`).

| run | instance | shows |
|---|---|---|
| `pool_safety` | 3 workers, two of which may fail to start, 4 connections, ring of 2 | `FreedOnlyWhenQuiet`, `NoStall` (for workers and for the master), and the ring refines `SocketFifo`. Four connections fill the ring, wrap it and wait; sockets are symmetric. |
| `pool_live` | 2 workers, 2 connections, ring of 1 | `AcceptedIsTaken`: an accepted connection gets a worker unless all workers keep the connections they have, and no connection is obliged to end; `StopsIfAllAwake`: `mg_stop` returns, unless a worker is between its test and its wait at the broadcast or is kept by a websocket handler. One worker may fail to start, the other may be `Stuck`. |
| `http` | a request of each kind, 2 frames of any kind and length class, 2 writing threads, a buffer of 16 | `ImplementsFrames`, `FramesAreWhole`, `BodyIsRead`, `StaysOpen`, `Answered`, `WorkerIsFreed`. Two frames are enough for a frame read ahead behind another one; the buffer is just one header longer than the head of the request, the least that `StaysOpen` permits. |
| `ws_patient` | 3 workers, 2 slots, 3 tabs | `ShownInOwnTab`, `OpenIsWhole`, `RefusedOnlyWhenFull`, `SlotsAreReset`, `OpenIsPinged`, `ObeyedByOwnThread` for a patient user; three tabs fill the table of two and reuse slots and workers, two of them show one thread, which pushes, so that readers outlive a session and meet the next one. The names are two apps with thread ids in common. The bounds keep one worker to two of the tabs and one to the third; the third tab also comes to the first one. |
| `ws_reset` | 1 worker, 2 slots, 2 tabs, without patience | **violated**: `SlotsAreReset`, see findings. |
| `pipe` | 2 writers of one process, 2 readers, 2 pipes under the name, capacity of 2 | refines `LossyChannel`; `LockIsFreed` (unless the holder waits in a full pipe for ever), `HandedOn`; readers need not come. Messages of two pieces fill the pipe; one removal, as a second one brings nothing new. |
| `step` | main thread and 2 others | `StopsOnlyIfTold`, `PassesGate`, and absence of deadlock. |
| `step_wait` | main thread and 1 other | **violated**: `WaitsOnlyStepping`, see findings. |
| `server` | 2 candidates, 2 callers, 3 calls, 4 files | `FileIsThere`, `StopsAreAnsweredOnce`, `StopStops` (of a running server, and for a call that was there before it). |
| `usb` | 3 starts, 2 readers, timeout of 1 | `OffIsDown`, `NullIsDown`, `SomeoneHears`; three starts let a log thread of the first one act in the third. |
| `files` | 4 assets (a page of two pieces whose name is a percent sign, the same packed, a directory, its empty index file), 15 requests, pieces of 1, a tick of the clock, 2 redirects | `ReadAsSent`, `AnswersAreWhole`, `ListingIsWhole`, `NotModifiedIsTrue`, `RedirectHelps`, `Answered`. Two pieces are the least file that can be half there; five headers are exactly those of the longest request; the array of a listing starts with room for one, so that it grows; the second redirect is the one that repeats the first. |
| `apps` | 2 apps, 1 package, 2 views, 3 presses, 1 tap, 2 kills or reboots | `ChosenIsKept`, `ServiceMatches`, `TrackedIsHooked`. Three presses are enough for an app to go, come back and meet another one's leftovers; two deaths leave a copy behind and cut the next. |

Most runs do not list the type invariant: what a wrong type would break, their other properties see. It stays defined
in each module, and is proved where there is a proof module.

Deadlock is not checked where the system may really stop: the server was stopped, all tabs have come and gone,
the calls are used up. `Stepping` never stops, and there it is checked.

### Findings

Two runs show a behaviour of the code that contradicts a comment of it.

1. `ws_reset`: a tab that comes back on the same worker within the second before its old slot is reset gets a new
   slot that nobody resets (`damn_server.c:352`, against line 298). After as many such reloads as there are slots
   every client is refused.
2. `step_wait`: a *play* between the test of `STEPPING` and the wait is lost and the thread waits although stepping
   is off (`XDAMNHook.java:94`, against line 92).

Seen while modelling, without a run of their own. In the server and the app:

- `mg_stop` may wait for ever: the stopping master broadcasts `sq_full` once and without the mutex
  (`civetweb.c:6878`); a worker that has just found `stop_flag == 0` and is about to wait sleeps on and `num_threads`
  never reaches 0. `StopsIfAllAwake` shows that this window and a worker that a websocket handler keeps (for `rwlock`,
  or in a full pipe) are the only reasons.
- A websocket keeps its worker as long as its tab is open, and `num_threads` is "5" (`damn_server.c:477`): five open
  tabs leave every other connection in the queue (`AcceptedIsTaken`).
- A push or a command that fills a pipe nobody reads waits with `rwlock` held, for as long as nobody comes
  (`damn_server.c:426`, `:654`); `LockIsFreed` and `WorkerIsFreed` name this as what keeps a lock or a worker.
- A `read_thread` that is not in `fopen` when its pipe is unlinked goes on with the pipe that is made next, and shows
  the messages of the next session of its thread in whatever tab its worker serves by then (`damn_server.c:243-256`),
  also for a patient user; `ShownInOwnTab` holds but for these readers.
- A `read_thread` that opens its pipe again before the pusher has closed it, or beside such a reader that takes the
  line, reads the end of file and ends (`:249`): its tab stays open and is told nothing more.
- Two workers that fill slots at the same time (`:316-327`) may take the same slot, or exchange their places in
  `strtok`: a slot then has the `conn` of one tab and a name of the other, and a command goes to the wrong thread; or
  a late `closing = 0` takes back the mark of a tab that has left. Without the exception for `raced` TLC finds
  `ObeyedByOwnThread` and `DepartedAreMarked` violated after 16 states (2 workers, 1 slot, 2 tabs, no patience).
- An open websocket without a server thread (finding 1) is not pinged and is cut off after 30 seconds without a frame.
- `mg_read` adjusts `len` and goes on with `len64` (`civetweb.c:2289`), so the handler of `/client_pin`, which offers
  20 bytes, waits for the time limit; `BodyIsRead` therefore speaks of handlers that offer exactly the room of the form.
- `connection_close` is called without the lock that `civetweb.h:122` promises.
- `XHookAll.java:150` calls `notify` without the monitor, so a thread in `initwait` is never woken.
- `deleteAppJNI` removes the names of the pipes but wakes no reader that waits on them.
- A second server can announce RUNNING while the first one, whose ports are free already, has still to announce OFF.

- One `pthread_cond_signal` wakes one of the readers of the tethering state; with two, the other sleeps on although
  `usb_tethering.h:44` says "Block until status changed".

In serving files:

- A range that ends at the size of the file or behind it announces one byte too many (`civetweb.c:3869`); the browser
  waits for it until the connection is closed.
- `uri_len` is taken before the URI is decoded and cleaned (`:5702`, used in `:5770`), so `//`, `/..`, `/%2f` and
  `/d//` end in a redirect to themselves, for ever.
- Either conditional header is enough for 304 (`:4069`): a file that is written twice in one second, or a copy of the
  first two months of a leap year, for which `parse_date_string` is a day ahead, is "not modified".
- A file that the copy of the assets left half is served as if whole, by its own length, and no later copy completes it
  (`Extract.java:143`); nor does an update of the app replace any file.
- The links of a listing begin with the URI as it was decoded (`:3524`) and are decoded again when they come back:
  those of a directory with a `%` in its name lead elsewhere.
- When `realloc` fails, a listing loses the entries so far and goes on as if whole (`civetweb.c:3681`).

In the activation of apps:

- "Untrack" (`strings.xml:19`) writes the package file again instead of removing it, with all boxes cleared only on the
  screen, so the app goes on being hooked (`AppDetailActivity.java:160`, `:214-240`).
- After "Track" the view's packages and the set of all packages are one object (`:201`, "otherwise the user want all
  packages!"): what the boxes then remove is missing in the next "Track".  It takes four presses, one more than the run
  has. "Track" does not put the packages into the preferences either.
- Ticks that were never saved reach the disk with any other commit, as the view changes the preferences' own set.
- After "Track" and "Untrack" the rows of the list call `onCheckedChanged`, and the button says "save changes" although
  nobody touched a box (`:322`); the next press then saves, whatever it said before.
- A view below another one may still have the names of before (its set is the preferences' own only until its first
  press); its next press writes them and drops what was tracked above.
- A kill between the two commits loses all names (`ChosenIsKept` shows that this and the view of before are the only
  ways to lose a choice); a `cp` that outlives its process may copy another app's list.

## 4. Fairness

Each specification has a `Spec` without fairness, used where only safety is checked, and a `FairSpec`.

- Threads that can run do so: weak fairness of each thread's step outside of waits.
- `WorkerPool`: a mutex that is free again and again is got at last, and a thread that was woken goes on (strong
  fairness of the lock and wake-up actions). A connection need not end while the server runs, as a websocket lasts as
  long as its tab; when the server stops, reads fail at once and writes within 30 s, so it ends, except on a `Stuck`
  worker. `mg_stop` itself, new connections and spurious wake-ups are not fair.
- `HttpConnection`: the worker runs; a write ends (`SO_SNDTIMEO`); the worker gets `conn->mutex`, which others
  take for a moment once a second (strong fairness). That the two handlers get `rwlock` and room in a pipe is not
  assumed, nor that PINGs are sent. The browser owes nothing, not even to leave.
- `WsSessions`: the callbacks that wait for nothing run (connect and close), and server threads run: PINGs are sent each
  second. The ready handler, commands and readers may wait for ever; apps need not push, and tabs owe nothing.
- `CommandPipe`: those who have the lock go on when they can, and a reader that has the pipe open reads and closes it.
  No reader need come or come back, and no new message need come.
- `Stepping`: threads go on, and somebody presses *play* in the tab of the main thread again and again while a
  thread waits: without it a stopped thread rightly stays stopped.
- `ServerLifecycle`: servers and callers go on; being killed is never required.
- `FileService`: the worker goes on (its steps are never blocked; the condition on `request` and `file` says it without
  parsing messages to find out whether it can), and the browser that gets an answer, or has closed, ends its request.
  The copy of the assets owes nothing: it may stop for ever in the middle of a file that is being served.
- `AppActivation`: none, there are only safety properties; users need not press anything.
- `UsbTethering`: the caller and the readers go on; an answer of the DHCP server is never required.

## 5. Proofs

TLAPS proves the following for every value of the constants that satisfies the named assumptions (finite set of
workers, positive ring and table lengths, distinguished values outside the sets). The properties are not inductive
as they stand; each module strengthens them to an invariant that is (`IndInv`; in `HttpConnectionProofs` `Base` and
`FrameInv`), with one lemma for each action.

- **`WorkerPoolProofs`**: `TypeOK`, `ServesItsOwn` (a worker serves a connection of its own), `CountIsExact` (the joins
  return at once), `FreedOnlyWhenQuiet`, `NoStall`, and the refinement `ImplementsFifo` of `SocketFifo`, step by step.
  `IndInv` adds who holds the mutex (`MutexInv`), who sleeps where (`SleepInv`), that
  `num_threads` is the number of counted workers (`CountInv`), that a test made under the mutex still holds when
  its thread goes to sleep (`DozeInv`), that beside a sleeping worker another one is awake while the ring is not
  empty (`WakeInv`), what the phases of the stop imply (`PhaseInv`), and what the slots hold (`HandInv`). `WakeInv`
  is the heart: one `signal` for each socket is enough only because a woken worker takes a socket before it looks
  again.
- **`HttpConnectionProofs`**: `TypeOK` (no read goes beyond the buffer) and `FramesAreWhole` need no more than the
  module's assumptions. The rest takes hypotheses on what browsers send, named in the module: `ImplementsFrames` (the
  refinement of `FrameChannel`: each frame is handed to the handler once, whole and in order) that a request for a
  websocket has no body (`SocketsHaveNoBody`); `StaysOpen` also that the buffer has room for a frame header behind
  that request (`SocketsLeaveRoom`), whose head is a few hundred bytes in a buffer of 16 KiB (it speaks of websockets
  that are pinged, the others meet the time limit); `BodyIsRead`, besides the first one, that the body of a form is as
  long as its `Content-Length` says (`FormsAreWhole`). The run's requests satisfy all three. The argument follows the
  stream: `StreamInv` says that what is buffered and what is on its way are one stretch of the browser's bytes, which
  begins where the worker stands and ends with a whole message as long as the browser is there; `CloseInv` that
  nothing follows a close frame; `OpenInv` and `BodyInv` are the parts for the last two properties. `FramesAreWhole`
  rests on the lock alone (`LockInv`).
- **`WsSessionsProofs`**: for any user, any number of workers, tabs and slots and any interleaving of the single
  stores, `TypeOK`, `ObeyedByOwnThread` and `DepartedAreMarked` (a worker that left a websocket has marked its slots),
  both but for slots that were filled while another worker filled one (`raced`). The argument is who writes what: two
  workers that fill at the same time have both on record (`RacesAreSeen`); one that fills alone finds its own `conn`,
  its own token and its own rest of the query at each of its stores (`FillInv`), so a slot that was not raced for
  points into the buffer of its own worker (`NamesInv`), and nothing overwrites this buffer while the worker serves a
  websocket (`BufInv`). TLC checked `IndInv` with 2 workers, 1 slot, 2 tabs and no patience first (1.3 million
  states). Under the hypothesis `Patient` also `ShownInOwnTab` but for readers that have outlived their pipe,
  `OpenIsWhole` but for a reader that has read the end of file, and `RefusedOnlyWhenFull`: `SessionInv` says that no
  slot is raced for and that nothing is being set up or torn down (`Quiet`) or exactly one session is, at one of the
  points of its way in (`Opening`) or out (`Leaving`), and that sessions share no slot and no worker (`Apart`).
  `Listens` is what an open session can rely on of its reader, `Gone` what the readers of sessions that are over may
  still be: ended, waiting for good, or outlived. The hypothesis is needed: with `Patient = FALSE` TLC finds each of
  the three violated on the instance of `ws_patient`.
- **`CommandPipeProofs`**: the refinement `ImplementsChannel` of `LossyChannel`, for any number of writers, readers,
  pipes and messages of any length, under `OneWriterAtATime`: all writers are in one process, or no second pipe gets
  the name. The code has it so: one app process writes into its message pipe, under its rwlock, and the receiving pipe
  is written by the server alone; the name of the pipe for the list of apps is never given to a second pipe. `IndInv`
  says that the pieces in a pipe are in order and before those of a newer pipe (`DataInv`), that what a reader has is
  in order and before what it may still come to (`OrderInv`), that a piece is in one place (`OnceInv`), and that a
  pipe newer than one that is still being written is empty (`EmptyInv`), which is where the hypothesis is needed.
- **`SteppingProofs`**: `TypeOK` and `StopsOnlyIfTold`, for any number of threads and any depth of hooks. The test of
  `STEPPING` and the wait are steps of their own, so `ToldInv` carries from the one to the other that the thread was
  told; `MapInv` and `EndInv` say that a thread of the map has a listener that goes on until the thread is dead,
  whatever entries the map loses in between.
- **`AppActivationProofs`**: `TypeOK`, `ChosenIsKept`, `ServiceMatches`, `TrackedIsHooked`, for any finite set of apps
  and any number of views, presses and kills. Since sets are shared by reference, `MindInv` first separates the
  objects: one holds names of apps or packages, never both. `DiskInv` relates the disk to memory between the two
  commits, `ClickInv` the steps of a press, `ChoiceInv` the choice of the user to the names on disk and in the views
  that are not overtaken, `ServiceInv` the service to the names a press has read, `CopyInv` the temporary file to the
  copy that reads it. The heart is `NamesInv`: each name that any later press could still write, also from a stale
  view, is of an app whose list is right, is being made, or was torn by a kill (`Sound`). The proof showed that a copy
  that outlives its process needs no exception of its own, as its app counts as torn already; `TrackedIsHooked` is now
  stated without it. `RoomAssumption` gives the model's heap an object for each set that can be in use at once;
  `ImageIsSmall` and the lemmas behind it show that this is enough.
- **`ServerAndTetheringProofs`**, two halves that share nothing. Of `ServerLifecycle`: `TypeOK`, `FileIsThere`,
  `StopsAreAnsweredOnce`. The argument counts files: each removed file had been touched by a call of its own
  (`CallsInv`) and each end has removed a file of its own (`EndsInv`), since only the process with the ports comes near
  the file (`PortInv`, `FileInv`), and gives them back when it has done with it. Of `UsbTethering`: `TypeOK`,
  `OffIsDown`, and `NullIsDown` under the assumption that each DHCPACK line has its fifth token (`Tokens = {TRUE}`);
  `NullInv` shows where it is needed.
- **`FileServiceProofs`**: what the parsers compute for every text, and on top of it `TypeOK`, `ReadAsSent`,
  `RedirectHelps`, `AnswersAreWhole` and `NotModifiedIsTrue`, for any assets, requests, index files and buffer sizes
  that `FileAssumption` allows, and `ListingIsWhole` for those of them with `PlainNames`. In this order:
  - *Induction.* The library's induction theorems take an operator, so the module proves the ones that take a set
    (`LeastNumber`, `Induction`), and that the recursive functions of `HttpText` satisfy their equations.
  - `PathTheorem`: what the one pass of `remove_double_dots_and_double_slashes` makes of any text is what rewriting
    makes of it (`Rewritten`), and in that neither a slash nor two dots follow a slash or a backslash.
  - `DateTheorem`: for each day since 1971 `parse_date_string` gives back what `gmtime` was given, and a day more in the
    first two months of a leap year. `DateExists` says that the calendar has a date for each day, which is what
    `CivilDate` chooses.
  - *Reading.* The parsers walk over the head of a request word by word. `ParsedAsSent`: of the message of any
    request they return the method, the URI and a list that carries exactly the headers that were sent. The
    message is written from its end to its beginning (`Before`), so that each field needs one lemma (`FieldIsTaken`).
    `ReadInv` then says that the worker keeps what it has read, that a redirect leads to the URI with a slash behind it,
    and that `conn.buffer` did not end in one: enough for `ReadAsSent` and `RedirectHelps`.
  - *Sending.* `Grows`: no step takes a file away or makes it shorter, and what it changes is as young as the clock.
    `WholeInv` adds that the file that is opened is at least as long as `stat` said (`IsThere`) and that what has been
    sent and what is left are the whole (`IsWhole`). `AnswersAreWhole` is about ranges inside the file, as one that ends
    behind it announces a byte that is not there.
  - *Copies.* 304 says that the copy of the browser is the file, but compares times, while the URI of the copy may
    come to mean another file: a plain one where there was a packed one, an index file where there was none. `CopyInv`
    says that whichever file the worker finds for the URI of the copy, if it has not changed since the copy was
    asked for, it is that of the copy (`IsKept`). For this `Tree` says that a file is in a directory that was made
    before it; `Fresh` follows the file that is being looked for and sent, as it will be the next copy; `Compared`
    follows the worker on its way to the file of a request with a copy. TLC checked `CopyInv` on the instance of `files`
    before it was proved.
  - *Listings.* `LinkTheorem`: `mg_url_decode` gives back any name that `mg_url_encode` has encoded, and leaves what
    follows it alone. The links of a listing are the URI of the directory, not encoded, with an encoded name behind
    it. `ListInv` says that a directory is listed only under a URI that is decoded and cleaned to itself (`IsBase`),
    and that its list shows exactly names of that directory, each that has been read unless it is hidden, with a link
    that leads to it (`Listed`). `BufferEnds` is needed for the slash at the end of the URI, which the code looks for
    in the buffer behind the cleaned URI. The sorted list has the same entries (`SortedIs`), whatever order the names
    have. The hypothesis `PlainNames` is needed: the links of a directory with a `%` in its name lead elsewhere (see
    the findings), names with two slashes or a slash and two dots are not those that a URI can ask for, and a
    backslash counts as a slash to the cleaning but not to the file system. The assets of the repository have such
    names, and TLC evaluates `PlainNames` for the instance of `files`, which also checked `ListInv` before it was
    proved.

Every safety and action property of a passing run is stated by a theorem. Only model-checked:

- the liveness properties (`AcceptedIsTaken`, `StopsIfAllAwake`, `SlotsAreReset`, `OpenIsPinged`, `LockIsFreed`,
  `HandedOn`, `PassesGate`, `StopStops`, `SomeoneHears`, `WorkerIsFreed`, and `Answered` of `HttpConnection` and of
  `FileService`), since fairness and ENABLED are beyond the prover;
- the assumptions of `MCFileService` about patterns (`HideAssumption`): `match_prefix` tries runs of a star by recursion
  over two texts; that a listing sorts names as `strcmp` does is computed for the symbols of the instance only.

What the assumptions of `FileService` exclude: a request of more than `MAX_REQUEST` headers, a URI with a blank or a
query, an asset that is the document root or `.htpasswd`, two assets of one path, an asset before the directory it is
in (`AssetManager.list` goes from the outside to the inside), an index file without a name or with a slash at its end.
The instance of `files` satisfies them, and TLC evaluates them.

No module that is proved about uses RECURSIVE operators.

## 6. What the models assume and leave out

- Memory is sequentially consistent; unsynchronised data is modelled where its races matter (`ws_conn`, `strtok`, the
  `HashMap`), each scan or single store being one step.
- `pthread_create` succeeds for the threads of a session; the worker threads may fail.
- The kernel's pipes, sockets, condition variables and monitors behave as documented.
- `mknod` of the server's file fails only because the file is there (`damn_server.c:519` checks for no other reason).
- USB: the calls of `start_tethering` and `stop_tethering` come from one thread, and the command that takes the
  interface down works.
- Text is abstract: names, payloads, JSON of the messages, masks and header formats. The handlers treat payloads
  as strings and ignore `data_len`, and that of `/blubb` reads as many bytes as `Content-Length` says into an array of
  1024 (`damn_server.c:190-195`); what that does to their text and memory is not modelled.
- Files: one worker and one browser, as workers only read what they share; a file that cannot be made is passed over by
  the copy, which the model leaves out; the assets hold no `.htpasswd`, so nobody is asked for a password; the server's
  options are those of `start_server`. A tick of the clock is a second for `stat` and a day for the calendar.
- Apps: a `cp` that is left behind is one at a time; that it reads the temporary file while a later press is in the
  middle of writing it is left out, as is `chmod`. The list of apps only opens views.
- SSL changes neither the order nor the pieces of a stream.
- `FramesAreWhole` is about the order of writes; a `send` that ends early because the browser is gone is not followed
  by anything the browser would see. Left out are a write that ends early with the browser still there (the callers of
  `mg_websocket_write` do not look) and, in `HttpConnection`, the reader of an earlier session that writes to this
  one; the latter takes the same lock.

## 7. Not modelled, and plan

Not modelled, because nothing in the repository depends on their order:

- the executor of `XHookAll`: which methods are hooked after five seconds is any subset, and `Stepping` lets any thread
  reach any hook between `OpenSite` and `HookDone`;
- the values of the state notifications: no code calls `getStateBlocking`;
- the browser pages and the app list: display only; `install_sys_lib` runs a fixed list of commands, `daemonize` has no
  caller;
- SSL, CGI, SSI, passwords and uploads of civetweb: library code behind options that are off, or a transparent layer.

Written in this order: `WorkerPool` (with `SocketFifo`), `WsSessions`, `CommandPipe` (with `LossyChannel`), `Stepping`,
`ServerLifecycle`, `UsbTethering`, `HttpConnection` (with `FrameChannel`), `FileService` (with `HttpText`),
`AppActivation`; then the proofs of all of them.

Next, in the order of what it is worth: which of the properties of `WsSessions` remain when only one tab is impatient;
the composition of `WsSessions` with two `CommandPipe`s between a tab and a thread, so that "a command of a tab
reaches its thread or is lost" is one property from end to end; `match_prefix` for every pattern and text, so that
`MustHide` is known to be what its name says beyond the short texts of `HideAssumption`.
