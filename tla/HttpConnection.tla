--------------------------- MODULE HttpConnection ---------------------------
(***************************************************************************)
(* One connection of a browser to the server, from accept to close, on the *)
(* worker that serves it: civetweb's process_new_connection reads the      *)
(* request, handle_request answers it, the handler of the DAMN server      *)
(* reads the body of a form, and read_websocket cuts the stream of an      *)
(* upgraded connection into frames for websocket_data_handler.  Threads    *)
(* of the session write frames beside the worker.                          *)
(*                                                                         *)
(* The bytes that the browser has sent arrive in pieces of any size.  A    *)
(* byte is a pair: the number of its message, and its place in it.         *)
(* conn->buf holds the head of the request, which is never removed, and    *)
(* behind it the queue of what has been read ahead.  "enable_keep_alive"   *)
(* is left at "no", so a connection carries one request.  A read that      *)
(* waits for 30 seconds (request_timeout_ms) fails; the handlers of the    *)
(* websocket, which take rwlock and write to a pipe, may wait for ever.    *)
(* Lengths are scaled:                                                     *)
(* payloads up to Short have two bytes of header, up to Medium four, the   *)
(* others ten, and each frame of a browser has four bytes of mask.         *)
(***************************************************************************)
EXTENDS Integers, Sequences

CONSTANTS
    Requests,   \* what a browser may ask: [op, head, length, body]
    Frames,     \* what it may send on a websocket: [op, size]
    Writers,    \* threads of the session that write frames
    Worker,
    Nobody,
    BufSize,    \* conn->buf_size
    PinSize,    \* sizeof(post_data) in the handler of /client_pin
    MemSize,    \* sizeof(mem): payloads above it need mg_malloc
    Short,      \* payloads with a 7-bit length
    Medium,     \* payloads with a 16-bit length
    MaxFrames   \* bound: frames that the browser sends

ASSUME ConnectionAssumption ==
    /\ \A r \in Requests : r.head \in Nat \ {0} /\ r.body \in Nat /\ r.length \in Nat
    /\ \A f \in Frames : f.size \in Nat
    /\ Worker \notin Writers /\ Nobody \notin Writers \cup {Worker}
    /\ {BufSize, PinSize} \subseteq Nat \ {0}
    /\ {Short, Medium, MemSize, MaxFrames} \subseteq Nat

VARIABLES
    sent,      \* the messages of the browser: its request, then frames
    net,       \* bytes on their way to the server
    browser,   \* "here", "closed" (it has sent FIN) or "lost"
    buf,       \* conn->buf, the first data_len bytes
    head,      \* conn->request_len
    pc,        \* where the worker is
    frame,     \* the first byte of the frame at hand
    data,      \* what mg_read or the frame at hand has got so far
    want,      \* bytes that they still wait for
    nread,     \* what mg_read has returned
    handed,    \* history: frames given to websocket_data_handler
    answer,    \* what the browser has been answered
    mutex,     \* who holds conn->mutex
    wire,      \* whose frame the server has sent half
    pinged,    \* a server thread sends PINGs to this connection
    sock,      \* the socket is open
    stop_flag

stream == <<sent, net, browser>>
input  == <<buf, head, frame, data, want, nread>>
sending == <<mutex, wire, pinged>>
vars == <<stream, input, pc, handed, answer, sending, sock, stop_flag>>

-----------------------------------------------------------------------------
Bytes(m, n) == [i \in 1..n |-> <<m, i>>]

HeaderSize(size) == 4 + (IF size <= Short THEN 2 ELSE IF size <= Medium THEN 4 ELSE 10)

Garbled == [op |-> "garbled", size |-> 0]

\* The frame whose first byte is b.
FrameAt(b) == IF b[1] > 1 /\ b[2] = 1 THEN sent[b[1]] ELSE Garbled

\* What has been read ahead, behind the request.
Queue == SubSeq(buf, head + 1, Len(buf))

Init ==
    /\ sent = <<>> /\ net = <<>> /\ browser = "here"
    /\ buf = <<>> /\ head = 0
    /\ pc = "request"
    /\ frame = <<0, 0>> /\ data = <<>> /\ want = 0 /\ nread = 0
    /\ handed = <<>> /\ answer = "none"
    /\ mutex = Nobody /\ wire = Nobody /\ pinged = FALSE
    /\ sock = TRUE /\ stop_flag = FALSE

-----------------------------------------------------------------------------
(* The browser.                                                            *)

Ask ==
    /\ sent = <<>> /\ browser = "here"
    /\ \E r \in Requests :
         /\ sent' = <<r>>
         /\ net' = Bytes(1, r.head + r.body)
    /\ UNCHANGED <<browser, input, pc, handed, answer, sending, sock, stop_flag>>

SendFrame ==
    /\ answer = "upgraded" /\ browser = "here" /\ Len(sent) <= MaxFrames
    /\ sent[Len(sent)].op # "close"
    /\ \E f \in Frames :
         /\ sent' = Append(sent, f)
         /\ net' = net \o Bytes(Len(sent) + 1, HeaderSize(f.size) + f.size)
    /\ UNCHANGED <<browser, input, pc, handed, answer, sending, sock, stop_flag>>

\* The browser goes, with a FIN or without; what is on its way may be lost.
Leave ==
    /\ browser = "here"
    /\ browser' \in {"closed", "lost"}
    /\ \E n \in 0..Len(net) : net' = SubSeq(net, 1, n)
    /\ UNCHANGED <<sent, input, pc, handed, answer, sending, sock, stop_flag>>

-----------------------------------------------------------------------------
(* Reading from the socket.                                                *)

\* pull: n of the bytes that have arrived, as many as there is room for.
Pull(n) ==
    /\ ~stop_flag /\ n <= Len(net)
    /\ net' = SubSeq(net, n + 1, Len(net))

Arrived(n) == SubSeq(net, 1, n)

\* pull fails: end of file, the time limit, or a server that stops.
PullFails == stop_flag \/ net = <<>>

\* Mutant: recv has no time limit.
FramePullWaits == stop_flag \/ (net = <<>> /\ browser = "closed")

\* The same on a websocket: a browser that is there and gets a PING every second
\* answers it, and so never runs into the time limit.
FramePullFails == stop_flag \/ (net = <<>> /\ (browser # "here" \/ ~pinged))

HeadIsThere == sent # <<>> /\ Len(buf) >= sent[1].head

\* read_request: bytes are added until the head of the request is whole.
ReadRequest ==
    /\ pc = "request" /\ ~HeadIsThere
    /\ \E n \in 1..(BufSize - Len(buf)) : Pull(n) /\ buf' = buf \o Arrived(n)
    /\ UNCHANGED <<sent, browser, head, frame, data, want, nread, pc, handed, answer,
                   sending, sock, stop_flag>>

\* Mutant: a head that fills the buffer is not told from one that is not
\* there yet.
RequestFailsLate ==
    /\ pc = "request" /\ ~HeadIsThere /\ PullFails
    /\ pc' = "closing" /\ answer' = "error"
    /\ UNCHANGED <<stream, input, handed, sending, sock, stop_flag>>

\* getreq fails: nothing comes, or the head is too large; the error is sent.
RequestFails ==
    /\ pc = "request" /\ ~HeadIsThere
    /\ PullFails \/ Len(buf) = BufSize
    /\ pc' = "closing" /\ answer' = "error"
    /\ UNCHANGED <<stream, input, handed, sending, sock, stop_flag>>

\* The head is there, and pc is where its request leads the worker.
Handle(ops, next) ==
    /\ pc = "request" /\ HeadIsThere /\ sent[1].op \in ops
    /\ head' = sent[1].head
    /\ pc' = next

\* parse_http_message or process_new_connection refuses the request.
BadRequest ==
    /\ Handle({"bad"}, "closing") /\ answer' = "error"
    /\ UNCHANGED <<stream, buf, frame, data, want, nread, handed, sending, sock, stop_flag>>

\* A request on the port without SSL is sent to the other one.
RedirectToHttpsPort ==
    /\ Handle({"plain"}, "closing") /\ answer' = "reply"
    /\ UNCHANGED <<stream, buf, frame, data, want, nread, handed, sending, sock, stop_flag>>

\* handle_request for what is answered at once: a file, a fixed page, an
\* error.
HandleRequest ==
    /\ Handle({"page"}, "closing") /\ answer' = "reply"
    /\ UNCHANGED <<stream, buf, frame, data, want, nread, handed, sending, sock, stop_flag>>

-----------------------------------------------------------------------------
(* begin_request_handler and mg_read.                                      *)

\* The room that the handler offers mg_read.
Room == IF sent[1].op = "pin" THEN PinSize ELSE sent[1].length

\* What is read ahead of the body, as far as there is room for it.
Ahead ==
    LET q == SubSeq(buf, sent[1].head + 1, Len(buf))
    IN IF sent[1].length = 0 THEN <<>>
       ELSE SubSeq(q, 1, IF Len(q) < Room THEN Len(q) ELSE Room)

\* Mutant: the room is not reduced by what was read ahead.
StartBodyAnew ==
    /\ Handle({"pin", "form"}, "body")
    /\ data' = Ahead /\ nread' = Len(Ahead)
    /\ want' = IF sent[1].length = 0 THEN 0 ELSE Room
    /\ UNCHANGED <<stream, buf, frame, handed, answer, sending, sock, stop_flag>>

\* mg_read returns what it finds behind the head, and waits for more until
\* the room is full: "len" is adjusted to the length of the body and then
\* not used.
StartBody ==
    /\ Handle({"pin", "form"}, "body")
    /\ data' = Ahead /\ nread' = Len(Ahead)
    /\ want' = IF sent[1].length = 0 THEN 0 ELSE Room - Len(Ahead)
    /\ UNCHANGED <<stream, buf, frame, handed, answer, sending, sock, stop_flag>>

\* pull_all
ReadBody ==
    /\ pc = "body" /\ want > 0
    /\ \E n \in 1..want : Pull(n) /\ data' = data \o Arrived(n) /\ want' = want - n
    /\ UNCHANGED <<sent, browser, buf, head, frame, nread, pc, handed, answer, sending,
                   sock, stop_flag>>

\* mg_read returns and the handler answers.  When pull fails with an error,
\* only what was read ahead counts.
EndBody ==
    /\ pc = "body"
    /\ \/ /\ want = 0 \/ stop_flag \/ (net = <<>> /\ browser = "closed")
          /\ nread' = Len(data)
       \/ /\ want > 0 /\ (stop_flag \/ (net = <<>> /\ browser # "closed"))
          /\ nread' = IF nread > 0 THEN nread ELSE -1
    /\ pc' = "closing" /\ answer' = "reply"
    /\ UNCHANGED <<stream, buf, head, frame, data, want, handed, sending, sock, stop_flag>>

-----------------------------------------------------------------------------
(* handle_websocket_request and read_websocket.                            *)

\* websocket_connect refuses the browser: the connection ends without an
\* answer.
RefuseSocket ==
    /\ Handle({"socket"}, "closing")
    /\ UNCHANGED <<stream, buf, frame, data, want, nread, handed, answer, sending, sock,
                   stop_flag>>

\* The handshake; websocket_ready_handler is entered.
Upgrade ==
    /\ Handle({"socket"}, "ready") /\ answer' = "upgraded"
    /\ UNCHANGED <<stream, buf, frame, data, want, nread, handed, sending, sock, stop_flag>>

\* It has got rwlock and returns.  It has started a server thread for the
\* connection, unless it found the connection in the slot of an earlier session.
ReadyReturns ==
    /\ pc = "ready"
    /\ pc' = "open" /\ pinged' \in BOOLEAN
    /\ UNCHANGED <<stream, input, handed, answer, mutex, wire, sock, stop_flag>>

\* The server thread finds the slot marked and leaves.
PingsEnd ==
    /\ pinged /\ pinged' = FALSE
    /\ UNCHANGED <<stream, input, pc, handed, answer, mutex, wire, sock, stop_flag>>

\* The header at the front of the queue has been read as a whole.
HeaderIsThere ==
    Queue # <<>> /\ Len(Queue) >= HeaderSize(FrameAt(Queue[1]).size)

ReadAhead ==
    /\ pc = "open" /\ ~HeaderIsThere
    /\ \E n \in 1..(BufSize - Len(buf)) : Pull(n) /\ buf' = buf \o Arrived(n)
    /\ UNCHANGED <<sent, browser, head, frame, data, want, nread, pc, handed, answer,
                   sending, sock, stop_flag>>

\* The loop ends: the server stops, nothing comes, or no room is left.
EndSocket ==
    /\ pc = "open"
    /\ stop_flag \/ (~HeaderIsThere /\ (FramePullFails \/ Len(buf) = BufSize))
    /\ pc' = "closing"
    /\ UNCHANGED <<stream, input, handed, answer, sending, sock, stop_flag>>

\* Mutant: the queue moves forward by the payload, without the header.
TakePayload ==
    /\ pc = "open" /\ ~stop_flag /\ HeaderIsThere
    /\ LET size   == FrameAt(Queue[1]).size
           header == HeaderSize(size)
           there  == Len(Queue) - header
           n      == IF there < size THEN there ELSE size
       IN /\ frame' = Queue[1]
          /\ data' = SubSeq(Queue, header + 1, header + n)
          /\ want' = size - n
          /\ buf' = SubSeq(buf, 1, head) \o SubSeq(Queue, n + 1, Len(Queue))
    /\ pc' = IF want' = 0 THEN "frame" ELSE "payload"
    /\ UNCHANGED <<stream, head, nread, handed, answer, sending, sock, stop_flag>>

\* A frame is cut off the queue; a payload that is not whole takes all of
\* the queue.
TakeFrame ==
    /\ pc = "open" /\ ~stop_flag /\ HeaderIsThere
    /\ LET size   == FrameAt(Queue[1]).size
           header == HeaderSize(size)
           there  == Len(Queue) - header
           n      == IF there < size THEN there ELSE size
       IN /\ frame' = Queue[1]
          /\ data' = SubSeq(Queue, header + 1, header + n)
          /\ want' = size - n
          /\ buf' = SubSeq(buf, 1, head) \o SubSeq(Queue, header + n + 1, Len(Queue))
    /\ pc' = IF want' = 0 THEN "frame" ELSE "payload"
    /\ UNCHANGED <<stream, head, nread, handed, answer, sending, sock, stop_flag>>

\* mg_malloc fails.
NoMemory ==
    /\ pc = "open" /\ ~stop_flag /\ HeaderIsThere
    /\ FrameAt(Queue[1]).size > MemSize
    /\ pc' = "closing" /\ frame' = Queue[1]
    /\ UNCHANGED <<stream, buf, head, data, want, nread, handed, answer, sending, sock,
                   stop_flag>>

ReadPayload ==
    /\ pc = "payload"
    /\ \E n \in 1..want : Pull(n) /\ data' = data \o Arrived(n) /\ want' = want - n
    /\ pc' = IF want' = 0 THEN "frame" ELSE "payload"
    /\ UNCHANGED <<sent, browser, buf, head, frame, nread, handed, answer, sending, sock,
                   stop_flag>>

PayloadFails ==
    /\ pc = "payload" /\ FramePullFails
    /\ pc' = "closing"
    /\ UNCHANGED <<stream, input, handed, answer, sending, sock, stop_flag>>

\* The payload that the browser has sent with the frame whose first byte is b.
Payload(b) ==
    LET f == FrameAt(b)
    IN [i \in 1..f.size |-> <<b[1], HeaderSize(f.size) + i>>]

\* websocket_data_handler: a PING is answered, and so is a CLOSE, unless the
\* session has sent its own (ws_conn[wsd].closing); the loop ends with it.  A
\* command goes to the app.
HandOn ==
    /\ pc = "frame"
    /\ handed' = Append(handed, IF data = Payload(frame) THEN FrameAt(frame) ELSE Garbled)
    /\ pc' \in CASE FrameAt(frame).op = "ping"  -> {"pong"}
                 [] FrameAt(frame).op = "close" -> {"echo", "closing"}
                 [] FrameAt(frame).op = "text"  -> {"command"}
                 [] OTHER                       -> {"open"}
    /\ UNCHANGED <<stream, input, answer, sending, sock, stop_flag>>

\* The handler has got rwlock, and the pipe has taken the command or could not
\* be opened.
CommandReturns ==
    /\ pc = "command"
    /\ pc' = "open"
    /\ UNCHANGED <<stream, input, handed, answer, sending, sock, stop_flag>>

-----------------------------------------------------------------------------
(* mg_websocket_write: header and payload are two writes under the lock of *)
(* the connection; a closed socket takes neither.                          *)

MayWrite(w) == IF w = Worker THEN pc \in {"pong", "echo"} ELSE answer = "upgraded"

\* Mutant: the lock of the connection is not taken.
WriteHeaderUnlocked(w) ==
    /\ MayWrite(w) /\ mutex # w
    /\ mutex' = w
    /\ wire' = IF sock THEN w ELSE wire
    /\ UNCHANGED <<stream, input, pc, handed, answer, pinged, sock, stop_flag>>

WriteHeader(w) ==
    /\ MayWrite(w) /\ mutex = Nobody
    /\ mutex' = w
    /\ wire' = IF sock THEN w ELSE wire
    /\ UNCHANGED <<stream, input, pc, handed, answer, pinged, sock, stop_flag>>

WritePayload(w) ==
    /\ mutex = w
    /\ mutex' = Nobody
    /\ wire' = IF sock THEN Nobody ELSE wire
    /\ pc' = CASE w = Worker /\ pc = "pong" -> "open"
               [] w = Worker /\ pc = "echo" -> "closing"
               [] OTHER                     -> pc
    /\ UNCHANGED <<stream, input, handed, answer, pinged, sock, stop_flag>>

\* close_connection: the socket is closed under the lock.
CloseConnection ==
    /\ pc = "closing" /\ mutex = Nobody
    /\ sock' = FALSE
    /\ pc' = "done"
    /\ UNCHANGED <<stream, input, handed, answer, sending, stop_flag>>

\* mg_stop
Stop ==
    /\ ~stop_flag /\ stop_flag' = TRUE
    /\ UNCHANGED <<stream, input, pc, handed, answer, sending, sock>>

Serve ==
    \/ ReadRequest \/ RequestFails \/ BadRequest \/ RedirectToHttpsPort \/ HandleRequest
    \/ StartBody \/ ReadBody \/ EndBody
    \/ RefuseSocket \/ Upgrade
    \/ ReadAhead \/ EndSocket \/ TakeFrame \/ NoMemory
    \/ ReadPayload \/ PayloadFails \/ HandOn

Next ==
    \/ Ask \/ SendFrame \/ Leave \/ Stop
    \/ Serve \/ CloseConnection
    \/ ReadyReturns \/ CommandReturns \/ PingsEnd
    \/ \E w \in Writers \cup {Worker} : WriteHeader(w) \/ WritePayload(w)

Spec == Init /\ [][Next]_vars

\* The worker runs, every write comes to an end (SO_SNDTIMEO), and the lock
\* goes to the worker when it waits for it again and again.  That the handlers
\* get rwlock and room in the pipe is not assumed.
Fairness ==
    /\ WF_vars(Serve)
    /\ SF_vars(WriteHeader(Worker)) /\ SF_vars(CloseConnection)
    /\ \A w \in Writers \cup {Worker} : WF_vars(WritePayload(w))

FairSpec == Spec /\ Fairness

-----------------------------------------------------------------------------
(* Properties.                                                             *)

\* Every variable has its type; the buffer is never overrun, and the head
\* of the request stays in it.
TypeOK ==
    /\ Len(sent) <= MaxFrames + 1
    /\ sent # <<>> => sent[1] \in Requests
    /\ \A i \in 2..Len(sent) : sent[i] \in Frames
    /\ browser \in {"here", "closed", "lost"}
    /\ head <= Len(buf) /\ Len(buf) <= BufSize
    /\ pc \in {"request", "body", "ready", "open", "payload", "frame", "command", "pong",
               "echo", "closing", "done"}
    /\ want \in Nat /\ nread \in Nat \cup {-1}
    /\ pc \in {"ready", "open", "payload", "frame", "command", "pong", "echo"}
            => head = sent[1].head
    /\ answer \in {"none", "error", "reply", "upgraded"}
    /\ mutex \in Writers \cup {Worker, Nobody}
    /\ wire \in Writers \cup {Worker, Nobody}
    /\ pinged \in BOOLEAN /\ sock \in BOOLEAN /\ stop_flag \in BOOLEAN

\* The frames that the browser sends reach websocket_data_handler whole, in
\* order and once, however the network cuts the stream, whatever was read
\* ahead with the request or with an earlier frame.
Channel == INSTANCE FrameChannel WITH frames <- SubSeq(sent, 2, Len(sent))
ImplementsFrames == Channel!Spec

\* What the server writes on a websocket is a sequence of whole frames: the
\* PINGs and messages of the session's threads do not get between the two
\* halves of a PONG or CLOSE of the worker, and the socket is not closed
\* between them.
FramesAreWhole ==
    [][wire # Nobody => \/ wire' = wire /\ sock' = sock
                        \/ wire' = Nobody /\ mutex = wire /\ sock]_vars

\* A handler that offers mg_read just the room that the form needs gets all
\* of it, be it read ahead with the head of the request or not.
BodyIsRead ==
    answer = "reply" /\ sent[1].op = "form" /\ browser = "here" /\ ~stop_flag
        => data = [i \in 1..sent[1].body |-> <<1, sent[1].head + i>>] /\ nread = sent[1].body

\* The server does not hang up on a browser that is there and that it pings:
\* while it runs, such a websocket ends with the close frame of the browser, or
\* when memory for a large payload is missing.  (One that is not pinged is cut
\* off after 30 seconds without a frame.)
StaysOpen ==
    answer = "upgraded" /\ browser = "here" /\ pinged /\ ~stop_flag /\ pc \in {"closing", "done"}
        => Channel!Closed(handed) \/ FrameAt(frame).size > MemSize

TurnedAway == sent # <<>> /\ sent[1].op = "socket" /\ ~sock

\* A browser that waits is answered, be it with an error; a tab too many is
\* turned away by closing its connection.
Answered ==
    sent # <<>> ~> answer # "none" \/ browser # "here" \/ TurnedAway

\* The worker comes free again when the browser has gone, with or without a
\* word and in whatever state, and when the server stops; but for a worker that
\* a handler of the websocket keeps for ever.
WorkerIsFreed ==
    browser # "here" \/ stop_flag ~> pc = "done" \/ [](pc = "ready") \/ [](pc = "command")
=============================================================================
