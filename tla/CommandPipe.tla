---------------------------- MODULE CommandPipe ----------------------------
(***************************************************************************)
(* One named pipe of DAMN: the message pipe through which pushJNI tells a  *)
(* read_thread of the server what a traced thread does, the receive pipe   *)
(* through which websocket_data_handler passes the browser's commands to   *)
(* receiveBlockingJNI, or the pipe of the app list that newAppJNI writes.  *)
(*                                                                         *)
(* Writers hold a lock of their process and open the pipe "r+": they never *)
(* wait for a reader, and what they write is kept only while somebody has  *)
(* the pipe open or is opening it.  Readers open it anew for every         *)
(* message, wait in fopen for a writer, and take what fgets returns: all   *)
(* that is there until the last writer closes, at most Limit pieces.       *)
(* newAppJNI, deleteAppJNI and ws_server_thread remove the name; whoever   *)
(* has the old pipe open keeps it.  A piece is the data of one write(2).   *)
(***************************************************************************)
EXTENDS Integers, Sequences, FiniteSets

CONSTANTS
    Writers,
    Readers,
    Proc,       \* the process each writer runs in: one rwlock to a process
    Creators,   \* writers that create a missing pipe (pushJNI)
    Recreate,   \* readers that do so before every open (receiveBlockingJNI)
    Capacity,   \* pieces a pipe holds
    Limit,      \* pieces that fill the buffer of fgets
    MaxSize,    \* bound: pieces of a message
    MaxSent,    \* bound: no message starts after so many pieces
    MaxPipes,   \* bound: pipes ever created under the name
    NoWriter

ASSUME PipeAssumption ==
    /\ Creators \subseteq Writers /\ Recreate \subseteq Readers
    /\ Writers \cap Readers = {}
    /\ NoWriter \notin Writers
    /\ {Capacity, Limit, MaxSize, MaxPipes} \subseteq Nat \ {0}
    /\ MaxSent \in Nat

VARIABLES
    name,      \* the pipe the file name stands for now; 0: no such file
    made,      \* number of pipes created so far
    data,      \* what each pipe holds
    rwlock,    \* the writer that has the lock of each process
    wpc,       \* where each writer is
    left,      \* pieces each writer has still to write
    rpc,       \* where each reader is
    end,       \* the pipe each writer and each reader has open; 0: none
    acc,       \* what fgets of each reader has collected
    sent,      \* history: pieces sent so far
    got        \* history: pieces each reader has returned

files == <<name, made>>
vars  == <<name, made, data, rwlock, wpc, left, rpc, end, acc, sent, got>>

-----------------------------------------------------------------------------
Procs == {Proc[w] : w \in Writers}
Pipes == 1..MaxPipes

\* Who has pipe p open for writing, and who for reading (a reader in fopen
\* counts: the kernel keeps the data for it).
OpenWriters(p) == {w \in Writers : end[w] = p}
OpenReaders(p) == {r \in Readers : end[r] = p}

\* What remains in the pipes when u closes its end.
Discard(u) ==
    [p \in Pipes |-> IF OpenWriters(p) \cup OpenReaders(p) \subseteq {u} THEN <<>> ELSE data[p]]

Init ==
    /\ name = 0 /\ made = 0
    /\ data = [p \in Pipes |-> <<>>]
    /\ rwlock = [x \in Procs |-> NoWriter]
    /\ wpc = [w \in Writers |-> "idle"]
    /\ left = [w \in Writers |-> 0]
    /\ rpc = [r \in Readers |-> "start"]
    /\ end = [u \in Writers \cup Readers |-> 0]
    /\ acc = [r \in Readers |-> <<>>]
    /\ sent = 0
    /\ got = [r \in Readers |-> <<>>]

\* access and mknod: create the pipe when the name is free.
Create ==
    IF name = 0
    THEN made < MaxPipes /\ made' = made + 1 /\ name' = made'
    ELSE UNCHANGED files

-----------------------------------------------------------------------------
(* pushJNI, newAppJNI, the TEXT case of websocket_data_handler.            *)

\* pthread_rwlock_wrlock, and the pipe is created by those who do so.
Lock(w) ==
    /\ wpc[w] = "idle" /\ sent < MaxSent
    /\ rwlock[Proc[w]] = NoWriter
    /\ rwlock' = [rwlock EXCEPT ![Proc[w]] = w]
    /\ wpc' = [wpc EXCEPT ![w] = "locked"]
    /\ IF w \in Creators THEN Create ELSE UNCHANGED files
    /\ UNCHANGED <<data, left, rpc, end, acc, sent, got>>

\* fopen "r+": it lets the readers that wait in fopen go on.
OpenToWrite(w) ==
    /\ wpc[w] = "locked" /\ name # 0
    /\ wpc' = [wpc EXCEPT ![w] = "writing"]
    /\ end' = [end EXCEPT ![w] = name]
    /\ \E n \in 1..MaxSize : left' = [left EXCEPT ![w] = n]
    /\ rpc' = [r \in Readers |-> IF rpc[r] = "opening" /\ end[r] = name THEN "reading" ELSE rpc[r]]
    /\ UNCHANGED <<files, data, rwlock, acc, sent, got>>

\* Mutant: the error path forgets the lock.
OpenFailsLocked(w) ==
    /\ wpc[w] = "locked" /\ name = 0
    /\ wpc' = [wpc EXCEPT ![w] = "idle"]
    /\ UNCHANGED <<files, data, rwlock, left, rpc, end, acc, sent, got>>

\* fopen fails, and the message is dropped.
OpenFails(w) ==
    /\ wpc[w] = "locked" /\ name = 0
    /\ wpc' = [wpc EXCEPT ![w] = "idle"]
    /\ rwlock' = [rwlock EXCEPT ![Proc[w]] = NoWriter]
    /\ UNCHANGED <<files, data, left, rpc, end, acc, sent, got>>

\* One write of fputs or fflush; it blocks while the pipe is full.
Write(w) ==
    LET p == end[w] IN
    /\ wpc[w] = "writing" /\ left[w] > 0
    /\ Len(data[p]) < Capacity
    /\ sent' = sent + 1
    /\ data' = [data EXCEPT ![p] = Append(@, sent')]
    /\ left' = [left EXCEPT ![w] = @ - 1]
    /\ UNCHANGED <<files, rwlock, wpc, rpc, end, acc, got>>

\* fclose and pthread_rwlock_unlock.
CloseToWrite(w) ==
    /\ wpc[w] = "writing" /\ left[w] = 0
    /\ wpc' = [wpc EXCEPT ![w] = "idle"]
    /\ data' = Discard(w)
    /\ end' = [end EXCEPT ![w] = 0]
    /\ rwlock' = [rwlock EXCEPT ![Proc[w]] = NoWriter]
    /\ UNCHANGED <<files, left, rpc, acc, sent, got>>

-----------------------------------------------------------------------------
(* read_thread and receiveBlockingJNI.                                     *)

\* access and mknod: read_thread once, receiveBlockingJNI for each message.
ReaderCreates(r) ==
    /\ rpc[r] = "start"
    /\ Create
    /\ rpc' = [rpc EXCEPT ![r] = "closed"]
    /\ UNCHANGED <<data, rwlock, wpc, left, end, acc, sent, got>>

\* fopen "r": without a writer it waits.
OpenToRead(r) ==
    /\ rpc[r] = "closed" /\ name # 0
    /\ rpc' = [rpc EXCEPT ![r] = IF OpenWriters(name) = {} THEN "opening" ELSE "reading"]
    /\ end' = [end EXCEPT ![r] = name]
    /\ UNCHANGED <<files, data, rwlock, wpc, left, acc, sent, got>>

\* The name is gone: read_thread ends, receiveBlockingJNI is called again.
OpenReadFails(r) ==
    /\ rpc[r] = "closed" /\ name = 0
    /\ rpc' = [rpc EXCEPT ![r] = IF r \in Recreate THEN "start" ELSE "ended"]
    /\ UNCHANGED <<files, data, rwlock, wpc, left, end, acc, sent, got>>

\* Mutant: the piece is looked at and not taken.
ReadKeeps(r) ==
    LET p == end[r] IN
    /\ rpc[r] = "reading" /\ Len(acc[r]) < Limit
    /\ data[p] # <<>>
    /\ acc' = [acc EXCEPT ![r] = Append(@, Head(data[p]))]
    /\ UNCHANGED <<files, data, rwlock, wpc, left, rpc, end, sent, got>>

\* fgets reads a piece.
Read(r) ==
    LET p == end[r] IN
    /\ rpc[r] = "reading" /\ Len(acc[r]) < Limit
    /\ data[p] # <<>>
    /\ acc' = [acc EXCEPT ![r] = Append(@, Head(data[p]))]
    /\ data' = [data EXCEPT ![p] = Tail(@)]
    /\ UNCHANGED <<files, rwlock, wpc, left, rpc, end, sent, got>>

\* fgets returns: its buffer is full, or the last writer has closed.
ReadReturns(r) ==
    /\ rpc[r] = "reading" /\ acc[r] # <<>>
    /\ \/ Len(acc[r]) = Limit
       \/ data[end[r]] = <<>> /\ OpenWriters(end[r]) = {}
    /\ rpc' = [rpc EXCEPT ![r] = "returned"]
    /\ UNCHANGED <<files, data, rwlock, wpc, left, end, acc, sent, got>>

\* End of file before any data.  read_thread leaves its loop with the pipe
\* open; receiveBlockingJNI closes it and returns what was in its buffer.
ReadNothing(r) ==
    /\ rpc[r] = "reading" /\ acc[r] = <<>>
    /\ data[end[r]] = <<>> /\ OpenWriters(end[r]) = {}
    /\ rpc' = [rpc EXCEPT ![r] = IF r \in Recreate THEN "returned" ELSE "leaked"]
    /\ UNCHANGED <<files, data, rwlock, wpc, left, end, acc, sent, got>>

\* Mutant: only the first piece is handed on.
HandOnFirst(r) ==
    /\ rpc[r] = "returned"
    /\ rpc' = [rpc EXCEPT ![r] = IF r \in Recreate THEN "start" ELSE "closed"]
    /\ data' = Discard(r)
    /\ end' = [end EXCEPT ![r] = 0]
    /\ got' = [got EXCEPT ![r] = IF acc[r] = <<>> THEN @ ELSE Append(@, Head(acc[r]))]
    /\ acc' = [acc EXCEPT ![r] = <<>>]
    /\ UNCHANGED <<files, rwlock, wpc, left, sent>>

\* fclose, and the message is handed on.
CloseToRead(r) ==
    /\ rpc[r] = "returned"
    /\ rpc' = [rpc EXCEPT ![r] = IF r \in Recreate THEN "start" ELSE "closed"]
    /\ data' = Discard(r)
    /\ end' = [end EXCEPT ![r] = 0]
    /\ got' = [got EXCEPT ![r] = @ \o acc[r]]
    /\ acc' = [acc EXCEPT ![r] = <<>>]
    /\ UNCHANGED <<files, rwlock, wpc, left, sent>>

-----------------------------------------------------------------------------
\* newAppJNI, deleteAppJNI and ws_server_thread: remove the name.
Remove ==
    /\ name # 0 /\ made < MaxPipes
    /\ name' = 0
    /\ UNCHANGED <<made, data, rwlock, wpc, left, rpc, end, acc, sent, got>>

Writer(w) ==
    Lock(w) \/ OpenToWrite(w) \/ OpenFails(w) \/ Write(w) \/ CloseToWrite(w)

Reader(r) ==
    \/ ReaderCreates(r) \/ OpenToRead(r) \/ OpenReadFails(r)
    \/ Read(r) \/ ReadReturns(r) \/ ReadNothing(r) \/ CloseToRead(r)

Next == (\E w \in Writers : Writer(w)) \/ (\E r \in Readers : Reader(r)) \/ Remove

Spec == Init /\ [][Next]_vars

\* Threads that can run do run: a holder of the lock, and a reader that has the
\* pipe open.  No reader has to open it: a read_thread may have ended or wait on
\* a removed pipe, and receiveBlockingJNI may not be called again.  No message
\* has to be sent, no pipe has to be removed.
Fairness ==
    /\ \A w \in Writers : WF_vars(OpenToWrite(w) \/ OpenFails(w) \/ Write(w) \/ CloseToWrite(w))
    /\ \A r \in Readers : WF_vars(Read(r) \/ ReadReturns(r) \/ ReadNothing(r) \/ CloseToRead(r))

FairSpec == Spec /\ Fairness

-----------------------------------------------------------------------------
(* Properties.                                                             *)

\* The pieces that can be sent before the bound takes effect.
Numbers == MaxSent + MaxSize * Cardinality(Writers)

\* Every variable has its type, a file name stands for a pipe that was
\* made, and writers, locks and ends agree.
TypeOK ==
    /\ made \in 0..MaxPipes /\ name \in {0, made}
    /\ sent \in Nat
    /\ data \in [Pipes -> Seq(1..sent)]
    /\ \A p \in Pipes : Len(data[p]) <= Capacity
    /\ rwlock \in [Procs -> Writers \cup {NoWriter}]
    /\ wpc \in [Writers -> {"idle", "locked", "writing"}]
    /\ \A w \in Writers : wpc[w] # "idle" <=> rwlock[Proc[w]] = w
    /\ left \in [Writers -> 0..MaxSize]
    /\ rpc \in [Readers -> {"start", "closed", "opening", "reading", "returned", "leaked", "ended"}]
    /\ end \in [Writers \cup Readers -> 0..made]
    /\ acc \in [Readers -> Seq(1..sent)] /\ got \in [Readers -> Seq(1..sent)]

Channel == INSTANCE LossyChannel

\* The pipes between app and server are lossy channels: whatever the order
\* of opens, writes, closes and removals, with two readers on one pipe and
\* readers on a removed one, no reader gets a piece twice, after a later
\* one, or one that another reader has got.  (With writers in two processes
\* and a removal between them the order is lost: the pipe of the app list,
\* which several apps write, is never removed while it is in use.)
ImplementsChannel == Channel!Spec

\* A writer that cannot go on: the pipe it keeps open is full, and nobody who
\* takes from it has it open.
Waits(w) ==
    /\ wpc[w] = "writing" /\ left[w] > 0
    /\ Len(data[end[w]]) = Capacity
    /\ \A r \in OpenReaders(end[w]) : rpc[r] # "reading"

\* Who holds the lock of pushJNI, newAppJNI or the websocket handler gives it
\* back, on each of its paths and whatever readers do.  The one exception is
\* a holder that waits for room from some time on, for ever, in a pipe that
\* nobody reads: it shuts out all other pushes of its process.
LockIsFreed ==
    \A w \in Writers :
        rwlock[Proc[w]] = w ~> rwlock[Proc[w]] # w \/ []Waits(w)

\* What is in a pipe that a reader has open, removed or not, is handed on
\* by this reader or by another one: messages that fit the buffer are lost
\* between two reads only.
HandedOn ==
    \A p \in Pipes, k \in 1..Numbers, r \in Readers :
        (end[r] = p /\ rpc[r] = "reading" /\ \E i \in 1..Len(data[p]) : data[p][i] = k)
            ~> \E q \in Readers : \E i \in 1..Len(got[q]) : got[q][i] = k
=============================================================================
