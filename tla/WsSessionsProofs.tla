-------------------------- MODULE WsSessionsProofs --------------------------
(***************************************************************************)
(* For any number of workers, tabs, threads and slots, in any interleaving *)
(* and whoever races for the slots: a command reaches only the thread      *)
(* whose tab sent it, and a departed client has left no slot unmarked,     *)
(* unless the slot was filled while another worker filled one, too.        *)
(*                                                                         *)
(* Both rest on who writes what: only a worker puts its own conn into a    *)
(* slot, and pointers into its own buffer when no one else uses strtok     *)
(* meanwhile, and nothing overwrites that buffer while the worker serves a *)
(* websocket.                                                              *)
(*                                                                         *)
(* What else the sessions promise holds for browsers that open and close   *)
(* their websockets one at a time, and show a thread in one tab (Patient): *)
(* at most one session is being set up or torn down, all others are whole, *)
(* and the readers that outlive their sessions are known.                  *)
(***************************************************************************)
EXTENDS WsSessions, WellFoundedInduction, TLAPS

\* Two workers that fill slots at the same time have both on record as raced.
RacesAreSeen ==
    \A v, w \in Workers :
        v # w /\ Filling(v) /\ Filling(w) => found[v] \in raced /\ found[w] \in raced

\* What a worker has stored of its query so far, when no other one fills a slot.
FillInv ==
    \A w \in Workers : Filling(w) /\ found[w] \notin raced =>
        /\ wpc[w] # "take" => conn[found[w]] \in {w, NoWorker}
        /\ wpc[w] \in {"storeApp", "cutThread"} => rest = w
        /\ wpc[w] \in {"cutThread", "storeThread"} => sApp[found[w]] = w
        /\ wpc[w] = "storeThread" => tok[w] = w

\* The names of a slot that was not raced for point into the buffer of the
\* worker it belongs to, once that worker has filled it.
NamesInv ==
    \A i \in Slots \ raced : conn[i] # NoWorker =>
        \/ sApp[i] = conn[i] /\ sThread[i] = conn[i]
        \/ Filling(conn[i]) /\ found[conn[i]] = i

\* A worker that serves a websocket has a tab, and the query of that tab in its
\* buffer.
BufInv ==
    \A w \in Workers :
        wpc[w] # "idle" => tab[w] \in Tabs /\ buf[w] = ThreadOf[tab[w]]

\* All of them, and the two properties, are inductive together.
IndInv == /\ TypeOK /\ RacesAreSeen /\ FillInv /\ NamesInv /\ BufInv
          /\ DepartedAreMarked /\ ObeyedByOwnThread

\* The types of worker, server and reader.
WorkerPc == {"idle", "connecting", "ready", "open", "closing", "refused"} \cup FillPcs
ServerPc == {"none", "starting", "running", "removing", "clearing", "marking", "done"}
ServerRec == [pc : ServerPc, slot : Slots, conn : Workers \cup {NoWorker}]
ReaderPc == {"none", "starting", "closed", "opening", "writing", "deaf", "eof", "dead"}
ReaderRec == [pc : ReaderPc, name : Names \cup {NoName}, conn : Workers \cup {NoWorker},
              outlived : BOOLEAN]
LastRec == [kind : {"nothing", "command", "ping", "message"},
            thread : Names \cup {NoName}, tab : Tabs \cup {NoTab}, by : Tabs \cup {NoTab}]

-----------------------------------------------------------------------------
(* The invariant of patient browsers, which open and close their websockets *)
(* one at a time: at most one session is being set up or torn down, and all *)
(* the others are whole.                                                    *)

\* Slot i is the one of worker w; w has none.
Owns(w, i) == i \in Slots /\ \A j \in Slots : conn[j] = w <=> j = i
NoSlot(w) == \A j \in Slots : conn[j] # w

\* The reader of tab t reads the pipe of its thread for worker w, or has ended
\* with the end of file.
Listens(w, t) ==
    \/ /\ reader[t].pc \in {"closed", "opening", "writing"}
       /\ reader[t].name = ThreadOf[t] /\ reader[t].conn = w /\ ~reader[t].outlived
       /\ reader[t].name \in msgPipes
    \/ reader[t].pc = "eof"

\* The reader of tab t has ended, or has outlived its session.
Gone(t) == \/ reader[t].pc \in {"deaf", "eof", "dead"}
           \/ reader[t].pc \in {"closed", "opening", "writing"} /\ reader[t].outlived

\* Worker w serves tab t, and all of the session is there.
InSession(w, t) ==
    /\ wpc[w] = "open" /\ tab[w] = t
    /\ Owns(w, server[t].slot) /\ closing[server[t].slot] = 0
    /\ server[t].pc = "running" /\ server[t].conn = w
    /\ Listens(w, t)

\* A worker without a websocket.
Free(w) == wpc[w] = "idle" /\ tab[w] = NoTab /\ NoSlot(w)

\* A tab that has had no session yet, and one whose session has ended.
Fresh(t) == server[t].pc = "none" /\ reader[t].pc = "none"
Over(t) == server[t].pc = "done" /\ Gone(t)

\* All workers but those of W, and all tabs but those of T.
Quiet(W, T) ==
    /\ \A w \in Workers \ W : Free(w) \/ \E t \in Tabs \ T : InSession(w, t)
    /\ \A t \in Tabs \ T : Fresh(t) \/ Over(t) \/ \E w \in Workers \ W : InSession(w, t)

\* Worker w sets up the session of tab t.
Opening(w, t) ==
    /\ tab[w] = t
    /\ \/ wpc[w] = "connecting" /\ NoSlot(w) /\ Fresh(t)
       \/ /\ wpc[w] = "refused" /\ NoSlot(w) /\ Fresh(t)
          /\ \A i \in Slots : conn[i] # NoWorker /\ closing[i] = 0
       \/ wpc[w] = "take" /\ NoSlot(w) /\ Fresh(t) /\ conn[found[w]] = NoWorker
       \/ wpc[w] = "clear" /\ Fresh(t) /\ Owns(w, found[w])
       \/ /\ wpc[w] \in FillPcs \ {"take", "clear"} /\ Fresh(t)
          /\ Owns(w, found[w]) /\ closing[found[w]] = 0
       \/ /\ wpc[w] = "ready" /\ Fresh(t)
          /\ \E i \in Slots : Owns(w, i) /\ closing[i] = 0
       \/ /\ wpc[w] = "open"
          /\ Owns(w, server[t].slot) /\ closing[server[t].slot] = 0
          /\ \/ server[t].pc = "starting" /\ reader[t].pc = "none"
             \/ server[t].pc = "running" /\ server[t].conn = w /\ reader[t].pc = "starting"

\* Worker w and the server thread end the session of tab t, each at its pace.
Leaving(w, t) ==
    /\ \/ wpc[w] = "closing" /\ tab[w] = t
       \/ wpc[w] = "idle" /\ tab[w] = NoTab /\ closing[server[t].slot] # 0
    /\ buf[w] = ThreadOf[t]
    /\ \/ server[t].pc = "running" /\ Owns(w, server[t].slot) /\ Listens(w, t)
       \/ /\ server[t].pc = "removing" /\ Owns(w, server[t].slot) /\ Listens(w, t)
          /\ closing[server[t].slot] # 0
       \/ /\ server[t].pc = "clearing" /\ Owns(w, server[t].slot) /\ Gone(t)
          /\ closing[server[t].slot] # 0
       \/ /\ server[t].pc = "marking" /\ NoSlot(w) /\ Gone(t)
          /\ closing[server[t].slot] # 0 /\ conn[server[t].slot] = NoWorker
       \/ server[t].pc = "done" /\ NoSlot(w) /\ Gone(t) /\ wpc[w] = "closing"

\* A worker whose tab has, or will have, no slot; it may show what another one
\* shows when the table is full.
Outside(w) == wpc[w] \in {"connecting", "refused"}
Full == SlotsOf(NoWorker) = {}

\* No other worker shows the thread of tab t.
Apart(w, t) ==
    \A v \in Workers : v # w /\ tab[v] # NoTab => ThreadOf[tab[v]] # ThreadOf[t]

InTransition(w, t) ==
    /\ Opening(w, t) \/ Leaving(w, t)
    /\ Apart(w, t) \/ (Outside(w) /\ Full)
    /\ Quiet({w}, {t})

\* No two workers show the same thread.
ThreadsInv ==
    \A v, w \in Workers :
        tab[v] # NoTab /\ tab[w] # NoTab /\ ~Outside(v) /\ ~Outside(w)
        /\ ThreadOf[tab[v]] = ThreadOf[tab[w]] => v = w

SessionInv ==
    /\ raced = {} /\ ThreadsInv
    /\ Quiet({}, {}) \/ \E w \in Workers, t \in Tabs : InTransition(w, t)
    /\ ShownInOwnTab


USE NamesAssumption, TabsAssumption, TableAssumption, BoundAssumption, AbsentAssumption
    DEF table, strtok, workers, pipes, Slots

-----------------------------------------------------------------------------
(* The scan of the table.                                                  *)

\* A non-empty set of slots has a first one.
LEMMA FirstIsIn == ASSUME NEW S, S \subseteq Slots, S # {} PROVE First(S) \in S
<1>1. IsWellFoundedOn(OpToRel(<, Nat), Nat)
  BY NatLessThanWellFounded
<1>2. S \subseteq Nat
  OBVIOUS
<1>3. PICK x \in S : \A y \in S : ~(<<y, x>> \in OpToRel(<, Nat))
  BY <1>1, <1>2, WFMin
<1>4. \A y \in S : ~(y < x)
  BY <1>2, <1>3 DEF OpToRel
<1>5. \A y \in S : x <= y
  BY <1>2, <1>4
<1> QED
  BY <1>5 DEF First

\* A scan that finds a slot finds one of that conn.
LEMMA ScanFinds ==
    ASSUME NEW c, SlotsOf(c) # {}
    PROVE First(SlotsOf(c)) \in Slots /\ conn[First(SlotsOf(c))] = c
<1>1. First(SlotsOf(c)) \in SlotsOf(c)
  BY FirstIsIn DEF SlotsOf
<1> QED
  BY <1>1 DEF SlotsOf

-----------------------------------------------------------------------------
(* What most steps leave alone.                                            *)

\* A slot names a thread or none.
LEMMA NameType == ASSUME NEW i PROVE NameAt(i) \in Names \cup {NoName}
BY DEF NameAt

\* A step that delivers nothing keeps the type of last, and obeys.
LEMMA SilentStep == ASSUME Silent PROVE last' \in LastRec /\ ObeyedByOwnThread'
BY DEF Silent, Nothing, LastRec, ObeyedByOwnThread

\* A server thread that moves on keeps its type.
LEMMA ServerMoves ==
    ASSUME server \in [Tabs -> ServerRec], NEW t \in Tabs, NEW p \in ServerPc,
           server' = [server EXCEPT ![t].pc = p]
    PROVE server' \in [Tabs -> ServerRec]
<1>1. server[t] \in ServerRec
  OBVIOUS
<1>2. [server[t] EXCEPT !.pc = p] \in ServerRec
  BY <1>1 DEF ServerRec
<1> QED
  BY <1>2

\* No one starts or ends to fill a slot, and no slot is taken.
FillersStay ==
    /\ \A v \in Workers : wpc'[v] = wpc[v] \/ (~Filling(v) /\ ~Filling(v)')
    /\ UNCHANGED <<sApp, sThread, raced, found, rest, tok>>
    /\ \A i \in Slots : conn'[i] = conn[i] \/ conn'[i] = NoWorker

\* Then what is known of the slots stays known.
LEMMA SlotsStay ==
    ASSUME RacesAreSeen, FillInv, NamesInv, TypeOK, FillersStay
    PROVE (RacesAreSeen /\ FillInv /\ NamesInv)'
<1>1. \A v \in Workers : /\ Filling(v)' <=> Filling(v)
                         /\ Filling(v) => wpc'[v] = wpc[v]
  BY DEF FillersStay, Filling
<1>2. RacesAreSeen'
  BY <1>1 DEF FillersStay, RacesAreSeen
<1>3. FillInv'
  <2> SUFFICES ASSUME NEW w \in Workers, Filling(w)', found'[w] \notin raced'
               PROVE /\ wpc'[w] # "take" => conn'[found'[w]] \in {w, NoWorker}
                     /\ wpc'[w] \in {"storeApp", "cutThread"} => rest' = w
                     /\ wpc'[w] \in {"cutThread", "storeThread"} => sApp'[found'[w]] = w
                     /\ wpc'[w] = "storeThread" => tok'[w] = w
    BY DEF FillInv
  <2>1. Filling(w) /\ wpc'[w] = wpc[w] /\ found'[w] = found[w] /\ raced' = raced /\ found[w] \in Slots
    BY <1>1 DEF FillersStay, TypeOK
  <2> QED
    BY <2>1 DEF FillersStay, FillInv
<1>4. NamesInv'
  <2> SUFFICES ASSUME NEW i \in Slots, i \notin raced', conn'[i] # NoWorker
               PROVE \/ sApp'[i] = conn'[i] /\ sThread'[i] = conn'[i]
                     \/ Filling(conn[i])' /\ found'[conn'[i]] = i
    BY DEF NamesInv
  <2>1. conn'[i] = conn[i] /\ raced' = raced /\ conn[i] \in Workers
    BY DEF FillersStay, TypeOK
  <2> QED
    BY <1>1, <2>1 DEF FillersStay, NamesInv
<1> QED
  BY <1>2, <1>3, <1>4

\* The same for everything but the types and what is delivered, when besides
\* no tab comes or goes and no mark is taken back.
LEMMA TableStays ==
    ASSUME IndInv, TypeOK', ObeyedByOwnThread', FillersStay, UNCHANGED <<tab, buf>>,
           \A v \in Workers : wpc'[v] = "idle" <=> wpc[v] = "idle",
           \A i \in Slots : closing'[i] = closing[i] \/ closing'[i] # 0
    PROVE IndInv'
<1>1. (RacesAreSeen /\ FillInv /\ NamesInv)'
  BY SlotsStay DEF IndInv
<1>2. BufInv'
  BY DEF IndInv, BufInv
<1>3. DepartedAreMarked'
  BY DEF IndInv, DepartedAreMarked, FillersStay
<1> QED
  BY <1>1, <1>2, <1>3 DEF IndInv

-----------------------------------------------------------------------------
(* One lemma for each action.                                              *)

\* A tab connects.
LEMMA ConnectStep == ASSUME IndInv, NEW w \in Workers, NEW t \in Tabs, Connect(w, t) PROVE IndInv'
<1> USE DEF Connect, WorkerAt
<1>1. TypeOK'
  BY SilentStep DEF IndInv, TypeOK, LastRec
<1>2. (RacesAreSeen /\ FillInv /\ NamesInv)'
  <2>1. FillersStay
    BY DEF FillersStay, Filling, FillPcs, IndInv, TypeOK
  <2> QED
    BY <2>1, SlotsStay DEF IndInv
<1>3. BufInv' /\ DepartedAreMarked'
  BY DEF IndInv, TypeOK, BufInv, DepartedAreMarked
<1> QED
  BY <1>1, <1>2, <1>3, SilentStep DEF IndInv

\* A worker scans for a free slot.
LEMMA FindSlotStep == ASSUME IndInv, NEW w \in Workers, FindSlot(w) PROVE IndInv'
<1> DEFINE i == First(SlotsOf(NoWorker))
           others == {v \in Workers : v # w /\ Filling(v)}
<1>a. TypeOK /\ RacesAreSeen /\ FillInv /\ NamesInv /\ BufInv /\ DepartedAreMarked
  BY DEF IndInv
<1>b. /\ UNCHANGED <<conn, closing, sApp, sThread, tab, buf, strtok, server, reader, pipes>>
      /\ Silent /\ wpc[w] = "connecting"
  BY DEF FindSlot, WorkerAt
<1>1. CASE SlotsOf(NoWorker) = {}
  <2>1. wpc' = [wpc EXCEPT ![w] = "refused"] /\ UNCHANGED <<found, raced>>
    BY <1>1 DEF FindSlot, WorkerAt
  <2>2. wpc' \in [Workers -> WorkerPc]
    BY <1>a, <2>1 DEF TypeOK, WorkerPc
  <2>3. TypeOK'
    BY <1>a, <1>b, <2>1, <2>2, SilentStep DEF TypeOK, LastRec, WorkerPc
  <2>4. \A v \in Workers : /\ wpc'[v] = wpc[v] \/ (~Filling(v) /\ ~Filling(v)')
                           /\ wpc'[v] = "idle" <=> wpc[v] = "idle"
    BY <1>a, <1>b, <2>1 DEF TypeOK, Filling, FillPcs
  <2>5. FillersStay
    BY <1>b, <2>1, <2>4 DEF FillersStay
  <2> QED
    BY <1>b, <2>1, <2>3, <2>4, <2>5, SilentStep, TableStays
<1>2. CASE SlotsOf(NoWorker) # {}
  <2>1. i \in Slots /\ conn[i] = NoWorker
    BY <1>2, ScanFinds
  <2>2. /\ wpc' = [wpc EXCEPT ![w] = "take"] /\ found' = [found EXCEPT ![w] = i]
        /\ raced' = IF others = {} THEN raced \ {i}
                    ELSE raced \cup {i} \cup {found[v] : v \in others}
    BY <1>2 DEF FindSlot, WorkerAt
  <2> HIDE DEF i
  <2>3. /\ \A v \in Workers : v # w => /\ Filling(v)' <=> Filling(v)
                                       /\ found'[v] = found[v] /\ wpc'[v] = wpc[v]
        /\ wpc'[w] = "take" /\ found'[w] = i /\ ~Filling(w)
    BY <1>a, <1>b, <2>2 DEF TypeOK, Filling, FillPcs
  <2>4. \A v \in Workers : v # w /\ Filling(v) => /\ found[v] \in raced' /\ i \in raced'
                                                  /\ raced \subseteq raced'
    <3> TAKE v \in Workers
    <3> HAVE v # w /\ Filling(v)
    <3>1. v \in others
      OBVIOUS
    <3> HIDE DEF others
    <3>2. raced' = raced \cup {i} \cup {found[u] : u \in others}
      BY <2>2, <3>1
    <3> QED
      BY <3>1, <3>2
  <2>5. \A j \in Slots : j # i /\ j \notin raced' => j \notin raced
    BY <2>2
  <2> HIDE DEF others
  <2>6. TypeOK'
    <3>1. wpc' \in [Workers -> WorkerPc] /\ found' \in [Workers -> Slots]
      BY <1>a, <2>1, <2>2 DEF TypeOK, WorkerPc, FillPcs
    <3>2. raced' \subseteq Slots
      <4>1. others \subseteq Workers
        BY DEF others
      <4> QED
        BY <1>a, <2>1, <2>2, <4>1 DEF TypeOK
    <3> QED
      BY <1>a, <1>b, <3>1, <3>2, SilentStep DEF TypeOK, LastRec, WorkerPc
  <2>7. RacesAreSeen'
    BY <1>a, <2>3, <2>4 DEF RacesAreSeen
  <2>8. FillInv'
    BY <2>3, <2>4 DEF FillInv
  <2>9. NamesInv'
    <3> SUFFICES ASSUME NEW j \in Slots, j \notin raced', conn[j] # NoWorker
                 PROVE \/ sApp[j] = conn[j] /\ sThread[j] = conn[j]
                       \/ Filling(conn[j])' /\ found'[conn[j]] = j
      BY <1>b DEF NamesInv
    <3>1. j \notin raced /\ conn[j] \in Workers
      BY <1>a, <2>1, <2>5 DEF TypeOK
    <3>2. conn'[j] = conn[j]
      BY <1>b
    <3>3. conn[j] # w /\ Filling(conn[j]) =>
            Filling(conn[j])' /\ found'[conn[j]] = found[conn[j]]
      BY <2>3, <3>1, <3>2
    <3> QED
      BY <1>a, <2>3, <3>1, <3>3 DEF NamesInv
  <2>10. BufInv'
    BY <1>a, <1>b, <2>3 DEF BufInv
  <2>11. DepartedAreMarked'
    BY <1>a, <1>b, <2>1, <2>3, <2>5 DEF DepartedAreMarked
  <2> QED
    BY <1>b, <2>6, <2>7, <2>8, <2>9, <2>10, <2>11, SilentStep DEF IndInv
<1> QED
  BY <1>1, <1>2

\* A worker puts its conn into the slot.
LEMMA TakeConnStep == ASSUME IndInv, NEW w \in Workers, TakeConn(w) PROVE IndInv'
<1> DEFINE i == found[w]
<1>a. TypeOK /\ RacesAreSeen /\ FillInv /\ NamesInv /\ BufInv /\ DepartedAreMarked
  BY DEF IndInv
<1>b. /\ wpc[w] = "take" /\ wpc' = [wpc EXCEPT ![w] = "clear"]
      /\ conn' = [conn EXCEPT ![i] = w] /\ Silent
      /\ UNCHANGED <<closing, sApp, sThread, raced, tab, buf, found, strtok, server, reader, pipes>>
  BY DEF TakeConn, WorkerAt
<1>c. i \in Slots
  BY <1>a DEF TypeOK
<1> HIDE DEF i
<1>1. TypeOK'
  <2>1. wpc' \in [Workers -> WorkerPc] /\ conn' \in [Slots -> Workers \cup {NoWorker}]
    BY <1>a, <1>b, <1>c DEF TypeOK, WorkerPc, FillPcs
  <2> QED
    BY <1>a, <1>b, <2>1, SilentStep DEF TypeOK, LastRec, WorkerPc
<1>2. /\ \A v \in Workers : /\ Filling(v)' <=> Filling(v)
                            /\ v # w => wpc'[v] = wpc[v]
      /\ Filling(w) /\ wpc'[w] = "clear" /\ conn'[i] = w
      /\ \A j \in Slots : j # i => conn'[j] = conn[j]
  BY <1>a, <1>b, <1>c DEF TypeOK, Filling, FillPcs
<1>3. \A v \in Workers : v # w /\ Filling(v) => found[v] \in raced
  BY <1>a, <1>2 DEF RacesAreSeen
<1>4. RacesAreSeen'
  BY <1>a, <1>b, <1>2 DEF RacesAreSeen
<1>5. FillInv'
  BY <1>b, <1>2, <1>3 DEF FillInv, i
<1>6. NamesInv'
  <2> SUFFICES ASSUME NEW j \in Slots, j \notin raced, conn'[j] # NoWorker
               PROVE \/ sApp[j] = conn'[j] /\ sThread[j] = conn'[j]
                     \/ Filling(conn[j])' /\ found[conn'[j]] = j
    BY <1>b DEF NamesInv
  <2>1. CASE j = i
    BY <1>2, <2>1 DEF i
  <2>2. CASE j # i
    <3>1. conn'[j] = conn[j] /\ conn[j] \in Workers
      BY <1>a, <1>2, <2>2 DEF TypeOK
    <3>2. Filling(conn[j])' <=> Filling(conn[j])
      BY <1>2, <3>1
    <3> QED
      BY <1>a, <3>1, <3>2 DEF NamesInv
  <2> QED
    BY <2>1, <2>2
<1>7. BufInv' /\ DepartedAreMarked'
  BY <1>a, <1>b, <1>2 DEF BufInv, DepartedAreMarked
<1> QED
  BY <1>b, <1>1, <1>4, <1>5, <1>6, <1>7, SilentStep DEF IndInv

\* The other stores of worker w: whoever else fills a slot is raced, so only
\* its own count.
LEMMA StoreStep ==
    ASSUME IndInv, TypeOK', NEW w \in Workers, NEW p \in FillPcs \ {"take", "clear"},
           Filling(w), wpc[w] # "take", Silent, wpc' = [wpc EXCEPT ![w] = p],
           UNCHANGED <<conn, raced, tab, buf, found, sThread>>,
           \A j \in Slots : j # found[w] => closing'[j] = closing[j] /\ sApp'[j] = sApp[j],
           found[w] \notin raced =>
             /\ p \in {"storeApp", "cutThread"} => rest' = w
             /\ p \in {"cutThread", "storeThread"} => sApp'[found[w]] = w
             /\ p = "storeThread" => tok'[w] = w
    PROVE IndInv'
<1>a. TypeOK /\ RacesAreSeen /\ FillInv /\ NamesInv /\ BufInv /\ DepartedAreMarked
  BY DEF IndInv
<1>1. /\ \A v \in Workers : /\ Filling(v)' <=> Filling(v)
                            /\ v # w => wpc'[v] = wpc[v]
      /\ wpc'[w] = p /\ p \in FillPcs /\ p \notin {"take", "idle"} /\ wpc[w] # "idle"
  BY <1>a DEF TypeOK, Filling, FillPcs
<1>2. RacesAreSeen' /\ BufInv'
  BY <1>a, <1>1 DEF RacesAreSeen, BufInv
<1>3. \A v \in Workers : v # w /\ Filling(v) => found[v] \in raced
  BY <1>a DEF RacesAreSeen
<1>4. found[w] \notin raced => conn[found[w]] \in {w, NoWorker}
  BY <1>a DEF FillInv
<1>5. FillInv'
  BY <1>1, <1>3, <1>4 DEF FillInv
<1>6. NamesInv'
  <2> SUFFICES ASSUME NEW j \in Slots, j \notin raced, conn[j] # NoWorker
               PROVE \/ sApp'[j] = conn[j] /\ sThread[j] = conn[j]
                     \/ Filling(conn[j])' /\ found[conn[j]] = j
    BY DEF NamesInv
  <2>1. conn[j] \in Workers /\ conn'[j] = conn[j]
    BY <1>a DEF TypeOK
  <2>2. Filling(conn[j])' <=> Filling(conn[j])
    BY <1>1, <2>1
  <2>3. CASE j # found[w]
    BY <1>a, <2>2, <2>3 DEF NamesInv
  <2>4. CASE j = found[w]
    BY <1>4, <2>2, <2>4
  <2> QED
    BY <2>3, <2>4
<1>7. DepartedAreMarked'
  BY <1>a, <1>1, <1>4, AbsentAssumption DEF DepartedAreMarked
<1> QED
  BY <1>2, <1>5, <1>6, <1>7, SilentStep DEF IndInv

\* A worker takes the mark off the slot.
LEMMA ClearClosingStep == ASSUME IndInv, NEW w \in Workers, ClearClosing(w) PROVE IndInv'
<1> USE DEF ClearClosing, WorkerAt
<1>a. TypeOK
  BY DEF IndInv
<1>1. TypeOK'
  <2>1. wpc' \in [Workers -> WorkerPc] /\ closing' \in [Slots -> 0..2]
    BY <1>a DEF TypeOK, WorkerPc, FillPcs
  <2> QED
    BY <1>a, <2>1, SilentStep DEF TypeOK, LastRec, WorkerPc
<1>2. "cutApp" \in FillPcs \ {"take", "clear"} /\ Filling(w)
  BY DEF FillPcs, Filling
<1>3. \A j \in Slots : j # found[w] => closing'[j] = closing[j]
  BY <1>a DEF TypeOK
<1> QED
  BY <1>1, <1>2, <1>3, StoreStep

\* A worker cuts the app out of the query.
LEMMA CutAppStep == ASSUME IndInv, NEW w \in Workers, CutApp(w) PROVE IndInv'
<1> USE DEF CutApp, WorkerAt
<1>a. TypeOK
  BY DEF IndInv
<1>1. TypeOK'
  <2>1. wpc' \in [Workers -> WorkerPc]
    BY <1>a DEF TypeOK, WorkerPc, FillPcs
  <2> QED
    BY <1>a, <2>1, SilentStep DEF TypeOK, LastRec, WorkerPc
<1>2. "storeApp" \in FillPcs \ {"take", "clear"} /\ Filling(w)
  BY DEF FillPcs, Filling
<1> QED
  BY <1>1, <1>2, StoreStep

\* A worker stores the app.
LEMMA StoreAppStep == ASSUME IndInv, NEW w \in Workers, StoreApp(w) PROVE IndInv'
<1> USE DEF StoreApp, WorkerAt
<1>a. TypeOK /\ FillInv
  BY DEF IndInv
<1>1. TypeOK'
  <2>1. wpc' \in [Workers -> WorkerPc] /\ sApp' \in [Slots -> Workers \cup {NoWorker}]
    BY <1>a DEF TypeOK, WorkerPc, FillPcs
  <2> QED
    BY <1>a, <2>1, SilentStep DEF TypeOK, LastRec, WorkerPc
<1>2. "cutThread" \in FillPcs \ {"take", "clear"} /\ Filling(w)
  BY DEF FillPcs, Filling
<1>3. /\ \A j \in Slots : j # found[w] => sApp'[j] = sApp[j]
      /\ sApp'[found[w]] = w
  BY <1>a DEF TypeOK
<1>4. found[w] \notin raced => rest' = w
  BY <1>a, <1>2 DEF FillInv
<1> QED
  BY <1>1, <1>2, <1>3, <1>4, StoreStep

\* A worker cuts the thread out of what is left of some query.
LEMMA CutThreadStep == ASSUME IndInv, NEW w \in Workers, CutThread(w) PROVE IndInv'
<1> USE DEF CutThread, WorkerAt
<1>a. TypeOK /\ FillInv
  BY DEF IndInv
<1>1. TypeOK'
  <2>1. wpc' \in [Workers -> WorkerPc] /\ tok' \in [Workers -> Workers \cup {NoWorker}]
    BY <1>a DEF TypeOK, WorkerPc, FillPcs
  <2> QED
    BY <1>a, <2>1, SilentStep DEF TypeOK, LastRec, WorkerPc
<1>2. "storeThread" \in FillPcs \ {"take", "clear"} /\ Filling(w)
  BY DEF FillPcs, Filling
<1>3. found[w] \notin raced => sApp[found[w]] = w /\ rest = w
  BY <1>a, <1>2 DEF FillInv
<1>4. tok'[w] = rest
  BY <1>a DEF TypeOK
<1> QED
  BY <1>1, <1>2, <1>3, <1>4, StoreStep

\* A worker stores the thread, and the slot is filled.
LEMMA StoreThreadStep == ASSUME IndInv, NEW w \in Workers, StoreThread(w) PROVE IndInv'
<1> USE DEF StoreThread, WorkerAt
<1>a. TypeOK /\ RacesAreSeen /\ FillInv /\ NamesInv /\ BufInv /\ DepartedAreMarked
  BY DEF IndInv
<1>1. TypeOK'
  <2>1. /\ wpc' \in [Workers -> WorkerPc] /\ found' \in [Workers -> Slots]
        /\ sThread' \in [Slots -> Workers \cup {NoWorker}]
        /\ tok' \in [Workers -> Workers \cup {NoWorker}]
    BY <1>a DEF TypeOK, WorkerPc, FillPcs
  <2> QED
    BY <1>a, <2>1, SilentStep DEF TypeOK, LastRec, WorkerPc
<1>2. /\ \A v \in Workers : v # w => /\ Filling(v)' <=> Filling(v)
                                     /\ wpc'[v] = wpc[v] /\ found'[v] = found[v]
      /\ Filling(w) /\ wpc'[w] = "ready" /\ ~Filling(w)'
      /\ \A j \in Slots : j # found[w] => sThread'[j] = sThread[j]
      /\ sThread'[found[w]] = tok[w] /\ found[w] \in Slots
  BY <1>a DEF TypeOK, Filling, FillPcs
<1>3. \A v \in Workers : v # w /\ Filling(v) => found[v] \in raced
  BY <1>a, <1>2 DEF RacesAreSeen
<1>4. RacesAreSeen'
  BY <1>2, <1>a DEF RacesAreSeen
<1>5. FillInv'
  BY <1>2, <1>3 DEF FillInv
<1>6. NamesInv'
  <2> SUFFICES ASSUME NEW j \in Slots, j \notin raced, conn[j] # NoWorker
               PROVE \/ sApp[j] = conn[j] /\ sThread'[j] = conn[j]
                     \/ Filling(conn[j])' /\ found'[conn[j]] = j
    BY DEF NamesInv
  <2>1. conn[j] \in Workers /\ conn'[j] = conn[j]
    BY <1>a DEF TypeOK
  <2>2. CASE j # found[w]
    <3>1. conn[j] # w => (Filling(conn[j])' <=> Filling(conn[j])) /\ found'[conn[j]] = found[conn[j]]
      BY <1>2, <2>1
    <3> QED
      BY <1>a, <1>2, <2>2, <3>1 DEF NamesInv
  <2>3. CASE j = found[w]
    BY <1>a, <1>2, <2>3 DEF FillInv
  <2> QED
    BY <2>2, <2>3
<1>7. BufInv' /\ DepartedAreMarked'
  BY <1>a, <1>2 DEF BufInv, DepartedAreMarked
<1> QED
  BY <1>1, <1>4, <1>5, <1>6, <1>7, SilentStep DEF IndInv

\* A worker starts the server thread of its session.
LEMMA ReadySessionStep == ASSUME IndInv, NEW w \in Workers, ReadySession(w) PROVE IndInv'
<1>a. TypeOK /\ BufInv
  BY DEF IndInv
<1>b. /\ wpc[w] = "ready" /\ wpc' = [wpc EXCEPT ![w] = "open"] /\ Silent
      /\ UNCHANGED <<table, tab, buf, found, strtok, reader, pipes>>
  BY DEF ReadySession, WorkerAt
<1>1. server' \in [Tabs -> ServerRec]
  <2>1. server \in [Tabs -> ServerRec]
    BY <1>a DEF TypeOK, ServerRec, ServerPc
  <2>2. tab[w] \in Tabs
    BY <1>a, <1>b DEF BufInv
  <2>3. CASE SlotsOf(w) # {}
    <3> DEFINE i == First(SlotsOf(w))
    <3>1. i \in Slots
      BY <2>3, ScanFinds
    <3>2. server' = [server EXCEPT ![tab[w]].pc = "starting", ![tab[w]].slot = i]
      BY <2>3 DEF ReadySession
    <3> HIDE DEF i
    <3>3. [server[tab[w]] EXCEPT !.pc = "starting", !.slot = i] \in ServerRec
      BY <2>1, <2>2, <3>1 DEF ServerRec, ServerPc
    <3> QED
      BY <2>1, <2>2, <3>2, <3>3
  <2>4. CASE SlotsOf(w) = {}
    BY <2>1, <2>4 DEF ReadySession
  <2> QED
    BY <2>3, <2>4
<1>2. /\ wpc' \in [Workers -> WorkerPc]
      /\ \A v \in Workers : /\ wpc'[v] = wpc[v] \/ (~Filling(v) /\ ~Filling(v)')
                            /\ wpc'[v] = "idle" <=> wpc[v] = "idle"
  BY <1>a, <1>b DEF TypeOK, WorkerPc, Filling, FillPcs
<1>3. TypeOK'
  BY <1>a, <1>b, <1>1, <1>2, SilentStep DEF TypeOK, WorkerPc, LastRec, ServerRec, ServerPc
<1> QED
  BY <1>b, <1>2, <1>3, SilentStep, TableStays DEF FillersStay

\* A client closes its websocket.
LEMMA CloseFrameStep == ASSUME IndInv, NEW w \in Workers, CloseFrame(w) PROVE IndInv'
<1>a. TypeOK
  BY DEF IndInv
<1>b. /\ wpc[w] = "open" /\ wpc' = [wpc EXCEPT ![w] = "closing"] /\ Silent
      /\ UNCHANGED <<conn, sApp, sThread, raced, tab, buf, found, strtok, server, reader, pipes>>
  BY DEF CloseFrame, WorkerAt
<1>1. /\ closing' \in [Slots -> 0..2]
      /\ \A i \in Slots : closing'[i] = closing[i] \/ closing'[i] # 0
  <2> DEFINE i == First(SlotsOf(w))
  <2>1. SlotsOf(w) # {} => i \in Slots
    BY ScanFinds
  <2>2. (closing' = closing) \/ (SlotsOf(w) # {} /\ closing' = [closing EXCEPT ![i] = 1])
    BY DEF CloseFrame
  <2>3. closing \in [Slots -> 0..2]
    BY <1>a DEF TypeOK
  <2> HIDE DEF i
  <2> QED
    BY <2>1, <2>2, <2>3
<1>2. /\ wpc' \in [Workers -> WorkerPc]
      /\ \A v \in Workers : /\ wpc'[v] = wpc[v] \/ (~Filling(v) /\ ~Filling(v)')
                            /\ wpc'[v] = "idle" <=> wpc[v] = "idle"
  BY <1>a, <1>b DEF TypeOK, WorkerPc, Filling, FillPcs
<1>3. TypeOK'
  BY <1>a, <1>b, <1>1, <1>2, SilentStep DEF TypeOK, WorkerPc, LastRec
<1> QED
  BY <1>b, <1>1, <1>2, <1>3, SilentStep, TableStays DEF FillersStay

\* A client is gone.
LEMMA ConnectionLostStep == ASSUME IndInv, NEW w \in Workers, ConnectionLost(w) PROVE IndInv'
<1>a. TypeOK
  BY DEF IndInv
<1>b. /\ wpc[w] = "open" /\ wpc' = [wpc EXCEPT ![w] = "closing"] /\ Silent
      /\ UNCHANGED <<table, tab, buf, found, strtok, server, reader, pipes>>
  BY DEF ConnectionLost, WorkerAt
<1>1. /\ wpc' \in [Workers -> WorkerPc]
      /\ \A v \in Workers : /\ wpc'[v] = wpc[v] \/ (~Filling(v) /\ ~Filling(v)')
                            /\ wpc'[v] = "idle" <=> wpc[v] = "idle"
  BY <1>a, <1>b DEF TypeOK, WorkerPc, Filling, FillPcs
<1>2. TypeOK'
  BY <1>a, <1>b, <1>1, SilentStep DEF TypeOK, WorkerPc, LastRec
<1> QED
  BY <1>b, <1>1, <1>2, SilentStep, TableStays DEF FillersStay

\* A worker closes its connection and marks its slots.
LEMMA CloseConnectionStep == ASSUME IndInv, NEW w \in Workers, CloseConnection(w) PROVE IndInv'
<1>a. TypeOK /\ RacesAreSeen /\ FillInv /\ NamesInv /\ BufInv /\ DepartedAreMarked
  BY DEF IndInv
<1>b. /\ wpc[w] \in {"closing", "refused"} /\ wpc' = [wpc EXCEPT ![w] = "idle"] /\ Silent
      /\ closing' = [i \in Slots |-> IF conn[i] = w THEN 1 ELSE closing[i]]
      /\ tab' = [tab EXCEPT ![w] = NoTab]
      /\ UNCHANGED <<conn, sApp, sThread, raced, buf, found, strtok, server, reader, pipes>>
  BY DEF CloseConnection, WorkerAt, MarkClosing
<1>1. /\ wpc' \in [Workers -> WorkerPc] /\ closing' \in [Slots -> 0..2]
      /\ tab' \in [Workers -> Tabs \cup {NoTab}]
  BY <1>a, <1>b DEF TypeOK, WorkerPc
<1>2. TypeOK'
  BY <1>a, <1>b, <1>1, SilentStep DEF TypeOK, WorkerPc, LastRec
<1>3. \A v \in Workers : wpc'[v] = wpc[v] \/ (~Filling(v) /\ ~Filling(v)')
  BY <1>a, <1>b DEF TypeOK, Filling, FillPcs
<1>4. (RacesAreSeen /\ FillInv /\ NamesInv)'
  BY <1>a, <1>b, <1>3, SlotsStay DEF FillersStay
<1>5. BufInv' /\ DepartedAreMarked'
  BY <1>a, <1>b DEF TypeOK, BufInv, DepartedAreMarked
<1> QED
  BY <1>2, <1>4, <1>5, <1>b, SilentStep DEF IndInv

\* A worker serves a page.
LEMMA ServePageStep == ASSUME IndInv, NEW w \in Workers, ServePage(w) PROVE IndInv'
<1>a. TypeOK /\ RacesAreSeen /\ FillInv /\ NamesInv /\ BufInv /\ DepartedAreMarked
  BY DEF IndInv
<1>b. /\ wpc[w] = "idle" /\ Silent /\ buf' = [buf EXCEPT ![w] = NoName]
      /\ closing' = [i \in Slots |-> IF conn[i] = w THEN 1 ELSE closing[i]]
      /\ UNCHANGED <<conn, sApp, sThread, raced, wpc, tab, found, strtok, server, reader, pipes>>
  BY DEF ServePage, MarkClosing
<1>1. closing' \in [Slots -> 0..2] /\ buf' \in [Workers -> Names \cup {NoName}]
  BY <1>a, <1>b DEF TypeOK
<1>2. TypeOK'
  BY <1>a, <1>b, <1>1, SilentStep DEF TypeOK, LastRec
<1>3. (RacesAreSeen /\ FillInv /\ NamesInv)'
  BY <1>a, <1>b, SlotsStay DEF FillersStay
<1>4. BufInv' /\ DepartedAreMarked'
  BY <1>a, <1>b DEF TypeOK, BufInv, DepartedAreMarked
<1> QED
  BY <1>2, <1>3, <1>4, <1>b, SilentStep DEF IndInv

\* A server thread starts.
LEMMA ServerStartStep == ASSUME IndInv, NEW t \in Tabs, ServerStart(t) PROVE IndInv'
<1>a. TypeOK
  BY DEF IndInv
<1>b. /\ server' = [server EXCEPT ![t].pc = "running", ![t].conn = conn[server[t].slot]]
      /\ reader' = [reader EXCEPT ![t].pc = "starting"]
      /\ Silent /\ UNCHANGED <<table, workers, pipes>>
  BY DEF ServerStart
<1>1. server' \in [Tabs -> ServerRec]
  <2>1. server \in [Tabs -> ServerRec]
    BY <1>a DEF TypeOK, ServerRec, ServerPc
  <2>2. server[t].slot \in Slots /\ conn[server[t].slot] \in Workers \cup {NoWorker}
    BY <2>1, <1>a DEF TypeOK, ServerRec
  <2>3. [server[t] EXCEPT !.pc = "running", !.conn = conn[server[t].slot]] \in ServerRec
    BY <2>1, <2>2 DEF ServerRec, ServerPc
  <2> QED
    BY <2>1, <2>3, <1>b
<1>2. reader' \in [Tabs -> ReaderRec]
  <2>1. reader \in [Tabs -> ReaderRec]
    BY <1>a DEF TypeOK, ReaderRec, ReaderPc
  <2>2. [reader[t] EXCEPT !.pc = "starting"] \in ReaderRec
    BY <2>1 DEF ReaderRec, ReaderPc
  <2> QED
    BY <2>1, <2>2, <1>b
<1>3. TypeOK'
  BY <1>a, <1>b, <1>1, <1>2, SilentStep
     DEF TypeOK, LastRec, ServerRec, ServerPc, ReaderRec, ReaderPc
<1> QED
  BY <1>b, <1>3, SilentStep, TableStays DEF FillersStay

\* A server thread sends a PING.
LEMMA PingStep == ASSUME IndInv, NEW t \in Tabs, Ping(t) PROVE IndInv'
<1>a. TypeOK
  BY DEF IndInv
<1>b. /\ last' = [kind |-> "ping", thread |-> NoName, tab |-> tab[server[t].conn], by |-> t]
      /\ server[t].conn \in Workers /\ UNCHANGED <<table, workers, server, reader, pipes>>
  BY <1>a DEF Ping, Deliver, TypeOK
<1>1. TypeOK' /\ ObeyedByOwnThread'
  BY <1>a, <1>b DEF TypeOK, ObeyedByOwnThread
<1> QED
  BY <1>b, <1>1, TableStays DEF FillersStay

\* A server thread sees that its slot is closing.
LEMMA ServerLeaveStep == ASSUME IndInv, NEW t \in Tabs, ServerLeave(t) PROVE IndInv'
<1>a. TypeOK
  BY DEF IndInv
<1>b. /\ server' = [server EXCEPT ![t].pc = "removing"] /\ "removing" \in ServerPc
      /\ Silent /\ UNCHANGED <<table, workers, reader, pipes>>
  BY DEF ServerLeave, ServerAt, ServerPc
<1>1. server' \in [Tabs -> ServerRec]
  BY <1>a, <1>b, ServerMoves DEF TypeOK, ServerRec, ServerPc
<1>2. TypeOK'
  BY <1>a, <1>b, <1>1, SilentStep DEF TypeOK, LastRec, ServerRec, ServerPc
<1> QED
  BY <1>b, <1>2, SilentStep, TableStays DEF FillersStay

\* A server thread unlinks the pipes.
LEMMA RemovePipesStep == ASSUME IndInv, NEW t \in Tabs, RemovePipes(t) PROVE IndInv'
<1> DEFINE n == NameAt(server[t].slot)
<1>a. TypeOK
  BY DEF IndInv
<1>b. /\ server' = [server EXCEPT ![t].pc = "clearing"] /\ "clearing" \in ServerPc
      /\ reader' = [u \in Tabs |-> Unlinked(u, n)]
      /\ msgPipes' = msgPipes \ {n} /\ appReads' = appReads \ {n}
      /\ Silent /\ UNCHANGED <<table, workers>>
  BY DEF RemovePipes, ServerAt, ServerPc
<1> HIDE DEF n
<1>1. server' \in [Tabs -> ServerRec]
  BY <1>a, <1>b, ServerMoves DEF TypeOK, ServerRec, ServerPc
<1>2. reader' \in [Tabs -> ReaderRec]
  <2>1. reader \in [Tabs -> ReaderRec]
    BY <1>a DEF TypeOK, ReaderRec, ReaderPc
  <2>2. ASSUME NEW u \in Tabs PROVE Unlinked(u, n) \in ReaderRec
    <3>1. reader[u] \in ReaderRec /\ [reader[u] EXCEPT !.outlived = TRUE] \in ReaderRec
      BY <2>1 DEF ReaderRec
    <3>2. Ended("deaf") \in ReaderRec
      BY DEF Ended, ReaderRec, ReaderPc
    <3> QED
      BY <3>1, <3>2 DEF Unlinked
  <2> QED
    BY <1>b, <2>2
<1>3. msgPipes' \subseteq Names \cup {NoName} /\ appReads' \subseteq Names
  BY <1>a, <1>b DEF TypeOK
<1>4. TypeOK'
  BY <1>a, <1>b, <1>1, <1>2, <1>3, SilentStep
     DEF TypeOK, LastRec, ServerRec, ServerPc, ReaderRec, ReaderPc
<1> QED
  BY <1>b, <1>4, SilentStep, TableStays DEF FillersStay

\* A server thread frees its slot.
LEMMA ClearConnStep == ASSUME IndInv, NEW t \in Tabs, ClearConn(t) PROVE IndInv'
<1>a. TypeOK
  BY DEF IndInv
<1>b. /\ server' = [server EXCEPT ![t].pc = "marking"] /\ "marking" \in ServerPc
      /\ conn' = [conn EXCEPT ![server[t].slot] = NoWorker]
      /\ Silent /\ UNCHANGED <<closing, sApp, sThread, raced, workers, reader, pipes>>
  BY DEF ClearConn, ServerAt, ServerPc
<1>1. server' \in [Tabs -> ServerRec]
  BY <1>a, <1>b, ServerMoves DEF TypeOK, ServerRec, ServerPc
<1>2. /\ conn' \in [Slots -> Workers \cup {NoWorker}]
      /\ \A i \in Slots : conn'[i] = conn[i] \/ conn'[i] = NoWorker
  BY <1>a, <1>b DEF TypeOK
<1>3. TypeOK'
  BY <1>a, <1>b, <1>1, <1>2, SilentStep DEF TypeOK, LastRec, ServerRec, ServerPc
<1> QED
  BY <1>b, <1>2, <1>3, SilentStep, TableStays DEF FillersStay

\* A server thread marks its slot.
LEMMA MarkFreeStep == ASSUME IndInv, NEW t \in Tabs, MarkFree(t) PROVE IndInv'
<1>a. TypeOK
  BY DEF IndInv
<1>b. /\ server' = [server EXCEPT ![t] = [pc |-> "done", slot |-> 0, conn |-> NoWorker]]
      /\ closing' = [closing EXCEPT ![server[t].slot] = 2]
      /\ Silent /\ UNCHANGED <<conn, sApp, sThread, raced, workers, reader, pipes>>
  BY DEF MarkFree
<1>1. server' \in [Tabs -> ServerRec]
  <2>1. [pc |-> "done", slot |-> 0, conn |-> NoWorker] \in ServerRec
    BY DEF ServerRec, ServerPc
  <2> QED
    BY <1>a, <1>b, <2>1 DEF TypeOK, ServerRec, ServerPc
<1>2. /\ closing' \in [Slots -> 0..2]
      /\ \A i \in Slots : closing'[i] = closing[i] \/ closing'[i] # 0
  BY <1>a, <1>b DEF TypeOK
<1>3. TypeOK'
  BY <1>a, <1>b, <1>1, <1>2, SilentStep DEF TypeOK, LastRec, ServerRec, ServerPc
<1> QED
  BY <1>b, <1>2, <1>3, SilentStep, TableStays DEF FillersStay

\* A reader starts.
LEMMA ReaderStartStep == ASSUME IndInv, NEW t \in Tabs, ReaderStart(t) PROVE IndInv'
<1> DEFINE n == NameAt(server[t].slot)
<1>a. TypeOK
  BY DEF IndInv
<1>b. /\ reader' = [reader EXCEPT ![t] = [pc |-> "closed", name |-> n,
                                          conn |-> conn[server[t].slot], outlived |-> FALSE]]
      /\ msgPipes' = msgPipes \cup {n} /\ n \in Names \cup {NoName}
      /\ Silent /\ UNCHANGED <<table, workers, server, appReads>>
  BY NameType DEF ReaderStart
<1> HIDE DEF n
<1>1. reader' \in [Tabs -> ReaderRec]
  <2>1. conn[server[t].slot] \in Workers \cup {NoWorker}
    BY <1>a DEF TypeOK
  <2>2. [pc |-> "closed", name |-> n, conn |-> conn[server[t].slot], outlived |-> FALSE]
            \in ReaderRec
    BY <1>b, <2>1 DEF ReaderRec, ReaderPc
  <2> QED
    BY <1>a, <1>b, <2>2 DEF TypeOK, ReaderRec, ReaderPc
<1>2. TypeOK'
  BY <1>a, <1>b, <1>1, SilentStep DEF TypeOK, LastRec, ReaderRec, ReaderPc
<1> QED
  BY <1>b, <1>2, SilentStep, TableStays DEF FillersStay

\* A reader opens its pipe.
LEMMA OpenPipeStep == ASSUME IndInv, NEW t \in Tabs, OpenPipe(t) PROVE IndInv'
<1>a. TypeOK
  BY DEF IndInv
<1>b. /\ \/ reader' = [reader EXCEPT ![t].pc = "opening"]
         \/ reader' = [reader EXCEPT ![t] = Ended("dead")]
      /\ Silent /\ UNCHANGED <<table, workers, server, pipes>>
  BY <1>a DEF OpenPipe, TypeOK
<1>1. reader' \in [Tabs -> ReaderRec]
  <2>1. reader \in [Tabs -> ReaderRec]
    BY <1>a DEF TypeOK, ReaderRec, ReaderPc
  <2>2. [reader[t] EXCEPT !.pc = "opening"] \in ReaderRec /\ Ended("dead") \in ReaderRec
    BY <2>1 DEF Ended, ReaderRec, ReaderPc
  <2> QED
    BY <1>b, <2>1, <2>2
<1>2. TypeOK'
  BY <1>a, <1>b, <1>1, SilentStep DEF TypeOK, LastRec, ReaderRec, ReaderPc
<1> QED
  BY <1>b, <1>2, SilentStep, TableStays DEF FillersStay

\* An app thread pushes a message.
LEMMA PushStep == ASSUME IndInv, NEW n \in Pushing, Push(n) PROVE IndInv'
<1>a. TypeOK
  BY DEF IndInv
<1>b. msgPipes' = msgPipes \cup {n} /\ Silent /\ UNCHANGED <<table, workers, server, appReads>>
  BY DEF Push
<1>1. PICK R \in SUBSET {t \in Tabs : Waits(t, n)} :
         reader' = [t \in Tabs |-> CASE t \in R -> [reader[t] EXCEPT !.pc = "writing"]
                                    [] t \notin R /\ Waits(t, n) -> Ended("eof")
                                    [] OTHER -> reader[t]]
  BY DEF Push
<1>2. reader' \in [Tabs -> ReaderRec]
  <2>1. reader \in [Tabs -> ReaderRec]
    BY <1>a DEF TypeOK, ReaderRec, ReaderPc
  <2>2. ASSUME NEW t \in Tabs PROVE reader'[t] \in ReaderRec
    <3>1. reader[t] \in ReaderRec /\ [reader[t] EXCEPT !.pc = "writing"] \in ReaderRec
      BY <2>1 DEF ReaderRec, ReaderPc
    <3>2. Ended("eof") \in ReaderRec
      BY DEF Ended, ReaderRec, ReaderPc
    <3> QED
      BY <1>1, <3>1, <3>2
  <2>3. reader' = [t \in Tabs |-> reader'[t]]
    BY <1>1
  <2> QED
    BY <2>2, <2>3
<1>3. TypeOK'
  BY <1>a, <1>b, <1>2, SilentStep DEF TypeOK, LastRec, ReaderRec, ReaderPc
<1> QED
  BY <1>b, <1>3, SilentStep, TableStays DEF FillersStay

\* A reader hands a message on.
LEMMA WriteMessageStep == ASSUME IndInv, NEW t \in Tabs, WriteMessage(t) PROVE IndInv'
<1>a. TypeOK
  BY DEF IndInv
<1>b. UNCHANGED <<table, workers, server, pipes>>
  BY DEF WriteMessage
<1>1. /\ reader' \in [Tabs -> ReaderRec] /\ last' \in LastRec
      /\ last'.kind # "command"
  <2>1. reader \in [Tabs -> ReaderRec]
    BY <1>a DEF TypeOK, ReaderRec, ReaderPc
  <2>2. [reader[t] EXCEPT !.pc = "closed"] \in ReaderRec /\ Ended("dead") \in ReaderRec
    BY <2>1 DEF Ended, ReaderRec, ReaderPc
  <2>3. CASE reader[t].conn = NoWorker
    BY <2>1, <2>2, <2>3, SilentStep DEF WriteMessage, Silent, Nothing
  <2>4. CASE reader[t].conn # NoWorker
    <3>1. reader[t].conn \in Workers /\ reader[t].name \in Names \cup {NoName}
      BY <2>1, <2>4 DEF ReaderRec
    <3>2. tab[reader[t].conn] \in Tabs \cup {NoTab}
      BY <1>a, <3>1 DEF TypeOK
    <3> QED
      BY <2>1, <2>2, <2>4, <3>1, <3>2 DEF WriteMessage, Deliver, LastRec
  <2> QED
    BY <2>3, <2>4
<1>2. TypeOK' /\ ObeyedByOwnThread'
  BY <1>a, <1>b, <1>1 DEF TypeOK, LastRec, ReaderRec, ReaderPc, ObeyedByOwnThread
<1> QED
  BY <1>b, <1>2, TableStays DEF FillersStay

\* A worker hands a command to the thread named in its slot.
LEMMA CommandStep == ASSUME IndInv, NEW w \in Workers, Command(w) PROVE IndInv'
<1> DEFINE i == First(SlotsOf(w))
<1>a. TypeOK /\ NamesInv /\ BufInv
  BY DEF IndInv
<1>b. wpc[w] = "open" /\ UNCHANGED <<table, workers, server, reader, pipes>>
  BY DEF Command
<1>1. i \in Slots /\ conn[i] = w
  BY ScanFinds DEF Command
<1>2. tab[w] \in Tabs /\ buf[w] = ThreadOf[tab[w]]
  BY <1>a, <1>b DEF BufInv
<1>3. i \notin raced => NameAt(i) = ThreadOf[tab[w]]
  <2> SUFFICES ASSUME i \notin raced PROVE NameAt(i) = ThreadOf[tab[w]]
    OBVIOUS
  <2> HIDE DEF i
  <2>1. sApp[i] = w /\ sThread[i] = w
    BY <1>a, <1>b, <1>1 DEF NamesInv, Filling, FillPcs
  <2>2. At(sApp[i]) = buf[w] /\ At(sThread[i]) = buf[w]
    BY <2>1 DEF At
  <2>3. buf[w] \in Names /\ buf[w] = [app |-> buf[w].app, thread |-> buf[w].thread]
    BY <1>2
  <2> QED
    BY <1>2, <2>2, <2>3 DEF NameAt
<1>4. \/ last' = Nothing
      \/ /\ NameAt(i) \in appReads
         /\ last' = [kind |-> "command", thread |-> NameAt(i), tab |-> tab[w], by |-> tab[w]]
  BY DEF Command, Silent, Deliver
<1>5. i = First(SlotsOf(w))'
  BY <1>b DEF SlotsOf, First
<1> HIDE DEF i
<1>6. TypeOK'
  BY <1>a, <1>b, <1>2, <1>4 DEF TypeOK, Nothing
<1>7. ObeyedByOwnThread'
  BY <1>b, <1>3, <1>4, <1>5 DEF ObeyedByOwnThread, Nothing
<1> QED
  BY <1>b, <1>6, <1>7, TableStays DEF FillersStay

-----------------------------------------------------------------------------
(* The theorems for any user.                                              *)

\* Before the first connection the invariant holds.
LEMMA InitStep == Init => IndInv
<1> SUFFICES ASSUME Init PROVE IndInv
  OBVIOUS
<1>1. TypeOK
  BY DEF Init, TypeOK, Nothing, FillPcs
<1>2. RacesAreSeen /\ FillInv /\ NamesInv /\ BufInv /\ DepartedAreMarked /\ ObeyedByOwnThread
  BY DEF Init, Nothing, RacesAreSeen, FillInv, NamesInv, BufInv, DepartedAreMarked,
         ObeyedByOwnThread, Filling, FillPcs
<1> QED
  BY <1>1, <1>2 DEF IndInv

\* What touches none of the variables keeps the invariant.
LEMMA StutterStep == ASSUME IndInv, UNCHANGED vars PROVE IndInv'
<1>1. TypeOK'
  BY DEF vars, IndInv, TypeOK
<1>2. \A w \in Workers : First(SlotsOf(w))' = First(SlotsOf(w))
  BY DEF vars, SlotsOf, First
<1>3. ObeyedByOwnThread'
  BY <1>2 DEF vars, IndInv, ObeyedByOwnThread
<1> QED
  BY <1>1, <1>3, TableStays DEF vars, FillersStay

\* Every step of a worker, a server thread, a reader or an app thread keeps the
\* invariant.
LEMMA NextStep == IndInv /\ [Next]_vars => IndInv'
<1> SUFFICES ASSUME IndInv, [Next]_vars PROVE IndInv'
  OBVIOUS
<1>1. ASSUME NEW w \in Workers, FillSlot(w) PROVE IndInv'
  BY <1>1, TakeConnStep, ClearClosingStep, CutAppStep, StoreAppStep, CutThreadStep,
     StoreThreadStep DEF FillSlot
<1>2. ASSUME NEW w \in Workers, Worker(w) PROVE IndInv'
  BY <1>1, <1>2, ConnectStep, FindSlotStep, ReadySessionStep, CommandStep,
     CloseFrameStep, ConnectionLostStep, CloseConnectionStep, ServePageStep DEF Worker
<1>3. ASSUME NEW t \in Tabs, Server(t) PROVE IndInv'
  BY <1>3, ServerStartStep, PingStep, ServerLeaveStep, RemovePipesStep, ClearConnStep,
     MarkFreeStep DEF Server
<1>4. ASSUME NEW t \in Tabs, Reader(t) PROVE IndInv'
  BY <1>4, ReaderStartStep, OpenPipeStep, WriteMessageStep DEF Reader
<1> QED
  BY <1>2, <1>3, <1>4, PushStep, StutterStep DEF Next

\* The inductive invariant holds in every reachable state.
THEOREM Invariance == Spec => []IndInv
BY InitStep, NextStep, PTL DEF Spec

\* Type correctness: in particular closing is 0, 1 or 2, and every slot that a
\* scan finds is a slot of the table.
THEOREM TypeCorrect == Spec => []TypeOK
<1>1. IndInv => TypeOK
  BY DEF IndInv
<1> QED
  BY <1>1, Invariance, PTL

\* A command reaches only the thread whose tab sent it, although the names in
\* ws_conn are pointers into buffers that are used again, whoever opens and
\* closes when, unless two workers filled slots at the same time.
THEOREM ObeyedByOwnThreadTheorem == Spec => []ObeyedByOwnThread
<1>1. IndInv => ObeyedByOwnThread
  BY DEF IndInv
<1> QED
  BY <1>1, Invariance, PTL

\* A worker that is idle has marked every slot that holds its conn, but for a
\* slot that was filled while another worker filled one.
THEOREM DepartedAreMarkedTheorem == Spec => []DepartedAreMarked
<1>1. IndInv => DepartedAreMarked
  BY DEF IndInv
<1> QED
  BY <1>1, Invariance, PTL

-----------------------------------------------------------------------------
(* Patient browsers.                                                       *)

\* The reader of tab u stays in its session, or out of any.
Keeps(u) ==
    /\ reader[u].pc \in {"none", "starting"} => reader'[u].pc = reader[u].pc
    /\ Gone(u) => Gone(u)'
    /\ \A v \in Workers : InSession(v, u) => Listens(v, u)'

\* So it does when nothing happens to it and no pipe is unlinked.
LEMMA UntouchedKeeps ==
    ASSUME NEW u \in Tabs, reader'[u] = reader[u], msgPipes \subseteq msgPipes' PROVE Keeps(u)
BY DEF Keeps, Gone, InSession, Listens

\* A step of the session of tab t on worker w moves no other one.
Only(w, t) ==
    /\ \A v \in Workers : v # w => wpc'[v] = wpc[v] /\ tab'[v] = tab[v]
    /\ \A u \in Tabs : u # t => server'[u] = server[u] /\ Keeps(u)
    /\ \A j \in Slots : \A v \in Workers : v # w /\ (conn[j] = v \/ conn'[j] = v)
                          => conn'[j] = conn[j] /\ closing'[j] = closing[j]

\* The sessions it does not move stay as they are.
LEMMA OthersStay ==
    ASSUME NEW w \in Workers, NEW t \in Tabs, Quiet({w}, {t}), Only(w, t)
    PROVE Quiet({w}, {t})' /\ (Apart(w, t) => Apart(w, t)')
<1>1. ASSUME NEW v \in Workers, v # w, NEW u \in Tabs, u # t, InSession(v, u)
      PROVE InSession(v, u)'
  <2>1. Listens(v, u)'
    BY <1>1 DEF Only, Keeps
  <2> QED
    BY <1>1, <2>1 DEF Only, InSession, Owns
<1>2. ASSUME NEW v \in Workers \ {w} PROVE (Free(v) \/ \E u \in Tabs \ {t} : InSession(v, u))'
  <2>1. CASE Free(v)
    BY <2>1 DEF Only, Free, NoSlot
  <2>2. CASE \E u \in Tabs \ {t} : InSession(v, u)
    BY <1>1, <2>2
  <2> QED
    BY <2>1, <2>2 DEF Quiet
<1>3. ASSUME NEW u \in Tabs \ {t}
      PROVE (Fresh(u) \/ Over(u) \/ \E v \in Workers \ {w} : InSession(v, u))'
  <2>1. CASE Fresh(u) \/ Over(u)
    BY <2>1 DEF Only, Keeps, Fresh, Over
  <2>2. CASE \E v \in Workers \ {w} : InSession(v, u)
    BY <1>1, <2>2
  <2> QED
    BY <2>1, <2>2 DEF Quiet
<1>4. Apart(w, t) => Apart(w, t)'
  BY DEF Only, Apart
<1> QED
  BY <1>2, <1>3, <1>4 DEF Quiet

\* A session begins, where all is quiet ...
LEMMA Begins ==
    ASSUME Quiet({}, {}), NEW w \in Workers, NEW t \in Tabs, Free(w), Fresh(t)
    PROVE Quiet({w}, {t})
BY DEF Quiet, Free, Fresh, InSession

\* ... and ends, and all is quiet again.
LEMMA LeavesQuiet ==
    ASSUME Quiet({}, {}), NEW w \in Workers, NEW t \in Tabs, InSession(w, t)
    PROVE Quiet({w}, {t})
BY DEF Quiet, InSession

\* All is quiet again when the session is over, or was refused.
LEMMA Ends ==
    ASSUME NEW w \in Workers, NEW t \in Tabs, Quiet({w}, {t})', Free(w)', (Fresh(t) \/ Over(t))'
    PROVE Quiet({}, {})'
BY DEF Quiet

\* All is quiet again when the session is whole.
LEMMA Completes ==
    ASSUME NEW w \in Workers, NEW t \in Tabs, Quiet({w}, {t})', InSession(w, t)'
    PROVE Quiet({}, {})'
BY DEF Quiet

\* Nothing is settled while a session is in transition.
LEMMA NotSettled ==
    ASSUME NEW w \in Workers, NEW t \in Tabs, TypeOK, InTransition(w, t) PROVE ~Settled
<1>1. CASE Opening(w, t)
  BY <1>1 DEF Opening, Settled, FillPcs
<1>2. CASE Leaving(w, t)
  <2>1. CASE wpc[w] = "closing" \/ server[t].pc \in {"removing", "clearing", "marking"}
    BY <2>1 DEF Settled
  <2>2. CASE wpc[w] = "idle" /\ server[t].pc = "running"
    <3>1. server[t].slot \in Slots /\ conn[server[t].slot] = w /\ closing[server[t].slot] # 0
      BY <1>2, <2>2 DEF Leaving, Owns
    <3> QED
      BY <3>1 DEF Settled
  <2> QED
    BY <1>2, <2>1, <2>2 DEF Leaving
<1> QED
  BY <1>1, <1>2 DEF InTransition

\* Where all is settled, all is quiet.
LEMMA SettledIsQuiet == ASSUME TypeOK, SessionInv, Settled PROVE Quiet({}, {})
BY NotSettled DEF SessionInv

\* A worker that is neither idle nor serves a websocket sets one up or ends
\* one.
LEMMA WorkerInTransition ==
    ASSUME SessionInv, NEW w \in Workers, wpc[w] \notin {"idle", "open"}
    PROVE \E t \in Tabs : InTransition(w, t)
<1>1. ~Free(w) /\ \A t \in Tabs : ~InSession(w, t)
  BY DEF Free, InSession
<1>2. ~Quiet({}, {})
  BY <1>1 DEF Quiet
<1>3. PICK v \in Workers, t \in Tabs : InTransition(v, t)
  BY <1>2 DEF SessionInv
<1>4. v = w
  BY <1>1, <1>3 DEF InTransition, Quiet
<1> QED
  BY <1>3, <1>4

\* So is the session of a tab whose server thread or reader is not where it
\* stays.
LEMMA TabInTransition ==
    ASSUME SessionInv, NEW t \in Tabs,
           \/ server[t].pc \notin {"none", "running", "done"}
           \/ reader[t].pc = "starting"
           \/ server[t].pc = "running" /\ closing[server[t].slot] # 0
    PROVE \E w \in Workers : InTransition(w, t)
<1>1. ~Fresh(t) /\ ~Over(t) /\ \A w \in Workers : ~InSession(w, t)
  BY DEF Fresh, Over, Gone, InSession, Listens
<1>2. ~Quiet({}, {})
  BY <1>1 DEF Quiet
<1>3. PICK w \in Workers, u \in Tabs : InTransition(w, u)
  BY <1>2 DEF SessionInv
<1>4. u = t
  BY <1>1, <1>3 DEF InTransition, Quiet
<1> QED
  BY <1>3, <1>4

\* The slot of a session that is not being filled names the thread of its tab.
LEMMA SlotIsNamed ==
    ASSUME IndInv, SessionInv, NEW w \in Workers, NEW n \in Names, ~Filling(w), buf[w] = n,
           NEW i, Owns(w, i)
    PROVE NameAt(i) = n
<1>1. i \in Slots /\ conn[i] = w
  BY DEF Owns
<1>2. sApp[i] = w /\ sThread[i] = w
  BY <1>1 DEF IndInv, NamesInv, SessionInv
<1>3. At(sApp[i]) = n /\ At(sThread[i]) = n
  BY <1>2 DEF At
<1>4. n = [app |-> n.app, thread |-> n.thread]
  OBVIOUS
<1> QED
  BY <1>3, <1>4 DEF NameAt

-----------------------------------------------------------------------------
(* One lemma for each action again.                                        *)

\* What moves only readers keeps the invariant, when those of a session stay
\* in it and the others out.
LEMMA ReadersMove ==
    ASSUME SessionInv, UNCHANGED <<conn, closing, raced, wpc, tab, server, buf, found>>,
           \A t \in Tabs :
             /\ Keeps(t)
             /\ \A v \in Workers : Listens(v, t) => Listens(v, t)',
           ShownInOwnTab'
    PROVE SessionInv'
<1>1. ThreadsInv' /\ raced' = {}
  BY DEF SessionInv, ThreadsInv, Outside
<1>2. \A w \in Workers, t \in Tabs : InSession(w, t) => InSession(w, t)'
  BY DEF InSession, Owns
<1>3. \A t \in Tabs : (Fresh(t) => Fresh(t)') /\ (Over(t) => Over(t)')
  BY DEF Fresh, Over, Keeps
<1>4. ASSUME Quiet({}, {}) PROVE Quiet({}, {})'
  <2>1. \A w \in Workers : Free(w) => Free(w)'
    BY DEF Free, NoSlot
  <2> QED
    BY <1>2, <1>3, <1>4, <2>1 DEF Quiet
<1>5. ASSUME NEW w \in Workers, NEW t \in Tabs, InTransition(w, t) PROVE InTransition(w, t)'
  <2>1. Opening(w, t) => Opening(w, t)'
    <3>1. reader[t].pc = "starting" => reader'[t].pc = "starting"
      BY DEF Keeps
    <3>2. reader[t].pc = "none" => reader'[t].pc = "none"
      BY DEF Keeps
    <3> QED
      BY <1>3, <3>1, <3>2 DEF Opening, NoSlot, Owns
  <2>2. Leaving(w, t) => Leaving(w, t)'
    BY DEF Leaving, NoSlot, Owns, Keeps
  <2>3. Only(w, t)
    BY DEF Only
  <2>4. Outside(w) /\ Full => (Outside(w) /\ Full)'
    BY DEF Outside, Full, SlotsOf
  <2> QED
    BY <1>5, <2>1, <2>2, <2>3, <2>4, OthersStay DEF InTransition
<1> QED
  BY <1>1, <1>4, <1>5 DEF SessionInv

\* A step that delivers nothing shows nothing in a wrong tab.
LEMMA SilentShows == ASSUME Silent PROVE ShownInOwnTab'
BY DEF Silent, Nothing, ShownInOwnTab

\* A tab connects, when no session is in transition and its thread is shown
\* nowhere, or the table is full.
LEMMA ConnectSession ==
    ASSUME Patient, IndInv, SessionInv, NEW w \in Workers, NEW t \in Tabs, Connect(w, t)
    PROVE SessionInv'
<1>1. /\ wpc[w] = "idle" /\ t \notin Opened /\ Settled /\ (Shown(ThreadOf[t]) => Full)
      /\ wpc' = [wpc EXCEPT ![w] = "connecting"] /\ tab' = [tab EXCEPT ![w] = t]
      /\ UNCHANGED <<table, found, server, reader, msgPipes>> /\ Silent
  BY DEF Connect, WorkerAt, MayOpen, Full
<1>2. TypeOK /\ Quiet({}, {}) /\ ThreadsInv /\ raced = {}
  BY <1>1, SettledIsQuiet DEF IndInv, SessionInv
<1>3. Free(w)
  BY <1>1, <1>2 DEF Quiet, InSession
<1>4. Fresh(t)
  BY <1>1, <1>2 DEF Quiet, Fresh, Over, InSession, Opened
<1>5. Only(w, t)
  BY <1>1, <1>2, UntouchedKeeps DEF Only, TypeOK
<1>6. Apart(w, t) \/ Full
  BY <1>1 DEF Apart, Shown
<1>7. wpc'[w] = "connecting" /\ tab'[w] = t
  BY <1>1, <1>2 DEF TypeOK
<1>8. Quiet({w}, {t})' /\ (Apart(w, t)' \/ (Outside(w) /\ Full)')
  <2>1. Outside(w)' /\ (Full => Full')
    BY <1>1, <1>7 DEF Outside, Full, SlotsOf
  <2> QED
    BY <1>2, <1>3, <1>4, <1>5, <1>6, <2>1, Begins, OthersStay
<1>9. Opening(w, t)'
  BY <1>1, <1>3, <1>4, <1>7 DEF Opening, Free, Fresh, NoSlot
<1>10. ThreadsInv'
  BY <1>2, <1>5, <1>7 DEF ThreadsInv, Outside, Only
<1> QED
  BY <1>1, <1>2, <1>8, <1>9, <1>10, SilentShows DEF SessionInv, InTransition

\* A worker scans for a free slot, and no other one fills a slot meanwhile;
\* without a free slot, all belong to whole sessions.
LEMMA FindSlotSession ==
    ASSUME IndInv, SessionInv, NEW w \in Workers, FindSlot(w) PROVE SessionInv'
<1> DEFINE i == First(SlotsOf(NoWorker))
           others == {v \in Workers : v # w /\ Filling(v)}
<1>1. /\ wpc[w] = "connecting" /\ UNCHANGED <<conn, closing, tab, server, reader, msgPipes>>
      /\ Silent /\ \A v \in Workers : v # w => wpc'[v] = wpc[v]
  BY DEF FindSlot, WorkerAt, IndInv, TypeOK
<1>2. PICK t \in Tabs : InTransition(w, t)
  BY <1>1, WorkerInTransition
<1>3. /\ tab[w] = t /\ NoSlot(w) /\ Fresh(t) /\ Quiet({w}, {t})
      /\ Apart(w, t) \/ Full
  BY <1>1, <1>2 DEF InTransition, Opening, Leaving, FillPcs
<1>4. Quiet({w}, {t})' /\ (Apart(w, t) => Apart(w, t)')
  <2>1. Only(w, t)
    BY <1>1, UntouchedKeeps DEF Only
  <2> QED
    BY <1>3, <2>1, OthersStay
<1>5. CASE SlotsOf(NoWorker) # {}
  <2>1. conn[i] = NoWorker
    BY <1>5, ScanFinds
  <2>2. others = {}
    BY <1>3 DEF Quiet, Free, InSession, Filling, FillPcs
  <2>3. wpc'[w] = "take" /\ found'[w] = i /\ raced' = raced \ {i}
    BY <1>5, <2>2 DEF FindSlot, WorkerAt, IndInv, TypeOK
  <2> HIDE DEF i, others
  <2>4. raced' = {} /\ Apart(w, t)'
    BY <1>3, <1>4, <1>5, <2>3 DEF SessionInv, Full
  <2>5. Opening(w, t)'
    BY <1>1, <1>3, <2>1, <2>3 DEF Opening, NoSlot, Fresh
  <2>6. ThreadsInv'
    <3>1. \A v \in Workers : v # w => (Outside(v)' <=> Outside(v))
      BY <1>1 DEF Outside
    <3> QED
      BY <1>1, <1>3, <2>4, <3>1 DEF SessionInv, ThreadsInv, Apart
  <2> QED
    BY <1>1, <1>4, <2>4, <2>5, <2>6, SilentShows DEF SessionInv, InTransition
<1>6. CASE SlotsOf(NoWorker) = {}
  <2>1. wpc'[w] = "refused" /\ raced' = raced
    BY <1>6 DEF FindSlot, WorkerAt, IndInv, TypeOK
  <2>2. ASSUME NEW j \in Slots PROVE conn[j] # NoWorker /\ closing[j] = 0
    <3>1. conn[j] # NoWorker /\ conn[j] \in Workers /\ conn[j] # w
      BY <1>3, <1>6 DEF SlotsOf, NoSlot, IndInv, TypeOK
    <3>2. ~Free(conn[j])
      BY DEF Free, NoSlot
    <3>3. PICK u \in Tabs : InSession(conn[j], u)
      BY <1>3, <3>1, <3>2 DEF Quiet
    <3> QED
      BY <3>1, <3>3 DEF InSession, Owns
  <2>3. Opening(w, t)'
    BY <1>1, <1>3, <2>1, <2>2 DEF Opening, NoSlot, Fresh
  <2>4. (Outside(w) /\ Full)'
    BY <1>1, <1>6, <2>1 DEF Outside, Full, SlotsOf
  <2>5. ThreadsInv'
    BY <1>1, <2>1 DEF SessionInv, ThreadsInv, Outside
  <2> QED
    BY <1>1, <1>4, <2>1, <2>3, <2>4, <2>5, SilentShows DEF SessionInv, InTransition
<1> QED
  BY <1>5, <1>6

\* What the steps that fill a slot have in common: worker w, and no other
\* one, goes on to set up its session, and owns the slot from then on.
LEMMA FillSession ==
    ASSUME IndInv, SessionInv, NEW w \in Workers, Silent, wpc[w] \in FillPcs,
           NEW p \in {"clear", "cutApp", "storeApp", "cutThread", "storeThread", "ready"},
           wpc' = [wpc EXCEPT ![w] = p],
           UNCHANGED <<raced, tab, server, reader, msgPipes>>,
           \A j \in Slots : j # found[w] => conn'[j] = conn[j] /\ closing'[j] = closing[j],
           conn'[found[w]] = w, conn[found[w]] \in {w, NoWorker},
           \A t \in Tabs : Opening(w, t) =>
             \/ /\ p # "ready" /\ found'[w] = found[w]
                /\ p # "clear" => closing'[found[w]] = 0
             \/ p = "ready" /\ closing'[found[w]] = 0
    PROVE SessionInv'
<1>1. /\ \A v \in Workers : v # w => wpc'[v] = wpc[v]
      /\ wpc'[w] = p /\ found[w] \in Slots /\ wpc[w] \notin {"idle", "open"}
  BY DEF IndInv, TypeOK, FillPcs
<1>2. PICK t \in Tabs : InTransition(w, t)
  BY <1>1, WorkerInTransition
<1>3. /\ Opening(w, t) /\ tab[w] = t /\ Fresh(t) /\ Quiet({w}, {t}) /\ Apart(w, t)
      /\ NoSlot(w) \/ Owns(w, found[w])
  BY <1>1, <1>2 DEF InTransition, Opening, Leaving, FillPcs, Outside
<1>4. Quiet({w}, {t})' /\ Apart(w, t)'
  <2>1. Only(w, t)
    BY <1>1, UntouchedKeeps DEF Only
  <2> QED
    BY <1>3, <2>1, OthersStay
<1>5. \A j \in Slots : conn'[j] = w <=> j = found[w]
  BY <1>1, <1>3 DEF Owns, NoSlot
<1>6. Opening(w, t)'
  <2>1. tab'[w] = t /\ Fresh(t)'
    BY <1>3 DEF Fresh
  <2>2. CASE p # "ready"
    <3>1. Owns(w, found[w])'
      BY <1>1, <1>3, <1>5, <2>2 DEF Owns
    <3>2. p \in FillPcs \ {"take"} /\ (p # "clear" => closing'[found'[w]] = 0)
      BY <1>3, <2>2 DEF FillPcs
    <3> QED
      BY <1>1, <2>1, <3>1, <3>2 DEF Opening
  <2>3. CASE p = "ready"
    <3>1. closing'[found[w]] = 0
      BY <1>3, <2>3
    <3>2. \E j \in Slots : (Owns(w, j) /\ closing[j] = 0)'
      BY <1>1, <1>5, <3>1 DEF Owns
    <3> QED
      BY <1>1, <2>1, <2>3, <3>2 DEF Opening
  <2> QED
    BY <2>2, <2>3
<1>7. ThreadsInv'
  BY <1>1 DEF SessionInv, ThreadsInv, Outside, FillPcs
<1> QED
  BY <1>4, <1>6, <1>7, SilentShows DEF SessionInv, InTransition

\* A worker fills the slot it has found, which is still free, and from the
\* first store on its own.
LEMMA FillSlotSession ==
    ASSUME IndInv, SessionInv, NEW w \in Workers, FillSlot(w) PROVE SessionInv'
<1> USE DEF WorkerAt
<1>a. /\ conn \in [Slots -> Workers \cup {NoWorker}] /\ closing \in [Slots -> 0..2]
      /\ found \in [Workers -> Slots]
  BY DEF IndInv, TypeOK
<1>b. wpc[w] \in FillPcs
  BY DEF FillSlot, TakeConn, ClearClosing, CutApp, StoreApp, CutThread, StoreThread, FillPcs
<1>c. PICK t \in Tabs : InTransition(w, t)
  BY <1>b, WorkerInTransition DEF FillPcs
<1>d. /\ wpc[w] = "take" => conn[found[w]] = NoWorker
      /\ wpc[w] # "take" => Owns(w, found[w])
  BY <1>b, <1>c DEF InTransition, Opening, Leaving, FillPcs
<1>e. wpc[w] # "take" => conn[found[w]] = w
  BY <1>a, <1>d DEF Owns
<1>f. \A u \in Tabs : Opening(w, u) /\ wpc[w] \in FillPcs \ {"take", "clear"}
                        => closing[found[w]] = 0
  BY DEF Opening, FillPcs
<1>1. CASE TakeConn(w)
  <2>1. /\ wpc[w] = "take" /\ wpc' = [wpc EXCEPT ![w] = "clear"] /\ Silent
        /\ conn' = [conn EXCEPT ![found[w]] = w]
        /\ UNCHANGED <<closing, raced, tab, found, server, reader, msgPipes>>
    BY <1>1 DEF TakeConn
  <2>2. /\ \A j \in Slots : j # found[w] => conn'[j] = conn[j]
        /\ conn'[found[w]] = w
    BY <1>a, <2>1
  <2> QED
    BY <1>b, <1>d, <2>1, <2>2, FillSession
<1>2. CASE ClearClosing(w)
  <2>1. /\ wpc[w] = "clear" /\ wpc' = [wpc EXCEPT ![w] = "cutApp"] /\ Silent
        /\ closing' = [closing EXCEPT ![found[w]] = 0]
        /\ UNCHANGED <<conn, raced, tab, found, server, reader, msgPipes>>
    BY <1>2 DEF ClearClosing
  <2>2. /\ \A j \in Slots : j # found[w] => closing'[j] = closing[j]
        /\ closing'[found[w]] = 0
    BY <1>a, <2>1
  <2> QED
    BY <1>b, <1>e, <2>1, <2>2, FillSession
<1>3. CASE CutApp(w) \/ StoreApp(w) \/ CutThread(w)
  <2>1. PICK p \in {"storeApp", "cutThread", "storeThread"} :
          wpc' = [wpc EXCEPT ![w] = p]
    BY <1>3 DEF CutApp, StoreApp, CutThread
  <2>2. /\ wpc[w] \in FillPcs \ {"take", "clear"} /\ Silent
        /\ UNCHANGED <<conn, closing, raced, tab, found, server, reader, msgPipes>>
    BY <1>3 DEF CutApp, StoreApp, CutThread, FillPcs
  <2> QED
    BY <1>e, <1>f, <2>1, <2>2, FillSession
<1>4. CASE StoreThread(w)
  <2>1. /\ wpc[w] = "storeThread" /\ wpc' = [wpc EXCEPT ![w] = "ready"] /\ Silent
        /\ wpc[w] \in FillPcs \ {"take", "clear"}
        /\ UNCHANGED <<conn, closing, raced, tab, server, reader, msgPipes>>
    BY <1>4 DEF StoreThread, FillPcs
  <2> QED
    BY <1>e, <1>f, <2>1, FillSession
<1> QED
  BY <1>1, <1>2, <1>3, <1>4 DEF FillSlot

\* A worker starts the server thread for the slot that it owns.
LEMMA ReadySessionSession ==
    ASSUME IndInv, SessionInv, NEW w \in Workers, ReadySession(w) PROVE SessionInv'
<1>1. /\ wpc[w] = "ready" /\ UNCHANGED <<table, tab, reader, msgPipes>> /\ Silent
      /\ \A v \in Workers : v # w => wpc'[v] = wpc[v]
      /\ wpc'[w] = "open"
  BY DEF ReadySession, WorkerAt, IndInv, TypeOK
<1>2. PICK t \in Tabs : InTransition(w, t)
  BY <1>1, WorkerInTransition
<1>3. tab[w] = t /\ Fresh(t) /\ Quiet({w}, {t}) /\ Apart(w, t)
  BY <1>1, <1>2 DEF InTransition, Opening, Leaving, Outside, FillPcs
<1>4. PICK i \in Slots : Owns(w, i) /\ closing[i] = 0
  BY <1>1, <1>2 DEF InTransition, Opening, Leaving, FillPcs
<1>5. SlotsOf(w) # {} /\ First(SlotsOf(w)) = i
  <2>1. i \in SlotsOf(w)
    BY <1>4 DEF Owns, SlotsOf
  <2>2. First(SlotsOf(w)) \in Slots /\ conn[First(SlotsOf(w))] = w
    BY <2>1, ScanFinds
  <2> QED
    BY <1>4, <2>1, <2>2 DEF Owns
<1>6. /\ server'[t].pc = "starting" /\ server'[t].slot = i
      /\ \A u \in Tabs : u # t => server'[u] = server[u]
  <2>1. server' = [server EXCEPT ![t].pc = "starting", ![t].slot = i]
    BY <1>3, <1>5 DEF ReadySession
  <2> QED
    BY <2>1 DEF IndInv, TypeOK
<1>7. Quiet({w}, {t})' /\ Apart(w, t)'
  <2>1. Only(w, t)
    BY <1>1, <1>6, UntouchedKeeps DEF Only
  <2> QED
    BY <1>3, <2>1, OthersStay
<1>8. Opening(w, t)'
  BY <1>1, <1>3, <1>4, <1>6 DEF Opening, Fresh, Owns
<1>9. ThreadsInv'
  BY <1>1 DEF SessionInv, ThreadsInv, Outside
<1> QED
  BY <1>1, <1>7, <1>8, <1>9, SilentShows DEF SessionInv, InTransition

\* A whole session begins to end, with a close frame or without a word.
LEMMA GoSession ==
    ASSUME Patient, IndInv, SessionInv, NEW w \in Workers, CloseFrame(w) \/ ConnectionLost(w)
    PROVE SessionInv'
<1> USE DEF WorkerAt
<1>1. /\ wpc[w] = "open" /\ Settled /\ Silent
      /\ UNCHANGED <<conn, raced, tab, buf, server, reader, msgPipes>>
      /\ \A v \in Workers : v # w => wpc'[v] = wpc[v]
      /\ wpc'[w] = "closing"
  BY DEF CloseFrame, ConnectionLost, IndInv, TypeOK
<1>2. Quiet({}, {}) /\ ThreadsInv
  BY <1>1, SettledIsQuiet DEF IndInv, SessionInv
<1>3. PICK t \in Tabs : InSession(w, t)
  BY <1>1, <1>2 DEF Quiet, Free
<1>4. Quiet({w}, {t})
  BY <1>2, <1>3, LeavesQuiet
<1>5. tab[w] = t /\ buf[w] = ThreadOf[t]
  BY <1>1, <1>3 DEF InSession, IndInv, BufInv
<1>6. Apart(w, t)
  BY <1>1, <1>2, <1>5 DEF Apart, ThreadsInv, Outside, Settled
<1>7. \A j \in Slots : conn[j] # w => closing'[j] = closing[j]
  <2>1. CASE ConnectionLost(w)
    BY <2>1 DEF ConnectionLost
  <2>2. CASE CloseFrame(w)
    <3>1. SlotsOf(w) # {} => conn[First(SlotsOf(w))] = w
      BY ScanFinds
    <3> QED
      BY <2>2, <3>1 DEF CloseFrame, IndInv, TypeOK
  <2> QED
    BY <2>1, <2>2
<1>8. Quiet({w}, {t})' /\ Apart(w, t)'
  <2>1. Only(w, t)
    BY <1>1, <1>7, UntouchedKeeps DEF Only
  <2> QED
    BY <1>4, <1>6, <2>1, OthersStay
<1>9. Leaving(w, t)'
  BY <1>1, <1>3, <1>5 DEF Leaving, InSession, Owns, Listens
<1>10. ThreadsInv'
  BY <1>1 DEF SessionInv, ThreadsInv, Outside
<1> QED
  BY <1>1, <1>8, <1>9, <1>10, SilentShows DEF SessionInv, InTransition

\* A worker closes its connection: one that was refused is quiet again, one
\* that had a session leaves the rest to its server thread.
LEMMA CloseConnectionSession ==
    ASSUME IndInv, SessionInv, NEW w \in Workers, CloseConnection(w) PROVE SessionInv'
<1>1. /\ wpc[w] \in {"closing", "refused"} /\ Silent
      /\ UNCHANGED <<conn, raced, buf, server, reader, msgPipes>>
      /\ \A v \in Workers : v # w => wpc'[v] = wpc[v] /\ tab'[v] = tab[v]
      /\ wpc'[w] = "idle" /\ tab'[w] = NoTab
      /\ \A j \in Slots : closing'[j] = IF conn[j] = w THEN 1 ELSE closing[j]
  BY DEF CloseConnection, WorkerAt, MarkClosing, IndInv, TypeOK
<1>2. PICK t \in Tabs : InTransition(w, t)
  BY <1>1, WorkerInTransition
<1>3. server[t].slot \in Slots
  BY DEF IndInv, TypeOK
<1>4. Quiet({w}, {t})' /\ (Apart(w, t) => Apart(w, t)')
  <2>1. Only(w, t)
    BY <1>1, UntouchedKeeps DEF Only
  <2> QED
    BY <1>2, <2>1, OthersStay DEF InTransition
<1>5. ThreadsInv'
  BY <1>1 DEF SessionInv, ThreadsInv, Outside
<1>6. CASE wpc[w] = "refused" \/ server[t].pc = "done"
  <2>1. NoSlot(w) /\ (Fresh(t) \/ Over(t))
    BY <1>1, <1>2, <1>6 DEF InTransition, Opening, Leaving, Over, Fresh, FillPcs
  <2>2. Free(w)' /\ (Fresh(t) \/ Over(t))'
    BY <1>1, <2>1 DEF Free, Fresh, Over, NoSlot, Gone
  <2>3. Quiet({}, {})'
    BY <1>4, <2>2, Ends
  <2> QED
    BY <1>1, <1>5, <2>3, SilentShows DEF SessionInv
<1>7. CASE wpc[w] = "closing" /\ server[t].pc # "done"
  <2>1. Leaving(w, t) /\ Apart(w, t)
    BY <1>2, <1>7 DEF InTransition, Opening, FillPcs, Outside
  <2>2. Owns(w, server[t].slot)' <=> Owns(w, server[t].slot)
    BY <1>1 DEF Owns
  <2>3. closing'[server[t].slot] # 0
    BY <1>1, <1>3, <1>7, <2>1 DEF Leaving, Owns
  <2>4. Leaving(w, t)'
    BY <1>1, <1>7, <2>1, <2>2, <2>3 DEF Leaving, NoSlot, Listens, Gone
  <2> QED
    BY <1>1, <1>4, <1>5, <2>1, <2>4, SilentShows DEF SessionInv, InTransition
<1> QED
  BY <1>1, <1>6, <1>7

\* A page is served while all is quiet; the worker that serves it has no slot.
LEMMA ServePageSession ==
    ASSUME Patient, IndInv, SessionInv, NEW w \in Workers, ServePage(w) PROVE SessionInv'
<1>1. /\ wpc[w] = "idle" /\ Settled /\ Silent
      /\ UNCHANGED <<conn, raced, wpc, tab, server, reader, msgPipes>>
      /\ closing' = [i \in Slots |-> IF conn[i] = w THEN 1 ELSE closing[i]]
  BY DEF ServePage, MarkClosing
<1>2. Quiet({}, {}) /\ ThreadsInv
  BY <1>1, SettledIsQuiet DEF IndInv, SessionInv
<1>3. NoSlot(w)
  BY <1>1, <1>2 DEF Quiet, Free, InSession
<1>4. \A j \in Slots : closing'[j] = closing[j]
  BY <1>1, <1>3 DEF NoSlot
<1>5. Quiet({}, {})'
  <2>1. \A v \in Workers : Free(v) => Free(v)'
    BY <1>1 DEF Free, NoSlot
  <2>2. \A u \in Tabs : (Fresh(u) => Fresh(u)') /\ (Over(u) => Over(u)')
    BY <1>1 DEF Fresh, Over, Gone
  <2>3. \A v \in Workers, u \in Tabs : InSession(v, u) => InSession(v, u)'
    BY <1>1, <1>4 DEF InSession, Owns, Listens
  <2> QED
    BY <1>2, <2>1, <2>2, <2>3 DEF Quiet
<1>6. ThreadsInv'
  BY <1>1, <1>2 DEF ThreadsInv, Outside
<1> QED
  BY <1>1, <1>5, <1>6, SilentShows DEF SessionInv

\* The server thread of a session that is being set up starts.
LEMMA ServerStartSession ==
    ASSUME IndInv, SessionInv, NEW t \in Tabs, ServerStart(t) PROVE SessionInv'
<1>1. /\ server[t].pc = "starting" /\ UNCHANGED <<table, workers, msgPipes>> /\ Silent
      /\ server'[t].pc = "running" /\ server'[t].slot = server[t].slot
      /\ server'[t].conn = conn[server[t].slot] /\ reader'[t].pc = "starting"
      /\ \A u \in Tabs : u # t => server'[u] = server[u] /\ reader'[u] = reader[u]
  BY DEF ServerStart, IndInv, TypeOK
<1>2. PICK w \in Workers : InTransition(w, t)
  BY <1>1, TabInTransition
<1>3. /\ tab[w] = t /\ wpc[w] = "open" /\ Owns(w, server[t].slot)
      /\ closing[server[t].slot] = 0 /\ Quiet({w}, {t}) /\ Apart(w, t)
  BY <1>1, <1>2 DEF InTransition, Opening, Leaving, Fresh, Outside
<1>4. Quiet({w}, {t})' /\ Apart(w, t)'
  <2>1. Only(w, t)
    BY <1>1, UntouchedKeeps DEF Only
  <2> QED
    BY <1>3, <2>1, OthersStay
<1>5. Opening(w, t)'
  BY <1>1, <1>3 DEF Opening, Owns
<1>6. ThreadsInv'
  BY <1>1 DEF SessionInv, ThreadsInv, Outside
<1> QED
  BY <1>1, <1>4, <1>5, <1>6, SilentShows DEF SessionInv, InTransition

\* The server thread leaves its loop.
LEMMA ServerLeaveSession ==
    ASSUME IndInv, SessionInv, NEW t \in Tabs, ServerLeave(t) PROVE SessionInv'
<1>1. /\ server[t].pc = "running" /\ closing[server[t].slot] # 0
      /\ UNCHANGED <<table, workers, reader, msgPipes>> /\ Silent
      /\ server'[t].pc = "removing" /\ server'[t].slot = server[t].slot
      /\ \A u \in Tabs : u # t => server'[u] = server[u]
  BY DEF ServerLeave, ServerAt, IndInv, TypeOK
<1>2. PICK w \in Workers : InTransition(w, t)
  BY <1>1, TabInTransition
<1>3. Leaving(w, t) /\ Owns(w, server[t].slot) /\ Quiet({w}, {t}) /\ Apart(w, t)
  BY <1>1, <1>2 DEF InTransition, Opening, Leaving, Fresh, Outside
<1>4. Quiet({w}, {t})' /\ Apart(w, t)'
  <2>1. Only(w, t)
    BY <1>1, UntouchedKeeps DEF Only
  <2> QED
    BY <1>3, <2>1, OthersStay
<1>5. Leaving(w, t)'
  BY <1>1, <1>3 DEF Leaving, Owns, Listens
<1>6. ThreadsInv'
  BY <1>1 DEF SessionInv, ThreadsInv, Outside
<1> QED
  BY <1>1, <1>4, <1>5, <1>6, SilentShows DEF SessionInv, InTransition

\* The names of the slot still point to the query of the tab: of all readers
\* of a session, only its own loses its pipe, and is outlived from then on.
LEMMA RemovePipesSession ==
    ASSUME IndInv, SessionInv, NEW t \in Tabs, RemovePipes(t) PROVE SessionInv'
<1> DEFINE n == NameAt(server[t].slot)
<1>1. /\ server[t].pc = "removing" /\ UNCHANGED <<table, workers>> /\ Silent
      /\ server'[t].pc = "clearing" /\ server'[t].slot = server[t].slot
      /\ \A u \in Tabs : u # t => server'[u] = server[u]
      /\ \A u \in Tabs : reader'[u] = Unlinked(u, n)
      /\ msgPipes' = msgPipes \ {n}
  BY DEF RemovePipes, ServerAt, IndInv, TypeOK
<1>2. PICK w \in Workers : InTransition(w, t)
  BY <1>1, TabInTransition
<1>3. /\ Leaving(w, t) /\ Owns(w, server[t].slot) /\ Quiet({w}, {t}) /\ Apart(w, t)
      /\ Listens(w, t) /\ closing[server[t].slot] # 0
  BY <1>1, <1>2 DEF InTransition, Opening, Leaving, Fresh, Outside
<1>4. n = ThreadOf[t]
  <2>1. ~Filling(w) /\ buf[w] = ThreadOf[t] /\ ThreadOf[t] \in Names
    BY <1>3 DEF Leaving, Filling, FillPcs
  <2> QED
    BY <1>3, <2>1, SlotIsNamed
<1> HIDE DEF n
<1>5. \A u \in Tabs : /\ DOMAIN reader[u] = {"pc", "name", "conn", "outlived"}
                      /\ reader[u] = [pc |-> reader[u].pc, name |-> reader[u].name,
                                      conn |-> reader[u].conn, outlived |-> reader[u].outlived]
  BY DEF IndInv, TypeOK
<1>6. Gone(t)'
  <2>1. CASE reader[t].pc = "eof"
    BY <1>1, <2>1 DEF Unlinked, Waits, Gone
  <2>2. CASE reader[t].pc = "opening" /\ reader[t].name = n
    <3>1. reader'[t] = Ended("deaf")
      BY <1>1, <2>2 DEF Unlinked, Waits
    <3> QED
      BY <3>1 DEF Gone, Ended
  <2>3. CASE reader[t].pc \in {"closed", "writing"} /\ reader[t].name = n
    <3>1. reader'[t] = [reader[t] EXCEPT !.outlived = TRUE]
      BY <1>1, <2>3 DEF Unlinked, Waits
    <3>2. reader'[t].pc = reader[t].pc /\ reader'[t].outlived
      BY <1>5, <3>1
    <3> QED
      BY <2>3, <3>2 DEF Gone
  <2> QED
    BY <1>3, <1>4, <2>1, <2>2, <2>3 DEF Listens
<1>7. ASSUME NEW u \in Tabs, u # t PROVE Keeps(u)
  <2>1. reader[u].pc \in {"none", "starting"} => reader'[u].pc = reader[u].pc
    BY <1>1 DEF Unlinked, Waits
  <2>2. Gone(u) => Gone(u)'
    <3>1. CASE Waits(u, n)
      <4>1. reader'[u] = Ended("deaf")
        BY <1>1, <3>1 DEF Unlinked, Waits
      <4> QED
        BY <4>1 DEF Gone, Ended
    <3>2. CASE ~Waits(u, n) /\ reader[u].name = n /\ reader[u].pc \in {"closed", "writing"}
      <4>1. reader'[u] = [reader[u] EXCEPT !.outlived = TRUE]
        BY <1>1, <3>2 DEF Unlinked
      <4>2. reader'[u].pc = reader[u].pc /\ reader'[u].outlived
        BY <1>5, <4>1
      <4> QED
        BY <3>2, <4>2 DEF Gone
    <3>3. CASE /\ ~Waits(u, n)
               /\ ~(reader[u].name = n /\ reader[u].pc \in {"closed", "writing"})
      <4>1. reader'[u] = reader[u]
        BY <1>1, <3>3 DEF Unlinked
      <4> QED
        BY <4>1 DEF Gone
    <3> QED
      BY <3>1, <3>2, <3>3
  <2>3. ASSUME NEW v \in Workers, InSession(v, u) PROVE Listens(v, u)'
    <3>1. v # w /\ tab[v] = u
      BY <1>3, <2>3 DEF InSession, Leaving
    <3>2. ThreadOf[u] # n
      BY <1>3, <1>4, <3>1 DEF Apart
    <3>3. reader[u].pc = "eof" \/ reader[u].name # n
      BY <2>3, <3>2 DEF InSession, Listens
    <3>4. reader'[u] = reader[u]
      BY <1>1, <3>3 DEF Unlinked, Waits
    <3> QED
      BY <1>1, <2>3, <3>2, <3>4 DEF InSession, Listens
  <2> QED
    BY <2>1, <2>2, <2>3 DEF Keeps
<1>8. Quiet({w}, {t})' /\ Apart(w, t)'
  <2>1. Only(w, t)
    BY <1>1, <1>7 DEF Only
  <2> QED
    BY <1>3, <2>1, OthersStay
<1>9. Leaving(w, t)'
  BY <1>1, <1>3, <1>6 DEF Leaving, Owns
<1>10. ThreadsInv'
  BY <1>1 DEF SessionInv, ThreadsInv, Outside
<1> QED
  BY <1>1, <1>8, <1>9, <1>10, SilentShows DEF SessionInv, InTransition

\* The server thread frees the slot.
LEMMA ClearConnSession ==
    ASSUME IndInv, SessionInv, NEW t \in Tabs, ClearConn(t) PROVE SessionInv'
<1>1. /\ server[t].pc = "clearing" /\ Silent
      /\ UNCHANGED <<closing, raced, workers, reader, msgPipes>>
      /\ server'[t].pc = "marking" /\ server'[t].slot = server[t].slot
      /\ \A u \in Tabs : u # t => server'[u] = server[u]
      /\ server[t].slot \in Slots /\ conn'[server[t].slot] = NoWorker
      /\ \A j \in Slots : j # server[t].slot => conn'[j] = conn[j]
  BY DEF ClearConn, ServerAt, IndInv, TypeOK
<1>2. PICK w \in Workers : InTransition(w, t)
  BY <1>1, TabInTransition
<1>3. Leaving(w, t) /\ Owns(w, server[t].slot) /\ Quiet({w}, {t}) /\ Apart(w, t)
  BY <1>1, <1>2 DEF InTransition, Opening, Leaving, Fresh, Outside
<1>4. NoSlot(w)'
  BY <1>1, <1>3 DEF Owns, NoSlot
<1>5. Quiet({w}, {t})' /\ Apart(w, t)'
  <2>1. Only(w, t)
    BY <1>1, <1>3, UntouchedKeeps DEF Only, Owns
  <2> QED
    BY <1>3, <2>1, OthersStay
<1>6. Leaving(w, t)'
  BY <1>1, <1>3, <1>4 DEF Leaving, Gone
<1>7. ThreadsInv'
  BY <1>1 DEF SessionInv, ThreadsInv, Outside
<1> QED
  BY <1>1, <1>5, <1>6, <1>7, SilentShows DEF SessionInv, InTransition

\* The server thread ends; the session is over when its worker is idle too.
LEMMA MarkFreeSession ==
    ASSUME IndInv, SessionInv, NEW t \in Tabs, MarkFree(t) PROVE SessionInv'
<1>1. /\ server[t].pc = "marking" /\ Silent
      /\ UNCHANGED <<conn, raced, workers, reader, msgPipes>>
      /\ server'[t].pc = "done"
      /\ \A u \in Tabs : u # t => server'[u] = server[u]
      /\ \A j \in Slots : j # server[t].slot => closing'[j] = closing[j]
  BY DEF MarkFree, IndInv, TypeOK
<1>2. PICK w \in Workers : InTransition(w, t)
  BY <1>1, TabInTransition
<1>3. /\ Leaving(w, t) /\ NoSlot(w) /\ Quiet({w}, {t}) /\ Apart(w, t)
      /\ Gone(t) /\ conn[server[t].slot] = NoWorker
  BY <1>1, <1>2 DEF InTransition, Opening, Leaving, Fresh, Outside
<1>4. Quiet({w}, {t})' /\ Apart(w, t)'
  <2>1. Only(w, t)
    BY <1>1, <1>3, UntouchedKeeps DEF Only
  <2> QED
    BY <1>3, <2>1, OthersStay
<1>5. ThreadsInv'
  BY <1>1 DEF SessionInv, ThreadsInv, Outside
<1>6. CASE wpc[w] = "idle"
  <2>1. Free(w)' /\ Over(t)'
    BY <1>1, <1>3, <1>6 DEF Leaving, Free, Over, NoSlot, Gone
  <2>2. Quiet({}, {})'
    BY <1>4, <2>1, Ends
  <2> QED
    BY <1>1, <1>5, <2>2, SilentShows DEF SessionInv
<1>7. CASE wpc[w] = "closing"
  <2>1. Leaving(w, t)'
    BY <1>1, <1>3, <1>7 DEF Leaving, NoSlot, Gone
  <2> QED
    BY <1>1, <1>4, <1>5, <2>1, SilentShows DEF SessionInv, InTransition
<1> QED
  BY <1>3, <1>6, <1>7 DEF Leaving

\* The reader of a session starts: the session is whole.
LEMMA ReaderStartSession ==
    ASSUME IndInv, SessionInv, NEW t \in Tabs, ReaderStart(t) PROVE SessionInv'
<1>1. /\ reader[t].pc = "starting" /\ UNCHANGED <<table, workers, server>> /\ Silent
      /\ reader'[t] = [pc |-> "closed", name |-> NameAt(server[t].slot),
                       conn |-> conn[server[t].slot], outlived |-> FALSE]
      /\ \A u \in Tabs : u # t => reader'[u] = reader[u]
      /\ msgPipes' = msgPipes \cup {NameAt(server[t].slot)}
  BY DEF ReaderStart, IndInv, TypeOK
<1>2. PICK w \in Workers : InTransition(w, t)
  BY <1>1, TabInTransition
<1>3. /\ tab[w] = t /\ wpc[w] = "open" /\ Owns(w, server[t].slot)
      /\ closing[server[t].slot] = 0 /\ Quiet({w}, {t}) /\ Apart(w, t)
      /\ server[t].pc = "running" /\ server[t].conn = w
  BY <1>1, <1>2 DEF InTransition, Opening, Leaving, Fresh, Listens, Gone, Outside
<1>4. conn[server[t].slot] = w /\ NameAt(server[t].slot) = ThreadOf[t]
  <2>1. ~Filling(w) /\ buf[w] = ThreadOf[t] /\ ThreadOf[t] \in Names
    BY <1>3 DEF Filling, FillPcs, IndInv, BufInv
  <2> QED
    BY <1>3, <2>1, SlotIsNamed DEF Owns
<1>5. Quiet({w}, {t})'
  <2>1. Only(w, t)
    BY <1>1, UntouchedKeeps DEF Only
  <2> QED
    BY <1>3, <2>1, OthersStay
<1>6. InSession(w, t)'
  <2>1. /\ reader'[t].pc = "closed" /\ reader'[t].name = ThreadOf[t] /\ reader'[t].conn = w
        /\ ~reader'[t].outlived /\ ThreadOf[t] \in msgPipes'
    BY <1>1, <1>4
  <2>2. Listens(w, t)'
    BY <2>1 DEF Listens
  <2> QED
    BY <1>1, <1>3, <2>2 DEF InSession, Owns
<1>7. Quiet({}, {})'
  BY <1>5, <1>6, Completes
<1>8. ThreadsInv'
  BY <1>1 DEF SessionInv, ThreadsInv, Outside
<1> QED
  BY <1>1, <1>7, <1>8, SilentShows DEF SessionInv

\* The reader of a session finds its pipe; one that outlived its session may
\* find it, too, or end.
LEMMA OpenPipeSession ==
    ASSUME IndInv, SessionInv, NEW t \in Tabs, OpenPipe(t) PROVE SessionInv'
<1>1. /\ reader[t].pc = "closed" /\ UNCHANGED <<table, workers, server, pipes>> /\ Silent
      /\ reader[t].name \in msgPipes => reader' = [reader EXCEPT ![t].pc = "opening"]
      /\ reader[t].name \notin msgPipes => reader' = [reader EXCEPT ![t] = Ended("dead")]
  BY DEF OpenPipe, IndInv, TypeOK
<1>2. \A u \in Tabs : reader[u] \in ReaderRec
  BY DEF IndInv, TypeOK, ReaderRec, ReaderPc
<1>3. reader = [u \in Tabs |-> reader[u]]
  BY DEF IndInv, TypeOK
<1>4. \A u \in Tabs : u # t => reader'[u] = reader[u]
  BY <1>1, <1>3
<1>5. CASE reader[t].name \in msgPipes
  <2>1. /\ reader'[t].pc = "opening" /\ reader'[t].name = reader[t].name
        /\ reader'[t].conn = reader[t].conn /\ reader'[t].outlived = reader[t].outlived
    BY <1>1, <1>2, <1>3, <1>5 DEF ReaderRec
  <2>2. \A u \in Tabs : Keeps(u) /\ \A v \in Workers : Listens(v, u) => Listens(v, u)'
    BY <1>1, <1>4, <2>1 DEF Keeps, Gone, InSession, Listens
  <2> QED
    BY <1>1, <2>2, ReadersMove, SilentShows
<1>6. CASE reader[t].name \notin msgPipes
  <2>1. reader'[t].pc = "dead"
    BY <1>1, <1>3, <1>6 DEF Ended
  <2>2. \A u \in Tabs : Keeps(u) /\ \A v \in Workers : Listens(v, u) => Listens(v, u)'
    BY <1>1, <1>4, <1>6, <2>1 DEF Keeps, Gone, InSession, Listens
  <2> QED
    BY <1>1, <2>2, ReadersMove, SilentShows
<1> QED
  BY <1>5, <1>6

\* A push wakes the readers that wait, each to go on or to end.
LEMMA PushSession ==
    ASSUME IndInv, SessionInv, NEW n \in Pushing, Push(n) PROVE SessionInv'
<1>1. /\ UNCHANGED <<table, workers, server>> /\ Silent
      /\ msgPipes' = msgPipes \cup {n}
  BY DEF Push
<1>2. PICK R \in SUBSET {t \in Tabs : Waits(t, n)} :
         reader' = [t \in Tabs |-> CASE t \in R -> [reader[t] EXCEPT !.pc = "writing"]
                                    [] t \notin R /\ Waits(t, n) -> Ended("eof")
                                    [] OTHER -> reader[t]]
  BY DEF Push
<1>3. \A u \in Tabs : reader[u] \in ReaderRec
  BY DEF IndInv, TypeOK, ReaderRec, ReaderPc
<1>4. ASSUME NEW u \in Tabs
      PROVE Keeps(u) /\ \A v \in Workers : Listens(v, u) => Listens(v, u)'
  <2>1. CASE u \in R
    <3>1. reader[u].pc = "opening" /\ reader'[u] = [reader[u] EXCEPT !.pc = "writing"]
      BY <1>2, <2>1 DEF Waits
    <3>2. /\ reader'[u].pc = "writing" /\ reader'[u].name = reader[u].name
          /\ reader'[u].conn = reader[u].conn /\ reader'[u].outlived = reader[u].outlived
      BY <1>3, <3>1 DEF ReaderRec
    <3> QED
      BY <1>1, <3>1, <3>2 DEF Keeps, Gone, InSession, Listens
  <2>2. CASE u \notin R /\ Waits(u, n)
    <3>1. reader[u].pc = "opening" /\ reader'[u].pc = "eof"
      BY <1>2, <2>2 DEF Waits, Ended
    <3> QED
      BY <3>1 DEF Keeps, Gone, InSession, Listens
  <2>3. CASE u \notin R /\ ~Waits(u, n)
    <3>1. reader'[u] = reader[u]
      BY <1>2, <2>3
    <3> QED
      BY <1>1, <3>1 DEF Keeps, Gone, InSession, Listens
  <2> QED
    BY <2>1, <2>2, <2>3
<1> QED
  BY <1>1, <1>4, ReadersMove, SilentShows

\* A reader that writes has outlived its session, or is one of a session,
\* whole or about to end.
LEMMA ReaderHasSession ==
    ASSUME SessionInv, NEW t \in Tabs, reader[t].pc = "writing", ~reader[t].outlived
    PROVE \E w \in Workers : Listens(w, t) /\ tab[w] \in {t, NoTab}
<1>1. ~Fresh(t) /\ ~Over(t) /\ ~Gone(t)
  BY DEF Fresh, Over, Gone
<1>2. ASSUME NEW w \in Workers, InSession(w, t) PROVE Listens(w, t) /\ tab[w] \in {t, NoTab}
  BY <1>2 DEF InSession
<1>3. ASSUME NEW w \in Workers, InTransition(w, t)
      PROVE Listens(w, t) /\ tab[w] \in {t, NoTab}
  BY <1>1, <1>3 DEF InTransition, Opening, Leaving, Fresh
<1>4. CASE Quiet({}, {})
  BY <1>1, <1>2, <1>4 DEF Quiet
<1>5. ASSUME NEW w \in Workers, NEW u \in Tabs, InTransition(w, u), u # t
      PROVE \E v \in Workers : InSession(v, t)
  BY <1>1, <1>5 DEF InTransition, Quiet
<1> QED
  BY <1>2, <1>3, <1>4, <1>5 DEF SessionInv

\* It writes what it has read to the tab of its session, or to none.
LEMMA WriteMessageSession ==
    ASSUME IndInv, SessionInv, NEW t \in Tabs, WriteMessage(t) PROVE SessionInv'
<1>1. /\ reader[t].pc = "writing" /\ UNCHANGED <<table, workers, server, pipes>>
      /\ reader[t].conn = NoWorker => reader' = [reader EXCEPT ![t] = Ended("dead")] /\ Silent
      /\ reader[t].conn # NoWorker =>
           /\ reader' = [reader EXCEPT ![t].pc = "closed"]
           /\ last' = [kind |-> "message", thread |-> reader[t].name,
                       tab |-> tab[reader[t].conn], by |-> t]
  BY DEF WriteMessage, Deliver
<1>2. \A u \in Tabs : reader[u] \in ReaderRec
  BY DEF IndInv, TypeOK, ReaderRec, ReaderPc
<1>3. reader = [u \in Tabs |-> reader[u]]
  BY DEF IndInv, TypeOK
<1>4. \A u \in Tabs : u # t => reader'[u] = reader[u]
  BY <1>1, <1>3
<1>5. CASE reader[t].conn = NoWorker
  <2>1. reader'[t].pc = "dead"
    BY <1>1, <1>3, <1>5 DEF Ended
  <2>2. \A u \in Tabs : Keeps(u) /\ \A v \in Workers : Listens(v, u) => Listens(v, u)'
    BY <1>1, <1>4, <1>5, <2>1 DEF Keeps, Gone, InSession, Listens
  <2> QED
    BY <1>1, <1>5, <2>2, ReadersMove, SilentShows
<1>6. CASE reader[t].conn # NoWorker
  <2>1. /\ reader'[t].pc = "closed" /\ reader'[t].name = reader[t].name
        /\ reader'[t].conn = reader[t].conn /\ reader'[t].outlived = reader[t].outlived
    BY <1>1, <1>2, <1>3, <1>6 DEF ReaderRec
  <2>2. \A u \in Tabs : Keeps(u) /\ \A v \in Workers : Listens(v, u) => Listens(v, u)'
    BY <1>1, <1>4, <2>1 DEF Keeps, Gone, InSession, Listens
  <2>3. ShownInOwnTab'
    <3>1. CASE reader[t].outlived
      <4>1. reader'[t].outlived
        BY <2>1, <3>1
      <4>2. last'.by = t
        BY <1>1, <1>6
      <4> QED
        BY <4>1, <4>2 DEF ShownInOwnTab
    <3>2. CASE ~reader[t].outlived
      <4>1. PICK w \in Workers : Listens(w, t) /\ tab[w] \in {t, NoTab}
        BY <1>1, <3>2, ReaderHasSession
      <4>2. reader[t].conn = w /\ reader[t].name = ThreadOf[t]
        BY <1>1, <4>1 DEF Listens
      <4> QED
        BY <1>1, <1>6, <4>1, <4>2 DEF ShownInOwnTab
    <3> QED
      BY <3>1, <3>2
  <2> QED
    BY <1>1, <2>2, <2>3, ReadersMove
<1> QED
  BY <1>5, <1>6

\* Commands and PINGs move no one.
LEMMA SendSession ==
    ASSUME SessionInv,
           (\E w \in Workers : Command(w)) \/ (\E t \in Tabs : Ping(t)) \/ UNCHANGED vars
    PROVE SessionInv'
<1>1. UNCHANGED <<table, workers, server, reader, pipes>>
  BY DEF Command, Ping, vars
<1>2. last' = last \/ last'.kind \in {"nothing", "command", "ping"}
  BY DEF Command, Ping, vars, Deliver, Silent, Nothing
<1>3. ShownInOwnTab'
  <2>1. CASE last' = last
    BY <1>1, <2>1 DEF SessionInv, ShownInOwnTab
  <2>2. CASE last'.kind \in {"nothing", "command", "ping"}
    BY <2>2 DEF ShownInOwnTab
  <2> QED
    BY <1>2, <2>1, <2>2
<1>4. \A u \in Tabs : Keeps(u) /\ \A v \in Workers : Listens(v, u) => Listens(v, u)'
  BY <1>1 DEF Keeps, Gone, InSession, Listens
<1> QED
  BY <1>1, <1>3, <1>4, ReadersMove

\* Before the first connection all is quiet.
LEMMA InitSession == Init => SessionInv
<1> SUFFICES ASSUME Init PROVE SessionInv
  OBVIOUS
<1>1. Quiet({}, {})
  BY DEF Init, Quiet, Free, Fresh, NoSlot
<1>2. ThreadsInv /\ ShownInOwnTab /\ raced = {}
  BY DEF Init, ThreadsInv, ShownInOwnTab, Nothing
<1> QED
  BY <1>1, <1>2 DEF SessionInv

\* Every step keeps at most one session in transition.
LEMMA NextSession == ASSUME Patient PROVE IndInv /\ SessionInv /\ [Next]_vars => SessionInv'
<1> SUFFICES ASSUME IndInv, SessionInv, [Next]_vars PROVE SessionInv'
  OBVIOUS
<1>1. ASSUME NEW w \in Workers, Worker(w) PROVE SessionInv'
  BY <1>1, ConnectSession, FindSlotSession, FillSlotSession, ReadySessionSession, SendSession,
     GoSession, CloseConnectionSession, ServePageSession DEF Worker
<1>2. ASSUME NEW t \in Tabs, Server(t) PROVE SessionInv'
  BY <1>2, ServerStartSession, SendSession, ServerLeaveSession, RemovePipesSession,
     ClearConnSession, MarkFreeSession DEF Server
<1>3. ASSUME NEW t \in Tabs, Reader(t) PROVE SessionInv'
  BY <1>3, ReaderStartSession, OpenPipeSession, WriteMessageSession DEF Reader
<1> QED
  BY <1>1, <1>2, <1>3, PushSession, SendSession DEF Next

\* Patient browsers find at most one session in transition, all others whole.
THEOREM SessionInvariance == ASSUME Patient PROVE Spec => [](IndInv /\ SessionInv)
<1>1. IndInv /\ SessionInv /\ [Next]_vars => SessionInv'
  BY NextSession
<1> QED
  BY <1>1, InitSession, Invariance, PTL DEF Spec

\* What a traced thread pushes appears in a tab of that thread and in no other,
\* although a conn pointer names the worker and not the connection, unless the
\* read_thread that shows it has outlived its session.
THEOREM ShownInOwnTabTheorem == ASSUME Patient PROVE Spec => []ShownInOwnTab
<1>1. SessionInv => ShownInOwnTab
  BY DEF SessionInv
<1> QED
  BY <1>1, SessionInvariance, PTL

\* The session of every open tab is whole: its slot, its server thread, and a
\* reader of its own that is in its cycle or has met the end of file, whatever
\* readers of earlier sessions do.
THEOREM OpenIsWholeTheorem == ASSUME Patient PROVE Spec => []OpenIsWhole
<1>1. IndInv /\ SessionInv => OpenIsWhole
  <2> SUFFICES ASSUME IndInv, SessionInv, Settled, NEW w \in Workers, wpc[w] = "open" PROVE Whole(w)
    BY DEF OpenIsWhole
  <2>1. PICK t \in Tabs : InSession(w, t)
    BY SettledIsQuiet DEF IndInv, Quiet, Free
  <2>2. SlotsOf(w) = {server[t].slot}
    BY <2>1 DEF InSession, Owns, SlotsOf
  <2> QED
    BY <2>1, <2>2 DEF InSession, Owns, Listens, Whole
<1> QED
  BY <1>1, SessionInvariance, PTL

\* websocket_connect_handler refuses a tab only when every slot belongs to a
\* session that is open: no slot is lost to sessions that have ended.
THEOREM RefusedOnlyWhenFullTheorem == ASSUME Patient PROVE Spec => []RefusedOnlyWhenFull
<1>1. SessionInv => RefusedOnlyWhenFull
  <2> SUFFICES ASSUME SessionInv, NEW w \in Workers, wpc[w] = "refused"
               PROVE \A i \in Slots : conn[i] # NoWorker /\ closing[i] = 0
    BY DEF RefusedOnlyWhenFull
  <2>1. PICK t \in Tabs : InTransition(w, t)
    BY WorkerInTransition
  <2> QED
    BY <2>1 DEF InTransition, Opening, Leaving, FillPcs
<1> QED
  BY <1>1, SessionInvariance, PTL
=============================================================================
