------------------------ MODULE HttpConnectionProofs ------------------------
(***************************************************************************)
(* For any requests, frames and sizes, any number of threads of a session, *)
(* and however the network cuts the stream: what the server writes on a    *)
(* websocket is whole frames, what the browser sends reaches the callback  *)
(* whole, in order and once, the body of a form is read, and the server    *)
(* does not hang up on a browser that is there.                            *)
(*                                                                         *)
(* The argument follows the bytes: those that are read and not yet handed  *)
(* on, and those that are still on their way, are one run of the stream,   *)
(* each byte the successor of the one before it, and the run begins where  *)
(* the worker stands: at the front of a frame, or inside its payload.      *)
(***************************************************************************)
EXTENDS HttpConnection, SequenceTheorems, WellFoundedInduction, TLAPS

-----------------------------------------------------------------------------
(* The stream of bytes.                                                    *)

\* Bytes of the first n messages.
Byte(n) == (1..n) \X Nat

\* The sizes of the messages of s.
SizesOf(s) == [m \in 1..Len(s) |-> IF m = 1 THEN s[1].head + s[1].body
                                   ELSE HeaderSize(s[m].size) + s[m].size]

\* The byte that follows b, when z are the sizes of the messages.
Succ(z, b) == IF b[2] < z[b[1]] THEN <<b[1], b[2] + 1>> ELSE <<b[1] + 1, 1>>

\* The bytes s are a piece of the stream that begins with b ...
Chain(z, s, b) == /\ s # <<>> => s[1] = b
                  /\ \A i \in 1..(Len(s) - 1) : s[i + 1] = Succ(z, s[i])

\* ... and this is the byte behind it.
End(z, s, b) == IF s = <<>> THEN b ELSE Succ(z, s[Len(s)])

-----------------------------------------------------------------------------
(* The invariants.                                                         *)

\* Types, also of the bytes.
Types ==
    /\ TypeOK
    /\ sent \in Seq(Requests \cup Frames) /\ handed \in Seq(Frames \cup {Garbled})
    /\ net \in Seq(Byte(Len(sent))) /\ buf \in Seq(Byte(Len(sent)))
    /\ data \in Seq(Byte(Len(sent)))
    /\ head \in Nat
    /\ frame \in Nat \X Nat
    /\ pc \in {"payload", "frame"} => frame \in Byte(Len(sent))

\* What has been asked and answered where the worker stands.
Control ==
    /\ answer = "upgraded" => sent # <<>> /\ sent[1].op = "socket"
    /\ answer # "upgraded" => handed = <<>> /\ Len(sent) <= 1
    /\ pc \in {"request", "body"} => answer = "none"
    /\ pc \in {"ready", "open", "payload", "frame", "command", "pong", "echo"}
            => answer = "upgraded"
    /\ pc = "body" => sent # <<>>

\* Half a frame is on the wire only while its thread holds the lock, and
\* the socket is open.
LockInv ==
    /\ mutex = Worker => pc \in {"pong", "echo"}
    /\ wire # Nobody => wire = mutex /\ sock

\* The bytes s, from b on, are what is left of the messages x, all of it as
\* long as the browser is there.
Rest(x, whole, s, b) == /\ Chain(SizesOf(x), s, b)
                        /\ whole => End(SizesOf(x), s, b) = <<Len(x) + 1, 1>>

\* The size of the frame at hand.
Size == FrameAt(frame).size

\* Where the worker stands in the stream.
StreamInv ==
    /\ pc = "request" /\ sent # <<>> => Rest(sent, browser = "here", buf \o net, <<1, 1>>)
    /\ pc \in {"ready", "open", "command", "pong"}
            => Rest(sent, browser = "here", Queue \o net, <<Len(handed) + 2, 1>>)
    /\ pc \in {"payload", "frame"} =>
         /\ frame = <<Len(handed) + 2, 1>>
         /\ \A i \in 1..Len(data) : data[i] = <<frame[1], HeaderSize(Size) + i>>
         /\ Len(data) + want = Size
    /\ pc = "payload" =>
         /\ want > 0 /\ Queue = <<>>
         /\ Rest(sent, browser = "here", net, <<frame[1], HeaderSize(Size) + Len(data) + 1>>)
    /\ pc = "frame" => want = 0 /\ Rest(sent, browser = "here", Queue \o net, <<frame[1] + 1, 1>>)

\* The close frame is the last one the browser sends, and the last one that
\* is handed on.
CloseInv ==
    /\ \A i \in 2..(Len(sent) - 1) : sent[i].op # "close"
    /\ pc \in {"ready", "open", "payload", "frame", "command", "pong"}
            => ~Channel!Closed(handed)
    /\ pc = "echo" => Channel!Closed(handed)

\* Why the server hangs up on a browser that is there and pinged: the close frame, or
\* the frame at hand, one of those that were sent, which is too large.
OpenInv ==
    answer = "upgraded" /\ browser = "here" /\ pinged /\ ~stop_flag /\ pc \in {"closing", "done"}
        => \/ Channel!Closed(handed)
           \/ frame \in Byte(Len(sent)) /\ FrameAt(frame).size > MemSize

\* The body of the request.
Body == [i \in 1..sent[1].body |-> <<1, sent[1].head + i>>]

\* What mg_read has of a form and what is on its way are the body, and it
\* waits for the rest of it.
BodyInv ==
    /\ answer = "reply" => sent # <<>>
    /\ pc = "body" /\ sent[1].op = "form" /\ browser = "here" =>
         data \o net = Body /\ Len(data) + want = sent[1].body
    /\ BodyIsRead

-----------------------------------------------------------------------------
(* What the browsers of the project send.                                  *)

\* A request that opens a websocket has no body.
SocketsHaveNoBody == \A r \in Requests : r.op = "socket" => r.body = 0

\* Behind its head the buffer has room for the longest header of a frame.
SocketsLeaveRoom == \A r \in Requests : r.op = "socket" => r.head + 14 <= BufSize

\* A form is as long as it says.
FormsAreWhole == \A r \in Requests : r.op = "form" => r.body = r.length
USE ConnectionAssumption

-----------------------------------------------------------------------------
(* Pieces of the stream.                                                   *)

\* Sequences by their length and their elements.
LEMMA SeqParts ==
    ASSUME NEW S, NEW s \in Seq(S)
    PROVE /\ Len(s) \in Nat /\ (s = <<>> <=> Len(s) = 0)
          /\ \A i \in 1..Len(s) : s[i] \in S
BY EmptySeq, LenProperties, ElementOfSeq

\* The first n elements, and those behind them.
LEMMA Split ==
    ASSUME NEW S, NEW s \in Seq(S), NEW n \in 0..Len(s)
    PROVE /\ SubSeq(s, 1, n) \in Seq(S) /\ Len(SubSeq(s, 1, n)) = n
          /\ \A i \in 1..n : SubSeq(s, 1, n)[i] = s[i]
          /\ SubSeq(s, n + 1, Len(s)) \in Seq(S) /\ Len(SubSeq(s, n + 1, Len(s))) = Len(s) - n
          /\ \A i \in 1..(Len(s) - n) : SubSeq(s, n + 1, Len(s))[i] = s[n + i]
<1>1. Len(s) \in Nat /\ \A i \in 1..Len(s) : s[i] \in S
  BY SeqParts
<1>2. \A i \in 1..n : s[i] \in S
  BY <1>1
<1>3. \A i \in (n + 1)..Len(s) : s[i] \in S
  BY <1>1
<1>4. /\ SubSeq(s, 1, n) \in Seq(S) /\ Len(SubSeq(s, 1, n)) = IF 1 <= n THEN n - 1 + 1 ELSE 0
      /\ \A i \in 1..(n - 1 + 1) : SubSeq(s, 1, n)[i] = s[1 + i - 1]
  BY <1>1, <1>2, SubSeqProperties
<1>5. /\ SubSeq(s, n + 1, Len(s)) \in Seq(S)
      /\ Len(SubSeq(s, n + 1, Len(s))) = IF n + 1 <= Len(s) THEN Len(s) - (n + 1) + 1 ELSE 0
      /\ \A i \in 1..(Len(s) - (n + 1) + 1) : SubSeq(s, n + 1, Len(s))[i] = s[n + 1 + i - 1]
  BY <1>1, <1>3, SubSeqProperties
<1>6. \A i \in 1..n : SubSeq(s, 1, n)[i] = s[i]
  BY <1>4
<1>7. \A i \in 1..(Len(s) - n) : SubSeq(s, n + 1, Len(s))[i] = s[n + i]
  BY <1>1, <1>5
<1> QED
  BY <1>1, <1>4, <1>5, <1>6, <1>7

\* The n elements behind the first h.
LEMMA Middle ==
    ASSUME NEW S, NEW s \in Seq(S), NEW h \in Nat, NEW n \in Nat, h + n <= Len(s),
           NEW u, u = SubSeq(s, h + 1, h + n)
    PROVE u \in Seq(S) /\ Len(u) = n /\ \A i \in 1..n : u[i] = s[h + i]
<1>1. Len(s) \in Nat /\ \A i \in 1..Len(s) : s[i] \in S
  BY SeqParts
<1>2. \A i \in (h + 1)..(h + n) : s[i] \in S
  BY <1>1
<1>3. /\ u \in Seq(S) /\ Len(u) = IF h + 1 <= h + n THEN (h + n) - (h + 1) + 1 ELSE 0
      /\ \A i \in 1..((h + n) - (h + 1) + 1) : u[i] = s[(h + 1) + i - 1]
  BY <1>1, <1>2, SubSeqProperties
<1>4. ASSUME NEW i \in 1..n PROVE u[i] = s[h + i]
  BY <1>3
<1> QED
  BY <1>3, <1>4

\* Together they are the sequence.
LEMMA Join ==
    ASSUME NEW S, NEW s \in Seq(S), NEW n \in 0..Len(s)
    PROVE SubSeq(s, 1, n) \o SubSeq(s, n + 1, Len(s)) = s
<1>1. Len(s) \in Nat
  BY SeqParts
<1>2. 1 \in 1..(Len(s) + 1) /\ n \in (1 - 1)..Len(s) /\ Len(s) \in n..Len(s)
  BY <1>1
<1>3. SubSeq(s, 1, n) \o SubSeq(s, n + 1, Len(s)) = SubSeq(s, 1, Len(s))
  BY <1>2, ConcatAdjacentSubSeq
<1> QED
  BY <1>3, SubSeqFull

\* The boundary between what is read and what is not moves.
LEMMA Shift ==
    ASSUME NEW S, NEW s \in Seq(S), NEW t \in Seq(S), NEW n \in 0..Len(t)
    PROVE (s \o SubSeq(t, 1, n)) \o SubSeq(t, n + 1, Len(t)) = s \o t
<1> DEFINE a == SubSeq(t, 1, n)
           b == SubSeq(t, n + 1, Len(t))
<1>1. a \in Seq(S) /\ b \in Seq(S) /\ a \o b = t
  BY Split, Join
<1> HIDE DEF a, b
<1>2. \A x, y \in Seq(S) : (s \o x) \o y = s \o (x \o y)
  BY ConcatAssociative, SMTT(40)
<1>3. (s \o a) \o b = s \o t
  BY <1>1, <1>2, Zenon
<1> QED
  BY <1>3, Zenon DEF a, b

\* t behind the first n elements of s.
PutBehind(s, n, t) == SubSeq(s, 1, n) \o t

\* What lies behind the first n elements.
Back(s, n) == SubSeq(s, n + 1, Len(s))

\* What is put behind the first n elements is found there.
LEMMA Behind ==
    ASSUME NEW S, NEW s \in Seq(S), NEW t \in Seq(S), NEW n \in 0..Len(s)
    PROVE /\ PutBehind(s, n, t) \in Seq(S) /\ Len(PutBehind(s, n, t)) = n + Len(t)
          /\ Back(PutBehind(s, n, t), n) = t
<1> DEFINE u == PutBehind(s, n, t)
<1>1. SubSeq(s, 1, n) \in Seq(S) /\ Len(SubSeq(s, 1, n)) = n
  BY Split
<1>2. /\ u \in Seq(S) /\ Len(u) = n + Len(t)
      /\ \A i \in 1..(n + Len(t)) :
           u[i] = IF i <= n THEN SubSeq(s, 1, n)[i] ELSE t[i - n]
  BY <1>1, ConcatProperties DEF PutBehind
<1> HIDE DEF u
<1>3. Len(t) \in Nat /\ Len(s) \in Nat /\ n \in 0..Len(u)
  BY <1>2, SeqParts
<1> DEFINE v == SubSeq(u, n + 1, Len(u))
<1>4. v \in Seq(S) /\ Len(v) = Len(t) /\ \A i \in 1..Len(t) : v[i] = u[n + i]
  <2>1. Len(u) - n = Len(t)
    BY <1>2, <1>3
  <2> QED
    BY <1>2, <1>3, <2>1, Split
<1> HIDE DEF v
<1>5. ASSUME NEW i \in 1..Len(t) PROVE v[i] = t[i]
  <2>1. n + i \in 1..(n + Len(t)) /\ ~(n + i <= n) /\ (n + i) - n = i
    BY <1>3
  <2> QED
    BY <1>2, <1>4, <2>1
<1>6. v = t
  BY <1>4, <1>5, SeqEqual
<1> QED
  BY <1>2, <1>6 DEF v, u, Back

\* Two pieces in a row are one.
LEMMA ChainConcat ==
    ASSUME NEW S, NEW s \in Seq(S), NEW t \in Seq(S), NEW z, NEW b,
           Chain(z, s, b), Chain(z, t, End(z, s, b))
    PROVE Chain(z, s \o t, b) /\ End(z, s \o t, b) = End(z, t, End(z, s, b))
<1>1. /\ Len(s \o t) = Len(s) + Len(t) /\ s \o t \in Seq(S)
      /\ \A i \in 1..(Len(s) + Len(t)) :
           (s \o t)[i] = IF i <= Len(s) THEN s[i] ELSE t[i - Len(s)]
  BY ConcatProperties
<1>2. /\ Len(s) \in Nat /\ (s = <<>> <=> Len(s) = 0)
      /\ Len(t) \in Nat /\ (t = <<>> <=> Len(t) = 0)
      /\ (s \o t = <<>> <=> Len(s) + Len(t) = 0)
  BY <1>1, SeqParts
<1>3. ASSUME s \o t # <<>> PROVE (s \o t)[1] = b
  BY <1>1, <1>2, <1>3 DEF Chain, End
<1>4. ASSUME NEW i \in 1..(Len(s \o t) - 1) PROVE (s \o t)[i + 1] = Succ(z, (s \o t)[i])
  <2>1. CASE i < Len(s)
    BY <1>1, <1>2, <2>1 DEF Chain
  <2>2. CASE i = Len(s)
    BY <1>1, <1>2, <2>2 DEF Chain, End
  <2>3. CASE i > Len(s)
    <3>1. i - Len(s) \in 1..(Len(t) - 1) /\ (i + 1) - Len(s) = (i - Len(s)) + 1
      BY <1>1, <1>2, <2>3
    <3>2. (s \o t)[i] = t[i - Len(s)] /\ (s \o t)[i + 1] = t[(i + 1) - Len(s)]
      BY <1>1, <1>2, <2>3
    <3> QED
      BY <3>1, <3>2 DEF Chain
  <2> QED
    BY <1>2, <2>1, <2>2, <2>3
<1>5. End(z, s \o t, b) = End(z, t, End(z, s, b))
  BY <1>1, <1>2 DEF End
<1> QED
  BY <1>3, <1>4, <1>5 DEF Chain

\* The front of a piece is one.
LEMMA ChainFront ==
    ASSUME NEW S, NEW s \in Seq(S), NEW n \in 0..Len(s), NEW z, NEW b, Chain(z, s, b)
    PROVE Chain(z, SubSeq(s, 1, n), b)
<1>1. Len(s) \in Nat /\ (s = <<>> <=> Len(s) = 0)
  BY SeqParts
<1>a. SubSeq(s, 1, n) \in Seq(S) /\ Len(SubSeq(s, 1, n)) = n
  BY Split
<1>2. SubSeq(s, 1, n) = <<>> <=> n = 0
  BY <1>a, SeqParts
<1>3. ASSUME n # 0 PROVE SubSeq(s, 1, n)[1] = b
  BY <1>1, <1>3, Split DEF Chain
<1>4. ASSUME NEW i \in 1..(n - 1)
      PROVE SubSeq(s, 1, n)[i + 1] = Succ(z, SubSeq(s, 1, n)[i])
  <2>1. SubSeq(s, 1, n)[i] = s[i] /\ SubSeq(s, 1, n)[i + 1] = s[i + 1]
    BY Split
  <2> QED
    BY <1>1, <2>1 DEF Chain
<1> QED
  BY <1>2, <1>3, <1>4, Split DEF Chain

\* The part behind the n-th byte of a piece is one.
LEMMA ChainBack ==
    ASSUME NEW S, NEW s \in Seq(S), NEW n \in 1..Len(s), NEW z, NEW b, Chain(z, s, b)
    PROVE /\ Chain(z, SubSeq(s, n + 1, Len(s)), Succ(z, s[n]))
          /\ End(z, SubSeq(s, n + 1, Len(s)), Succ(z, s[n])) = End(z, s, b)
<1> DEFINE t == SubSeq(s, n + 1, Len(s))
<1>1. Len(s) \in Nat /\ (s = <<>> <=> Len(s) = 0) /\ n \in 0..Len(s)
  BY SeqParts
<1>2. t \in Seq(S) /\ Len(t) = Len(s) - n /\ \A i \in 1..(Len(s) - n) : t[i] = s[n + i]
  BY <1>1, Split
<1>3. t = <<>> <=> n = Len(s)
  <2>1. t = <<>> <=> Len(t) = 0
    BY <1>2, SeqParts
  <2> QED
    BY <1>1, <1>2, <2>1
<1> HIDE DEF t
<1>4. ASSUME t # <<>> PROVE t[1] = Succ(z, s[n])
  BY <1>1, <1>2, <1>3, <1>4 DEF Chain
<1>5. ASSUME NEW i \in 1..(Len(t) - 1) PROVE t[i + 1] = Succ(z, t[i])
  <2>1. t[i] = s[n + i] /\ t[i + 1] = s[n + (i + 1)] /\ n + (i + 1) = (n + i) + 1
    BY <1>1, <1>2
  <2> QED
    BY <1>1, <1>2, <2>1 DEF Chain
<1>6. End(z, t, Succ(z, s[n])) = End(z, s, b)
  <2>1. CASE t = <<>>
    BY <1>1, <1>3, <2>1 DEF End
  <2>2. CASE t # <<>>
    <3>1. Len(t) \in 1..(Len(s) - n) /\ n + Len(t) = Len(s)
      BY <1>1, <1>2, <1>3, <2>2
    <3>2. t[Len(t)] = s[Len(s)]
      BY <1>2, <3>1
    <3> QED
      BY <1>1, <2>2, <3>2 DEF End
  <2> QED
    BY <2>1, <2>2
<1>7. Chain(z, t, Succ(z, s[n]))
  BY <1>4, <1>5 DEF Chain
<1> QED
  BY <1>6, <1>7 DEF t

\* The byte behind the first k of message m.
At(m, k) == <<m, k + 1>>

\* Message m has n bytes behind the first k.
Fits(z, m, k, n) == z[m] \in Nat /\ k + n <= z[m]

\* The first n bytes of s are those.
Run(s, m, k, n) == \A i \in 1..n : s[i] = <<m, k + i>>

\* Within a message the places go up one by one.
LEMMA ChainRun ==
    ASSUME NEW S, NEW s \in Seq(S), NEW n \in 0..Len(s), NEW z, NEW m \in Nat, NEW k \in Nat,
           Chain(z, s, At(m, k)), Fits(z, m, k, n)
    PROVE Run(s, m, k, n)
<1> DEFINE Wrong == {i \in 1..n : s[i] # <<m, k + i>>}
<1>0. Len(s) \in Nat /\ (s = <<>> <=> Len(s) = 0) /\ n \in Nat
  BY SeqParts
<1>1. SUFFICES ASSUME Wrong # {} PROVE FALSE
  BY DEF Run
<1>2. Wrong \subseteq Nat
  BY <1>0
<1>3. PICK x \in Wrong : \A y \in Wrong : ~(<<y, x>> \in OpToRel(<, Nat))
  BY <1>1, <1>2, WFMin, NatLessThanWellFounded
<1>4. x \in 1..n /\ s[x] # <<m, k + x>> /\ x \in Nat /\ \A y \in Wrong : ~(y < x)
  BY <1>2, <1>3 DEF OpToRel
<1>5. x # 1
  BY <1>0, <1>4 DEF Chain, At
<1>6. x - 1 \in 1..n /\ x - 1 < x /\ x - 1 \in 1..(Len(s) - 1) /\ (x - 1) + 1 = x
  BY <1>0, <1>4, <1>5
<1>7. s[x - 1] = <<m, k + (x - 1)>>
  BY <1>4, <1>6
<1>8. s[x] = Succ(z, <<m, k + (x - 1)>>)
  BY <1>6, <1>7 DEF Chain
<1>9. k + (x - 1) < z[m] /\ (k + (x - 1)) + 1 = k + x
  <2>1. x <= n /\ x \in Nat
    BY <1>0, <1>4
  <2> QED
    BY <1>0, <2>1 DEF Fits
<1> QED
  BY <1>4, <1>8, <1>9 DEF Succ

\* The first N messages have the same sizes.
Agree(y, z, N) == \A m \in 1..N : y[m] = z[m]

\* More messages do not change the part of the stream that is there.
LEMMA ChainGrows ==
    ASSUME NEW N \in Nat, NEW s \in Seq(Byte(N)), NEW y, NEW z, NEW b,
           Agree(y, z, N), Chain(z, s, b)
    PROVE Chain(y, s, b) /\ End(y, s, b) = End(z, s, b)
<1>1. \A i \in 1..Len(s) : s[i] \in Byte(N)
  BY SeqParts
<1>2. \A i \in 1..Len(s) : Succ(y, s[i]) = Succ(z, s[i])
  BY <1>1 DEF Byte, Succ, Agree
<1>3. Len(s) \in Nat /\ (s = <<>> <=> Len(s) = 0)
  BY SeqParts
<1>4. \A i \in 1..(Len(s) - 1) : s[i + 1] = Succ(y, s[i])
  BY <1>2, <1>3 DEF Chain
<1> QED
  BY <1>2, <1>3, <1>4 DEF Chain, End

\* A message is a piece of the stream.
LEMMA BytesChain ==
    ASSUME NEW N \in Nat, NEW m \in 1..N, NEW n \in Nat \ {0}, NEW z, z[m] = n
    PROVE /\ Bytes(m, n) \in Seq(Byte(N)) /\ Len(Bytes(m, n)) = n
          /\ Chain(z, Bytes(m, n), <<m, 1>>) /\ End(z, Bytes(m, n), <<m, 1>>) = <<m + 1, 1>>
<1>1. \A i \in 1..n : <<m, i>> \in Byte(N)
  BY DEF Byte
<1>2. Bytes(m, n) \in Seq(Byte(N))
  BY <1>1, IsASeq DEF Bytes
<1>3. Len(Bytes(m, n)) = n /\ \A i \in 1..n : Bytes(m, n)[i] = <<m, i>>
  BY DEF Bytes
<1>4. \A i \in 1..(n - 1) : Succ(z, <<m, i>>) = <<m, i + 1>>
  BY DEF Succ
<1>5. Succ(z, <<m, n>>) = <<m + 1, 1>>
  BY DEF Succ
<1>6. Bytes(m, n) # <<>>
  BY <1>2, <1>3, SeqParts
<1>7. ASSUME NEW i \in 1..(n - 1) PROVE Bytes(m, n)[i + 1] = Succ(z, Bytes(m, n)[i])
  <2>1. i \in 1..n /\ i + 1 \in 1..n
    OBVIOUS
  <2>2. Bytes(m, n)[i] = <<m, i>> /\ Bytes(m, n)[i + 1] = <<m, i + 1>>
    BY <1>3, <2>1
  <2> QED
    BY <1>4, <2>2
<1>8. Bytes(m, n)[1] = <<m, 1>> /\ Bytes(m, n)[n] = <<m, n>>
  BY <1>3
<1> QED
  BY <1>2, <1>3, <1>5, <1>6, <1>7, <1>8 DEF Chain, End
-----------------------------------------------------------------------------
(* What can be said of a connection whatever browsers send: types, control *)
(* and lock.                                                               *)

Base == Types /\ Control /\ LockInv

\* Types are kept when more messages follow.
LEMMA ByteGrows ==
    ASSUME NEW N \in Nat, NEW s \in Seq(Byte(N)) PROVE s \in Seq(Byte(N + 1))
<1>1. Byte(N) \subseteq Byte(N + 1)
  BY DEF Byte
<1> QED
  BY <1>1, SeqMonotonic

\* The request, and the frame at a byte of the stream.
LEMMA FrameAtType ==
    ASSUME Types
    PROVE /\ Len(sent) \in Nat /\ (sent = <<>> <=> Len(sent) = 0)
          /\ sent # <<>> => /\ sent[1] \in Requests /\ sent[1].head \in Nat \ {0}
                            /\ sent[1].body \in Nat /\ sent[1].length \in Nat
          /\ \A i \in 2..Len(sent) : sent[i] \in Frames /\ sent[i].size \in Nat
          /\ \A b \in Byte(Len(sent)) :
               FrameAt(b) \in Frames \cup {Garbled} /\ FrameAt(b).size \in Nat
<1>1. Len(sent) \in Nat /\ (sent = <<>> <=> Len(sent) = 0)
  BY SeqParts DEF Types
<1>2. sent # <<>> => sent[1] \in Requests
  BY <1>1 DEF Types, TypeOK
<1>3. \A i \in 2..Len(sent) : sent[i] \in Frames
  BY <1>1 DEF Types, TypeOK
<1>4. ASSUME NEW b \in Byte(Len(sent)) PROVE FrameAt(b) \in Frames \cup {Garbled}
  BY <1>1, <1>3 DEF FrameAt, Byte
<1>5. Garbled.size \in Nat
  BY DEF Garbled
<1> QED
  BY <1>1, <1>2, <1>3, <1>4, <1>5

\* The headers of frames have from 6 to 14 bytes.
LEMMA HeaderType == ASSUME NEW n \in Nat PROVE HeaderSize(n) \in 6..14
BY DEF HeaderSize

\* The bytes that wait in the buffer, and those on their way.
LEMMA QueueType ==
    ASSUME Types
    PROVE /\ Len(buf) \in Nat /\ Len(net) \in Nat /\ Len(data) \in Nat
          /\ net = <<>> <=> Len(net) = 0
          /\ head \in 0..Len(buf)
          /\ Queue \in Seq(Byte(Len(sent))) /\ Len(Queue) = Len(buf) - head
          /\ Queue = <<>> <=> Len(Queue) = 0
<1>1. Len(buf) \in Nat /\ Len(net) \in Nat /\ Len(data) \in Nat /\ (net = <<>> <=> Len(net) = 0)
  BY SeqParts DEF Types
<1>2. head \in 0..Len(buf)
  BY <1>1 DEF Types, TypeOK
<1>3. Queue \in Seq(Byte(Len(sent))) /\ Len(Queue) = Len(buf) - head
  BY <1>2, Split DEF Types, Queue
<1> QED
  BY <1>1, <1>2, <1>3, SeqParts

\* Initially nothing has been sent.
LEMMA InitBase == Init => Base
<1> SUFFICES ASSUME Init PROVE Base
  OBVIOUS
<1>1. /\ sent = <<>> /\ net = <<>> /\ buf = <<>> /\ data = <<>> /\ handed = <<>>
      /\ Len(sent) = 0 /\ Len(buf) = 0
  BY DEF Init
<1>a. /\ 0 <= MaxFrames + 1 /\ 0 <= BufSize
      /\ \A i \in 2..0 : sent[i] \in Frames
  OBVIOUS
<1>b. pinged \in BOOLEAN /\ sock \in BOOLEAN /\ stop_flag \in BOOLEAN
  BY DEF Init
<1>2. TypeOK
  BY <1>1, <1>a, <1>b DEF Init, TypeOK
<1>3. Types
  BY <1>1, <1>2, EmptySeq DEF Init, Types
<1> QED
  BY <1>1, <1>3 DEF Init, Base, Control, LockInv

\* The browser asks.
LEMMA AskBase == ASSUME Base, Ask PROVE Base'
<1> USE DEF stream, input, sending
<1>1. PICK r \in Requests : sent' = <<r>> /\ net' = Bytes(1, r.head + r.body)
  BY DEF Ask
<1>2. Len(sent) = 0 /\ Len(sent') = 1 /\ sent'[1] = r
  BY <1>1 DEF Ask
<1>3. r.head + r.body \in Nat \ {0}
  OBVIOUS
<1>4. net' \in Seq(Byte(1))
  <2> DEFINE z == [m \in {1} |-> r.head + r.body]
  <2>1. z[1] = r.head + r.body
    OBVIOUS
  <2> HIDE DEF z
  <2>2. 1 \in 1..1 /\ 1 \in Nat
    OBVIOUS
  <2> QED
    BY <1>1, <1>3, <2>1, <2>2, BytesChain
<1>5. buf' \in Seq(Byte(1)) /\ data' \in Seq(Byte(1))
  BY <1>2, ByteGrows DEF Base, Types, Ask
<1>6. sent' \in Seq(Requests \cup Frames)
  BY <1>1
<1>7. Len(sent') <= MaxFrames + 1
  BY <1>2
<1>8. TypeOK'
  BY <1>2, <1>7 DEF Base, Types, Control, TypeOK, Ask
<1>9. Types'
  BY <1>2, <1>4, <1>5, <1>6, <1>8 DEF Base, Types, Control, Ask, Garbled
<1> QED
  BY <1>2, <1>9 DEF Base, Control, LockInv, Ask

\* The browser sends a frame.
LEMMA SendFrameBase == ASSUME Base, SendFrame PROVE Base'
<1> USE DEF stream, input, sending
<1>1. PICK f \in Frames :
        /\ sent' = Append(sent, f)
        /\ net' = net \o Bytes(Len(sent) + 1, HeaderSize(f.size) + f.size)
  BY DEF SendFrame
<1>2. /\ sent' \in Seq(Requests \cup Frames) /\ Len(sent') = Len(sent) + 1
      /\ \A i \in 1..Len(sent) : sent'[i] = sent[i]
      /\ sent'[Len(sent) + 1] = f
  BY <1>1, AppendProperties DEF Base, Types
<1>3. Len(sent) \in Nat \ {0}
  BY FrameAtType DEF Base, Control, SendFrame
<1>4. f.size \in Nat /\ HeaderSize(f.size) + f.size \in Nat \ {0}
  BY HeaderType
<1>5. Bytes(Len(sent) + 1, HeaderSize(f.size) + f.size) \in Seq(Byte(Len(sent')))
  <2> DEFINE z == [m \in {Len(sent) + 1} |-> HeaderSize(f.size) + f.size]
  <2>1. z[Len(sent) + 1] = HeaderSize(f.size) + f.size
    OBVIOUS
  <2> HIDE DEF z
  <2>2. Len(sent) + 1 \in 1..Len(sent') /\ Len(sent') \in Nat
    BY <1>2, <1>3
  <2> QED
    BY <1>4, <2>1, <2>2, BytesChain
<1>6. /\ buf' \in Seq(Byte(Len(sent'))) /\ data' \in Seq(Byte(Len(sent')))
      /\ net \in Seq(Byte(Len(sent')))
  BY <1>2, <1>3, ByteGrows DEF Base, Types, SendFrame
<1>7. net' \in Seq(Byte(Len(sent')))
  BY <1>1, <1>5, <1>6, ConcatProperties
<1>8. Len(sent') <= MaxFrames + 1
  BY <1>2, <1>3 DEF SendFrame
<1>9. sent'[1] \in Requests /\ \A i \in 2..Len(sent') : sent'[i] \in Frames
  <2>1. sent[1] \in Requests /\ \A i \in 2..Len(sent) : sent[i] \in Frames
    BY <1>3, FrameAtType DEF Base
  <2>2. \A i \in 2..Len(sent') : i \in 2..Len(sent) \/ i = Len(sent) + 1
    BY <1>2, <1>3
  <2> QED
    BY <1>2, <1>3, <2>1, <2>2
<1>10. TypeOK'
  <2>1. (pc \in {"ready", "open", "payload", "frame", "command", "pong", "echo"}
         => head = sent[1].head)'
    BY <1>2, <1>3 DEF Base, Types, TypeOK, SendFrame
  <2> QED
    BY <1>8, <1>9, <2>1 DEF Base, Types, TypeOK, SendFrame
<1>11. (pc \in {"payload", "frame"} => frame \in Byte(Len(sent)))'
  BY <1>2, <1>3 DEF Base, Types, Byte, SendFrame
<1>12. Types'
  BY <1>2, <1>6, <1>7, <1>10, <1>11 DEF Base, Types, SendFrame, Garbled
<1>13. sent' # <<>> /\ sent'[1] = sent[1]
  BY <1>2, <1>3
<1> QED
  BY <1>12, <1>13 DEF Base, Control, LockInv, SendFrame

\* What a pull takes from the socket, and what it leaves.
LEMMA PullParts ==
    ASSUME Types, NEW n \in Nat, Pull(n)
    PROVE /\ Arrived(n) \in Seq(Byte(Len(sent))) /\ Len(Arrived(n)) = n
          /\ net' \in Seq(Byte(Len(sent))) /\ Len(net') = Len(net) - n
          /\ \A s \in Seq(Byte(Len(sent))) :
               /\ s \o Arrived(n) \in Seq(Byte(Len(sent)))
               /\ Len(s \o Arrived(n)) = Len(s) + n
               /\ (s \o Arrived(n)) \o net' = s \o net
<1>1. n \in 0..Len(net)
  BY QueueType DEF Pull
<1>2. /\ Arrived(n) \in Seq(Byte(Len(sent))) /\ Len(Arrived(n)) = n
      /\ net' \in Seq(Byte(Len(sent))) /\ Len(net') = Len(net) - n
  BY <1>1, Split DEF Types, Pull, Arrived
<1>4. ASSUME NEW s \in Seq(Byte(Len(sent)))
      PROVE /\ s \o Arrived(n) \in Seq(Byte(Len(sent))) /\ Len(s \o Arrived(n)) = Len(s) + n
            /\ (s \o Arrived(n)) \o net' = s \o net
  <2>1. (s \o Arrived(n)) \o net' = s \o net
    BY <1>1, Shift DEF Types, Pull, Arrived
  <2> QED
    BY <1>2, <2>1, ConcatProperties
<1> QED
  BY <1>2, <1>4

\* The browser leaves.
LEMMA LeaveBase == ASSUME Base, Leave PROVE Base'
<1> USE DEF stream, input, sending, Leave
<1>1. PICK n \in 0..Len(net) : net' = SubSeq(net, 1, n)
  OBVIOUS
<1>2. net' \in Seq(Byte(Len(sent)))
  BY <1>1, Split DEF Base, Types
<1>3. TypeOK'
  BY DEF Base, Types, TypeOK
<1>4. Types'
  BY <1>2, <1>3 DEF Base, Types, Garbled
<1> QED
  BY <1>4 DEF Base, Control, LockInv

\* Bytes are added to the buffer, before the request is there and after the
\* upgrade.
LEMMA ReadAheadBase == ASSUME Base, ReadRequest \/ ReadAhead PROVE Base'
<1> USE DEF stream, input, sending
<1>1. PICK n \in 1..(BufSize - Len(buf)) : Pull(n) /\ buf' = buf \o Arrived(n)
  BY DEF ReadRequest, ReadAhead
<1>2. UNCHANGED <<sent, browser, head, frame, data, want, nread, pc, handed, answer,
                  sending, sock, stop_flag>>
  BY DEF ReadRequest, ReadAhead
<1>3. Len(buf) \in Nat /\ n \in Nat
  BY QueueType DEF Base
<1>4. /\ net' \in Seq(Byte(Len(sent))) /\ buf' \in Seq(Byte(Len(sent)))
      /\ Len(buf') = Len(buf) + n
  BY <1>1, <1>3, PullParts DEF Base, Types
<1>5. head' <= Len(buf') /\ Len(buf') <= BufSize
  <2>1. head \in Nat /\ head <= Len(buf) /\ BufSize \in Nat
    BY DEF Base, Types, TypeOK
  <2> QED
    BY <1>1, <1>2, <1>3, <1>4, <2>1
<1>6. TypeOK'
  BY <1>2, <1>5 DEF Base, Types, TypeOK
<1>7. Types'
  BY <1>2, <1>4, <1>6 DEF Base, Types, Garbled
<1> QED
  BY <1>2, <1>7 DEF Base, Control, LockInv

\* A request that is answered at once, or turned away, or upgraded.
LEMMA HandleBase ==
    ASSUME Base, BadRequest \/ RedirectToHttpsPort \/ HandleRequest \/ RefuseSocket \/ Upgrade
    PROVE Base'
<1> USE DEF stream, input, sending, BadRequest, RedirectToHttpsPort, HandleRequest, RefuseSocket,
            Upgrade, Handle, HeadIsThere
<1>1. UNCHANGED <<stream, buf, frame, data, want, nread, handed, sending, sock, stop_flag>>
  OBVIOUS
<1>2. /\ pc = "request" /\ sent # <<>> /\ head' = sent[1].head /\ Len(buf) >= sent[1].head
      /\ pc' \in {"closing", "ready"} /\ (pc' = "ready" <=> answer' = "upgraded")
      /\ answer' \in {"none", "error", "reply", "upgraded"}
      /\ pc' = "ready" => sent[1].op = "socket"
  BY DEF Base, Control
<1>3. Len(buf) \in Nat /\ head' \in Nat /\ head' <= Len(buf)
  BY <1>2, FrameAtType, QueueType DEF Base
<1>4. TypeOK'
  BY <1>1, <1>2, <1>3 DEF Base, Types, TypeOK
<1>5. Types'
  BY <1>1, <1>2, <1>3, <1>4 DEF Base, Types, Garbled
<1> QED
  BY <1>1, <1>2, <1>5 DEF Base, Control, LockInv

\* The worker goes on to close, from where it does not hold the lock.
LEMMA EndBase ==
    ASSUME Base, RequestFails \/ EndSocket \/ NoMemory \/ PayloadFails
    PROVE Base'
<1> USE DEF stream, input, sending, RequestFails, EndSocket, NoMemory, PayloadFails
<1>1. /\ UNCHANGED <<stream, buf, head, data, want, nread, handed, sending, sock, stop_flag>>
      /\ pc \notin {"pong", "echo"} /\ pc' = "closing"
      /\ answer' = answer \/ (answer = "none" /\ answer' = "error")
  <2>1. CASE RequestFails
    BY <2>1 DEF Base, Control
  <2>2. CASE EndSocket
    BY <2>2
  <2>3. CASE NoMemory
    BY <2>3
  <2>4. CASE PayloadFails
    BY <2>4
  <2> QED
    BY <2>1, <2>2, <2>3, <2>4
<1>2. frame' \in Nat \X Nat
  <2>1. CASE NoMemory
    <3>1. Queue[1] \in Byte(Len(sent))
      BY <2>1, QueueType, SeqParts DEF Base, HeaderIsThere
    <3> QED
      BY <2>1, <3>1 DEF Byte
  <2>2. CASE ~NoMemory
    BY <2>2 DEF Base, Types
  <2> QED
    BY <2>1, <2>2
<1>3. TypeOK'
  BY <1>1 DEF Base, Types, TypeOK
<1>4. Types'
  BY <1>1, <1>2, <1>3 DEF Base, Types, Garbled
<1> QED
  BY <1>1, <1>4 DEF Base, Control, LockInv

\* The body begins with what was read ahead of it.
LEMMA AheadType ==
    ASSUME Types, sent # <<>>, sent[1].head <= Len(buf)
    PROVE /\ SubSeq(buf, sent[1].head + 1, Len(buf)) \in Seq(Byte(Len(sent)))
          /\ Ahead \in Seq(Byte(Len(sent)))
          /\ Room \in Nat
          /\ Len(Ahead) \in Nat /\ (sent[1].length # 0 => Len(Ahead) <= Room)
<1> DEFINE q == SubSeq(buf, sent[1].head + 1, Len(buf))
           n == IF Len(q) < Room THEN Len(q) ELSE Room
<1>1. sent[1].head \in 0..Len(buf) /\ sent[1].length \in Nat
  BY FrameAtType, QueueType
<1>2. q \in Seq(Byte(Len(sent)))
  BY <1>1, Split DEF Types
<1>3. Room \in Nat
  BY <1>1 DEF Room
<1>4. Len(q) \in Nat
  BY <1>2, SeqParts
<1> HIDE DEF q
<1>5. n \in 0..Len(q) /\ n <= Room
  BY <1>3, <1>4
<1>6. SubSeq(q, 1, n) \in Seq(Byte(Len(sent))) /\ Len(SubSeq(q, 1, n)) = n
  BY <1>2, <1>5, Split
<1> HIDE DEF n
<1>7. Ahead = IF sent[1].length = 0 THEN <<>> ELSE SubSeq(q, 1, n)
  BY DEF Ahead, q, n
<1> QED
  BY <1>2, <1>3, <1>5, <1>6, <1>7, EmptySeq DEF q

\* mg_read begins.
LEMMA StartBodyBase == ASSUME Base, StartBody PROVE Base'
<1> USE DEF stream, input, sending, StartBody, Handle, HeadIsThere
<1>1. /\ pc = "request" /\ sent # <<>> /\ head' = sent[1].head /\ Len(buf) >= sent[1].head
      /\ pc' = "body" /\ answer = "none"
  BY DEF Base, Control
<1>2. /\ Len(buf) \in Nat /\ head' \in Nat /\ head' <= Len(buf)
      /\ sent[1].head <= Len(buf) /\ sent[1].length \in Nat
  BY <1>1, FrameAtType, QueueType DEF Base
<1>3. data' \in Seq(Byte(Len(sent))) /\ nread' \in Nat /\ want' \in Nat
  BY <1>1, <1>2, AheadType DEF Base
<1>4. TypeOK'
  BY <1>1, <1>2, <1>3 DEF Base, Types, TypeOK
<1>5. Types'
  BY <1>1, <1>2, <1>3, <1>4 DEF Base, Types, Garbled
<1> QED
  BY <1>1, <1>5 DEF Base, Control, LockInv

\* More of the body, or of a payload, arrives.
LEMMA ReadMoreBase == ASSUME Base, ReadBody \/ ReadPayload PROVE Base'
<1> USE DEF stream, input, sending
<1>1. PICK n \in 1..want : Pull(n) /\ data' = data \o Arrived(n) /\ want' = want - n
  BY DEF ReadBody, ReadPayload
<1>2. /\ UNCHANGED <<sent, browser, buf, head, frame, nread, handed, answer, sending, sock, stop_flag>>
      /\ \/ pc = "body" /\ pc' = pc
         \/ pc = "payload" /\ pc' \in {"payload", "frame"}
  BY DEF ReadBody, ReadPayload
<1>3. want \in Nat /\ n \in Nat /\ want' \in Nat
  BY <1>1 DEF Base, Types, TypeOK
<1>4. net' \in Seq(Byte(Len(sent))) /\ data' \in Seq(Byte(Len(sent)))
  BY <1>1, <1>3, PullParts DEF Base, Types
<1>5. TypeOK'
  BY <1>2, <1>3 DEF Base, Types, TypeOK
<1>6. Types'
  BY <1>2, <1>4, <1>5 DEF Base, Types, Garbled
<1> QED
  BY <1>2, <1>6 DEF Base, Control, LockInv

\* mg_read returns.
LEMMA EndBodyBase == ASSUME Base, EndBody PROVE Base'
<1> USE DEF stream, input, sending, EndBody
<1>1. nread' \in Nat \cup {-1}
  BY QueueType DEF Base, Types, TypeOK
<1>2. TypeOK'
  BY <1>1 DEF Base, Types, TypeOK
<1>3. Types'
  BY <1>2 DEF Base, Types, Garbled
<1> QED
  BY <1>3 DEF Base, Control, LockInv

\* What the worker takes off the queue: the header h and n bytes of payload.
LEMMA TakeParts ==
    ASSUME Base, TakeFrame
    PROVE \E h \in 6..14, n \in Nat :
            /\ frame' = Queue[1] /\ frame' \in Byte(Len(sent))
            /\ h = HeaderSize(FrameAt(Queue[1]).size) /\ h + n <= Len(Queue)
            /\ data' \in Seq(Byte(Len(sent))) /\ Len(data') = n
            /\ \A i \in 1..n : data'[i] = Queue[h + i]
            /\ n <= FrameAt(Queue[1]).size /\ want' = FrameAt(Queue[1]).size - n
            /\ want' \in Nat /\ (want' > 0 => h + n = Len(Queue))
            /\ buf' \in Seq(Byte(Len(sent))) /\ head <= Len(buf') /\ Len(buf') <= Len(buf)
            /\ Queue' = SubSeq(Queue, h + n + 1, Len(Queue))
<1> USE DEF stream, input, sending
<1> DEFINE size   == FrameAt(Queue[1]).size
           header == HeaderSize(size)
           there  == Len(Queue) - header
           n      == IF there < size THEN there ELSE size
<1>0. /\ Queue # <<>> /\ Len(Queue) >= header /\ head' = head /\ sent' = sent
      /\ frame' = Queue[1] /\ want' = size - n
      /\ data' = SubSeq(Queue, header + 1, header + n)
      /\ buf' = SubSeq(buf, 1, head) \o SubSeq(Queue, header + n + 1, Len(Queue))
  BY DEF TakeFrame, HeaderIsThere
<1>1. /\ Queue \in Seq(Byte(Len(sent))) /\ Len(Queue) \in Nat /\ Len(Queue) = Len(buf) - head
      /\ head \in 0..Len(buf) /\ Len(buf) \in Nat /\ Queue[1] \in Byte(Len(sent))
  BY <1>0, QueueType, SeqParts DEF Base
<1>2. size \in Nat /\ header \in 6..14
  BY <1>1, FrameAtType, HeaderType DEF Base
<1> HIDE DEF size, header
<1>3. n \in Nat /\ header + n <= Len(Queue) /\ n <= size /\ (n < size => header + n = Len(Queue))
  BY <1>0, <1>1, <1>2
<1> HIDE DEF n
<1>4. /\ data' \in Seq(Byte(Len(sent))) /\ Len(data') = n
      /\ \A i \in 1..n : data'[i] = Queue[header + i]
  BY <1>0, <1>1, <1>2, <1>3, Middle
<1>5. /\ SubSeq(Queue, header + n + 1, Len(Queue)) \in Seq(Byte(Len(sent)))
      /\ Len(SubSeq(Queue, header + n + 1, Len(Queue))) = Len(Queue) - (header + n)
  <2>1. header + n \in 0..Len(Queue)
    BY <1>1, <1>2, <1>3
  <2> QED
    BY <1>1, <2>1, Split, SMTT(40)
<1>6. /\ buf' \in Seq(Byte(Len(sent))) /\ Len(buf') = head + (Len(Queue) - (header + n))
      /\ SubSeq(buf', head + 1, Len(buf')) = SubSeq(Queue, header + n + 1, Len(Queue))
  <2> DEFINE rest == SubSeq(Queue, header + n + 1, Len(Queue))
  <2>1. buf \in Seq(Byte(Len(sent))) /\ rest \in Seq(Byte(Len(sent)))
    BY <1>5 DEF Base, Types
  <2>2. buf' = SubSeq(buf, 1, head) \o rest /\ Len(rest) = Len(Queue) - (header + n)
    BY <1>0, <1>5
  <2> HIDE DEF rest
  <2>3. /\ buf' \in Seq(Byte(Len(sent))) /\ Len(buf') = head + Len(rest)
        /\ SubSeq(buf', head + 1, Len(buf')) = rest
    <3>1. head \in 0..Len(buf)
      BY <1>1
    <3>2. /\ PutBehind(buf, head, rest) \in Seq(Byte(Len(sent)))
          /\ Len(PutBehind(buf, head, rest)) = head + Len(rest)
          /\ Back(PutBehind(buf, head, rest), head) = rest
      BY <2>1, <3>1, Behind
    <3>3. buf' = PutBehind(buf, head, rest)
      BY <2>2 DEF PutBehind
    <3> QED
      BY <3>2, <3>3, Zenon DEF Back
  <2> QED
    BY <2>2, <2>3 DEF rest
<1>7. head <= Len(buf') /\ Len(buf') <= Len(buf)
  BY <1>1, <1>2, <1>3, <1>6
<1>8. Queue' = SubSeq(Queue, header + n + 1, Len(Queue))
  BY <1>0, <1>6 DEF Queue
<1>9. want' \in Nat /\ (want' > 0 => header + n = Len(Queue))
  BY <1>0, <1>2, <1>3
<1> QED
  BY <1>0, <1>1, <1>2, <1>3, <1>4, <1>6, <1>7, <1>8, <1>9 DEF size, header

\* A frame is cut off the queue.
LEMMA TakeFrameBase == ASSUME Base, TakeFrame PROVE Base'
<1> USE DEF stream, input, sending
<1>1. /\ frame' \in Byte(Len(sent)) /\ data' \in Seq(Byte(Len(sent)))
      /\ buf' \in Seq(Byte(Len(sent))) /\ head <= Len(buf') /\ Len(buf') <= Len(buf)
      /\ want' \in Nat
  BY TakeParts
<1>2. /\ UNCHANGED <<stream, head, nread, handed, answer, sending, sock, stop_flag>>
      /\ pc = "open" /\ pc' \in {"frame", "payload"}
  BY DEF TakeFrame
<1>3. Len(buf') <= BufSize
  <2>1. Len(buf) <= BufSize /\ BufSize \in Nat /\ Len(buf') \in Nat /\ Len(buf) \in Nat
    BY <1>1, QueueType, SeqParts DEF Base, Types, TypeOK
  <2> QED
    BY <1>1, <2>1
<1>4. TypeOK'
  BY <1>1, <1>2, <1>3 DEF Base, Types, TypeOK
<1>5. frame' \in Nat \X Nat
  BY <1>1 DEF Byte
<1>6. Types'
  BY <1>1, <1>2, <1>4, <1>5 DEF Base, Types, Garbled
<1> QED
  BY <1>2, <1>6 DEF Base, Control, LockInv

\* A frame is handed on.
LEMMA HandOnBase == ASSUME Base, HandOn PROVE Base'
<1> USE DEF stream, input, sending
<1>1. UNCHANGED <<stream, input, answer, sending, sock, stop_flag>> /\ pc = "frame"
  BY DEF HandOn
<1>2. pc' \in {"open", "command", "pong", "echo", "closing"}
  BY DEF HandOn
<1>3. frame \in Byte(Len(sent)) /\ handed \in Seq(Frames \cup {Garbled})
  BY <1>1 DEF Base, Types
<1>4. FrameAt(frame) \in Frames \cup {Garbled}
  BY <1>3, FrameAtType DEF Base
<1>5. handed' \in Seq(Frames \cup {Garbled})
  BY <1>3, <1>4, AppendProperties DEF HandOn
<1>6. TypeOK'
  BY <1>1, <1>2 DEF Base, Types, TypeOK
<1>7. Types'
  BY <1>1, <1>2, <1>5, <1>6 DEF Base, Types, Garbled
<1> QED
  BY <1>1, <1>2, <1>7 DEF Base, Control, LockInv

\* The threads of the session and the worker write their frames.
LEMMA WriteBase ==
    ASSUME Base, NEW w \in Writers \cup {Worker}, WriteHeader(w) \/ WritePayload(w)
    PROVE Base'
<1> USE DEF stream, input, sending
<1>1. UNCHANGED <<stream, input, handed, answer, pinged, sock, stop_flag>>
  BY DEF WriteHeader, WritePayload
<1>2. /\ mutex' \in Writers \cup {Worker, Nobody} /\ wire' \in Writers \cup {Worker, Nobody}
      /\ pc' = pc \/ (pc = "pong" /\ pc' = "open") \/ (pc = "echo" /\ pc' = "closing")
  BY DEF Base, Types, TypeOK, WriteHeader, WritePayload
<1>3. LockInv'
  <2>1. CASE WriteHeader(w)
    BY <2>1 DEF Base, LockInv, WriteHeader, MayWrite
  <2>2. CASE WritePayload(w)
    BY <2>2 DEF Base, LockInv, WritePayload
  <2> QED
    BY <2>1, <2>2
<1>4. TypeOK'
  BY <1>1, <1>2 DEF Base, Types, TypeOK
<1>5. Types'
  BY <1>1, <1>2, <1>4 DEF Base, Types, Garbled
<1>6. Control'
  BY <1>1, <1>2 DEF Base, Control
<1> QED
  BY <1>3, <1>5, <1>6 DEF Base

\* A handler returns; the PINGs end.
LEMMA HandlerBase ==
    ASSUME Base, ReadyReturns \/ CommandReturns \/ PingsEnd PROVE Base'
<1> USE DEF stream, input, sending, ReadyReturns, CommandReturns, PingsEnd
<1>1. /\ UNCHANGED <<stream, input, handed, answer, mutex, wire, sock, stop_flag>>
      /\ pinged' \in BOOLEAN
      /\ pc' = pc \/ (pc \in {"ready", "command"} /\ pc' = "open")
  BY DEF Base, Types, TypeOK
<1>2. TypeOK'
  BY <1>1 DEF Base, Types, TypeOK
<1>3. Types'
  BY <1>1, <1>2 DEF Base, Types, Garbled
<1> QED
  BY <1>1, <1>3 DEF Base, Control, LockInv

\* The socket is closed, under the lock; the server stops; nothing happens.
LEMMA StopBase ==
    ASSUME Base, CloseConnection \/ Stop \/ UNCHANGED vars PROVE Base'
<1> USE DEF stream, input, sending, vars
<1>1. UNCHANGED <<stream, input, handed, answer, sending>>
  BY DEF CloseConnection, Stop
<1>2. /\ pc' = pc \/ (pc = "closing" /\ pc' = "done")
      /\ sock' = sock \/ (sock' = FALSE /\ mutex = Nobody)
  BY DEF CloseConnection, Stop
<1>3. sock' \in BOOLEAN /\ stop_flag' \in BOOLEAN
  BY DEF Base, Types, TypeOK, CloseConnection, Stop
<1>4. TypeOK'
  BY <1>1, <1>2, <1>3 DEF Base, Types, TypeOK
<1>5. Types'
  BY <1>1, <1>2, <1>4 DEF Base, Types, Garbled
<1>6. Control'
  BY <1>1, <1>2 DEF Base, Control
<1>7. LockInv'
  BY <1>1, <1>2 DEF Base, LockInv
<1> QED
  BY <1>5, <1>6, <1>7 DEF Base

\* Every step keeps types, control and lock.
LEMMA NextBase == Base /\ [Next]_vars => Base'
<1> SUFFICES ASSUME Base, [Next]_vars PROVE Base'
  OBVIOUS
<1>1. CASE Ask \/ SendFrame \/ Leave
  BY <1>1, AskBase, SendFrameBase, LeaveBase
<1>2. CASE Stop \/ CloseConnection \/ UNCHANGED vars
  BY <1>2, StopBase
<1>3. CASE Serve
  BY <1>3, ReadAheadBase, HandleBase, EndBase, StartBodyBase, ReadMoreBase, EndBodyBase,
     TakeFrameBase, HandOnBase DEF Serve
<1>4. CASE \E w \in Writers \cup {Worker} : WriteHeader(w) \/ WritePayload(w)
  BY <1>4, WriteBase
<1>5. CASE ReadyReturns \/ CommandReturns \/ PingsEnd
  BY <1>5, HandlerBase
<1> QED
  BY <1>1, <1>2, <1>3, <1>4, <1>5 DEF Next

\* Base holds in every state.
THEOREM BaseInvariance == Spec => []Base
BY InitBase, NextBase, PTL DEF Spec

\* Every variable has its type in every state: the buffer is never overrun
\* and the head of the request stays in it, whatever is read ahead or cut.
THEOREM TypeCorrect == Spec => []TypeOK
<1>1. Base => TypeOK
  BY DEF Base, Types
<1> QED
  BY <1>1, BaseInvariance, PTL

\* What the server writes on a websocket is whole frames, whoever writes when
\* (mg_websocket_write under the lock of the connection, mg_close_connection).
THEOREM FramesAreWholeTheorem == Spec => FramesAreWhole
<1>1. ASSUME Base, [Next]_vars, wire # Nobody
      PROVE \/ wire' = wire /\ sock' = sock
            \/ wire' = Nobody /\ mutex = wire /\ sock
  <2> USE <1>1 DEF stream, input, sending, vars
  <2>1. wire = mutex /\ sock /\ mutex # Nobody
    BY DEF Base, LockInv
  <2>2. CASE Ask \/ SendFrame \/ Leave \/ Stop \/ CloseConnection \/ UNCHANGED vars
    BY <2>1, <2>2 DEF Ask, SendFrame, Leave, Stop, CloseConnection
  <2>3. CASE Serve
    BY <2>3 DEF Serve, ReadRequest, RequestFails, BadRequest, RedirectToHttpsPort,
       HandleRequest, StartBody, ReadBody, EndBody, RefuseSocket, Upgrade, ReadAhead,
       EndSocket, TakeFrame, NoMemory, ReadPayload, PayloadFails, HandOn
  <2>4. CASE \E w \in Writers \cup {Worker} : WriteHeader(w) \/ WritePayload(w)
    BY <2>1, <2>4 DEF WriteHeader, WritePayload
  <2>5. CASE ReadyReturns \/ CommandReturns \/ PingsEnd
    BY <2>5 DEF ReadyReturns, CommandReturns, PingsEnd
  <2> QED
    BY <2>2, <2>3, <2>4, <2>5 DEF Next
<1>2. Base /\ [Next]_vars
        => [wire # Nobody => \/ wire' = wire /\ sock' = sock
                             \/ wire' = Nobody /\ mutex = wire /\ sock]_vars
  BY <1>1
<1> QED
  BY <1>2, BaseInvariance, PTL DEF Spec, FramesAreWhole
-----------------------------------------------------------------------------
(* Where the worker stands in the stream.                                  *)

FrameInv == StreamInv /\ CloseInv

\* Nothing of a stream without messages.
LEMMA NoBytes == ASSUME NEW s \in Seq(Byte(0)) PROVE s = <<>>
<1>1. Len(s) \in Nat /\ (s = <<>> <=> Len(s) = 0) /\ \A i \in 1..Len(s) : s[i] \in Byte(0)
  BY SeqParts
<1>2. Byte(0) = {}
  BY DEF Byte
<1> QED
  BY <1>1, <1>2

\* The back of two sequences in a row, from a place in the first.
LEMMA BackOfConcat ==
    ASSUME NEW S, NEW s \in Seq(S), NEW t \in Seq(S), NEW n \in 0..Len(s)
    PROVE /\ SubSeq(s \o t, n + 1, Len(s \o t)) = SubSeq(s, n + 1, Len(s)) \o t
          /\ s \o t \in Seq(S) /\ Len(s \o t) = Len(s) + Len(t)
          /\ \A i \in 1..Len(s) : (s \o t)[i] = s[i]
<1>1. /\ s \o t \in Seq(S) /\ Len(s \o t) = Len(s) + Len(t)
      /\ \A i \in 1..(Len(s) + Len(t)) : (s \o t)[i] = IF i <= Len(s) THEN s[i] ELSE t[i - Len(s)]
  BY ConcatProperties
<1>2. Len(s) \in Nat /\ Len(t) \in Nat
  BY SeqParts
<1> DEFINE u == SubSeq(s \o t, n + 1, Len(s \o t))
           v == SubSeq(s, n + 1, Len(s))
<1>3. /\ u \in Seq(S) /\ Len(u) = (Len(s) + Len(t)) - n
      /\ \A i \in 1..((Len(s) + Len(t)) - n) : u[i] = (s \o t)[n + i]
  <2>1. n \in 0..Len(s \o t)
    BY <1>1, <1>2
  <2> QED
    BY <1>1, <2>1, Split, SMTT(40)
<1>4. v \in Seq(S) /\ Len(v) = Len(s) - n /\ \A i \in 1..(Len(s) - n) : v[i] = s[n + i]
  BY Split
<1> HIDE DEF u, v
<1>5. /\ v \o t \in Seq(S) /\ Len(v \o t) = Len(v) + Len(t)
      /\ \A i \in 1..(Len(v) + Len(t)) : (v \o t)[i] = IF i <= Len(v) THEN v[i] ELSE t[i - Len(v)]
  BY <1>4, ConcatProperties
<1>6. Len(u) = Len(v \o t)
  BY <1>2, <1>3, <1>4, <1>5
<1>7. ASSUME NEW i \in 1..Len(u) PROVE u[i] = (v \o t)[i]
  <2>1. u[i] = (s \o t)[n + i] /\ n + i \in 1..(Len(s) + Len(t)) /\ i \in 1..(Len(v) + Len(t))
    BY <1>2, <1>3, <1>4
  <2>2. CASE i <= Len(v)
    <3>1. n + i <= Len(s) /\ i \in 1..(Len(s) - n)
      BY <1>2, <1>4, <2>2
    <3> QED
      BY <1>1, <1>4, <1>5, <2>1, <2>2, <3>1
  <2>3. CASE ~(i <= Len(v))
    <3>1. ~(n + i <= Len(s)) /\ (n + i) - Len(s) = i - Len(v)
      BY <1>2, <1>4, <2>1, <2>3
    <3> QED
      BY <1>1, <1>5, <2>1, <2>3, <3>1
  <2> QED
    BY <2>2, <2>3
<1>8. u = v \o t
  BY <1>3, <1>5, <1>6, <1>7, SeqEqual
<1>9. \A i \in 1..Len(s) : (s \o t)[i] = s[i]
  BY <1>1, <1>2
<1> QED
  BY <1>1, <1>8, <1>9 DEF u, v

\* The same, of what lies behind.
LEMMA BackConcat ==
    ASSUME NEW S, NEW s \in Seq(S), NEW t \in Seq(S), NEW n \in 0..Len(s)
    PROVE /\ Back(s \o t, n) = Back(s, n) \o t
          /\ s \o t \in Seq(S) /\ Len(s \o t) = Len(s) + Len(t)
BY BackOfConcat, ZenonT(40) DEF Back

\* A piece whose end is lost.
LEMMA ChainCut ==
    ASSUME NEW S, NEW s \in Seq(S), NEW t \in Seq(S), NEW n \in 0..Len(t), NEW z, NEW b,
           Chain(z, s \o t, b)
    PROVE Chain(z, s \o SubSeq(t, 1, n), b)
<1> DEFINE a == SubSeq(t, 1, n)
<1>1. a \in Seq(S) /\ Len(a) = n /\ \A i \in 1..n : a[i] = t[i]
  BY Split
<1> HIDE DEF a
<1>2. Len(s) \in Nat /\ Len(t) \in Nat /\ n \in Nat
  BY SeqParts
<1>3. /\ s \o t \in Seq(S) /\ Len(s \o t) = Len(s) + Len(t)
      /\ \A i \in 1..(Len(s) + Len(t)) : (s \o t)[i] = IF i <= Len(s) THEN s[i] ELSE t[i - Len(s)]
  BY ConcatProperties
<1>4. /\ s \o a \in Seq(S) /\ Len(s \o a) = Len(s) + n
      /\ \A i \in 1..(Len(s) + n) : (s \o a)[i] = IF i <= Len(s) THEN s[i] ELSE a[i - Len(s)]
  BY <1>1, ConcatProperties, ZenonT(40)
<1>5. ASSUME NEW i \in 1..(Len(s) + n) PROVE (s \o a)[i] = (s \o t)[i]
  BY <1>1, <1>2, <1>3, <1>4
<1>6. s \o t = <<>> => s \o a = <<>>
  BY <1>2, <1>3, <1>4, SeqParts
<1>7. ASSUME s \o a # <<>> PROVE (s \o a)[1] = b
  <2>1. 1 \in 1..(Len(s) + n)
    BY <1>2, <1>4, <1>7, SeqParts
  <2> QED
    BY <1>5, <1>6, <1>7, <2>1 DEF Chain
<1>8. ASSUME NEW i \in 1..(Len(s \o a) - 1) PROVE (s \o a)[i + 1] = Succ(z, (s \o a)[i])
  <2>1. i \in 1..(Len(s) + n) /\ i + 1 \in 1..(Len(s) + n) /\ i \in 1..(Len(s \o t) - 1)
    BY <1>2, <1>3, <1>4
  <2> QED
    BY <1>5, <2>1 DEF Chain
<1> QED
  BY <1>7, <1>8 DEF Chain, a

\* What is left behind the first n bytes.
LEMMA RestBack ==
    ASSUME NEW S, NEW s \in Seq(S), NEW n \in 1..Len(s), NEW x, NEW whole, NEW b,
           Rest(x, whole, s, b)
    PROVE Rest(x, whole, SubSeq(s, n + 1, Len(s)), Succ(SizesOf(x), s[n]))
BY ChainBack DEF Rest

\* What is left when another frame follows.
LEMMA RestGrows ==
    ASSUME NEW S, NEW x \in Seq(S), Len(x) # 0, NEW f \in S, NEW k \in Nat, f.size = k,
           NEW s \in Seq(Byte(Len(x))), NEW b, Rest(x, TRUE, s, b)
    PROVE Rest(Append(x, f), TRUE, s \o Bytes(Len(x) + 1, HeaderSize(k) + k), b)
<1> DEFINE N == Len(x)
           n == HeaderSize(k) + k
           y == Append(x, f)
           z == SizesOf(x)
           w == SizesOf(y)
<1>1. /\ y \in Seq(S) /\ Len(y) = N + 1 /\ y[N + 1] = f /\ N \in Nat \ {0}
      /\ \A i \in 1..N : y[i] = x[i]
  BY AppendProperties, SeqParts
<1>2. n \in Nat \ {0}
  <2>1. HeaderSize(k) \in 6..14
    BY HeaderType
  <2> HIDE DEF N, y, z, w
  <2> QED
    BY <2>1, SMTT(20)
<1>3. \A m \in 1..N : w[m] = z[m]
  BY <1>1 DEF SizesOf
<1>4. w[N + 1] = n
  BY <1>1 DEF SizesOf
<1>5. Chain(z, s, b) /\ End(z, s, b) = <<N + 1, 1>>
  BY DEF Rest
<1>a. N \in Nat /\ s \in Seq(Byte(N))
  BY <1>1
<1> HIDE DEF N, n, y, z, w
<1>6. Chain(w, s, b) /\ End(w, s, b) = <<N + 1, 1>>
  <2>1. Agree(w, z, N)
    BY <1>3 DEF Agree
  <2>2. Chain(w, s, b) /\ End(w, s, b) = End(z, s, b)
    BY <1>a, <1>5, <2>1, ChainGrows
  <2> QED
    BY <1>5, <2>2
<1>7. /\ Bytes(N + 1, n) \in Seq(Byte(N + 1))
      /\ Chain(w, Bytes(N + 1, n), <<N + 1, 1>>)
      /\ End(w, Bytes(N + 1, n), <<N + 1, 1>>) = <<(N + 1) + 1, 1>>
  <2>1. N + 1 \in Nat /\ N + 1 \in 1..(N + 1)
    BY <1>1
  <2> QED
    BY <1>2, <1>4, <2>1, BytesChain
<1>8. s \in Seq(Byte(N + 1))
  BY <1>a, ByteGrows
<1>9. /\ Chain(w, s \o Bytes(N + 1, n), b)
      /\ End(w, s \o Bytes(N + 1, n), b) = <<(N + 1) + 1, 1>>
  <2>1. Chain(w, Bytes(N + 1, n), End(w, s, b))
    BY <1>6, <1>7
  <2>2. \A t \in Seq(Byte(N + 1)) :
          Chain(w, t, End(w, s, b)) => /\ Chain(w, s \o t, b)
                                       /\ End(w, s \o t, b) = End(w, t, End(w, s, b))
    BY <1>6, <1>8, ChainConcat, SMTT(40)
  <2> QED
    BY <1>6, <1>7, <2>1, <2>2, Zenon
<1> QED
  BY <1>1, <1>9 DEF Rest, N, n, y, w

\* Initially there is no stream.
LEMMA InitFrames == Init => FrameInv
BY DEF Init, FrameInv, StreamInv, CloseInv

\* The request is the whole stream.
LEMMA AskFrames == ASSUME Base, FrameInv, Ask PROVE FrameInv'
<1> USE DEF stream, input, sending
<1>1. PICK r \in Requests : sent' = <<r>> /\ net' = Bytes(1, r.head + r.body)
  BY DEF Ask
<1>2. Len(sent) = 0 /\ Len(sent') = 1 /\ sent'[1] = r
  BY <1>1 DEF Ask
<1>3. /\ UNCHANGED <<input, pc, handed, answer>>
      /\ pc \notin {"ready", "open", "payload", "frame", "command", "pong", "echo"}
  BY <1>2 DEF Ask, Base, Control
<1>4. ASSUME pc = "request" PROVE Rest(sent', browser' = "here", buf' \o net', <<1, 1>>)
  <2> DEFINE n == r.head + r.body
             z == SizesOf(sent')
  <2>1. n \in Nat \ {0}
    OBVIOUS
  <2>2. z[1] = n
    BY <1>2 DEF SizesOf
  <2> HIDE DEF n, z
  <2>3. /\ net' \in Seq(Byte(1)) /\ Chain(z, net', <<1, 1>>)
        /\ End(z, net', <<1, 1>>) = <<1 + 1, 1>>
    <3>1. 1 \in Nat /\ 1 \in 1..1
      OBVIOUS
    <3> QED
      BY <1>1, <2>1, <2>2, <3>1, BytesChain DEF n
  <2>4. buf' = <<>>
    BY <1>2, <1>3, NoBytes DEF Base, Types
  <2>5. buf' \o net' = net'
    BY <2>3, <2>4, ConcatEmptySeq
  <2> QED
    BY <1>2, <2>3, <2>5 DEF Rest, z
<1>5. StreamInv'
  BY <1>3, <1>4 DEF StreamInv
<1>6. CloseInv'
  BY <1>2, <1>3 DEF FrameInv, CloseInv
<1> QED
  BY <1>5, <1>6 DEF FrameInv

\* A frame follows what is left.
LEMMA SendFrameFrames == ASSUME Base, FrameInv, SendFrame PROVE FrameInv'
<1> USE DEF stream, input, sending
<1>1. PICK f \in Frames :
        /\ sent' = Append(sent, f)
        /\ net' = net \o Bytes(Len(sent) + 1, HeaderSize(f.size) + f.size)
  BY DEF SendFrame
<1> DEFINE more == Bytes(Len(sent) + 1, HeaderSize(f.size) + f.size)
<1>2. /\ Len(sent') = Len(sent) + 1 /\ \A i \in 1..Len(sent) : sent'[i] = sent[i]
      /\ Len(sent) \in Nat \ {0} /\ sent \in Seq(Requests \cup Frames)
  BY <1>1, AppendProperties, FrameAtType DEF Base, Types, Control, SendFrame
<1>3. /\ UNCHANGED <<browser, input, pc, handed, answer>> /\ browser = "here"
      /\ answer = "upgraded" /\ pc # "request" /\ sent[Len(sent)].op # "close"
  BY DEF SendFrame, Base, Control
<1>4. more \in Seq(Byte(Len(sent')))
  <2>1. f.size \in Nat
    OBVIOUS
  <2>2. HeaderSize(f.size) + f.size \in Nat \ {0}
    BY <2>1, HeaderType
  <2> DEFINE z == [m \in {Len(sent) + 1} |-> HeaderSize(f.size) + f.size]
  <2>3. z[Len(sent) + 1] = HeaderSize(f.size) + f.size
    OBVIOUS
  <2> HIDE DEF z
  <2>4. Len(sent) + 1 \in 1..Len(sent') /\ Len(sent') \in Nat
    BY <1>2
  <2> QED
    BY <2>2, <2>3, <2>4, BytesChain
<1>5. ASSUME NEW s \in Seq(Byte(Len(sent))), NEW b, Rest(sent, browser = "here", s, b)
      PROVE Rest(sent', browser' = "here", s \o more, b)
  <2>1. Rest(sent, TRUE, s, b)
    BY <1>3, <1>5 DEF Rest
  <2>2. f \in Requests \cup Frames /\ f.size \in Nat
    OBVIOUS
  <2>3. Rest(Append(sent, f), TRUE, s \o more, b)
    BY <1>2, <2>1, <2>2, RestGrows
  <2> QED
    BY <1>1, <2>3 DEF Rest
<1> HIDE DEF more
<1>6. Queue' = Queue /\ Queue \in Seq(Byte(Len(sent))) /\ net \in Seq(Byte(Len(sent)))
  BY <1>3, QueueType DEF Base, Types, Queue
<1>7. /\ net' = net \o more
      /\ Queue \o net \in Seq(Byte(Len(sent))) /\ Queue' \o net' = (Queue \o net) \o more
  <2>1. net' = net \o more
    BY <1>1 DEF more
  <2>2. Queue \in Seq(Byte(Len(sent'))) /\ net \in Seq(Byte(Len(sent')))
    BY <1>2, <1>6, ByteGrows
  <2>3. (Queue \o net) \o more = Queue \o (net \o more)
    BY <1>4, <2>2, ConcatAssociative, SMTT(40)
  <2> QED
    BY <1>6, <2>1, <2>3, ConcatProperties
<1>8. pc \in {"payload", "frame"} => Size' = Size
  BY <1>2, <1>3 DEF Size, FrameAt, Base, Types, Byte
<1>9. (pc \in {"ready", "open", "command", "pong"}
         => Rest(sent, browser = "here", Queue \o net, <<Len(handed) + 2, 1>>))'
  BY <1>3, <1>5, <1>7 DEF FrameInv, StreamInv
<1>10. (pc \in {"payload", "frame"} =>
         /\ frame = <<Len(handed) + 2, 1>>
         /\ \A i \in 1..Len(data) : data[i] = <<frame[1], HeaderSize(Size) + i>>
         /\ Len(data) + want = Size)'
  BY <1>3, <1>8 DEF FrameInv, StreamInv
<1>11. (pc = "payload" =>
         /\ want > 0 /\ Queue = <<>>
         /\ Rest(sent, browser = "here", net, <<frame[1], HeaderSize(Size) + Len(data) + 1>>))'
  BY <1>3, <1>5, <1>6, <1>7, <1>8 DEF FrameInv, StreamInv
<1>12. (pc = "frame" => want = 0 /\ Rest(sent, browser = "here", Queue \o net, <<frame[1] + 1, 1>>))'
  BY <1>3, <1>5, <1>7 DEF FrameInv, StreamInv
<1>13. StreamInv'
  BY <1>3, <1>9, <1>10, <1>11, <1>12 DEF StreamInv
<1>14. CloseInv'
  <2>1. ASSUME NEW i \in 2..(Len(sent') - 1) PROVE sent'[i].op # "close"
    <3>1. i \in 2..(Len(sent) - 1) \/ i = Len(sent)
      BY <1>2
    <3> QED
      BY <1>2, <1>3, <3>1 DEF FrameInv, CloseInv
  <2> QED
    BY <1>3, <2>1 DEF FrameInv, CloseInv
<1> QED
  BY <1>13, <1>14 DEF FrameInv

\* The end of what is left is lost.
LEMMA LeaveFrames == ASSUME Base, FrameInv, Leave PROVE FrameInv'
<1> USE DEF stream, input, sending
<1>1. PICK n \in 0..Len(net) : net' = SubSeq(net, 1, n)
  BY DEF Leave
<1>2. UNCHANGED <<sent, input, pc, handed, answer>> /\ browser' # "here"
  BY DEF Leave
<1>3. /\ buf \in Seq(Byte(Len(sent))) /\ net \in Seq(Byte(Len(sent)))
      /\ Queue \in Seq(Byte(Len(sent))) /\ Queue' = Queue /\ Size' = Size
  BY <1>2, QueueType DEF Base, Types, Queue, Size, FrameAt
<1>4. ASSUME NEW s \in Seq(Byte(Len(sent))), NEW b, Rest(sent, browser = "here", s \o net, b)
      PROVE Rest(sent', browser' = "here", s \o net', b)
  <2>1. Chain(SizesOf(sent), s \o net, b)
    BY <1>4 DEF Rest
  <2>2. Chain(SizesOf(sent), s \o net', b)
    BY <1>1, <1>3, <2>1, ChainCut
  <2> QED
    BY <1>2, <2>2 DEF Rest
<1>5. ASSUME NEW b, Rest(sent, browser = "here", net, b)
      PROVE Rest(sent', browser' = "here", net', b)
  <2>1. Chain(SizesOf(sent), net', b)
    BY <1>1, <1>3, <1>5, ChainFront DEF Rest
  <2> QED
    BY <1>2, <2>1 DEF Rest
<1>6. (pc = "request" /\ sent # <<>> => Rest(sent, browser = "here", buf \o net, <<1, 1>>))'
  BY <1>2, <1>3, <1>4 DEF FrameInv, StreamInv
<1>7. (pc \in {"ready", "open", "command", "pong"}
         => Rest(sent, browser = "here", Queue \o net, <<Len(handed) + 2, 1>>))'
  BY <1>2, <1>3, <1>4 DEF FrameInv, StreamInv
<1>8. (pc = "payload" =>
         /\ want > 0 /\ Queue = <<>>
         /\ Rest(sent, browser = "here", net, <<frame[1], HeaderSize(Size) + Len(data) + 1>>))'
  BY <1>2, <1>3, <1>5 DEF FrameInv, StreamInv
<1>9. (pc = "frame" => want = 0 /\ Rest(sent, browser = "here", Queue \o net, <<frame[1] + 1, 1>>))'
  BY <1>2, <1>3, <1>4 DEF FrameInv, StreamInv
<1>10. StreamInv'
  BY <1>2, <1>3, <1>6, <1>7, <1>8, <1>9 DEF FrameInv, StreamInv
<1> QED
  BY <1>2, <1>10 DEF FrameInv, CloseInv

\* Bytes move from the net into the buffer.
LEMMA ReadAheadFrames == ASSUME Base, FrameInv, ReadRequest \/ ReadAhead PROVE FrameInv'
<1> USE DEF stream, input, sending
<1>1. PICK n \in 1..(BufSize - Len(buf)) : Pull(n) /\ buf' = buf \o Arrived(n)
  BY DEF ReadRequest, ReadAhead
<1>2. /\ UNCHANGED <<sent, browser, head, frame, data, want, nread, pc, handed, answer>>
      /\ pc = "request" \/ pc = "open"
  BY DEF ReadRequest, ReadAhead
<1>3. /\ buf \in Seq(Byte(Len(sent))) /\ n \in Nat /\ head \in 0..Len(buf)
      /\ Queue \in Seq(Byte(Len(sent))) /\ Arrived(n) \in Seq(Byte(Len(sent)))
  BY <1>1, QueueType, PullParts DEF Base, Types
<1>4. buf' \o net' = buf \o net
  BY <1>1, <1>3, PullParts DEF Base
<1>5. Queue' = Queue \o Arrived(n)
  <2>1. Arrived(n) \in Seq(Byte(Len(sent))) /\ buf \in Seq(Byte(Len(sent))) /\ head \in 0..Len(buf)
    BY <1>3
  <2>2. Back(buf \o Arrived(n), head) = Back(buf, head) \o Arrived(n)
    BY <2>1, BackConcat
  <2> QED
    BY <1>1, <1>2, <2>2 DEF Queue, Back
<1>6. Queue' \o net' = Queue \o net
  BY <1>1, <1>3, <1>5, PullParts DEF Base
<1>7. StreamInv'
  BY <1>2, <1>4, <1>6 DEF FrameInv, StreamInv
<1> QED
  BY <1>2, <1>7 DEF FrameInv, CloseInv

\* Behind the head of a request for a websocket comes the first frame.
LEMMA UpgradeFrames == ASSUME SocketsHaveNoBody, Base, FrameInv, Upgrade PROVE FrameInv'
<1> USE DEF stream, input, sending
<1>1. /\ pc = "request" /\ sent # <<>> /\ sent[1].head <= Len(buf) /\ sent[1].op = "socket"
      /\ head' = sent[1].head /\ pc' = "ready" /\ handed = <<>>
      /\ UNCHANGED <<stream, buf, handed>>
  BY FrameAtType, QueueType DEF Upgrade, Handle, HeadIsThere, Base, Control
<1> DEFINE h == sent[1].head
           z == SizesOf(sent)
           s == buf \o net
<1>2. h \in Nat \ {0} /\ sent[1].body = 0 /\ Len(sent) \in Nat \ {0}
  BY <1>1, FrameAtType DEF Base, SocketsHaveNoBody
<1>3. z[1] = h
  BY <1>2 DEF SizesOf
<1> HIDE DEF h, z
<1>4. buf \in Seq(Byte(Len(sent))) /\ net \in Seq(Byte(Len(sent))) /\ h \in 0..Len(buf)
  BY <1>1, <1>2, QueueType DEF Base, Types, h
<1>5. /\ SubSeq(s, h + 1, Len(s)) = SubSeq(buf, h + 1, Len(buf)) \o net
      /\ s \in Seq(Byte(Len(sent))) /\ Len(s) = Len(buf) + Len(net)
  <2>1. /\ Back(buf \o net, h) = Back(buf, h) \o net
        /\ buf \o net \in Seq(Byte(Len(sent))) /\ Len(buf \o net) = Len(buf) + Len(net)
    BY <1>4, BackConcat
  <2> QED
    BY <2>1 DEF Back
<1>6. Rest(sent, browser = "here", s, <<1, 1>>)
  BY <1>1 DEF FrameInv, StreamInv
<1> HIDE DEF s
<1>7. h \in 1..Len(s)
  BY <1>2, <1>4, <1>5, QueueType DEF Base
<1>8. s[h] = <<1, h>>
  <2>1. Chain(z, s, At(1, 0)) /\ h \in 0..Len(s) /\ Fits(z, 1, 0, h)
    BY <1>2, <1>3, <1>6, <1>7 DEF Rest, z, At, Fits
  <2>2. 0 \in Nat /\ 1 \in Nat
    OBVIOUS
  <2>3. Run(s, 1, 0, h)
    BY <1>5, <2>1, <2>2, ChainRun
  <2> QED
    BY <1>2, <2>3 DEF Run
<1>9. Succ(z, s[h]) = <<2, 1>>
  BY <1>2, <1>3, <1>8 DEF Succ
<1>10. Rest(sent, browser = "here", SubSeq(s, h + 1, Len(s)), <<2, 1>>)
  <2>1. Rest(sent, browser = "here", SubSeq(s, h + 1, Len(s)), Succ(SizesOf(sent), s[h]))
    BY <1>5, <1>6, <1>7, RestBack
  <2> QED
    BY <1>9, <2>1 DEF z
<1>11. Queue' \o net' = SubSeq(s, h + 1, Len(s))
  BY <1>1, <1>5 DEF Queue, h
<1>12. Len(handed') + 2 = 2
  BY <1>1
<1>13. StreamInv'
  BY <1>1, <1>10, <1>11, <1>12 DEF StreamInv
<1>14. CloseInv'
  BY <1>1 DEF FrameInv, CloseInv, Channel!Closed
<1> QED
  BY <1>13, <1>14 DEF FrameInv

\* Where nothing is read from the stream any more, nothing is to be shown.
LEMMA ElsewhereFrames ==
    ASSUME Base, FrameInv,
           \/ RequestFails \/ BadRequest \/ RedirectToHttpsPort \/ HandleRequest
           \/ StartBody \/ ReadBody \/ EndBody \/ RefuseSocket
           \/ EndSocket \/ NoMemory \/ PayloadFails \/ CloseConnection
    PROVE FrameInv'
<1>1. UNCHANGED <<sent, handed>> /\ pc' \in {"body", "closing", "done"}
  BY DEF stream, input, RequestFails, BadRequest, RedirectToHttpsPort, HandleRequest, StartBody,
     ReadBody, EndBody, RefuseSocket, EndSocket, NoMemory, PayloadFails, CloseConnection, Handle
<1> QED
  BY <1>1 DEF FrameInv, StreamInv, CloseInv

\* The lock, the server's end, handlers that return and steps of others leave
\* the stream alone.
LEMMA AsideFrames ==
    ASSUME Base, FrameInv,
           \/ Stop \/ UNCHANGED vars
           \/ ReadyReturns \/ CommandReturns \/ PingsEnd
           \/ \E w \in Writers \cup {Worker} : WriteHeader(w) \/ WritePayload(w)
    PROVE FrameInv'
<1>1. /\ UNCHANGED <<stream, input, handed>>
      /\ \/ pc' = pc
         \/ pc \in {"ready", "command", "pong"} /\ pc' = "open"
         \/ pc = "echo" /\ pc' = "closing"
  BY DEF stream, input, vars, Stop, WriteHeader, WritePayload, ReadyReturns, CommandReturns,
     PingsEnd
<1>2. Queue' = Queue /\ Size' = Size
  BY <1>1 DEF stream, input, Queue, Size, FrameAt
<1>3. StreamInv'
  BY <1>1, <1>2 DEF stream, input, FrameInv, StreamInv
<1> QED
  BY <1>1, <1>3 DEF stream, input, FrameInv, CloseInv

\* The size of the message that a frame is.
LEMMA FrameSize ==
    ASSUME Types, NEW m \in 2..Len(sent), NEW b, b = <<m, 1>>
    PROVE /\ FrameAt(b) = sent[m] /\ FrameAt(b) \in Frames /\ FrameAt(b).size \in Nat
          /\ SizesOf(sent)[m] = HeaderSize(FrameAt(b).size) + FrameAt(b).size
<1>1. Len(sent) \in Nat /\ sent[m] \in Frames /\ sent[m].size \in Nat
  BY FrameAtType
<1>2. FrameAt(b) = sent[m]
  BY DEF FrameAt
<1> QED
  BY <1>1, <1>2 DEF SizesOf

\* A frame is cut off the queue: what is left begins inside its payload, or
\* with the next frame.
LEMMA TakeFrameFrames == ASSUME Base, FrameInv, TakeFrame PROVE FrameInv'
<1> USE DEF stream, input, sending
<1>1. /\ UNCHANGED <<sent, browser, net, head, handed>> /\ pc = "open" /\ Queue # <<>>
      /\ pc' = IF want' = 0 THEN "frame" ELSE "payload"
  BY DEF TakeFrame, HeaderIsThere
<1> DEFINE m == Len(handed) + 2
           s == Queue \o net
           size == FrameAt(Queue[1]).size
           z == SizesOf(sent)
<1>2. PICK h \in 6..14, n \in Nat :
            /\ frame' = Queue[1] /\ frame' \in Byte(Len(sent))
            /\ h = HeaderSize(size) /\ h + n <= Len(Queue)
            /\ data' \in Seq(Byte(Len(sent))) /\ Len(data') = n
            /\ \A i \in 1..n : data'[i] = Queue[h + i]
            /\ n <= size /\ want' = size - n
            /\ want' \in Nat /\ (want' > 0 => h + n = Len(Queue))
            /\ Queue' = SubSeq(Queue, h + n + 1, Len(Queue))
  BY TakeParts
<1>a. h + n <= Len(Queue)
  BY <1>2
<1>3. /\ Queue \in Seq(Byte(Len(sent))) /\ net \in Seq(Byte(Len(sent)))
      /\ Len(Queue) \in Nat /\ Len(net) \in Nat /\ Len(handed) \in Nat /\ h + n \in 0..Len(Queue)
  <2>1. Len(handed) \in Nat
    BY SeqParts DEF Base, Types
  <2>2. /\ Queue \in Seq(Byte(Len(sent))) /\ net \in Seq(Byte(Len(sent)))
        /\ Len(Queue) \in Nat /\ Len(net) \in Nat
    BY QueueType, SeqParts DEF Base, Types
  <2> QED
    BY <1>a, <2>1, <2>2
<1>4. /\ SubSeq(s, (h + n) + 1, Len(s)) = SubSeq(Queue, (h + n) + 1, Len(Queue)) \o net
      /\ s \in Seq(Byte(Len(sent))) /\ Len(s) = Len(Queue) + Len(net)
      /\ \A i \in 1..Len(Queue) : s[i] = Queue[i]
  BY <1>3, BackOfConcat
<1>5. Rest(sent, browser = "here", s, <<m, 1>>)
  BY <1>1 DEF FrameInv, StreamInv
<1> HIDE DEF s, z, m
<1>6. Queue[1] = <<m, 1>>
  <2>1. 1 \in 1..Len(Queue) /\ s # <<>>
    <3>1. Len(s) > 0 /\ 1 \in 1..Len(Queue)
      BY <1>a, <1>3, <1>4
    <3> QED
      BY <1>4, <3>1, SeqParts
  <2>2. s[1] = <<m, 1>>
    BY <1>5, <2>1 DEF Rest, Chain
  <2> QED
    BY <1>4, <2>1, <2>2
<1>7. m \in 2..Len(sent)
  BY <1>2, <1>3, <1>6 DEF Byte, m
<1>8. size \in Nat /\ z[m] = h + size
  BY <1>2, <1>6, <1>7, FrameSize DEF Base, z
<1>b. n <= size /\ want' = size - n /\ (want' > 0 => h + n = Len(Queue))
  BY <1>2
<1> HIDE DEF size
<1>9. Run(s, m, 0, h + n)
  <2>1. Chain(z, s, At(m, 0))
    BY <1>5 DEF Rest, At, z
  <2>2. Fits(z, m, 0, h + n)
    <3>1. z[m] \in Nat /\ 0 + (h + n) <= h + size
      BY <1>b, <1>8
    <3> QED
      BY <1>8, <3>1 DEF Fits
  <2>3. m \in Nat /\ 0 \in Nat /\ h + n \in 0..Len(s)
    BY <1>3, <1>4, <1>7
  <2> QED
    BY <1>4, <2>1, <2>2, <2>3, ChainRun
<1>10. h + n \in 1..Len(s) /\ s[h + n] = <<m, h + n>>
  <2>1. h + n \in 1..Len(s) /\ h + n \in 1..(h + n) /\ 0 + (h + n) = h + n
    BY <1>3, <1>4
  <2> QED
    BY <1>9, <2>1 DEF Run
<1>11. Rest(sent, browser = "here", Queue' \o net', Succ(z, <<m, h + n>>))
  <2>1. Queue' \o net' = SubSeq(s, (h + n) + 1, Len(s))
    BY <1>1, <1>2, <1>4
  <2>2. Rest(sent, browser = "here", SubSeq(s, (h + n) + 1, Len(s)), Succ(SizesOf(sent), s[h + n]))
    BY <1>4, <1>5, <1>10, RestBack
  <2> QED
    BY <1>10, <2>1, <2>2 DEF z
<1>12. Size' = size
  BY <1>1, <1>2 DEF Size, size, FrameAt
<1>13. \A i \in 1..Len(data') : data'[i] = <<m, h + i>>
  <2>1. ASSUME NEW i \in 1..n PROVE data'[i] = <<m, h + i>>
    <3>1. h + i \in 1..Len(Queue) /\ h + i \in 1..(h + n) /\ 0 + (h + i) = h + i
      <4>1. h \in Nat /\ n \in Nat /\ i \in Nat /\ 1 <= i /\ i <= n /\ Len(Queue) \in Nat
        BY <1>3
      <4>2. 1 <= h + i /\ h + i <= h + n /\ h + n <= Len(Queue) /\ h + i \in Nat
        BY <1>a, <4>1
      <4> QED
        BY <4>1, <4>2
    <3>2. data'[i] = Queue[h + i]
      BY <1>2
    <3>3. Queue[h + i] = s[h + i]
      BY <1>4, <3>1
    <3>4. s[h + i] = <<m, 0 + (h + i)>>
      BY <1>9, <3>1 DEF Run
    <3> QED
      BY <3>1, <3>2, <3>3, <3>4
  <2> QED
    BY <1>2, <2>1
<1>14. Len(data') + want' = size
  BY <1>2, <1>8
<1>15. ASSUME pc' = "payload"
       PROVE /\ want' > 0 /\ Queue' = <<>>
             /\ Rest(sent', browser' = "here", net', <<m, h + Len(data') + 1>>)
  <2>1. want' > 0 /\ h + n = Len(Queue)
    BY <1>1, <1>2, <1>15
  <2>2. Queue' = <<>>
    <3>1. /\ SubSeq(Queue, (h + n) + 1, Len(Queue)) \in Seq(Byte(Len(sent)))
          /\ Len(SubSeq(Queue, (h + n) + 1, Len(Queue))) = Len(Queue) - (h + n)
      BY <1>3, Split, ZenonT(40)
    <3>2. Queue' = SubSeq(Queue, (h + n) + 1, Len(Queue)) /\ Len(Queue) - (h + n) = 0
      BY <1>2, <1>3, <2>1
    <3> QED
      BY <3>1, <3>2, SeqParts
  <2>3. Queue' \o net' = net'
    BY <1>1, <1>3, <2>2, ConcatEmptySeq
  <2>4. Succ(z, <<m, h + n>>) = <<m, h + Len(data') + 1>>
    <3>1. h + n < h + size
      BY <1>b, <1>8, <2>1
    <3>2. h + n < z[m]
      BY <1>8, <3>1
    <3> QED
      BY <1>2, <3>2 DEF Succ
  <2> QED
    BY <1>1, <1>11, <2>1, <2>2, <2>3, <2>4
<1>16. ASSUME pc' = "frame"
       PROVE want' = 0 /\ Rest(sent', browser' = "here", Queue' \o net', <<m + 1, 1>>)
  <2>1. want' = 0
    BY <1>1, <1>16
  <2>2. ~(h + n < z[m])
    BY <1>b, <1>8, <2>1
  <2>3. Succ(z, <<m, h + n>>) = <<m + 1, 1>>
    BY <2>2 DEF Succ
  <2> QED
    BY <1>1, <1>11, <2>1, <2>3
<1>17. frame' = <<m, 1>> /\ frame'[1] = m /\ m = Len(handed') + 2 /\ HeaderSize(Size') = h
  BY <1>1, <1>2, <1>6, <1>12 DEF m
<1>18. StreamInv'
  BY <1>1, <1>12, <1>13, <1>14, <1>15, <1>16, <1>17 DEF StreamInv
<1> QED
  BY <1>1, <1>18 DEF FrameInv, CloseInv

\* More of the payload arrives.
LEMMA ReadPayloadFrames == ASSUME Base, FrameInv, ReadPayload PROVE FrameInv'
<1> USE DEF stream, input, sending
<1>1. PICK n \in 1..want : Pull(n) /\ data' = data \o Arrived(n) /\ want' = want - n
  BY DEF ReadPayload
<1>2. /\ UNCHANGED <<sent, browser, buf, head, frame, handed>> /\ pc = "payload"
      /\ pc' = IF want' = 0 THEN "frame" ELSE "payload"
  BY DEF ReadPayload
<1> DEFINE m == Len(handed) + 2
           h == HeaderSize(Size)
           k == Len(data)
           z == SizesOf(sent)
<1>3. /\ frame = <<m, 1>> /\ k + want = Size /\ Queue = <<>>
      /\ \A i \in 1..k : data[i] = <<m, h + i>>
      /\ Rest(sent, browser = "here", net, <<m, h + k + 1>>)
  BY <1>2 DEF FrameInv, StreamInv
<1>4. /\ want \in Nat /\ n \in Nat /\ k \in Nat /\ frame \in Byte(Len(sent))
      /\ net \in Seq(Byte(Len(sent))) /\ data \in Seq(Byte(Len(sent)))
      /\ Len(handed) \in Nat /\ Len(net) \in Nat /\ n \in 1..Len(net)
  BY <1>1, <1>2, QueueType, SeqParts DEF Base, Types, TypeOK, Pull
<1>5. m \in 2..Len(sent)
  BY <1>3, <1>4 DEF Byte
<1> HIDE DEF m
<1>6. Size \in Nat /\ h \in 6..14 /\ z[m] = h + Size
  BY <1>3, <1>5, FrameSize, HeaderType DEF Base, Size
<1> HIDE DEF h, k, z
<1>7. Run(net, m, h + k, n)
  <2>1. Chain(z, net, At(m, h + k))
    BY <1>3 DEF Rest, At, z
  <2>2. Fits(z, m, h + k, n)
    BY <1>1, <1>3, <1>4, <1>6 DEF Fits
  <2>3. m \in Nat /\ h + k \in Nat /\ n \in 0..Len(net)
    BY <1>4, <1>5, <1>6
  <2> QED
    BY <1>4, <2>1, <2>2, <2>3, ChainRun
<1>8. Rest(sent, browser = "here", net', Succ(z, <<m, (h + k) + n>>))
  <2>1. Rest(sent, browser = "here", SubSeq(net, n + 1, Len(net)), Succ(SizesOf(sent), net[n]))
    BY <1>3, <1>4, RestBack
  <2>2. net[n] = <<m, (h + k) + n>>
    BY <1>4, <1>7 DEF Run
  <2> QED
    BY <1>1, <2>1, <2>2 DEF Pull, z
<1>9. /\ Len(data') = k + n
      /\ \A i \in 1..(k + n) : data'[i] = <<m, h + i>>
  <2>1. /\ Arrived(n) \in Seq(Byte(Len(sent))) /\ Len(Arrived(n)) = n
        /\ \A i \in 1..n : Arrived(n)[i] = net[i]
    <3>1. n \in 0..Len(net)
      BY <1>4
    <3> QED
      BY <1>4, <3>1, Split DEF Arrived
  <2>2. /\ Len(data') = k + n
        /\ \A i \in 1..(k + n) : data'[i] = IF i <= k THEN data[i] ELSE Arrived(n)[i - k]
    BY <1>1, <1>4, <2>1, ConcatProperties DEF k
  <2>3. ASSUME NEW i \in 1..(k + n) PROVE data'[i] = <<m, h + i>>
    <3>1. CASE i <= k
      <4>1. i \in 1..k
        BY <1>4, <3>1
      <4> QED
        BY <1>3, <2>2, <3>1, <4>1
    <3>2. CASE ~(i <= k)
      <4>1. i - k \in 1..n /\ (h + k) + (i - k) = h + i
        BY <1>4, <1>6, <3>2
      <4>2. Arrived(n)[i - k] = <<m, (h + k) + (i - k)>>
        BY <1>7, <2>1, <4>1 DEF Run
      <4> QED
        BY <2>2, <3>2, <4>1, <4>2
    <3> QED
      BY <3>1, <3>2
  <2> QED
    BY <2>2, <2>3
<1>10. Queue' = <<>> /\ Size' = Size /\ frame' = <<m, 1>> /\ frame'[1] = m /\ m = Len(handed') + 2
  BY <1>2, <1>3 DEF Queue, Size, FrameAt, m
<1>11. Len(data') + want' = Size'
  BY <1>1, <1>3, <1>4, <1>9, <1>10
<1>c. k + n + want' = Size /\ Len(data') = k + n /\ want' = want - n
  BY <1>1, <1>3, <1>4, <1>6, <1>9
<1>12. ASSUME pc' = "payload"
       PROVE want' > 0 /\ Rest(sent', browser' = "here", net', <<m, h + Len(data') + 1>>)
  <2>1. want' > 0
    <3>1. want' \in Nat
      BY <1>c, <1>4, <1>1
    <3>2. want' # 0
      BY <1>2, <1>12
    <3> QED
      BY <3>1, <3>2
  <2>2. (h + k) + n < z[m] /\ ((h + k) + n) + 1 = h + Len(data') + 1
    <3>1. h \in Nat /\ k \in Nat /\ n \in Nat /\ want' \in Nat /\ Size \in Nat
      BY <1>1, <1>4, <1>6
    <3>2. (h + k) + n < z[m]
      BY <1>c, <1>6, <2>1, <3>1
    <3>3. h + Len(data') + 1 = ((h + k) + n) + 1
      BY <1>c, <3>1
    <3> QED
      BY <3>2, <3>3
  <2>3. Succ(z, <<m, (h + k) + n>>) = <<m, h + Len(data') + 1>>
    BY <2>2 DEF Succ
  <2> QED
    BY <1>2, <1>8, <2>1, <2>3
<1>13. ASSUME pc' = "frame"
       PROVE want' = 0 /\ Rest(sent', browser' = "here", Queue' \o net', <<m + 1, 1>>)
  <2>1. want' = 0
    BY <1>2, <1>13
  <2>2. ~((h + k) + n < z[m])
    <3>1. h \in Nat /\ k \in Nat /\ n \in Nat /\ Size \in Nat
      BY <1>1, <1>4, <1>6
    <3>2. k + n = Size
      BY <1>c, <2>1, <3>1
    <3> QED
      BY <1>6, <3>1, <3>2
  <2>3. Succ(z, <<m, (h + k) + n>>) = <<m + 1, 1>>
    BY <2>2 DEF Succ
  <2>4. Queue' \o net' = net'
    <3>1. net' \in Seq(Byte(Len(sent)))
      BY <1>1, <1>4, PullParts DEF Base
    <3> QED
      BY <1>10, <3>1, ConcatEmptySeq
  <2> QED
    BY <1>2, <1>8, <2>1, <2>3, <2>4
<1>14. HeaderSize(Size') = h
  BY <1>10 DEF h
<1>15. StreamInv'
  BY <1>2, <1>9, <1>10, <1>11, <1>12, <1>13, <1>14 DEF StreamInv
<1> QED
  BY <1>2, <1>15 DEF FrameInv, CloseInv

\* A frame is handed on as it was sent.
LEMMA HandsOn ==
    ASSUME Base, FrameInv, HandOn
    PROVE /\ Len(handed) \in Nat /\ Len(handed) + 2 \in 2..Len(sent)
          /\ FrameAt(frame) = sent[Len(handed) + 2] /\ FrameAt(frame) \in Frames
          /\ handed' = Append(handed, FrameAt(frame)) /\ ~Channel!Closed(handed)
          /\ Len(handed') = Len(handed) + 1 /\ handed'[Len(handed')] = FrameAt(frame)
          /\ \A i \in 1..Len(handed) : handed'[i] = handed[i]
<1>1. /\ pc = "frame" /\ frame = <<Len(handed) + 2, 1>> /\ frame \in Byte(Len(sent))
      /\ Len(data) + want = Size /\ want = 0 /\ ~Channel!Closed(handed)
      /\ \A i \in 1..Len(data) : data[i] = <<frame[1], HeaderSize(Size) + i>>
  BY DEF Base, Types, FrameInv, StreamInv, CloseInv, HandOn
<1>2. Len(handed) \in Nat /\ handed \in Seq(Frames \cup {Garbled})
  BY SeqParts DEF Base, Types
<1>3. Len(handed) + 2 \in 2..Len(sent)
  BY <1>1, <1>2 DEF Byte
<1>4. FrameAt(frame) = sent[Len(handed) + 2] /\ FrameAt(frame) \in Frames
  BY <1>1, <1>3, FrameSize DEF Base
<1>5. Len(data) = Size
  <2>1. Len(data) \in Nat
    BY QueueType DEF Base
  <2> QED
    BY <1>1, <2>1
<1>6. data = Payload(frame)
  <2>1. data = [i \in 1..Len(data) |-> data[i]]
    BY LenProperties DEF Base, Types
  <2>2. Payload(frame) = [i \in 1..Len(data) |-> <<frame[1], HeaderSize(Size) + i>>]
    BY <1>5 DEF Payload, Size
  <2> QED
    BY <1>1, <2>1, <2>2
<1>7. handed' = Append(handed, FrameAt(frame))
  BY <1>6 DEF HandOn
<1>8. FrameAt(frame) \in Frames \cup {Garbled}
  BY <1>4
<1>9. /\ Len(handed') = Len(handed) + 1 /\ handed'[Len(handed) + 1] = FrameAt(frame)
      /\ \A i \in 1..Len(handed) : handed'[i] = handed[i]
  BY <1>2, <1>7, <1>8, AppendProperties
<1> QED
  BY <1>1, <1>2, <1>3, <1>4, <1>7, <1>9

\* The next frame is at the front, and none is after a close frame.
LEMMA HandOnFrames == ASSUME Base, FrameInv, HandOn PROVE FrameInv'
<1> USE DEF stream, input, sending
<1>1. /\ UNCHANGED <<sent, browser, net, buf, head, frame, data, want>> /\ pc = "frame"
      /\ pc' \in {"open", "command", "pong", "echo", "closing"}
      /\ pc' \in {"open", "command", "pong"} => FrameAt(frame).op # "close"
      /\ pc' = "echo" => FrameAt(frame).op = "close"
  BY DEF HandOn
<1>2. /\ Len(handed) \in Nat /\ Len(handed') = Len(handed) + 1 /\ ~Channel!Closed(handed)
      /\ handed'[Len(handed')] = FrameAt(frame)
      /\ \A i \in 1..Len(handed) : handed'[i] = handed[i]
  BY HandsOn
<1>3. Queue' = Queue
  BY <1>1 DEF Queue
<1>4. <<frame[1] + 1, 1>> = <<Len(handed') + 2, 1>>
  BY <1>1, <1>2 DEF FrameInv, StreamInv
<1>5. StreamInv'
  BY <1>1, <1>3, <1>4 DEF FrameInv, StreamInv
<1>6. ASSUME pc' \in {"open", "command", "pong"} PROVE ~Channel!Closed(handed')
  <2>1. ASSUME NEW i \in 1..Len(handed') PROVE handed'[i].op # "close"
    <3>1. i \in 1..Len(handed) \/ i = Len(handed')
      BY <1>2
    <3> QED
      BY <1>1, <1>2, <1>6, <3>1 DEF Channel!Closed
  <2> QED
    BY <2>1 DEF Channel!Closed
<1>7. ASSUME pc' = "echo" PROVE Channel!Closed(handed')
  <2>1. Len(handed') \in 1..Len(handed')
    BY <1>2
  <2> QED
    BY <1>1, <1>2, <1>7, <2>1 DEF Channel!Closed
<1>8. CloseInv'
  BY <1>1, <1>6, <1>7 DEF FrameInv, CloseInv
<1> QED
  BY <1>5, <1>8 DEF FrameInv

\* Every step keeps the place of the worker in the stream.
LEMMA NextFrames == ASSUME SocketsHaveNoBody PROVE Base /\ FrameInv /\ [Next]_vars => FrameInv'
<1> SUFFICES ASSUME Base, FrameInv, [Next]_vars PROVE FrameInv'
  OBVIOUS
<1>1. CASE Ask \/ SendFrame \/ Leave
  BY <1>1, AskFrames, SendFrameFrames, LeaveFrames
<1>2. CASE CloseConnection
  BY <1>2, ElsewhereFrames
<1>3. CASE Serve
  BY <1>3, ReadAheadFrames, UpgradeFrames, ElsewhereFrames, TakeFrameFrames,
     ReadPayloadFrames, HandOnFrames DEF Serve
<1>4. CASE \/ Stop \/ UNCHANGED vars
           \/ ReadyReturns \/ CommandReturns \/ PingsEnd
           \/ \E w \in Writers \cup {Worker} : WriteHeader(w) \/ WritePayload(w)
  BY <1>4, AsideFrames
<1> QED
  BY <1>1, <1>2, <1>3, <1>4 DEF Next

\* Where the worker stands in the stream, in every state.
THEOREM FrameInvariance == ASSUME SocketsHaveNoBody PROVE Spec => [](Base /\ FrameInv)
<1>1. Init => Base /\ FrameInv
  BY InitBase, InitFrames
<1>2. Base /\ FrameInv /\ [Next]_vars => Base' /\ FrameInv'
  BY NextBase, NextFrames
<1> QED
  BY <1>1, <1>2, PTL DEF Spec

-----------------------------------------------------------------------------
(* The frames of the browser are a channel.                                *)

\* Frames behind the request.
LEMMA FramesOf ==
    ASSUME NEW S, NEW x \in Seq(S), Len(x) # 0
    PROVE /\ Len(SubSeq(x, 2, Len(x))) = Len(x) - 1 /\ SubSeq(x, 2, Len(x)) \in Seq(S)
          /\ \A i \in 1..(Len(x) - 1) : SubSeq(x, 2, Len(x))[i] = x[i + 1]
<1>1. Len(x) \in Nat /\ 1 \in 0..Len(x)
  BY SeqParts
<1>2. /\ SubSeq(x, 1 + 1, Len(x)) \in Seq(S) /\ Len(SubSeq(x, 1 + 1, Len(x))) = Len(x) - 1
      /\ \A i \in 1..(Len(x) - 1) : SubSeq(x, 1 + 1, Len(x))[i] = x[1 + i]
  BY <1>1, Split, ZenonT(40)
<1>3. 1 + 1 = 2 /\ \A i \in 1..(Len(x) - 1) : 1 + i = i + 1
  OBVIOUS
<1> QED
  BY <1>2, <1>3

\* A message that follows the request is a frame that follows the frames.
LEMMA FramesAppend ==
    ASSUME NEW S, NEW x \in Seq(S), Len(x) # 0, NEW f \in S, NEW y, y = Append(x, f)
    PROVE SubSeq(y, 2, Len(y)) = Append(SubSeq(x, 2, Len(x)), f)
<1>1. /\ y \in Seq(S) /\ Len(y) = Len(x) + 1 /\ y[Len(x) + 1] = f /\ Len(x) \in Nat \ {0}
      /\ \A i \in 1..Len(x) : y[i] = x[i]
  BY AppendProperties, SeqParts
<1> DEFINE u == SubSeq(y, 2, Len(y))
           v == SubSeq(x, 2, Len(x))
<1>2. /\ Len(v) = Len(x) - 1 /\ v \in Seq(S)
      /\ \A i \in 1..(Len(x) - 1) : v[i] = x[i + 1]
  BY FramesOf
<1>3. /\ Len(u) = Len(y) - 1 /\ u \in Seq(S)
      /\ \A i \in 1..(Len(y) - 1) : u[i] = y[i + 1]
  <2>1. Len(y) # 0
    BY <1>1
  <2> QED
    BY <1>1, <2>1, FramesOf
<1> HIDE DEF u, v
<1>4. /\ Append(v, f) \in Seq(S) /\ Len(Append(v, f)) = Len(v) + 1
      /\ \A i \in 1..Len(v) : Append(v, f)[i] = v[i]
      /\ Append(v, f)[Len(v) + 1] = f
  BY <1>2, AppendProperties
<1>5. ASSUME NEW i \in 1..Len(u) PROVE u[i] = Append(v, f)[i]
  <2>1. CASE i <= Len(v)
    <3>1. i \in 1..Len(v) /\ i \in 1..(Len(x) - 1) /\ i + 1 \in 1..Len(x) /\ i \in 1..(Len(y) - 1)
      BY <1>1, <1>2, <1>3, <2>1
    <3> QED
      BY <1>1, <1>2, <1>3, <1>4, <3>1
  <2>2. CASE ~(i <= Len(v))
    <3>1. i = Len(v) + 1 /\ i + 1 = Len(x) + 1 /\ i \in 1..(Len(y) - 1)
      BY <1>1, <1>2, <1>3, <2>2
    <3> QED
      BY <1>1, <1>3, <1>4, <3>1
  <2> QED
    BY <2>1, <2>2
<1>6. Len(u) = Len(Append(v, f))
  BY <1>1, <1>2, <1>3, <1>4
<1>7. u = Append(v, f)
  BY <1>3, <1>4, <1>5, <1>6, SeqEqual
<1> QED
  BY <1>7 DEF u, v

FramesSent == SubSeq(sent, 2, Len(sent))

\* Every step is one of the channel, or none.
LEMMA StepMaps ==
    Base /\ FrameInv /\ Base' /\ [Next]_vars => [Channel!Next]_<<FramesSent, handed>>
<1> SUFFICES ASSUME Base, FrameInv, [Next]_vars PROVE [Channel!Next]_<<FramesSent, handed>>
  OBVIOUS
<1> USE DEF FramesSent
<1>1. CASE Ask
  <2>1. PICK r \in Requests : sent' = <<r>>
    BY <1>1 DEF Ask
  <2>2. Len(sent') = 1 /\ sent = <<>> /\ Len(sent) = 0 /\ handed' = handed
    BY <1>1, <2>1 DEF Ask
  <2>3. SubSeq(sent', 2, Len(sent')) = <<>> /\ SubSeq(sent, 2, Len(sent)) = <<>>
    BY <2>2, SubSeqEmpty
  <2> QED
    BY <2>2, <2>3
<1>2. CASE SendFrame
  <2>1. PICK f \in Frames : sent' = Append(sent, f)
    BY <1>2 DEF SendFrame
  <2>2. /\ Len(sent) \in Nat \ {0} /\ sent \in Seq(Requests \cup Frames) /\ handed' = handed
        /\ sent[Len(sent)].op # "close"
    BY <1>2, FrameAtType DEF Base, Types, Control, SendFrame
  <2>3. FramesSent' = Append(FramesSent, f)
    <3>1. Len(sent) # 0 /\ f \in Requests \cup Frames
      BY <2>2
    <3>2. SubSeq(sent', 2, Len(sent')) = Append(SubSeq(sent, 2, Len(sent)), f)
      BY <2>1, <2>2, <3>1, FramesAppend
    <3> QED
      BY <3>2
  <2>4. ~Channel!Closed(FramesSent)
    <3>1. /\ Len(FramesSent) = Len(sent) - 1
          /\ \A i \in 1..(Len(sent) - 1) : FramesSent[i] = sent[i + 1]
      BY <2>2, FramesOf
    <3>2. ASSUME NEW i \in 1..Len(FramesSent) PROVE FramesSent[i].op # "close"
      <4>1. i \in 1..(Len(sent) - 1) /\ (i + 1 \in 2..(Len(sent) - 1) \/ i + 1 = Len(sent))
        BY <2>2, <3>1
      <4> QED
        BY <2>2, <3>1, <4>1 DEF FrameInv, CloseInv
    <3> QED
      BY <3>2 DEF Channel!Closed
  <2> QED
    BY <2>2, <2>3, <2>4 DEF Channel!Next, Channel!Send
<1>3. CASE HandOn
  <2>1. /\ Len(handed) \in Nat /\ Len(handed) + 2 \in 2..Len(sent) /\ sent' = sent
        /\ handed' = Append(handed, sent[Len(handed) + 2]) /\ ~Channel!Closed(handed)
    BY <1>3, HandsOn DEF HandOn, stream
  <2>2. /\ Len(FramesSent) = Len(sent) - 1
        /\ \A i \in 1..(Len(sent) - 1) : FramesSent[i] = sent[i + 1]
    <3>1. Len(sent) # 0 /\ sent \in Seq(Requests \cup Frames)
      BY <2>1 DEF Base, Types
    <3> QED
      BY <3>1, FramesOf
  <2>3. Len(handed) < Len(FramesSent) /\ FramesSent[Len(handed) + 1] = sent[Len(handed) + 2]
    <3>1. /\ Len(handed) + 1 \in 1..(Len(sent) - 1) /\ (Len(handed) + 1) + 1 = Len(handed) + 2
          /\ Len(handed) < Len(sent) - 1
      BY <2>1
    <3> QED
      BY <2>2, <3>1
  <2> QED
    BY <2>1, <2>3 DEF Channel!Next, Channel!Deliver
<1>4. CASE ~(Ask \/ SendFrame \/ HandOn)
  <2>1. sent' = sent /\ handed' = handed
    BY <1>4 DEF Next, vars, stream, Leave, Stop, Serve, CloseConnection, WriteHeader, WritePayload,
       ReadRequest, RequestFails, BadRequest, RedirectToHttpsPort, HandleRequest, StartBody,
       ReadBody, EndBody, RefuseSocket, Upgrade, ReadAhead, EndSocket, TakeFrame, NoMemory,
       ReadPayload, PayloadFails, ReadyReturns, CommandReturns, PingsEnd
  <2> QED
    BY <2>1
<1> QED
  BY <1>1, <1>2, <1>3, <1>4

\* However the network cuts the stream and whatever is read ahead, the frames
\* of a browser reach websocket_data_handler whole, in order and once, and
\* nothing follows the close frame (read_websocket).
THEOREM ImplementsFramesTheorem == ASSUME SocketsHaveNoBody PROVE Spec => ImplementsFrames
<1>1. Init => Channel!Init
  <2> SUFFICES ASSUME Init PROVE Channel!Init
    OBVIOUS
  <2>1. sent = <<>> /\ Len(sent) = 0 /\ handed = <<>>
    BY DEF Init
  <2>2. SubSeq(sent, 2, Len(sent)) = <<>>
    BY <2>1, SubSeqEmpty
  <2> QED
    BY <2>1, <2>2 DEF Channel!Init
<1> QED
  BY <1>1, StepMaps, FrameInvariance, PTL
     DEF Spec, ImplementsFrames, Channel!Spec, FramesSent

-----------------------------------------------------------------------------
(* The server does not hang up.                                            *)

\* As long as the server runs and a pinged browser is there, reading fails only
\* for want of room, and there is room for the header of a frame.
LEMMA NoneEnds ==
    ASSUME SocketsLeaveRoom, Base, EndSocket \/ PayloadFails
    PROVE browser # "here" \/ ~pinged \/ stop_flag
<1>1. CASE PayloadFails
  BY <1>1 DEF PayloadFails, FramePullFails
<1>2. CASE EndSocket
  <2> SUFFICES ASSUME browser = "here", pinged, ~stop_flag PROVE FALSE
    OBVIOUS
  <2>1. ~HeaderIsThere /\ Len(buf) = BufSize /\ pc = "open"
    BY <1>2 DEF EndSocket, FramePullFails
  <2>2. head = sent[1].head /\ sent[1] \in Requests /\ sent[1].op = "socket"
    BY <2>1 DEF Base, Types, TypeOK, Control
  <2>3. head + 14 <= BufSize
    BY <2>2 DEF SocketsLeaveRoom
  <2>4. Len(Queue) >= 14 /\ Queue # <<>> /\ Queue[1] \in Byte(Len(sent))
    <3>1. Len(Queue) = BufSize - head /\ head \in Nat /\ Len(Queue) \in Nat
      BY <2>1, QueueType, SeqParts DEF Base, Types
    <3>2. Len(Queue) >= 14
      BY <2>3, <3>1
    <3> QED
      BY <3>1, <3>2, QueueType, SeqParts DEF Base
  <2>5. HeaderSize(FrameAt(Queue[1]).size) \in 6..14
    BY <2>4, FrameAtType, HeaderType DEF Base
  <2> QED
    BY <2>1, <2>4, <2>5 DEF HeaderIsThere
<1> QED
  BY <1>1, <1>2

\* A frame keeps its size when others follow.
LEMMA SendFrameOpen == ASSUME Base, OpenInv, SendFrame PROVE OpenInv'
<1> USE DEF stream, input, sending
<1>1. /\ UNCHANGED <<browser, pc, handed, answer, frame, pinged, stop_flag>> /\ answer = "upgraded"
      /\ \E f \in Frames : sent' = Append(sent, f)
  BY DEF SendFrame
<1>2. /\ Len(sent') = Len(sent) + 1 /\ Len(sent) \in Nat
      /\ \A i \in 1..Len(sent) : sent'[i] = sent[i]
  BY <1>1, AppendProperties, SeqParts DEF Base, Types
<1>3. ASSUME frame \in Byte(Len(sent))
      PROVE frame' \in Byte(Len(sent')) /\ FrameAt(frame)' = FrameAt(frame)
  BY <1>1, <1>2, <1>3 DEF Byte, FrameAt
<1> QED
  BY <1>1, <1>3 DEF OpenInv

\* It hands on a close frame before it hangs up.
LEMMA HandOnOpen == ASSUME Base, FrameInv, HandOn PROVE OpenInv'
<1>1. pc' = "closing" => FrameAt(frame).op = "close"
  BY DEF HandOn
<1>2. pc' \in {"open", "command", "pong", "echo", "closing"}
  BY DEF HandOn
<1>3. Len(handed) \in Nat /\ Len(handed') = Len(handed) + 1 /\ handed'[Len(handed')] = FrameAt(frame)
  BY HandsOn
<1>4. ASSUME pc' = "closing" PROVE Channel!Closed(handed')
  <2>1. Len(handed') \in 1..Len(handed')
    BY <1>3
  <2> QED
    BY <1>1, <1>3, <1>4, <2>1 DEF Channel!Closed
<1> QED
  BY <1>2, <1>4 DEF OpenInv

\* Every other step leaves the reason alone, or is one.
LEMMA NextOpen ==
    ASSUME SocketsLeaveRoom PROVE Base /\ FrameInv /\ OpenInv /\ [Next]_vars => OpenInv'
<1> SUFFICES ASSUME Base, FrameInv, OpenInv, [Next]_vars PROVE OpenInv'
  OBVIOUS
<1> USE DEF stream, input, sending
<1>1. CASE SendFrame \/ HandOn
  BY <1>1, SendFrameOpen, HandOnOpen
<1>2. CASE EndSocket \/ PayloadFails
  <2>1. browser' = browser /\ stop_flag' = stop_flag /\ pinged' = pinged
    BY <1>2 DEF EndSocket, PayloadFails
  <2> QED
    BY <1>2, <2>1, NoneEnds DEF OpenInv
<1>3. CASE NoMemory
  <2>1. frame' = Queue[1] /\ FrameAt(Queue[1]).size > MemSize /\ sent' = sent
    BY <1>3 DEF NoMemory
  <2>2. Queue[1] \in Byte(Len(sent))
    BY <1>3, QueueType, SeqParts DEF Base, NoMemory, HeaderIsThere
  <2>3. FrameAt(frame)' = FrameAt(Queue[1])
    BY <2>1 DEF FrameAt
  <2> QED
    BY <2>1, <2>2, <2>3 DEF OpenInv
<1>4. CASE \/ Ask \/ RequestFails \/ BadRequest \/ RedirectToHttpsPort \/ HandleRequest
           \/ EndBody \/ RefuseSocket
  <2>1. answer' # "upgraded"
    BY <1>4 DEF Base, Control, Ask, RequestFails, BadRequest, RedirectToHttpsPort, HandleRequest,
                EndBody, RefuseSocket, Handle
  <2> QED
    BY <2>1 DEF OpenInv
<1>5. CASE \/ ReadRequest \/ StartBody \/ ReadBody \/ Upgrade \/ ReadAhead \/ TakeFrame
           \/ ReadPayload \/ ReadyReturns \/ CommandReturns
  <2>1. pc' \notin {"closing", "done"}
    BY <1>5 DEF ReadyReturns, CommandReturns, ReadRequest, StartBody, ReadBody, Upgrade, ReadAhead, TakeFrame, ReadPayload, Handle
  <2> QED
    BY <2>1 DEF OpenInv
<1>6. CASE Leave \/ Stop \/ PingsEnd
  <2>1. browser' # "here" \/ stop_flag' \/ ~pinged'
    BY <1>6 DEF Leave, Stop, PingsEnd
  <2> QED
    BY <2>1 DEF OpenInv
<1>7. CASE \/ CloseConnection \/ UNCHANGED vars
           \/ \E w \in Writers \cup {Worker} : WriteHeader(w) \/ WritePayload(w)
  <2>1. /\ UNCHANGED <<stream, input, handed, answer, pinged, stop_flag>>
        /\ pc' \in {"closing", "done"} => pc \in {"closing", "done", "echo"}
    BY <1>7 DEF CloseConnection, vars, WriteHeader, WritePayload
  <2>2. FrameAt(frame)' = FrameAt(frame)
    BY <2>1 DEF FrameAt
  <2>3. pc = "echo" => Channel!Closed(handed)
    BY DEF FrameInv, CloseInv
  <2> QED
    BY <2>1, <2>2, <2>3 DEF OpenInv
<1> QED
  BY <1>1, <1>2, <1>3, <1>4, <1>5, <1>6, <1>7 DEF Next, Serve

\* While the server runs, a websocket of a browser that is there and pinged ends
\* with its close frame, or for want of memory (read_websocket).
THEOREM StaysOpenTheorem ==
    ASSUME SocketsHaveNoBody, SocketsLeaveRoom PROVE Spec => []StaysOpen
<1>1. Init => OpenInv
  BY DEF Init, OpenInv
<1>2. Base /\ FrameInv /\ OpenInv /\ [Next]_vars => OpenInv'
  BY NextOpen
<1>3. OpenInv => StaysOpen
  BY DEF OpenInv, StaysOpen
<1> QED
  BY <1>1, <1>2, <1>3, FrameInvariance, PTL DEF Spec

-----------------------------------------------------------------------------
(* The body of a form.                                                     *)

\* A stream of one message, to its end, is that message.
LEMMA WholeMessage ==
    ASSUME NEW s \in Seq(Byte(1)), NEW z, NEW N \in Nat \ {0}, z[1] = N,
           Chain(z, s, <<1, 1>>), End(z, s, <<1, 1>>) = <<2, 1>>
    PROVE Len(s) = N /\ Run(s, 1, 0, N)
<1>1. Len(s) \in Nat /\ (s = <<>> <=> Len(s) = 0) /\ \A i \in 1..Len(s) : s[i] \in Byte(1)
  BY SeqParts
<1> DEFINE n == IF Len(s) < N THEN Len(s) ELSE N
<1>2. Run(s, 1, 0, n)
  <2>1. n \in 0..Len(s) /\ Fits(z, 1, 0, n) /\ Chain(z, s, At(1, 0))
    BY <1>1 DEF Fits, At
  <2>2. 1 \in Nat /\ 0 \in Nat
    OBVIOUS
  <2> HIDE DEF n
  <2> QED
    BY <2>1, <2>2, ChainRun
<1>3. Len(s) # 0
  BY <1>1 DEF End
<1>4. ~(Len(s) < N)
  <2> SUFFICES ASSUME Len(s) < N PROVE FALSE
    OBVIOUS
  <2>1. s[Len(s)] = <<1, Len(s)>>
    BY <1>1, <1>2, <1>3 DEF Run
  <2>2. End(z, s, <<1, 1>>) = <<1, Len(s) + 1>>
    BY <1>1, <1>3, <2>1 DEF End, Succ
  <2> QED
    BY <2>2
<1>5. ~(Len(s) > N)
  <2> SUFFICES ASSUME Len(s) > N PROVE FALSE
    OBVIOUS
  <2>1. N \in 1..n /\ N \in 1..(Len(s) - 1) /\ N + 1 \in 1..Len(s)
    BY <1>1
  <2>2. s[N] = <<1, N>>
    BY <1>2, <2>1 DEF Run
  <2>3. s[N + 1] = Succ(z, <<1, N>>)
    BY <2>1, <2>2 DEF Chain
  <2>4. Succ(z, <<1, N>>) = <<2, 1>>
    BY DEF Succ
  <2> QED
    BY <1>1, <2>1, <2>3, <2>4 DEF Byte
<1> QED
  BY <1>1, <1>2, <1>4, <1>5

\* What is read ahead of the body, and what is on its way, are the body.
LEMMA BodyFollows ==
    ASSUME Base, FrameInv, pc = "request", sent # <<>>, browser = "here",
           sent[1].head <= Len(buf)
    PROVE SubSeq(buf, sent[1].head + 1, Len(buf)) \o net = Body
<1> DEFINE h == sent[1].head
           N == sent[1].head + sent[1].body
           s == buf \o net
           q == SubSeq(buf, h + 1, Len(buf))
<1>1. Len(sent) = 1 /\ h \in Nat \ {0} /\ sent[1].body \in Nat
  <2>1. Len(sent) <= 1
    BY DEF Base, Control
  <2>2. Len(sent) \in Nat \ {0} /\ sent[1].head \in Nat \ {0} /\ sent[1].body \in Nat
    <3>1. Types
      BY DEF Base
    <3> HIDE DEF h, N, s, q
    <3> QED
      BY <3>1, FrameAtType
  <2>3. \A k \in Nat \ {0} : k <= 1 => k = 1
    OBVIOUS
  <2>4. Len(sent) = 1
    BY <2>1, <2>2, <2>3, Zenon
  <2> QED
    BY <2>2, <2>4, Zenon
<1>2. buf \in Seq(Byte(1)) /\ net \in Seq(Byte(1)) /\ h \in 0..Len(buf)
  <2>1. Len(buf) \in Nat
    BY QueueType DEF Base
  <2> QED
    BY <1>1, <2>1 DEF Base, Types
<1>3. Chain(SizesOf(sent), s, <<1, 1>>) /\ End(SizesOf(sent), s, <<1, 1>>) = <<2, 1>>
  <2>1. Rest(sent, TRUE, s, <<1, 1>>)
    BY DEF FrameInv, StreamInv
  <2> QED
    BY <1>1, <2>1 DEF Rest
<1>4. SizesOf(sent)[1] = N /\ N \in Nat \ {0}
  BY <1>1 DEF SizesOf
<1> HIDE DEF h, N
<1>5. /\ SubSeq(s, h + 1, Len(s)) = q \o net /\ s \in Seq(Byte(1))
  <2>1. Back(buf \o net, h) = Back(buf, h) \o net /\ buf \o net \in Seq(Byte(1))
    BY <1>2, BackConcat
  <2> QED
    BY <2>1 DEF Back
<1> HIDE DEF s
<1>6. Len(s) = N /\ Run(s, 1, 0, N)
  BY <1>3, <1>4, <1>5, WholeMessage
<1>7. h \in 0..Len(s) /\ N - h = sent[1].body /\ N \in Nat /\ h \in Nat
  BY <1>1, <1>6 DEF N, h
<1>8. /\ q \o net \in Seq(Byte(1)) /\ Len(q \o net) = sent[1].body
      /\ \A i \in 1..sent[1].body : (q \o net)[i] = s[h + i]
  <2>1. /\ SubSeq(s, h + 1, Len(s)) \in Seq(Byte(1)) /\ Len(SubSeq(s, h + 1, Len(s))) = Len(s) - h
        /\ \A i \in 1..(Len(s) - h) : SubSeq(s, h + 1, Len(s))[i] = s[h + i]
    BY <1>5, <1>7, Split
  <2>2. Len(s) - h = sent[1].body
    BY <1>6, <1>7
  <2> QED
    BY <1>5, <2>1, <2>2
<1>9. \A i \in 1..sent[1].body : s[h + i] = <<1, h + i>>
  <2> SUFFICES ASSUME NEW i \in 1..sent[1].body PROVE s[h + i] = <<1, h + i>>
    OBVIOUS
  <2>1. h + i \in 1..N /\ 0 + (h + i) = h + i
    BY <1>1, <1>7
  <2> QED
    BY <1>6, <2>1 DEF Run
<1> HIDE DEF q
<1>10. q \o net = [i \in 1..sent[1].body |-> (q \o net)[i]]
  BY <1>8, LenProperties
<1>11. q \o net = Body
  BY <1>8, <1>9, <1>10 DEF Body, h
<1> QED
  BY <1>11 DEF q, h

\* mg_read is offered the room of the body: what is read ahead is its front.
LEMMA StartBodyForm == ASSUME FormsAreWhole, Base, FrameInv, BodyInv, StartBody PROVE BodyInv'
<1> USE DEF stream, input, sending
<1>1. /\ pc = "request" /\ sent # <<>> /\ sent[1].head <= Len(buf) /\ answer = "none"
      /\ UNCHANGED <<sent, net, browser, answer>> /\ data' = Ahead
      /\ want' = IF sent[1].length = 0 THEN 0 ELSE Room - Len(Ahead)
  BY FrameAtType, QueueType DEF StartBody, Handle, HeadIsThere, Base, Control
<1>2. ASSUME sent[1].op = "form", browser = "here"
      PROVE data' \o net = Body /\ Len(data') + want' = sent[1].body
  <2> DEFINE q == SubSeq(buf, sent[1].head + 1, Len(buf))
  <2>1. q \o net = Body
    BY <1>1, <1>2, BodyFollows
  <2>2. /\ q \in Seq(Byte(Len(sent))) /\ net \in Seq(Byte(Len(sent)))
    BY <1>1, AheadType DEF Base, Types
  <2>3. sent[1] \in Requests /\ sent[1].length = sent[1].body /\ sent[1].body \in Nat
    BY <1>1, <1>2, FrameAtType DEF Base, FormsAreWhole
  <2>4. Room = sent[1].body
    BY <1>2, <2>3 DEF Room
  <2>5. Ahead = IF sent[1].length = 0 THEN <<>>
                ELSE SubSeq(q, 1, IF Len(q) < Room THEN Len(q) ELSE Room)
    BY DEF Ahead
  <2> HIDE DEF q
  <2>6. Len(q \o net) = Len(q) + Len(net) /\ Len(q) \in Nat /\ Len(net) \in Nat
    BY <2>2, ConcatProperties, SeqParts
  <2>7. Len(Body) = sent[1].body
    BY <2>3 DEF Body
  <2>8. Len(q) <= sent[1].body
    <3>1. Len(q) + Len(net) = sent[1].body
      BY <2>1, <2>6, <2>7
    <3> QED
      BY <2>3, <2>6, <3>1
  <2>9. Ahead = q
    <3>1. CASE sent[1].body = 0
      <4>1. q = <<>>
        BY <2>2, <2>6, <2>8, <3>1, SeqParts
      <4> QED
        BY <2>3, <2>5, <3>1, <4>1
    <3>2. CASE sent[1].body # 0
      <4>1. (IF Len(q) < Room THEN Len(q) ELSE Room) = Len(q)
        BY <2>3, <2>4, <2>6, <2>8
      <4>2. SubSeq(q, 1, Len(q)) = q
        BY <2>2, SubSeqFull
      <4> QED
        BY <2>3, <2>5, <3>2, <4>1, <4>2
    <3> QED
      BY <3>1, <3>2
  <2>10. Len(q) + want' = sent[1].body
    <3>1. CASE sent[1].body = 0
      BY <1>1, <2>3, <2>6, <2>8, <3>1
    <3>2. CASE sent[1].body # 0
      BY <1>1, <2>3, <2>4, <2>6, <2>9, <3>2
    <3> QED
      BY <3>1, <3>2
  <2> QED
    BY <1>1, <2>1, <2>9, <2>10
<1> QED
  BY <1>1, <1>2 DEF BodyInv, BodyIsRead, Body

\* What arrives moves from the socket to the form.
LEMMA ReadBodyForm == ASSUME Base, BodyInv, ReadBody PROVE BodyInv'
<1> USE DEF stream, input, sending
<1>1. PICK n \in 1..want : Pull(n) /\ data' = data \o Arrived(n) /\ want' = want - n
  BY DEF ReadBody
<1>2. UNCHANGED <<sent, browser, answer, pc>> /\ pc = "body" /\ answer = "none"
  BY DEF ReadBody, Base, Control
<1>3. want \in Nat /\ n \in Nat /\ data \in Seq(Byte(Len(sent))) /\ Len(data) \in Nat
  BY <1>1, QueueType DEF Base, Types, TypeOK
<1>4. data' \o net' = data \o net /\ Len(data') = Len(data) + n
  BY <1>1, <1>3, PullParts DEF Base
<1>5. Len(data') + want' = Len(data) + want
  BY <1>1, <1>3, <1>4
<1> QED
  BY <1>2, <1>4, <1>5 DEF BodyInv, BodyIsRead, Body

\* mg_read returns with all of it.
LEMMA EndBodyForm == ASSUME Base, BodyInv, EndBody PROVE BodyInv'
<1> USE DEF stream, input, sending
<1>1. /\ UNCHANGED <<sent, net, browser, data, want, stop_flag>> /\ pc = "body" /\ sent # <<>>
      /\ pc' = "closing"
  BY DEF EndBody, Base, Control
<1>2. ASSUME sent[1].op = "form", browser = "here", ~stop_flag
      PROVE data = Body /\ nread' = sent[1].body
  <2>1. data \o net = Body /\ Len(data) + want = sent[1].body
    BY <1>1, <1>2 DEF BodyInv
  <2>2. /\ data \in Seq(Byte(Len(sent))) /\ net \in Seq(Byte(Len(sent)))
        /\ Len(data) \in Nat /\ Len(net) \in Nat /\ want \in Nat
        /\ sent[1].body \in Nat /\ (net = <<>> <=> Len(net) = 0)
    BY <1>1, FrameAtType, QueueType DEF Base, Types, TypeOK
  <2>3. Len(data) + Len(net) = sent[1].body
    <3>1. Len(data \o net) = Len(data) + Len(net)
      BY <2>2, ConcatProperties
    <3>2. Len(Body) = sent[1].body
      BY <2>2 DEF Body
    <3> QED
      BY <2>1, <3>1, <3>2
  <2>4. want = 0 /\ nread' = Len(data)
    <3>1. CASE want = 0
      BY <1>2, <3>1 DEF EndBody
    <3>2. CASE want # 0
      <4>1. net = <<>>
        BY <1>2, <3>2 DEF EndBody
      <4> QED
        BY <2>1, <2>2, <2>3, <3>2, <4>1
    <3> QED
      BY <3>1, <3>2
  <2>5. net = <<>> /\ Len(data) = sent[1].body
    BY <2>1, <2>2, <2>3, <2>4
  <2>6. data \o net = data
    BY <2>2, <2>5, ConcatEmptySeq
  <2> QED
    BY <2>1, <2>4, <2>5, <2>6
<1> QED
  BY <1>1, <1>2 DEF BodyInv, BodyIsRead, Body

\* Every other step leaves the form alone.
LEMMA NextForm ==
    ASSUME FormsAreWhole PROVE Base /\ FrameInv /\ BodyInv /\ [Next]_vars => BodyInv'
<1> SUFFICES ASSUME Base, FrameInv, BodyInv, [Next]_vars PROVE BodyInv'
  OBVIOUS
<1> USE DEF stream, input, sending
<1>1. CASE StartBody \/ ReadBody \/ EndBody
  BY <1>1, StartBodyForm, ReadBodyForm, EndBodyForm
<1>2. CASE Ask \/ SendFrame
  <2>1. answer' # "reply" /\ pc' # "body"
    BY <1>2 DEF BodyInv, Base, Control, Ask, SendFrame
  <2> QED
    BY <2>1 DEF BodyInv, BodyIsRead
<1>3. CASE Leave
  <2>1. browser' # "here" /\ sent' = sent /\ answer' = answer
    BY <1>3 DEF Leave
  <2> QED
    BY <2>1 DEF BodyInv, BodyIsRead
<1>4. CASE RequestFails \/ BadRequest \/ RedirectToHttpsPort \/ HandleRequest
  <2>1. /\ pc' = "closing" /\ sent' = sent /\ (answer' = "reply" => sent # <<>>)
        /\ answer' = "reply" => sent[1].op # "form"
    BY <1>4 DEF RequestFails, BadRequest, RedirectToHttpsPort, HandleRequest, Handle, HeadIsThere
  <2> QED
    BY <2>1 DEF BodyInv, BodyIsRead
<1>5. CASE \/ ReadRequest \/ RefuseSocket \/ Upgrade
           \/ ReadAhead \/ EndSocket \/ TakeFrame \/ NoMemory \/ ReadPayload \/ PayloadFails
           \/ HandOn \/ ReadyReturns \/ CommandReturns
  <2>1. answer' # "reply" /\ pc' # "body"
    BY <1>5 DEF Base, Control, ReadRequest, RefuseSocket, Upgrade, Handle, ReadAhead, EndSocket,
                TakeFrame, NoMemory, ReadPayload, PayloadFails, HandOn, ReadyReturns,
                CommandReturns, BodyInv
  <2> QED
    BY <2>1 DEF BodyInv, BodyIsRead
<1>6. CASE \/ CloseConnection \/ Stop \/ PingsEnd \/ UNCHANGED vars
           \/ \E w \in Writers \cup {Worker} : WriteHeader(w) \/ WritePayload(w)
  <2>1. /\ UNCHANGED <<stream, input, answer>> /\ (pc' = "body" => pc = "body")
        /\ ~stop_flag' => ~stop_flag
    BY <1>6 DEF CloseConnection, Stop, PingsEnd, vars, WriteHeader, WritePayload
  <2> QED
    BY <2>1 DEF BodyInv, BodyIsRead, Body
<1> QED
  BY <1>1, <1>2, <1>3, <1>4, <1>5, <1>6 DEF Next, Serve

\* A handler that offers mg_read just the room of the form gets all of it,
\* however much of it was read ahead with the head of the request.
THEOREM BodyIsReadTheorem ==
    ASSUME SocketsHaveNoBody, FormsAreWhole PROVE Spec => []BodyIsRead
<1>1. Init => BodyInv
  BY DEF Init, BodyInv, BodyIsRead
<1>2. Base /\ FrameInv /\ BodyInv /\ [Next]_vars => BodyInv'
  BY NextForm
<1>3. BodyInv => BodyIsRead
  BY DEF BodyInv
<1> QED
  BY <1>1, <1>2, <1>3, FrameInvariance, PTL DEF Spec
=============================================================================
