-------------------------- MODULE CommandPipeProofs --------------------------
(***************************************************************************)
(* For any number of writers and readers, any capacity of the pipe and any *)
(* length of the messages: a pipe of DAMN is a lossy channel that delivers *)
(* in order and nothing twice, whoever opens, closes or removes it when.   *)
(*                                                                         *)
(* The argument is about the order of the numbered pieces: those of an     *)
(* older pipe come before those of a newer one, because all who write hold *)
(* one lock (or because there is never a second pipe), and what a reader   *)
(* has got or collected comes before what is in the newest pipe and in the *)
(* one it has open.                                                        *)
(***************************************************************************)
EXTENDS CommandPipe, SequenceTheorems, TLAPS

\* All who write are threads of one process, as for the pipes of a traced
\* app; or the name is never given to a second pipe, as for that of the list.
OneWriterAtATime ==
    \/ \A v, w \in Writers : Proc[v] = Proc[w]
    \/ MaxPipes = 1

Elems(s) == {s[i] : i \in 1..Len(s)}

Increasing(s) == \A i, j \in 1..Len(s) : i < j => s[i] < s[j]

\* All of the set S come before all of the set T.
Before(S, T) == \A x \in S, y \in T : x < y

\* Pipes that are not made yet, and those after one that is written, are empty.
EmptyInv ==
    /\ \A p \in Pipes : p > made => data[p] = <<>>
    /\ \A w \in Writers, p \in Pipes : end[w] # 0 /\ p > end[w] => data[p] = <<>>

\* Ends are open at the program points where they are used only.
EndInv ==
    /\ \A w \in Writers : wpc[w] = "writing" <=> end[w] # 0
    /\ \A r \in Readers : rpc[r] \in {"opening", "reading", "returned", "leaked"} <=> end[r] # 0
    /\ \A r \in Readers : acc[r] # <<>> => rpc[r] \in {"reading", "returned"}
    /\ \A r \in Readers : Len(acc[r]) <= Limit

\* The pieces of a pipe are in order, and before those of a newer pipe.
DataInv ==
    /\ \A p \in Pipes : Increasing(data[p])
    /\ \A p, q \in Pipes : p < q => Before(Elems(data[p]), Elems(data[q]))

\* What a reader has, and what it has collected.
Had(r) == Elems(got[r]) \cup Elems(acc[r])

\* It is in order, and before what the reader may still come to.
OrderInv ==
    \A r \in Readers :
        /\ Increasing(got[r]) /\ Increasing(acc[r]) /\ Before(Elems(got[r]), Elems(acc[r]))
        /\ \A p \in Pipes : p \in {made, end[r]} => Before(Had(r), Elems(data[p]))

\* A piece is in one place.
OnceInv ==
    /\ \A q, r \in Readers : Elems(acc[r]) \cap Elems(got[q]) = {}
    /\ \A q, r \in Readers : q # r => Elems(acc[r]) \cap Elems(acc[q]) = {}
    /\ \A p \in Pipes, r \in Readers : Elems(data[p]) \cap Had(r) = {}

IndInv == TypeOK /\ EmptyInv /\ EndInv /\ DataInv /\ OrderInv /\ OnceInv

-----------------------------------------------------------------------------
(* Sequences of numbers.                                                   *)

\* The elements of a sequence are of its type.
LEMMA ElemsType == ASSUME NEW S, NEW s \in Seq(S) PROVE Elems(s) \subseteq S
BY ElementOfSeq DEF Elems

\* The empty sequence.
LEMMA EmptyElems == Elems(<<>>) = {} /\ Increasing(<<>>)
BY DEF Elems, Increasing

\* What Append adds.
LEMMA AppendElems ==
    ASSUME NEW s \in Seq(Int), NEW x \in Int
    PROVE Elems(Append(s, x)) = Elems(s) \cup {x}
<1>1. Len(s) \in Nat
  BY LenProperties
<1> QED
  BY <1>1, AppendProperties DEF Elems

\* An element that comes after all others keeps the order.
LEMMA AppendIncreasing ==
    ASSUME NEW s \in Seq(Int), NEW x \in Int, Increasing(s), \A y \in Elems(s) : y < x
    PROVE Increasing(Append(s, x))
<1>1. Len(s) \in Nat
  BY LenProperties
<1> QED
  BY <1>1, AppendProperties DEF Elems, Increasing

\* The first element of an ordered sequence comes before the rest.
LEMMA TailElems ==
    ASSUME NEW s \in Seq(Int), s # <<>>, Increasing(s)
    PROVE /\ Head(s) \in Elems(s) /\ Elems(Tail(s)) \subseteq Elems(s)
          /\ Increasing(Tail(s)) /\ \A y \in Elems(Tail(s)) : Head(s) < y
<1>1. Len(s) \in Nat \ {0} /\ Head(s) = s[1]
  BY LenProperties, EmptySeq
<1>2. Len(Tail(s)) = Len(s) - 1 /\ \A i \in 1..(Len(s) - 1) : Tail(s)[i] = s[i + 1]
  BY HeadTailProperties
<1> QED
  BY <1>1, <1>2 DEF Elems, Increasing

\* The elements of a concatenation.
LEMMA ConcatElems ==
    ASSUME NEW s \in Seq(Int), NEW t \in Seq(Int)
    PROVE Elems(s \o t) = Elems(s) \cup Elems(t)
<1>1. /\ Len(s) \in Nat /\ Len(t) \in Nat /\ Len(s \o t) = Len(s) + Len(t)
      /\ \A i \in 1..(Len(s) + Len(t)) :
            (s \o t)[i] = IF i <= Len(s) THEN s[i] ELSE t[i - Len(s)]
  BY LenProperties, ConcatProperties
<1>2. \A i \in 1..Len(s) : i \in 1..(Len(s) + Len(t)) /\ (s \o t)[i] = s[i]
  BY <1>1
<1>3. \A i \in 1..Len(t) : Len(s) + i \in 1..(Len(s) + Len(t)) /\ (s \o t)[Len(s) + i] = t[i]
  BY <1>1
<1>4. ASSUME NEW i \in 1..(Len(s) + Len(t))
      PROVE  (s \o t)[i] \in Elems(s) \cup Elems(t)
  <2>1. CASE i <= Len(s)
    BY <1>1, <2>1 DEF Elems
  <2>2. CASE ~(i <= Len(s))
    <3>1. i - Len(s) \in 1..Len(t) /\ (s \o t)[i] = t[i - Len(s)]
      BY <1>1, <2>2
    <3> QED
      BY <3>1 DEF Elems
  <2> QED
    BY <2>1, <2>2
<1>5. Elems(s \o t) \subseteq Elems(s) \cup Elems(t)
  BY <1>1, <1>4 DEF Elems
<1>6. ASSUME NEW i \in 1..Len(s) PROVE s[i] \in Elems(s \o t)
  BY <1>1, <1>2 DEF Elems
<1>7. ASSUME NEW i \in 1..Len(t) PROVE t[i] \in Elems(s \o t)
  <2>1. Len(s) + i \in 1..Len(s \o t) /\ (s \o t)[Len(s) + i] = t[i]
    BY <1>1, <1>3
  <2> QED
    BY <2>1 DEF Elems
<1>8. Elems(s) \subseteq Elems(s \o t) /\ Elems(t) \subseteq Elems(s \o t)
  BY <1>6, <1>7 DEF Elems
<1> QED
  BY <1>5, <1>8

\* Two ordered sequences, one before the other, are one ordered sequence.
LEMMA ConcatIncreasing ==
    ASSUME NEW s \in Seq(Int), NEW t \in Seq(Int),
           Increasing(s), Increasing(t), Before(Elems(s), Elems(t))
    PROVE Increasing(s \o t)
<1>1. /\ Len(s) \in Nat /\ Len(t) \in Nat /\ Len(s \o t) = Len(s) + Len(t)
      /\ \A i \in 1..(Len(s) + Len(t)) :
            (s \o t)[i] = IF i <= Len(s) THEN s[i] ELSE t[i - Len(s)]
  BY LenProperties, ConcatProperties
<1> SUFFICES ASSUME NEW i \in 1..(Len(s) + Len(t)), NEW j \in 1..(Len(s) + Len(t)), i < j
             PROVE  (s \o t)[i] < (s \o t)[j]
  BY <1>1 DEF Increasing
<1>2. CASE j <= Len(s)
  BY <1>1, <1>2 DEF Increasing
<1>3. CASE i <= Len(s) /\ ~(j <= Len(s))
  <2>1. s[i] \in Elems(s) /\ (s \o t)[i] = s[i]
    BY <1>1, <1>3 DEF Elems
  <2>2. j - Len(s) \in 1..Len(t) /\ (s \o t)[j] = t[j - Len(s)]
    BY <1>1, <1>3
  <2> QED
    BY <2>1, <2>2 DEF Elems, Before
<1>4. CASE ~(i <= Len(s))
  <2>1. /\ i - Len(s) \in 1..Len(t) /\ j - Len(s) \in 1..Len(t) /\ i - Len(s) < j - Len(s)
        /\ (s \o t)[i] = t[i - Len(s)] /\ (s \o t)[j] = t[j - Len(s)]
    BY <1>1, <1>4
  <2> QED
    BY <2>1 DEF Increasing
<1> QED
  BY <1>1, <1>2, <1>3, <1>4

-----------------------------------------------------------------------------
\* What is in order stays so when data is dropped, and readers turn to the
\* newest pipe.
LEMMA OrderKept ==
    ASSUME IndInv, acc' = acc, got' = got, made' \in Nat,
           \A p \in Pipes : data'[p] \in {data[p], <<>>},
           \A r \in Readers, p \in Pipes :
                p \in {made', end'[r]} => p \in {made, end[r]} \/ data'[p] = <<>>
    PROVE DataInv' /\ OrderInv' /\ OnceInv'
<1>1. \A p \in Pipes : Increasing(data'[p]) /\ Elems(data'[p]) \subseteq Elems(data[p])
  BY EmptyElems DEF IndInv, DataInv
<1>2. DataInv'
  BY <1>1 DEF IndInv, DataInv, Before
<1>3. \A r \in Readers : Had(r)' = Had(r)
  BY DEF Had
<1>4. OrderInv'
  BY <1>1, <1>3, EmptyElems DEF IndInv, OrderInv, Before
<1>5. OnceInv'
  <2>1. ASSUME NEW p \in Pipes, NEW r \in Readers PROVE Elems(data'[p]) \cap Had(r)' = {}
    BY <1>1, <1>3 DEF IndInv, OnceInv
  <2> QED
    BY <2>1 DEF IndInv, OnceInv
<1> QED
  BY <1>2, <1>4, <1>5

\* The types of the sequences.
LEMMA SeqTypes ==
    ASSUME IndInv
    PROVE /\ \A p \in Pipes : data[p] \in Seq(Int) /\ Elems(data[p]) \subseteq 1..sent
          /\ \A r \in Readers : /\ acc[r] \in Seq(Int) /\ Elems(acc[r]) \subseteq 1..sent
                                /\ got[r] \in Seq(Int) /\ Elems(got[r]) \subseteq 1..sent
          /\ sent \in Nat /\ 1..sent \subseteq Int
<1>1. sent \in Nat /\ 1..sent \subseteq Int
  BY DEF IndInv, TypeOK
<1>2. \A x \in Seq(1..sent) : x \in Seq(Int) /\ Elems(x) \subseteq 1..sent
  BY <1>1, SeqMonotonic, ElemsType
<1> QED
  BY <1>1, <1>2 DEF IndInv, TypeOK

\* A step that creates the missing pipe, or finds it.
LEMMA CreateKeeps ==
    ASSUME IndInv, Create, data' = data, acc' = acc, got' = got, end' = end
    PROVE /\ made' \in made..MaxPipes /\ name' \in {0, made'}
          /\ EmptyInv' /\ DataInv' /\ OrderInv' /\ OnceInv'
<1>1. made' \in made..MaxPipes /\ name' \in {0, made'}
  BY PipeAssumption DEF IndInv, TypeOK, Create, files
<1>2. made' \in Nat /\ \A p \in Pipes : p = made' => p = made \/ data[p] = <<>>
  BY <1>1, PipeAssumption DEF IndInv, TypeOK, EmptyInv, Create, files, Pipes
<1>3. EmptyInv'
  BY <1>1, PipeAssumption DEF IndInv, TypeOK, EmptyInv, Pipes
<1>4. DataInv' /\ OrderInv' /\ OnceInv'
  <2>1. \A r \in Readers, p \in Pipes :
            p \in {made', end'[r]} => p \in {made, end[r]} \/ data'[p] = <<>>
    BY <1>2
  <2>2. \A p \in Pipes : data'[p] \in {data[p], <<>>}
    OBVIOUS
  <2> QED
    BY <1>2, <2>1, <2>2, OrderKept
<1> QED
  BY <1>1, <1>3, <1>4

-----------------------------------------------------------------------------
(* One lemma for each action.                                              *)

USE PipeAssumption DEF Procs, files

\* A writer takes the lock and creates the pipe.
LEMMA LockStep == ASSUME IndInv, NEW w \in Writers, Lock(w) PROVE IndInv'
<1>1. Create \/ UNCHANGED files
  BY DEF Lock
<1>2. /\ made' \in made..MaxPipes /\ name' \in {0, made'}
      /\ EmptyInv' /\ DataInv' /\ OrderInv' /\ OnceInv'
  <2>1. CASE Create
    BY <2>1, CreateKeeps DEF Lock
  <2>2. CASE UNCHANGED files
    <3>1. EmptyInv'
      BY <2>2 DEF IndInv, EmptyInv, Lock
    <3>2. DataInv' /\ OrderInv' /\ OnceInv'
      BY <2>2, OrderKept DEF IndInv, TypeOK, Lock
    <3> QED
      BY <2>2, <3>1, <3>2 DEF IndInv, TypeOK
  <2> QED
    BY <1>1, <2>1, <2>2
<1>3. end' \in [Writers \cup Readers -> 0..made']
  BY <1>2 DEF IndInv, TypeOK, Lock
<1>4. /\ rwlock' \in [Procs -> Writers \cup {NoWriter}]
      /\ wpc' \in [Writers -> {"idle", "locked", "writing"}]
      /\ \A v \in Writers : wpc'[v] # "idle" <=> rwlock'[Proc[v]] = v
  BY DEF IndInv, TypeOK, Lock
<1>5. TypeOK'
  BY <1>2, <1>3, <1>4 DEF IndInv, TypeOK, Lock
<1>6. EndInv'
  BY DEF IndInv, TypeOK, EndInv, Lock
<1> QED
  BY <1>2, <1>5, <1>6 DEF IndInv

\* A writer opens the pipe, and the readers in fopen go on.
LEMMA OpenToWriteStep == ASSUME IndInv, NEW w \in Writers, OpenToWrite(w) PROVE IndInv'
<1>1. TypeOK'
  <2>1. end' \in [Writers \cup Readers -> 0..made]
    BY DEF IndInv, TypeOK, OpenToWrite
  <2>2. left' \in [Writers -> 0..MaxSize]
    BY DEF IndInv, TypeOK, OpenToWrite
  <2>3. rpc' \in [Readers -> {"start", "closed", "opening", "reading", "returned", "leaked", "ended"}]
    BY DEF IndInv, TypeOK, OpenToWrite
  <2>4. /\ wpc' \in [Writers -> {"idle", "locked", "writing"}]
        /\ \A v \in Writers : wpc'[v] # "idle" <=> rwlock'[Proc[v]] = v
    BY DEF IndInv, TypeOK, OpenToWrite
  <2> QED
    BY <2>1, <2>2, <2>3, <2>4 DEF IndInv, TypeOK, OpenToWrite
<1>2. EmptyInv'
  BY DEF IndInv, TypeOK, EmptyInv, OpenToWrite
<1>3. EndInv'
  BY DEF IndInv, TypeOK, EndInv, OpenToWrite
<1>4. DataInv' /\ OrderInv' /\ OnceInv'
  BY OrderKept DEF IndInv, TypeOK, OpenToWrite
<1> QED
  BY <1>1, <1>2, <1>3, <1>4 DEF IndInv

\* There is no pipe to write to.
LEMMA OpenFailsStep == ASSUME IndInv, NEW w \in Writers, OpenFails(w) PROVE IndInv'
<1>1. TypeOK'
  BY DEF IndInv, TypeOK, OpenFails
<1>2. EmptyInv' /\ EndInv'
  BY DEF IndInv, TypeOK, EmptyInv, EndInv, OpenFails
<1>3. DataInv' /\ OrderInv' /\ OnceInv'
  BY OrderKept DEF IndInv, TypeOK, OpenFails
<1> QED
  BY <1>1, <1>2, <1>3 DEF IndInv

\* A reader creates the pipe.
LEMMA ReaderCreatesStep == ASSUME IndInv, NEW r \in Readers, ReaderCreates(r) PROVE IndInv'
<1>1. /\ made' \in made..MaxPipes /\ name' \in {0, made'}
      /\ EmptyInv' /\ DataInv' /\ OrderInv' /\ OnceInv'
  BY CreateKeeps DEF ReaderCreates
<1>2. TypeOK'
  BY <1>1 DEF IndInv, TypeOK, ReaderCreates
<1>3. EndInv'
  BY DEF IndInv, TypeOK, EndInv, ReaderCreates
<1> QED
  BY <1>1, <1>2, <1>3 DEF IndInv

\* A reader opens the pipe.
LEMMA OpenToReadStep == ASSUME IndInv, NEW r \in Readers, OpenToRead(r) PROVE IndInv'
<1>1. TypeOK'
  BY DEF IndInv, TypeOK, OpenToRead
<1>2. EmptyInv' /\ EndInv'
  BY DEF IndInv, TypeOK, EmptyInv, EndInv, OpenToRead
<1>3. DataInv' /\ OrderInv' /\ OnceInv'
  BY OrderKept DEF IndInv, TypeOK, OpenToRead
<1> QED
  BY <1>1, <1>2, <1>3 DEF IndInv

\* There is no pipe to read from.
LEMMA OpenReadFailsStep == ASSUME IndInv, NEW r \in Readers, OpenReadFails(r) PROVE IndInv'
<1>1. TypeOK'
  BY DEF IndInv, TypeOK, OpenReadFails
<1>2. EmptyInv' /\ EndInv'
  BY DEF IndInv, TypeOK, EmptyInv, EndInv, OpenReadFails
<1>3. DataInv' /\ OrderInv' /\ OnceInv'
  BY OrderKept DEF IndInv, TypeOK, OpenReadFails
<1> QED
  BY <1>1, <1>2, <1>3 DEF IndInv

\* fgets returns.
LEMMA ReadReturnsStep == ASSUME IndInv, NEW r \in Readers, ReadReturns(r) PROVE IndInv'
<1>1. TypeOK'
  BY DEF IndInv, TypeOK, ReadReturns
<1>2. EmptyInv' /\ EndInv'
  BY DEF IndInv, TypeOK, EmptyInv, EndInv, ReadReturns
<1>3. DataInv' /\ OrderInv' /\ OnceInv'
  BY OrderKept DEF IndInv, TypeOK, ReadReturns
<1> QED
  BY <1>1, <1>2, <1>3 DEF IndInv

\* fgets finds the end of the file.
LEMMA ReadNothingStep == ASSUME IndInv, NEW r \in Readers, ReadNothing(r) PROVE IndInv'
<1>1. TypeOK'
  BY DEF IndInv, TypeOK, ReadNothing
<1>2. EmptyInv' /\ EndInv'
  BY DEF IndInv, TypeOK, EmptyInv, EndInv, ReadNothing
<1>3. DataInv' /\ OrderInv' /\ OnceInv'
  BY OrderKept DEF IndInv, TypeOK, ReadNothing
<1> QED
  BY <1>1, <1>2, <1>3 DEF IndInv

\* The name is removed.
LEMMA RemoveStep == ASSUME IndInv, Remove PROVE IndInv'
<1>1. TypeOK'
  BY DEF IndInv, TypeOK, Remove
<1>2. EmptyInv' /\ EndInv'
  BY DEF IndInv, TypeOK, EmptyInv, EndInv, Remove
<1>3. DataInv' /\ OrderInv' /\ OnceInv'
  BY OrderKept DEF IndInv, TypeOK, Remove
<1> QED
  BY <1>1, <1>2, <1>3 DEF IndInv

\* A closed end leaves each pipe as it was or empty.
LEMMA DiscardEmpties ==
    ASSUME IndInv, NEW u
    PROVE /\ Discard(u) \in [Pipes -> Seq(1..sent)]
          /\ \A p \in Pipes : Discard(u)[p] \in {data[p], <<>>}
<1>1. <<>> \in Seq(1..sent)
  BY EmptySeq
<1> QED
  BY <1>1 DEF Discard, IndInv, TypeOK

\* A writer closes the pipe and gives the lock up.
LEMMA CloseToWriteStep == ASSUME IndInv, NEW w \in Writers, CloseToWrite(w) PROVE IndInv'
<1>1. /\ data' \in [Pipes -> Seq(1..sent)]
      /\ \A p \in Pipes : data'[p] \in {data[p], <<>>}
  BY DiscardEmpties DEF CloseToWrite
<1>2. \A p \in Pipes : Len(data'[p]) <= Capacity
  BY <1>1, EmptySeq DEF IndInv, TypeOK
<1>3. /\ rwlock' \in [Procs -> Writers \cup {NoWriter}]
      /\ wpc' \in [Writers -> {"idle", "locked", "writing"}]
      /\ \A v \in Writers : wpc'[v] # "idle" <=> rwlock'[Proc[v]] = v
  BY DEF IndInv, TypeOK, CloseToWrite
<1>4. end' \in [Writers \cup Readers -> 0..made]
  BY DEF IndInv, TypeOK, CloseToWrite
<1>5. TypeOK'
  BY <1>1, <1>2, <1>3, <1>4 DEF IndInv, TypeOK, CloseToWrite
<1>6. EmptyInv'
  BY <1>1 DEF IndInv, TypeOK, EmptyInv, CloseToWrite
<1>7. EndInv'
  BY DEF IndInv, TypeOK, EndInv, CloseToWrite
<1>8. DataInv' /\ OrderInv' /\ OnceInv'
  BY <1>1, OrderKept DEF IndInv, TypeOK, CloseToWrite
<1> QED
  BY <1>5, <1>6, <1>7, <1>8 DEF IndInv

\* Only one writer has a pipe open.
LEMMA NobodyElseWrites ==
    ASSUME IndInv, OneWriterAtATime, NEW v \in Writers, NEW w \in Writers,
           wpc[v] = "writing", wpc[w] = "writing"
    PROVE end[v] = end[w]
<1>1. CASE \A x, y \in Writers : Proc[x] = Proc[y]
  <2>1. rwlock[Proc[v]] = v /\ rwlock[Proc[w]] = w
    BY DEF IndInv, TypeOK
  <2>2. Proc[v] = Proc[w]
    BY <1>1
  <2> QED
    BY <2>1, <2>2
<1>2. CASE MaxPipes = 1
  <2>1. end[v] \in 0..1 /\ end[w] \in 0..1 /\ end[v] # 0 /\ end[w] # 0
    BY <1>2 DEF IndInv, TypeOK, EndInv
  <2> QED
    BY <2>1
<1> QED
  BY <1>1, <1>2 DEF OneWriterAtATime

\* A piece is written: it comes after every other, in the last pipe with data.
LEMMA WriteStep ==
    ASSUME IndInv, OneWriterAtATime, NEW w \in Writers, Write(w) PROVE IndInv'
<1> DEFINE p == end[w]
<1>1. /\ p \in Pipes /\ p <= made /\ made \in Nat /\ sent \in Nat /\ sent' = sent + 1
      /\ data' = [data EXCEPT ![p] = Append(data[p], sent + 1)]
      /\ data \in [Pipes -> Seq(1..sent)]
  BY DEF IndInv, TypeOK, EndInv, Write, Pipes
<1>2. data[p] \in Seq(Int) /\ Elems(data[p]) \subseteq 1..sent
  BY <1>1, SeqTypes
<1>3. /\ Elems(data'[p]) = Elems(data[p]) \cup {sent + 1}
      /\ Increasing(data'[p])
  <2>1. data'[p] = Append(data[p], sent + 1)
    BY <1>1
  <2>2. Increasing(data[p]) /\ \A y \in Elems(data[p]) : y < sent + 1
    BY <1>1, <1>2 DEF IndInv, DataInv
  <2> QED
    BY <1>1, <1>2, <2>1, <2>2, AppendElems, AppendIncreasing
<1>4. \A q \in Pipes : q # p => data'[q] = data[q]
  BY <1>1
<1>5. \A q \in Pipes : q > p => data[q] = <<>>
  BY <1>1 DEF IndInv, EmptyInv, Pipes
<1>6. TypeOK'
  <2>1. \A x \in Seq(1..sent) : x \in Seq(1..(sent + 1))
    BY <1>1, SeqMonotonic
  <2>2. data' \in [Pipes -> Seq(1..sent')]
    <3>1. Append(data[p], sent + 1) \in Seq(1..(sent + 1))
      BY <1>1, <2>1, AppendProperties
    <3> QED
      BY <1>1, <2>1, <3>1
  <2>3. acc' \in [Readers -> Seq(1..sent')] /\ got' \in [Readers -> Seq(1..sent')]
    BY <1>1, <2>1 DEF IndInv, TypeOK, Write
  <2>4. \A q \in Pipes : Len(data'[q]) <= Capacity
    <3>1. Len(data'[p]) = Len(data[p]) + 1 /\ Len(data[p]) \in Nat
      BY <1>1, <1>2, AppendProperties, LenProperties
    <3> QED
      BY <1>4, <3>1 DEF IndInv, TypeOK, Write
  <2>5. left' \in [Writers -> 0..MaxSize]
    BY DEF IndInv, TypeOK, Write
  <2> QED
    BY <1>1, <2>2, <2>3, <2>4, <2>5 DEF IndInv, TypeOK, Write
<1>7. EmptyInv'
  <2>1. ASSUME NEW q \in Pipes, q > made PROVE data'[q] = <<>>
    BY <1>1, <1>4, <2>1 DEF IndInv, EmptyInv, Pipes
  <2>2. ASSUME NEW v \in Writers, NEW q \in Pipes, end[v] # 0, q > end[v]
        PROVE  data'[q] = <<>>
    <3>1. end[v] = p
      BY <2>2, NobodyElseWrites DEF IndInv, EndInv, Write
    <3>2. q # p
      BY <2>2, <3>1, <1>1 DEF Pipes
    <3> QED
      BY <1>4, <1>5, <2>2, <3>1, <3>2
  <2> QED
    BY <2>1, <2>2 DEF EmptyInv, Write
<1>8. EndInv'
  BY DEF IndInv, TypeOK, EndInv, Write
<1>9. DataInv'
  <2>1. \A q \in Pipes : Increasing(data'[q])
    BY <1>3, <1>4 DEF IndInv, DataInv
  <2>2. ASSUME NEW q \in Pipes, NEW z \in Pipes, q < z
        PROVE  Before(Elems(data'[q]), Elems(data'[z]))
    <3>1. CASE q = p
      BY <1>4, <1>5, <2>2, <3>1, EmptyElems DEF Before, Pipes
    <3>2. CASE z = p
      <4>1. Elems(data[q]) \subseteq 1..sent
        BY SeqTypes
      <4> QED
        BY <1>1, <1>3, <1>4, <2>2, <3>2, <4>1 DEF IndInv, DataInv, Before, Pipes
    <3> QED
      BY <1>4, <2>2, <3>1, <3>2 DEF IndInv, DataInv
  <2> QED
    BY <2>1, <2>2 DEF DataInv
<1>10. ASSUME NEW r \in Readers PROVE Had(r)' = Had(r) /\ Had(r) \subseteq 1..sent
  BY SeqTypes DEF Had, Write
<1>11. OrderInv'
  <2>1. ASSUME NEW r \in Readers, NEW q \in Pipes, q \in {made, end[r]}
        PROVE  Before(Had(r), Elems(data'[q]))
    <3>1. Before(Had(r), Elems(data[q]))
      BY <2>1 DEF IndInv, OrderInv
    <3>2. Elems(data'[q]) \subseteq Elems(data[q]) \cup {sent + 1}
      BY <1>3, <1>4
    <3> QED
      BY <1>1, <1>10, <3>1, <3>2 DEF Before
  <2>2. got' = got /\ acc' = acc /\ made' = made /\ end' = end
    BY DEF Write
  <2>3. ASSUME NEW r \in Readers
        PROVE  /\ Increasing(got'[r]) /\ Increasing(acc'[r])
               /\ Before(Elems(got'[r]), Elems(acc'[r]))
    BY <2>2 DEF IndInv, OrderInv
  <2>4. ASSUME NEW r \in Readers, NEW q \in Pipes, q \in {made', end'[r]}
        PROVE  Before(Had(r)', Elems(data'[q]))
    BY <1>10, <2>1, <2>2, <2>4
  <2> QED
    BY <2>3, <2>4 DEF OrderInv
<1>12. OnceInv'
  <2>1. ASSUME NEW q \in Pipes, NEW r \in Readers PROVE Elems(data'[q]) \cap Had(r)' = {}
    <3>1. Elems(data'[q]) \subseteq Elems(data[q]) \cup {sent + 1}
      BY <1>3, <1>4
    <3>2. Elems(data[q]) \cap Had(r) = {}
      BY DEF IndInv, OnceInv
    <3>3. sent + 1 \notin Had(r)
      BY <1>1, <1>10
    <3> QED
      BY <1>10, <3>1, <3>2, <3>3
  <2> QED
    BY <2>1 DEF IndInv, OnceInv, Write
<1> QED
  BY <1>6, <1>7, <1>8, <1>9, <1>11, <1>12 DEF IndInv

\* A piece is read: it comes before what the reader may still come to.
LEMMA ReadStep == ASSUME IndInv, NEW r \in Readers, Read(r) PROVE IndInv'
<1> DEFINE p == end[r]
           x == Head(data[p])
<1>1. /\ p \in Pipes /\ p <= made /\ made \in Nat /\ data[p] # <<>>
      /\ data' = [data EXCEPT ![p] = Tail(data[p])]
      /\ acc' = [acc EXCEPT ![r] = Append(acc[r], x)]
      /\ data \in [Pipes -> Seq(1..sent)] /\ acc \in [Readers -> Seq(1..sent)]
      /\ UNCHANGED <<files, rwlock, wpc, left, rpc, end, sent, got>>
  BY DEF IndInv, TypeOK, EndInv, Read, Pipes
<1>2. /\ data[p] \in Seq(Int) /\ Increasing(data[p])
      /\ acc[r] \in Seq(Int) /\ Increasing(acc[r]) /\ Elems(acc[r]) \subseteq Int
      /\ got[r] \in Seq(Int) /\ Elems(got[r]) \subseteq Int
  BY <1>1, SeqTypes, ElemsType DEF IndInv, DataInv, OrderInv
<1>3. /\ x \in Elems(data[p]) /\ x \in 1..sent /\ x \in Int
      /\ Elems(data'[p]) \subseteq Elems(data[p]) /\ Increasing(data'[p])
      /\ \A y \in Elems(data'[p]) : x < y
  BY <1>1, <1>2, TailElems, SeqTypes
<1>4. \A q \in Pipes : q # p => data'[q] = data[q]
  BY <1>1
<1>5. Elems(acc'[r]) = Elems(acc[r]) \cup {x} /\ \A q \in Readers : q # r => acc'[q] = acc[q]
  BY <1>1, <1>2, <1>3, AppendElems
<1>6. Had(r)' = Had(r) \cup {x} /\ \A q \in Readers : q # r => Had(q)' = Had(q)
  BY <1>1, <1>5 DEF Had
<1>7. \A y \in Had(r) : y < x
  BY <1>1, <1>3 DEF IndInv, OrderInv, Before
<1>8. TypeOK'
  <2>1. data' \in [Pipes -> Seq(1..sent)]
    BY <1>1, HeadTailProperties
  <2>2. acc' \in [Readers -> Seq(1..sent)]
    BY <1>1, <1>3, AppendProperties
  <2>3. \A q \in Pipes : Len(data'[q]) <= Capacity
    <3>1. Len(data'[p]) = Len(data[p]) - 1 /\ Len(data[p]) \in Nat
      BY <1>1, <1>2, HeadTailProperties, LenProperties
    <3> QED
      BY <1>1, <1>4, <3>1 DEF IndInv, TypeOK
  <2> QED
    BY <1>1, <2>1, <2>2, <2>3 DEF IndInv, TypeOK
<1>9. EmptyInv'
  <2>1. \A q \in Pipes : data[q] = <<>> => data'[q] = <<>>
    BY <1>1, <1>4
  <2> QED
    BY <1>1, <2>1 DEF IndInv, EmptyInv
<1>10. EndInv'
  <2>1. Len(acc'[r]) = Len(acc[r]) + 1 /\ Len(acc[r]) \in Nat
    BY <1>1, <1>2, <1>3, AppendProperties, LenProperties
  <2>2. Len(acc'[r]) <= Limit
    BY <2>1 DEF Read
  <2> QED
    BY <1>1, <1>5, <2>2 DEF IndInv, EndInv, Read
<1>11. DataInv'
  <2>1. \A q \in Pipes : Elems(data'[q]) \subseteq Elems(data[q]) /\ Increasing(data'[q])
    BY <1>3, <1>4 DEF IndInv, DataInv
  <2> QED
    BY <2>1 DEF IndInv, DataInv, Before
<1>12. OrderInv'
  <2>1. /\ Increasing(acc'[r]) /\ Before(Elems(got[r]), Elems(acc'[r]))
    BY <1>1, <1>2, <1>3, <1>5, <1>7, AppendIncreasing DEF IndInv, OrderInv, Before, Had
  <2>2. ASSUME NEW z \in Pipes, z \in {made, end[r]}
        PROVE  Before(Had(r) \cup {x}, Elems(data'[z]))
    <3>1. Before(Had(r), Elems(data[z])) /\ Elems(data'[z]) \subseteq Elems(data[z])
      BY <1>3, <1>4, <2>2 DEF IndInv, OrderInv
    <3>2. ASSUME NEW y \in Elems(data'[z]) PROVE x < y
      <4>1. CASE z = p
        BY <1>3, <4>1
      <4>2. CASE z # p
        <5>1. p < z
          BY <1>1, <2>2, <4>2 DEF Pipes
        <5> QED
          BY <1>1, <1>3, <3>1, <5>1 DEF IndInv, DataInv, Before
      <4> QED
        BY <4>1, <4>2
    <3> QED
      BY <3>1, <3>2 DEF Before
  <2>3. ASSUME NEW q \in Readers, q # r, NEW z \in Pipes, z \in {made, end[q]}
        PROVE  Before(Had(q), Elems(data'[z]))
    BY <1>3, <1>4, <2>3 DEF IndInv, OrderInv, Before
  <2>4. ASSUME NEW q \in Readers, NEW z \in Pipes, z \in {made', end'[q]}
        PROVE  Before(Had(q)', Elems(data'[z]))
    BY <1>1, <1>6, <2>2, <2>3, <2>4
  <2>5. ASSUME NEW q \in Readers
        PROVE  /\ Increasing(got'[q]) /\ Increasing(acc'[q])
               /\ Before(Elems(got'[q]), Elems(acc'[q]))
    BY <1>1, <1>5, <2>1 DEF IndInv, OrderInv
  <2> QED
    BY <2>4, <2>5 DEF OrderInv
<1>13. OnceInv'
  <2>1. \A q \in Readers : x \notin Had(q)
    BY <1>1, <1>3 DEF IndInv, OnceInv
  <2>2. ASSUME NEW z \in Pipes PROVE x \notin Elems(data'[z])
    <3>1. CASE z = p
      BY <1>3, <3>1
    <3>2. CASE z # p
      <4>1. z < p \/ p < z
        BY <1>1, <3>2 DEF Pipes
      <4>2. ~(x < x)
        BY <1>3
      <4> QED
        BY <1>1, <1>3, <1>4, <3>2, <4>1, <4>2 DEF IndInv, DataInv, Before
    <3> QED
      BY <3>1, <3>2
  <2>3. ASSUME NEW z \in Pipes, NEW q \in Readers PROVE Elems(data'[z]) \cap Had(q)' = {}
    <3>1. Elems(data[z]) \cap Had(q) = {} /\ Elems(data'[z]) \subseteq Elems(data[z])
      BY <1>3, <1>4 DEF IndInv, OnceInv
    <3> QED
      BY <1>6, <2>2, <3>1
  <2>4. ASSUME NEW q \in Readers, NEW z \in Readers
        PROVE  /\ Elems(acc'[z]) \cap Elems(got'[q]) = {}
               /\ q # z => Elems(acc'[z]) \cap Elems(acc'[q]) = {}
    <3>1. x \notin Elems(got[q]) /\ x \notin Elems(acc[q]) /\ x \notin Elems(acc[z])
      BY <2>1 DEF Had
    <3>2. /\ Elems(acc[z]) \cap Elems(got[q]) = {}
          /\ q # z => Elems(acc[z]) \cap Elems(acc[q]) = {}
      BY DEF IndInv, OnceInv
    <3> QED
      BY <1>1, <1>5, <3>1, <3>2
  <2> QED
    BY <2>3, <2>4 DEF OnceInv
<1> QED
  BY <1>8, <1>9, <1>10, <1>11, <1>12, <1>13 DEF IndInv

\* A reader closes the pipe and hands on what it has collected.
LEMMA CloseToReadStep == ASSUME IndInv, NEW r \in Readers, CloseToRead(r) PROVE IndInv'
<1>1. /\ data' \in [Pipes -> Seq(1..sent)]
      /\ \A p \in Pipes : data'[p] \in {data[p], <<>>}
  BY DiscardEmpties DEF CloseToRead
<1>2. /\ end' = [end EXCEPT ![r] = 0] /\ got' = [got EXCEPT ![r] = got[r] \o acc[r]]
      /\ acc' = [acc EXCEPT ![r] = <<>>] /\ UNCHANGED <<files, rwlock, wpc, left, sent>>
  BY DEF CloseToRead
<1>3. /\ acc \in [Readers -> Seq(1..sent)] /\ got \in [Readers -> Seq(1..sent)]
      /\ end \in [Writers \cup Readers -> 0..made]
  BY DEF IndInv, TypeOK
<1>4. /\ acc'[r] = <<>> /\ got'[r] = got[r] \o acc[r] /\ end'[r] = 0
      /\ \A u \in Writers \cup Readers : u # r => end'[u] = end[u]
      /\ \A q \in Readers : q # r => acc'[q] = acc[q] /\ got'[q] = got[q]
  BY <1>2, <1>3
<1>5. /\ Elems(got'[r]) = Elems(got[r]) \cup Elems(acc[r]) /\ Increasing(got'[r])
      /\ Elems(acc'[r]) = {} /\ Increasing(acc'[r])
  BY <1>4, SeqTypes, ConcatElems, ConcatIncreasing, EmptyElems DEF IndInv, OrderInv
<1>6. \A q \in Readers : Had(q)' = Had(q)
  BY <1>4, <1>5 DEF Had
<1>7. TypeOK'
  <2>1. got' \in [Readers -> Seq(1..sent)] /\ acc' \in [Readers -> Seq(1..sent)]
    BY <1>2, <1>3, ConcatProperties, EmptySeq
  <2>2. \A p \in Pipes : Len(data'[p]) <= Capacity
    BY <1>1, EmptySeq DEF IndInv, TypeOK
  <2>3. rpc' \in [Readers -> {"start", "closed", "opening", "reading", "returned", "leaked", "ended"}]
    BY DEF IndInv, TypeOK, CloseToRead
  <2>4. end' \in [Writers \cup Readers -> 0..made]
    BY <1>2 DEF IndInv, TypeOK
  <2> QED
    BY <1>1, <1>2, <2>1, <2>2, <2>3, <2>4 DEF IndInv, TypeOK
<1>8. EmptyInv'
  BY <1>1, <1>2, <1>4 DEF IndInv, EmptyInv
<1>9. EndInv'
  <2>1. Len(<<>>) = 0 /\ 0 <= Limit
    BY EmptySeq
  <2> QED
    BY <1>2, <1>4, <2>1 DEF IndInv, TypeOK, EndInv, CloseToRead
<1>10. \A p \in Pipes : Increasing(data'[p]) /\ Elems(data'[p]) \subseteq Elems(data[p])
  BY <1>1, EmptyElems DEF IndInv, DataInv
<1>11. DataInv'
  BY <1>10 DEF IndInv, DataInv, Before
<1>12. OrderInv'
  <2>1. ASSUME NEW q \in Readers, NEW p \in Pipes, p \in {made', end'[q]}
        PROVE  Before(Had(q)', Elems(data'[p]))
    <3>1. p \in {made, end[q]}
      BY <1>2, <1>4, <2>1 DEF Pipes
    <3> QED
      BY <1>6, <1>10, <3>1 DEF IndInv, OrderInv, Before
  <2>2. ASSUME NEW q \in Readers
        PROVE  /\ Increasing(got'[q]) /\ Increasing(acc'[q])
               /\ Before(Elems(got'[q]), Elems(acc'[q]))
    BY <1>4, <1>5 DEF IndInv, OrderInv, Before
  <2> QED
    BY <2>1, <2>2 DEF OrderInv
<1>13. OnceInv'
  <2>1. ASSUME NEW p \in Pipes, NEW q \in Readers PROVE Elems(data'[p]) \cap Had(q)' = {}
    BY <1>6, <1>10 DEF IndInv, OnceInv
  <2>2. ASSUME NEW q \in Readers, NEW z \in Readers
        PROVE  /\ Elems(acc'[z]) \cap Elems(got'[q]) = {}
               /\ q # z => Elems(acc'[z]) \cap Elems(acc'[q]) = {}
    BY <1>4, <1>5 DEF IndInv, OnceInv
  <2> QED
    BY <2>1, <2>2 DEF OnceInv
<1> QED
  BY <1>7, <1>8, <1>9, <1>11, <1>12, <1>13 DEF IndInv

-----------------------------------------------------------------------------
(* The theorems.                                                           *)

\* At first there is no pipe.
LEMMA InitStep == Init => IndInv
<1> SUFFICES ASSUME Init PROVE IndInv
  OBVIOUS
<1>1. \A S : <<>> \in Seq(S)
  BY EmptySeq
<1>2. TypeOK
  <2>1. Len(<<>>) = 0 /\ 0 <= Capacity
    BY EmptySeq
  <2>2. data \in [Pipes -> Seq(1..sent)] /\ \A p \in Pipes : Len(data[p]) <= Capacity
    BY <1>1, <2>1 DEF Init
  <2>3. acc \in [Readers -> Seq(1..sent)] /\ got \in [Readers -> Seq(1..sent)]
    BY <1>1 DEF Init
  <2>4. rwlock \in [Procs -> Writers \cup {NoWriter}] /\ \A w \in Writers : rwlock[Proc[w]] # w
    BY DEF Init
  <2>5. left \in [Writers -> 0..MaxSize]
    BY DEF Init
  <2>6. /\ rpc \in [Readers -> {"start", "closed", "opening", "reading", "returned", "leaked", "ended"}]
        /\ wpc \in [Writers -> {"idle", "locked", "writing"}]
        /\ end \in [Writers \cup Readers -> 0..made]
    BY DEF Init
  <2> QED
    BY <2>2, <2>3, <2>4, <2>5, <2>6 DEF Init, TypeOK
<1>3. EmptyInv
  BY DEF Init, EmptyInv
<1>4. EndInv
  <2>1. Len(<<>>) = 0 /\ 0 <= Limit
    BY EmptySeq
  <2> QED
    BY <2>1 DEF Init, EndInv
<1>5. DataInv /\ OrderInv /\ OnceInv
  BY EmptyElems DEF Init, DataInv, OrderInv, OnceInv, Had, Before
<1> QED
  BY <1>2, <1>3, <1>4, <1>5 DEF IndInv

\* What touches no variable keeps the invariant.
LEMMA StutterStep == ASSUME IndInv, UNCHANGED vars PROVE IndInv'
<1>1. TypeOK' /\ EmptyInv' /\ EndInv'
  BY DEF vars, IndInv, TypeOK, EmptyInv, EndInv
<1>2. DataInv' /\ OrderInv' /\ OnceInv'
  BY OrderKept DEF vars, IndInv, TypeOK
<1> QED
  BY <1>1, <1>2 DEF IndInv

\* Every step keeps it.
LEMMA NextStep == OneWriterAtATime /\ IndInv /\ [Next]_vars => IndInv'
<1> SUFFICES ASSUME OneWriterAtATime, IndInv, [Next]_vars PROVE IndInv'
  OBVIOUS
<1>1. CASE \E w \in Writers : Writer(w)
  BY <1>1, LockStep, OpenToWriteStep, OpenFailsStep, WriteStep, CloseToWriteStep DEF Writer
<1>2. CASE \E r \in Readers : Reader(r)
  BY <1>2, ReaderCreatesStep, OpenToReadStep, OpenReadFailsStep, ReadStep, ReadReturnsStep,
     ReadNothingStep, CloseToReadStep DEF Reader
<1>3. CASE Remove
  BY <1>3, RemoveStep
<1>4. CASE UNCHANGED vars
  BY <1>4, StutterStep
<1> QED
  BY <1>1, <1>2, <1>3, <1>4 DEF Next

\* The order of the pieces, wherever they are, holds in every reachable state.
THEOREM Invariance == ASSUME OneWriterAtATime PROVE Spec => []IndInv
<1>1. IndInv /\ [Next]_vars => IndInv'
  BY NextStep
<1> QED
  BY <1>1, InitStep, PTL DEF Spec

\* What comes after s in a concatenation.
LEMMA NewPart ==
    ASSUME NEW s \in Seq(Int), NEW t \in Seq(Int), t # <<>>
    PROVE SubSeq(s \o t, Len(s) + 1, Len(s \o t)) = t
<1>1. /\ Len(s) \in Nat /\ Len(t) \in Nat \ {0}
      /\ Len(s \o t) = Len(s) + Len(t) /\ Len(t) \in 1..Len(t) /\ 1 \in 1..Len(t)
  BY LenProperties, EmptySeq, ConcatProperties
<1>2. \A m \in Nat, n \in Nat \ {0} :
        m + 1 \in (m + 1)..(m + n) /\ m + n \in (m + 1)..(m + n) /\ (m + 1) - m = 1 /\ (m + n) - m = n
  OBVIOUS
<1>3. \A m \in (Len(s) + 1)..(Len(s) + Len(t)), n \in (Len(s) + 1)..(Len(s) + Len(t)) :
        SubSeq(s \o t, m, n) = SubSeq(t, m - Len(s), n - Len(s))
  BY SubSeqOfConcat2
<1>4. /\ Len(s) + 1 \in (Len(s) + 1)..(Len(s) + Len(t))
      /\ Len(s) + Len(t) \in (Len(s) + 1)..(Len(s) + Len(t))
      /\ (Len(s) + 1) - Len(s) = 1 /\ (Len(s) + Len(t)) - Len(s) = Len(t)
  BY <1>1, <1>2, Zenon
<1>5. SubSeq(s \o t, Len(s) + 1, Len(s) + Len(t))
        = SubSeq(t, (Len(s) + 1) - Len(s), (Len(s) + Len(t)) - Len(s))
  BY <1>3, <1>4, Zenon
<1> QED
  BY <1>1, <1>4, <1>5, SubSeqFull

\* What a reader hands on is a delivery of the channel.
LEMMA CloseToReadMaps ==
    ASSUME IndInv, NEW r \in Readers, CloseToRead(r)
    PROVE Channel!Next \/ UNCHANGED <<sent, got>>
<1>1. /\ acc[r] \in Seq(Int) /\ got[r] \in Seq(Int) /\ sent' = sent
      /\ got' = [got EXCEPT ![r] = got[r] \o acc[r]] /\ got \in [Readers -> Seq(1..sent)]
  BY SeqTypes DEF IndInv, TypeOK, CloseToRead
<1>2. CASE acc[r] = <<>>
  <2>1. got[r] \o acc[r] = got[r]
    BY <1>1, <1>2, ConcatEmptySeq
  <2> QED
    BY <1>1, <2>1
<1>3. CASE acc[r] # <<>>
  <2>1. Channel!New(r) = acc[r]
    <3>1. got'[r] = got[r] \o acc[r]
      BY <1>1
    <3> QED
      BY <1>1, <1>3, <3>1, NewPart DEF Channel!New
  <2>2. Len(acc[r]) <= Limit
    BY DEF IndInv, EndInv
  <2>3. Channel!Elems(acc[r]) \subseteq Channel!Fresh
    <3>1. Elems(acc[r]) \subseteq 1..sent
      BY SeqTypes
    <3>2. \A q \in Readers : Elems(acc[r]) \cap Elems(got[q]) = {}
      BY DEF IndInv, OnceInv
    <3> QED
      BY <3>1, <3>2 DEF Channel!Elems, Channel!Fresh, Elems
  <2>4. Channel!Increasing(got[r] \o acc[r])
    <3>1. Increasing(got[r] \o acc[r])
      BY <1>1, ConcatIncreasing DEF IndInv, OrderInv
    <3> QED
      BY <3>1 DEF Channel!Increasing, Increasing
  <2>5. Channel!Deliver(r, Channel!New(r))
    BY <1>1, <1>3, <2>1, <2>2, <2>3, <2>4 DEF Channel!Deliver
  <2> QED
    BY <2>5 DEF Channel!Next
<1> QED
  BY <1>2, <1>3

\* Every step of the pipe is a step of the channel or leaves it alone.
LEMMA StepMaps == IndInv /\ [Next]_vars => [Channel!Next]_<<sent, got>>
<1> SUFFICES ASSUME IndInv, [Next]_vars PROVE Channel!Next \/ UNCHANGED <<sent, got>>
  OBVIOUS
<1>1. ASSUME NEW w \in Writers, Write(w) PROVE Channel!Next
  BY <1>1 DEF Write, Channel!Next, Channel!Send
<1>2. CASE \E w \in Writers : Writer(w) /\ ~Write(w)
  BY <1>2 DEF Writer, Lock, OpenToWrite, OpenFails, CloseToWrite
<1>3. CASE \E r \in Readers : Reader(r)
  BY <1>3, CloseToReadMaps DEF Reader, ReaderCreates, OpenToRead, OpenReadFails, Read,
     ReadReturns, ReadNothing
<1>4. CASE Remove \/ UNCHANGED vars
  BY <1>4 DEF Remove, vars
<1> QED
  BY <1>1, <1>2, <1>3, <1>4 DEF Next

\* Type correctness.
THEOREM TypeCorrect == ASSUME OneWriterAtATime PROVE Spec => []TypeOK
<1>1. IndInv => TypeOK
  BY DEF IndInv
<1> QED
  BY <1>1, Invariance, PTL

\* The named pipe is a lossy channel: in order, and nothing twice.
THEOREM ImplementsChannelTheorem == ASSUME OneWriterAtATime PROVE Spec => ImplementsChannel
<1>1. Init => Channel!Init
  BY DEF Init, Channel!Init
<1> QED
  BY <1>1, StepMaps, Invariance, PTL DEF Spec, ImplementsChannel, Channel!Spec
=============================================================================
