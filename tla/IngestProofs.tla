---------------------------- MODULE IngestProofs ----------------------------
(***************************************************************************)
(* Theorems about Ingest for every set of requests, every capacity of the  *)
(* channel and every batch size.                                           *)
(*                                                                         *)
(* The argument: no step of the writer changes Flow, the concatenation of  *)
(* what has been written, what waits in the slice and what waits in the    *)
(* channel; only AddAll appends to it.  So the flow always holds exactly   *)
(* the spans sent, and at the exit its last two parts are empty.           *)
(***************************************************************************)
EXTENDS Ingest, SequenceTheorems, FiniteSetTheorems, TLAPS

\* Nothing is in the flow that has not been sent.
OnlySent ==
    \A n \in 1..Len(Flow) :
        Flow[n][1] \in Requests /\ Flow[n][2] \in 1..sent[Flow[n][1]]

AckedSent == \A r \in Requests : handler[r] = "acked" => sent[r] = Size[r]

\* Where the writer is says what can be in the slice and in the channel.
WriterInv ==
    /\ writer = "select" => written = 0 /\ Len(batch) < FlushSize
    /\ writer \in {"drain", "exited"} => closed /\ ch = <<>>
    /\ writer = "exited" => batch = <<>>

MainInv == main = "exited" => writer = "exited"

IInv ==
    /\ TypeOK
    /\ WriterInv /\ MainInv
    /\ BoundedMemory
    /\ OnlySent
    /\ InOrderOnce
    /\ AckedSent
-----------------------------------------------------------------------------
(* The flow under the four steps that move spans. *)

\* The library's fact with its quantifiers, which the provers instantiate
\* where many sequences are in sight.
LEMMA Assoc == \A S : \A x, y, z \in Seq(S) : (x \o y) \o z = x \o (y \o z)
BY ConcatAssociative

\* The flow is made of spans of the requests.
LEMMA FlowTyped ==
  ASSUME NEW S, NEW l \in Seq(S), NEW b \in Seq(S), NEW c \in Seq(S),
         NEW w \in 0..Len(b)
  PROVE  FlowOf(l, b, w, c) \in Seq(S)
<1>1. Len(b) \in Nat /\ \A i \in w + 1 .. Len(b) : b[i] \in S
  BY LenProperties, ElementOfSeq
<1>2. SubSeq(b, w + 1, Len(b)) \in Seq(S)
  BY <1>1, SubSeqProperties
<1>3. l \o SubSeq(b, w + 1, Len(b)) \in Seq(S)
  BY <1>2, ConcatProperties
<1> QED BY <1>3, ConcatProperties DEF FlowOf

\* Batcher.AddAll puts a span at the end of the flow.
LEMMA FlowSend ==
  ASSUME NEW S, NEW l \in Seq(S), NEW b \in Seq(S), NEW c \in Seq(S),
         NEW w \in 0..Len(b), NEW x \in S
  PROVE  FlowOf(l, b, w, Append(c, x)) = Append(FlowOf(l, b, w, c), x)
<1> DEFINE s == l \o SubSeq(b, w + 1, Len(b))
<1>1. s \in Seq(S) /\ s \o c \in Seq(S)
  <2>1. Len(b) \in Nat /\ \A i \in w + 1 .. Len(b) : b[i] \in S
    BY LenProperties, ElementOfSeq
  <2>2. SubSeq(b, w + 1, Len(b)) \in Seq(S)
    BY <2>1, SubSeqProperties
  <2> QED BY <2>2, ConcatProperties
<1>2. <<x>> \in Seq(S)
  OBVIOUS
<1>3. Append(c, x) = c \o <<x>>
  BY AppendIsConcat
<1> HIDE DEF s
<1>4. Append(s \o c, x) = (s \o c) \o <<x>>
  BY <1>1, AppendIsConcat
<1>5. (s \o c) \o <<x>> = s \o (c \o <<x>>)
  BY <1>1, <1>2, Assoc, SMTT(30)
<1> QED BY <1>3, <1>4, <1>5 DEF FlowOf, s

\* Batcher.loop takes a span from the channel to the slice.
LEMMA FlowReceive ==
  ASSUME NEW S, NEW l \in Seq(S), NEW b \in Seq(S), NEW c \in Seq(S),
         c # <<>>
  PROVE  FlowOf(l, Append(b, Head(c)), 0, Tail(c)) = FlowOf(l, b, 0, c)
<1> DEFINE h == Head(c)  b2 == Append(b, h)
<1>1. h \in S /\ <<h>> \in Seq(S) /\ Tail(c) \in Seq(S) /\ b2 \in Seq(S)
  BY HeadTailProperties, AppendProperties
<1>2. c = <<h>> \o Tail(c)
  <2>1. Len(c) \in Nat \ {0} BY EmptySeq
  <2>2. SubSeq(c, 1, Len(c)) = << c[1] >> \o SubSeq(c, 2, Len(c))
    BY <2>1, SubSeqRecursiveFirst
  <2> QED BY <2>2, SubSeqFull, TailIsSubSeq
<1>3. SubSeq(b2, 1, Len(b2)) = b \o <<h>>
  BY <1>1, SubSeqFull, AppendIsConcat
<1>4. l \o (b \o <<h>>) \o Tail(c) = (l \o b) \o (<<h>> \o Tail(c))
  <2>1. l \o (b \o <<h>>) = (l \o b) \o <<h>>
    BY <1>1, Assoc, SMTT(30)
  <2>2. l \o b \in Seq(S) BY ConcatProperties
  <2>3. ((l \o b) \o <<h>>) \o Tail(c) = (l \o b) \o (<<h>> \o Tail(c))
    BY <2>2, <1>1, Assoc, SMTT(30)
  <2> QED BY <2>1, <2>3
<1>5. 0 + 1 = 1
  OBVIOUS
<1> QED BY <1>2, <1>3, <1>4, <1>5, SubSeqFull DEF FlowOf

\* Batcher.flush gives the next span of the slice to the store.
LEMMA FlowInsert ==
  ASSUME NEW S, NEW l \in Seq(S), NEW b \in Seq(S), NEW c,
         NEW w \in Nat, w < Len(b)
  PROVE  FlowOf(Append(l, b[w + 1]), b, w + 1, c) = FlowOf(l, b, w, c)
<1> DEFINE m == w + 1  n == m + 1  h == <<b[m]>>  t == SubSeq(b, n, Len(b))
<1>1. Len(b) \in Nat /\ m \in 1..Len(b) BY LenProperties
<1>2. b[m] \in S BY <1>1, ElementOfSeq
<1>3. SubSeq(b, m, Len(b)) = h \o t
  BY <1>1, SubSeqRecursiveFirst
<1>4. t \in Seq(S)
  <2>1. \A i \in n .. Len(b) : b[i] \in S BY <1>1, ElementOfSeq
  <2> QED BY <1>1, <2>1, SubSeqProperties
<1>5. h \in Seq(S) BY <1>2
<1>6. Append(l, b[m]) = l \o h
  BY <1>2, AppendIsConcat
<1> HIDE DEF h, t
<1>7. (l \o h) \o t = l \o (h \o t)
  BY <1>4, <1>5, Assoc, SMTT(30)
<1> QED BY <1>3, <1>6, <1>7 DEF t, FlowOf

\* A slice that flush has been through is no part of the flow.
LEMMA FlowFlushed ==
  ASSUME NEW S, NEW l, NEW c, NEW b \in Seq(S)
  PROVE  FlowOf(l, b, Len(b), c) = FlowOf(l, <<>>, 0, c)
<1>1. Len(b) \in Nat /\ Len(<<>>) = 0 BY LenProperties, EmptySeq
<1>2. SubSeq(b, Len(b) + 1, Len(b)) = SubSeq(<<>>, 0 + 1, Len(<<>>))
  BY <1>1, SubSeqEmpty
<1> QED BY <1>2 DEF FlowOf
-----------------------------------------------------------------------------
(* The inductive invariant. *)

\* The flow is a sequence of spans.
LEMMA FlowType == TypeOK => Flow \in Seq(Items)
BY FlowTyped DEF TypeOK, Flow

\* The invariant holds when the server starts.
LEMMA InitIInv == Init => IInv
<1> SUFFICES ASSUME Init PROVE IInv
  OBVIOUS
<1>1. TypeOK
  <2>1. handler \in [Requests -> HandlerStates]
    BY DEF Init, HandlerStates
  <2>2. sent \in [Requests -> Nat] /\ \A r \in Requests : sent[r] <= Size[r]
    BY SizeAssumption DEF Init
  <2>3. /\ ch \in Seq(Items) /\ batch \in Seq(Items) /\ log \in Seq(Items)
        /\ written \in 0..Len(batch)
    BY EmptySeq DEF Init
  <2> QED BY <2>1, <2>2, <2>3 DEF Init, TypeOK, WriterStates, MainStates
<1>2. Flow = <<>>
  <2>1. SubSeq(batch, written + 1, Len(batch)) = <<>>
    BY SubSeqEmpty, EmptySeq DEF Init
  <2> QED BY <2>1, ConcatEmptySeq, EmptySeq DEF Init, Flow, FlowOf
<1>3. OnlySent /\ InOrderOnce
  BY <1>2, EmptySeq DEF Init, OnlySent, InOrderOnce
<1>4. WriterInv /\ BoundedMemory /\ AckedSent
  BY EmptySeq, CapacityAssumption, FlushSizeAssumption
  DEF Init, WriterInv, BoundedMemory, AckedSent
<1>5. MainInv BY DEF Init, MainInv
<1> QED BY <1>1, <1>3, <1>4, <1>5 DEF IInv

\* Steps that move no span keep what is said of the flow.
LEMMA FlowStays ==
  ASSUME OnlySent, InOrderOnce, Flow' = Flow, UNCHANGED sent
  PROVE  OnlySent' /\ InOrderOnce'
BY DEF OnlySent, InOrderOnce

\* Steps of a handler other than Send, and steps of the main goroutine.
LEMMA QuietStep ==
  ASSUME IInv, UNCHANGED <<sent, ch, batch, written, writer, log, failed>>,
         handler' \in [Requests -> HandlerStates], main' \in MainStates,
         closed' \in BOOLEAN, closed => closed', AckedSent', MainInv'
  PROVE  IInv'
<1>1. Flow' = Flow BY DEF Flow
<1>2. TypeOK' BY DEF IInv, TypeOK
<1>3. WriterInv' /\ BoundedMemory' BY DEF IInv, WriterInv, BoundedMemory
<1> QED BY <1>1, <1>2, <1>3, FlowStays DEF IInv

\* The steps of a handler that move no span keep the invariant.
LEMMA HandlerStep ==
  ASSUME IInv, NEW r \in Requests,
         Arrive(r) \/ Reject(r) \/ Decode(r) \/ Panic(r) \/ Acknowledge(r)
  PROVE  IInv'
<1>1. handler' \in [Requests -> HandlerStates]
  BY DEF IInv, TypeOK, HandlerStates, Arrive, Reject, Decode, Panic, Acknowledge
<1>2. AckedSent'
  BY DEF IInv, TypeOK, AckedSent, Arrive, Reject, Decode, Panic, Acknowledge
<1>3. UNCHANGED <<sent, ch, batch, written, writer, log, failed, closed, main>>
  BY DEF Arrive, Reject, Decode, Panic, Acknowledge
<1>4. MainInv' BY <1>3 DEF IInv, MainInv
<1> QED BY <1>1, <1>2, <1>3, <1>4, QuietStep DEF IInv, TypeOK

\* The steps of the main goroutine and the kill keep the invariant.
LEMMA MainStep ==
  ASSUME IInv,
         \/ Signal \/ ListenFails \/ ShutdownDone \/ ShutdownTimesOut
         \/ CloseChannel \/ Exit \/ Crash \/ Terminated \/ UNCHANGED vars
  PROVE  IInv'
<1> USE DEF Signal, ListenFails, ShutdownDone, ShutdownTimesOut, CloseChannel,
            Exit, Crash, Terminated, Goto, vars
<1>1. main' \in MainStates /\ closed' \in BOOLEAN /\ (closed => closed')
  BY DEF IInv, TypeOK, MainStates
<1>2. UNCHANGED <<handler, sent, ch, batch, written, writer, log, failed>>
  OBVIOUS
<1>3. AckedSent' BY <1>2 DEF IInv, AckedSent
<1>4. MainInv' BY DEF IInv, MainInv
<1> QED BY <1>1, <1>2, <1>3, <1>4, QuietStep DEF IInv, TypeOK

\* AddAll's send keeps the invariant: it appends the request's next span to
\* the flow.
LEMMA SendStep ==
  ASSUME IInv, NEW r \in Requests, Send(r)
  PROVE  IInv'
<1> DEFINE x == <<r, sent[r] + 1>>
<1>0. /\ sent \in [Requests -> Nat] /\ sent[r] \in Nat
      /\ log \in Seq(Items) /\ batch \in Seq(Items) /\ ch \in Seq(Items)
      /\ written \in 0..Len(batch)
  BY DEF IInv, TypeOK
<1>1. x \in Items
  BY <1>0, SizeAssumption DEF Send, Items
<1>2. ch' = Append(ch, x) /\ ch' \in Seq(Items) /\ Len(ch') = Len(ch) + 1
  BY <1>0, <1>1, AppendProperties DEF Send
<1>3. UNCHANGED <<handler, closed, batch, written, writer, main, log, failed>>
  BY DEF Send
<1>4. sent' = [sent EXCEPT ![r] = @ + 1]
  BY DEF Send
<1>5. Flow' = Append(Flow, x)
  <2> HIDE DEF x
  <2>1. FlowOf(log, batch, written, Append(ch, x)) =
          Append(FlowOf(log, batch, written, ch), x)
    BY <1>0, <1>1, FlowSend
  <2> QED BY <2>1, <1>2, <1>3 DEF Flow
<1>6. /\ Flow \in Seq(Items) /\ Len(Flow) \in Nat
      /\ Len(Flow') = Len(Flow) + 1
      /\ Flow'[Len(Flow) + 1] = x
      /\ \A n \in 1..Len(Flow) : Flow'[n] = Flow[n]
  BY <1>1, <1>5, FlowType, AppendProperties, LenProperties DEF IInv
<1>7. TypeOK'
  <2>1. sent[r] + 1 <= Size[r]
    BY <1>0, SizeAssumption DEF Send
  <2>2. sent' \in [Requests -> Nat] /\ \A q \in Requests : sent'[q] <= Size[q]
    BY <1>0, <1>4, <2>1 DEF IInv, TypeOK
  <2> QED BY <1>2, <1>3, <2>2 DEF IInv, TypeOK
<1>8. WriterInv' /\ MainInv' /\ BoundedMemory'
  BY <1>0, <1>2, <1>3, LenProperties, CapacityAssumption
  DEF IInv, TypeOK, WriterInv, MainInv, BoundedMemory, Send
<1>9. OnlySent'
  <2> HIDE DEF x
  <2>0. x[1] = r /\ x[2] = sent[r] + 1 BY DEF x
  <2>1. \A q \in Requests : sent'[q] \in Nat /\ sent[q] <= sent'[q] BY <1>0, <1>4
  <2>2. sent'[r] = sent[r] + 1 BY <1>0, <1>4
  <2>3. ASSUME NEW n \in 1..Len(Flow')
        PROVE  Flow'[n][1] \in Requests /\ Flow'[n][2] \in 1..sent'[Flow'[n][1]]
    <3>1. CASE n = Len(Flow) + 1 BY <1>0, <1>6, <2>0, <2>2, <3>1
    <3>2. CASE n # Len(Flow) + 1
      <4>1. n \in 1..Len(Flow) /\ Flow'[n] = Flow[n] BY <1>6, <3>2
      <4>2. Flow[n][1] \in Requests /\ Flow[n][2] \in 1..sent[Flow[n][1]]
        BY <4>1 DEF IInv, OnlySent
      <4> QED BY <1>0, <2>1, <4>1, <4>2
    <3> QED BY <3>1, <3>2
  <2> QED BY <2>3 DEF OnlySent
<1>10. InOrderOnce'
  <2>1. ASSUME NEW q \in Requests, NEW i \in 1..sent'[q]
        PROVE  \E n \in 1..Len(Flow') : Flow'[n] = <<q, i>>
    <3>0. /\ sent[q] \in Nat
          /\ sent'[q] = IF q = r THEN sent[r] + 1 ELSE sent[q]
      BY <1>0, <1>4
    <3>1. CASE q = r /\ i = sent[r] + 1
      <4>1. Len(Flow) + 1 \in 1..Len(Flow') BY <1>6
      <4> QED BY <1>6, <3>1, <4>1
    <3>2. CASE i \in 1..sent[q]
      <4>1. PICK n \in 1..Len(Flow) : Flow[n] = <<q, i>>
        BY <1>6, <3>2, LenProperties DEF IInv, InOrderOnce, ToSet
      <4> QED BY <1>6, <4>1
    <3> QED BY <1>0, <3>0, <3>1, <3>2
  <2>2. ASSUME NEW m \in 1..Len(Flow'), NEW n \in 1..Len(Flow'),
               m < n, Flow'[m][1] = Flow'[n][1]
        PROVE  Flow'[m][2] < Flow'[n][2]
    <3>1. CASE n = Len(Flow) + 1
      <4>1. m \in 1..Len(Flow) /\ Flow[m][1] = r
        BY <1>6, <2>2, <3>1
      <4>2. Flow[m][2] \in 1..sent[r]
        BY <4>1 DEF IInv, OnlySent
      <4> QED BY <1>0, <1>6, <3>1, <4>1, <4>2
    <3>2. CASE n \in 1..Len(Flow)
      BY <1>6, <2>2, <3>2 DEF IInv, InOrderOnce
    <3> QED BY <1>6, <3>1, <3>2
  <2>3. DOMAIN Flow' = 1..Len(Flow') BY <1>1, <1>5, <1>6, AppendProperties, LenProperties
  <2> QED BY <2>1, <2>2, <2>3 DEF InOrderOnce, ToSet
<1>11. AckedSent'
  BY <1>0, <1>3, <1>4 DEF IInv, AckedSent, Send, TypeOK
<1> QED BY <1>7, <1>8, <1>9, <1>10, <1>11 DEF IInv

\* The writer's receive keeps the invariant: the flow stays, the slice has
\* room.
LEMMA ReceiveStep ==
  ASSUME IInv, Receive
  PROVE  IInv'
<1> DEFINE h == Head(ch)
<1>0. /\ ch \in Seq(Items) /\ batch \in Seq(Items) /\ log \in Seq(Items)
      /\ ch # <<>> /\ writer = "select" /\ written = 0 /\ Len(batch) < FlushSize
  BY DEF IInv, TypeOK, WriterInv, Receive
<1>1. h \in Items /\ Tail(ch) \in Seq(Items) /\ Len(Tail(ch)) = Len(ch) - 1
  BY <1>0, HeadTailProperties
<1>2. /\ batch' = Append(batch, h) /\ batch' \in Seq(Items)
      /\ Len(batch') = Len(batch) + 1 /\ ch' = Tail(ch)
  BY <1>0, <1>1, AppendProperties DEF Receive
<1>3. UNCHANGED <<handler, sent, closed, written, main, log, failed>>
  BY DEF Receive
<1>4. Flow' = Flow
  BY <1>0, <1>2, <1>3, FlowReceive DEF Flow
<1>5. Len(batch) \in Nat /\ Len(ch) \in Nat
  BY <1>0, LenProperties
<1>6. TypeOK'
  BY <1>0, <1>1, <1>2, <1>3, <1>5 DEF IInv, TypeOK, WriterStates, Receive
<1>7. WriterInv' /\ MainInv' /\ BoundedMemory'
  BY <1>0, <1>1, <1>2, <1>3, <1>5, FlushSizeAssumption, CapacityAssumption
  DEF IInv, WriterInv, MainInv, BoundedMemory, Receive, Running
<1>8. AckedSent' BY <1>3 DEF IInv, AckedSent
<1> QED BY <1>3, <1>4, <1>6, <1>7, <1>8, FlowStays DEF IInv

\* A call of InsertSpan, failed or not, keeps the invariant: the flow stays.
LEMMA InsertStep ==
  ASSUME IInv, Insert \/ InsertFails
  PROVE  IInv'
<1>0. /\ ch \in Seq(Items) /\ batch \in Seq(Items) /\ log \in Seq(Items)
      /\ written \in Nat /\ written < Len(batch) /\ Len(batch) \in Nat
      /\ writer \in {"flush", "drain"}
  BY LenProperties DEF IInv, TypeOK, Insert, InsertFails, Inserting
<1>1. batch[written + 1] \in Items
  BY <1>0, ElementOfSeq
<1>2. /\ log' = Append(log, batch[written + 1]) /\ written' = written + 1
      /\ UNCHANGED <<handler, sent, ch, closed, batch, writer, main>>
  BY DEF Insert, InsertFails, Inserting
<1>3. Flow' = Flow
  BY <1>0, <1>2, FlowInsert DEF Flow
<1>8. log' \in Seq(Items)
  BY <1>0, <1>1, <1>2, AppendProperties
<1>4. failed' \subseteq ToSet(log')
  <2>1. /\ Len(log) \in Nat /\ DOMAIN log = 1..Len(log)
        /\ Len(log') = Len(log) + 1 /\ DOMAIN log' = 1..Len(log')
        /\ \A n \in 1..Len(log) : log'[n] = log[n]
        /\ log'[Len(log) + 1] = batch[written + 1]
    BY <1>0, <1>1, <1>2, <1>8, AppendProperties, LenProperties
  <2>2. ToSet(log) \subseteq ToSet(log')
    BY <2>1 DEF ToSet
  <2>3. batch[written + 1] \in ToSet(log')
    BY <2>1 DEF ToSet
  <2>4. failed' \subseteq failed \cup {batch[written + 1]}
    BY DEF Insert, InsertFails
  <2> QED BY <2>2, <2>3, <2>4 DEF IInv, TypeOK
<1>5. TypeOK'
  BY <1>0, <1>2, <1>4, <1>8 DEF IInv, TypeOK
<1>6. WriterInv' /\ MainInv' /\ BoundedMemory'
  BY <1>0, <1>2 DEF IInv, WriterInv, MainInv, BoundedMemory
<1>7. AckedSent' BY <1>2 DEF IInv, AckedSent
<1> QED BY <1>2, <1>3, <1>5, <1>6, <1>7, FlowStays DEF IInv

\* The end of a flush keeps the invariant: a slice that is written through
\* leaves the flow unnoticed.
LEMMA FlushedStep ==
  ASSUME IInv, Flushed
  PROVE  IInv'
<1>0. /\ batch \in Seq(Items) /\ written = Len(batch) /\ batch' = <<>>
      /\ written' = 0 /\ writer \in {"flush", "drain"}
      /\ writer' \in {"select", "exited"}
      /\ writer' = "exited" => writer = "drain"
      /\ UNCHANGED <<handler, sent, ch, closed, main, log, failed>>
  BY DEF IInv, TypeOK, Flushed
<1>1. Flow' = Flow
  BY <1>0, FlowFlushed DEF Flow
<1>2. TypeOK'
  BY <1>0, EmptySeq DEF IInv, TypeOK, WriterStates
<1>3. WriterInv' /\ MainInv' /\ BoundedMemory'
  BY <1>0, EmptySeq, FlushSizeAssumption
  DEF IInv, WriterInv, MainInv, BoundedMemory
<1>4. AckedSent' BY <1>0 DEF IInv, AckedSent
<1> QED BY <1>0, <1>1, <1>2, <1>3, <1>4, FlowStays DEF IInv

\* The other two cases of the writer's select.
LEMMA SelectStep ==
  ASSUME IInv, Tick \/ ReceiveClosed
  PROVE  IInv'
<1>0. /\ writer' \in {"flush", "drain"} /\ (writer' = "drain" => closed /\ ch = <<>>)
      /\ main # "exited"
      /\ UNCHANGED <<handler, sent, ch, closed, batch, written, main, log, failed>>
  BY DEF Tick, ReceiveClosed, Running
<1>1. Flow' = Flow BY <1>0 DEF Flow
<1>2. TypeOK' BY <1>0 DEF IInv, TypeOK, WriterStates
<1>3. WriterInv' /\ MainInv' /\ BoundedMemory'
  BY <1>0 DEF IInv, WriterInv, MainInv, BoundedMemory
<1>4. AckedSent' BY <1>0 DEF IInv, AckedSent
<1> QED BY <1>0, <1>1, <1>2, <1>3, <1>4, FlowStays DEF IInv

\* Every step keeps the invariant.
LEMMA NextIInv == IInv /\ [Next]_vars => IInv'
BY HandlerStep, MainStep, SendStep, ReceiveStep, InsertStep, FlushedStep,
   SelectStep DEF Next

\* In every reachable state of Ingest the invariant holds.
THEOREM Invariance == Spec => []IInv
BY InitIInv, NextIInv, PTL DEF Spec
-----------------------------------------------------------------------------
(* What follows from it. *)

\* The variables of Ingest keep their types.
THEOREM TypeCorrect == Spec => []TypeOK
<1>1. IInv => TypeOK BY DEF IInv
<1> QED BY <1>1, Invariance, PTL

\* The channel and the slice never hold more than bufferCapacity and
\* flushSize spans, so buffered memory is bounded.
THEOREM MemoryIsBounded == Spec => []BoundedMemory
<1>1. IInv => BoundedMemory BY DEF IInv
<1> QED BY <1>1, Invariance, PTL

\* AddAll and the writer keep the order within a request and neither lose
\* nor repeat a span on the way to InsertSpan.
THEOREM OrderIsKept == Spec => []InOrderOnce
<1>1. IInv => InOrderOnce BY DEF IInv
<1> QED BY <1>1, Invariance, PTL

\* At the exit there is nothing in the slice or the channel: all that was
\* ever sent has been written.
LEMMA AtExit == IInv /\ writer = "exited" => Flow = log
<1> SUFFICES ASSUME IInv, writer = "exited" PROVE Flow = log
  OBVIOUS
<1>1. batch = <<>> /\ ch = <<>> /\ written = 0 /\ log \in Seq(Items)
  BY EmptySeq DEF IInv, TypeOK, WriterInv
<1>2. SubSeq(<<>>, 0 + 1, Len(<<>>)) = <<>>
  BY EmptySeq, SubSeqEmpty
<1> QED BY <1>1, <1>2, ConcatEmptySeq DEF Flow, FlowOf

\* Close drains: whichever way run returns, no span of an acknowledged
\* request is left in memory.
THEOREM GracefulExitLosesNothing == Spec => []NothingAckedLost
<1>1. IInv => NothingAckedLost
  <2> SUFFICES ASSUME IInv, main = "exited", NEW r \in Requests,
                      handler[r] = "acked", NEW i \in 1..Size[r]
               PROVE  <<r, i>> \in ToSet(log)
    BY DEF NothingAckedLost
  <2>1. Flow = log BY AtExit DEF IInv, MainInv
  <2>2. sent[r] = Size[r] BY DEF IInv, AckedSent
  <2> QED BY <2>1, <2>2 DEF IInv, InOrderOnce
<1> QED BY <1>1, Invariance, PTL
-----------------------------------------------------------------------------
(* What a kill may lose. *)

\* A sequence has no more elements than places.
LEMMA FewElements ==
  ASSUME NEW S, NEW s \in Seq(S)
  PROVE  IsFiniteSet(ToSet(s)) /\ Cardinality(ToSet(s)) <= Len(s)
<1>1. Len(s) \in Nat /\ DOMAIN s = 1..Len(s) BY LenProperties
<1>2. IsFiniteSet(1..Len(s)) /\ Cardinality(1..Len(s)) = Len(s)
  BY <1>1, FS_Interval
<1>3. s \in Surjection(1..Len(s), ToSet(s))
  <2>1. s \in [1..Len(s) -> ToSet(s)] BY <1>1, ElementOfSeq DEF ToSet
  <2> QED BY <1>1, <2>1 DEF ToSet, Surjection
<1> QED BY <1>2, <1>3, FS_Surjection

\* What is in the flow is in the log, in the slice or in the channel.
LEMMA FlowElements ==
  ASSUME NEW S, NEW l \in Seq(S), NEW b \in Seq(S), NEW c \in Seq(S),
         NEW w \in 0..Len(b)
  PROVE  ToSet(FlowOf(l, b, w, c)) \subseteq ToSet(l) \cup ToSet(b) \cup ToSet(c)
<1> DEFINE s == SubSeq(b, w + 1, Len(b))
<1>1. Len(b) \in Nat /\ \A i \in w + 1 .. Len(b) : b[i] \in S
  BY LenProperties, ElementOfSeq
<1>2. s \in Seq(S) /\ ToSet(s) \subseteq ToSet(b)
  <2>1. /\ s \in Seq(S)
        /\ DOMAIN b = 1..Len(b)
        /\ \A i \in 1..Len(s) : s[i] = b[w + i] /\ w + i \in 1..Len(b)
    BY <1>1, SubSeqProperties, LenProperties
  <2>2. DOMAIN s = 1..Len(s) BY <2>1, LenProperties
  <2> QED BY <2>1, <2>2 DEF ToSet
<1> HIDE DEF s
<1>3. \A x, y \in Seq(S) : x \o y \in Seq(S) /\ ToSet(x \o y) \subseteq ToSet(x) \cup ToSet(y)
  <2> SUFFICES ASSUME NEW x \in Seq(S), NEW y \in Seq(S)
               PROVE  x \o y \in Seq(S) /\ ToSet(x \o y) \subseteq ToSet(x) \cup ToSet(y)
    OBVIOUS
  <2>1. /\ x \o y \in Seq(S) /\ Len(x \o y) = Len(x) + Len(y)
        /\ \A i \in 1..Len(x) + Len(y) :
              (x \o y)[i] = IF i <= Len(x) THEN x[i] ELSE y[i - Len(x)]
    BY ConcatProperties
  <2>2. /\ Len(x) \in Nat /\ Len(y) \in Nat
        /\ DOMAIN x = 1..Len(x) /\ DOMAIN y = 1..Len(y)
        /\ DOMAIN (x \o y) = 1..Len(x) + Len(y)
    BY <2>1, LenProperties
  <2>3. ASSUME NEW i \in 1..Len(x) + Len(y)
        PROVE  (x \o y)[i] \in ToSet(x) \cup ToSet(y)
    <3>1. CASE i <= Len(x)
      <4>1. i \in DOMAIN x /\ (x \o y)[i] = x[i] BY <2>1, <2>2, <3>1
      <4> QED BY <4>1 DEF ToSet
    <3>2. CASE ~(i <= Len(x))
      <4>1. i - Len(x) \in DOMAIN y /\ (x \o y)[i] = y[i - Len(x)]
        BY <2>1, <2>2, <3>2
      <4> QED BY <4>1 DEF ToSet
    <3> QED BY <3>1, <3>2
  <2> QED BY <2>1, <2>2, <2>3 DEF ToSet
<1>4. l \o s \in Seq(S) /\ ToSet(l \o s) \subseteq ToSet(l) \cup ToSet(b)
  BY <1>2, <1>3
<1>5. ToSet((l \o s) \o c) \subseteq ToSet(l \o s) \cup ToSet(c)
  BY <1>3, <1>4
<1> QED BY <1>4, <1>5 DEF FlowOf, s

\* The answer 200 is sent before anything is stored, and yet the acknowledged
\* spans that no InsertSpan has been called for fit in the channel and the
\* slice: a kill loses no more of them, whatever the number of requests.
THEOREM LossStaysBounded == Spec => []LossIsBounded
<1>1. IInv => LossIsBounded
  <2> SUFFICES ASSUME IInv PROVE LossIsBounded
    OBVIOUS
  <2> DEFINE lost == AckedSpans \ ToSet(log)  B == ToSet(batch)  C == ToSet(ch)
  <2>1. ch \in Seq(Items) /\ batch \in Seq(Items) /\ log \in Seq(Items)
        /\ written \in 0..Len(batch)
    BY DEF IInv, TypeOK
  <2>2. \A x \in AckedSpans : x \in ToSet(Flow)
    BY DEF AckedSpans, IInv, AckedSent, InOrderOnce
  <2>3. ToSet(Flow) \subseteq ToSet(log) \cup B \cup C
    BY <2>1, FlowElements DEF Flow
  <2>4. lost \subseteq B \cup C BY <2>2, <2>3
  <2>5. /\ IsFiniteSet(B) /\ Cardinality(B) <= Len(batch)
        /\ IsFiniteSet(C) /\ Cardinality(C) <= Len(ch)
        /\ Len(batch) \in Nat /\ Len(ch) \in Nat
    BY <2>1, FewElements, LenProperties
  <2> HIDE DEF lost, B, C
  <2>6. /\ IsFiniteSet(B \cup C) /\ Cardinality(B) \in Nat /\ Cardinality(C) \in Nat
        /\ Cardinality(B \cap C) \in Nat
        /\ Cardinality(B \cup C) = Cardinality(B) + Cardinality(C) - Cardinality(B \cap C)
    BY <2>5, FS_Union, FS_Intersection, FS_CardinalityType
  <2>7. Cardinality(lost) <= Cardinality(B \cup C) /\ Cardinality(lost) \in Nat
    BY <2>4, <2>6, FS_Subset, FS_CardinalityType
  <2>8. Len(ch) <= Capacity /\ Len(batch) <= FlushSize
    BY DEF IInv, BoundedMemory
  <2>9. Cardinality(lost) <= Capacity + FlushSize
    BY <2>5, <2>6, <2>7, <2>8, CapacityAssumption, FlushSizeAssumption
  <2> QED BY <2>9 DEF LossIsBounded, lost
<1> QED BY <1>1, Invariance, PTL
-----------------------------------------------------------------------------
(* Ingest implements SpanSink. *)

\* What has been given to InsertSpan is the first part of the flow.
LEMMA FlowStartsWithLog ==
  ASSUME NEW S, NEW l \in Seq(S), NEW b \in Seq(S), NEW c \in Seq(S),
         NEW w \in 0..Len(b)
  PROVE  /\ Len(l) \in Nat /\ Len(FlowOf(l, b, w, c)) \in Nat
         /\ Len(l) <= Len(FlowOf(l, b, w, c))
         /\ \A n \in 1..Len(l) : FlowOf(l, b, w, c)[n] = l[n]
<1> DEFINE s == SubSeq(b, w + 1, Len(b))
<1>1. Len(b) \in Nat /\ \A i \in w + 1 .. Len(b) : b[i] \in S
  BY LenProperties, ElementOfSeq
<1>2. s \in Seq(S)
  BY <1>1, SubSeqProperties
<1> HIDE DEF s
<1>3. /\ l \o s \in Seq(S) /\ Len(l \o s) = Len(l) + Len(s)
      /\ \A n \in 1..Len(l) : (l \o s)[n] = l[n]
  BY <1>2, ConcatProperties, LenProperties
<1> DEFINE u == l \o s
<1> HIDE DEF u
<1>4. /\ Len(u \o c) = Len(u) + Len(c)
      /\ \A n \in 1..Len(u) : (u \o c)[n] = u[n]
  BY <1>3, ConcatProperties, LenProperties DEF u
<1>5. FlowOf(l, b, w, c) = u \o c
  BY DEF FlowOf, u, s
<1> QED BY <1>2, <1>3, <1>4, <1>5, LenProperties DEF u

\* A server that starts is a sink that has accepted nothing.
LEMMA SinkInit == Init => Sink!Init
BY EmptySeq DEF Init, Sink!Init, Status, ToSet

\* AddAll's send is the sink accepting a span.
LEMMA SinkSend ==
  ASSUME IInv, NEW r \in Requests, Send(r)
  PROVE  Sink!Accept(r)
BY DEF Send, Sink!Accept, Status, Running

\* The answer 200 is the sink acknowledging a request, all of whose spans
\* it has accepted.
LEMMA SinkAcknowledge ==
  ASSUME IInv, NEW r \in Requests, Acknowledge(r)
  PROVE  Sink!Acknowledge(r)
BY DEF IInv, TypeOK, Acknowledge, Sink!Acknowledge, Status, Running

\* A call of InsertSpan settles one accepted span that was not settled.
LEMMA SinkInsert ==
  ASSUME IInv, IInv', Inserting
  PROVE  Sink!Next \/ UNCHANGED Sink!vars
<1> DEFINE x == batch[written + 1]
<1>1. /\ log \in Seq(Items) /\ x \in Items /\ log' = Append(log, x)
      /\ UNCHANGED <<handler, sent, main>> /\ Status = "up" /\ Status' = "up"
  BY ElementOfSeq, LenProperties DEF IInv, TypeOK, Inserting, Status, Running
<1>2. /\ Len(log) \in Nat /\ DOMAIN log = 1..Len(log)
      /\ Len(log') = Len(log) + 1 /\ DOMAIN log' = 1..Len(log) + 1
      /\ \A n \in 1..Len(log) : log'[n] = log[n]
      /\ log'[Len(log) + 1] = x
  BY <1>1, AppendProperties, LenProperties
<1>3. ToSet(log') = ToSet(log) \cup {x}
  BY <1>2 DEF ToSet
<1>4. x[1] \in Requests /\ x[2] \in 1..sent[x[1]] /\ x = <<x[1], x[2]>>
  <2>1. /\ Len(log') <= Len(Flow') /\ Len(Flow') \in Nat
        /\ \A n \in 1..Len(log') : Flow'[n] = log'[n]
    BY FlowStartsWithLog DEF IInv, TypeOK, Flow
  <2>2. Len(log') \in 1..Len(Flow') /\ Flow'[Len(log')] = x
    BY <1>2, <2>1
  <2> QED BY <1>1, <2>2 DEF IInv, OnlySent, Items
<1>5. CASE x \in ToSet(log)
  <2>1. ToSet(log') = ToSet(log) BY <1>3, <1>5
  <2> QED BY <1>1, <2>1 DEF Sink!vars
<1>6. CASE x \notin ToSet(log)
  BY <1>1, <1>3, <1>4, <1>6 DEF Sink!Next, Sink!Settle
<1> QED BY <1>5, <1>6

\* The return of run stops the sink when every accepted span is settled.
LEMMA SinkExit ==
  ASSUME IInv, Exit
  PROVE  Sink!Stop
<1>1. Flow = log BY AtExit DEF Exit
<1>2. \A r \in Requests : \A i \in 1..sent[r] : <<r, i>> \in ToSet(log)
  BY <1>1 DEF IInv, InOrderOnce
<1> QED BY <1>2 DEF Exit, Goto, Sink!Stop, Status

\* A kill of the process kills the sink.
LEMMA SinkCrash ==
  ASSUME IInv, Crash
  PROVE  Sink!Kill
BY DEF Crash, Goto, Sink!Kill, Status, IInv, TypeOK

\* All the other steps are invisible to clients.
LEMMA SinkStutter ==
  ASSUME IInv,
         \/ \E r \in Requests : Arrive(r) \/ Reject(r) \/ Decode(r) \/ Panic(r)
         \/ Receive \/ Tick \/ ReceiveClosed \/ Flushed
         \/ Signal \/ ListenFails \/ ShutdownDone \/ ShutdownTimesOut
         \/ CloseChannel \/ Terminated \/ UNCHANGED vars
  PROVE  UNCHANGED Sink!vars
<1>1. UNCHANGED <<sent, log>> /\ Status' = Status
  BY DEF Arrive, Reject, Decode, Panic, Receive, Tick, ReceiveClosed, Flushed,
         Signal, ListenFails, ShutdownDone, ShutdownTimesOut, CloseChannel,
         Terminated, vars, Goto, Status
<1>2. {r \in Requests : handler[r] = "acked"}' = {r \in Requests : handler[r] = "acked"}
  BY DEF Arrive, Reject, Decode, Panic, Receive, Tick, ReceiveClosed, Flushed,
         Signal, ListenFails, ShutdownDone, ShutdownTimesOut, CloseChannel,
         Terminated, vars, Goto, IInv, TypeOK
<1> QED BY <1>1, <1>2 DEF Sink!vars

\* Every step of the goroutines is a step of the sink or changes nothing of
\* it.
LEMMA SinkNext == IInv /\ IInv' /\ [Next]_vars => [Sink!Next]_(Sink!vars)
<1> SUFFICES ASSUME IInv, IInv', [Next]_vars
             PROVE  Sink!Next \/ UNCHANGED Sink!vars
  OBVIOUS
<1>1. ASSUME NEW r \in Requests, Send(r) PROVE Sink!Next
  BY <1>1, SinkSend DEF Sink!Next
<1>2. ASSUME NEW r \in Requests, Acknowledge(r) PROVE Sink!Next
  BY <1>2, SinkAcknowledge DEF Sink!Next
<1>3. CASE Insert \/ InsertFails
  BY <1>3, SinkInsert DEF Insert, InsertFails
<1>4. CASE Exit
  BY <1>4, SinkExit DEF Sink!Next
<1>5. CASE Crash
  BY <1>5, SinkCrash DEF Sink!Next
<1>6. CASE \/ \E r \in Requests : Arrive(r) \/ Reject(r) \/ Decode(r) \/ Panic(r)
           \/ Receive \/ Tick \/ ReceiveClosed \/ Flushed
           \/ Signal \/ ListenFails \/ ShutdownDone \/ ShutdownTimesOut
           \/ CloseChannel \/ Terminated \/ UNCHANGED vars
  BY <1>6, SinkStutter
<1> QED BY <1>1, <1>2, <1>3, <1>4, <1>5, <1>6 DEF Next

\* Handlers, batcher and main together implement the sink: every step of
\* theirs is a step of SpanSink or changes nothing a client can tell.
THEOREM IngestImplementsSink == Spec => ImplementsSink
BY SinkInit, SinkNext, Invariance, PTL DEF Spec, Sink!Spec, ImplementsSink
=============================================================================
