---------------------------- MODULE SseProxyProofs ---------------------------
(***************************************************************************)
(* Theorems about SseProxy, for every size of the queue and any number of   *)
(* lines, messages and events.                                              *)
(***************************************************************************)
EXTENDS SseProxy, SequenceLemmas

\* What the numbers and kinds of an event may be.
LEMMA EventTypes ==
  /\ Sentinel \in Event
  /\ \A m \in 0..MaxS2C, re \in 0..MaxC2S, kind \in EventKinds :
       [kind |-> kind, m |-> m, re |-> re] \in Event
  /\ \A e \in Event : e.m \in 0..MaxS2C /\ e.re \in 0..MaxC2S
<1>1. 0 \in 0..MaxS2C /\ 0 \in 0..MaxC2S
  BY BoundsAssumption DEF BoundsAssumption
<1>2. QED
  BY <1>1 DEF Sentinel, Event

(* Every variable keeps its type; a message is numbered from 1.             *)
Numbered ==
  \A e \in Elems(queue) \cup {held} \cup Elems(stream) :
    e.kind = "message" => e.m \in 1..MaxS2C

\* Nothing is queued before the stream is connected.
Fresh == reader = "connect" => queue = <<>>

\* Types, numbers and the empty queue before the connection are inductive.
LEMMA TypeInductive == Spec => [](TypeOK /\ Numbered /\ Fresh)
<1> USE BoundsAssumption DEF BoundsAssumption
<1>1. Init => TypeOK /\ Numbered /\ Fresh
  <2>1. /\ <<>> \in Seq(Event) /\ <<>> \in Seq(Message) /\ <<>> \in Seq(1..MaxS2C)
        /\ <<>> \in Seq(Line) /\ Len(<<>>) = 0 /\ Elems(<<>>) = {}
    BY DEF Elems
  <2>2. Sentinel.kind # "message"
    BY DEF Sentinel
  <2>3. Init => Numbered /\ Fresh
    BY <2>1, <2>2 DEF Init, Numbered, Fresh
  <2>4. Init => /\ Len(queue) <= QueueMax /\ queue \in Seq(Event) /\ stream \in Seq(Event)
                /\ held \in Event /\ observed \in Seq(Message)
                /\ toClient \in Seq(1..MaxS2C) /\ clientIn \in Seq(Line)
    BY <2>1, EventTypes DEF Init
  <2>6. Init => /\ posting \subseteq 1..MaxC2S /\ received \subseteq 1..MaxC2S
                /\ clientSent \in 0..MaxC2S /\ sent \in 0..MaxS2C /\ others \in 0..MaxOther
    BY DEF Init
  <2>5. QED
    BY <2>3, <2>4, <2>6 DEF Init, TypeOK
<1>2. TypeOK /\ Numbered /\ Fresh /\ [Next]_vars => (TypeOK /\ Numbered /\ Fresh)'
  <2> SUFFICES ASSUME TypeOK, Numbered, Fresh, [Next]_vars
               PROVE  (TypeOK /\ Numbered /\ Fresh)'
    OBVIOUS
  <2> USE DEF mainVars, c2sVars, s2cVars, readerVars, clientVars, streamVars
  <2>a. Sentinel \in Event /\ Sentinel.kind # "message"
    BY EventTypes DEF Sentinel
  <2>b. ASSUME queue # <<>>
        PROVE  /\ Tail(queue) \in Seq(Event) /\ Len(Tail(queue)) = Len(queue) - 1
               /\ Elems(Tail(queue)) \subseteq Elems(queue)
               /\ Head(queue) \in Elems(queue) /\ Head(queue) \in Event
    BY <2>b, TailElems DEF TypeOK
  <2>c. ASSUME stream # <<>>
        PROVE  /\ Tail(stream) \in Seq(Event)
               /\ Elems(Tail(stream)) \subseteq Elems(stream)
               /\ Head(stream) \in Elems(stream) /\ Head(stream) \in Event
    BY <2>c, TailElems DEF TypeOK
  <2>d. ASSUME NEW e \in Event
        PROVE  /\ Append(queue, e) \in Seq(Event) /\ Len(Append(queue, e)) = Len(queue) + 1
               /\ Elems(Append(queue, e)) = Elems(queue) \cup {e}
               /\ Append(stream, e) \in Seq(Event)
               /\ Elems(Append(stream, e)) = Elems(stream) \cup {e}
    BY AppendElems DEF TypeOK
  <2>e. ~Full => Len(queue) + 1 <= QueueMax
    BY DEF Full, TypeOK
  <2>1. ASSUME NEW kind \in LineKinds, ClientWrites(kind)
        PROVE  (TypeOK /\ Numbered /\ Fresh)'
    <3>1. [k |-> clientSent + 1, kind |-> kind] \in Line
      BY <2>1 DEF ClientWrites, Line, TypeOK
    <3>2. clientIn' \in Seq(Line) /\ clientSent' \in 0..MaxC2S
      BY <2>1, <3>1 DEF ClientWrites, TypeOK
    <3>3. QED
      BY <2>1, <3>2 DEF ClientWrites, TypeOK, Numbered, Fresh
  <2>2. CASE ClientClosesInput \/ ClientClosesOutput \/ StreamEnds
             \/ Connected \/ ReadEnd \/ ReadRaises \/ C2SEndOfInput
             \/ PostAccepted \/ PostFails \/ Signal \/ Start \/ Decide \/ CloseSession
             \/ CancelC2S \/ CancelS2C
    <3>1. /\ UNCHANGED <<held, queue, observed, received, toClient, clientIn, clientSent,
                         stream, sent, others>>
          /\ reader' # "connect" \/ reader' = reader
          /\ posting' \in {posting, {}}
      BY <2>2 DEF ClientClosesInput, ClientClosesOutput, StreamEnds, Connected,
                  ReadEnd, ReadRaises, C2SEndOfInput, PostAccepted, PostFails, Signal,
                  Start, Decide, CloseSession, CancelC2S, CancelS2C
    <3>2. phase' \in {"starting", "running", "stopReader", "closeSession",
                        "cancelC2S", "cancelS2C", "closed"}
      BY <2>2 DEF TypeOK, ClientClosesInput, ClientClosesOutput, StreamEnds, Connected,
                  ReadEnd, ReadRaises, C2SEndOfInput, PostAccepted, PostFails, Signal,
                  Start, Decide, CloseSession, CancelC2S, CancelS2C
    <3>3. c2s' \in {"read", "post", "done"} /\ s2c' \in {"read", "done"}
      BY <2>2 DEF TypeOK, ClientClosesInput, ClientClosesOutput, StreamEnds, Connected,
                  ReadEnd, ReadRaises, C2SEndOfInput, PostAccepted, PostFails, Signal,
                  Start, Decide, CloseSession, CancelC2S, CancelS2C
    <3>4. reader' \in {"connect", "stream", "put", "end", "done"}
      BY <2>2 DEF TypeOK, ClientClosesInput, ClientClosesOutput, StreamEnds, Connected,
                  ReadEnd, ReadRaises, C2SEndOfInput, PostAccepted, PostFails, Signal,
                  Start, Decide, CloseSession, CancelC2S, CancelS2C
    <3>5. sig' \in BOOLEAN /\ session' \in BOOLEAN
      BY <2>2 DEF TypeOK, ClientClosesInput, ClientClosesOutput, StreamEnds, Connected,
                  ReadEnd, ReadRaises, C2SEndOfInput, PostAccepted, PostFails, Signal,
                  Start, Decide, CloseSession, CancelC2S, CancelS2C
    <3>6. clientEof' \in BOOLEAN /\ clientGone' \in BOOLEAN
      BY <2>2 DEF TypeOK, ClientClosesInput, ClientClosesOutput, StreamEnds, Connected,
                  ReadEnd, ReadRaises, C2SEndOfInput, PostAccepted, PostFails, Signal,
                  Start, Decide, CloseSession, CancelC2S, CancelS2C
    <3>7. streamOver' \in BOOLEAN /\ raised' \in BOOLEAN
      BY <2>2 DEF TypeOK, ClientClosesInput, ClientClosesOutput, StreamEnds, Connected,
                  ReadEnd, ReadRaises, C2SEndOfInput, PostAccepted, PostFails, Signal,
                  Start, Decide, CloseSession, CancelC2S, CancelS2C
    <3>8. QED
      BY <3>1, <3>2, <3>3, <3>4, <3>5, <3>6, <3>7 DEF TypeOK, Numbered, Fresh
  <2>3. ASSUME NEW re \in 0..MaxC2S, ServerSends(re)
        PROVE  (TypeOK /\ Numbered /\ Fresh)'
    <3> DEFINE e == [kind |-> "message", m |-> sent + 1, re |-> re]
    <3>1. e \in Event /\ e.m \in 1..MaxS2C /\ sent' \in 0..MaxS2C
      BY <2>3, EventTypes DEF ServerSends, TypeOK
    <3> HIDE DEF e
    <3>2. stream' = Append(stream, e)
      BY <2>3 DEF ServerSends, e
    <3>3. QED
      BY <2>3, <2>d, <3>1, <3>2 DEF ServerSends, TypeOK, Numbered, Fresh
  <2>4. ASSUME NEW kind \in EventKinds, ServerSendsOther(kind)
        PROVE  (TypeOK /\ Numbered /\ Fresh)'
    <3> DEFINE e == [kind |-> kind, m |-> 0, re |-> 0]
    <3>1. e \in Event /\ e.kind # "message" /\ others' \in 0..MaxOther
      BY <2>4, EventTypes DEF ServerSendsOther, TypeOK
    <3> HIDE DEF e
    <3>2. stream' = Append(stream, e)
      BY <2>4 DEF ServerSendsOther, e
    <3>3. QED
      BY <2>4, <2>d, <3>1, <3>2 DEF ServerSendsOther, TypeOK, Numbered, Fresh
  <2>5. CASE PostArrives
    BY <2>5 DEF PostArrives, TypeOK, Numbered, Fresh
  <2>6. CASE ConnectionFails
    <3>1. queue = <<>> /\ Len(queue) = 0
      BY <2>6 DEF ConnectionFails, Reading, Fresh
    <3>2. Len(queue') <= QueueMax /\ queue' \in Seq(Event)
          /\ Elems(queue') \subseteq Elems(queue) \cup {Sentinel}
      <4>1. queue' = queue \/ queue' = Append(queue, Sentinel)
        BY <2>6 DEF ConnectionFails
      <4>2. Len(Append(queue, Sentinel)) <= QueueMax
        BY <2>a, <2>d, <3>1
      <4>3. QED
        BY <2>a, <2>d, <4>1, <4>2 DEF TypeOK
    <3>3. QED
      BY <2>6, <2>a, <3>2 DEF ConnectionFails, TypeOK, Numbered, Fresh
  <2>7. CASE ReadMessage
    <3>1. stream # <<>> /\ stream' = Tail(stream) /\ reader = "stream"
      BY <2>7 DEF ReadMessage, Reading
    <3>2. CASE Full
      <4>1. held' = Head(stream) /\ reader' = "put" /\ queue' = queue
        BY <2>7, <3>2 DEF ReadMessage
      <4>2. QED
        BY <2>7, <2>c, <3>1, <4>1 DEF ReadMessage, TypeOK, Numbered, Fresh
    <3>3. CASE ~Full
      <4>1. held' = held /\ reader' = reader /\ queue' = Append(queue, Head(stream))
        BY <2>7, <3>3 DEF ReadMessage
      <4>2. Len(queue') <= QueueMax /\ queue' \in Seq(Event)
            /\ Elems(queue') = Elems(queue) \cup {Head(stream)}
        BY <2>c, <2>d, <2>e, <3>1, <3>3, <4>1
      <4>3. QED
        BY <2>7, <2>c, <3>1, <4>1, <4>2 DEF ReadMessage, TypeOK, Numbered, Fresh
    <3>4. QED
      BY <3>2, <3>3
  <2>8. CASE PutHeld
    BY <2>8, <2>a, <2>d, <2>e DEF PutHeld, TypeOK, Numbered, Fresh
  <2>9. CASE ReadOther
    BY <2>9, <2>c DEF ReadOther, TypeOK, Numbered, Fresh
  <2>10. CASE PutSentinel
    BY <2>10, <2>a, <2>d, <2>e DEF PutSentinel, TypeOK, Numbered, Fresh
  <2>11. CASE C2SReads
    <3> DEFINE line == Head(clientIn)
    <3>1. line \in Line /\ Tail(clientIn) \in Seq(Line) /\ line.k \in 1..MaxC2S
      <4>1. clientIn \in Seq(Line) /\ clientIn # <<>>
        BY <2>11 DEF C2SReads, TypeOK
      <4>2. line \in Line /\ Tail(clientIn) \in Seq(Line)
        BY <4>1, TailElems
      <4>3. QED
        BY <4>2 DEF Line
    <3> HIDE DEF line
    <3>2. [dir |-> "c2s", k |-> line.k, re |-> 0] \in Message
      BY <3>1 DEF Message
    <3>3. observed' \in Seq(Message)
      <4>1. observed' \in {observed, Append(observed, [dir |-> "c2s", k |-> line.k, re |-> 0])}
        BY <2>11 DEF C2SReads, Observe, line
      <4>2. QED
        <5>1. Append(observed, [dir |-> "c2s", k |-> line.k, re |-> 0]) \in Seq(Message)
          BY <3>2, AppendElems DEF TypeOK
        <5>2. QED
          BY <4>1, <5>1 DEF TypeOK
    <3>4. posting' \subseteq 1..MaxC2S /\ c2s' \in {"post", "done"}
          /\ clientIn' \in Seq(Line)
      BY <2>11, <3>1 DEF C2SReads, line
    <3>5. QED
      BY <2>11, <3>3, <3>4 DEF C2SReads, TypeOK, Numbered, Fresh
  <2>12. CASE S2CForwards
    <3> DEFINE e == Head(queue)
    <3>1. e \in Event /\ e.kind = "message" /\ e.m \in 1..MaxS2C /\ e.re \in 0..MaxC2S
      BY <2>12, <2>b, EventTypes DEF S2CForwards, Numbered
    <3>2. [dir |-> "s2c", k |-> e.m, re |-> e.re] \in Message
      BY <3>1 DEF Message
    <3> HIDE DEF e
    <3>3. observed' \in Seq(Message) /\ toClient' \in Seq(1..MaxS2C)
      <4>1. observed' = Append(observed, [dir |-> "s2c", k |-> e.m, re |-> e.re])
        BY <2>12 DEF S2CForwards, Observe, e
      <4>2. toClient' \in {toClient, Append(toClient, e.m)}
        BY <2>12 DEF S2CForwards, e
      <4>3. QED
        <5>1. Append(observed, [dir |-> "s2c", k |-> e.m, re |-> e.re]) \in Seq(Message)
          BY <3>2, AppendElems DEF TypeOK
        <5>2. Append(toClient, e.m) \in Seq(1..MaxS2C)
          BY <3>1, AppendElems DEF TypeOK
        <5>3. QED
          BY <4>1, <4>2, <5>1, <5>2 DEF TypeOK
    <3>4. QED
      BY <2>12, <2>b, <3>3 DEF S2CForwards, TypeOK, Numbered, Fresh
  <2>13. CASE S2CSentinel
    BY <2>13, <2>b DEF S2CSentinel, TypeOK, Numbered, Fresh
  <2>14. CASE StopReader
    <3> DEFINE q == IF Full THEN Tail(queue) ELSE queue
    <3>1. Full => queue # <<>>
      BY DEF Full
    <3>2. q \in Seq(Event) /\ Len(q) + 1 <= QueueMax /\ Elems(q) \subseteq Elems(queue)
      BY <2>b, <2>e, <3>1 DEF TypeOK
    <3> HIDE DEF q
    <3>3. Append(q, Sentinel) \in Seq(Event) /\ Len(Append(q, Sentinel)) = Len(q) + 1
          /\ Elems(Append(q, Sentinel)) = Elems(q) \cup {Sentinel}
      BY <2>a, <3>2, AppendElems
    <3>4. queue' = Append(q, Sentinel)
      BY <2>14 DEF StopReader, q
    <3>5. QED
      BY <2>14, <2>a, <3>2, <3>3, <3>4 DEF StopReader, TypeOK, Numbered, Fresh
  <2>15. CASE UNCHANGED vars
    BY <2>15 DEF vars, TypeOK, Numbered, Fresh
  <2>16. QED
    BY <2>1, <2>2, <2>3, <2>4, <2>5, <2>6, <2>7, <2>8, <2>9, <2>10, <2>11, <2>12,
       <2>13, <2>14, <2>15
       DEF Next, Client, Server, Reader, C2SPump, S2CPump, Main
<1>3. QED
  BY <1>1, <1>2, PTL DEF Spec

(* Every variable keeps its type, and the queue its limit.                  *)
THEOREM TypeCorrect == Spec => []TypeOK
  BY TypeInductive, PTL

-----------------------------------------------------------------------------
(* Requests and answers.                                                    *)

\* The lines of the client that the transcript shows.
C2SAt == {i \in 1..Len(observed) : observed[i].dir = "c2s"}
Asked == {observed[i].k : i \in C2SAt}

\* What was POSTed is on record, and only what was received is answered.
Carried == Elems(queue) \cup {held} \cup Elems(stream)
AnswersKnown ==
  /\ posting \subseteq Asked /\ received \subseteq Asked
  /\ \A e \in Carried : e.re # 0 => e.re \in received

\* The pump only goes on to the next line when all before it were received.
PostedInTurn ==
  /\ phase = "starting" => observed = <<>> /\ c2s = "done" /\ s2c = "done"
  /\ c2s = "read" => Asked \subseteq received
  /\ c2s = "post" => Asked \subseteq received \cup posting

\* What Observe adds to the transcript.
LEMMA Observes ==
  ASSUME observed \in Seq(Message), NEW dir, NEW k, NEW re, Observe(dir, k, re),
         [dir |-> dir, k |-> k, re |-> re] \in Message
  PROVE  /\ dir = "c2s" => Asked' = Asked \cup {k}
         /\ dir # "c2s" => Asked' = Asked
         /\ Len(observed') = Len(observed) + 1
         /\ \A i \in 1..Len(observed) : observed'[i] = observed[i]
         /\ observed'[Len(observed) + 1].dir = dir
         /\ observed'[Len(observed) + 1].k = k
         /\ observed'[Len(observed) + 1].re = re
<1> DEFINE r == [dir |-> dir, k |-> k, re |-> re]
           n == Len(observed)
<1>1. r.dir = dir /\ r.k = k /\ r.re = re /\ r \in Message
  OBVIOUS
<1> HIDE DEF r
<1>2. observed' = Append(observed, r)
  BY DEF Observe, r
<1>3. /\ n \in Nat /\ Len(observed') = n + 1 /\ observed'[n + 1] = r
      /\ \A i \in 1..n : observed'[i] = observed[i]
  BY <1>1, <1>2
<1> HIDE DEF n
<1>4. C2SAt' = C2SAt \cup (IF dir = "c2s" THEN {n + 1} ELSE {})
  <2>1. ASSUME NEW i \in 1..(n + 1)
        PROVE  i \in C2SAt' <=> i \in C2SAt \/ (i = n + 1 /\ dir = "c2s")
    BY <1>1, <1>3 DEF C2SAt, n
  <2>2. C2SAt' \subseteq 1..(n + 1) /\ C2SAt \subseteq 1..(n + 1) /\ n + 1 \in 1..(n + 1)
    BY <1>3 DEF C2SAt, n
  <2>3. QED
    BY <2>1, <2>2
<1>5. \A i \in C2SAt : i \in 1..n
  BY DEF C2SAt, n
<1>6. /\ dir = "c2s" => Asked' = Asked \cup {k}
      /\ dir # "c2s" => Asked' = Asked
  <2>1. \A i \in C2SAt : i \in C2SAt' /\ observed'[i] = observed[i]
    BY <1>3, <1>4, <1>5
  <2>2. CASE dir = "c2s"
    BY <1>1, <1>3, <1>4, <2>1, <2>2 DEF Asked
  <2>3. CASE dir # "c2s"
    BY <1>4, <2>1, <2>3 DEF Asked
  <2>4. QED
    BY <2>2, <2>3
<1>7. QED
  BY <1>1, <1>3, <1>6 DEF n

\* No step but a transmission of the server puts an answer on its way.
LEMMA CarriedStep ==
  ASSUME TypeOK, [Next]_vars
  PROVE  \/ Carried' \subseteq Carried \cup {Sentinel}
         \/ \E re \in 0..MaxC2S : ServerSends(re)
         \/ \E kind \in EventKinds : ServerSendsOther(kind)
<1> USE DEF readerVars, streamVars
<1>1. Sentinel \in Event
  BY EventTypes
<1>2. CASE UNCHANGED <<queue, held, stream>>
  BY <1>2 DEF Carried
<1>3. CASE ConnectionFails
  <2>1. Elems(queue') \subseteq Elems(queue) \cup {Sentinel}
    BY <1>1, <1>3, AppendElems DEF ConnectionFails, TypeOK
  <2>2. QED
    BY <1>3, <2>1 DEF ConnectionFails, Carried
<1>4. CASE ReadMessage
  <2>1. /\ stream' = Tail(stream) /\ Head(stream) \in Event
        /\ Elems(stream) = Elems(stream') \cup {Head(stream)}
    BY <1>4, TailElems DEF ReadMessage, TypeOK
  <2>2. CASE Full
    BY <1>4, <2>1, <2>2 DEF ReadMessage, Carried
  <2>3. CASE ~Full
    <3>1. queue' = Append(queue, Head(stream)) /\ queue \in Seq(Event)
      BY <1>4, <2>3 DEF ReadMessage, TypeOK
    <3>3. Elems(queue') = Elems(queue) \cup {Head(stream)}
      BY <2>1, <3>1, AppendElems
    <3>2. QED
      BY <1>4, <2>1, <2>3, <3>3 DEF ReadMessage, Carried
  <2>4. QED
    BY <2>2, <2>3
<1>5. CASE PutHeld
  <2>1. Elems(queue') = Elems(queue) \cup {held}
    BY <1>5, AppendElems DEF PutHeld, TypeOK
  <2>2. QED
    BY <1>5, <2>1 DEF PutHeld, Carried
<1>6. CASE ReadOther
  <2>1. Elems(stream') \subseteq Elems(stream)
    BY <1>6, TailElems DEF ReadOther, TypeOK
  <2>2. QED
    BY <1>6, <2>1 DEF ReadOther, Carried
<1>7. CASE PutSentinel
  <2>1. Elems(queue') = Elems(queue) \cup {Sentinel}
    BY <1>1, <1>7, AppendElems DEF PutSentinel, TypeOK
  <2>2. QED
    BY <1>7, <2>1 DEF PutSentinel, Carried
<1>8. CASE S2CForwards \/ S2CSentinel
  <2>1. queue # <<>> /\ queue' = Tail(queue) /\ held' = held /\ stream' = stream
    BY <1>8 DEF S2CForwards, S2CSentinel
  <2>2. Elems(queue') \subseteq Elems(queue)
    BY <2>1, TailElems DEF TypeOK
  <2>3. QED
    BY <2>1, <2>2 DEF Carried
<1>9. CASE StopReader
  <2> DEFINE q == IF Full THEN Tail(queue) ELSE queue
  <2>1. q \in Seq(Event) /\ Elems(q) \subseteq Elems(queue)
    BY BoundsAssumption, TailElems DEF TypeOK, Full, BoundsAssumption
  <2> HIDE DEF q
  <2>2. queue' = Append(q, Sentinel) /\ held' = Sentinel /\ stream' = stream
    BY <1>9 DEF StopReader, q
  <2>3. Elems(queue') = Elems(q) \cup {Sentinel}
    BY <1>1, <2>1, <2>2, AppendElems
  <2>4. QED
    BY <2>1, <2>2, <2>3 DEF Carried
<1>10. QED
  BY <1>2, <1>3, <1>4, <1>5, <1>6, <1>7, <1>8, <1>9
     DEF Next, Client, Server, Reader, C2SPump, S2CPump, Main, vars,
         ClientWrites, ClientClosesInput, ClientClosesOutput, StreamEnds,
         PostArrives, Connected, ReadEnd, ReadRaises, C2SReads, C2SEndOfInput, PostAccepted,
         PostFails, Signal, Start, Decide, CloseSession, CancelC2S, CancelS2C

RequestInv ==
  AnswersKnown /\ PostedInTurn /\ AnswerAfterRequest /\ OnlyLastUndelivered

\* A line of the client is observed.
LEMMA LineObserved ==
  ASSUME TypeOK, RequestInv, NEW k \in Nat, Observe("c2s", k, 0),
         Asked \subseteq received, received' = received
  PROVE  /\ Asked' = Asked \cup {k}
         /\ AnswerAfterRequest' /\ OnlyLastUndelivered'
<1> DEFINE n == Len(observed)
<1>1. 0 \in 0..MaxC2S
  BY BoundsAssumption DEF BoundsAssumption
<1>2. [dir |-> "c2s", k |-> k, re |-> 0] \in Message
  BY <1>1 DEF Message
<1>3. /\ Asked' = Asked \cup {k} /\ n \in Nat /\ Len(observed') = n + 1
      /\ \A i \in 1..n : observed'[i] = observed[i]
      /\ observed'[n + 1].dir = "c2s"
  BY <1>2, Observes DEF TypeOK
<1>4. \A i \in 1..n : observed[i].dir = "c2s" => observed[i].k \in received
  BY DEF Asked, C2SAt
<1>5. AnswerAfterRequest'
  <2> SUFFICES ASSUME NEW j \in 1..Len(observed'),
                      observed'[j].dir = "s2c", observed'[j].re # 0
               PROVE  \E i \in 1..(j - 1) :
                        observed'[i].dir = "c2s" /\ observed'[i].k = observed'[j].re
    BY DEF AnswerAfterRequest
  <2>1. j \in 1..n
    BY <1>3
  <2>2. PICK i \in 1..(j - 1) : observed[i].dir = "c2s" /\ observed[i].k = observed[j].re
    BY <1>3, <2>1 DEF RequestInv, AnswerAfterRequest
  <2>3. i \in 1..n
    BY <1>3, <2>1
  <2>4. QED
    BY <1>3, <2>1, <2>2, <2>3
<1>6. OnlyLastUndelivered'
  <2> SUFFICES ASSUME NEW i \in 1..Len(observed'), NEW j \in 1..Len(observed'),
                      observed'[i].dir = "c2s", i < j
               PROVE  observed'[i].k \in received'
    BY DEF OnlyLastUndelivered
  <2>1. i \in 1..n
    BY <1>3
  <2>2. QED
    BY <1>3, <1>4, <2>1
<1>7. QED
  BY <1>3, <1>5, <1>6

\* A message of the server is observed.
LEMMA MessageObserved ==
  ASSUME TypeOK, RequestInv, NEW m \in Nat, NEW re \in 0..MaxC2S,
         Observe("s2c", m, re), re # 0 => re \in Asked, received' = received
  PROVE  Asked' = Asked /\ AnswerAfterRequest' /\ OnlyLastUndelivered'
<1> DEFINE n == Len(observed)
<1>1. [dir |-> "s2c", k |-> m, re |-> re] \in Message
  BY DEF Message
<1>2. /\ Asked' = Asked /\ n \in Nat /\ Len(observed') = n + 1
      /\ \A i \in 1..n : observed'[i] = observed[i]
      /\ observed'[n + 1].dir = "s2c" /\ observed'[n + 1].re = re
  <2>1. observed \in Seq(Message) /\ "s2c" # "c2s"
    BY DEF TypeOK
  <2>2. /\ Asked' = Asked
        /\ Len(observed') = n + 1
        /\ \A i \in 1..n : observed'[i] = observed[i]
        /\ observed'[n + 1].dir = "s2c" /\ observed'[n + 1].re = re
    BY <1>1, <2>1, Observes
  <2>3. n \in Nat
    BY <2>1
  <2>4. QED
    BY <2>1, <2>2, <2>3
<1> HIDE DEF n
<1>3. AnswerAfterRequest'
  <2> SUFFICES ASSUME NEW j \in 1..Len(observed'),
                      observed'[j].dir = "s2c", observed'[j].re # 0
               PROVE  \E i \in 1..(j - 1) :
                        observed'[i].dir = "c2s" /\ observed'[i].k = observed'[j].re
    BY DEF AnswerAfterRequest
  <2>1. CASE j = n + 1
    <3>1. re \in Asked
      BY <1>2, <2>1
    <3>2. PICK i \in 1..n : observed[i].dir = "c2s" /\ observed[i].k = re
      BY <3>1 DEF Asked, C2SAt, n
    <3>3. i \in 1..(j - 1)
      BY <1>2, <2>1
    <3>4. QED
      BY <1>2, <2>1, <3>2, <3>3
  <2>2. CASE j \in 1..n
    <3>1. PICK i \in 1..(j - 1) : observed[i].dir = "c2s" /\ observed[i].k = observed[j].re
      BY <1>2, <2>2 DEF RequestInv, AnswerAfterRequest, n
    <3>2. i \in 1..n
      BY <1>2, <2>2
    <3>3. QED
      BY <1>2, <2>2, <3>1, <3>2
  <2>3. QED
    BY <1>2, <2>1, <2>2
<1>4. OnlyLastUndelivered'
  <2> SUFFICES ASSUME NEW i \in 1..Len(observed'), NEW j \in 1..Len(observed'),
                      observed'[i].dir = "c2s", observed'[j].dir = "c2s", i < j
               PROVE  observed'[i].k \in received'
    BY DEF OnlyLastUndelivered
  <2>1. i \in 1..n /\ j \in 1..n
    BY <1>2
  <2>2. QED
    BY <1>2, <2>1 DEF RequestInv, OnlyLastUndelivered, n
<1>5. QED
  BY <1>2, <1>3, <1>4

(* The invariant of requests and answers is inductive.                      *)
LEMMA RequestInductive == Spec => []RequestInv
<1> USE BoundsAssumption DEF BoundsAssumption
<1>1. Init => RequestInv
  <2> SUFFICES ASSUME Init
               PROVE  RequestInv
    OBVIOUS
  <2>1. C2SAt = {} /\ Asked = {} /\ Carried = {Sentinel} /\ Sentinel.re = 0
    BY DEF Init, C2SAt, Asked, Carried, Elems, Sentinel
  <2>2. QED
    BY <2>1 DEF Init, RequestInv, AnswersKnown, PostedInTurn, AnswerAfterRequest,
                OnlyLastUndelivered
<1>2. TypeOK /\ RequestInv /\ [Next]_vars => RequestInv'
  <2> SUFFICES ASSUME TypeOK, RequestInv, [Next]_vars
               PROVE  RequestInv'
    OBVIOUS
  <2> USE DEF mainVars, c2sVars, s2cVars, readerVars, clientVars, streamVars
  <2>a. Sentinel.re = 0 /\ Sentinel \in Event
    BY EventTypes DEF Sentinel
  <2>b. ASSUME UNCHANGED observed, received \subseteq received'
        PROVE  Asked' = Asked /\ AnswerAfterRequest' /\ OnlyLastUndelivered'
    BY <2>b DEF RequestInv, Asked, C2SAt, AnswerAfterRequest, OnlyLastUndelivered
  <2>c. ASSUME Carried' \subseteq Carried \cup {Sentinel}, received \subseteq received',
               Asked \subseteq Asked', received' \subseteq Asked', posting' \subseteq Asked'
        PROVE  AnswersKnown'
    BY <2>a, <2>c DEF RequestInv, AnswersKnown
  <2>d. posting \subseteq Asked /\ received \subseteq Asked
    BY DEF RequestInv, AnswersKnown
  <2>1. ASSUME NEW re \in 0..MaxC2S, ServerSends(re)
        PROVE  RequestInv'
    <3> DEFINE e == [kind |-> "message", m |-> sent + 1, re |-> re]
    <3>1. e \in Event /\ e.re = re
      BY <2>1 DEF ServerSends, TypeOK, Event
    <3>2. stream' = Append(stream, e) /\ UNCHANGED <<queue, held>> /\ re \in received \cup {0}
      BY <2>1 DEF ServerSends
    <3> HIDE DEF e
    <3>3. Carried' = Carried \cup {e}
      BY <3>1, <3>2, AppendElems DEF Carried, TypeOK
    <3>4. UNCHANGED <<phase, c2s, s2c, observed, posting, received>>
      BY <2>1 DEF ServerSends
    <3>5. Asked' = Asked /\ AnswerAfterRequest' /\ OnlyLastUndelivered'
      BY <2>b, <3>4
    <3>6. AnswersKnown' /\ PostedInTurn'
      BY <3>1, <3>2, <3>3, <3>4, <3>5 DEF RequestInv, AnswersKnown, PostedInTurn
    <3>7. QED
      BY <3>5, <3>6 DEF RequestInv
  <2>2. ASSUME NEW kind \in EventKinds, ServerSendsOther(kind)
        PROVE  RequestInv'
    <3> DEFINE e == [kind |-> kind, m |-> 0, re |-> 0]
    <3>1. e \in Event /\ e.re = 0
      BY EventTypes
    <3>2. stream' = Append(stream, e) /\ UNCHANGED <<queue, held>>
      BY <2>2 DEF ServerSendsOther
    <3> HIDE DEF e
    <3>3. Carried' = Carried \cup {e}
      BY <3>1, <3>2, AppendElems DEF Carried, TypeOK
    <3>4. UNCHANGED <<phase, c2s, s2c, observed, posting, received>>
      BY <2>2 DEF ServerSendsOther
    <3>5. Asked' = Asked /\ AnswerAfterRequest' /\ OnlyLastUndelivered'
      BY <2>b, <3>4
    <3>6. AnswersKnown' /\ PostedInTurn'
      BY <3>1, <3>3, <3>4, <3>5 DEF RequestInv, AnswersKnown, PostedInTurn
    <3>7. QED
      BY <3>5, <3>6 DEF RequestInv
  <2> DEFINE Same == Carried' \subseteq Carried \cup {Sentinel}
  <2>3. CASE Same /\ C2SReads
    <3> DEFINE k == Head(clientIn).k
    <3>2. k \in Nat
      <4>1. clientIn \in Seq(Line) /\ clientIn # <<>>
        BY <2>3 DEF C2SReads, TypeOK
      <4>2. Head(clientIn) \in Line
        BY <4>1, TailElems
      <4>3. QED
        BY <4>2 DEF Line
    <3> HIDE DEF k
    <3>3. /\ c2s = "read" /\ received' = received /\ phase' = phase
          /\ c2s' \in {"post", "done"} /\ (c2s' = "post" => posting' = {k})
          /\ posting' \in {{}, {k}}
          /\ \/ Observe("c2s", k, 0)
             \/ observed' = observed /\ posting' = {} /\ c2s' = "done"
      BY <2>3 DEF C2SReads, k
    <3>4. Asked \subseteq received /\ phase # "starting"
      BY <3>3 DEF RequestInv, PostedInTurn
    <3>5. CASE Observe("c2s", k, 0)
      <4>1. Asked' = Asked \cup {k} /\ AnswerAfterRequest' /\ OnlyLastUndelivered'
        BY <3>2, <3>3, <3>4, <3>5, LineObserved
      <4>2. AnswersKnown'
        BY <2>3, <2>c, <2>d, <3>3, <4>1
      <4>3. PostedInTurn'
        BY <3>3, <3>4, <4>1 DEF PostedInTurn
      <4>4. QED
        BY <4>1, <4>2, <4>3 DEF RequestInv
    <3>6. CASE observed' = observed /\ posting' = {} /\ c2s' = "done"
      <4>1. Asked' = Asked /\ AnswerAfterRequest' /\ OnlyLastUndelivered'
        BY <2>b, <3>3, <3>6
      <4>2. AnswersKnown'
        BY <2>3, <2>c, <2>d, <3>3, <3>6, <4>1
      <4>3. PostedInTurn'
        BY <3>3, <3>4, <3>6 DEF PostedInTurn
      <4>4. QED
        BY <4>1, <4>2, <4>3 DEF RequestInv
    <3>7. QED
      BY <3>3, <3>5, <3>6
  <2>4. CASE Same /\ S2CForwards
    <3> DEFINE e == Head(queue)
    <3>1. e \in Event /\ e \in Carried
      BY <2>4, TailElems DEF S2CForwards, TypeOK, Carried
    <3>2. e.m \in Nat /\ e.re \in 0..MaxC2S /\ (e.re # 0 => e.re \in Asked)
      BY <2>d, <3>1, EventTypes DEF RequestInv, AnswersKnown
    <3> HIDE DEF e
    <3>3. /\ Observe("s2c", e.m, e.re)
          /\ UNCHANGED <<phase, c2s, posting, received>>
          /\ s2c = "read"
      BY <2>4 DEF S2CForwards, e
    <3>4. Asked' = Asked /\ AnswerAfterRequest' /\ OnlyLastUndelivered'
      BY <3>2, <3>3, MessageObserved
    <3>5. AnswersKnown'
      BY <2>4, <2>c, <2>d, <3>3, <3>4
    <3>6. phase # "starting"
      BY <3>3 DEF RequestInv, PostedInTurn
    <3>7. PostedInTurn'
      BY <3>3, <3>4, <3>6 DEF RequestInv, PostedInTurn
    <3>8. QED
      BY <3>4, <3>5, <3>7 DEF RequestInv
  <2>5. CASE Same /\ PostArrives
    <3>1. /\ received' = received \cup posting /\ posting' = {}
          /\ UNCHANGED <<phase, c2s, s2c, observed>>
      BY <2>5 DEF PostArrives
    <3>2. Asked' = Asked /\ AnswerAfterRequest' /\ OnlyLastUndelivered'
      BY <2>b, <3>1
    <3>3. AnswersKnown'
      BY <2>5, <2>c, <2>d, <3>1, <3>2
    <3>4. PostedInTurn'
      BY <3>1, <3>2 DEF RequestInv, PostedInTurn
    <3>5. QED
      BY <3>2, <3>3, <3>4 DEF RequestInv
  <2>6. CASE /\ Same /\ ~C2SReads /\ ~S2CForwards /\ ~PostArrives
             /\ ~(\E re \in 0..MaxC2S : ServerSends(re))
             /\ ~(\E kind \in EventKinds : ServerSendsOther(kind))
    <3>0. phase = "starting" => c2s = "done" /\ s2c = "done"
      BY DEF RequestInv, PostedInTurn
    <3>1. /\ UNCHANGED <<observed, received>> /\ posting' \in {posting, {}}
          /\ phase' = "starting" => UNCHANGED <<phase, c2s, s2c>>
          /\ \/ c2s' = c2s /\ posting' = posting
             \/ c2s' = "done"
             \/ c2s' = "read" /\ c2s = "post" /\ posting = {}
             \/ c2s' = "read" /\ phase = "starting"
      BY <2>6, <3>0
         DEF Next, Client, Server, Reader, C2SPump, S2CPump, Main, vars,
             ClientWrites, ClientClosesInput, ClientClosesOutput, StreamEnds,
             Connected, ConnectionFails, ReadMessage, PutHeld, ReadOther, ReadEnd, ReadRaises,
             PutSentinel, C2SEndOfInput, PostAccepted, PostFails, S2CSentinel,
             Signal, Start, Decide, StopReader, CloseSession, CancelC2S, CancelS2C
    <3>2. Asked' = Asked /\ AnswerAfterRequest' /\ OnlyLastUndelivered'
      BY <2>b, <3>1
    <3>3. AnswersKnown'
      BY <2>6, <2>c, <2>d, <3>1, <3>2
    <3>4. phase = "starting" => Asked = {}
      BY DEF RequestInv, PostedInTurn, Asked, C2SAt
    <3>5. PostedInTurn'
      BY <3>1, <3>2, <3>4 DEF RequestInv, PostedInTurn
    <3>6. QED
      BY <3>2, <3>3, <3>5 DEF RequestInv
  <2>7. QED
    BY <2>1, <2>2, <2>3, <2>4, <2>5, <2>6, CarriedStep
<1>3. QED
  BY <1>1, <1>2, TypeInductive, PTL DEF Spec

(* No answer in a transcript before its request, for any interleaving of    *)
(* the pumps and the stream, and any size of the queue.                     *)
THEOREM AnswersCorrect == Spec => []AnswerAfterRequest
  BY RequestInductive, PTL DEF RequestInv

(* Only the last line recorded may be missing at the server.                *)
THEOREM UndeliveredCorrect == Spec => []OnlyLastUndelivered
  BY RequestInductive, PTL DEF RequestInv

-----------------------------------------------------------------------------
(* The messages on their way to the client.                                 *)

IsMsg(e) == e.kind = "message"
NumOf(e) == IF IsMsg(e) THEN {e.m} ELSE {}
Nums(s) == {e.m : e \in {x \in Elems(s) : IsMsg(x)}}
Ordered(s) ==
  \A i, j \in 1..Len(s) : i < j /\ IsMsg(s[i]) /\ IsMsg(s[j]) => s[i].m < s[j].m
Behind == NumOf(held) \cup Nums(stream)

\* The pump has yet to read, and the reader may.
Waiting == s2c = "read" \/ phase = "starting"
Early == phase \in {"starting", "running"}

\* In the queue, in the reader's hand and on the stream, messages are in order.
InFlight ==
  /\ Ordered(queue) /\ Ordered(stream)
  /\ \A a \in Nums(queue), b \in Behind : a < b
  /\ \A a \in NumOf(held), b \in Nums(stream) : a < b
  /\ \A a \in Nums(queue) \cup Behind : a <= sent

\* None of them is missing, and none has reached the client.
Complete ==
  /\ InOrder /\ Len(toClient) <= sent
  /\ Waiting => \A a \in Nums(queue) \cup Behind : Len(toClient) < a
  /\ Waiting /\ Early =>
       \A n \in 1..sent : n <= Len(toClient) \/ n \in Nums(queue) \cup Behind
  /\ s2c = "read" => \A a \in Nums(queue) : \A n \in 1..a :
       n <= Len(toClient) \/ n \in Nums(queue)

\* Where the reader may be, and with what in its hand.
ReaderAt ==
  /\ reader # "put" => held = Sentinel
  /\ ~Early => phase = "stopReader" \/ reader = "done"
  /\ phase = "starting" => s2c = "done"

OrderInv == InFlight /\ Complete /\ ReaderAt

\* Taking the head of a sequence that is in order.
LEMMA NumsTail ==
  ASSUME NEW s \in Seq(Event), s # <<>>
  PROVE  /\ Nums(s) = Nums(Tail(s)) \cup NumOf(Head(s))
         /\ Ordered(s) => /\ Ordered(Tail(s))
                          /\ \A a \in NumOf(Head(s)), b \in Nums(Tail(s)) : a < b
<1>1. Elems(s) = Elems(Tail(s)) \cup {Head(s)}
  BY TailElems
<1>2. Nums(s) = Nums(Tail(s)) \cup NumOf(Head(s))
  BY <1>1 DEF Nums, NumOf
<1>3. /\ Len(s) \in Nat /\ Len(s) >= 1 /\ Len(Tail(s)) = Len(s) - 1 /\ Head(s) = s[1]
      /\ \A i \in 1..(Len(s) - 1) : Tail(s)[i] = s[i + 1]
  OBVIOUS
<1>4. Ordered(s) => Ordered(Tail(s))
  BY <1>3 DEF Ordered
<1>5. ASSUME Ordered(s), NEW a \in NumOf(Head(s)), NEW b \in Nums(Tail(s))
      PROVE  a < b
  <2>1. PICK i \in 1..Len(Tail(s)) : IsMsg(Tail(s)[i]) /\ b = Tail(s)[i].m
    BY DEF Nums, Elems
  <2>2. IsMsg(s[1]) /\ a = s[1].m
    BY <1>3 DEF NumOf
  <2>3. i + 1 \in 1..Len(s) /\ 1 \in 1..Len(s) /\ 1 < i + 1 /\ Tail(s)[i] = s[i + 1]
    BY <1>3
  <2>4. QED
    BY <1>5, <2>1, <2>2, <2>3 DEF Ordered
<1>6. QED
  BY <1>2, <1>4, <1>5

\* Adding an event that is not before the others.
LEMMA NumsAppend ==
  ASSUME NEW s \in Seq(Event), NEW e \in Event
  PROVE  /\ Nums(Append(s, e)) = Nums(s) \cup NumOf(e)
         /\ Ordered(s) /\ (\A a \in Nums(s), b \in NumOf(e) : a < b)
              => Ordered(Append(s, e))
<1>1. Elems(Append(s, e)) = Elems(s) \cup {e}
  BY AppendElems
<1>2. Nums(Append(s, e)) = Nums(s) \cup NumOf(e)
  BY <1>1 DEF Nums, NumOf
<1>3. /\ Len(s) \in Nat /\ Len(Append(s, e)) = Len(s) + 1
      /\ Append(s, e)[Len(s) + 1] = e
      /\ \A i \in 1..Len(s) : Append(s, e)[i] = s[i]
  OBVIOUS
<1>4. ASSUME Ordered(s), \A a \in Nums(s), b \in NumOf(e) : a < b
      PROVE  Ordered(Append(s, e))
  <2> DEFINE t == Append(s, e)
  <2> SUFFICES ASSUME NEW i \in 1..Len(t), NEW j \in 1..Len(t), i < j,
                      IsMsg(t[i]), IsMsg(t[j])
               PROVE  t[i].m < t[j].m
    BY DEF Ordered
  <2>1. i \in 1..Len(s) /\ t[i] = s[i]
    BY <1>3
  <2>2. CASE j \in 1..Len(s)
    BY <1>3, <1>4, <2>1, <2>2 DEF Ordered
  <2>3. CASE j = Len(s) + 1
    <3>1. t[j] = e /\ e.m \in NumOf(e)
      BY <1>3, <2>3 DEF NumOf
    <3>2. s[i].m \in Nums(s)
      BY <2>1 DEF Nums, Elems
    <3>3. QED
      BY <1>4, <2>1, <3>1, <3>2
  <2>4. QED
    BY <1>3, <2>2, <2>3
<1>5. QED
  BY <1>2, <1>4

\* Numbers are naturals; a sentinel has none.
LEMMA NumsTypes ==
  /\ \A e \in Event : NumOf(e) \subseteq 0..MaxS2C
  /\ \A s \in Seq(Event) : Nums(s) \subseteq 0..MaxS2C
  /\ NumOf(Sentinel) = {} /\ Nums(<<>>) = {}
<1>1. \A e \in Event : NumOf(e) \subseteq 0..MaxS2C
  BY EventTypes DEF NumOf
<1>2. ASSUME NEW s \in Seq(Event), NEW a \in Nums(s)
      PROVE  a \in 0..MaxS2C
  <2>1. PICK i \in 1..Len(s) : a = s[i].m
    BY DEF Nums, Elems
  <2>2. s[i] \in Event
    OBVIOUS
  <2>3. QED
    BY <2>1, <2>2, EventTypes
<1>3. NumOf(Sentinel) = {} /\ Nums(<<>>) = {}
  BY DEF NumOf, IsMsg, Sentinel, Nums, Elems
<1>4. QED
  BY <1>1, <1>2, <1>3

\* A step that moves no message, and begins no reading but at the start.
LEMMA OrderKept ==
  ASSUME OrderInv, UNCHANGED <<queue, held, stream, sent, toClient>>,
         Waiting' => Waiting, Early' => Early,
         s2c' = "read" => s2c = "read" \/ (Waiting /\ Early),
         TypeOK
  PROVE  InFlight' /\ Complete'
<1> USE DEF OrderInv
<1>1. InFlight'
  BY DEF InFlight, Behind
<1>2. InOrder' /\ Len(toClient)' <= sent'
  BY DEF Complete, InOrder
<1>3. Waiting' => \A a \in Nums(queue)' \cup Behind' : Len(toClient)' < a
  BY DEF Complete, Behind
<1>4. Waiting' /\ Early' =>
        \A n \in 1..sent' : n <= Len(toClient)' \/ n \in Nums(queue)' \cup Behind'
  BY DEF Complete, Behind
<1>5. s2c' = "read" => \A a \in Nums(queue)' : \A n \in 1..a :
        n <= Len(toClient)' \/ n \in Nums(queue)'
  <2> SUFFICES ASSUME s2c' = "read", NEW a \in Nums(queue), NEW n \in 1..a
               PROVE  n <= Len(toClient) \/ n \in Nums(queue)
    OBVIOUS
  <2>1. CASE s2c = "read"
    BY <2>1 DEF Complete
  <2>2. CASE Waiting /\ Early
    <3>1. a \in 0..MaxS2C /\ a <= sent /\ sent \in Nat
      BY NumsTypes DEF TypeOK, InFlight
    <3>2. n \in 1..sent /\ n <= a
      BY <3>1
    <3>3. n <= Len(toClient) \/ n \in Nums(queue) \cup Behind
      BY <2>2, <3>2 DEF Complete
    <3>4. n \notin Behind
      BY <3>1, <3>2 DEF InFlight
    <3>5. QED
      BY <3>3, <3>4
  <2>3. QED
    BY <2>1, <2>2
<1>6. QED
  BY <1>1, <1>2, <1>3, <1>4, <1>5 DEF Complete

\* A step of the reader: messages only move from behind the queue into it.
LEMMA OrderRead ==
  ASSUME OrderInv, TypeOK, TypeOK', InFlight', Nums(queue) \subseteq Nums(queue)',
         Nums(queue)' \cup Behind' = Nums(queue) \cup Behind,
         UNCHANGED <<phase, s2c, sent, toClient>>,
         Nums(queue)' # Nums(queue) => Early
  PROVE  Complete'
<1>1. InOrder' /\ Len(toClient)' <= sent' /\ Waiting' = Waiting /\ Early' = Early
  BY DEF OrderInv, Complete, InOrder, Waiting, Early
<1>2. Waiting' => \A a \in Nums(queue)' \cup Behind' : Len(toClient)' < a
  BY <1>1 DEF OrderInv, Complete
<1>3. Waiting' /\ Early' =>
        \A n \in 1..sent' : n <= Len(toClient)' \/ n \in Nums(queue)' \cup Behind'
  BY <1>1 DEF OrderInv, Complete
<1>4. s2c' = "read" => \A a \in Nums(queue)' : \A n \in 1..a :
        n <= Len(toClient)' \/ n \in Nums(queue)'
  <2> SUFFICES ASSUME s2c = "read", NEW a \in Nums(queue)', NEW n \in 1..a
               PROVE  n <= Len(toClient) \/ n \in Nums(queue)'
    OBVIOUS
  <2>1. CASE Nums(queue)' = Nums(queue)
    BY <2>1 DEF OrderInv, Complete
  <2>2. CASE Early
    <3>1. a \in 0..MaxS2C /\ a <= sent' /\ sent' \in Nat /\ sent' = sent
      BY NumsTypes DEF TypeOK, InFlight
    <3>2. n \in 1..sent /\ n <= a
      BY <3>1
    <3>3. n <= Len(toClient) \/ n \in Nums(queue)' \cup Behind'
      BY <2>2, <3>2 DEF OrderInv, Complete, Waiting
    <3>4. n \notin Behind'
      BY <3>1, <3>2 DEF InFlight
    <3>5. QED
      BY <3>3, <3>4
  <2>3. QED
    BY <2>1, <2>2
<1>5. QED
  BY <1>1, <1>2, <1>3, <1>4 DEF Complete

\* A step of the pump: the head of the queue is gone.
LEMMA OrderTaken ==
  ASSUME OrderInv, TypeOK, queue # <<>>, queue' = Tail(queue),
         UNCHANGED <<held, stream, sent>>
  PROVE  /\ InFlight'
         /\ Nums(queue) = Nums(queue)' \cup NumOf(Head(queue)) /\ Behind' = Behind
<1>1. /\ Nums(queue) = Nums(Tail(queue)) \cup NumOf(Head(queue))
      /\ Ordered(queue) => Ordered(Tail(queue))
  BY NumsTail DEF TypeOK
<1>2. QED
  BY <1>1 DEF OrderInv, InFlight, Behind

(* The order of the messages under way, and their completeness, are         *)
(* inductive.                                                               *)
LEMMA OrderInductive == Spec => []OrderInv
<1> USE BoundsAssumption DEF BoundsAssumption
<1>1. Init => OrderInv
  <2> SUFFICES ASSUME Init
               PROVE  OrderInv
    OBVIOUS
  <2>1. /\ Nums(queue) = {} /\ Behind = {} /\ NumOf(held) = {} /\ Nums(stream) = {}
        /\ Ordered(queue) /\ Ordered(stream)
    BY NumsTypes DEF Init, Behind, Ordered
  <2>2. InFlight
    BY <2>1 DEF InFlight
  <2>3. Complete
    BY <2>1 DEF Init, Complete, InOrder
  <2>4. QED
    BY <2>2, <2>3 DEF Init, OrderInv, ReaderAt, Early
<1>2. TypeOK /\ TypeOK' /\ Numbered /\ OrderInv /\ [Next]_vars => OrderInv'
  <2> SUFFICES ASSUME TypeOK, TypeOK', Numbered, OrderInv, [Next]_vars
               PROVE  OrderInv'
    OBVIOUS
  <2> USE DEF mainVars, c2sVars, s2cVars, readerVars, clientVars, streamVars
  <2>a. ReaderAt'
    BY DEF OrderInv, ReaderAt, Early, Next, Client, Server, Reader, C2SPump, S2CPump,
           Main, vars, ClientWrites, ClientClosesInput, ClientClosesOutput, ServerSends,
           ServerSendsOther, StreamEnds, PostArrives, Reading, Connected,
           ConnectionFails, ReadMessage, PutHeld, ReadOther, ReadEnd, ReadRaises, PutSentinel,
           C2SReads, C2SEndOfInput, PostAccepted, PostFails, S2CForwards,
           S2CSentinel, Start, Signal, Decide, StopReader, CloseSession, CancelC2S,
           CancelS2C
  <2>b. /\ queue \in Seq(Event) /\ stream \in Seq(Event) /\ held \in Event
        /\ Sentinel \in Event /\ NumOf(Sentinel) = {}
    BY EventTypes, NumsTypes DEF TypeOK
  <2>c. /\ Nums(queue) \subseteq 0..MaxS2C /\ Nums(stream) \subseteq 0..MaxS2C
        /\ NumOf(held) \subseteq 0..MaxS2C /\ sent \in Nat /\ Len(toClient) \in Nat
    BY <2>b, NumsTypes DEF TypeOK
  <2>1. ASSUME NEW re \in 0..MaxC2S, ServerSends(re)
        PROVE  OrderInv'
    <3> DEFINE e == [kind |-> "message", m |-> sent + 1, re |-> re]
    <3>1. e \in Event /\ NumOf(e) = {sent + 1} /\ sent' = sent + 1
      BY <2>1, EventTypes DEF ServerSends, TypeOK, NumOf, IsMsg
    <3>2. stream' = Append(stream, e) /\ UNCHANGED <<phase, s2c, queue, held, toClient>>
      BY <2>1 DEF ServerSends
    <3> HIDE DEF e
    <3>3. \A a \in Nums(stream) : a < sent + 1
      BY <2>c DEF OrderInv, InFlight, Behind
    <3>4. Nums(stream)' = Nums(stream) \cup {sent + 1} /\ Ordered(stream')
      BY <2>b, <3>1, <3>2, <3>3, NumsAppend DEF OrderInv, InFlight
    <3>5. Behind' = Behind \cup {sent + 1} /\ Nums(queue)' = Nums(queue)
      BY <3>2, <3>4 DEF Behind
    <3>6. InFlight'
      BY <2>c, <3>1, <3>2, <3>4, <3>5 DEF OrderInv, InFlight, Behind
    <3>7. Complete'
      BY <2>c, <3>1, <3>2, <3>5 DEF OrderInv, Complete, InOrder, Waiting, Early
    <3>8. QED
      BY <2>a, <3>6, <3>7 DEF OrderInv
  <2>2. ASSUME NEW kind \in EventKinds, ServerSendsOther(kind)
        PROVE  OrderInv'
    <3> DEFINE e == [kind |-> kind, m |-> 0, re |-> 0]
    <3>1. e \in Event /\ NumOf(e) = {}
      BY <2>2, EventTypes DEF ServerSendsOther, TypeOK, NumOf, IsMsg
    <3>2. stream' = Append(stream, e) /\ UNCHANGED <<phase, s2c, queue, held, sent, toClient>>
      BY <2>2 DEF ServerSendsOther
    <3> HIDE DEF e
    <3>3. Nums(stream)' = Nums(stream) /\ Ordered(stream')
      BY <2>b, <3>1, <3>2, NumsAppend DEF OrderInv, InFlight
    <3>4. InFlight' /\ Behind' = Behind
      BY <3>2, <3>3 DEF OrderInv, InFlight, Behind
    <3>5. Complete'
      BY <3>2, <3>4, OrderRead
    <3>6. QED
      BY <2>a, <3>4, <3>5 DEF OrderInv
  <2>3. CASE ReadMessage
    <3> DEFINE e == Head(stream)
    <3>1. /\ stream # <<>> /\ stream' = Tail(stream) /\ e \in Event
          /\ reader = "stream" /\ held = Sentinel /\ phase # "stopReader" /\ Early
      BY <2>3, <2>b, TailElems DEF ReadMessage, Reading, OrderInv, ReaderAt
    <3>2. UNCHANGED <<phase, s2c, sent, toClient>>
      BY <2>3 DEF ReadMessage
    <3> HIDE DEF e
    <3>3. /\ Nums(stream) = Nums(stream') \cup NumOf(e) /\ Ordered(stream')
          /\ \A a \in NumOf(e), b \in Nums(stream') : a < b
      BY <2>b, <3>1, NumsTail DEF OrderInv, InFlight, e
    <3>4. CASE Full
      <4>1. held' = e /\ queue' = queue
        BY <2>3, <3>4 DEF ReadMessage, e
      <4>2. Behind' = Behind /\ Nums(queue)' = Nums(queue)
        BY <2>b, <3>1, <3>3, <4>1 DEF Behind
      <4>3. InFlight'
        BY <3>2, <3>3, <4>1, <4>2 DEF OrderInv, InFlight
      <4>4. Complete'
        BY <3>2, <4>2, <4>3, OrderRead
      <4>5. QED
        BY <2>a, <4>3, <4>4 DEF OrderInv
    <3>5. CASE ~Full
      <4>1. held' = held /\ queue' = Append(queue, e)
        BY <2>3, <3>5 DEF ReadMessage, e
      <4>2. \A a \in Nums(queue), b \in NumOf(e) : a < b
        BY <3>3 DEF OrderInv, InFlight, Behind
      <4>3. Nums(queue)' = Nums(queue) \cup NumOf(e) /\ Ordered(queue')
        BY <2>b, <3>1, <4>1, <4>2, NumsAppend DEF OrderInv, InFlight
      <4>4. Behind = Nums(stream) /\ Behind' = Nums(stream')
        BY <2>b, <3>1, <4>1 DEF Behind
      <4>5. Nums(queue)' \cup Behind' = Nums(queue) \cup Behind
        BY <3>3, <4>3, <4>4
      <4>6. InFlight'
        BY <2>b, <3>1, <3>2, <3>3, <4>1, <4>3, <4>4, <4>5 DEF OrderInv, InFlight
      <4>7. Complete'
        BY <3>1, <3>2, <4>3, <4>5, <4>6, OrderRead
      <4>8. QED
        BY <2>a, <4>6, <4>7 DEF OrderInv
    <3>6. QED
      BY <3>4, <3>5
  <2>4. CASE PutHeld
    <3>1. /\ queue' = Append(queue, held) /\ held' = Sentinel
          /\ UNCHANGED <<phase, s2c, stream, sent, toClient>>
          /\ reader = "put" /\ phase # "stopReader" /\ Early
      BY <2>4 DEF PutHeld, Reading, OrderInv, ReaderAt
    <3>2. Nums(queue)' = Nums(queue) \cup NumOf(held) /\ Ordered(queue')
      BY <2>b, <3>1, NumsAppend DEF OrderInv, InFlight, Behind
    <3>3. Behind' = Nums(stream) /\ NumOf(held') = {}
      BY <2>b, <3>1 DEF Behind
    <3>4. InFlight' /\ Nums(queue)' \cup Behind' = Nums(queue) \cup Behind
      BY <3>1, <3>2, <3>3 DEF OrderInv, InFlight, Behind
    <3>5. Complete'
      BY <3>1, <3>2, <3>4, OrderRead
    <3>6. QED
      BY <2>a, <3>4, <3>5 DEF OrderInv
  <2>5. CASE ReadOther
    <3>1. /\ stream # <<>> /\ stream' = Tail(stream) /\ NumOf(Head(stream)) = {}
          /\ UNCHANGED <<phase, s2c, held, queue, sent, toClient>>
      BY <2>5 DEF ReadOther, NumOf, IsMsg
    <3>2. /\ Nums(stream) = Nums(Tail(stream)) \cup NumOf(Head(stream))
          /\ Ordered(Tail(stream))
      BY <2>b, <3>1, NumsTail DEF OrderInv, InFlight
    <3>3. InFlight' /\ Behind' = Behind
      BY <3>1, <3>2 DEF OrderInv, InFlight, Behind
    <3>4. Complete'
      BY <3>1, <3>3, OrderRead
    <3>5. QED
      BY <2>a, <3>3, <3>4 DEF OrderInv
  <2>6. CASE ConnectionFails \/ PutSentinel
    <3>1. /\ queue' = queue \/ queue' = Append(queue, Sentinel)
          /\ UNCHANGED <<phase, s2c, held, stream, sent, toClient>>
      BY <2>6 DEF ConnectionFails, PutSentinel
    <3>2. Nums(queue)' = Nums(queue) /\ Ordered(queue')
      BY <2>b, <3>1, NumsAppend DEF OrderInv, InFlight
    <3>3. InFlight' /\ Behind' = Behind
      BY <3>1, <3>2 DEF OrderInv, InFlight, Behind
    <3>4. Complete'
      BY <3>1, <3>2, <3>3, OrderRead
    <3>5. QED
      BY <2>a, <3>3, <3>4 DEF OrderInv
  <2>7. CASE S2CForwards
    <3> DEFINE a == Head(queue).m
    <3>1. /\ queue # <<>> /\ queue' = Tail(queue) /\ IsMsg(Head(queue))
          /\ UNCHANGED <<phase, held, stream, sent>> /\ s2c = "read"
          /\ toClient' = IF clientGone THEN toClient ELSE Append(toClient, a)
          /\ s2c' = IF clientGone \/ phase # "running" THEN "done" ELSE "read"
      BY <2>7 DEF S2CForwards, IsMsg
    <3>2. InFlight' /\ Nums(queue) = Nums(queue)' \cup {a} /\ Behind' = Behind
      BY <3>1, OrderTaken DEF NumOf
    <3>3. \A b \in Nums(queue)' : a < b
      BY <2>b, <3>1, NumsTail DEF NumOf, OrderInv, InFlight
    <3>4. a \in 0..MaxS2C /\ a <= sent
      BY <2>c, <3>2 DEF OrderInv, InFlight
    <3>5. a = Len(toClient) + 1
      <4>1. Len(toClient) < a
        BY <3>1, <3>2 DEF OrderInv, Complete, Waiting
      <4>2. ASSUME Len(toClient) + 1 < a
            PROVE  FALSE
        <5>1. Len(toClient) + 1 \in 1..a /\ a \in Nums(queue)
          BY <2>c, <3>2, <3>4, <4>2
        <5>2. Len(toClient) + 1 <= Len(toClient) \/ Len(toClient) + 1 \in Nums(queue)
          BY <3>1, <5>1 DEF OrderInv, Complete
        <5>3. QED
          BY <2>c, <3>2, <3>3, <3>4, <4>2, <5>2
      <4>3. QED
        BY <2>c, <3>4, <4>1, <4>2
    <3>6. phase # "starting"
      BY <3>1 DEF OrderInv, ReaderAt
    <3> HIDE DEF a
    <3>7. CASE clientGone
      BY <2>a, <3>1, <3>2, <3>6, <3>7 DEF OrderInv, Complete, InOrder, Waiting
    <3>8. CASE ~clientGone
      <4>1. /\ toClient' = Append(toClient, a) /\ Len(toClient') = Len(toClient) + 1
            /\ toClient'[Len(toClient) + 1] = a
            /\ \A i \in 1..Len(toClient) : toClient'[i] = toClient[i]
        BY <3>1, <3>8 DEF TypeOK
      <4>2. InOrder' /\ Len(toClient)' <= sent'
        BY <2>c, <3>1, <3>4, <3>5, <4>1 DEF OrderInv, Complete, InOrder
      <4>3. \A b \in Nums(queue)' \cup Behind' : Len(toClient)' < b
        BY <2>c, <3>2, <3>3, <3>5, <4>1 DEF OrderInv, InFlight
      <4>4. Waiting' => s2c = "read"
        BY <3>1
      <4>5. Waiting' /\ Early' =>
              \A n \in 1..sent' : n <= Len(toClient)' \/ n \in Nums(queue)' \cup Behind'
        BY <2>c, <3>1, <3>2, <3>5, <4>1, <4>4 DEF OrderInv, Complete, Waiting, Early
      <4>6. s2c' = "read" => \A b \in Nums(queue)' : \A n \in 1..b :
              n <= Len(toClient)' \/ n \in Nums(queue)'
        BY <2>c, <3>1, <3>2, <3>5, <4>1 DEF OrderInv, Complete
      <4>7. Complete'
        BY <4>2, <4>3, <4>5, <4>6 DEF Complete
      <4>8. QED
        BY <2>a, <3>2, <4>7 DEF OrderInv
    <3>9. QED
      BY <3>7, <3>8
  <2>8. CASE S2CSentinel
    <3>1. /\ queue # <<>> /\ queue' = Tail(queue) /\ s2c = "read" /\ s2c' = "done"
          /\ UNCHANGED <<phase, held, stream, sent, toClient>>
      BY <2>8 DEF S2CSentinel
    <3>2. phase # "starting" /\ InFlight'
      BY <3>1, OrderTaken DEF OrderInv, ReaderAt
    <3>3. Complete'
      BY <3>1, <3>2 DEF OrderInv, Complete, InOrder, Waiting
    <3>4. QED
      BY <2>a, <3>2, <3>3 DEF OrderInv
  <2>9. CASE StopReader
    <3> DEFINE q == IF Full THEN Tail(queue) ELSE queue
    <3>1. /\ phase = "stopReader" /\ phase' = "closeSession"
          /\ queue' = Append(q, Sentinel) /\ held' = Sentinel
          /\ s2c = "read" => queue = <<>>
          /\ UNCHANGED <<s2c, stream, sent, toClient>>
      BY <2>9 DEF StopReader
    <3>2. Full => queue # <<>>
      BY DEF Full
    <3>3. q \in Seq(Event) /\ Ordered(q) /\ Nums(q) \subseteq Nums(queue)
      BY <2>b, <3>2, NumsTail, TailElems DEF OrderInv, InFlight
    <3>4. queue = <<>> => q = <<>>
      BY <3>2
    <3> HIDE DEF q
    <3>5. Nums(queue)' = Nums(q) /\ Ordered(queue')
      BY <2>b, <3>1, <3>3, NumsAppend
    <3>6. Behind' \subseteq Behind /\ NumOf(held') = {}
      BY <2>b, <3>1 DEF Behind
    <3>7. InFlight'
      BY <3>1, <3>3, <3>5, <3>6 DEF OrderInv, InFlight
    <3>8. s2c = "read" => Nums(queue)' = {} /\ Nums(queue) = {}
      BY <3>1, <3>4, <3>5, NumsTypes
    <3>9. Complete'
      BY <3>1, <3>6, <3>8 DEF OrderInv, Complete, InOrder, Waiting, Early
    <3>10. QED
      BY <2>a, <3>7, <3>9 DEF OrderInv
  <2>10. CASE Start
    <3>1. /\ UNCHANGED <<queue, held, stream, sent, toClient>> /\ Waiting /\ Early
      BY <2>10 DEF Start, Waiting, Early
    <3>2. QED
      BY <2>a, <3>1, OrderKept DEF OrderInv
  <2>11. CASE /\ ~ReadMessage /\ ~PutHeld /\ ~ReadOther /\ ~ConnectionFails
              /\ ~PutSentinel /\ ~S2CForwards /\ ~S2CSentinel /\ ~StopReader /\ ~Start
              /\ ~(\E re \in 0..MaxC2S : ServerSends(re))
              /\ ~(\E kind \in EventKinds : ServerSendsOther(kind))
    <3>1. UNCHANGED <<queue, held, stream, sent, toClient>>
      BY <2>11
         DEF Next, Client, Server, Reader, C2SPump, S2CPump, Main, vars, ClientWrites,
             ClientClosesInput, ClientClosesOutput, StreamEnds, PostArrives, Connected,
             ReadEnd, ReadRaises, C2SReads, C2SEndOfInput, PostAccepted, PostFails, Signal,
             Decide, CloseSession, CancelC2S, CancelS2C
    <3>2. (s2c' = "read" => s2c = "read") /\ (phase' = "starting" => phase = "starting")
          /\ (Early' => Early)
      BY <2>11
         DEF Next, Client, Server, Reader, C2SPump, S2CPump, Main, vars, ClientWrites,
             ClientClosesInput, ClientClosesOutput, StreamEnds, PostArrives, Connected,
             ReadEnd, ReadRaises, C2SReads, C2SEndOfInput, PostAccepted, PostFails, Signal,
             Decide, CloseSession, CancelC2S, CancelS2C, Early
    <3>3. Waiting' => Waiting
      BY <3>2 DEF Waiting
    <3>4. QED
      BY <2>a, <3>1, <3>2, <3>3, OrderKept DEF OrderInv
  <2>12. QED
    BY <2>1, <2>2, <2>3, <2>4, <2>5, <2>6, <2>7, <2>8, <2>9, <2>10, <2>11
<1>3. QED
  BY <1>1, <1>2, TypeInductive, PTL DEF Spec

-----------------------------------------------------------------------------
(* The end of the stream, of a server that sends no JSON null: a null in    *)
(* the queue is then a sentinel, and no message is behind it.               *)

Closing(s) == \A i, j \in 1..Len(s) : i < j /\ ~IsMsg(s[i]) => ~IsMsg(s[j])

SentinelInv ==
  /\ \A e \in Elems(stream) : e.kind # "null"
  /\ Early => Closing(queue)
  /\ Early /\ reader \in {"connect", "end", "done"} => stream = <<>> \/ raised
  /\ raised => reader \in {"end", "done"}
  /\ Early /\ reader \in {"connect", "stream", "put"} =>
       \A e \in Elems(queue) : IsMsg(e)
  /\ reader = "put" => IsMsg(held)

\* A pump that has ended in a running session has passed the whole stream.
EndInv ==
  phase = "running" /\ s2c = "done" /\ ~clientGone =>
    /\ reader \in {"end", "done"}
    /\ \A n \in 1..sent : n <= Len(toClient) \/ n \in Nums(stream)
    /\ ~raised => Len(toClient) = sent

\* The head is taken: if it is no message, no message was behind it.
LEMMA ClosingTail ==
  ASSUME NEW s \in Seq(Event), s # <<>>, Closing(s)
  PROVE  Closing(Tail(s)) /\ (~IsMsg(Head(s)) => Nums(s) = {})
<1>1. /\ Len(s) \in Nat /\ Len(s) >= 1 /\ Len(Tail(s)) = Len(s) - 1 /\ Head(s) = s[1]
      /\ \A i \in 1..(Len(s) - 1) : Tail(s)[i] = s[i + 1]
  OBVIOUS
<1>2. Closing(Tail(s))
  BY <1>1 DEF Closing
<1>3. ASSUME ~IsMsg(Head(s)), NEW i \in 1..Len(s)
      PROVE  ~IsMsg(s[i])
  BY <1>1, <1>3 DEF Closing
<1>4. QED
  BY <1>2, <1>3 DEF Nums, Elems

\* A message is only added behind messages.
LEMMA ClosingAppend ==
  ASSUME NEW s \in Seq(Event), NEW e \in Event, Closing(s),
         IsMsg(e) => \A x \in Elems(s) : IsMsg(x)
  PROVE  Closing(Append(s, e))
<1> DEFINE t == Append(s, e)
<1>1. /\ Len(s) \in Nat /\ Len(t) = Len(s) + 1 /\ t[Len(s) + 1] = e
      /\ \A i \in 1..Len(s) : t[i] = s[i]
  OBVIOUS
<1> HIDE DEF t
<1>2. SUFFICES ASSUME NEW i \in 1..Len(t), NEW j \in 1..Len(t), i < j, ~IsMsg(t[i])
               PROVE  ~IsMsg(t[j])
  BY DEF Closing, t
<1>3. i \in 1..Len(s) /\ t[i] = s[i]
  BY <1>1, <1>2
<1>4. CASE j \in 1..Len(s)
  BY <1>1, <1>2, <1>3, <1>4 DEF Closing
<1>5. CASE j = Len(s) + 1
  BY <1>1, <1>2, <1>3, <1>5 DEF Elems
<1>6. QED
  BY <1>1, <1>4, <1>5

\* Every step keeps the sentinels behind the messages.
LEMMA SentinelStep ==
  ASSUME "null" \notin EventKinds, TypeOK, Fresh, SentinelInv, [Next]_vars
  PROVE  SentinelInv'
<1> USE BoundsAssumption DEF BoundsAssumption
<1> USE DEF mainVars, c2sVars, s2cVars, readerVars, clientVars, streamVars
<1>a. /\ queue \in Seq(Event) /\ stream \in Seq(Event) /\ held \in Event
      /\ Sentinel \in Event /\ ~IsMsg(Sentinel)
  BY EventTypes DEF TypeOK, IsMsg, Sentinel
<1>1. ASSUME NEW re \in 0..MaxC2S, ServerSends(re)
      PROVE  SentinelInv'
  <2> DEFINE e == [kind |-> "message", m |-> sent + 1, re |-> re]
  <2>1. e \in Event /\ e.kind # "null" /\ stream' = Append(stream, e)
    BY <1>1, EventTypes DEF ServerSends, TypeOK
  <2> HIDE DEF e
  <2>2. UNCHANGED <<phase, queue, held, reader, raised>> /\ reader \in {"stream", "put"}
    BY <1>1 DEF ServerSends, StreamOpen
  <2>3. Elems(stream') = Elems(stream) \cup {e}
    BY <1>a, <2>1, AppendElems
  <2>4. QED
    BY <2>1, <2>2, <2>3 DEF SentinelInv, Early
<1>2. ASSUME NEW kind \in EventKinds, ServerSendsOther(kind)
      PROVE  SentinelInv'
  <2> DEFINE e == [kind |-> kind, m |-> 0, re |-> 0]
  <2>1. e \in Event /\ e.kind # "null" /\ stream' = Append(stream, e)
    BY <1>2, EventTypes DEF ServerSendsOther
  <2> HIDE DEF e
  <2>2. UNCHANGED <<phase, queue, held, reader, raised>> /\ reader \in {"stream", "put"}
    BY <1>2 DEF ServerSendsOther, StreamOpen
  <2>3. Elems(stream') = Elems(stream) \cup {e}
    BY <1>a, <2>1, AppendElems
  <2>4. QED
    BY <2>1, <2>2, <2>3 DEF SentinelInv, Early
<1>3. CASE ReadMessage
  <2> DEFINE e == Head(stream)
  <2>1. /\ stream # <<>> /\ stream' = Tail(stream) /\ UNCHANGED <<phase, raised>>
        /\ reader = "stream" /\ e.kind \in {"message", "null"}
    BY <1>3 DEF ReadMessage, Reading
  <2>2. e \in Event /\ e \in Elems(stream) /\ Elems(stream') \subseteq Elems(stream)
    BY <1>a, <2>1, TailElems
  <2>3. IsMsg(e)
    BY <2>1, <2>2 DEF SentinelInv, IsMsg
  <2> HIDE DEF e
  <2>4. CASE Full
    <3>1. held' = e /\ reader' = "put" /\ queue' = queue
      BY <1>3, <2>4 DEF ReadMessage, e
    <3>2. QED
      BY <2>1, <2>2, <2>3, <3>1 DEF SentinelInv, Early
  <2>5. CASE ~Full
    <3>1. reader' = reader /\ queue' = Append(queue, e)
      BY <1>3, <2>5 DEF ReadMessage, e
    <3>2. Elems(queue') = Elems(queue) \cup {e}
      BY <1>a, <2>2, <3>1, AppendElems
    <3>3. Early => Closing(queue')
      BY <1>a, <2>1, <2>2, <3>1, ClosingAppend DEF SentinelInv
    <3>4. QED
      BY <2>1, <2>2, <2>3, <3>1, <3>2, <3>3 DEF SentinelInv, Early
  <2>6. QED
    BY <2>4, <2>5
<1>4. CASE PutHeld
  <2>1. /\ queue' = Append(queue, held) /\ reader = "put" /\ reader' = "stream"
        /\ UNCHANGED <<phase, stream, raised>>
    BY <1>4 DEF PutHeld, Reading
  <2>2. Elems(queue') = Elems(queue) \cup {held} /\ IsMsg(held)
    BY <1>a, <2>1, AppendElems DEF SentinelInv
  <2>3. Early => Closing(queue')
    BY <1>a, <2>1, ClosingAppend DEF SentinelInv
  <2>4. QED
    BY <2>1, <2>2, <2>3 DEF SentinelInv, Early
<1>5. CASE ReadOther
  <2>1. /\ stream # <<>> /\ stream' = Tail(stream)
        /\ UNCHANGED <<phase, queue, held, reader, raised>> /\ reader = "stream"
    BY <1>5 DEF ReadOther, Reading
  <2>2. Elems(stream') \subseteq Elems(stream)
    BY <1>a, <2>1, TailElems
  <2>3. QED
    BY <2>1, <2>2 DEF SentinelInv, Early
<1>6. CASE ConnectionFails \/ PutSentinel
  <2>1. /\ queue' = queue \/ queue' = Append(queue, Sentinel)
        /\ reader' \in {"end", "done"} /\ reader \in {"connect", "end"}
        /\ UNCHANGED <<phase, stream, raised>>
    BY <1>6 DEF ConnectionFails, PutSentinel, Reading
  <2>2. Early => Closing(queue')
    BY <1>a, <2>1, ClosingAppend DEF SentinelInv
  <2>3. QED
    BY <2>1, <2>2 DEF SentinelInv, Early
<1>7. CASE S2CForwards \/ S2CSentinel
  <2>1. /\ queue # <<>> /\ queue' = Tail(queue)
        /\ UNCHANGED <<phase, stream, held, reader, raised>>
    BY <1>7 DEF S2CForwards, S2CSentinel
  <2>2. Elems(queue') \subseteq Elems(queue)
    BY <1>a, <2>1, TailElems
  <2>3. Early => Closing(queue')
    BY <1>a, <2>1, ClosingTail DEF SentinelInv
  <2>4. QED
    BY <2>1, <2>2, <2>3 DEF SentinelInv, Early
<1>8. CASE StopReader
  BY <1>8 DEF StopReader, SentinelInv, Early
<1>9. CASE Connected \/ ReadEnd \/ ReadRaises
  BY <1>9 DEF Connected, ReadEnd, ReadRaises, Reading, SentinelInv, Early
<1>10. CASE UNCHANGED <<queue, held, stream, reader, raised>>
  <2>1. Early' => Early
    BY <1>10 DEF Early, Next, Client, Server, Reader, C2SPump, S2CPump, Main, vars,
         ClientWrites, ClientClosesInput, ClientClosesOutput, StreamEnds, PostArrives,
         ServerSends, ServerSendsOther, Connected, ConnectionFails, ReadMessage,
         PutHeld, ReadOther, ReadEnd, ReadRaises, PutSentinel, S2CForwards, S2CSentinel,
         C2SReads, C2SEndOfInput, PostAccepted, PostFails, Start, Signal, Decide,
         StopReader, CloseSession, CancelC2S, CancelS2C
  <2>2. QED
    BY <1>10, <2>1 DEF SentinelInv
<1>11. QED
  BY <1>1, <1>2, <1>3, <1>4, <1>5, <1>6, <1>7, <1>8, <1>9, <1>10
     DEF Next, Client, Server, Reader, C2SPump, S2CPump, Main, vars, ClientWrites,
         ClientClosesInput, ClientClosesOutput, StreamEnds, PostArrives,
         C2SReads, C2SEndOfInput, PostAccepted, PostFails, Start, Signal, Decide,
         CloseSession, CancelC2S, CancelS2C

\* A pump that meets a sentinel in a running session has passed everything.
LEMMA EndStep ==
  ASSUME TypeOK, OrderInv, SentinelInv, EndInv, [Next]_vars
  PROVE  EndInv'
<1> USE DEF mainVars, c2sVars, s2cVars, readerVars, clientVars, streamVars
<1>1. CASE S2CSentinel /\ phase = "running"
  <2>1. /\ queue # <<>> /\ ~IsMsg(Head(queue)) /\ s2c = "read" /\ Early
        /\ UNCHANGED <<phase, toClient, sent, reader, stream, raised>>
    BY <1>1 DEF S2CSentinel, IsMsg, Early
  <2>2. Head(queue) \in Elems(queue)
    BY <2>1, TailElems DEF TypeOK
  <2>3. reader \in {"end", "done"} /\ (stream = <<>> \/ raised) /\ held = Sentinel
    BY <2>1, <2>2 DEF TypeOK, SentinelInv, OrderInv, ReaderAt
  <2>4. Nums(queue) = {} /\ Behind = Nums(stream)
    BY <2>1, <2>3, ClosingTail, NumsTypes DEF TypeOK, SentinelInv, Behind
  <2>5. \A n \in 1..sent : n <= Len(toClient) \/ n \in Nums(stream)
    BY <2>1, <2>4 DEF OrderInv, Complete, Waiting
  <2>6. ASSUME stream = <<>>
        PROVE  Len(toClient) = sent
    <3>1. \A n \in 1..sent : n <= Len(toClient)
      BY <2>5, <2>6, NumsTypes
    <3>2. QED
      BY <3>1, BoundsAssumption DEF OrderInv, Complete, TypeOK, BoundsAssumption
  <2>7. QED
    BY <2>1, <2>3, <2>5, <2>6 DEF EndInv
<1>2. CASE ~S2CSentinel \/ phase # "running"
  <2>1. phase' = "running" /\ s2c' = "done" /\ ~clientGone' =>
          /\ phase = "running" /\ s2c = "done" /\ ~clientGone
          /\ UNCHANGED toClient
    BY <1>2 DEF Next, Client, Server, Reader, C2SPump, S2CPump, Main, vars,
         ClientWrites, ClientClosesInput, ClientClosesOutput, StreamEnds, PostArrives,
         ServerSends, ServerSendsOther, Connected, ConnectionFails, ReadMessage,
         PutHeld, ReadOther, ReadEnd, ReadRaises, PutSentinel, S2CForwards, S2CSentinel,
         C2SReads, C2SEndOfInput, PostAccepted, PostFails, Start, Signal, Decide,
         StopReader, CloseSession, CancelC2S, CancelS2C
  <2>2. reader \in {"end", "done"} =>
          reader' \in {"end", "done"} /\ UNCHANGED <<sent, stream, raised>>
    BY DEF Next, Client, Server, Reader, C2SPump, S2CPump, Main, vars,
         ClientWrites, ClientClosesInput, ClientClosesOutput, StreamEnds, PostArrives,
         ServerSends, ServerSendsOther, StreamOpen, Reading, Connected,
         ConnectionFails, ReadMessage, PutHeld, ReadOther, ReadEnd, ReadRaises, PutSentinel,
         S2CForwards, S2CSentinel, C2SReads, C2SEndOfInput, PostAccepted, PostFails,
         Start, Signal, Decide, StopReader, CloseSession, CancelC2S, CancelS2C
  <2>3. QED
    BY <2>1, <2>2 DEF EndInv
<1>3. QED
  BY <1>1, <1>2

(* The client gets the server's messages in order, for any interleaving of  *)
(* the reader, the pump and shutdown and any size of the queue.             *)
THEOREM InOrderCorrect == Spec => []InOrder
  BY OrderInductive, PTL DEF OrderInv, Complete

(* And it gets all that was read of the stream before the stream's end ends *)
(* the session; that is all of it, unless an exception ended the reader.    *)
(* But not so if the server sends a JSON null, which the pump takes for the *)
(* end.                                                                     *)
THEOREM DeliveredCorrect ==
  ASSUME "null" \notin EventKinds
  PROVE  Spec => []DeliveredInOrder
<1>1. Init => SentinelInv /\ EndInv
  BY DEF Init, SentinelInv, EndInv, Closing, Elems
<1>2. TypeOK /\ Fresh /\ OrderInv /\ SentinelInv /\ EndInv /\ [Next]_vars
        => (SentinelInv /\ EndInv)'
  BY SentinelStep, EndStep
<1>3. TypeOK /\ OrderInv /\ EndInv => DeliveredInOrder
  <2>1. TypeOK => Unread = Nums(stream)
    BY DEF TypeOK, Unread, Nums, Elems, IsMsg
  <2>2. QED
    BY <2>1 DEF OrderInv, Complete, EndInv, DeliveredInOrder, EndMeansAllDelivered
<1>4. QED
  BY <1>1, <1>2, <1>3, TypeInductive, OrderInductive, PTL DEF Spec
=============================================================================
