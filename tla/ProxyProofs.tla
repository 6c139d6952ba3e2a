----------------------------- MODULE ProxyProofs -----------------------------
(***************************************************************************)
(* Theorems about Proxy, for all bounds, pipe capacities and water marks:   *)
(* its types, the transcript and the shutdown, and from "The two streams"   *)
(* on what reaches the server and the client, what of it is in the          *)
(* transcript, and what a shutdown may leave behind.                        *)
(***************************************************************************)
EXTENDS Proxy, SequenceLemmas

(* What observing a line does to the interceptor's and the recorder's       *)
(* variables keeps their types.                                             *)
LEMMA ObserveType ==
  ASSUME TypeOK, NEW dir \in Direction, NEW line \in Line, Observe(dir, line)
  PROVE  /\ observed' \in Seq(Message)
         /\ tasks' \in Seq(Index) /\ file' \in Seq(Index)
         /\ lost' \subseteq Index
         /\ faults' \in 0..MaxFaults
<1>1. [dir |-> dir, k |-> line.k, kind |-> line.kind] \in Message
  BY DEF Line, Message
<1>2. Len(observed) + 1 \in Index
  BY DEF TypeOK, Index
<1>3. QED
  BY <1>1, <1>2 DEF Observe, TypeOK

(* Every variable keeps its type in every step of the client, the server,   *)
(* the pumps, the recorder and the shutdown sequence.                       *)
THEOREM TypeCorrect == Spec => []TypeOK
<1>1. Init => TypeOK
  <2>1. 0 \in 0..MaxFaults /\ 0 \in 0..MaxC2S /\ 0 \in 0..MaxS2C
    BY BoundsAssumption DEF BoundsAssumption
  <2>2. <<>> \in Seq(Line) /\ <<>> \in Seq(Message) /\ <<>> \in Seq(Index)
    OBVIOUS
  <2>3. QED
    BY <2>1, <2>2 DEF Init, TypeOK
<1>2. TypeOK /\ [Next]_vars => TypeOK'
  <2> SUFFICES ASSUME TypeOK, [Next]_vars
               PROVE  TypeOK'
    OBVIOUS
  <2> USE KindsAssumption, BoundsAssumption
      DEF BoundsAssumption, TypeOK, mainVars, recorderVars, clientVars, inVars,
          outVars
  <2>1. ASSUME NEW kind \in ClientKinds, ClientWrites(kind)
        PROVE  TypeOK'
    BY <2>1 DEF ClientWrites, Line, LineNumber
  <2>2. CASE ClientClosesInput
    BY <2>2 DEF ClientClosesInput
  <2>3. CASE ClientClosesOutput
    BY <2>3 DEF ClientClosesOutput
  <2>4. CASE ServerReads
    BY <2>4 DEF ServerReads
  <2>5. ASSUME NEW kind \in ServerKinds, ServerWrites(kind)
        PROVE  TypeOK'
    BY <2>5 DEF ServerWrites, Line, LineNumber
  <2>6. CASE ServerExits
    BY <2>6 DEF ServerExits
  <2>7. CASE Reap
    BY <2>7 DEF Reap
  <2>8. CASE FlushStdin
    BY <2>8 DEF FlushStdin
  <2>9. CASE LoseStdin
    BY <2>9 DEF LoseStdin
  <2>10. CASE C2SForwards
    <3>1. Head(clientIn) \in Line /\ clientIn' \in Seq(Line)
      BY <2>10 DEF C2SForwards
    <3>2. Observe("c2s", Head(clientIn)) /\ "c2s" \in Direction
      BY <2>10 DEF C2SForwards, Direction
    <3>3. /\ observed' \in Seq(Message)
          /\ tasks' \in Seq(Index) /\ file' \in Seq(Index)
          /\ lost' \subseteq Index
          /\ faults' \in 0..MaxFaults
      BY <3>1, <3>2, ObserveType
    <3>4. pipe' \in Seq(Line) /\ wbuf' \in Seq(Line) /\ stdin' = stdin
          /\ toServer' = toServer
      BY <2>10, <3>1 DEF C2SForwards, WriteToServer
    <3>5. c2s' \in {"read", "drain", "done"}
      BY <2>10 DEF C2SForwards
    <3>6. QED
      BY <2>10, <3>1, <3>3, <3>4, <3>5 DEF C2SForwards
  <2>11. CASE C2SPoisoned
    BY <2>11 DEF C2SPoisoned
  <2>12. CASE C2SEndOfInput
    BY <2>12 DEF C2SEndOfInput
  <2>13. CASE C2SDrained
    BY <2>13 DEF C2SDrained
  <2>14. CASE S2CForwards
    <3>1. Head(srvOut) \in Line /\ srvOut' \in Seq(Line)
      BY <2>14 DEF S2CForwards
    <3>2. Observe("s2c", Head(srvOut)) /\ "s2c" \in Direction
      BY <2>14 DEF S2CForwards, Direction
    <3>3. /\ observed' \in Seq(Message)
          /\ tasks' \in Seq(Index) /\ file' \in Seq(Index)
          /\ lost' \subseteq Index
          /\ faults' \in 0..MaxFaults
      BY <3>1, <3>2, ObserveType
    <3>4. toClient' \in Seq(Line)
      BY <2>14, <3>1 DEF S2CForwards
    <3>5. QED
      BY <2>14, <3>1, <3>3, <3>4 DEF S2CForwards
  <2>15. CASE S2CPoisoned
    BY <2>15 DEF S2CPoisoned
  <2>16. CASE S2CEndOfOutput
    BY <2>16 DEF S2CEndOfOutput
  <2>17. CASE RecorderWrite
    BY <2>17 DEF RecorderWrite
  <2>18. CASE RecorderWriteFails
    BY <2>18 DEF RecorderWriteFails
  <2>19. CASE Signal
    BY <2>19 DEF Signal
  <2>20. CASE Start
    BY <2>20 DEF Start
  <2>21. CASE StartFails
    BY <2>21 DEF StartFails
  <2>22. CASE Decide
    BY <2>22 DEF Decide
  <2>23. CASE CloseStdin
    BY <2>23 DEF CloseStdin
  <2>24. CASE StdinClosed
    BY <2>24 DEF StdinClosed
  <2>25. CASE ForwardSignal
    BY <2>25 DEF ForwardSignal
  <2>26. CASE TimeoutKills
    BY <2>26 DEF TimeoutKills
  <2>27. CASE ShutdownReturns
    BY <2>27 DEF ShutdownReturns
  <2>28. CASE CancelC2S
    BY <2>28 DEF CancelC2S
  <2>29. CASE CancelS2C
    BY <2>29 DEF CancelS2C
  <2>30. CASE FlushAndClose
    BY <2>30 DEF FlushAndClose
  <2>31. CASE UNCHANGED vars
    BY <2>31 DEF vars
  <2>32. QED
    BY <2>1, <2>2, <2>3, <2>4, <2>5, <2>6, <2>7, <2>8, <2>9, <2>10, <2>11,
       <2>12, <2>13, <2>14, <2>15, <2>16, <2>17, <2>18, <2>19, <2>20, <2>21,
       <2>22, <2>23, <2>24, <2>25, <2>26, <2>27, <2>28, <2>29, <2>30, <2>31
       DEF Next, Client, Server, C2SPump, S2CPump, Recorder, Main
<1>3. QED
  BY <1>1, <1>2, PTL DEF Spec

-----------------------------------------------------------------------------
(* Sequences of indices: what Append and Tail do to the set of elements and *)
(* to the order.                                                            *)

\* The records of a sequence with one more.
LEMMA AppendRecords ==
  ASSUME NEW s \in Seq(Index), NEW e \in Index
  PROVE  Records(Append(s, e)) = Records(s) \cup {e}
  BY DEF Records

\* The records of a sequence are its head and those of its tail.
LEMMA TailRecords ==
  ASSUME NEW s \in Seq(Index), s # <<>>
  PROVE  Records(s) = {Head(s)} \cup Records(Tail(s))
<1>1. /\ Len(s) \in Nat /\ Len(s) >= 1 /\ Len(Tail(s)) = Len(s) - 1
      /\ Head(s) = s[1]
      /\ \A i \in 1..Len(Tail(s)) : Tail(s)[i] = s[i + 1]
  OBVIOUS
<1>2. ASSUME NEW i \in 1..Len(s)
      PROVE  s[i] = Head(s) \/ \E j \in 1..Len(Tail(s)) : Tail(s)[j] = s[i]
  <2>1. CASE i = 1
    BY <1>1, <2>1
  <2>2. CASE i # 1
    <3>1. i - 1 \in 1..Len(Tail(s)) /\ Tail(s)[i - 1] = s[i]
      BY <1>1, <2>2
    <3>2. QED
      BY <3>1
  <2>3. QED
    BY <2>1, <2>2
<1>3. ASSUME NEW j \in 1..Len(Tail(s))
      PROVE  j + 1 \in 1..Len(s) /\ s[j + 1] = Tail(s)[j]
  BY <1>1
<1>4. Records(s) \subseteq {Head(s)} \cup Records(Tail(s))
  BY <1>2 DEF Records
<1>5. {Head(s)} \cup Records(Tail(s)) \subseteq Records(s)
  BY <1>1, <1>3 DEF Records
<1>6. QED
  BY <1>4, <1>5

\* A record after all the others keeps the order.
LEMMA AppendIncreasing ==
  ASSUME NEW s \in Seq(Index), NEW e \in Index, Increasing(s),
         \A a \in Records(s) : a < e
  PROVE  Increasing(Append(s, e))
  BY DEF Increasing, Records, Index

\* The tail of an increasing sequence is increasing, and behind its head.
LEMMA TailIncreasing ==
  ASSUME NEW s \in Seq(Index), s # <<>>, Increasing(s)
  PROVE  Increasing(Tail(s)) /\ \A a \in Records(Tail(s)) : Head(s) < a
  BY DEF Increasing, Records, Index

-----------------------------------------------------------------------------
(* The recorder's bookkeeping, one step at a time.                          *)

(* Observing a line numbers it after every earlier one, and makes it        *)
(* pending or lost.                                                         *)
LEMMA ObserveOrdered ==
  ASSUME TypeOK, OrderedRecords,
         NEW dir \in Direction, NEW line \in Line, Observe(dir, line)
  PROVE  OrderedRecords'
<1> DEFINE n == Len(observed) + 1
<1>1. /\ tasks \in Seq(Index) /\ n \in Index /\ n - 1 = Len(observed)
      /\ observed \in Seq(Message)
  BY DEF TypeOK, Index
<1>2. [dir |-> dir, k |-> line.k, kind |-> line.kind] \in Message
  BY DEF Line, Message
<1>3. 1..n = 1..Len(observed) \cup {n} /\ \A a \in 1..Len(observed) : a < n
  BY <1>1
<1>4. file' = file
  BY DEF Observe
<1>5. CASE line.kind = "rpc"
  <2>1. tasks' = Append(tasks, n) /\ lost' = lost /\ Len(observed') = n
    BY <1>1, <1>2, <1>5 DEF Observe
  <2>2. Records(tasks)' = Records(tasks) \cup {n}
    BY <1>1, <2>1, AppendRecords
  <2>3. Increasing(tasks)'
    BY <1>1, <1>3, <2>1, AppendIncreasing DEF OrderedRecords
  <2>4. QED
    BY <1>3, <1>4, <2>1, <2>2, <2>3 DEF OrderedRecords
<1>6. CASE line.kind = "unredactable"
  <2>1. tasks' = tasks /\ lost' = lost \cup {n} /\ Len(observed') = n
    BY <1>1, <1>2, <1>6 DEF Observe
  <2>2. QED
    BY <1>3, <1>4, <2>1 DEF OrderedRecords
<1>7. CASE line.kind \notin {"rpc", "unredactable"}
  BY <1>4, <1>7 DEF Observe, OrderedRecords
<1>8. QED
  BY <1>5, <1>6, <1>7

(* The oldest pending task comes after every record and before every other  *)
(* task, so it can be stored or lost.                                       *)
LEMMA HeadOrdered ==
  ASSUME TypeOK, OrderedRecords, tasks # <<>>
  PROVE  /\ Head(tasks) \in 1..Len(observed) /\ Head(tasks) \in Index
         /\ Head(tasks) \notin lost \cup Records(file)
         /\ \A a \in Records(file) : a < Head(tasks)
         /\ \A b \in Records(Tail(tasks)) : Head(tasks) < b
         /\ Increasing(Tail(tasks))
         /\ Records(tasks) = {Head(tasks)} \cup Records(Tail(tasks))
<1>1. tasks \in Seq(Index) /\ Head(tasks) \in Index
  BY DEF TypeOK
<1>2. Records(tasks) = {Head(tasks)} \cup Records(Tail(tasks))
  BY <1>1, TailRecords
<1>3. Increasing(Tail(tasks)) /\ \A b \in Records(Tail(tasks)) : Head(tasks) < b
  BY <1>1, TailIncreasing DEF OrderedRecords
<1>4. Head(tasks) \in 1..Len(observed) /\ Head(tasks) \notin lost
  BY <1>2 DEF OrderedRecords
<1>5. \A a \in Records(file) : a < Head(tasks)
  BY <1>2 DEF OrderedRecords
<1>6. Head(tasks) \notin Records(file)
  BY <1>1, <1>5 DEF Index
<1>7. QED
  BY <1>1, <1>2, <1>3, <1>4, <1>5, <1>6

\* The first pending write moves to the end of the file.
LEMMA WriteOrdered ==
  ASSUME TypeOK, OrderedRecords, RecorderWrite
  PROVE  OrderedRecords'
<1>1. /\ tasks # <<>> /\ tasks' = Tail(tasks)
      /\ file' = Append(file, Head(tasks))
      /\ lost' = lost /\ observed' = observed
  BY DEF RecorderWrite
<1>2. file \in Seq(Index) /\ Head(tasks) \in Index
  BY <1>1, HeadOrdered DEF TypeOK
<1>3. Records(file)' = Records(file) \cup {Head(tasks)}
  BY <1>1, <1>2, AppendRecords
<1>4. Increasing(file)'
  BY <1>1, <1>2, HeadOrdered, AppendIncreasing DEF OrderedRecords
<1>5. Increasing(tasks)'
  BY <1>1, HeadOrdered
<1>6. \A a \in Records(file)', b \in Records(tasks)' : a < b
  BY <1>1, <1>3, HeadOrdered DEF OrderedRecords
<1>7. QED
  BY <1>1, <1>3, <1>4, <1>5, <1>6, HeadOrdered DEF OrderedRecords

\* A write that fails moves its record from the tasks to the lost ones.
LEMMA WriteFailsOrdered ==
  ASSUME TypeOK, OrderedRecords, RecorderWriteFails
  PROVE  OrderedRecords'
<1>1. /\ tasks # <<>> /\ tasks' = Tail(tasks) /\ file' = file
      /\ lost' = lost \cup {Head(tasks)} /\ observed' = observed
  BY DEF RecorderWriteFails
<1>2. Head(tasks) \notin Records(Tail(tasks))
  BY <1>1, HeadOrdered DEF Index
<1>3. Increasing(tasks)' /\ Increasing(file)'
  BY <1>1, HeadOrdered DEF OrderedRecords
<1>4. QED
  BY <1>1, <1>2, <1>3, HeadOrdered DEF OrderedRecords

\* A step that leaves the recorder's bookkeeping alone keeps its order.
LEMMA OtherOrdered ==
  ASSUME OrderedRecords, UNCHANGED recorderVars
  PROVE  OrderedRecords'
  BY DEF OrderedRecords, recorderVars, Records, Increasing

(* The recorder's invariant holds in every state: what the transcript has   *)
(* and what is still on its way to it are in the order of observation, and  *)
(* when the recorder closes nothing is on its way and nobody can add to it. *)
THEOREM RecordingCorrect == Spec => []RecordingInv
<1>1. Init => RecordingInv
  BY DEF Init, RecordingInv, OrderedRecords, PumpsOver, Records, Increasing
<1>2. TypeOK /\ RecordingInv /\ [Next]_vars => RecordingInv'
  <2> SUFFICES ASSUME TypeOK, OrderedRecords, PumpsOver, [Next]_vars
               PROVE  OrderedRecords' /\ PumpsOver'
    BY DEF RecordingInv
  <2> USE DEF PumpsOver, mainVars, recorderVars, clientVars, inVars, outVars
  <2>1. ASSUME NEW kind \in ClientKinds, ClientWrites(kind)
        PROVE  OrderedRecords' /\ PumpsOver'
    BY <2>1, OtherOrdered DEF ClientWrites
  <2>2. CASE ClientClosesInput
    BY <2>2, OtherOrdered DEF ClientClosesInput
  <2>3. CASE ClientClosesOutput
    BY <2>3, OtherOrdered DEF ClientClosesOutput
  <2>4. CASE ServerReads
    BY <2>4, OtherOrdered DEF ServerReads
  <2>5. ASSUME NEW kind \in ServerKinds, ServerWrites(kind)
        PROVE  OrderedRecords' /\ PumpsOver'
    BY <2>5, OtherOrdered DEF ServerWrites
  <2>6. CASE ServerExits
    BY <2>6, OtherOrdered DEF ServerExits
  <2>7. CASE Reap
    BY <2>7, OtherOrdered DEF Reap
  <2>8. CASE FlushStdin
    BY <2>8, OtherOrdered DEF FlushStdin
  <2>9. CASE LoseStdin
    BY <2>9, OtherOrdered DEF LoseStdin
  <2>10. CASE C2SForwards
    <3>1. Head(clientIn) \in Line /\ "c2s" \in Direction
      BY <2>10 DEF C2SForwards, TypeOK, Direction
    <3>2. Observe("c2s", Head(clientIn))
      BY <2>10 DEF C2SForwards
    <3>3. OrderedRecords'
      BY <3>1, <3>2, ObserveOrdered
    <3>4. PumpsOver'
      BY <2>10 DEF C2SForwards, C2SRunning, TypeOK
    <3>5. QED
      BY <3>3, <3>4
  <2>11. CASE C2SPoisoned
    BY <2>11, OtherOrdered DEF C2SPoisoned
  <2>12. CASE C2SEndOfInput
    BY <2>12, OtherOrdered DEF C2SEndOfInput
  <2>13. CASE C2SDrained
    BY <2>13, OtherOrdered DEF C2SDrained
  <2>14. CASE S2CForwards
    <3>1. Head(srvOut) \in Line /\ "s2c" \in Direction
      BY <2>14 DEF S2CForwards, TypeOK, Direction
    <3>2. Observe("s2c", Head(srvOut))
      BY <2>14 DEF S2CForwards
    <3>3. OrderedRecords'
      BY <3>1, <3>2, ObserveOrdered
    <3>4. PumpsOver'
      BY <2>14 DEF S2CForwards, S2CRunning, TypeOK
    <3>5. QED
      BY <3>3, <3>4
  <2>15. CASE S2CPoisoned
    BY <2>15, OtherOrdered DEF S2CPoisoned
  <2>16. CASE S2CEndOfOutput
    BY <2>16, OtherOrdered DEF S2CEndOfOutput
  <2>17. CASE RecorderWrite
    BY <2>17, WriteOrdered DEF RecorderWrite
  <2>18. CASE RecorderWriteFails
    BY <2>18, WriteFailsOrdered DEF RecorderWriteFails
  <2>19. CASE Signal
    BY <2>19, OtherOrdered DEF Signal
  <2>20. CASE Start
    BY <2>20, OtherOrdered DEF Start
  <2>21. CASE StartFails
    BY <2>21, OtherOrdered DEF StartFails
  <2>22. CASE Decide
    BY <2>22, OtherOrdered DEF Decide
  <2>23. CASE CloseStdin
    BY <2>23, OtherOrdered DEF CloseStdin
  <2>24. CASE StdinClosed
    BY <2>24, OtherOrdered DEF StdinClosed
  <2>25. CASE ForwardSignal
    BY <2>25, OtherOrdered DEF ForwardSignal
  <2>26. CASE TimeoutKills
    BY <2>26, OtherOrdered DEF TimeoutKills
  <2>27. CASE ShutdownReturns
    BY <2>27, OtherOrdered DEF ShutdownReturns
  <2>28. CASE CancelC2S
    BY <2>28, OtherOrdered DEF CancelC2S
  <2>29. CASE CancelS2C
    BY <2>29, OtherOrdered DEF CancelS2C
  <2>30. CASE FlushAndClose
    BY <2>30, OtherOrdered DEF FlushAndClose
  <2>31. CASE UNCHANGED vars
    BY <2>31, OtherOrdered DEF vars
  <2>32. QED
    BY <2>1, <2>2, <2>3, <2>4, <2>5, <2>6, <2>7, <2>8, <2>9, <2>10, <2>11,
       <2>12, <2>13, <2>14, <2>15, <2>16, <2>17, <2>18, <2>19, <2>20, <2>21,
       <2>22, <2>23, <2>24, <2>25, <2>26, <2>27, <2>28, <2>29, <2>30, <2>31
       DEF Next, Client, Server, C2SPump, S2CPump, Recorder, Main
<1>3. QED
  BY <1>1, <1>2, TypeCorrect, PTL DEF Spec

-----------------------------------------------------------------------------
(* The refinement: which step of the journal each step of the proxy is.     *)

\* An observed line is a step Observe of Journal, or none if it is opaque.
LEMMA ObserveSimulated ==
  ASSUME TypeOK, OrderedRecords, phase # "closed", phase' = phase,
         NEW dir \in Direction, NEW line \in Line, Observe(dir, line)
  PROVE  J!Next \/ UNCHANGED J!journalVars
<1> DEFINE m == [dir |-> dir, k |-> line.k, kind |-> line.kind]
<1>1. m \in Message /\ file' = file
  BY DEF Line, Message, Observe
<1>2. CASE line.kind \in {"rpc", "unredactable"}
  <2>1. J!Observe(m, line.kind = "unredactable")
    BY <1>1, <1>2 DEF Observe, J!Observe
  <2>2. QED
    BY <1>1, <2>1 DEF J!Next
<1>3. CASE line.kind \notin {"rpc", "unredactable"}
  BY <1>1, <1>3 DEF Observe, J!journalVars
<1>4. QED
  BY <1>2, <1>3

\* The first pending write is the next record of Journal.
LEMMA HeadFits ==
  ASSUME TypeOK, OrderedRecords, tasks # <<>>
  PROVE  J!Fits(Head(tasks)) /\ Head(tasks) \in 1..Len(observed)
  BY HeadOrdered DEF J!Fits, Records

\* A write is a step Store of Journal.
LEMMA WriteSimulated ==
  ASSUME TypeOK, OrderedRecords, PumpsOver, RecorderWrite
  PROVE  J!Next \/ UNCHANGED J!journalVars
<1>1. tasks # <<>> /\ phase # "closed" /\ phase' = phase
  BY DEF RecorderWrite, PumpsOver, mainVars
<1>2. J!Store(Head(tasks))
  BY <1>1, HeadFits DEF RecorderWrite, J!Store
<1>3. QED
  BY <1>1, <1>2, HeadFits DEF J!Next

\* A write that fails is a step Lose of Journal.
LEMMA WriteFailsSimulated ==
  ASSUME TypeOK, OrderedRecords, PumpsOver, RecorderWriteFails
  PROVE  J!Next \/ UNCHANGED J!journalVars
<1>1. tasks # <<>> /\ phase # "closed" /\ phase' = phase
  BY DEF RecorderWriteFails, PumpsOver, mainVars
<1>2. J!Lose(Head(tasks))
  BY <1>1, HeadFits DEF RecorderWriteFails, J!Lose
<1>3. QED
  BY <1>1, <1>2, HeadFits DEF J!Next

\* Closing the recorder is the step Seal: by then nothing is unaccounted for.
LEMMA SealSimulated ==
  ASSUME OrderedRecords, PumpsOver, StartFails \/ FlushAndClose
  PROVE  J!Next \/ UNCHANGED J!journalVars
<1>1. /\ tasks = <<>> /\ phase # "closed" /\ phase' = "closed"
      /\ UNCHANGED <<observed, file, lost>>
  BY DEF StartFails, FlushAndClose, PumpsOver, recorderVars
<1>2. \A n \in 1..Len(observed) : n \in lost \/ n \in Records(file)
  BY <1>1 DEF OrderedRecords, Records
<1>3. J!Seal
  BY <1>1, <1>2 DEF J!Seal, Records
<1>4. QED
  BY <1>3 DEF J!Next

(* The transcript implements the journal: each step of the proxy observes,  *)
(* stores, loses, seals, or changes nothing the journal can see.            *)
THEOREM JournalImplemented == Spec => ImplementsJournal
<1>1. Init => J!Init
  BY DEF Init, J!Init
<1>2. TypeOK /\ RecordingInv /\ [Next]_vars => [J!Next]_(J!journalVars)
  <2> SUFFICES ASSUME TypeOK, OrderedRecords, PumpsOver, [Next]_vars
               PROVE  J!Next \/ UNCHANGED J!journalVars
    BY DEF RecordingInv
  <2> USE DEF mainVars, recorderVars, clientVars, inVars, outVars
  <2>1. ASSUME NEW kind \in ClientKinds, ClientWrites(kind)
        PROVE  J!Next \/ UNCHANGED J!journalVars
    BY <2>1 DEF ClientWrites, J!journalVars
  <2>2. CASE ClientClosesInput
    BY <2>2 DEF ClientClosesInput, J!journalVars
  <2>3. CASE ClientClosesOutput
    BY <2>3 DEF ClientClosesOutput, J!journalVars
  <2>4. CASE ServerReads
    BY <2>4 DEF ServerReads, J!journalVars
  <2>5. ASSUME NEW kind \in ServerKinds, ServerWrites(kind)
        PROVE  J!Next \/ UNCHANGED J!journalVars
    BY <2>5 DEF ServerWrites, J!journalVars
  <2>6. CASE ServerExits
    BY <2>6 DEF ServerExits, J!journalVars
  <2>7. CASE Reap
    BY <2>7 DEF Reap, J!journalVars
  <2>8. CASE FlushStdin
    BY <2>8 DEF FlushStdin, J!journalVars
  <2>9. CASE LoseStdin
    BY <2>9 DEF LoseStdin, J!journalVars
  <2>10. CASE C2SForwards
    <3>1. Head(clientIn) \in Line /\ "c2s" \in Direction
      BY <2>10 DEF C2SForwards, TypeOK, Direction
    <3>2. Observe("c2s", Head(clientIn))
      BY <2>10 DEF C2SForwards
    <3>3. phase # "closed" /\ phase' = phase
      BY <2>10 DEF C2SForwards, C2SRunning, PumpsOver
    <3>4. QED
      BY <3>1, <3>2, <3>3, ObserveSimulated
  <2>11. CASE C2SPoisoned
    BY <2>11 DEF C2SPoisoned, J!journalVars
  <2>12. CASE C2SEndOfInput
    BY <2>12 DEF C2SEndOfInput, J!journalVars
  <2>13. CASE C2SDrained
    BY <2>13 DEF C2SDrained, J!journalVars
  <2>14. CASE S2CForwards
    <3>1. Head(srvOut) \in Line /\ "s2c" \in Direction
      BY <2>14 DEF S2CForwards, TypeOK, Direction
    <3>2. Observe("s2c", Head(srvOut))
      BY <2>14 DEF S2CForwards
    <3>3. phase # "closed" /\ phase' = phase
      BY <2>14 DEF S2CForwards, S2CRunning, PumpsOver
    <3>4. QED
      BY <3>1, <3>2, <3>3, ObserveSimulated
  <2>15. CASE S2CPoisoned
    BY <2>15 DEF S2CPoisoned, J!journalVars
  <2>16. CASE S2CEndOfOutput
    BY <2>16 DEF S2CEndOfOutput, J!journalVars
  <2>17. CASE RecorderWrite
    BY <2>17, WriteSimulated
  <2>18. CASE RecorderWriteFails
    BY <2>18, WriteFailsSimulated
  <2>19. CASE Signal
    BY <2>19 DEF Signal, J!journalVars
  <2>20. CASE Start
    BY <2>20 DEF Start, J!journalVars
  <2>21. CASE StartFails
    BY <2>21, SealSimulated
  <2>22. CASE Decide
    BY <2>22 DEF Decide, J!journalVars
  <2>23. CASE CloseStdin
    BY <2>23 DEF CloseStdin, J!journalVars
  <2>24. CASE StdinClosed
    BY <2>24 DEF StdinClosed, J!journalVars
  <2>25. CASE ForwardSignal
    BY <2>25 DEF ForwardSignal, J!journalVars
  <2>26. CASE TimeoutKills
    BY <2>26 DEF TimeoutKills, J!journalVars
  <2>27. CASE ShutdownReturns
    BY <2>27 DEF ShutdownReturns, J!journalVars
  <2>28. CASE CancelC2S
    BY <2>28 DEF CancelC2S, J!journalVars
  <2>29. CASE CancelS2C
    BY <2>29 DEF CancelS2C, J!journalVars
  <2>30. CASE FlushAndClose
    BY <2>30, SealSimulated
  <2>31. CASE UNCHANGED vars
    BY <2>31 DEF vars, J!journalVars
  <2>32. QED
    BY <2>1, <2>2, <2>3, <2>4, <2>5, <2>6, <2>7, <2>8, <2>9, <2>10, <2>11,
       <2>12, <2>13, <2>14, <2>15, <2>16, <2>17, <2>18, <2>19, <2>20, <2>21,
       <2>22, <2>23, <2>24, <2>25, <2>26, <2>27, <2>28, <2>29, <2>30, <2>31
       DEF Next, Client, Server, C2SPump, S2CPump, Recorder, Main
<1>3. QED
  BY <1>1, <1>2, TypeCorrect, RecordingCorrect, PTL
  DEF Spec, ImplementsJournal, J!Spec

-----------------------------------------------------------------------------
(* No orphan.  shutdown() returns when process.wait() does, and that knows  *)
(* the exit status; why a wait that returned at once is right is the second *)
(* conjunct, which NoOrphanServer alone does not give.                      *)
WaitInv ==
  /\ phase = "starting" => how = "none" /\ ~quick
  /\ quick => srv = "reaped"
  /\ NoOrphanServer

(* Once shutdown() has returned the server is dead and collected, for every *)
(* order of end of input, signal, timeouts, exit and its collection.        *)
THEOREM NoOrphan == Spec => []NoOrphanServer
<1>1. Init => WaitInv
  BY DEF Init, WaitInv, NoOrphanServer
<1>2. TypeOK /\ WaitInv /\ [Next]_vars => WaitInv'
  <2> SUFFICES ASSUME TypeOK, WaitInv, [Next]_vars
               PROVE  WaitInv'
    OBVIOUS
  <2> USE DEF WaitInv, NoOrphanServer, mainVars, recorderVars, clientVars,
              inVars, outVars
  <2>1. ASSUME NEW kind \in ClientKinds, ClientWrites(kind)
        PROVE  WaitInv'
    BY <2>1 DEF ClientWrites
  <2>2. CASE ClientClosesInput
    BY <2>2 DEF ClientClosesInput
  <2>3. CASE ClientClosesOutput
    BY <2>3 DEF ClientClosesOutput
  <2>4. CASE ServerReads
    BY <2>4 DEF ServerReads
  <2>5. ASSUME NEW kind \in ServerKinds, ServerWrites(kind)
        PROVE  WaitInv'
    BY <2>5 DEF ServerWrites
  <2>6. CASE ServerExits
    BY <2>6 DEF ServerExits
  <2>7. CASE Reap
    BY <2>7 DEF Reap
  <2>8. CASE FlushStdin
    BY <2>8 DEF FlushStdin
  <2>9. CASE LoseStdin
    BY <2>9 DEF LoseStdin
  <2>10. CASE C2SForwards
    BY <2>10 DEF C2SForwards
  <2>11. CASE C2SPoisoned
    BY <2>11 DEF C2SPoisoned
  <2>12. CASE C2SEndOfInput
    BY <2>12 DEF C2SEndOfInput
  <2>13. CASE C2SDrained
    BY <2>13 DEF C2SDrained
  <2>14. CASE S2CForwards
    BY <2>14 DEF S2CForwards
  <2>15. CASE S2CPoisoned
    BY <2>15 DEF S2CPoisoned
  <2>16. CASE S2CEndOfOutput
    BY <2>16 DEF S2CEndOfOutput
  <2>17. CASE RecorderWrite
    BY <2>17 DEF RecorderWrite
  <2>18. CASE RecorderWriteFails
    BY <2>18 DEF RecorderWriteFails
  <2>19. CASE Signal
    BY <2>19 DEF Signal
  <2>20. CASE Start
    BY <2>20 DEF Start
  <2>21. CASE StartFails
    BY <2>21 DEF StartFails
  <2>22. CASE Decide
    BY <2>22 DEF Decide
  <2>23. CASE CloseStdin
    BY <2>23 DEF CloseStdin
  <2>24. CASE StdinClosed
    BY <2>24 DEF StdinClosed
  <2>25. CASE ForwardSignal
    BY <2>25 DEF ForwardSignal
  <2>26. CASE TimeoutKills
    BY <2>26 DEF TimeoutKills, ProcessEnded
  <2>27. CASE ShutdownReturns
    BY <2>27 DEF ShutdownReturns, ProcessEnded
  <2>28. CASE CancelC2S
    BY <2>28 DEF CancelC2S
  <2>29. CASE CancelS2C
    BY <2>29 DEF CancelS2C
  <2>30. CASE FlushAndClose
    BY <2>30 DEF FlushAndClose
  <2>31. CASE UNCHANGED vars
    BY <2>31 DEF vars
  <2>32. QED
    BY <2>1, <2>2, <2>3, <2>4, <2>5, <2>6, <2>7, <2>8, <2>9, <2>10, <2>11,
       <2>12, <2>13, <2>14, <2>15, <2>16, <2>17, <2>18, <2>19, <2>20, <2>21,
       <2>22, <2>23, <2>24, <2>25, <2>26, <2>27, <2>28, <2>29, <2>30, <2>31
       DEF Next, Client, Server, C2SPump, S2CPump, Recorder, Main
<1>3. WaitInv => NoOrphanServer
  BY DEF WaitInv
<1>4. QED
  BY <1>1, <1>2, <1>3, TypeCorrect, PTL DEF Spec

-----------------------------------------------------------------------------
(* The two streams.                                                         *)


\* Lines behind the first n, in order.
Behind(n, s) == \A i \in 1..Len(s) : s[i].k = n + i

\* Before the start nothing has been read or observed.
Fresh ==
  phase = "starting" =>
    /\ observed = <<>> /\ toServer = <<>> /\ pipe = <<>> /\ wbuf = <<>>
    /\ Len(clientIn) = clientSent
    /\ toClient = <<>> /\ srvOut = <<>> /\ srvSent = 0
    /\ srv = "none" /\ c2s = "done" /\ s2c = "done"

\* The lines nobody has read are the last ones written.
Unread ==
  /\ Len(clientIn) <= clientSent /\ Behind(clientSent - Len(clientIn), clientIn)
  /\ Len(srvOut) <= srvSent /\ Behind(srvSent - Len(srvOut), srvOut)

\* The stream to the server: what it has read, the pipe and the buffer are the
\* first lines. While the pump goes on and the stdin is open none is missing
\* between them and the unread ones, so that the next one follows.
ToServerInv ==
  /\ Behind(0, toServer) /\ Behind(Len(toServer), pipe)
  /\ Behind(Len(toServer) + Len(pipe), wbuf)
  /\ (c2s # "done" /\ stdin = "open") =>
       Len(toServer) + Len(pipe) + Len(wbuf) + Len(clientIn) = clientSent

\* The same for the stream to the client.
ToClientInv ==
  /\ Behind(0, toClient)
  /\ s2c = "read" => Len(toClient) + Len(srvOut) = srvSent

StreamInv == Fresh /\ Unread /\ ToServerInv /\ ToClientInv

\* Why the pump to the client may be over: the client has gone, the output was
\* read to its end, or one line was poison; and why shutdown() may return before
\* it is: the output was read to its end, or the exit status had been collected.
OutputRead == srvOut = <<>> /\ srv # "up"
OnePoisoned == Len(toClient) + 1 + Len(srvOut) = srvSent

DeliveryInv ==
  /\ phase \in {"starting", "running", "stopping", "closing"} => ~quick
  /\ s2c = "done" => clientGone \/ quick \/ OutputRead \/ OnePoisoned
  /\ phase \in {"cancelC2S", "cancelS2C", "flushing", "closed"} =>
       s2c = "done" \/ quick \/ OutputRead

\* The streams and the interceptor's messages agree.
ToServer == Elems(toServer) \cup Elems(pipe) \cup Elems(wbuf)

Entry(dir, line) == [dir |-> dir, k |-> line.k, kind |-> line.kind]

SentIsObserved ==
  /\ \A line \in ToServer : line.kind = "rpc" => Entry("c2s", line) \in Elems(observed)
  /\ \A line \in Elems(toClient) : line.kind = "rpc" => Entry("s2c", line) \in Elems(observed)

ObservedIsSent ==
  \A m \in Elems(observed) :
    \/ m.dir = "c2s" /\ (stdin # "open" \/ \E line \in ToServer : m = Entry("c2s", line))
    \/ m.dir = "s2c" /\ (clientGone \/ \E line \in Elems(toClient) : m = Entry("s2c", line))

AgreementInv == SentIsObserved /\ ObservedIsSent

-----------------------------------------------------------------------------
(* Numbered lines through a pipe.                                           *)

\* The next line at the end.
LEMMA AppendBehind ==
  ASSUME NEW s \in Seq(Line), NEW n \in Nat, Behind(n, s), NEW line \in Line,
         line.k = n + Len(s) + 1
  PROVE  /\ Append(s, line) \in Seq(Line) /\ Len(Append(s, line)) = Len(s) + 1
         /\ Behind(n, Append(s, line))
<1>1. /\ Len(s) \in Nat /\ Append(s, line) \in Seq(Line)
      /\ Len(Append(s, line)) = Len(s) + 1 /\ Append(s, line)[Len(s) + 1] = line
      /\ \A i \in 1..Len(s) : Append(s, line)[i] = s[i]
  OBVIOUS
<1>2. ASSUME NEW i \in 1..(Len(s) + 1)
      PROVE  Append(s, line)[i].k = n + i
  <2>1. CASE i = Len(s) + 1
    BY <1>1, <2>1
  <2>2. CASE i # Len(s) + 1
    <3>1. i \in 1..Len(s)
      BY <1>1, <2>2
    <3>2. QED
      BY <1>1, <3>1 DEF Behind
  <2>3. QED
    BY <2>1, <2>2
<1>3. QED
  BY <1>1, <1>2 DEF Behind

\* The first line taken away.
LEMMA TailBehind ==
  ASSUME NEW s \in Seq(Line), s # <<>>, NEW n \in Nat, Behind(n, s)
  PROVE  /\ Tail(s) \in Seq(Line) /\ Len(s) \in Nat /\ Len(Tail(s)) = Len(s) - 1
         /\ Head(s) \in Line /\ Head(s).k = n + 1 /\ Behind(n + 1, Tail(s))
  BY DEF Behind

\* Two pieces of a stream are one.
LEMMA ConcatBehind ==
  ASSUME NEW s \in Seq(Line), NEW t \in Seq(Line), Behind(0, s), Behind(Len(s), t)
  PROVE  s \o t \in Seq(Line) /\ Len(s \o t) = Len(s) + Len(t) /\ Behind(0, s \o t)
<1>1. /\ Len(s) \in Nat /\ Len(t) \in Nat /\ s \o t \in Seq(Line)
      /\ Len(s \o t) = Len(s) + Len(t)
      /\ \A i \in 1..Len(s) : (s \o t)[i] = s[i]
      /\ \A i \in 1..Len(t) : (s \o t)[Len(s) + i] = t[i]
  OBVIOUS
<1>2. ASSUME NEW i \in 1..(Len(s) + Len(t))
      PROVE  (s \o t)[i].k = i
  <2>1. CASE i \in 1..Len(s)
    BY <1>1, <2>1 DEF Behind
  <2>2. CASE i \notin 1..Len(s)
    <3>1. i - Len(s) \in 1..Len(t) /\ Len(s) + (i - Len(s)) = i
      BY <1>1, <2>2
    <3>2. (s \o t)[i] = t[i - Len(s)]
      BY <1>1, <3>1
    <3>3. QED
      BY <1>1, <3>1, <3>2 DEF Behind
  <2>3. QED
    BY <2>1, <2>2
<1>3. QED
  BY <1>1, <1>2 DEF Behind

-----------------------------------------------------------------------------
(* The streams are the first lines of each side, in order.                  *)

\* The part of the types they use, with the lengths as numbers.
Typed ==
  /\ wbuf \in Seq(Line) /\ pipe \in Seq(Line) /\ toServer \in Seq(Line)
  /\ clientIn \in Seq(Line) /\ srvOut \in Seq(Line) /\ toClient \in Seq(Line)
  /\ observed \in Seq(Message)
  /\ clientSent \in Nat /\ srvSent \in Nat
  /\ Len(wbuf) \in Nat /\ Len(pipe) \in Nat /\ Len(toServer) \in Nat
  /\ Len(clientIn) \in Nat /\ Len(srvOut) \in Nat /\ Len(toClient) \in Nat

\* It follows from the type invariant.
LEMMA TypeTyped ==
  ASSUME TypeOK
  PROVE  Typed
  BY DEF TypeOK, Typed

\* A line that is just written is numbered within the bounds.
LEMMA NewLine ==
  ASSUME NEW n \in Nat, n < MaxC2S \/ n < MaxS2C, NEW kind \in AllKinds
  PROVE  [k |-> n + 1, kind |-> kind] \in Line
  BY BoundsAssumption DEF BoundsAssumption, Line, LineNumber

\* One more line of the client.
LEMMA ClientWritesStream ==
  ASSUME Typed, StreamInv, NEW kind \in ClientKinds, ClientWrites(kind)
  PROVE  StreamInv'
<1> DEFINE line == [k |-> clientSent + 1, kind |-> kind]
<1>1. /\ clientIn' = Append(clientIn, line) /\ clientSent' = clientSent + 1
      /\ UNCHANGED <<phase, c2s, s2c, observed, stdin, wbuf, pipe, toServer, srv,
                     srvOut, srvSent, toClient>>
  BY DEF ClientWrites, mainVars, recorderVars, inVars, outVars
<1>2. line \in Line
  BY NewLine, KindsAssumption DEF ClientWrites, Typed
<1>3. clientSent - Len(clientIn) \in Nat
      /\ line.k = (clientSent - Len(clientIn)) + Len(clientIn) + 1
  BY DEF Typed, StreamInv, Unread
<1>4. /\ Len(clientIn') = Len(clientIn) + 1
      /\ Behind(clientSent - Len(clientIn), clientIn')
  BY <1>1, <1>2, <1>3, AppendBehind DEF Typed, StreamInv, Unread
<1>5. clientSent' - Len(clientIn') = clientSent - Len(clientIn) /\ Len(clientIn') <= clientSent'
      /\ UNCHANGED <<srvOut, srvSent>>
  BY <1>1, <1>4 DEF Typed, StreamInv, Unread
<1>6. Unread'
  BY <1>4, <1>5 DEF StreamInv, Unread, Behind
<1>7. Fresh' /\ ToClientInv'
  BY <1>1, <1>4 DEF StreamInv, Fresh, ToClientInv, Behind
<1>8. (c2s' # "done" /\ stdin' = "open") =>
        Len(toServer') + Len(pipe') + Len(wbuf') + Len(clientIn') = clientSent'
  <2>1. (c2s # "done" /\ stdin = "open") =>
          Len(toServer) + Len(pipe) + Len(wbuf) + Len(clientIn) = clientSent
    BY DEF StreamInv, ToServerInv
  <2>2. /\ Len(toServer) \in Nat /\ Len(pipe) \in Nat /\ Len(wbuf) \in Nat
        /\ Len(clientIn) \in Nat
    BY DEF Typed
  <2>3. QED
    BY <1>1, <1>4, <2>1, <2>2
<1>9. ToServerInv'
  BY <1>1, <1>8 DEF StreamInv, ToServerInv, Behind
<1>10. QED
  BY <1>6, <1>7, <1>9 DEF StreamInv

\* One more line of the server.
LEMMA ServerWritesStream ==
  ASSUME Typed, StreamInv, NEW kind \in ServerKinds, ServerWrites(kind)
  PROVE  StreamInv'
<1> DEFINE line == [k |-> srvSent + 1, kind |-> kind]
<1>1. /\ srvOut' = Append(srvOut, line) /\ srvSent' = srvSent + 1 /\ srv = "up"
      /\ UNCHANGED <<phase, c2s, s2c, observed, stdin, wbuf, pipe, toServer, srv,
                     clientIn, clientSent, toClient>>
  BY DEF ServerWrites, mainVars, recorderVars, clientVars, inVars
<1>2. line \in Line
  BY NewLine, KindsAssumption DEF ServerWrites, Typed
<1>3. srvSent - Len(srvOut) \in Nat
      /\ line.k = (srvSent - Len(srvOut)) + Len(srvOut) + 1
  BY DEF Typed, StreamInv, Unread
<1>4. /\ Len(srvOut') = Len(srvOut) + 1
      /\ Behind(srvSent - Len(srvOut), srvOut')
  BY <1>1, <1>2, <1>3, AppendBehind DEF Typed, StreamInv, Unread
<1>5. srvSent' - Len(srvOut') = srvSent - Len(srvOut) /\ Len(srvOut') <= srvSent'
      /\ UNCHANGED <<clientIn, clientSent>>
  BY <1>1, <1>4 DEF Typed, StreamInv, Unread
<1>6. Unread'
  BY <1>4, <1>5 DEF StreamInv, Unread, Behind
<1>7. Fresh' /\ ToServerInv'
  BY <1>1 DEF StreamInv, Fresh, ToServerInv, Behind
<1>8. s2c' = "read" => Len(toClient') + Len(srvOut') = srvSent'
  <2>1. s2c = "read" => Len(toClient) + Len(srvOut) = srvSent
    BY DEF StreamInv, ToClientInv
  <2>2. Len(toClient) \in Nat /\ Len(srvOut) \in Nat
    BY DEF Typed
  <2>3. QED
    BY <1>1, <1>4, <2>1, <2>2
<1>9. ToClientInv'
  BY <1>1, <1>8 DEF StreamInv, ToClientInv, Behind
<1>10. QED
  BY <1>6, <1>7, <1>9 DEF StreamInv

\* The server reads the first line of the pipe.
LEMMA ServerReadsStream ==
  ASSUME Typed, StreamInv, ServerReads
  PROVE  StreamInv'
<1>1. /\ pipe # <<>> /\ pipe' = Tail(pipe) /\ toServer' = Append(toServer, Head(pipe))
      /\ srv = "up"
      /\ UNCHANGED <<phase, c2s, s2c, observed, stdin, wbuf, srv, clientIn,
                     clientSent, srvOut, srvSent, toClient>>
  BY DEF ServerReads, mainVars, recorderVars, clientVars, outVars
<1>2. /\ Len(pipe') = Len(pipe) - 1 /\ Head(pipe) \in Line
      /\ Head(pipe).k = Len(toServer) + 1 /\ Behind(Len(toServer) + 1, pipe')
  BY <1>1, TailBehind DEF Typed, StreamInv, ToServerInv
<1>3. Len(toServer') = Len(toServer) + 1 /\ Behind(0, toServer')
  BY <1>1, <1>2, AppendBehind DEF Typed, StreamInv, ToServerInv
<1>4. Len(toServer') + Len(pipe') = Len(toServer) + Len(pipe)
  BY <1>2, <1>3 DEF Typed
<1>5. ToServerInv'
  BY <1>1, <1>2, <1>3, <1>4 DEF StreamInv, ToServerInv
<1>6. Fresh'
  BY <1>1 DEF StreamInv, Fresh
<1>7. Unread' /\ ToClientInv'
  BY <1>1 DEF StreamInv, Unread, ToClientInv, Behind
<1>8. QED
  BY <1>5, <1>6, <1>7 DEF StreamInv

\* asyncio moves the first buffered line to the pipe.
LEMMA FlushStdinStream ==
  ASSUME Typed, StreamInv, FlushStdin
  PROVE  StreamInv'
<1>1. /\ wbuf # <<>> /\ wbuf' = Tail(wbuf) /\ pipe' = Append(pipe, Head(wbuf))
      /\ srv = "up"
      /\ UNCHANGED <<phase, c2s, s2c, observed, stdin, toServer, srv, clientIn,
                     clientSent, srvOut, srvSent, toClient>>
  BY DEF FlushStdin, mainVars, recorderVars, clientVars, outVars
<1>2. Len(toServer) + Len(pipe) \in Nat
  BY DEF Typed
<1>3. /\ Len(wbuf') = Len(wbuf) - 1 /\ Head(wbuf) \in Line
      /\ Head(wbuf).k = Len(toServer) + Len(pipe) + 1
      /\ Behind(Len(toServer) + Len(pipe) + 1, wbuf')
  BY <1>1, <1>2, TailBehind DEF Typed, StreamInv, ToServerInv
<1>4. Len(pipe') = Len(pipe) + 1 /\ Behind(Len(toServer), pipe')
  BY <1>1, <1>3, AppendBehind DEF Typed, StreamInv, ToServerInv
<1>5. Len(toServer) + Len(pipe') = Len(toServer) + Len(pipe) + 1
  BY <1>4 DEF Typed
<1>6. ToServerInv'
  BY <1>1, <1>3, <1>4, <1>5 DEF StreamInv, ToServerInv, Typed
<1>7. Fresh'
  BY <1>1 DEF StreamInv, Fresh
<1>8. Unread' /\ ToClientInv'
  BY <1>1 DEF StreamInv, Unread, ToClientInv, Behind
<1>9. QED
  BY <1>6, <1>7, <1>8 DEF StreamInv

\* The pump takes the first unread line of the client, and what it does with it.
LEMMA ReadClient ==
  ASSUME Typed, StreamInv, clientIn # <<>>, clientIn' = Tail(clientIn),
         clientSent' = clientSent, UNCHANGED <<srvOut, srvSent>>
  PROVE  /\ Unread' /\ Len(clientIn') = Len(clientIn) - 1
         /\ Head(clientIn) \in Line
         /\ Head(clientIn).k = clientSent - Len(clientIn) + 1
<1>1. clientSent - Len(clientIn) \in Nat
  BY DEF Typed, StreamInv, Unread
<1>2. /\ Len(clientIn') = Len(clientIn) - 1 /\ Head(clientIn) \in Line
      /\ Head(clientIn).k = clientSent - Len(clientIn) + 1
      /\ Behind(clientSent - Len(clientIn) + 1, clientIn')
  BY <1>1, TailBehind DEF Typed, StreamInv, Unread
<1>3. clientSent' - Len(clientIn') = clientSent - Len(clientIn) + 1
      /\ Len(clientIn') <= clientSent'
  BY <1>2 DEF Typed, StreamInv, Unread
<1>4. QED
  BY <1>2, <1>3 DEF StreamInv, Unread, Behind

\* A poison line leaves no gap behind it: nothing is written after it.
LEMMA C2SPoisonedStream ==
  ASSUME Typed, StreamInv, C2SPoisoned
  PROVE  StreamInv'
<1>1. /\ clientIn # <<>> /\ clientIn' = Tail(clientIn) /\ c2s = "read" /\ c2s' = "done"
      /\ UNCHANGED <<phase, s2c, observed, stdin, wbuf, pipe, toServer, srv,
                     clientSent, srvOut, srvSent, toClient>>
  BY DEF C2SPoisoned, C2SRunning, mainVars, recorderVars, inVars, outVars
<1>2. Unread'
  BY <1>1, ReadClient
<1>3. ToServerInv' /\ ToClientInv' /\ Fresh'
  BY <1>1 DEF StreamInv, ToServerInv, ToClientInv, Fresh, Behind
<1>4. QED
  BY <1>2, <1>3 DEF StreamInv

\* A line is written while the stdin is open, into the pipe or into the buffer;
\* when it is not nothing is written any more.
LEMMA C2SForwardsStream ==
  ASSUME Typed, StreamInv, C2SForwards
  PROVE  StreamInv'
<1> DEFINE line == Head(clientIn)
           direct == wbuf = <<>> /\ Len(pipe) < PipeCap /\ srv = "up"
<1>1. /\ clientIn # <<>> /\ clientIn' = Tail(clientIn) /\ c2s = "read"
      /\ pipe' = IF stdin = "open" /\ direct THEN Append(pipe, line) ELSE pipe
      /\ wbuf' = IF stdin = "open" /\ ~direct THEN Append(wbuf, line) ELSE wbuf
      /\ UNCHANGED <<phase, s2c, stdin, toServer, srv, clientSent, srvOut, srvSent,
                     toClient>>
  BY DEF C2SForwards, C2SRunning, WriteToServer, mainVars, outVars
<1>2. /\ Unread' /\ Len(clientIn') = Len(clientIn) - 1
      /\ line \in Line /\ line.k = clientSent - Len(clientIn) + 1
  BY <1>1, ReadClient
<1>3. Fresh' /\ ToClientInv'
  BY <1>1 DEF StreamInv, Fresh, ToClientInv, Behind
<1>4. /\ Len(toServer) \in Nat /\ Len(pipe) \in Nat /\ Len(wbuf) \in Nat
      /\ Len(clientIn) \in Nat /\ clientSent \in Nat
  BY DEF Typed
<1>5. CASE stdin # "open"
  <2>1. pipe' = pipe /\ wbuf' = wbuf /\ toServer' = toServer /\ stdin' # "open"
    BY <1>1, <1>5
  <2>2. ToServerInv'
    BY <2>1 DEF StreamInv, ToServerInv, Behind
  <2>3. QED
    BY <1>2, <1>3, <2>2 DEF StreamInv
<1>6. ASSUME stdin = "open"
      PROVE  /\ Len(toServer) + Len(pipe) + Len(wbuf) + Len(clientIn) = clientSent
             /\ line.k = Len(toServer) + Len(pipe) + Len(wbuf) + 1
  <2>1. Len(toServer) + Len(pipe) + Len(wbuf) + Len(clientIn) = clientSent
    BY <1>1, <1>6 DEF StreamInv, ToServerInv
  <2>2. line.k = clientSent - Len(clientIn) + 1
    BY <1>2
  <2>3. QED
    BY <1>4, <2>1, <2>2
<1>7. CASE stdin = "open" /\ direct
  <2>1. wbuf' = <<>> /\ Len(wbuf') = 0 /\ Len(wbuf) = 0 /\ pipe' = Append(pipe, line)
    BY <1>1, <1>7
  <2>2. line.k = Len(toServer) + Len(pipe) + 1
    BY <1>6, <1>7, <2>1 DEF Typed
  <2>3. Len(pipe') = Len(pipe) + 1 /\ Behind(Len(toServer), pipe')
    BY <1>2, <2>1, <2>2, AppendBehind DEF StreamInv, ToServerInv, Typed
  <2>4. Len(toServer) + Len(pipe') + Len(wbuf') + Len(clientIn') = clientSent
    BY <1>2, <1>4, <1>6, <1>7, <2>1, <2>3
  <2>5. Behind(Len(toServer') + Len(pipe'), wbuf')
    BY <2>1 DEF Behind
  <2>6. ToServerInv'
    BY <1>1, <2>3, <2>4, <2>5 DEF StreamInv, ToServerInv
  <2>7. QED
    BY <1>2, <1>3, <2>6 DEF StreamInv
<1>8. CASE stdin = "open" /\ ~direct
  <2>1. pipe' = pipe /\ wbuf' = Append(wbuf, line) /\ Len(toServer) + Len(pipe) \in Nat
    BY <1>1, <1>8 DEF Typed
  <2>2. Len(wbuf') = Len(wbuf) + 1 /\ Behind(Len(toServer) + Len(pipe), wbuf')
    BY <1>2, <1>6, <1>8, <2>1, AppendBehind DEF StreamInv, ToServerInv, Typed
  <2>3. Len(toServer) + Len(pipe') + Len(wbuf') + Len(clientIn') = clientSent
    BY <1>2, <1>4, <1>6, <1>8, <2>1, <2>2
  <2>4. ToServerInv'
    BY <1>1, <2>1, <2>2, <2>3 DEF StreamInv, ToServerInv
  <2>5. QED
    BY <1>2, <1>3, <2>4 DEF StreamInv
<1>9. QED
  BY <1>5, <1>7, <1>8

\* The pump to the client takes the first unread line of the server.
LEMMA ReadServer ==
  ASSUME Typed, StreamInv, srvOut # <<>>, srvOut' = Tail(srvOut),
         srvSent' = srvSent, UNCHANGED <<clientIn, clientSent>>
  PROVE  /\ Unread' /\ Len(srvOut') = Len(srvOut) - 1
         /\ Head(srvOut) \in Line
         /\ Head(srvOut).k = srvSent - Len(srvOut) + 1
<1>1. srvSent - Len(srvOut) \in Nat
  BY DEF Typed, StreamInv, Unread
<1>2. /\ Len(srvOut') = Len(srvOut) - 1 /\ Head(srvOut) \in Line
      /\ Head(srvOut).k = srvSent - Len(srvOut) + 1
      /\ Behind(srvSent - Len(srvOut) + 1, srvOut')
  BY <1>1, TailBehind DEF Typed, StreamInv, Unread
<1>3. srvSent' - Len(srvOut') = srvSent - Len(srvOut) + 1
      /\ Len(srvOut') <= srvSent'
  BY <1>2 DEF Typed, StreamInv, Unread
<1>4. QED
  BY <1>2, <1>3 DEF StreamInv, Unread, Behind

\* A poison line of the server is the last the pump takes.
LEMMA S2CPoisonedStream ==
  ASSUME Typed, StreamInv, S2CPoisoned
  PROVE  StreamInv' /\ OnePoisoned'
<1>1. /\ srvOut # <<>> /\ srvOut' = Tail(srvOut) /\ s2c = "read" /\ s2c' = "done"
      /\ UNCHANGED <<phase, c2s, observed, stdin, wbuf, pipe, toServer, srv,
                     clientIn, clientSent, srvSent, toClient>>
  BY DEF S2CPoisoned, S2CRunning, mainVars, recorderVars, clientVars, inVars
<1>2. Unread' /\ Len(srvOut') = Len(srvOut) - 1
  BY <1>1, ReadServer
<1>3. ToServerInv' /\ ToClientInv' /\ Fresh'
  BY <1>1 DEF StreamInv, ToServerInv, ToClientInv, Fresh, Behind
<1>4. OnePoisoned'
  <2>1. Len(toClient) + Len(srvOut) = srvSent
    BY <1>1 DEF StreamInv, ToClientInv
  <2>2. Len(toClient) \in Nat /\ Len(srvOut) \in Nat
    BY DEF Typed
  <2>3. QED
    BY <1>1, <1>2, <2>1, <2>2 DEF OnePoisoned
<1>5. QED
  BY <1>2, <1>3, <1>4 DEF StreamInv

\* A line of the server goes to the client, or the client has gone and the pump
\* is over.
LEMMA S2CForwardsStream ==
  ASSUME Typed, StreamInv, S2CForwards
  PROVE  StreamInv'
<1> DEFINE line == Head(srvOut)
<1>1. /\ srvOut # <<>> /\ srvOut' = Tail(srvOut) /\ s2c = "read"
      /\ toClient' = IF clientGone THEN toClient ELSE Append(toClient, line)
      /\ s2c' = IF clientGone \/ phase = "cancelC2S" THEN "done" ELSE "read"
      /\ UNCHANGED <<phase, c2s, stdin, wbuf, pipe, toServer, srv, clientIn,
                     clientSent, srvSent>>
  BY DEF S2CForwards, S2CRunning, mainVars, clientVars, inVars
<1>2. /\ Unread' /\ Len(srvOut') = Len(srvOut) - 1
      /\ line \in Line /\ line.k = srvSent - Len(srvOut) + 1
  BY <1>1, ReadServer
<1>3. ToServerInv' /\ Fresh'
  BY <1>1 DEF StreamInv, ToServerInv, Fresh, Behind
<1>4. Len(toClient) \in Nat /\ Len(srvOut) \in Nat /\ srvSent \in Nat
  BY DEF Typed
<1>5. CASE clientGone
  <2>1. toClient' = toClient /\ s2c' = "done"
    BY <1>1, <1>5
  <2>2. ToClientInv'
    BY <2>1 DEF StreamInv, ToClientInv, Behind
  <2>3. QED
    BY <1>2, <1>3, <2>2 DEF StreamInv
<1>6. CASE ~clientGone
  <2>1. toClient' = Append(toClient, line)
    BY <1>1, <1>6
  <2>2. Len(toClient) + Len(srvOut) = srvSent
    BY <1>1 DEF StreamInv, ToClientInv
  <2>3. line.k = 0 + Len(toClient) + 1
    BY <1>2, <1>4, <2>2
  <2>4. Len(toClient') = Len(toClient) + 1 /\ Behind(0, toClient')
    BY <1>2, <2>1, <2>3, AppendBehind DEF StreamInv, ToClientInv, Typed
  <2>5. Len(toClient') + Len(srvOut') = srvSent'
    BY <1>1, <1>2, <1>4, <2>2, <2>4
  <2>6. ToClientInv'
    BY <2>4, <2>5 DEF ToClientInv
  <2>7. QED
    BY <1>2, <1>3, <2>6 DEF StreamInv
<1>7. QED
  BY <1>5, <1>6

\* Steps that move no line, start no pump and open no stdin.
LEMMA NoLineMoves ==
  ASSUME StreamInv,
         UNCHANGED <<clientIn, clientSent, srvOut, srvSent, pipe, toServer, toClient>>,
         wbuf' \in {wbuf, <<>>}, stdin' = "open" => stdin = "open" /\ wbuf' = wbuf,
         c2s' \in {c2s, "done"} \/ c2s = "drain", s2c' \in {s2c, "done"},
         phase' = "starting" =>
           phase = "starting" /\ UNCHANGED <<observed, srv, c2s, s2c>>
  PROVE  StreamInv'
<1>1. Unread'
  BY DEF StreamInv, Unread, Behind
<1>2. Fresh'
  BY DEF StreamInv, Fresh
<1>3. ToClientInv'
  BY DEF StreamInv, ToClientInv, Behind
<1>4. Behind(Len(toServer') + Len(pipe'), wbuf')
  <2>1. CASE wbuf' = wbuf
    BY <2>1 DEF StreamInv, ToServerInv, Behind
  <2>2. CASE wbuf' = <<>>
    BY <2>2 DEF Behind
  <2>3. QED
    BY <2>1, <2>2
<1>5. Behind(0, toServer') /\ Behind(Len(toServer'), pipe')
  BY DEF StreamInv, ToServerInv
<1>6. (c2s' # "done" /\ stdin' = "open") =>
        Len(toServer') + Len(pipe') + Len(wbuf') + Len(clientIn') = clientSent'
  BY DEF StreamInv, ToServerInv
<1>7. ToServerInv'
  BY <1>4, <1>5, <1>6 DEF ToServerInv
<1>8. QED
  BY <1>1, <1>2, <1>3, <1>7 DEF StreamInv

\* The lines of both streams are where they belong, in every state.
LEMMA StreamCorrect == Spec => []StreamInv
<1>1. Init => StreamInv
  BY BoundsAssumption
     DEF Init, StreamInv, Fresh, Unread, ToServerInv, ToClientInv, Behind
<1>2. TypeOK /\ StreamInv /\ [Next]_vars => StreamInv'
  <2> SUFFICES ASSUME TypeOK, StreamInv, [Next]_vars
               PROVE  StreamInv'
    OBVIOUS
  <2>0. Typed
    BY TypeTyped
  <2> USE DEF mainVars, recorderVars, clientVars, inVars, outVars
  <2>1. ASSUME NEW kind \in ClientKinds, ClientWrites(kind)
        PROVE  StreamInv'
    BY <2>0, <2>1, ClientWritesStream
  <2>2. CASE ClientClosesInput
    BY <2>2, NoLineMoves DEF ClientClosesInput
  <2>3. CASE ClientClosesOutput
    BY <2>3, NoLineMoves DEF ClientClosesOutput
  <2>4. CASE ServerReads
    BY <2>0, <2>4, ServerReadsStream
  <2>5. ASSUME NEW kind \in ServerKinds, ServerWrites(kind)
        PROVE  StreamInv'
    BY <2>0, <2>5, ServerWritesStream
  <2>6. CASE ServerExits
    <3>1. phase # "starting"
      BY <2>6 DEF ServerExits, StreamInv, Fresh
    <3>2. QED
      BY <2>6, <3>1, NoLineMoves DEF ServerExits
  <2>7. CASE Reap
    <3>1. phase # "starting"
      BY <2>7 DEF Reap, StreamInv, Fresh
    <3>2. QED
      BY <2>7, <3>1, NoLineMoves DEF Reap
  <2>8. CASE FlushStdin
    BY <2>0, <2>8, FlushStdinStream
  <2>9. CASE LoseStdin
    BY <2>9, NoLineMoves DEF LoseStdin
  <2>10. CASE C2SForwards
    BY <2>0, <2>10, C2SForwardsStream
  <2>11. CASE C2SPoisoned
    BY <2>0, <2>11, C2SPoisonedStream
  <2>12. CASE C2SEndOfInput
    <3>1. phase # "starting"
      BY <2>12 DEF C2SEndOfInput, C2SRunning, StreamInv, Fresh
    <3>2. QED
      BY <2>12, <3>1, NoLineMoves DEF C2SEndOfInput
  <2>13. CASE C2SDrained
    <3>1. phase # "starting"
      BY <2>13 DEF C2SDrained, StreamInv, Fresh
    <3>2. QED
      BY <2>13, <3>1, NoLineMoves DEF C2SDrained
  <2>14. CASE S2CForwards
    BY <2>0, <2>14, S2CForwardsStream
  <2>15. CASE S2CPoisoned
    BY <2>0, <2>15, S2CPoisonedStream
  <2>16. CASE S2CEndOfOutput
    <3>1. phase # "starting"
      BY <2>16 DEF S2CEndOfOutput, S2CRunning, StreamInv, Fresh
    <3>2. QED
      BY <2>16, <3>1, NoLineMoves DEF S2CEndOfOutput
  <2>17. CASE RecorderWrite
    BY <2>17, NoLineMoves DEF RecorderWrite
  <2>18. CASE RecorderWriteFails
    BY <2>18, NoLineMoves DEF RecorderWriteFails
  <2>19. CASE Signal
    BY <2>19, NoLineMoves DEF Signal
  <2>20. CASE Start
    <3>1. /\ phase = "starting" /\ phase' = "running" /\ Len(clientIn) = clientSent
          /\ toServer = <<>> /\ pipe = <<>> /\ wbuf = <<>> /\ toClient = <<>>
          /\ srvOut = <<>> /\ srvSent = 0
          /\ UNCHANGED <<clientIn, clientSent, srvOut, srvSent, pipe, wbuf,
                         toServer, toClient>>
      BY <2>20 DEF Start, StreamInv, Fresh
    <3>2. Unread' /\ Fresh'
      BY <3>1 DEF StreamInv, Unread, Fresh, Behind
    <3>3. ToServerInv' /\ ToClientInv'
      BY <2>0, <3>1 DEF ToServerInv, ToClientInv, Behind, Typed
    <3>4. QED
      BY <3>2, <3>3 DEF StreamInv
  <2>21. CASE StartFails
    BY <2>21, NoLineMoves DEF StartFails
  <2>22. CASE Decide
    BY <2>22, NoLineMoves DEF Decide
  <2>23. CASE CloseStdin
    BY <2>23, NoLineMoves DEF CloseStdin
  <2>24. CASE StdinClosed
    BY <2>24, NoLineMoves DEF StdinClosed
  <2>25. CASE ForwardSignal
    BY <2>25, NoLineMoves DEF ForwardSignal
  <2>26. CASE TimeoutKills
    BY <2>26, NoLineMoves DEF TimeoutKills
  <2>27. CASE ShutdownReturns
    BY <2>27, NoLineMoves DEF ShutdownReturns
  <2>28. CASE CancelC2S
    BY <2>28, NoLineMoves DEF CancelC2S
  <2>29. CASE CancelS2C
    BY <2>29, NoLineMoves DEF CancelS2C
  <2>30. CASE FlushAndClose
    BY <2>30, NoLineMoves DEF FlushAndClose
  <2>31. CASE UNCHANGED vars
    BY <2>31, NoLineMoves DEF vars
  <2>32. QED
    BY <2>1, <2>2, <2>3, <2>4, <2>5, <2>6, <2>7, <2>8, <2>9, <2>10, <2>11,
       <2>12, <2>13, <2>14, <2>15, <2>16, <2>17, <2>18, <2>19, <2>20, <2>21,
       <2>22, <2>23, <2>24, <2>25, <2>26, <2>27, <2>28, <2>29, <2>30, <2>31
       DEF Next, Client, Server, C2SPump, S2CPump, Recorder, Main
<1>3. QED
  BY <1>1, <1>2, TypeCorrect, PTL DEF Spec

\* The proxy is transparent: what the server has read, what is on its way to it
\* and what the client has been sent are the first lines of the other side.
THEOREM TransparentCorrect == Spec => []Transparent
<1>1. TypeOK /\ StreamInv => Transparent
  <2> SUFFICES ASSUME TypeOK, StreamInv
               PROVE  Transparent
    OBVIOUS
  <2>1. /\ toServer \in Seq(Line) /\ pipe \in Seq(Line) /\ wbuf \in Seq(Line)
        /\ Behind(0, toServer) /\ Behind(Len(toServer), pipe)
        /\ Behind(Len(toServer) + Len(pipe), wbuf) /\ Behind(0, toClient)
    BY DEF TypeOK, StreamInv, ToServerInv, ToClientInv
  <2>2. /\ toServer \o pipe \in Seq(Line) /\ Behind(0, toServer \o pipe)
        /\ Len(toServer \o pipe) = Len(toServer) + Len(pipe)
    BY <2>1, ConcatBehind
  <2>3. Behind(0, (toServer \o pipe) \o wbuf)
    BY <2>1, <2>2, ConcatBehind
  <2>4. QED
    BY <2>1, <2>2, <2>3 DEF Behind, Transparent
<1>2. QED
  BY <1>1, TypeCorrect, StreamCorrect, PTL

-----------------------------------------------------------------------------
(* What a shutdown leaves behind.                                           *)

\* Steps that touch neither the output of the server nor the pump that reads it,
\* but may end a wait.
LEMMA NoOutputMoves ==
  ASSUME DeliveryInv, UNCHANGED <<s2c, srvOut, srvSent, toClient>>,
         clientGone => clientGone', quick => quick',
         srv' = "up" => srv = "up",
         phase' \in {"starting", "running", "stopping", "closing"} =>
           ~quick' /\ phase \in {"starting", "running", "stopping", "closing"},
         phase' \in {"cancelC2S", "cancelS2C", "flushing", "closed"} =>
           \/ phase \in {"cancelC2S", "cancelS2C", "flushing", "closed"}
           \/ s2c = "done" \/ quick \/ OutputRead
  PROVE  DeliveryInv'
  BY DEF DeliveryInv, OutputRead, OnePoisoned

\* What the server wrote is still to be read only where a shutdown may leave it.
LEMMA DeliveryCorrect == Spec => []DeliveryInv
<1>1. Init => DeliveryInv
  BY DEF Init, DeliveryInv, OutputRead
<1>2. TypeOK /\ StreamInv /\ DeliveryInv /\ [Next]_vars => DeliveryInv'
  <2> SUFFICES ASSUME TypeOK, StreamInv, DeliveryInv, [Next]_vars
               PROVE  DeliveryInv'
    OBVIOUS
  <2>0. Typed
    BY TypeTyped
  <2> USE DEF mainVars, recorderVars, clientVars, inVars, outVars
  <2>1. ASSUME NEW kind \in ClientKinds, ClientWrites(kind)
        PROVE  DeliveryInv'
    BY <2>1, NoOutputMoves DEF ClientWrites, DeliveryInv
  <2>2. CASE ClientClosesInput
    BY <2>2, NoOutputMoves DEF ClientClosesInput, DeliveryInv
  <2>3. CASE ClientClosesOutput
    BY <2>3, NoOutputMoves DEF ClientClosesOutput, DeliveryInv
  <2>4. CASE ServerReads
    BY <2>4, NoOutputMoves DEF ServerReads, DeliveryInv
  <2>5. ASSUME NEW kind \in ServerKinds, ServerWrites(kind)
        PROVE  DeliveryInv'
    <3>1. /\ srv = "up" /\ srvSent' = srvSent + 1
          /\ srvOut' = Append(srvOut, [k |-> srvSent + 1, kind |-> kind])
          /\ UNCHANGED <<phase, quick, s2c, clientGone, toClient>>
      BY <2>5 DEF ServerWrites
    <3>2. [k |-> srvSent + 1, kind |-> kind] \in Line
      BY <2>0, <2>5, NewLine, KindsAssumption DEF ServerWrites, Typed
    <3>3. Len(srvOut') = Len(srvOut) + 1 /\ Len(srvOut) \in Nat /\ Len(toClient) \in Nat
      BY <2>0, <3>1, <3>2 DEF Typed
    <3>4. OnePoisoned => OnePoisoned'
      BY <3>1, <3>3 DEF OnePoisoned
    <3>5. QED
      BY <3>1, <3>4 DEF DeliveryInv, OutputRead
  <2>6. CASE ServerExits
    BY <2>6, NoOutputMoves DEF ServerExits, DeliveryInv
  <2>7. CASE Reap
    BY <2>7, NoOutputMoves DEF Reap, DeliveryInv
  <2>8. CASE FlushStdin
    BY <2>8, NoOutputMoves DEF FlushStdin, DeliveryInv
  <2>9. CASE LoseStdin
    BY <2>9, NoOutputMoves DEF LoseStdin, DeliveryInv
  <2>10. CASE C2SForwards
    BY <2>10, NoOutputMoves DEF C2SForwards, DeliveryInv
  <2>11. CASE C2SPoisoned
    BY <2>11, NoOutputMoves DEF C2SPoisoned, DeliveryInv
  <2>12. CASE C2SEndOfInput
    BY <2>12, NoOutputMoves DEF C2SEndOfInput, DeliveryInv
  <2>13. CASE C2SDrained
    BY <2>13, NoOutputMoves DEF C2SDrained, DeliveryInv
  <2>14. CASE S2CForwards
    <3>1. /\ srvOut # <<>> /\ s2c = "read"
          /\ s2c' = IF clientGone \/ phase = "cancelC2S" THEN "done" ELSE "read"
          /\ UNCHANGED <<phase, quick, clientGone, srv>>
      BY <2>14 DEF S2CForwards, S2CRunning
    <3>2. phase \in {"cancelC2S", "cancelS2C", "flushing", "closed"} => quick
      BY <3>1 DEF DeliveryInv, OutputRead
    <3>3. QED
      BY <3>1, <3>2 DEF DeliveryInv
  <2>15. CASE S2CPoisoned
    <3>1. OnePoisoned' /\ s2c' = "done" /\ UNCHANGED <<phase, quick>>
      BY <2>0, <2>15, S2CPoisonedStream DEF S2CPoisoned
    <3>2. QED
      BY <3>1 DEF DeliveryInv
  <2>16. CASE S2CEndOfOutput
    <3>1. /\ s2c' = "done" /\ srvOut = <<>> /\ srv \in {"exited", "reaped"}
          /\ UNCHANGED <<phase, quick, srv, srvOut>>
      BY <2>16 DEF S2CEndOfOutput
    <3>2. QED
      BY <3>1 DEF DeliveryInv, OutputRead
  <2>17. CASE RecorderWrite
    BY <2>17, NoOutputMoves DEF RecorderWrite, DeliveryInv
  <2>18. CASE RecorderWriteFails
    BY <2>18, NoOutputMoves DEF RecorderWriteFails, DeliveryInv
  <2>19. CASE Signal
    BY <2>19, NoOutputMoves DEF Signal, DeliveryInv
  <2>20. CASE Start
    BY <2>20 DEF Start, DeliveryInv
  <2>21. CASE StartFails
    <3>1. s2c = "done"
      BY <2>21 DEF StartFails, StreamInv, Fresh
    <3>2. QED
      BY <2>21, <3>1, NoOutputMoves DEF StartFails, DeliveryInv
  <2>22. CASE Decide
    BY <2>22, NoOutputMoves DEF Decide, DeliveryInv
  <2>23. CASE CloseStdin
    BY <2>23, NoOutputMoves DEF CloseStdin, DeliveryInv
  <2>24. CASE StdinClosed
    BY <2>24, NoOutputMoves DEF StdinClosed, DeliveryInv
  <2>25. CASE ForwardSignal
    BY <2>25, NoOutputMoves DEF ForwardSignal, DeliveryInv
  <2>26. CASE TimeoutKills
    BY <2>26, NoOutputMoves DEF TimeoutKills, ProcessEnded, DeliveryInv
  <2>27. CASE ShutdownReturns
    <3>1. quick \/ s2c = "done" \/ OutputRead
      BY <2>27 DEF ShutdownReturns, ProcessEnded, OutputRead
    <3>2. QED
      BY <2>27, <3>1, NoOutputMoves DEF ShutdownReturns, DeliveryInv
  <2>28. CASE CancelC2S
    BY <2>28, NoOutputMoves DEF CancelC2S, DeliveryInv
  <2>29. CASE CancelS2C
    <3>1. /\ phase = "cancelS2C" /\ phase' = "flushing" /\ s2c' = "done"
          /\ UNCHANGED <<quick, clientGone, srv, srvOut, srvSent, toClient>>
      BY <2>29 DEF CancelS2C
    <3>2. QED
      BY <3>1 DEF DeliveryInv, OutputRead, OnePoisoned
  <2>30. CASE FlushAndClose
    BY <2>30, NoOutputMoves DEF FlushAndClose, DeliveryInv
  <2>31. CASE UNCHANGED vars
    BY <2>31, NoOutputMoves DEF vars, DeliveryInv
  <2>32. QED
    BY <2>1, <2>2, <2>3, <2>4, <2>5, <2>6, <2>7, <2>8, <2>9, <2>10, <2>11,
       <2>12, <2>13, <2>14, <2>15, <2>16, <2>17, <2>18, <2>19, <2>20, <2>21,
       <2>22, <2>23, <2>24, <2>25, <2>26, <2>27, <2>28, <2>29, <2>30, <2>31
       DEF Next, Client, Server, C2SPump, S2CPump, Recorder, Main
<1>3. QED
  BY <1>1, <1>2, TypeCorrect, StreamCorrect, PTL DEF Spec

\* A finished shutdown has delivered all the server wrote, but for a client that
\* has gone, a line that was poison, or an exit status collected too early.
THEOREM ExitDeliversCorrect == Spec => []ExitDeliversAll
<1>1. RecordingInv /\ DeliveryInv => ExitDeliversAll
  BY DEF RecordingInv, PumpsOver, DeliveryInv, OutputRead, OnePoisoned, ExitDeliversAll
<1>2. QED
  BY <1>1, RecordingCorrect, DeliveryCorrect, PTL

-----------------------------------------------------------------------------
(* The transcript and the streams agree.                                    *)

\* What observing a line adds to the interceptor's messages.
LEMMA ObserveElems ==
  ASSUME Typed, NEW dir \in Direction, NEW line \in Line, Observe(dir, line)
  PROVE  /\ Elems(observed') \subseteq Elems(observed) \cup {Entry(dir, line)}
         /\ Elems(observed) \subseteq Elems(observed')
         /\ line.kind = "rpc" => Entry(dir, line) \in Elems(observed')
<1>1. Entry(dir, line) \in Message
  BY DEF Entry, Line, Message
<1>2. CASE line.kind \in {"rpc", "unredactable"}
  <2>1. observed' = Append(observed, Entry(dir, line))
    BY <1>2 DEF Observe, Entry
  <2>2. QED
    BY <1>1, <2>1, AppendElems DEF Typed
<1>3. CASE line.kind \notin {"rpc", "unredactable"}
  BY <1>3 DEF Observe
<1>4. QED
  BY <1>2, <1>3

\* Steps in which nothing is observed, no line is added to a stream and none to
\* the server is lost while its stdin is open.
LEMMA NothingObserved ==
  ASSUME AgreementInv, observed' = observed, toClient' = toClient,
         ToServer' \subseteq ToServer, stdin' = "open" => stdin = "open" /\ ToServer' = ToServer,
         clientGone => clientGone'
  PROVE  AgreementInv'
<1>1. SentIsObserved'
  BY DEF AgreementInv, SentIsObserved
<1>2. ObservedIsSent'
  BY DEF AgreementInv, ObservedIsSent
<1>3. QED
  BY <1>1, <1>2 DEF AgreementInv

\* A line of the client is observed and goes to the stdin while it is open.
LEMMA C2SForwardsAgrees ==
  ASSUME Typed, AgreementInv, C2SForwards
  PROVE  AgreementInv'
<1> DEFINE line == Head(clientIn)
<1>1. /\ clientIn # <<>> /\ Observe("c2s", line) /\ WriteToServer(line)
      /\ toClient' = toClient /\ clientGone' = clientGone
      /\ stdin' = stdin /\ toServer' = toServer
  BY DEF C2SForwards, WriteToServer, outVars
<1>2. line \in Line /\ "c2s" \in Direction
  BY <1>1, TailElems DEF Typed, Direction
<1> HIDE DEF line
<1>3. /\ Elems(observed') \subseteq Elems(observed) \cup {Entry("c2s", line)}
      /\ Elems(observed) \subseteq Elems(observed')
      /\ line.kind = "rpc" => Entry("c2s", line) \in Elems(observed')
  BY <1>1, <1>2, ObserveElems
<1>4. IF stdin = "open" THEN ToServer' = ToServer \cup {line} ELSE ToServer' = ToServer
  <2>1. CASE pipe' = Append(pipe, line) /\ wbuf' = wbuf /\ stdin = "open"
    BY <1>1, <1>2, <2>1, AppendElems DEF ToServer, Typed
  <2>2. CASE wbuf' = Append(wbuf, line) /\ pipe' = pipe /\ stdin = "open"
    BY <1>1, <1>2, <2>2, AppendElems DEF ToServer, Typed
  <2>3. CASE stdin # "open"
    BY <1>1, <2>3 DEF WriteToServer, ToServer
  <2>4. QED
    BY <1>1, <2>1, <2>2, <2>3 DEF WriteToServer
<1>5. SentIsObserved'
  BY <1>1, <1>3, <1>4 DEF AgreementInv, SentIsObserved
<1>6. ObservedIsSent'
  <2>1. ASSUME NEW m \in Elems(observed)
        PROVE  \/ m.dir = "c2s" /\ (stdin' # "open" \/ \E l \in ToServer' : m = Entry("c2s", l))
               \/ m.dir = "s2c" /\ (clientGone' \/ \E l \in Elems(toClient') : m = Entry("s2c", l))
    BY <1>1, <1>4 DEF AgreementInv, ObservedIsSent
  <2>2. \/ stdin' # "open"
        \/ \E l \in ToServer' : Entry("c2s", line) = Entry("c2s", l)
    BY <1>1, <1>4
  <2>3. Entry("c2s", line).dir = "c2s"
    BY DEF Entry
  <2>4. QED
    BY <1>3, <2>1, <2>2, <2>3 DEF ObservedIsSent
<1>7. QED
  BY <1>5, <1>6 DEF AgreementInv

\* A line of the server is observed and goes to the client unless it has gone.
LEMMA S2CForwardsAgrees ==
  ASSUME Typed, AgreementInv, S2CForwards
  PROVE  AgreementInv'
<1> DEFINE line == Head(srvOut)
<1>1. /\ srvOut # <<>> /\ Observe("s2c", line)
      /\ toClient' = IF clientGone THEN toClient ELSE Append(toClient, line)
      /\ UNCHANGED <<clientGone, stdin, toServer, pipe, wbuf>>
  BY DEF S2CForwards, clientVars, inVars
<1>2. line \in Line /\ "s2c" \in Direction
  BY <1>1, TailElems DEF Typed, Direction
<1> HIDE DEF line
<1>3. /\ Elems(observed') \subseteq Elems(observed) \cup {Entry("s2c", line)}
      /\ Elems(observed) \subseteq Elems(observed')
      /\ line.kind = "rpc" => Entry("s2c", line) \in Elems(observed')
  BY <1>1, <1>2, ObserveElems
<1>4. ToServer' = ToServer
  BY <1>1 DEF ToServer
<1>5. IF clientGone THEN Elems(toClient') = Elems(toClient)
                    ELSE Elems(toClient') = Elems(toClient) \cup {line}
  BY <1>1, <1>2, AppendElems DEF Typed
<1>6. SentIsObserved'
  BY <1>3, <1>4, <1>5 DEF AgreementInv, SentIsObserved
<1>7. ObservedIsSent'
  <2>1. ASSUME NEW m \in Elems(observed)
        PROVE  \/ m.dir = "c2s" /\ (stdin' # "open" \/ \E l \in ToServer' : m = Entry("c2s", l))
               \/ m.dir = "s2c" /\ (clientGone' \/ \E l \in Elems(toClient') : m = Entry("s2c", l))
    BY <1>1, <1>4, <1>5 DEF AgreementInv, ObservedIsSent
  <2>2. \/ clientGone'
        \/ \E l \in Elems(toClient') : Entry("s2c", line) = Entry("s2c", l)
    BY <1>1, <1>5
  <2>3. Entry("s2c", line).dir = "s2c"
    BY DEF Entry
  <2>4. QED
    BY <1>3, <2>1, <2>2, <2>3 DEF ObservedIsSent
<1>8. QED
  BY <1>6, <1>7 DEF AgreementInv

\* Every JSON line in a stream is a message the interceptor has, and every
\* message it has is in its stream, while the other end of that stream is there.
LEMMA AgreementCorrect == Spec => []AgreementInv
<1>1. Init => AgreementInv
  BY DEF Init, AgreementInv, SentIsObserved, ObservedIsSent, ToServer, Elems
<1>2. TypeOK /\ StreamInv /\ AgreementInv /\ [Next]_vars => AgreementInv'
  <2> SUFFICES ASSUME TypeOK, StreamInv, AgreementInv, [Next]_vars
               PROVE  AgreementInv'
    OBVIOUS
  <2>0. Typed
    BY TypeTyped
  <2> USE DEF mainVars, recorderVars, clientVars, inVars, outVars
  <2>1. ASSUME NEW kind \in ClientKinds, ClientWrites(kind)
        PROVE  AgreementInv'
    BY <2>1, NothingObserved DEF ClientWrites, ToServer
  <2>2. CASE ClientClosesInput
    BY <2>2, NothingObserved DEF ClientClosesInput, ToServer
  <2>3. CASE ClientClosesOutput
    BY <2>3, NothingObserved DEF ClientClosesOutput, ToServer
  <2>4. CASE ServerReads
    <3>1. /\ pipe # <<>> /\ pipe' = Tail(pipe) /\ toServer' = Append(toServer, Head(pipe))
          /\ UNCHANGED <<observed, toClient, stdin, wbuf, clientGone>>
      BY <2>4 DEF ServerReads
    <3>2. /\ Head(pipe) \in Line /\ Elems(pipe) = Elems(pipe') \cup {Head(pipe)}
          /\ Elems(toServer') = Elems(toServer) \cup {Head(pipe)}
      BY <2>0, <3>1, TailElems, AppendElems DEF Typed
    <3>3. ToServer' = ToServer
      BY <3>1, <3>2 DEF ToServer
    <3>4. QED
      BY <3>1, <3>3, NothingObserved
  <2>5. ASSUME NEW kind \in ServerKinds, ServerWrites(kind)
        PROVE  AgreementInv'
    BY <2>5, NothingObserved DEF ServerWrites, ToServer
  <2>6. CASE ServerExits
    BY <2>6, NothingObserved DEF ServerExits, ToServer
  <2>7. CASE Reap
    BY <2>7, NothingObserved DEF Reap, ToServer
  <2>8. CASE FlushStdin
    <3>1. /\ wbuf # <<>> /\ wbuf' = Tail(wbuf) /\ pipe' = Append(pipe, Head(wbuf))
          /\ UNCHANGED <<observed, toClient, stdin, toServer, clientGone>>
      BY <2>8 DEF FlushStdin
    <3>2. /\ Head(wbuf) \in Line /\ Elems(wbuf) = Elems(wbuf') \cup {Head(wbuf)}
          /\ Elems(pipe') = Elems(pipe) \cup {Head(wbuf)}
      BY <2>0, <3>1, TailElems, AppendElems DEF Typed
    <3>3. ToServer' = ToServer
      BY <3>1, <3>2 DEF ToServer
    <3>4. QED
      BY <3>1, <3>3, NothingObserved
  <2>9. CASE LoseStdin
    <3>1. /\ stdin' = "lost" /\ wbuf' = <<>>
          /\ UNCHANGED <<observed, toClient, pipe, toServer, clientGone>>
      BY <2>9 DEF LoseStdin
    <3>2. ToServer' \subseteq ToServer
      BY <3>1 DEF ToServer, Elems
    <3>3. QED
      BY <3>1, <3>2, NothingObserved
  <2>10. CASE C2SForwards
    BY <2>0, <2>10, C2SForwardsAgrees
  <2>11. CASE C2SPoisoned
    BY <2>11, NothingObserved DEF C2SPoisoned, ToServer
  <2>12. CASE C2SEndOfInput
    BY <2>12, NothingObserved DEF C2SEndOfInput, ToServer
  <2>13. CASE C2SDrained
    BY <2>13, NothingObserved DEF C2SDrained, ToServer
  <2>14. CASE S2CForwards
    BY <2>0, <2>14, S2CForwardsAgrees
  <2>15. CASE S2CPoisoned
    BY <2>15, NothingObserved DEF S2CPoisoned, ToServer
  <2>16. CASE S2CEndOfOutput
    BY <2>16, NothingObserved DEF S2CEndOfOutput, ToServer
  <2>17. CASE RecorderWrite
    BY <2>17, NothingObserved DEF RecorderWrite, ToServer
  <2>18. CASE RecorderWriteFails
    BY <2>18, NothingObserved DEF RecorderWriteFails, ToServer
  <2>19. CASE Signal
    BY <2>19, NothingObserved DEF Signal, ToServer
  <2>20. CASE Start
    <3>1. observed = <<>> /\ UNCHANGED <<observed, toClient, toServer, pipe, wbuf>>
      BY <2>20 DEF Start, StreamInv, Fresh
    <3>2. ToServer' = ToServer
      BY <3>1 DEF ToServer
    <3>3. ObservedIsSent'
      BY <3>1 DEF ObservedIsSent, Elems
    <3>4. SentIsObserved'
      BY <3>1, <3>2 DEF AgreementInv, SentIsObserved
    <3>5. QED
      BY <3>3, <3>4 DEF AgreementInv
  <2>21. CASE StartFails
    BY <2>21, NothingObserved DEF StartFails, ToServer
  <2>22. CASE Decide
    BY <2>22, NothingObserved DEF Decide, ToServer
  <2>23. CASE CloseStdin
    BY <2>23, NothingObserved DEF CloseStdin, ToServer
  <2>24. CASE StdinClosed
    BY <2>24, NothingObserved DEF StdinClosed, ToServer
  <2>25. CASE ForwardSignal
    BY <2>25, NothingObserved DEF ForwardSignal, ToServer
  <2>26. CASE TimeoutKills
    BY <2>26, NothingObserved DEF TimeoutKills, ToServer
  <2>27. CASE ShutdownReturns
    BY <2>27, NothingObserved DEF ShutdownReturns, ToServer
  <2>28. CASE CancelC2S
    BY <2>28, NothingObserved DEF CancelC2S, ToServer
  <2>29. CASE CancelS2C
    BY <2>29, NothingObserved DEF CancelS2C, ToServer
  <2>30. CASE FlushAndClose
    BY <2>30, NothingObserved DEF FlushAndClose, ToServer
  <2>31. CASE UNCHANGED vars
    BY <2>31, NothingObserved DEF vars, ToServer
  <2>32. QED
    BY <2>1, <2>2, <2>3, <2>4, <2>5, <2>6, <2>7, <2>8, <2>9, <2>10, <2>11,
       <2>12, <2>13, <2>14, <2>15, <2>16, <2>17, <2>18, <2>19, <2>20, <2>21,
       <2>22, <2>23, <2>24, <2>25, <2>26, <2>27, <2>28, <2>29, <2>30, <2>31
       DEF Next, Client, Server, C2SPump, S2CPump, Recorder, Main
<1>3. QED
  BY <1>1, <1>2, TypeCorrect, StreamCorrect, PTL DEF Spec

\* Cancelling the pumps and flushing leave nothing behind: when the recorder is
\* closed every JSON line that was forwarded is a record or was lost, and every
\* message on record was forwarded.
THEOREM AgreesCorrect == Spec => []TranscriptAgrees
<1>1. TypeOK /\ RecordingInv /\ AgreementInv => ForwardedIsRecorded
  <2> SUFFICES ASSUME TypeOK, RecordingInv, AgreementInv, phase = "closed",
                      NEW d \in Direction
               PROVE  LET out == IF d = "s2c" THEN toClient ELSE toServer \o pipe IN
                      \A i \in 1..Len(out) : out[i].kind = "rpc" =>
                        \E n \in Records(file) \cup lost :
                          observed[n] = [dir |-> d, k |-> out[i].k, kind |-> "rpc"]
    BY DEF ForwardedIsRecorded
  <2> DEFINE out == IF d = "s2c" THEN toClient ELSE toServer \o pipe
  <2>1. \A line \in Elems(out) : line.kind = "rpc" => Entry(d, line) \in Elems(observed)
    <3>1. CASE d = "s2c"
      BY <3>1 DEF AgreementInv, SentIsObserved
    <3>2. CASE d = "c2s"
      <4>1. Elems(toServer \o pipe) \subseteq ToServer
        BY ConcatElems DEF TypeOK, ToServer
      <4>2. QED
        BY <3>2, <4>1 DEF AgreementInv, SentIsObserved
    <3>3. QED
      BY <3>1, <3>2 DEF Direction
  <2>2. 1..Len(observed) \subseteq Records(file) \cup lost
    BY DEF RecordingInv, OrderedRecords, PumpsOver, Records
  <2>3. ASSUME NEW i \in 1..Len(out), out[i].kind = "rpc"
        PROVE  \E n \in Records(file) \cup lost :
                 observed[n] = [dir |-> d, k |-> out[i].k, kind |-> "rpc"]
    <3>1. out[i] \in Elems(out)
      BY DEF Elems
    <3>2. Entry(d, out[i]) \in Elems(observed)
      BY <2>1, <2>3, <3>1
    <3>3. PICK n \in 1..Len(observed) : observed[n] = Entry(d, out[i])
      BY <3>2 DEF Elems
    <3>4. QED
      BY <2>2, <2>3, <3>3 DEF Entry
  <2>4. QED
    BY <2>3
<1>2. TypeOK /\ AgreementInv => RecordedWasForwarded
  <2> SUFFICES ASSUME TypeOK, AgreementInv, NEW n \in 1..Len(observed)
               PROVE  LET m == observed[n]
                          sent == IF m.dir = "s2c" THEN toClient
                                  ELSE toServer \o pipe \o wbuf IN
                      \/ [k |-> m.k, kind |-> m.kind] \in {sent[i] : i \in 1..Len(sent)}
                      \/ (m.dir = "s2c" /\ clientGone)
                      \/ (m.dir = "c2s" /\ stdin # "open")
    BY DEF RecordedWasForwarded
  <2> DEFINE m == observed[n]
             sent == IF m.dir = "s2c" THEN toClient ELSE toServer \o pipe \o wbuf
  <2>1. m \in Elems(observed)
    BY DEF Elems
  <2>2. ToServer \subseteq Elems(toServer \o pipe \o wbuf)
    <3>1. /\ toServer \o pipe \in Seq(Line)
          /\ Elems(toServer) \cup Elems(pipe) \subseteq Elems(toServer \o pipe)
      BY ConcatElems DEF TypeOK
    <3>2. Elems(toServer \o pipe) \cup Elems(wbuf) \subseteq Elems((toServer \o pipe) \o wbuf)
      BY <3>1, ConcatElems DEF TypeOK
    <3>3. QED
      BY <3>1, <3>2 DEF ToServer
  <2>3. ASSUME NEW line \in ToServer \cup Elems(toClient)
        PROVE  line \in Line
    <3>1. ASSUME NEW s \in Seq(Line)
          PROVE  Elems(s) \subseteq Line
      BY DEF Elems
    <3>2. QED
      BY <2>3, <3>1 DEF ToServer, TypeOK
  <2>4. ASSUME NEW dir, NEW line \in Line, m = Entry(dir, line)
        PROVE  line = [k |-> m.k, kind |-> m.kind]
    BY <2>4 DEF Entry, Line
  <2>5. CASE m.dir = "c2s" /\ stdin = "open"
    <3>1. PICK line \in ToServer : m = Entry("c2s", line)
      BY <2>1, <2>5 DEF AgreementInv, ObservedIsSent
    <3>2. [k |-> m.k, kind |-> m.kind] \in Elems(sent)
      BY <2>2, <2>3, <2>4, <2>5, <3>1
    <3>3. QED
      BY <3>2 DEF Elems
  <2>6. CASE m.dir = "s2c" /\ ~clientGone
    <3>1. PICK line \in Elems(toClient) : m = Entry("s2c", line)
      BY <2>1, <2>6 DEF AgreementInv, ObservedIsSent
    <3>2. [k |-> m.k, kind |-> m.kind] \in Elems(sent)
      BY <2>3, <2>4, <2>6, <3>1
    <3>3. QED
      BY <3>2 DEF Elems
  <2>7. m.dir \in {"c2s", "s2c"}
    BY <2>1 DEF AgreementInv, ObservedIsSent
  <2>8. QED
    BY <2>5, <2>6, <2>7
<1>3. QED
  BY <1>1, <1>2, TypeCorrect, RecordingCorrect, AgreementCorrect, PTL DEF TranscriptAgrees
=============================================================================
