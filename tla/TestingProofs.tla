---------------------------- MODULE TestingProofs ----------------------------
(* Theorems about the two ways to run recordings as tests.                   *)
(*                                                                           *)
(* Cassette: for every tape, and for every order in which a client writes,   *)
(* what a playback keeps of the recording.                                   *)
(*                                                                           *)
(* Suite: for every tree of directories and manifests, whatever a replay     *)
(* finds or raises, what the exit code and the counts say of the verdicts.   *)
EXTENDS Cassette, Suite, SequenceLemmas, FiniteSetTheorems

Kind == {"request", "note", "answer"}
Entry == [dir : {"c2s", "s2c"}, op : Nat, kind : Kind, id : Nat, to : Nat]

(* ------------------------------- the tape ------------------------------ *)

TapeType ==
  /\ tape \in Seq(Entry) /\ mode \in {"record", "replay"}
  /\ IsFiniteSet(Positions("c2s")) /\ pending \subseteq Nat

\* The messages of the client are numbered in their order; the id of a request
\* is its number, a notification has none, and an answer follows a request of
\* the server with its id.
ClientTape ==
  /\ \A p \in Positions("c2s") :
       /\ tape[p].op \in 1..Ops
       /\ tape[p].kind = "request" => tape[p].id = tape[p].op
       /\ tape[p].kind = "note" => tape[p].id = NoId
       /\ tape[p].kind = "answer" => \E r \in Positions("s2c") :
            r < p /\ tape[r].kind = "request" /\ tape[r].id = tape[p].id
  /\ \A p, q \in Positions("c2s") : p < q => tape[p].op < tape[q].op
  /\ \A n \in 1..Ops : \E p \in Positions("c2s") : tape[p].op = n

\* An answer of the server follows its request, and there is one for each.
ServerTape ==
  /\ \A q \in Positions("s2c") : tape[q].kind = "answer" =>
       /\ tape[q].to = tape[q].id
       /\ \E p \in Positions("c2s") :
            p < q /\ tape[p].kind = "request" /\ tape[p].op = tape[q].id
  /\ \A q \in Positions("s2c") : tape[q].kind = "note" => tape[q].id = NoId
  /\ \A q, r \in Positions("s2c") :
       tape[q].kind = "answer" /\ tape[r].kind = "answer" /\ tape[q].id = tape[r].id => q = r

\* What the live server still has to answer, and what the client has been asked.
Unanswered ==
  /\ \A n \in pending :
       /\ \E p \in Positions("c2s") : tape[p].kind = "request" /\ tape[p].op = n
       /\ \A q \in Positions("s2c") : tape[q].kind = "answer" => tape[q].id # n
  /\ mode = "record" => \A i \in toAnswer :
       \E r \in Positions("s2c") : tape[r].kind = "request" /\ tape[r].id = i

TapeInv == TapeType /\ ClientTape /\ ServerTape /\ Unanswered

(* ------------------------------ the playback --------------------------- *)

Given == [pos : Nat, op : Nat]

\* Before the playback there is nothing of it. Nothing is passed over before the
\* client has written for it, one message for each it writes, and what is
\* delivered is all there was up to the cursor.
PlayInv ==
  /\ mode = "record" =>
       /\ consumed = {} /\ mapped = <<>> /\ ~waiting /\ cursor = 1
       /\ delivered = <<>> /\ written = <<>>
  /\ cursor \in 1..(Len(tape) + 1)
  /\ delivered \in Seq(Given) /\ written \in Seq(Nat)
  /\ \A q \in DOMAIN mapped : mapped[q] \in Nat
  /\ IsFiniteSet(consumed) /\ Cardinality(consumed) <= Len(written)
  /\ \A p \in Positions("c2s") : p < cursor => p \in consumed
  /\ \A i, j \in 1..Len(delivered) : i < j => delivered[i].pos < delivered[j].pos
  /\ {d.pos : d \in Elems(delivered)} = {p \in Positions("s2c") : p < cursor}

\* The reader waits for the client at a message that needs it.
WaitInv ==
  waiting => /\ cursor <= Len(tape)
             /\ IF AtC2S THEN cursor \notin consumed
                         ELSE tape[cursor].id # NoId /\ cursor \notin DOMAIN mapped

\* A client that keeps the recorded order consumes its own messages, and each
\* has mapped the answer that start() has paired with it.
PairInv ==
  InOrder =>
    /\ consumed = {p \in Positions("c2s") : tape[p].op <= Len(written)}
    /\ Len(written) <= Ops
    /\ \A q \in DOMAIN mapped : mapped[q] \in 1..Len(written)
    /\ \A n \in 1..Len(written), q \in DOMAIN mapped : mapped[q] = n =>
         tape[OpAt(n)].id # NoId /\ q # 0 /\ q = Paired(OpAt(n))
    /\ \A n \in 1..Len(written) : tape[OpAt(n)].id # NoId =>
         Paired(OpAt(n)) \in DOMAIN mapped \cup {0}

ReplayInv == PlayInv /\ WaitInv /\ PairInv

-----------------------------------------------------------------------------
(* Recording.                                                               *)

\* One more message on the tape.
LEMMA TapeAppend ==
  ASSUME TapeType, NEW e \in Entry, tape' = Append(tape, e)
  PROVE  /\ tape' \in Seq(Entry) /\ Len(tape) \in Nat /\ Len(tape') = Len(tape) + 1
         /\ tape'[Len(tape) + 1] = e
         /\ \A i \in 1..Len(tape) : tape'[i] = tape[i]
         /\ \A d \in {"c2s", "s2c"} : Positions(d) \subseteq 1..Len(tape)
         /\ \A d \in {"c2s", "s2c"} : Positions(d)' =
              IF e.dir = d THEN Positions(d) \cup {Len(tape) + 1} ELSE Positions(d)
<1>1. /\ tape' \in Seq(Entry) /\ Len(tape) \in Nat /\ Len(tape') = Len(tape) + 1
      /\ tape'[Len(tape) + 1] = e /\ \A i \in 1..Len(tape) : tape'[i] = tape[i]
      /\ DOMAIN tape = 1..Len(tape) /\ DOMAIN tape' = 1..(Len(tape) + 1)
  BY DEF TapeType
<1>2. 1..(Len(tape) + 1) = 1..Len(tape) \cup {Len(tape) + 1}
      /\ Len(tape) + 1 \notin 1..Len(tape)
  BY <1>1
<1>3. ASSUME NEW d \in {"c2s", "s2c"}
      PROVE  Positions(d)' =
               IF e.dir = d THEN Positions(d) \cup {Len(tape) + 1} ELSE Positions(d)
  BY <1>1, <1>2 DEF Positions
<1>4. QED
  BY <1>1, <1>3 DEF Positions

\* A message of the client: a request, a notification, or the answer to a request
\* of the server that is on the tape.
LEMMA WriteTape ==
  ASSUME TapeInv, NEW kind \in Kind, NEW id \in Nat,
         tape' = Append(tape, C2S(Ops + 1, kind, id)), mode = "record",
         kind = "request" => id = Ops + 1, kind = "note" => id = NoId,
         kind = "answer" => id \in toAnswer,
         UNCHANGED <<mode, toAnswer>>,
         pending' \in {pending, IF kind = "request" THEN pending \cup {Ops + 1} ELSE pending}
  PROVE  TapeInv'
<1> DEFINE e == C2S(Ops + 1, kind, id)
           new == Len(tape) + 1
<1>1. TapeType /\ Ops \in Nat
  BY FS_CardinalityType DEF TapeInv, TapeType, Ops
<1>2. e \in Entry /\ e.dir = "c2s" /\ e.op = Ops + 1 /\ e.kind = kind /\ e.id = id
  BY <1>1 DEF C2S, Entry, Kind, NoOp
<1> HIDE DEF e
<1>3. tape' = Append(tape, e)
  BY DEF e
<1>4. /\ tape' \in Seq(Entry) /\ Len(tape) \in Nat /\ tape'[new] = e
      /\ \A i \in 1..Len(tape) : tape'[i] = tape[i]
      /\ Positions("c2s") \subseteq 1..Len(tape) /\ Positions("s2c") \subseteq 1..Len(tape)
      /\ Positions("c2s")' = Positions("c2s") \cup {new}
      /\ Positions("s2c")' = Positions("s2c")
  BY <1>1, <1>2, <1>3, TapeAppend
<1>5. new \notin Positions("c2s") /\ \A i \in 1..Len(tape) : i < new
  BY <1>4
<1>6. IsFiniteSet(Positions("c2s")') /\ Ops' = Ops + 1
  BY <1>1, <1>4, <1>5, FS_AddElement DEF TapeType, Ops
<1>7. TapeType'
  BY <1>1, <1>4, <1>6 DEF TapeType
<1>8. ClientTape'
  <2>1. ASSUME NEW p \in Positions("c2s")'
        PROVE  /\ tape'[p].op \in 1..Ops'
               /\ tape'[p].kind = "request" => tape'[p].id = tape'[p].op
               /\ tape'[p].kind = "note" => tape'[p].id = NoId
               /\ tape'[p].kind = "answer" => \E r \in Positions("s2c")' :
                    r < p /\ tape'[r].kind = "request" /\ tape'[r].id = tape'[p].id
    <3>1. CASE p = new
      BY <1>1, <1>2, <1>4, <1>5, <1>6, <3>1 DEF TapeInv, Unanswered
    <3>2. CASE p # new
      BY <1>1, <1>4, <1>6, <3>2 DEF TapeInv, ClientTape
    <3>3. QED
      BY <3>1, <3>2
  <2>2. ASSUME NEW p \in Positions("c2s")', NEW q \in Positions("c2s")', p < q
        PROVE  tape'[p].op < tape'[q].op
    <3>1. p # new /\ p \in Positions("c2s") /\ tape'[p] = tape[p] /\ tape[p].op \in 1..Ops
      BY <1>4, <1>5, <2>2 DEF TapeInv, ClientTape
    <3>2. CASE q = new
      BY <1>1, <1>2, <1>4, <3>1, <3>2
    <3>3. CASE q # new
      BY <1>4, <2>2, <3>1, <3>3 DEF TapeInv, ClientTape
    <3>4. QED
      BY <3>2, <3>3
  <2>3. ASSUME NEW n \in 1..Ops'
        PROVE  \E p \in Positions("c2s")' : tape'[p].op = n
    <3>1. CASE n = Ops + 1
      BY <1>2, <1>4, <3>1
    <3>2. CASE n # Ops + 1
      BY <1>1, <1>4, <1>6, <3>2 DEF TapeInv, ClientTape
    <3>3. QED
      BY <3>1, <3>2
  <2>4. QED
    BY <2>1, <2>2, <2>3 DEF ClientTape
<1>9. ServerTape'
  BY <1>4 DEF TapeInv, ServerTape
<1>10. Unanswered'
  <2>1. ASSUME NEW n \in pending'
        PROVE  /\ \E p \in Positions("c2s")' : tape'[p].kind = "request" /\ tape'[p].op = n
               /\ \A q \in Positions("s2c")' : tape'[q].kind = "answer" => tape'[q].id # n
    <3>1. CASE n \in pending
      BY <1>4, <3>1 DEF TapeInv, Unanswered
    <3>2. CASE n = Ops + 1 /\ kind = "request"
      <4>1. ASSUME NEW q \in Positions("s2c"), tape[q].kind = "answer"
            PROVE  tape[q].id # Ops + 1
        <5>1. PICK p \in Positions("c2s") : tape[p].op = tape[q].id
          BY <4>1 DEF TapeInv, ServerTape
        <5>2. tape[p].op \in 1..Ops
          BY DEF TapeInv, ClientTape
        <5>3. QED
          BY <1>1, <5>1, <5>2
      <4>2. QED
        BY <1>2, <1>4, <3>2, <4>1
    <3>3. QED
      BY <3>1, <3>2
  <2>2. QED
    BY <1>4, <2>1 DEF TapeInv, Unanswered
<1>11. QED
  BY <1>7, <1>8, <1>9, <1>10 DEF TapeInv

\* A message of the server: the answer to a request that has none, a notification
\* or a request of its own.
LEMMA ReadTape ==
  ASSUME TapeInv, NEW kind \in Kind, NEW id \in Nat, NEW to \in Nat,
         tape' = Append(tape, S2C(kind, id, to)), mode' = mode,
         kind = "answer" => id \in pending /\ to = id /\ pending' = pending \ {id},
         kind # "answer" => pending' = pending,
         kind = "note" => id = NoId,
         mode = "record" =>
           toAnswer' = IF kind = "request" THEN toAnswer \cup {id} ELSE toAnswer
  PROVE  TapeInv'
<1> DEFINE e == S2C(kind, id, to)
           new == Len(tape) + 1
<1>1. TapeType
  BY DEF TapeInv
<1>2. /\ e \in Entry /\ e.dir = "s2c" /\ e.kind = kind /\ e.id = id /\ e.to = to
  BY DEF S2C, Entry, Kind, NoOp
<1> HIDE DEF e
<1>3. tape' = Append(tape, e)
  BY DEF e
<1>4. /\ tape' \in Seq(Entry) /\ Len(tape) \in Nat /\ tape'[new] = e
      /\ \A i \in 1..Len(tape) : tape'[i] = tape[i]
      /\ Positions("c2s") \subseteq 1..Len(tape) /\ Positions("s2c") \subseteq 1..Len(tape)
      /\ Positions("s2c")' = Positions("s2c") \cup {new}
      /\ Positions("c2s")' = Positions("c2s")
  BY <1>1, <1>2, <1>3, TapeAppend
<1>5. new \notin Positions("s2c") /\ \A i \in 1..Len(tape) : i < new
  BY <1>4
<1>6. TapeType' /\ Ops' = Ops
  BY <1>1, <1>4 DEF TapeType, Ops
<1>7. ClientTape'
  BY <1>4, <1>6 DEF TapeInv, ClientTape
<1>8. ServerTape'
  <2>1. ASSUME NEW q \in Positions("s2c")'
        PROVE  /\ tape'[q].kind = "note" => tape'[q].id = NoId
               /\ tape'[q].kind = "answer" =>
                    /\ tape'[q].to = tape'[q].id
                    /\ \E p \in Positions("c2s")' :
                         p < q /\ tape'[p].kind = "request" /\ tape'[p].op = tape'[q].id
    <3>1. CASE q = new
      BY <1>2, <1>4, <1>5, <3>1 DEF TapeInv, Unanswered
    <3>2. CASE q # new
      BY <1>4, <3>2 DEF TapeInv, ServerTape
    <3>3. QED
      BY <3>1, <3>2
  <2>2. ASSUME NEW q \in Positions("s2c")', NEW r \in Positions("s2c")',
               tape'[q].kind = "answer", tape'[r].kind = "answer",
               tape'[q].id = tape'[r].id
        PROVE  q = r
    <3>1. CASE q # new /\ r # new
      BY <1>4, <2>2, <3>1 DEF TapeInv, ServerTape
    <3>2. ASSUME NEW x \in Positions("s2c"), tape[x].kind = "answer", kind = "answer"
          PROVE  tape[x].id # id
      BY <3>2 DEF TapeInv, Unanswered
    <3>3. QED
      BY <1>2, <1>4, <2>2, <3>1, <3>2
  <2>3. QED
    BY <2>1, <2>2 DEF ServerTape
<1>9. Unanswered'
  <2>1. ASSUME NEW n \in pending'
        PROVE  /\ \E p \in Positions("c2s")' : tape'[p].kind = "request" /\ tape'[p].op = n
               /\ \A q \in Positions("s2c")' : tape'[q].kind = "answer" => tape'[q].id # n
    <3>1. n \in pending /\ (kind = "answer" => n # id)
      BY DEF Kind
    <3>2. QED
      BY <1>2, <1>4, <3>1 DEF TapeInv, Unanswered
  <2>2. ASSUME mode' = "record", NEW i \in toAnswer'
        PROVE  \E r \in Positions("s2c")' : tape'[r].kind = "request" /\ tape'[r].id = i
    <3>1. CASE i \in toAnswer
      BY <1>4, <2>2, <3>1 DEF TapeInv, Unanswered
    <3>2. CASE i \notin toAnswer
      BY <1>2, <1>4, <2>2, <3>2
    <3>3. QED
      BY <3>1, <3>2
  <2>3. QED
    BY <2>1, <2>2 DEF Unanswered
<1>10. QED
  BY <1>6, <1>7, <1>8, <1>9 DEF TapeInv

\* The tape is what a recording can leave.
LEMMA TapeCorrect == Spec => []TapeInv
<1>1. Init => TapeInv
  BY FS_EmptySet
     DEF Init, TapeInv, TapeType, ClientTape, ServerTape, Unanswered, Positions, Ops
<1>2. TapeInv /\ [Next]_vars => TapeInv'
  <2> SUFFICES ASSUME TapeInv, [Next]_vars
               PROVE  TapeInv'
    OBVIOUS
  <2>1. ASSUME tape' = tape, pending' = pending, mode' \in {mode, "replay"},
               mode' = "record" => toAnswer' = toAnswer
        PROVE  TapeInv'
    BY <2>1 DEF TapeInv, TapeType, ClientTape, ServerTape, Unanswered, Positions, Ops
  <2>2. CASE RecordWrite
    <3>1. PICK kind \in Kind :
            /\ kind = "answer" => toAnswer \ Answered # {}
            /\ tape' = Append(tape, C2S(Ops + 1, kind,
                         CASE kind = "request" -> Ops + 1
                           [] kind = "note" -> NoId
                           [] OTHER -> CHOOSE i \in toAnswer \ Answered : TRUE))
            /\ pending' \in {pending, IF kind = "request" THEN pending \cup {Ops + 1}
                                                          ELSE pending}
      BY <2>2 DEF RecordWrite, Kind
    <3>2. mode = "record" /\ UNCHANGED <<mode, toAnswer>>
      BY <2>2 DEF RecordWrite
    <3>3. Ops + 1 \in Nat /\ NoId \in Nat
      BY FS_CardinalityType DEF TapeInv, TapeType, Ops, NoId
    <3>4. CASE kind = "request"
      BY <3>1, <3>2, <3>3, <3>4, WriteTape
    <3>5. CASE kind = "note"
      BY <3>1, <3>2, <3>3, <3>5, WriteTape
    <3>6. CASE kind = "answer"
      <4>1. PICK i \in toAnswer : tape' = Append(tape, C2S(Ops + 1, kind, i))
        BY <3>1, <3>6
      <4>2. i \in Nat
        <5>1. PICK r \in Positions("s2c") : tape[r].id = i
          BY <3>2 DEF TapeInv, Unanswered
        <5>2. tape \in Seq(Entry) /\ r \in DOMAIN tape
          BY DEF TapeInv, TapeType, Positions
        <5>3. tape[r] \in Entry
          BY <5>2
        <5>4. QED
          BY <5>1, <5>3 DEF Entry
      <4>3. QED
        BY <3>1, <3>2, <3>6, <4>1, <4>2, WriteTape
    <3>7. QED
      BY <3>4, <3>5, <3>6 DEF Kind
  <2>3. CASE RecordRead
    <3>1. CASE \E n \in pending :
                 /\ tape' = Append(tape, S2C("answer", n, n))
                 /\ pending' = pending \ {n} /\ UNCHANGED toAnswer
      BY <2>3, <3>1, ReadTape DEF RecordRead, TapeInv, TapeType, Kind
    <3>2. CASE tape' = Append(tape, S2C("note", NoId, NoOp)) /\ UNCHANGED <<toAnswer, pending>>
      BY <2>3, <3>2, ReadTape DEF RecordRead, NoId, NoOp, Kind
    <3>3. CASE \E i \in RequestIds \ toAnswer :
                 /\ tape' = Append(tape, S2C("request", i, NoOp))
                 /\ toAnswer' = toAnswer \cup {i} /\ UNCHANGED pending
      BY <2>3, <3>3, CassetteAssumption, ReadTape
         DEF CassetteAssumption, RecordRead, NoOp, Kind
    <3>4. QED
      BY <2>3, <3>1, <3>2, <3>3 DEF RecordRead
  <2>4. CASE StopRecording
    BY <2>1, <2>4 DEF StopRecording, recordVars
  <2>5. ASSUME NEW n \in 1..Ops, Write(n)
        PROVE  TapeInv'
    BY <2>1, <2>5 DEF Write, recordVars
  <2>6. CASE PassConsumed
    BY <2>1, <2>6 DEF PassConsumed, recordVars
  <2>7. CASE Deliver
    BY <2>1, <2>7 DEF Deliver, Reading, recordVars
  <2>8. CASE Wait
    BY <2>1, <2>8 DEF Wait, recordVars
  <2>9. CASE UNCHANGED vars
    BY <2>1, <2>9 DEF vars, recordVars
  <2>10. QED
    BY <2>2, <2>3, <2>4, <2>5, <2>6, <2>7, <2>8, <2>9 DEF Next, Client, Reader
<1>3. QED
  BY <1>1, <1>2, PTL DEF Spec

-----------------------------------------------------------------------------
(* Playing back: which answer start() pairs with a message of the client.   *)

\* The position of an operation.
LEMMA OpPosition ==
  ASSUME TapeInv
  PROVE  /\ \A n \in 1..Ops : OpAt(n) \in Positions("c2s") /\ tape[OpAt(n)].op = n
         /\ \A p \in Positions("c2s") : OpAt(tape[p].op) = p /\ tape[p].op \in 1..Ops
<1>1. \A p, q \in Positions("c2s") : tape[p].op = tape[q].op => p = q
  <2> SUFFICES ASSUME NEW p \in Positions("c2s"), NEW q \in Positions("c2s"),
                      tape[p].op = tape[q].op, p # q
               PROVE  FALSE
    OBVIOUS
  <2>1. p \in Nat /\ q \in Nat /\ tape[p].op \in Nat
    BY DEF TapeInv, TapeType, ClientTape, Positions
  <2>2. p < q \/ q < p
    BY <2>1
  <2>3. QED
    BY <2>1, <2>2 DEF TapeInv, ClientTape
<1>2. ASSUME NEW n \in 1..Ops
      PROVE  OpAt(n) \in Positions("c2s") /\ tape[OpAt(n)].op = n
  BY DEF TapeInv, ClientTape, OpAt
<1>3. ASSUME NEW p \in Positions("c2s")
      PROVE  OpAt(tape[p].op) = p /\ tape[p].op \in 1..Ops
  <2>1. tape[p].op \in 1..Ops
    BY DEF TapeInv, ClientTape
  <2>2. QED
    BY <1>1, <1>2, <2>1
<1>4. QED
  BY <1>2, <1>3

\* Before the server has asked anything, an answer is the only message of the
\* server with its id.
LEMMA OnlyAnswer ==
  ASSUME TapeInv, NEW q \in Positions("s2c"), tape[q].kind = "answer", ~ServerAsked(q),
         tape[q].id # NoId
  PROVE  Alike(q, "s2c") = {q} /\ Cardinality(Alike(q, "s2c")) = 1
<1>1. q \in Nat /\ q \in Alike(q, "s2c")
  BY DEF TapeInv, TapeType, Positions, Alike
<1>2. ASSUME NEW r \in Alike(q, "s2c")
      PROVE  r = q
  <2>1. /\ r \in Positions("s2c") /\ r <= q /\ tape[r].id = tape[q].id
        /\ r \in 1..q /\ tape[r].dir = "s2c" /\ tape[r].kind \in Kind
    <3>1. tape \in Seq(Entry) /\ r \in DOMAIN tape
      BY DEF TapeInv, TapeType, Positions, Alike
    <3>2. tape[r] \in Entry /\ r \in Nat \ {0}
      BY <3>1
    <3>3. QED
      BY <1>1, <3>2 DEF Positions, Alike, Entry
  <2>2. tape[r].kind # "request"
    BY <2>1 DEF ServerAsked
  <2>3. tape[r].kind # "note"
    BY <2>1 DEF TapeInv, ServerTape
  <2>4. QED
    BY <2>1, <2>2, <2>3 DEF TapeInv, ServerTape, Kind
<1>3. Alike(q, "s2c") = {q}
  BY <1>1, <1>2
<1>4. QED
  BY <1>3, FS_Singleton

\* An answer that comes before any request of the server is paired with the
\* request it answers.
LEMMA AnswerPaired ==
  ASSUME TapeInv, NEW q \in Positions("s2c"), tape[q].kind = "answer", ~ServerAsked(q),
         tape[q].id # NoId
  PROVE  LET p == OpAt(tape[q].id) IN
         /\ tape[q].id \in 1..Ops /\ p \in Positions("c2s") /\ p < q
         /\ tape[p].kind = "request" /\ tape[p].id = tape[q].id
         /\ Paired(p) = q
<1>1. PICK p \in Positions("c2s") :
        p < q /\ tape[p].kind = "request" /\ tape[p].op = tape[q].id
  BY DEF TapeInv, ServerTape
<1>2. OpAt(tape[q].id) = p /\ tape[q].id \in 1..Ops /\ tape[p].id = tape[q].id
  BY <1>1, OpPosition DEF TapeInv, ClientTape
<1>3. p \in Nat /\ q \in Nat
  BY DEF TapeInv, TapeType, Positions
<1>4. ASSUME NEW x \in Alike(p, "c2s")
      PROVE  x = p
  <2>1. /\ x \in Positions("c2s") /\ x <= p /\ tape[x].id = tape[p].id
        /\ x \in Nat /\ tape[x].kind \in Kind
    <3>1. tape \in Seq(Entry) /\ x \in DOMAIN tape
      BY DEF TapeInv, TapeType, Positions, Alike
    <3>2. tape[x] \in Entry /\ x \in Nat
      BY <3>1
    <3>3. QED
      BY <3>2 DEF Alike, Entry
  <2>2. CASE tape[x].kind = "request"
    <3>1. tape[x].op = tape[p].op
      BY <1>1, <1>2, <2>1, <2>2 DEF TapeInv, ClientTape
    <3>2. OpAt(tape[x].op) = x /\ OpAt(tape[p].op) = p
      BY <2>1, OpPosition
    <3>3. QED
      BY <3>1, <3>2
  <2>3. CASE tape[x].kind = "note"
    BY <1>2, <2>1, <2>3 DEF TapeInv, ClientTape
  <2>4. CASE tape[x].kind = "answer"
    <3>1. PICK r \in Positions("s2c") : r < x /\ tape[r].kind = "request"
      BY <2>1, <2>4 DEF TapeInv, ClientTape
    <3>2. r \in 1..q /\ tape[r].dir = "s2c"
      BY <1>1, <1>3, <2>1, <3>1 DEF TapeInv, TapeType, Positions
    <3>3. QED
      BY <3>1, <3>2 DEF ServerAsked
  <2>5. QED
    BY <2>1, <2>2, <2>3, <2>4 DEF Kind
<1>5. Alike(p, "c2s") = {p} /\ Cardinality(Alike(p, "c2s")) = 1
  <2>1. p \in Alike(p, "c2s")
    BY <1>3 DEF Alike
  <2>2. Alike(p, "c2s") = {p}
    BY <1>4, <2>1
  <2>3. QED
    BY <2>2, FS_Singleton
<1>6. Alike(q, "s2c") = {q} /\ Cardinality(Alike(q, "s2c")) = 1
  BY <1>2, OnlyAnswer
<1> DEFINE hit == Hits(p)
<1>7. q \in hit
  BY <1>2, <1>5, <1>6 DEF Hits
<1>8. ASSUME NEW y \in hit
      PROVE  y = q
  <2>1. /\ y \in Positions("s2c") /\ tape[y].id = tape[p].id /\ y \in Nat
        /\ y \in Alike(y, "s2c") /\ Cardinality(Alike(y, "s2c")) = 1
    BY <1>5 DEF Hits, Alike, TapeInv, TapeType, Positions
  <2>2. CASE y <= q
    BY <1>2, <1>6, <2>1, <2>2 DEF Alike
  <2>3. CASE q < y
    <3>1. q \in Alike(y, "s2c")
      BY <1>2, <1>3, <2>1, <2>3 DEF Alike
    <3>2. IsFiniteSet(Alike(y, "s2c"))
      <4>1. Positions("s2c") \subseteq Nat \ {0}
        BY DEF TapeInv, TapeType, Positions
      <4>2. Alike(y, "s2c") \subseteq 1..y
        BY <2>1, <4>1 DEF Alike
      <4>3. IsFiniteSet(1..y)
        BY <2>1, FS_Interval
      <4>4. QED
        BY <4>2, <4>3, FS_Subset
    <3>3. PICK z : Alike(y, "s2c") = {z}
      BY <2>1, <3>2, FS_Singleton
    <3>4. QED
      BY <2>1, <3>1, <3>3
  <2>4. QED
    BY <1>3, <2>1, <2>2, <2>3
<1>9. Paired(p) = q
  <2>1. Paired(p) = IF hit = {} THEN 0 ELSE CHOOSE y \in hit : TRUE
    BY <1>2 DEF Paired
  <2>2. hit # {}
    BY <1>7
  <2>3. (CHOOSE y \in hit : TRUE) \in hit
    BY <2>2
  <2>4. QED
    BY <1>8, <2>1, <2>2, <2>3
<1>10. QED
  BY <1>1, <1>2, <1>9

\* What is paired with a message of the client has its id; if it comes before any
\* request of the server and is an answer, it is the answer to that message.
LEMMA PairedAnswer ==
  ASSUME TapeInv, NEW p \in Positions("c2s"), Paired(p) # 0
  PROVE  LET q == Paired(p) IN
         /\ q \in Positions("s2c") /\ tape[p].id # NoId /\ tape[q].id = tape[p].id
         /\ tape[q].kind = "answer" /\ ~ServerAsked(q) => tape[q].to = tape[p].op
<1> DEFINE q == Paired(p)
           hit == Hits(p)
<1>1. tape[p].id # NoId
  BY DEF Paired
<1>2. q = IF hit = {} THEN 0 ELSE CHOOSE y \in hit : TRUE
  BY <1>1 DEF Paired
<1>3. hit # {} /\ q \in hit
  <2>1. hit # {}
    BY <1>2
  <2>2. (CHOOSE y \in hit : TRUE) \in hit
    BY <2>1
  <2>3. QED
    BY <1>2, <2>1, <2>2
<1> HIDE DEF q
<1>4. q \in Positions("s2c") /\ tape[q].id = tape[p].id
      /\ Cardinality(Alike(q, "s2c")) = Cardinality(Alike(p, "c2s"))
  BY <1>3 DEF Hits
<1>5. ASSUME tape[q].kind = "answer", ~ServerAsked(q)
      PROVE  tape[q].to = tape[p].op
  <2>1. Cardinality(Alike(p, "c2s")) = 1
    BY <1>1, <1>4, <1>5, OnlyAnswer
  <2>2. Alike(p, "c2s") \subseteq Positions("c2s") /\ p \in Alike(p, "c2s") /\ p \in Nat
    BY DEF Alike, TapeInv, TapeType, Positions
  <2>3. PICK z : Alike(p, "c2s") = {z}
    <3>1. IsFiniteSet(Alike(p, "c2s"))
      BY <2>2, FS_Subset DEF TapeInv, TapeType
    <3>2. QED
      BY <2>1, <3>1, FS_Singleton
  <2>4. tape[q].to = tape[q].id
    BY <1>4, <1>5 DEF TapeInv, ServerTape
  <2>5. CASE tape[p].kind = "request"
    BY <1>4, <2>4, <2>5 DEF TapeInv, ClientTape
  <2>6. CASE tape[p].kind = "answer"
    <3>1. PICK r \in Positions("s2c") : r < p /\ tape[r].kind = "request"
      BY <2>6 DEF TapeInv, ClientTape
    <3>2. PICK x \in Positions("c2s") :
            x < q /\ tape[x].kind = "request" /\ tape[x].op = tape[q].id
      BY <1>4, <1>5 DEF TapeInv, ServerTape
    <3>3. r \in Nat \ {0} /\ x \in Nat /\ q \in Nat /\ tape[r].dir = "s2c"
      BY <1>4 DEF TapeInv, TapeType, Positions
    <3>4. q < r
      BY <1>5, <3>1, <3>3 DEF ServerAsked
    <3>5. x < p /\ tape[x].id = tape[p].id
      BY <1>4, <2>2, <3>1, <3>2, <3>3, <3>4 DEF TapeInv, ClientTape
    <3>6. x \in Alike(p, "c2s")
      BY <2>2, <3>3, <3>5 DEF Alike
    <3>7. QED
      BY <2>2, <2>3, <3>3, <3>5, <3>6
  <2>7. tape[p].kind \in {"request", "answer"}
    <3>1. tape \in Seq(Entry) /\ p \in DOMAIN tape
      BY DEF TapeInv, TapeType, Positions
    <3>2. tape[p] \in Entry
      BY <3>1
    <3>3. QED
      BY <1>1, <3>2 DEF Entry, Kind, TapeInv, ClientTape
  <2>8. QED
    BY <2>5, <2>6, <2>7
<1>6. QED
  BY <1>1, <1>4, <1>5 DEF q

-----------------------------------------------------------------------------
(* The playback.                                                            *)

Rest ==
  /\ consumed = {} /\ mapped = <<>> /\ ~waiting /\ cursor = 1
  /\ delivered = <<>> /\ written = <<>>

\* As it is when a playback begins, whatever the tape.
LEMMA RestHolds == TapeInv /\ Rest => ReplayInv
<1> SUFFICES ASSUME TapeInv, Rest
             PROVE  ReplayInv
  OBVIOUS
<1>1. /\ tape \in Seq(Entry) /\ Len(tape) \in Nat /\ Ops \in Nat
      /\ Positions("c2s") \subseteq Nat \ {0} /\ Positions("s2c") \subseteq Nat \ {0}
  BY FS_CardinalityType DEF TapeInv, TapeType, Positions, Ops
<1>2. PlayInv
  <2>1. IsFiniteSet(consumed) /\ Cardinality(consumed) <= Len(written)
    BY FS_EmptySet DEF Rest
  <2>2. {d.pos : d \in Elems(delivered)} = {p \in Positions("s2c") : p < cursor}
    BY <1>1 DEF Rest, Elems
  <2>3. \A p \in Positions("c2s") : p < cursor => p \in consumed
    BY <1>1 DEF Rest
  <2>4. QED
    BY <1>1, <2>1, <2>2, <2>3 DEF Rest, PlayInv
<1>3. PairInv
  <2>1. consumed = {p \in Positions("c2s") : tape[p].op <= Len(written)}
    BY DEF Rest, TapeInv, ClientTape
  <2>2. QED
    BY <1>1, <2>1 DEF Rest, PairInv
<1>4. QED
  BY <1>2, <1>3 DEF Rest, WaitInv, ReplayInv

\* The pairing is of the tape alone.
LEMMA SamePairing ==
  ASSUME tape' = tape, NEW m
  PROVE  OpAt(m)' = OpAt(m) /\ Paired(m)' = Paired(m) /\ Paired(OpAt(m))' = Paired(OpAt(m))
<1>1. \A d : Positions(d)' = Positions(d)
  BY DEF Positions
<1>2. OpAt(m)' = OpAt(m)
  BY <1>1 DEF OpAt
<1>3. ASSUME NEW p
      PROVE  Paired(p)' = Paired(p)
  <2>1. \A x, d : Alike(x, d)' = Alike(x, d)
    BY <1>1 DEF Alike
  <2>2. Hits(p)' = Hits(p)
    BY <1>1, <2>1 DEF Hits
  <2>3. QED
    BY <2>2 DEF Paired
<1>4. QED
  BY <1>2, <1>3

\* Writing in the recorded order consumes the message itself, which is the first
\* one left, and maps the answer that is paired with it.
LEMMA WritePairs ==
  ASSUME TapeInv, PlayInv, PairInv, NEW n \in 1..Ops, Write(n)
  PROVE  PairInv'
<1> DEFINE unplayed == Positions("c2s") \ consumed
           p == CHOOSE q \in unplayed : \A r \in unplayed : q <= r
           answer == Paired(OpAt(n))
           Mapping(a) == IF tape[OpAt(n)].id # NoId /\ a # 0
                           THEN [q \in DOMAIN mapped \cup {a} |-> IF q = a THEN n ELSE mapped[q]]
                           ELSE mapped
<1>1. SUFFICES ASSUME InOrder'
               PROVE  PairInv'
  BY DEF PairInv
<1>2. /\ tape' = tape /\ written' = Append(written, n) /\ consumed' = consumed \cup {p}
      /\ mapped' = Mapping(Paired(p))
  <2>1. tape' = tape /\ written' = Append(written, n)
    BY DEF Write, recordVars
  <2>2. consumed' = consumed \cup {p}
    BY DEF Write
  <2>3. mapped' = Mapping(Paired(p))
    BY DEF Write
  <2>4. QED
    BY <2>1, <2>2, <2>3
<1> HIDE DEF p, unplayed
<1>3. /\ written \in Seq(Nat) /\ Len(written) \in Nat /\ Len(written') = Len(written) + 1
      /\ written'[Len(written) + 1] = n
      /\ \A i \in 1..Len(written) : written'[i] = written[i]
      /\ DOMAIN written = 1..Len(written) /\ DOMAIN written' = 1..(Len(written) + 1)
  BY <1>2 DEF PlayInv
<1>4. InOrder /\ n = Len(written) + 1
  BY <1>1, <1>3 DEF InOrder
<1>5. Ops \in Nat /\ Ops' = Ops
  BY <1>2, FS_CardinalityType DEF TapeInv, TapeType, Ops, Positions
<1>6. Positions("c2s")' = Positions("c2s")
  BY <1>2 DEF Positions
<1>7. /\ consumed = {x \in Positions("c2s") : tape[x].op <= Len(written)}
      /\ \A q \in DOMAIN mapped : mapped[q] \in 1..Len(written)
      /\ \A m \in 1..Len(written), q \in DOMAIN mapped : mapped[q] = m =>
           tape[OpAt(m)].id # NoId /\ q # 0 /\ q = Paired(OpAt(m))
      /\ \A m \in 1..Len(written) : tape[OpAt(m)].id # NoId =>
           Paired(OpAt(m)) \in DOMAIN mapped \cup {0}
  BY <1>4 DEF PairInv
<1>8. p = OpAt(n)
  <2>1. OpAt(n) \in Positions("c2s") /\ tape[OpAt(n)].op = n
    BY OpPosition
  <2>2. Positions("c2s") \subseteq Nat /\ \A x \in Positions("c2s") : tape[x].op \in Nat
    BY DEF TapeInv, TapeType, ClientTape, Positions
  <2>3. OpAt(n) \in unplayed
    BY <1>3, <1>4, <1>7, <2>1 DEF unplayed
  <2>4. ASSUME NEW r \in unplayed
        PROVE  OpAt(n) <= r
    <3>1. r \in Positions("c2s") /\ tape[r].op >= n
      BY <1>3, <1>4, <1>7, <2>2 DEF unplayed
    <3>2. ~(r < OpAt(n))
      BY <2>1, <2>2, <3>1 DEF TapeInv, ClientTape
    <3>3. QED
      BY <2>1, <2>2, <3>1, <3>2
  <2>5. p \in unplayed /\ \A r \in unplayed : p <= r
    BY <2>3, <2>4 DEF p
  <2>6. QED
    BY <2>1, <2>2, <2>3, <2>4, <2>5 DEF unplayed
<1>9. consumed' = {x \in Positions("c2s")' : tape'[x].op <= Len(written')}
  <2>1. OpAt(n) \in Positions("c2s") /\ tape[OpAt(n)].op = n
        /\ \A x \in Positions("c2s") : tape[x].op \in Nat /\ OpAt(tape[x].op) = x
    BY OpPosition DEF TapeInv, ClientTape
  <2>2. ASSUME NEW x \in Positions("c2s")
        PROVE  tape[x].op <= Len(written) + 1 <=> tape[x].op <= Len(written) \/ x = OpAt(n)
    BY <1>3, <1>4, <2>1
  <2>3. QED
    BY <1>2, <1>3, <1>6, <1>7, <1>8, <2>1, <2>2
<1>10. Len(written') <= Ops'
  BY <1>3, <1>4, <1>5
<1>11. ASSUME NEW m
       PROVE  OpAt(m)' = OpAt(m) /\ Paired(OpAt(m))' = Paired(OpAt(m))
  BY <1>2, SamePairing
<1>12. ASSUME NEW q \in DOMAIN mapped'
       PROVE  \/ q \in DOMAIN mapped /\ mapped'[q] = mapped[q]
              \/ tape[OpAt(n)].id # NoId /\ answer # 0 /\ q = answer /\ mapped'[q] = n
  BY <1>2, <1>8
<1>13. ASSUME NEW q \in DOMAIN mapped'
       PROVE  mapped'[q] \in 1..Len(written')
  BY <1>3, <1>4, <1>7, <1>12
<1>14. ASSUME NEW m \in 1..Len(written'), NEW q \in DOMAIN mapped', mapped'[q] = m
       PROVE  tape[OpAt(m)].id # NoId /\ q # 0 /\ q = Paired(OpAt(m))
  <2>1. CASE q \in DOMAIN mapped /\ mapped'[q] = mapped[q]
    <3>1. m \in 1..Len(written) /\ mapped[q] = m
      BY <1>7, <1>14, <2>1
    <3>2. QED
      BY <1>7, <2>1, <3>1
  <2>2. CASE tape[OpAt(n)].id # NoId /\ answer # 0 /\ q = answer /\ mapped'[q] = n
    BY <1>14, <2>2
  <2>3. QED
    BY <1>12, <2>1, <2>2
<1>15. ASSUME NEW m \in 1..Len(written'), tape[OpAt(m)].id # NoId
       PROVE  Paired(OpAt(m)) \in DOMAIN mapped' \cup {0}
  <2>1. DOMAIN mapped \subseteq DOMAIN mapped'
    BY <1>2
  <2>2. CASE m = n
    BY <1>2, <1>8, <1>15, <2>2
  <2>3. CASE m # n
    <3>1. m \in 1..Len(written)
      BY <1>3, <1>4, <2>3
    <3>2. QED
      BY <1>7, <1>15, <2>1, <3>1
  <2>4. QED
    BY <2>2, <2>3
<1>16. \A m \in 1..Len(written'), q \in DOMAIN mapped' : mapped'[q] = m =>
         tape'[OpAt(m)'].id # NoId /\ q # 0 /\ q = Paired(OpAt(m))'
  BY <1>2, <1>11, <1>14
<1>17. \A m \in 1..Len(written') : tape'[OpAt(m)'].id # NoId =>
         Paired(OpAt(m))' \in DOMAIN mapped' \cup {0}
  BY <1>2, <1>11, <1>15
<1>18. QED
  BY <1>9, <1>10, <1>13, <1>16, <1>17 DEF PairInv

\* Every step keeps what a playback relies on.
LEMMA ReplayStep ==
  ASSUME TapeInv, TapeInv', ReplayInv, [Next]_vars
  PROVE  ReplayInv'
<1>1. (TapeInv /\ Rest => ReplayInv)'
  BY RestHolds, PTL
<1>2. ASSUME mode = "record", UNCHANGED replayVars
      PROVE  ReplayInv'
  BY <1>1, <1>2 DEF replayVars, Rest, ReplayInv, PlayInv
<1>3. /\ tape \in Seq(Entry) /\ Len(tape) \in Nat /\ DOMAIN tape = 1..Len(tape)
      /\ Positions("c2s") \subseteq Nat \ {0} /\ Positions("s2c") \subseteq Nat \ {0}
      /\ cursor \in 1..(Len(tape) + 1) /\ cursor \in Nat
  BY DEF TapeInv, TapeType, Positions, ReplayInv, PlayInv
<1>4. ASSUME tape' = tape
      PROVE  \A d : Positions(d)' = Positions(d)
  BY <1>4 DEF Positions
<1>5. ASSUME tape' = tape, UNCHANGED <<mapped, consumed, written>>
      PROVE  PairInv'
  <2>1. SUFFICES ASSUME InOrder'
                 PROVE  PairInv'
    BY DEF PairInv
  <2>2. InOrder /\ Ops' = Ops /\ Positions("c2s")' = Positions("c2s")
    BY <1>5, <2>1 DEF InOrder, Ops, Positions
  <2>3. ASSUME NEW m
        PROVE  OpAt(m)' = OpAt(m) /\ Paired(OpAt(m))' = Paired(OpAt(m))
    BY <1>5, SamePairing
  <2>4. /\ consumed' = {p \in Positions("c2s")' : tape'[p].op <= Len(written')}
        /\ Len(written') <= Ops' /\ \A q \in DOMAIN mapped' : mapped'[q] \in 1..Len(written')
    BY <1>5, <2>2 DEF ReplayInv, PairInv
  <2>5. \A m \in 1..Len(written'), q \in DOMAIN mapped' : mapped'[q] = m =>
           tape'[OpAt(m)'].id # NoId /\ q # 0 /\ q = Paired(OpAt(m))'
    BY <1>5, <2>2, <2>3 DEF ReplayInv, PairInv
  <2>6. \A m \in 1..Len(written') : tape'[OpAt(m)'].id # NoId =>
           Paired(OpAt(m))' \in DOMAIN mapped' \cup {0}
    BY <1>5, <2>2, <2>3 DEF ReplayInv, PairInv
  <2>7. QED
    BY <2>4, <2>5, <2>6 DEF PairInv
<1>6. CASE RecordWrite
  BY <1>2, <1>6 DEF RecordWrite
<1>7. CASE RecordRead
  BY <1>2, <1>7 DEF RecordRead
<1>8. CASE StopRecording
  BY <1>2, <1>8 DEF StopRecording
<1>9. ASSUME NEW n \in 1..Ops, Write(n)
      PROVE  ReplayInv'
  <2>1. PairInv'
    BY <1>9, WritePairs DEF ReplayInv
  <2>2. PICK p : consumed' = consumed \cup {p}
    BY <1>9 DEF Write
  <2>3. /\ tape' = tape /\ mode = "replay" /\ mode' = mode /\ waiting' = FALSE
        /\ written' = Append(written, n) /\ cursor' = cursor /\ delivered' = delivered
    BY <1>9 DEF Write, recordVars
  <2>4. written' \in Seq(Nat) /\ Len(written') = Len(written) + 1 /\ Len(written) \in Nat
    <3>1. n \in Nat /\ written \in Seq(Nat)
      BY DEF ReplayInv, PlayInv
    <3>2. QED
      BY <2>3, <3>1
  <2>5. IsFiniteSet(consumed') /\ Cardinality(consumed') <= Len(written')
    <3>1. IsFiniteSet(consumed) /\ Cardinality(consumed) <= Len(written)
          /\ Cardinality(consumed) \in Nat
      BY FS_CardinalityType DEF ReplayInv, PlayInv
    <3>2. IsFiniteSet(consumed') /\ (\/ Cardinality(consumed') = Cardinality(consumed)
                                     \/ Cardinality(consumed') = Cardinality(consumed) + 1)
      BY <2>2, <3>1, FS_AddElement
    <3>3. QED
      BY <2>4, <3>1, <3>2
  <2>6. \A q \in DOMAIN mapped' : mapped'[q] \in Nat
    <3> DEFINE unplayed == Positions("c2s") \ consumed
               a == Paired(CHOOSE q \in unplayed : \A r \in unplayed : q <= r)
    <3>1. mapped' = IF tape[OpAt(n)].id # NoId /\ a # 0
                      THEN [q \in DOMAIN mapped \cup {a} |-> IF q = a THEN n ELSE mapped[q]]
                      ELSE mapped
      BY <1>9 DEF Write
    <3> HIDE DEF a
    <3>2. \A q \in DOMAIN mapped' :
            mapped'[q] = n \/ (q \in DOMAIN mapped /\ mapped'[q] = mapped[q])
      BY <3>1
    <3>3. QED
      BY <3>2 DEF ReplayInv, PlayInv
  <2>7. PlayInv'
    BY <1>4, <2>2, <2>3, <2>4, <2>5, <2>6 DEF ReplayInv, PlayInv, Elems
  <2>8. QED
    BY <2>1, <2>3, <2>7 DEF ReplayInv, WaitInv
<1>10. CASE PassConsumed
  <2>1. /\ tape' = tape /\ mode = "replay" /\ mode' = mode /\ ~waiting /\ waiting' = waiting
        /\ cursor <= Len(tape) /\ tape[cursor].dir = "c2s" /\ cursor \in consumed
        /\ cursor' = cursor + 1
        /\ UNCHANGED <<mapped, consumed, written, delivered>>
    BY <1>10 DEF PassConsumed, Reading, AtC2S, recordVars
  <2>2. /\ cursor' \in 1..(Len(tape) + 1)
        /\ \A p \in Positions("c2s") : p < cursor' => p < cursor \/ p = cursor
        /\ \A p \in Positions("s2c") : p < cursor' <=> p < cursor
    BY <1>3, <2>1 DEF Positions
  <2>3. {p \in Positions("s2c") : p < cursor'} = {p \in Positions("s2c") : p < cursor}
    BY <2>2
  <2>4. PlayInv'
    BY <1>4, <2>1, <2>2, <2>3 DEF ReplayInv, PlayInv, Elems
  <2>5. QED
    BY <1>5, <2>1, <2>4 DEF ReplayInv, WaitInv
<1>11. CASE Deliver
  <2> DEFINE d == [pos |-> cursor,
                   op |-> IF tape[cursor].id = NoId THEN NoOp ELSE mapped[cursor]]
  <2>1. /\ tape' = tape /\ mode = "replay" /\ mode' = mode /\ ~waiting /\ waiting' = waiting
        /\ cursor <= Len(tape) /\ tape[cursor].dir # "c2s" /\ cursor' = cursor + 1
        /\ UNCHANGED <<mapped, consumed, written>>
        /\ tape[cursor].id = NoId \/ cursor \in DOMAIN mapped
        /\ delivered' = Append(delivered, d)
    BY <1>11 DEF Deliver, Reading, AtC2S, recordVars
  <2>2. d \in Given /\ d.pos = cursor
    BY <1>3, <2>1 DEF Given, NoOp, ReplayInv, PlayInv
  <2> HIDE DEF d
  <2>3. cursor \in Positions("s2c") /\ cursor \notin Positions("c2s")
    <3>1. cursor \in DOMAIN tape /\ tape[cursor] \in Entry
      BY <1>3, <2>1
    <3>2. QED
      BY <2>1, <3>1 DEF Entry, Positions
  <2>4. /\ delivered \in Seq(Given) /\ delivered' \in Seq(Given)
        /\ Len(delivered) \in Nat /\ Len(delivered') = Len(delivered) + 1
        /\ delivered'[Len(delivered) + 1] = d
        /\ \A i \in 1..Len(delivered) : delivered'[i] = delivered[i]
    BY <2>1, <2>2 DEF ReplayInv, PlayInv
  <2>5. {e.pos : e \in Elems(delivered)} = {p \in Positions("s2c") : p < cursor}
    BY DEF ReplayInv, PlayInv
  <2>6. {e.pos : e \in Elems(delivered')} = {p \in Positions("s2c") : p < cursor'}
    <3>1. Elems(delivered') = Elems(delivered) \cup {d}
      BY <2>1, <2>2, <2>4, AppendElems
    <3>2. {p \in Positions("s2c") : p < cursor'}
            = {p \in Positions("s2c") : p < cursor} \cup {cursor}
      BY <1>3, <2>1, <2>3
    <3>3. QED
      BY <2>2, <2>5, <3>1, <3>2
  <2>7. ASSUME NEW i \in 1..Len(delivered'), NEW j \in 1..Len(delivered'), i < j
        PROVE  delivered'[i].pos < delivered'[j].pos
    <3>1. i \in 1..Len(delivered) /\ delivered'[i] = delivered[i]
      BY <2>4, <2>7
    <3>2. CASE j = Len(delivered) + 1
      <4>1. delivered[i].pos \in {e.pos : e \in Elems(delivered)}
        BY <3>1 DEF Elems
      <4>2. QED
        BY <2>2, <2>4, <2>5, <3>1, <3>2, <4>1
    <3>3. CASE j # Len(delivered) + 1
      <4>1. j \in 1..Len(delivered) /\ delivered'[j] = delivered[j]
        BY <2>4, <3>3
      <4>2. QED
        BY <2>7, <3>1, <4>1 DEF ReplayInv, PlayInv
    <3>4. QED
      BY <3>2, <3>3
  <2>8. /\ cursor' \in 1..(Len(tape) + 1)
        /\ \A p \in Positions("c2s") : p < cursor' => p < cursor
    BY <1>3, <2>1, <2>3
  <2>9. PlayInv'
    BY <1>4, <2>1, <2>4, <2>6, <2>7, <2>8 DEF ReplayInv, PlayInv
  <2>10. QED
    BY <1>5, <2>1, <2>9 DEF ReplayInv, WaitInv
<1>12. CASE Wait
  <2>1. /\ tape' = tape /\ mode' = mode /\ cursor <= Len(tape) /\ cursor' = cursor
        /\ UNCHANGED <<mapped, consumed, written, delivered>> /\ mode = "replay"
        /\ IF AtC2S THEN cursor \notin consumed
                    ELSE tape[cursor].id # NoId /\ cursor \notin DOMAIN mapped
    BY <1>12 DEF Wait, Reading, recordVars
  <2>2. WaitInv'
    BY <2>1 DEF WaitInv, AtC2S
  <2>3. PlayInv'
    BY <1>4, <2>1 DEF ReplayInv, PlayInv, Elems
  <2>4. QED
    BY <1>5, <2>1, <2>2, <2>3 DEF ReplayInv
<1>13. CASE UNCHANGED vars
  <2>1. UNCHANGED <<mode, tape, mapped, consumed, written, delivered, cursor, waiting>>
    BY <1>13 DEF vars, recordVars, replayVars
  <2>2. PlayInv' /\ WaitInv'
    BY <1>4, <2>1 DEF ReplayInv, PlayInv, WaitInv, AtC2S, Elems
  <2>3. QED
    BY <1>5, <2>1, <2>2 DEF ReplayInv
<1>14. QED
  BY <1>6, <1>7, <1>8, <1>9, <1>10, <1>11, <1>12, <1>13 DEF Next, Client, Reader

\* So a playback always relies on it.
LEMMA ReplayCorrect == Spec => [](TapeInv /\ ReplayInv)
<1>1. Init => Rest
  BY DEF Init, Rest
<1>2. Init /\ TapeInv => ReplayInv
  BY <1>1, RestHolds
<1>3. TapeInv /\ TapeInv' /\ ReplayInv /\ [Next]_vars => ReplayInv'
  BY ReplayStep
<1>4. QED
  BY <1>2, <1>3, TapeCorrect, PTL DEF Spec

-----------------------------------------------------------------------------
(* What the playback keeps.                                                  *)

\* Every message of the server is delivered once, in the recorded order, and none
\* before the client has written as many messages as preceded it.
THEOREM PlayedCorrect == Spec => []PlayedAsRecorded
<1>1. TapeInv /\ ReplayInv => PlayedAsRecorded
  <2> SUFFICES ASSUME TapeInv, ReplayInv
               PROVE  PlayedAsRecorded
    OBVIOUS
  <2>1. /\ DOMAIN delivered = 1..Len(delivered) /\ ToSet(delivered) = Elems(delivered)
        /\ Positions("c2s") \subseteq Nat /\ Positions("s2c") \subseteq Nat /\ cursor \in Nat
        /\ Len(written) \in Nat
    BY DEF ReplayInv, PlayInv, ToSet, Elems, TapeInv, TapeType, Positions
  <2>2. ASSUME NEW d \in Elems(delivered)
        PROVE  Cardinality({p \in Positions("c2s") : p < d.pos}) <= Len(written)
    <3> DEFINE before == {p \in Positions("c2s") : p < d.pos}
    <3>1. d.pos \in Nat /\ d.pos < cursor
      BY <2>1 DEF ReplayInv, PlayInv
    <3>2. before \subseteq consumed
      BY <2>1, <3>1 DEF ReplayInv, PlayInv
    <3>3. /\ IsFiniteSet(consumed) /\ Cardinality(consumed) <= Len(written)
          /\ Cardinality(consumed) \in Nat
      BY FS_CardinalityType DEF ReplayInv, PlayInv
    <3> HIDE DEF before
    <3>4. /\ IsFiniteSet(before) /\ Cardinality(before) \in Nat
          /\ Cardinality(before) <= Cardinality(consumed)
      BY <3>2, <3>3, FS_Subset, FS_CardinalityType
    <3>5. Cardinality(before) <= Len(written)
      BY <2>1, <3>3, <3>4
    <3>6. QED
      BY <3>5 DEF before
  <2>3. QED
    BY <2>1, <2>2 DEF PlayedAsRecorded, ReplayInv, PlayInv
<1>2. QED
  BY <1>1, ReplayCorrect, PTL

\* The same of the elements of what is delivered.
Owned ==
  InOrder => \A d \in Elems(delivered) :
    d.op = NoOp \/ tape[d.pos].to = d.op \/ ServerAsked(d.pos)

\* A client that keeps the recorded order gets its own answers, as long as the
\* server has asked nothing before.
THEOREM OwnAnswersCorrect == Spec => []OwnAnswers
<1>1. Init => Owned
  BY DEF Init, Owned, Elems
<1>2. TapeInv /\ ReplayInv /\ Owned /\ [Next]_vars => Owned'
  <2> SUFFICES ASSUME TapeInv, ReplayInv, Owned, [Next]_vars
               PROVE  Owned'
    OBVIOUS
  <2>1. ASSUME mode = "record", UNCHANGED replayVars
        PROVE  Owned'
    BY <2>1 DEF ReplayInv, PlayInv, replayVars, Owned, Elems
  <2>2. CASE RecordWrite
    BY <2>1, <2>2 DEF RecordWrite
  <2>3. CASE RecordRead
    BY <2>1, <2>3 DEF RecordRead
  <2>4. CASE StopRecording
    BY <2>1, <2>4 DEF StopRecording
  <2>5. ASSUME NEW n \in 1..Ops, Write(n)
        PROVE  Owned'
    <3>1. tape' = tape /\ delivered' = delivered /\ written' = Append(written, n)
      BY <2>5 DEF Write, recordVars
    <3>2. InOrder' => InOrder
      <4>1. n \in Nat /\ written \in Seq(Nat)
        BY DEF ReplayInv, PlayInv
      <4>2. QED
        BY <3>1, <4>1 DEF InOrder
    <3>3. QED
      BY <3>1, <3>2 DEF Owned, ServerAsked, Elems
  <2>6. CASE Deliver
    <3> DEFINE d == [pos |-> cursor,
                     op |-> IF tape[cursor].id = NoId THEN NoOp ELSE mapped[cursor]]
    <3>1. /\ tape' = tape /\ written' = written /\ cursor <= Len(tape)
          /\ tape[cursor].dir # "c2s" /\ delivered' = Append(delivered, d)
          /\ tape[cursor].id = NoId \/ cursor \in DOMAIN mapped
      BY <2>6 DEF Deliver, Reading, AtC2S, recordVars
    <3>2. d \in Given /\ delivered \in Seq(Given)
      BY <3>1 DEF Given, NoOp, ReplayInv, PlayInv
    <3>3. Elems(delivered') = Elems(delivered) \cup {d}
      BY <3>1, <3>2, AppendElems
    <3>4. ASSUME InOrder, tape[cursor].id # NoId
          PROVE  tape[cursor].to = mapped[cursor] \/ ServerAsked(cursor)
      <4>1. cursor \in DOMAIN tape /\ tape[cursor] \in Entry /\ cursor \in Nat \ {0}
        BY <3>1 DEF ReplayInv, PlayInv, TapeInv, TapeType
      <4>2. cursor \in Positions("s2c") /\ tape[cursor].kind # "note"
        BY <3>1, <3>4, <4>1 DEF Positions, Entry, TapeInv, ServerTape
      <4>3. CASE tape[cursor].kind = "request"
        BY <4>1, <4>2, <4>3 DEF ServerAsked, Positions
      <4>4. CASE tape[cursor].kind = "answer" /\ ~ServerAsked(cursor)
        <5>1. PICK m \in 1..Len(written) : mapped[cursor] = m
          BY <3>1, <3>4 DEF ReplayInv, PairInv
        <5>2. cursor # 0 /\ cursor = Paired(OpAt(m))
          BY <3>1, <3>4, <5>1 DEF ReplayInv, PairInv
        <5>3. m \in 1..Ops
          <6>1. Len(written) <= Ops /\ Len(written) \in Nat /\ Ops \in Nat
            BY <3>4, FS_CardinalityType DEF ReplayInv, PlayInv, PairInv, TapeInv, TapeType, Ops
          <6>2. QED
            BY <6>1
        <5>4. OpAt(m) \in Positions("c2s") /\ tape[OpAt(m)].op = m
          BY <5>3, OpPosition
        <5>5. QED
          BY <4>4, <5>1, <5>2, <5>4, PairedAnswer
      <4>5. QED
        BY <4>1, <4>2, <4>3, <4>4 DEF Entry, Kind
    <3>5. InOrder' => InOrder
      BY <3>1 DEF InOrder
    <3>6. QED
      BY <3>1, <3>3, <3>4, <3>5 DEF Owned, ServerAsked
  <2>7. CASE PassConsumed
    BY <2>7 DEF PassConsumed, recordVars, Owned, InOrder, ServerAsked, Elems
  <2>8. CASE Wait
    BY <2>8 DEF Wait, recordVars, Owned, InOrder, ServerAsked, Elems
  <2>9. CASE UNCHANGED vars
    BY <2>9 DEF vars, recordVars, replayVars, Owned, InOrder, ServerAsked, Elems
  <2>10. QED
    BY <2>2, <2>3, <2>4, <2>5, <2>6, <2>7, <2>8, <2>9 DEF Next, Client, Reader
<1>3. ReplayInv /\ Owned => OwnAnswers
  BY DEF ReplayInv, PlayInv, Owned, OwnAnswers, ToSet, Elems
<1>4. QED
  BY <1>1, <1>2, <1>3, ReplayCorrect, PTL DEF Spec

\* What the server has asked and the playback has passed, the client can answer.
AskedInv ==
  mode = "replay" => \A q \in Positions("s2c") :
    q < cursor /\ tape[q].kind = "request" => tape[q].id \in toAnswer

LEMMA AskedCorrect == Spec => []AskedInv
<1>1. Init => AskedInv
  BY DEF Init, AskedInv
<1>2. TapeInv /\ ReplayInv /\ AskedInv /\ [Next]_vars => AskedInv'
  <2> SUFFICES ASSUME TapeInv, ReplayInv, AskedInv, [Next]_vars
               PROVE  AskedInv'
    OBVIOUS
  <2>1. CASE RecordWrite \/ RecordRead
    BY <2>1 DEF RecordWrite, RecordRead, AskedInv
  <2>2. CASE StopRecording
    <3>1. cursor' = 1 /\ Positions("s2c")' \subseteq Nat \ {0}
      BY <2>2 DEF StopRecording, replayVars, recordVars, ReplayInv, PlayInv, TapeInv, TapeType,
         Positions
    <3>2. QED
      BY <3>1 DEF AskedInv
  <2>3. ASSUME NEW n \in 1..Ops, Write(n)
        PROVE  AskedInv'
    BY <2>3 DEF Write, AskedInv, Positions, recordVars
  <2>4. CASE PassConsumed
    <3>1. /\ mode = "replay" /\ tape' = tape /\ toAnswer' = toAnswer /\ cursor' = cursor + 1
          /\ tape[cursor].dir = "c2s" /\ cursor \in Nat /\ Positions("s2c") \subseteq Nat
      BY <2>4 DEF PassConsumed, Reading, AtC2S, recordVars, ReplayInv, PlayInv, TapeInv, TapeType,
         Positions
    <3>2. \A q \in Positions("s2c") : q < cursor + 1 => q < cursor
      BY <3>1 DEF Positions
    <3>3. QED
      BY <3>1, <3>2 DEF AskedInv, Positions
  <2>5. CASE Deliver
    <3>1. /\ mode = "replay" /\ tape' = tape /\ cursor' = cursor + 1
          /\ toAnswer' = IF tape[cursor].kind = "request" THEN toAnswer \cup {tape[cursor].id}
                                                         ELSE toAnswer
          /\ cursor \in Nat /\ Positions("s2c") \subseteq Nat
      BY <2>5 DEF Deliver, Reading, recordVars, ReplayInv, PlayInv, TapeInv, TapeType, Positions
    <3>2. \A q \in Positions("s2c") : q < cursor + 1 => q < cursor \/ q = cursor
      BY <3>1
    <3>3. QED
      BY <3>1, <3>2 DEF AskedInv, Positions
  <2>6. CASE Wait
    BY <2>6 DEF Wait, AskedInv, Positions, recordVars
  <2>7. CASE UNCHANGED vars
    BY <2>7 DEF vars, recordVars, replayVars, AskedInv, Positions
  <2>8. QED
    BY <2>1, <2>2, <2>3, <2>4, <2>5, <2>6, <2>7 DEF Next, Client, Reader
<1>3. QED
  BY <1>1, <1>2, ReplayCorrect, PTL DEF Spec

\* A playback stalls for one of the reasons given, and for no other.
THEOREM StallCorrect == Spec => []StallReasons
<1>1. TapeInv /\ ReplayInv /\ AskedInv => StallReasons
  <2> SUFFICES ASSUME TapeInv, ReplayInv, AskedInv, Stalled, InOrder,
                      ~(~AtC2S /\ ServerAsked(cursor)), ~(AtC2S /\ style = "sequential")
               PROVE  FALSE
    BY DEF StallReasons
  <2>1. /\ waiting /\ \A n \in 1..Ops : ~MayWrite(n)
        /\ cursor <= Len(tape) /\ cursor \in Nat \ {0} /\ tape \in Seq(Entry)
    BY DEF Stalled, ReplayInv, PlayInv, WaitInv, TapeInv, TapeType
  <2>2. cursor \in DOMAIN tape /\ tape[cursor] \in Entry
    BY <2>1
  <2>3. /\ consumed = {p \in Positions("c2s") : tape[p].op <= Len(written)}
        /\ \A n \in 1..Len(written) : tape[OpAt(n)].id # NoId =>
             Paired(OpAt(n)) \in DOMAIN mapped \cup {0}
        /\ Len(written) \in Nat /\ DOMAIN written = 1..Len(written)
        /\ \A i \in 1..Len(written) : written[i] = i
    BY DEF ReplayInv, PlayInv, PairInv, InOrder
  <2>4. CASE AtC2S
    <3>1. cursor \in Positions("c2s") /\ cursor \notin consumed
      BY <2>1, <2>2, <2>4 DEF AtC2S, Positions, ReplayInv, WaitInv
    <3>2. tape[cursor].op \in 1..Ops /\ OpAt(tape[cursor].op) = cursor
      BY <3>1, OpPosition
    <3>3. tape[cursor].op \notin ToSet(written)
      <4>1. ~(tape[cursor].op <= Len(written))
        BY <2>3, <3>1
      <4>2. QED
        BY <2>3, <3>2, <4>1 DEF ToSet
    <3>4. ASSUME tape[cursor].kind = "answer"
          PROVE  tape[cursor].id \in toAnswer
      <4>1. PICK r \in Positions("s2c") :
              r < cursor /\ tape[r].kind = "request" /\ tape[r].id = tape[cursor].id
        BY <3>1, <3>4 DEF TapeInv, ClientTape
      <4>2. mode = "replay"
        BY <2>1 DEF ReplayInv, PlayInv, TapeInv, TapeType
      <4>3. QED
        BY <4>1, <4>2 DEF AskedInv
    <3>5. MayWrite(tape[cursor].op)
      BY <2>4, <3>2, <3>3, <3>4 DEF MayWrite
    <3>6. QED
      BY <2>1, <3>2, <3>5
  <2>5. CASE ~AtC2S
    <3>1. cursor \in Positions("s2c") /\ tape[cursor].id # NoId /\ cursor \notin DOMAIN mapped
      BY <2>1, <2>2, <2>5 DEF AtC2S, Positions, Entry, ReplayInv, WaitInv
    <3>2. tape[cursor].kind # "note"
      BY <3>1 DEF TapeInv, ServerTape
    <3>3. ~ServerAsked(cursor) /\ tape[cursor].kind # "request"
      BY <2>1, <2>5, <3>1 DEF ServerAsked, Positions
    <3>4. tape[cursor].kind = "answer"
      BY <2>2, <3>2, <3>3 DEF Entry, Kind
    <3>5. PICK p \in Positions("c2s") :
            p = OpAt(tape[cursor].id) /\ p < cursor /\ Paired(p) = cursor
            /\ tape[p].id = tape[cursor].id
      BY <3>1, <3>3, <3>4, AnswerPaired
    <3>6. p \in consumed
      BY <3>5 DEF ReplayInv, PlayInv
    <3>7. tape[p].op \in 1..Len(written) /\ OpAt(tape[p].op) = p
      <4>1. tape[p].op \in 1..Ops /\ OpAt(tape[p].op) = p
        BY OpPosition
      <4>2. tape[p].op <= Len(written)
        BY <2>3, <3>6
      <4>3. QED
        BY <2>3, <4>1, <4>2
    <3>8. QED
      BY <2>1, <2>3, <3>1, <3>5, <3>7
  <2>6. QED
    BY <2>4, <2>5
<1>2. QED
  BY <1>1, ReplayCorrect, AskedCorrect, PTL

------------------------------------------------------------------------------
(* Suite                                                                    *)

TreeType ==
  /\ named \in [Dirs -> Names \cup {NoSuite, Invalid}] /\ children \subseteq Dirs
  /\ top \in Seq(Entries) /\ all \in BOOLEAN

(* --------------------------- the runner ------------------------------- *)

Running == pc \in {"next", "replay", "judge", "report"}
Upto == IF pc \in {"next", "report"} THEN pos ELSE pos - 1
Same(d, n) == <<d, n>> \in DOMAIN verdicts /\ verdicts[<<d, n>>] = "same"

SuiteType ==
  /\ pc \in {"list", "start", "next", "replay", "judge", "report", "done"}
  /\ passed \in Nat /\ failed \in Nat /\ results \in Nat /\ raised \in BOOLEAN
  /\ totals \in [passed : Nat, failed : Nat, suites : Nat]
  /\ pos \in Nat /\ IsFiniteSet(DOMAIN verdicts)

\* What is left are suites that were found, in different directories.
LeftInv ==
  /\ left \subseteq Found /\ \A m, o \in left : m.dir = o.dir => m = o
  /\ all => left \subseteq Discovered
  /\ left = {} <=> pc \in {"list", "done"}

\* A transcript has a verdict when its suite is over, or it was taken up before.
VerdictInv ==
  /\ pc = "list" => DOMAIN verdicts = {} /\ totals = [passed |-> 0, failed |-> 0, suites |-> 0]
  /\ Running => pos <= Total /\ (pc # "next" => pos >= 1)
  /\ \A m \in left : \A n \in 1..Transcripts[m.dir] : <<m.dir, n>> \in DOMAIN verdicts =>
       Running /\ m = Suite /\ n <= Upto

\* The counts, those of the suite that runs included.
Sames == {c \in DOMAIN verdicts : verdicts[c] = "same"}
Others == DOMAIN verdicts \ Sames
SoFar(n) == IF Running THEN n ELSE 0
CountInv ==
  /\ results = passed + failed
  /\ totals.passed + SoFar(passed) <= Cardinality(Sames)
  /\ ~raised => /\ totals.passed + SoFar(passed) = Cardinality(Sames)
                /\ totals.failed + SoFar(failed) = Cardinality(Others)

\* As long as no suite has failed, the answers were the recorded ones.
HonestInv ==
  /\ replay = "known" => pc = "judge"
  /\ (totals.suites = 0 /\ pc # "list") =>
       /\ all => \A m \in Discovered \ left : \A n \in 1..Transcripts[m.dir] : Same(m.dir, n)
       /\ (~all /\ left = {}) => \E m \in Found : \A n \in 1..Transcripts[m.dir] : Same(m.dir, n)
       /\ (Running /\ failed = 0) => \A n \in 1..Upto : Same(Suite.dir, n)

SuiteInv == TreeType /\ SuiteType /\ LeftInv /\ VerdictInv /\ CountInv /\ HonestInv

(* ------------------------- the suites found ---------------------------- *)

Kept == {i \in Listed : /\ \A j \in Listed : named[top[j].dir] = named[top[i].dir] => j <= i
                        /\ \A d \in Scanned : named[d] # named[top[i].dir]}
Scan == {d \in Scanned : \A e \in Scanned : named[e] = named[d] => e <= d}

LEMMA Directories ==
  ASSUME TreeType
  PROVE  /\ Len(top) \in Nat /\ Listed \subseteq 1..Len(top) /\ Listed \subseteq Read
         /\ \A i \in Read : i \in Nat /\ top[i].dir \in Dirs /\ top[i].hint \in BOOLEAN
         /\ \A i \in Read : top[i] = [dir |-> top[i].dir, hint |-> top[i].hint]
         /\ \A i \in Listed : Valid(top[i].dir)
         /\ Scanned \subseteq children /\ Scanned \subseteq Nat /\ IsFiniteSet(Scanned)
         /\ \A d \in Scanned : Valid(d)
         /\ \A d \in Dirs : Valid(d) => named[d] \in Nat
<1>1. Len(top) \in Nat /\ DOMAIN top = 1..Len(top) /\ \A i \in 1..Len(top) : top[i] \in Entries
  BY DEF TreeType
<1>2. \A i \in Read : /\ i \in 1..Len(top) /\ i \in Nat /\ top[i].hint \in BOOLEAN
                       /\ top[i].dir \in Dirs
                       /\ top[i] = [dir |-> top[i].dir, hint |-> top[i].hint]
  <2>1. SUFFICES ASSUME NEW i \in Read
                 PROVE  /\ i \in 1..Len(top) /\ i \in Nat /\ top[i].hint \in BOOLEAN
                        /\ top[i].dir \in Dirs
                        /\ top[i] = [dir |-> top[i].dir, hint |-> top[i].hint]
    OBVIOUS
  <2>2. i \in 1..Len(top) /\ i \in Nat /\ \A j \in 1..i : top[j].dir # Broken
    BY <1>1 DEF Read
  <2>3. top[i] \in Entries /\ top[i].dir # Broken
    BY <1>1, <2>2
  <2>4. QED
    BY <2>2, <2>3 DEF Entries
<1>3. Scanned \subseteq children /\ children \subseteq Dirs /\ Dirs \subseteq Nat /\ IsFiniteSet(Dirs)
  BY SuiteAssumption DEF Scanned, TreeType
<1>4. IsFiniteSet(Scanned)
  BY <1>3, FS_Subset
<1>5. QED
  BY <1>1, <1>2, <1>3, <1>4, SuiteAssumption DEF Listed, Read, Scanned, Valid

LEMMA DiscoveredIs ==
  Discovered = {Manifest(top[i].dir, top[i].hint) : i \in Kept} \cup {Manifest(d, FALSE) : d \in Scan}
BY DEF Discovered, Kept, Scan

LEMMA FoundTyped ==
  ASSUME TreeType, NEW m \in Found
  PROVE  m.dir \in Dirs /\ Valid(m.dir) /\ m.name = named[m.dir] /\ m.name \in Nat
<1>1. \A i \in Kept : i \in Listed /\ top[i].dir \in Dirs /\ Valid(top[i].dir)
  BY Directories DEF Kept
<1>2. \A d \in Scan : d \in Scanned /\ d \in Dirs /\ Valid(d)
  BY Directories DEF Scan, TreeType
<1>3. \E d \in Dirs, h \in BOOLEAN : Valid(d) /\ m = Manifest(d, h)
  <2>1. CASE m \in Discovered
    <3>1. CASE \E i \in Kept : m = Manifest(top[i].dir, top[i].hint)
      BY <3>1, <1>1, Directories
    <3>2. CASE \E d \in Scan : m = Manifest(d, FALSE)
      BY <3>2, <1>2
    <3>3. QED
      BY <2>1, <3>1, <3>2, DiscoveredIs
  <2>2. CASE \E d \in children : Valid(d) /\ m = Manifest(d, FALSE)
    BY <2>2 DEF TreeType
  <2>3. QED
    BY <2>1, <2>2 DEF Found
<1>4. PICK d \in Dirs, h \in BOOLEAN : Valid(d) /\ m = Manifest(d, h)
  BY <1>3
<1>5. m.dir = d /\ m.name = named[d]
  BY <1>4 DEF Manifest
<1>6. QED
  BY <1>4, <1>5, Directories

LEMMA DiscoveredAs ==
  ASSUME NEW m \in Discovered
  PROVE  \/ \E i \in Kept : m.dir = top[i].dir /\ m = Manifest(top[i].dir, top[i].hint)
         \/ m.dir \in Scan /\ m = Manifest(m.dir, FALSE)
<1>1. CASE \E i \in Kept : m = Manifest(top[i].dir, top[i].hint)
  <2>1. PICK i \in Kept : m = Manifest(top[i].dir, top[i].hint)
    BY <1>1
  <2>2. m.dir = top[i].dir
    BY <2>1 DEF Manifest
  <2>3. QED
    BY <2>1, <2>2
<1>2. CASE \E d \in Scan : m = Manifest(d, FALSE)
  <2>1. PICK d \in Scan : m = Manifest(d, FALSE)
    BY <1>2
  <2>2. m.dir = d
    BY <2>1 DEF Manifest
  <2>3. QED
    BY <2>1, <2>2
<1>3. QED
  BY <1>1, <1>2, DiscoveredIs

\* A directory is not loaded under two hints in the end.
LEMMA OnePerDirectory ==
  ASSUME TreeType, NEW m \in Discovered, NEW o \in Discovered, m.dir = o.dir
  PROVE  m = o
<1>1. \A i \in Kept, j \in Kept : top[i].dir = top[j].dir => i = j
  <2>1. SUFFICES ASSUME NEW i \in Kept, NEW j \in Kept, top[i].dir = top[j].dir
                 PROVE  i = j
    OBVIOUS
  <2>2. i \in Listed /\ j \in Listed /\ i <= j /\ j <= i
    BY <2>1 DEF Kept
  <2>3. QED
    BY <2>2, Directories
<1>2. \A i \in Kept, d \in Scan : top[i].dir # d
  BY DEF Kept, Scan
<1>3. CASE m.dir \in Scan /\ m = Manifest(m.dir, FALSE)
  BY <1>2, <1>3, DiscoveredAs
<1>4. CASE \E i \in Kept : m.dir = top[i].dir /\ m = Manifest(top[i].dir, top[i].hint)
  <2>1. PICK i \in Kept : m.dir = top[i].dir /\ m = Manifest(top[i].dir, top[i].hint)
    BY <1>4
  <2>2. PICK j \in Kept : o.dir = top[j].dir /\ o = Manifest(top[j].dir, top[j].hint)
    <3>1. o.dir \notin Scan
      BY <1>2, <2>1
    <3>2. QED
      BY <3>1, DiscoveredAs
  <2>3. i = j
    BY <1>1, <2>1, <2>2
  <2>4. QED
    BY <2>1, <2>2, <2>3
<1>5. QED
  BY <1>3, <1>4, DiscoveredAs

LEMMA SuiteIs ==
  ASSUME TreeType, left # {}, left \subseteq Found
  PROVE  Suite \in left
<1> DEFINE N == {m.name : m \in left}
<1>1. N \in SUBSET Nat /\ N # {}
  BY FoundTyped
<1>2. PICK n \in N : \A m \in N : n <= m
  BY <1>1, LeastElement
<1>3. QED
  BY <1>2 DEF Suite

\* What the properties say of the manifest is what is read of it.
LEMMA HeededIs ==
  ASSUME TreeType
  PROVE  Heeded = Read
<1>1. Len(top) \in Nat /\ DOMAIN top = 1..Len(top)
  BY DEF TreeType
<1>2. QED
  BY <1>1 DEF Heeded, Read

\* The scan leaves out a suite only for one of its name.
LEMMA NamesFound ==
  ASSUME TreeType
  PROVE  {m.name : m \in Discovered} = {named[d] : d \in Reachable}
<1>0. \A d, h : Manifest(d, h).name = named[d] /\ Manifest(d, h).dir = d
  BY DEF Manifest
<1>1. ASSUME NEW m \in Discovered
      PROVE  m.name \in {named[d] : d \in Reachable}
  <2>1. CASE \E i \in Kept : m = Manifest(top[i].dir, top[i].hint)
    <3>1. PICK i \in Kept : m = Manifest(top[i].dir, top[i].hint)
      BY <2>1
    <3>2. i \in Read /\ Valid(top[i].dir)
      BY Directories DEF Kept
    <3>3. top[i].dir \in Reachable
      BY <3>2, HeededIs DEF Reachable
    <3>4. QED
      BY <3>1, <3>3, <1>0
  <2>2. CASE \E d \in Scan : m = Manifest(d, FALSE)
    <3>1. PICK d \in Scan : m = Manifest(d, FALSE)
      BY <2>2
    <3>2. d \in children /\ Valid(d)
      BY Directories DEF Scan
    <3>3. d \in Reachable
      BY <3>2 DEF Reachable
    <3>4. QED
      BY <3>1, <3>3, <1>0
  <2>3. QED
    BY <2>1, <2>2, DiscoveredIs
<1>2. ASSUME NEW d \in Reachable
      PROVE  \E m \in Discovered : m.name = named[d]
  <2>1. CASE \E e \in Scanned : named[e] = named[d]
    <3> DEFINE T == {e \in Scanned : named[e] = named[d]}
    <3>1. T \subseteq Nat /\ IsFiniteSet(T) /\ T # {}
      BY <2>1, Directories, FS_Subset
    <3>2. PICK e \in T : \A f \in T : f <= e
      BY <3>1, GreatestElement
    <3>3. e \in Scan /\ named[e] = named[d]
      BY <3>2 DEF Scan
    <3>4. Manifest(e, FALSE) \in Discovered
      BY <3>3, DiscoveredIs
    <3>5. QED
      BY <3>3, <3>4, <1>0
  <2>2. CASE \A e \in Scanned : named[e] # named[d]
    <3> DEFINE T == {i \in Listed : named[top[i].dir] = named[d]}
    <3>1. \E i \in Listed : top[i].dir = d
      BY <2>2, HeededIs DEF Reachable, Scanned, Listed
    <3>a. 1 \in Int /\ Len(top) \in Int
      BY Directories
    <3>2. IsFiniteSet(1..Len(top))
      BY <3>a, FS_Interval
    <3>3. T \subseteq 1..Len(top) /\ T \subseteq Nat /\ T # {}
      BY <3>1, Directories
    <3>4. PICK i \in T : \A j \in T : j <= i
      BY <3>2, <3>3, FS_Subset, GreatestElement
    <3>5. i \in Kept /\ named[top[i].dir] = named[d]
      BY <3>4, <2>2 DEF Kept
    <3>6. Manifest(top[i].dir, top[i].hint) \in Discovered
      BY <3>5, DiscoveredIs
    <3>7. QED
      BY <3>5, <3>6, <1>0
  <2>3. QED
    BY <2>1, <2>2
<1>3. QED
  BY <1>1, <1>2, ZenonT(30)

\* The hint of the manifest is the last word on a directory that nothing rivals.
LEMMA Hints ==
  ASSUME TreeType, NEW i \in Read, top[i].hint, Valid(top[i].dir),
         \A j \in Read \ {i} : top[j].dir # top[i].dir,
         \A d \in Reachable \ {top[i].dir} : named[d] # named[top[i].dir]
  PROVE  Manifest(top[i].dir, TRUE) \in Discovered
<1>1. i \in Listed /\ i \in Nat /\ top[i].hint = TRUE
  BY Directories DEF Listed, TreeType
<1>2. ASSUME NEW j \in Listed, named[top[j].dir] = named[top[i].dir]
      PROVE  j <= i
  <2>1. j \in Read /\ top[j].dir \in Reachable
    BY HeededIs DEF Listed, Reachable
  <2>2. j = i
    BY <1>2, <2>1
  <2>3. QED
    BY <1>1, <2>2
<1>3. \A d \in Scanned : named[d] # named[top[i].dir]
  BY <1>1, HeededIs DEF Scanned, Reachable
<1>4. i \in Kept
  BY <1>1, <1>2, <1>3 DEF Kept
<1>5. QED
  BY <1>1, <1>4, DiscoveredIs

(* ------------------------- every verdict once -------------------------- *)

LEMMA SuiteTotal ==
  ASSUME TreeType, LeftInv, left # {}
  PROVE  Suite \in left /\ Total \in Nat /\ Total >= 1 /\ Suite.dir \in Dirs
<1>1. Suite \in left /\ Suite \in Found
  BY SuiteIs DEF LeftInv
<1>2. Suite.dir \in Dirs
  BY <1>1, FoundTyped
<1>3. Transcripts[Suite.dir] \in Nat \ {0}
  BY <1>2, SuiteAssumption
<1>4. QED
  BY <1>1, <1>2, <1>3 DEF Total

\* A transcript that is judged has no verdict yet.
LEMMA Fresh ==
  ASSUME TreeType, SuiteType, LeftInv, VerdictInv, pc \in {"replay", "judge"}
  PROVE  Current \notin DOMAIN verdicts
<1>1. left # {} /\ Running /\ Upto = pos - 1 /\ pc # "next"
  BY DEF LeftInv, Running, Upto
<1>2. Suite \in left /\ pos \in 1..Transcripts[Suite.dir] /\ ~(pos <= pos - 1)
  BY <1>1, SuiteTotal DEF VerdictInv, SuiteType, Total
<1>3. QED
  BY <1>1, <1>2 DEF VerdictInv, Current

LEMMA JudgedIs ==
  ASSUME TreeType, SuiteType, LeftInv, VerdictInv, pc \in {"replay", "judge"}, NEW v, Judged(v)
  PROVE  /\ Current \notin DOMAIN verdicts /\ DOMAIN verdicts' = DOMAIN verdicts \cup {Current}
         /\ verdicts'[Current] = v /\ \A c \in DOMAIN verdicts : verdicts'[c] = verdicts[c]
         /\ IsFiniteSet(DOMAIN verdicts')
<1>1. Current \notin DOMAIN verdicts
  BY Fresh
<1>2. /\ DOMAIN verdicts' = DOMAIN verdicts \cup {Current}
      /\ verdicts'[Current] = v /\ \A c \in DOMAIN verdicts : verdicts'[c] = verdicts[c]
  BY <1>1 DEF Judged
<1>3. IsFiniteSet(DOMAIN verdicts')
  BY <1>2, FS_AddElement DEF SuiteType
<1>4. QED
  BY <1>1, <1>2, <1>3

LEMMA JudgedCounts ==
  ASSUME TreeType, SuiteType, LeftInv, VerdictInv, pc \in {"replay", "judge"}, NEW v, Judged(v)
  PROVE  /\ Cardinality(Sames) \in Nat /\ Cardinality(Others) \in Nat
         /\ v = "same" => /\ Cardinality(Sames') = Cardinality(Sames) + 1
                          /\ Cardinality(Others') = Cardinality(Others)
         /\ v # "same" => /\ Cardinality(Sames') = Cardinality(Sames)
                          /\ Cardinality(Others') = Cardinality(Others) + 1
<1>1. /\ Current \notin DOMAIN verdicts /\ DOMAIN verdicts' = DOMAIN verdicts \cup {Current}
      /\ verdicts'[Current] = v /\ \A c \in DOMAIN verdicts : verdicts'[c] = verdicts[c]
  BY JudgedIs
<1>2. IsFiniteSet(Sames) /\ IsFiniteSet(Others)
  BY FS_Subset DEF Sames, Others, SuiteType
<1>3. Current \notin Sames /\ Current \notin Others
  BY <1>1 DEF Sames, Others
<1>4. v = "same" => Sames' = Sames \cup {Current} /\ Others' = Others
  BY <1>1 DEF Sames, Others
<1>5. v # "same" => Sames' = Sames /\ Others' = Others \cup {Current}
  BY <1>1 DEF Sames, Others
<1>6. /\ Cardinality(Sames) \in Nat /\ Cardinality(Others) \in Nat
      /\ Cardinality(Sames \cup {Current}) = Cardinality(Sames) + 1
      /\ Cardinality(Others \cup {Current}) = Cardinality(Others) + 1
  BY <1>2, <1>3, FS_AddElement, FS_CardinalityType
<1>7. QED
  BY <1>4, <1>5, <1>6

(* ------------------------------ the steps ------------------------------ *)

\* A step that judges nothing, within a suite.
LEMMA MoveStep ==
  ASSUME SuiteInv, Running, Running', Upto' = Upto,
         UNCHANGED <<treeVars, left, countVars, totals, verdicts, raised>>,
         pos' \in Nat, pos' <= Total, pc' # "next" => pos' >= 1, replay' = "known" => pc' = "judge"
  PROVE  SuiteInv'
<1>1. TreeType' /\ SuiteType' /\ LeftInv'
  BY DEF SuiteInv, TreeType, SuiteType, LeftInv, treeVars, countVars, Running, Found, Discovered,
         Listed, Read, Scanned, Valid, Manifest
<1>2. Suite' = Suite /\ Total' = Total
  BY DEF Suite, Total
<1>3. VerdictInv'
  BY <1>2 DEF SuiteInv, VerdictInv, Running
<1>4. CountInv'
  BY DEF SuiteInv, CountInv, SoFar, Sames, Others, countVars
<1>5. Discovered' = Discovered /\ Found' = Found
  BY DEF treeVars, Found, Discovered, Listed, Read, Scanned, Valid, Manifest
<1>6. HonestInv'
  BY <1>2, <1>5 DEF SuiteInv, HonestInv, treeVars, countVars, Same, Running
<1>7. QED
  BY <1>1, <1>3, <1>4, <1>6 DEF SuiteInv

\* A step that gives the transcript that was taken up a verdict.
LEMMA JudgeStep ==
  ASSUME SuiteInv, pc \in {"replay", "judge"}, NEW v, Judged(v), NEW k \in {1, 2},
         pc' \in {"next", "report"}, replay' \in {"none", "stray", replay}, replay' # "known",
         \/ v = "same" /\ k = 1 /\ passed' = passed + 1 /\ failed' = failed
         \/ v # "same" /\ passed' = passed /\ failed' = failed + k,
         results' = results + k,
         (k = 1 /\ raised' = raised) \/ raised' = TRUE,
         UNCHANGED <<treeVars, left, pos, totals>>
  PROVE  SuiteInv'
<1>1. /\ Current \notin DOMAIN verdicts /\ DOMAIN verdicts' = DOMAIN verdicts \cup {Current}
      /\ verdicts'[Current] = v /\ \A c \in DOMAIN verdicts : verdicts'[c] = verdicts[c]
      /\ IsFiniteSet(DOMAIN verdicts')
  BY JudgedIs DEF SuiteInv
<1>2. /\ Suite' = Suite /\ Total' = Total /\ Discovered' = Discovered /\ Found' = Found
      /\ TreeType'
  BY DEF Suite, Total, SuiteInv, TreeType, treeVars, Found, Discovered, Listed, Read, Scanned, Valid,
         Manifest
<1>3. Running /\ Running' /\ Upto = pos - 1 /\ Upto' = pos /\ pos \in Nat /\ pos >= 1
  BY DEF Running, Upto, SuiteInv, SuiteType, VerdictInv
<1>4. SuiteType'
  <2>0. passed \in Nat /\ failed \in Nat /\ results \in Nat /\ raised \in BOOLEAN /\ k \in Nat
    BY DEF SuiteInv, SuiteType
  <2>a. raised' \in BOOLEAN
    BY <2>0
  <2>b. passed' \in {passed, passed + 1} /\ failed' \in {failed, failed + k}
    OBVIOUS
  <2>1. passed' \in Nat /\ failed' \in Nat /\ results' \in Nat /\ raised' \in BOOLEAN
    BY <2>0, <2>a, <2>b
  <2>2. QED
    BY <1>1, <2>1 DEF SuiteInv, SuiteType
<1>5. LeftInv'
  BY <1>2 DEF SuiteInv, LeftInv, treeVars
<1>6. VerdictInv'
  <2>1. ASSUME NEW m \in left, NEW n \in 1..Transcripts[m.dir], <<m.dir, n>> \in DOMAIN verdicts'
        PROVE  m = Suite /\ n <= pos
    <3>1. CASE <<m.dir, n>> \in DOMAIN verdicts
      <4>1. m = Suite /\ n <= pos - 1
        BY <1>3, <3>1 DEF SuiteInv, VerdictInv
      <4>2. QED
        BY <1>3, <4>1
    <3>2. CASE <<m.dir, n>> = Current
      <4>1. m.dir = Suite.dir /\ n = pos
        BY <3>2 DEF Current
      <4>2. Suite \in left
        BY SuiteTotal DEF SuiteInv
      <4>3. QED
        BY <1>3, <4>1, <4>2 DEF SuiteInv, LeftInv
    <3>3. QED
      BY <1>1, <2>1, <3>1, <3>2
  <2>2. QED
    BY <1>2, <1>3, <2>1 DEF SuiteInv, VerdictInv
<1>7. CountInv'
  <2>1. /\ Cardinality(Sames) \in Nat /\ Cardinality(Others) \in Nat
        /\ v = "same" => /\ Cardinality(Sames') = Cardinality(Sames) + 1
                         /\ Cardinality(Others') = Cardinality(Others)
        /\ v # "same" => /\ Cardinality(Sames') = Cardinality(Sames)
                         /\ Cardinality(Others') = Cardinality(Others) + 1
    BY JudgedCounts DEF SuiteInv
  <2>2. /\ results = passed + failed /\ totals.passed + passed <= Cardinality(Sames)
        /\ ~raised => /\ totals.passed + passed = Cardinality(Sames)
                      /\ totals.failed + failed = Cardinality(Others)
    BY <1>3 DEF SuiteInv, CountInv, SoFar
  <2>3. /\ totals.passed \in Nat /\ totals.failed \in Nat /\ passed \in Nat /\ failed \in Nat
        /\ results \in Nat
    BY DEF SuiteInv, SuiteType
  <2>4. /\ results' = passed' + failed' /\ totals.passed + passed' <= Cardinality(Sames')
        /\ ~raised' => /\ totals.passed + passed' = Cardinality(Sames')
                       /\ totals.failed + failed' = Cardinality(Others')
    <3>1. CASE v = "same"
      BY <2>1, <2>2, <2>3, <3>1
    <3>2. CASE v # "same"
      BY <2>1, <2>2, <2>3, <3>2
    <3>3. QED
      BY <3>1, <3>2
  <2>5. QED
    BY <1>3, <2>4 DEF CountInv, SoFar
<1>8. HonestInv'
  <2>1. \A d, n : Same(d, n) => Same(d, n)'
    BY <1>1 DEF Same
  <2>2. SUFFICES ASSUME totals.suites = 0
                 PROVE  /\ all => \A m \in Discovered \ left : \A n \in 1..Transcripts[m.dir] :
                                     Same(m.dir, n)'
                        /\ failed' = 0 => \A n \in 1..pos : Same(Suite.dir, n)'
    <3>1. left' # {} /\ all' = all /\ replay' # "known" /\ totals' = totals /\ left' = left
      BY <1>3 DEF SuiteInv, LeftInv, Running, treeVars
    <3>2. QED
      BY <1>2, <1>3, <2>2, <3>1 DEF HonestInv, Same
  <2>3. all => \A m \in Discovered \ left : \A n \in 1..Transcripts[m.dir] : Same(m.dir, n)
    BY <2>2 DEF SuiteInv, HonestInv
  <2>4. ASSUME failed' = 0, NEW n \in 1..pos
        PROVE  Same(Suite.dir, n)'
    <3>1. v = "same" /\ failed = 0
      BY <2>4 DEF SuiteInv, SuiteType
    <3>2. CASE n = pos
      BY <1>1, <1>2, <3>1, <3>2 DEF Current, Same
    <3>3. CASE n # pos
      <4>1. n \in 1..(pos - 1)
        BY <1>3, <3>3
      <4>2. Same(Suite.dir, n)
        BY <1>3, <2>2, <3>1, <4>1 DEF SuiteInv, HonestInv
      <4>3. QED
        BY <1>2, <2>1, <4>2
    <3>4. QED
      BY <3>2, <3>3
  <2>5. QED
    BY <2>1, <2>3, <2>4
<1>9. QED
  BY <1>2, <1>4, <1>5, <1>6, <1>7, <1>8 DEF SuiteInv

LEMMA FailStep ==
  ASSUME SuiteInv, pc \in {"replay", "judge"}, NEW v, Judged(v), v # "same", NEW k \in {1, 2},
         pc' \in {"next", "report"}, replay' \in {"none", "stray", replay}, replay' # "known",
         passed' = passed, failed' = failed + k, results' = results + k,
         (k = 1 /\ raised' = raised) \/ raised' = TRUE,
         UNCHANGED <<treeVars, left, pos, totals>>
  PROVE  SuiteInv'
BY JudgeStep

\* A suite that is over, and what it adds to the totals.
LEMMA OverStep ==
  ASSUME SuiteInv, NEW p, NEW f, AddSuite(p, f),
         \/ pc = "next" /\ pos = Total /\ p = passed /\ f = failed /\ raised' = raised
         \/ pc \in {"start", "report"} /\ all /\ raised' = TRUE /\ p = 0 /\ f = Total,
         UNCHANGED <<treeVars, pos, replay, countVars, verdicts>>
  PROVE  SuiteInv'
<1>1. /\ TreeType' /\ Discovered' = Discovered /\ Found' = Found
  BY DEF SuiteInv, TreeType, treeVars, Found, Discovered, Listed, Read, Scanned, Valid, Manifest
<1>2. left # {} /\ Suite \in left /\ Total \in Nat /\ Total >= 1
  BY SuiteTotal DEF SuiteInv, LeftInv
<1>3. /\ left' = left \ {Suite} /\ pc' \in {"start", "done"} /\ (pc' = "done" <=> left' = {})
      /\ ~Running'
  BY DEF AddSuite, Running
<1>4. p \in Nat /\ f \in Nat /\ passed \in Nat /\ failed \in Nat /\ results \in Nat
  BY <1>2 DEF SuiteInv, SuiteType
<1>5. /\ totals.passed \in Nat /\ totals.failed \in Nat /\ totals.suites \in Nat
      /\ totals'.passed = totals.passed + p /\ totals'.failed = totals.failed + f
      /\ totals'.suites = totals.suites + (IF f > 0 THEN 1 ELSE 0)
      /\ totals' \in [passed : Nat, failed : Nat, suites : Nat]
  <2>1. totals.passed \in Nat /\ totals.failed \in Nat /\ totals.suites \in Nat
    BY DEF SuiteInv, SuiteType
  <2>2. totals' = [passed |-> totals.passed + p, failed |-> totals.failed + f,
                   suites |-> totals.suites + (IF f > 0 THEN 1 ELSE 0)]
    BY DEF AddSuite
  <2>3. /\ totals.passed + p \in Nat /\ totals.failed + f \in Nat
        /\ totals.suites + (IF f > 0 THEN 1 ELSE 0) \in Nat
    BY <1>4, <2>1
  <2>4. QED
    BY <2>1, <2>2, <2>3
<1>6. SuiteType'
  BY <1>3, <1>5 DEF SuiteInv, SuiteType, countVars
<1>7. LeftInv'
  BY <1>1, <1>3 DEF SuiteInv, LeftInv, treeVars
<1>8. VerdictInv'
  <2>1. \A m \in left' : \A n \in 1..Transcripts[m.dir] : <<m.dir, n>> \notin DOMAIN verdicts
    BY <1>3 DEF SuiteInv, VerdictInv
  <2>2. QED
    BY <1>3, <2>1 DEF VerdictInv
<1>9. CountInv'
  <2>1. /\ results = passed + failed /\ totals.passed + SoFar(passed) <= Cardinality(Sames)
        /\ ~raised => /\ totals.passed + SoFar(passed) = Cardinality(Sames)
                      /\ totals.failed + SoFar(failed) = Cardinality(Others)
    BY DEF SuiteInv, CountInv
  <2>2. Cardinality(Sames) \in Nat /\ Sames' = Sames /\ Others' = Others
    <3>1. IsFiniteSet(Sames)
      BY FS_Subset DEF SuiteInv, SuiteType, Sames
    <3>2. QED
      BY <3>1, FS_CardinalityType DEF Sames, Others
  <2>3. CASE pc = "next" /\ p = passed /\ f = failed /\ raised' = raised
    <3>1. SoFar(passed) = p /\ SoFar(failed) = f
      BY <2>3 DEF SoFar, Running
    <3>2. QED
      BY <1>3, <1>5, <2>1, <2>2, <2>3, <3>1 DEF CountInv, SoFar, countVars
  <2>4. CASE raised' = TRUE /\ p = 0
    <3>1. SoFar(passed) \in Nat
      BY <1>4 DEF SoFar
    <3>2. totals'.passed <= Cardinality(Sames)
      BY <1>5, <2>1, <2>2, <2>4, <3>1
    <3>3. SoFar(passed)' = 0
      BY <1>3 DEF SoFar
    <3>4. totals'.passed + SoFar(passed)' <= Cardinality(Sames')
      BY <1>5, <2>2, <3>2, <3>3
    <3>5. QED
      BY <2>1, <2>4, <3>4 DEF CountInv, countVars
  <2>5. QED
    BY <2>3, <2>4
<1>10. HonestInv'
  <2>1. SUFFICES ASSUME totals'.suites = 0
                 PROVE  /\ all => \A m \in Discovered \ left' : \A n \in 1..Transcripts[m.dir] :
                                     Same(m.dir, n)
                        /\ (~all /\ left' = {}) => \E m \in Found : \A n \in 1..Transcripts[m.dir] :
                                                     Same(m.dir, n)
    BY <1>1, <1>3 DEF SuiteInv, HonestInv, treeVars, Same
  <2>2. totals.suites = 0 /\ f = 0 /\ pc # "list"
    BY <1>4, <1>5, <2>1
  <2>3. \A n \in 1..Transcripts[Suite.dir] : Same(Suite.dir, n)
    <3>1. pc = "next" /\ pos = Total /\ failed = 0
      BY <1>2, <2>2
    <3>2. Running /\ Upto = Transcripts[Suite.dir]
      BY <3>1 DEF Running, Upto, Total
    <3>3. QED
      BY <2>2, <3>1, <3>2 DEF SuiteInv, HonestInv
  <2>4. ASSUME all, NEW m \in Discovered \ left', NEW n \in 1..Transcripts[m.dir]
        PROVE  Same(m.dir, n)
    <3>1. CASE m \in left
      BY <1>3, <2>3, <2>4, <3>1
    <3>2. CASE m \notin left
      BY <2>2, <2>4, <3>2 DEF SuiteInv, HonestInv
    <3>3. QED
      BY <3>1, <3>2
  <2>5. Suite \in Found
    BY <1>2 DEF SuiteInv, LeftInv
  <2>6. QED
    BY <2>3, <2>4, <2>5
<1>11. QED
  BY <1>1, <1>6, <1>7, <1>8, <1>9, <1>10 DEF SuiteInv

LEMMA ListStep ==
  ASSUME SuiteInv, ListSuites
  PROVE  SuiteInv'
<1>1. /\ TreeType' /\ Discovered' = Discovered /\ Found' = Found
  BY DEF ListSuites, SuiteInv, TreeType, treeVars, Found, Discovered, Listed, Read, Scanned, Valid, Manifest
<1>2. /\ left' \subseteq Found
      /\ all => left' = Discovered
      /\ \A m, o \in left' : m.dir = o.dir => m = o
  <2>1. CASE all /\ left' = Discovered
    BY <2>1, OnePerDirectory DEF Found, SuiteInv
  <2>2. CASE ~all /\ \E m \in Found : left' = {m}
    BY <2>2
  <2>3. QED
    BY <2>1, <2>2 DEF ListSuites
<1>3. pc' \in {"start", "done"} /\ (pc' = "done" <=> left' = {}) /\ ~Running' /\ ~Running
  BY DEF ListSuites, Running
<1>4. SuiteType'
  BY <1>3 DEF ListSuites, SuiteInv, SuiteType, countVars
<1>5. LeftInv'
  <2>1. all' = all /\ (left' = {} <=> pc' \in {"list", "done"})
    BY <1>3 DEF ListSuites, treeVars
  <2>2. all' => left' \subseteq Discovered'
    BY <1>1, <1>2, <2>1
  <2>3. QED
    BY <1>1, <1>2, <2>1, <2>2 DEF LeftInv
<1>6. VerdictInv'
  BY <1>3 DEF ListSuites, SuiteInv, VerdictInv
<1>7. CountInv'
  BY <1>3 DEF ListSuites, SuiteInv, CountInv, SoFar, Sames, Others, countVars
<1>8. HonestInv'
  BY <1>1, <1>2, <1>3 DEF ListSuites, SuiteInv, HonestInv, treeVars
<1>9. QED
  BY <1>1, <1>4, <1>5, <1>6, <1>7, <1>8 DEF SuiteInv

LEMMA StartStep ==
  ASSUME SuiteInv, StartSuite
  PROVE  SuiteInv'
<1>1. /\ TreeType' /\ Discovered' = Discovered /\ Found' = Found /\ Suite' = Suite /\ Total' = Total
  BY DEF StartSuite, SuiteInv, TreeType, treeVars, Found, Discovered, Listed, Read, Scanned, Valid, Manifest,
         Suite, Total
<1>2. ~Running /\ Running' /\ Upto' = 0
  BY DEF StartSuite, Running, Upto
<1>3. SuiteType'
  BY DEF StartSuite, SuiteInv, SuiteType
<1>4. LeftInv'
  BY <1>1 DEF StartSuite, SuiteInv, LeftInv, treeVars
<1>5. VerdictInv'
  <2>1. Total >= 0
    BY SuiteTotal DEF StartSuite, SuiteInv, LeftInv
  <2>2. QED
    BY <1>1, <1>2, <2>1 DEF StartSuite, SuiteInv, VerdictInv
<1>6. CountInv'
  BY <1>2 DEF StartSuite, SuiteInv, CountInv, SoFar, Sames, Others
<1>7. HonestInv'
  BY <1>1, <1>2 DEF StartSuite, SuiteInv, HonestInv, treeVars, Same
<1>8. QED
  BY <1>1, <1>3, <1>4, <1>5, <1>6, <1>7 DEF SuiteInv

LEMMA SuiteCorrect == SuiteSpec => []SuiteInv
<1>1. SuiteInit => SuiteInv
  <2>1. SUFFICES ASSUME SuiteInit PROVE SuiteInv
    OBVIOUS
  <2>2. top \in Seq(Entries)
    BY <2>1, SuiteAssumption DEF SuiteInit, SeqOf
  <2>3. DOMAIN verdicts = {} /\ IsFiniteSet(DOMAIN verdicts) /\ Sames = {} /\ Others = {}
    BY <2>1, FS_EmptySet DEF SuiteInit, Sames, Others
  <2>4. TreeType
    BY <2>1, <2>2 DEF SuiteInit, TreeType
  <2>5. SuiteType
    BY <2>1, <2>3 DEF SuiteInit, SuiteType
  <2>6. LeftInv
    BY <2>1 DEF SuiteInit, LeftInv
  <2>7. VerdictInv
    BY <2>1, <2>3 DEF SuiteInit, VerdictInv, Running
  <2>8. CountInv
    BY <2>1, <2>3, FS_EmptySet DEF SuiteInit, CountInv, SoFar, Running
  <2>9. HonestInv
    BY <2>1 DEF SuiteInit, HonestInv
  <2>10. QED
    BY <2>4, <2>5, <2>6, <2>7, <2>8, <2>9 DEF SuiteInv
<1>2. SuiteInv /\ [SuiteNext]_suiteVars => SuiteInv'
  <2>1. SUFFICES ASSUME SuiteInv, [SuiteNext]_suiteVars PROVE SuiteInv'
    OBVIOUS
  <2>2. CASE ListSuites
    BY <2>1, <2>2, ListStep
  <2>3. CASE StartSuite
    BY <2>1, <2>3, StartStep
  <2>4. CASE NextTranscript
    <3>1. Running /\ Running' /\ Upto' = Upto
      BY <2>1, <2>4 DEF NextTranscript, Running, Upto, SuiteInv, SuiteType
    <3>2. Total \in Nat
      BY <2>1, <2>4, SuiteTotal DEF NextTranscript, SuiteInv, LeftInv
    <3>3. pos' \in Nat /\ pos' <= Total /\ pos' >= 1
      BY <2>1, <2>4, <3>2 DEF NextTranscript, SuiteInv, SuiteType
    <3>4. UNCHANGED <<treeVars, left, countVars, totals, verdicts, raised>> /\ replay' # "known"
      BY <2>1, <2>4 DEF NextTranscript, SuiteInv, HonestInv
    <3>5. QED
      BY <2>1, <3>1, <3>3, <3>4, MoveStep
  <2>5. CASE NotReplayed
    <3>1. /\ pc = "replay" /\ Judged("invalid") /\ pc' = "report"
          /\ passed' = passed /\ failed' = failed + 1 /\ results' = results + 1 /\ raised' = raised
          /\ UNCHANGED <<treeVars, left, pos, totals>> /\ replay' = replay /\ replay # "known"
      BY <2>1, <2>5 DEF NotReplayed, Counts, SuiteInv, HonestInv
    <3>2. QED
      BY <2>1, <3>1, FailStep
  <2>6. CASE ReplayRaises
    <3>1. /\ pc = "replay" /\ Judged("error") /\ pc' = "report"
          /\ passed' = passed /\ failed' = failed + 1 /\ results' = results + 1 /\ raised' = raised
          /\ UNCHANGED <<treeVars, left, pos, totals>> /\ replay' \in {replay, "stray"}
          /\ replay # "known"
      BY <2>1, <2>6 DEF ReplayRaises, Counts, SuiteInv, HonestInv
    <3>2. QED
      BY <2>1, <3>1, FailStep
  <2>7. CASE Replayed
    <3>1. /\ Running /\ Running' /\ Upto' = Upto /\ pos' = pos /\ pos \in Nat /\ pos <= Total
          /\ pos >= 1 /\ pc' = "judge" /\ pc' # "next"
      BY <2>1, <2>7 DEF Replayed, Running, Upto, SuiteInv, SuiteType, VerdictInv
    <3>2. UNCHANGED <<treeVars, left, countVars, totals, verdicts, raised>>
      BY <2>7 DEF Replayed
    <3>3. QED
      BY <2>1, <3>1, <3>2, MoveStep
  <2>8. CASE Incomplete
    <3>1. /\ pc = "judge" /\ Judged("incomplete") /\ replay' \in {"none", "stray"}
          /\ UNCHANGED <<treeVars, left, pos, totals>> /\ passed' = passed
      BY <2>8 DEF Incomplete, Counts, Unlinked
    <3>2. CASE failed' = failed + 1 /\ results' = results + 1 /\ pc' = "next" /\ raised' = raised
      BY <2>1, <3>1, <3>2, FailStep
    <3>3. CASE failed' = failed + 2 /\ results' = results + 2 /\ pc' = "report" /\ raised' = TRUE
      BY <2>1, <3>1, <3>3, FailStep
    <3>4. QED
      BY <2>8, <3>2, <3>3 DEF Incomplete, Counts
  <2>9. CASE Compared
    <3>1. PICK v \in {"same", "changed", "error"} : Counts(v) /\ Judged(v)
      BY <2>9 DEF Compared
    <3>2. /\ pc = "judge" /\ replay' \in {"none", "stray"} /\ pc' = "report"
          /\ results' = results + 1
          /\ UNCHANGED <<treeVars, left, pos, totals>> /\ raised' = raised
          /\ IF v = "same" THEN passed' = passed + 1 /\ failed' = failed
                           ELSE passed' = passed /\ failed' = failed + 1
      BY <2>9, <3>1 DEF Compared, Counts, Unlinked
    <3>3. QED
      BY <2>1, <3>1, <3>2, JudgeStep
  <2>10. CASE Reported
    <3>1. /\ Running /\ Running' /\ Upto' = Upto /\ pos' = pos /\ pos \in Nat /\ pos <= Total
          /\ pc' = "next" /\ replay' # "known"
      BY <2>1, <2>10 DEF Reported, Running, Upto, SuiteInv, SuiteType, VerdictInv, HonestInv
    <3>2. UNCHANGED <<treeVars, left, countVars, totals, verdicts, raised>>
      BY <2>10 DEF Reported
    <3>3. QED
      BY <2>1, <3>1, <3>2, MoveStep
  <2>11. CASE SuiteOver
    BY <2>1, <2>11, OverStep DEF SuiteOver
  <2>12. CASE SuiteAborted
    BY <2>1, <2>12, OverStep DEF SuiteAborted
  <2>13. CASE UNCHANGED suiteVars
    <3>1. UNCHANGED <<treeVars, pc, left, pos, replay, countVars, totals, verdicts, raised>>
      BY <2>13 DEF suiteVars
    <3>2. Discovered' = Discovered /\ Found' = Found /\ Suite' = Suite /\ Total' = Total
      BY <3>1 DEF treeVars, Found, Discovered, Listed, Read, Scanned, Valid, Manifest, Suite, Total
    <3>3. QED
      BY <2>1, <3>1, <3>2 DEF SuiteInv, TreeType, SuiteType, LeftInv, VerdictInv, CountInv, HonestInv,
         treeVars, countVars, Running, Upto, SoFar, Sames, Others, Same
  <2>14. QED
    BY <2>1, <2>2, <2>3, <2>4, <2>5, <2>6, <2>7, <2>8, <2>9, <2>10, <2>11, <2>12, <2>13 DEF SuiteNext
<1>3. QED
  BY <1>1, <1>2, PTL DEF SuiteSpec

(* ----------------------------- the theorems ---------------------------- *)

\* Exit code 0 of `mcp-vcr test` (SuiteRunner.run_all_suites): every transcript of
\* every suite that was found, or of the one asked for, has been replayed and gave
\* the recorded answers, for every directory and manifest; and no replay that is
\* known of is left without an attempt to remove it.
THEOREM HonestCorrect == SuiteSpec => []HonestExit
<1>1. SuiteInv => HonestExit
  <2>1. SUFFICES ASSUME SuiteInv, Done PROVE HonestExit
    BY DEF HonestExit
  <2>2. left = {} /\ pc # "list" /\ pc # "judge"
    BY <2>1 DEF SuiteInv, LeftInv, Done
  <2>3. totals.suites \in Nat
    BY <2>1 DEF SuiteInv, SuiteType
  <2>4. exit = 0 => totals.suites = 0
    BY <2>3 DEF exit
  <2>5. (totals.suites = 0) =>
          /\ all => \A m \in Discovered : \A n \in 1..Transcripts[m.dir] : Same(m.dir, n)
          /\ ~all => \E m \in Found : \A n \in 1..Transcripts[m.dir] : Same(m.dir, n)
    BY <2>1, <2>2 DEF SuiteInv, HonestInv
  <2>6. QED
    BY <2>1, <2>2, <2>4, <2>5 DEF SuiteInv, HonestInv, HonestExit, Same
<1>2. QED
  BY <1>1, SuiteCorrect, PTL

\* The counts that `mcp-vcr test` prints are those of the transcripts; after a
\* callback that raised they are too small, and never say that more have passed.
THEOREM CountsCorrect == SuiteSpec => []CountsTrue
<1>1. SuiteInv => CountsTrue
  <2>1. SUFFICES ASSUME SuiteInv PROVE CountsTrue
    OBVIOUS
  <2>2. totals.passed \in Nat /\ totals.failed \in Nat
    BY <2>1 DEF SuiteInv, SuiteType
  <2>3. Done => SoFar(passed) = 0 /\ SoFar(failed) = 0
    BY DEF Done, SoFar, Running
  <2>4. Done => totals.passed + SoFar(passed) = totals.passed /\ totals.failed + SoFar(failed) = totals.failed
    BY <2>2, <2>3
  <2>5. QED
    BY <2>1, <2>4 DEF SuiteInv, CountInv, CountsTrue, Sames, Others
<1>2. QED
  BY <1>1, SuiteCorrect, PTL

\* list_suites loses a suite only to another one of its name, and keeps the hint
\* of the manifest for a directory that nothing rivals, for any directory and
\* any manifest up to its first path that is no string.
THEOREM FoundCorrect == SuiteSpec => []SuitesFound
<1>1. SuiteInv => SuitesFound
  <2>1. SUFFICES ASSUME TreeType PROVE SuitesFound
    BY DEF SuiteInv
  <2>2. ASSUME NEW m \in Discovered, m.hint
        PROVE  \E i \in Read : top[i] = [dir |-> m.dir, hint |-> TRUE]
    <3>1. \A d : Manifest(d, FALSE).hint = FALSE
      BY DEF Manifest
    <3>2. PICK i \in Kept : m.dir = top[i].dir /\ m = Manifest(top[i].dir, top[i].hint)
      BY <2>2, <3>1, DiscoveredAs
    <3>3. i \in Read /\ m.hint = top[i].hint
      BY <2>1, <3>2, Directories DEF Kept, Manifest
    <3>4. QED
      BY <2>1, <2>2, <3>2, <3>3, Directories
  <2>3. QED
    BY <2>1, <2>2, NamesFound, Hints, HeededIs DEF SuitesFound
<1>2. QED
  BY <1>1, SuiteCorrect, PTL
==============================================================================
