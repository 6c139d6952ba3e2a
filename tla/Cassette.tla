------------------------------ MODULE Cassette ------------------------------
(* The pytest plugin: RecordingTransport writes a session to a cassette, and *)
(* ReplayingTransport plays it back to a client without a server. A client   *)
(* issues the same operations in both sessions, either one at a time         *)
(* (sequential) or several at once, in any order (concurrent).               *)
EXTENDS Naturals, Sequences, FiniteSets, SequencesExt

CONSTANTS MaxOps,       \* client messages of the recorded session
          MaxUnasked,   \* messages of the server that answer nothing
          RequestIds    \* ids the server may use for requests of its own

ASSUME CassetteAssumption ==
  /\ MaxOps \in Nat /\ MaxUnasked \in Nat /\ RequestIds \subseteq Nat \ {0}

NoId == 0
NoOp == 0

\* A message on the tape. Operation n of the client is a request (its id is n),
\* a notification, or the answer to a request of the server (same id). "to" is
\* the operation a message of the server answers.
C2S(n, kind, id) == [dir |-> "c2s", op |-> n, kind |-> kind, id |-> id, to |-> NoOp]
S2C(kind, id, n) == [dir |-> "s2c", op |-> NoOp, kind |-> kind, id |-> id, to |-> n]

VARIABLES
  mode,       \* "record", "replay"
  style,      \* of the client in the replay: "sequential" or "concurrent"
  tape,
  pending,    \* operations the live server has not answered
  toAnswer,   \* server requests the client has received, by their id on the tape
  consumed,   \* consumed_c2s_indices
  mapped,     \* s2c_to_client_id: position -> the operation that gets it
  waiting,    \* the reader waits for _c2s_written_event
  cursor,     \* msg_index, from 1
  delivered,  \* what the client has read: position and operation
  written     \* the operations of the replay, in the order they were written

recordVars == <<tape, pending>>
replayVars == <<consumed, mapped, waiting, cursor, delivered, written>>
vars == <<mode, style, recordVars, toAnswer, replayVars>>

Init ==
  /\ mode = "record" /\ style \in {"sequential", "concurrent"}
  /\ tape = <<>> /\ pending = {} /\ toAnswer = {}
  /\ consumed = {} /\ mapped = <<>> /\ waiting = FALSE /\ cursor = 1
  /\ delivered = <<>> /\ written = <<>>

Positions(dir) == {p \in DOMAIN tape : tape[p].dir = dir}
Ops == Cardinality(Positions("c2s"))
Unasked == {p \in Positions("s2c") : tape[p].to = NoOp}
Answered == {tape[p].id : p \in {q \in Positions("c2s") : tape[q].kind = "answer"}}

(* -------------------------- RecordingTransport ------------------------- *)

\* write_to_server: the record is written before the inner write, without an
\* await between; that write may raise, and the record stays.
RecordWrite ==
  /\ mode = "record" /\ Ops < MaxOps
  /\ \E kind \in {"request", "note", "answer"} :
       /\ kind = "answer" => toAnswer \ Answered # {}
       /\ LET id == CASE kind = "request" -> Ops + 1
                      [] kind = "note" -> NoId
                      [] OTHER -> CHOOSE i \in toAnswer \ Answered : TRUE
          IN tape' = Append(tape, C2S(Ops + 1, kind, id))
       /\ pending' \in {pending, IF kind = "request" THEN pending \cup {Ops + 1} ELSE pending}
  /\ UNCHANGED <<mode, style, toAnswer, replayVars>>

\* read_server_message: a line of the inner transport is recorded as it is
\* returned: an answer in any order, a notification, a request.
RecordRead ==
  /\ mode = "record"
  /\ \/ \E n \in pending :
          tape' = Append(tape, S2C("answer", n, n)) /\ pending' = pending \ {n}
          /\ UNCHANGED toAnswer
     \/ /\ Cardinality(Unasked) < MaxUnasked /\ UNCHANGED pending
        /\ \/ tape' = Append(tape, S2C("note", NoId, NoOp)) /\ UNCHANGED toAnswer
           \/ \E i \in RequestIds \ toAnswer :
                tape' = Append(tape, S2C("request", i, NoOp)) /\ toAnswer' = toAnswer \cup {i}
  /\ UNCHANGED <<mode, style, replayVars>>

\* shutdown closes the recorder whatever the inner shutdown does; then another
\* test loads the cassette.
StopRecording ==
  /\ mode = "record" /\ tape # <<>> /\ mode' = "replay" /\ toAnswer' = {}
  /\ UNCHANGED <<style, recordVars, replayVars>>

(* -------------------------- ReplayingTransport ------------------------- *)

\* start(): each c2s message with an id, in order, takes the first s2c message
\* with that id which is left; requests of the server are among them.
BugPaired(p) ==        \* the next s2c message with an id, whatever the id
  LET later == {q \in Positions("s2c") : q > p /\ tape[q].id # NoId}
  IN IF tape[p].id = NoId \/ later = {} THEN 0 ELSE CHOOSE q \in later : \A r \in later : q <= r
Alike(p, dir) == {q \in Positions(dir) : q <= p /\ tape[q].id = tape[p].id}
Hits(p) ==             \* of the same rank among those with the id
  {q \in Positions("s2c") : /\ tape[q].id = tape[p].id
                            /\ Cardinality(Alike(q, "s2c")) = Cardinality(Alike(p, "c2s"))}
Paired(p) ==
  IF tape[p].id = NoId \/ Hits(p) = {} THEN 0 ELSE CHOOSE q \in Hits(p) : TRUE

OpAt(n) == CHOOSE p \in Positions("c2s") : tape[p].op = n
Received(n) == \E d \in ToSet(delivered) : d.op = n

\* An operation the client can issue now: an answer needs its question; a
\* sequential client has the answers to all it asked before.
MayWrite(n) ==
  /\ n \notin ToSet(written)
  /\ tape[OpAt(n)].kind = "answer" => tape[OpAt(n)].id \in toAnswer
  /\ style = "sequential" =>
       /\ n = Len(written) + 1
       /\ \A m \in 1..(n - 1) :
            tape[OpAt(m)].kind = "request" /\ (\E p \in DOMAIN tape : tape[p].to = m) => Received(m)

\* write_to_server: the next c2s message that is left is consumed, whatever it
\* says; a message with an id maps the answer that is paired with it.
BugWrite(n) ==         \* wakes the reader for requests only
  LET left == Positions("c2s") \ consumed
      p == CHOOSE q \in left : \A r \in left : q <= r
  IN /\ mode = "replay" /\ MayWrite(n) /\ written' = Append(written, n)
     /\ consumed' = consumed \cup {p}
     /\ mapped' = IF tape[OpAt(n)].id # NoId /\ Paired(p) # 0
                    THEN [q \in DOMAIN mapped \cup {Paired(p)} |->
                            IF q = Paired(p) THEN n ELSE mapped[q]]
                    ELSE mapped
     /\ waiting' = (waiting /\ tape[OpAt(n)].id = NoId)
     /\ UNCHANGED <<mode, style, recordVars, toAnswer, cursor, delivered>>
Write(n) ==
  LET left == Positions("c2s") \ consumed
      p == CHOOSE q \in left : \A r \in left : q <= r
  IN /\ mode = "replay" /\ MayWrite(n) /\ written' = Append(written, n)
     /\ consumed' = consumed \cup {p}
     /\ mapped' = IF tape[OpAt(n)].id # NoId /\ Paired(p) # 0
                    THEN [q \in DOMAIN mapped \cup {Paired(p)} |->
                            IF q = Paired(p) THEN n ELSE mapped[q]]
                    ELSE mapped
     /\ waiting' = FALSE
     /\ UNCHANGED <<mode, style, recordVars, toAnswer, cursor, delivered>>

\* read_server_message: pass over consumed client messages, hand out
\* notifications and mapped answers, wait for the client otherwise.
Reading == mode = "replay" /\ ~waiting /\ cursor <= Len(tape)
AtC2S == tape[cursor].dir = "c2s"

BugPassConsumed ==     \* a client message never holds the reader up
  /\ Reading /\ AtC2S /\ cursor' = cursor + 1
  /\ UNCHANGED <<mode, style, recordVars, toAnswer, consumed, mapped, waiting, delivered, written>>
PassConsumed ==
  /\ Reading /\ AtC2S /\ cursor \in consumed /\ cursor' = cursor + 1
  /\ UNCHANGED <<mode, style, recordVars, toAnswer, consumed, mapped, waiting, delivered, written>>
Deliver ==
  /\ Reading /\ ~AtC2S /\ (tape[cursor].id = NoId \/ cursor \in DOMAIN mapped)
  /\ delivered' = Append(delivered,
       [pos |-> cursor, op |-> IF tape[cursor].id = NoId THEN NoOp ELSE mapped[cursor]])
  /\ cursor' = cursor + 1
  /\ toAnswer' = IF tape[cursor].kind = "request" THEN toAnswer \cup {tape[cursor].id} ELSE toAnswer
  /\ UNCHANGED <<mode, style, recordVars, consumed, mapped, waiting, written>>

Wait ==
  /\ Reading /\ waiting' = TRUE
  /\ IF AtC2S THEN cursor \notin consumed
              ELSE tape[cursor].id # NoId /\ cursor \notin DOMAIN mapped
  /\ UNCHANGED <<mode, style, recordVars, toAnswer, consumed, mapped, cursor, delivered, written>>

(* ------------------------------ the system ----------------------------- *)

Reader == PassConsumed \/ Deliver \/ Wait
Client == \E n \in 1..Ops : Write(n)

Next == RecordWrite \/ RecordRead \/ StopRecording \/ Client \/ Reader

Spec == Init /\ [][Next]_vars /\ WF_vars(Reader) /\ WF_vars(mode = "replay" /\ Client)

(* ----------------------------- properties ------------------------------ *)

InOrder == \A i \in DOMAIN written : written[i] = i
ServerAsked(p) == \E q \in 1..p : tape[q].dir = "s2c" /\ tape[q].kind = "request"
Stalled == waiting /\ \A n \in 1..Ops : ~MayWrite(n)

\* A client that writes in the recorded order gets, for each request, the
\* recorded answer to that request, whatever order the answers came in, unless
\* the server asked something under an id of the client before.
OwnAnswers ==
  InOrder => \A d \in ToSet(delivered) :
    d.op = NoOp \/ tape[d.pos].to = d.op \/ ServerAsked(d.pos)

\* The replay keeps the causality of the tape: every message of the server is
\* delivered once and in the recorded order, and none before the client has
\* written as many messages as preceded it in the recording.
PlayedAsRecorded ==
  /\ \A i, j \in DOMAIN delivered : i < j => delivered[i].pos < delivered[j].pos
  /\ {d.pos : d \in ToSet(delivered)} = {p \in Positions("s2c") : p < cursor}
  /\ \A d \in ToSet(delivered) :
       Cardinality({p \in Positions("c2s") : p < d.pos}) <= Len(written)

\* The only reasons for a replay to stall: a request of the server on the tape
\* (no write maps it, or it has taken the place of an answer), a client that
\* writes in another order, or a sequential client at a message of its own, when
\* it waits for an answer that comes behind it on the tape.
StallReasons ==
  Stalled => \/ ~AtC2S /\ ServerAsked(cursor)
             \/ ~InOrder
             \/ AtC2S /\ style = "sequential"

\* With none of these reasons the whole tape is played.
PlaysToTheEnd ==
  (mode = "replay" /\ style = "concurrent" /\ ~ServerAsked(Len(tape)))
    ~> (cursor > Len(tape) \/ ~InOrder)
=============================================================================
