------------------------------- MODULE Replay -------------------------------
(* ReplayEngine.run_replay: the client's messages of a transcript are written *)
(* in order to a new server process, in lockstep: after a message with an id  *)
(* the engine reads until a line carries that id. One task; an action runs    *)
(* from one await to the next. What the task does next is up to its command.  *)
EXTENDS LineServer, SequencesExt

VARIABLES
  todo,     \* c2s_messages not yet written
  wanted,   \* expected_id, or NoId
  taken,    \* responses
  reason    \* incomplete_reason; for an exception out of run_replay, "raised" if
            \* there is no replay file and "invalid" if there is one

replayVars == <<todo, wanted, taken, reason>>

\* The messages of one side, in their order.
Sent(msgs, dir) ==
  FlattenSeq([i \in DOMAIN msgs |-> IF msgs[i].dir = dir THEN <<msgs[i]>> ELSE <<>>])
C2S(msgs) == Sent(msgs, "c2s")

ReplayInit == NoServer /\ todo = <<>> /\ wanted = NoId /\ taken = <<>> /\ reason = "none"

ReplayStarts(msgs) ==
  /\ Launched /\ todo' = C2S(msgs)
  /\ wanted' = NoId /\ taken' = <<>> /\ reason' = "none"

Over    == reason # "none" \/ (todo = <<>> /\ wanted = NoId)
Sending == ~Over /\ wanted = NoId
Reading == ~Over /\ wanted # NoId

\* A message without an id is followed by the settle delay, in which nothing is
\* read; one with an id by reading, also when it is the client's answer to a
\* request of the server, which nothing answers.
Send ==
  /\ Sending
  /\ LET m == Head(todo) IN
       /\ IF m.kind = "request" THEN Written(m) ELSE UNCHANGED serverVars
       /\ wanted' = m.id
  /\ todo' = Tail(todo) /\ UNCHANGED <<taken, reason>>

SendFails ==
  /\ Sending /\ MayFail /\ reason' = "pipe_error"
  /\ UNCHANGED <<serverVars, todo, wanted, taken>>

\* transport.start() raises: the server cannot be launched.
StartRaises(msgs) ==
  /\ todo = C2S(msgs) /\ wanted = NoId /\ reason = "none" /\ server = "up"
  /\ reason' = "raised"
  /\ UNCHANGED <<serverVars, todo, wanted, taken>>

Message(line) ==
  [dir |-> "s2c", kind |-> line.kind, id |-> line.id,
   leaves |-> IF line.kind = "reply" THEN line.body ELSE <<>>]
NoMessage(line) == line.kind \in {"malformed", "undecodable"}

\* A line without an id is kept and one with another id is not.
ReadOn ==
  /\ Reading /\ HasLine /\ ~NoMessage(Head(out)) /\ Head(out).id # wanted
  /\ taken' = IF Head(out).id = NoId THEN Append(taken, Message(Head(out))) ELSE taken
  /\ TakeLine /\ UNCHANGED <<todo, wanted, reason>>
Match ==
  /\ Reading /\ HasLine /\ Head(out).id = wanted
  /\ taken' = Append(taken, Message(Head(out))) /\ wanted' = NoId
  /\ TakeLine /\ UNCHANGED <<todo, reason>>

ReadFails ==
  /\ Reading /\ UNCHANGED <<todo, wanted, taken>>
  /\ \/ HasLine /\ NoMessage(Head(out)) /\ TakeLine /\ reason' = "malformed_response"
     \/ AtEof /\ UNCHANGED serverVars /\ reason' = "server_crash"
     \/ UNCHANGED serverVars /\ reason' = "timeout"

Raised == reason \in {"raised", "invalid"}

\* In the end the replay cannot be written, or it was and is not valid: then the
\* file stays, and replaying it raises again.
EndRaises ==
  /\ Over /\ ~Raised /\ reason' \in {"raised", "invalid"}
  /\ UNCHANGED <<serverVars, todo, wanted, taken>>

ReplaySteps == Send \/ SendFails \/ ReadOn \/ Match \/ ReadFails \/ EndRaises
=============================================================================
