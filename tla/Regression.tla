----------------------------- MODULE Regression -----------------------------
(* The commands over a recorded session: snapshot, verify, verify --update,  *)
(* check and replay --strict, run one after another against a server that is *)
(* changed at most once. A session is replayed, its replay is normalised if  *)
(* it is to be compared with a golden snapshot, and the two are compared.    *)
EXTENDS Replay, Normalizer

CONSTANT MaxCommands

ASSUME RegressionAssumption == MaxCommands \in Nat /\ RequestIds \subseteq Nat

Absent == <<[dir |-> "none"]>>
Nowhere == [src |-> Absent, version |-> 0]

VARIABLES
  session,    \* the recorded transcript, sessions/session_<time>_<id>.yaml
  volatile,   \* the server's answers hold new UUIDs and instants
  nested,     \* the server's answers hold an "id" of their own
  kept,       \* sessions/ is there
  replays,    \* the replay transcripts that were left in it
  golden,     \* snapshots/<id>_golden.yaml
  version,    \* of the server
  cmd,        \* the command that runs, or "idle"
  queue,      \* matched_paths left to check, the first one being replayed
  source,     \* the transcript that is replayed
  complete,   \* every replay of the command so far was complete
  exit,       \* its exit code so far
  last,       \* the last command
  ran,        \* commands run
  settled     \* the source and the version golden was last found to match

worldVars == <<session, volatile, nested>>
filesVars == <<kept, replays, golden>>
commandVars == <<cmd, queue, source, complete, exit, last, ran, settled>>
regressionVars == <<serverVars, replayVars, worldVars, filesVars, version, commandVars>>

(* ------------------------ recorded sessions ---------------------------- *)

Answer(v, run, n) ==
  <<Leaf("text", v)>>
    \o (IF nested THEN <<Leaf("id", 5)>> ELSE <<>>)
    \o (IF volatile THEN <<Leaf("stamp", run), Leaf("uuid", 10 * run + n)>> ELSE <<>>)

Request(n, leaves) == [dir |-> "c2s", kind |-> "request", id |-> n, leaves |-> leaves]
Recorded(n) == [dir |-> "s2c", kind |-> "reply", id |-> n, leaves |-> Answer(1, 0, n)]
Client(kind, n) == [dir |-> "c2s", kind |-> kind, id |-> n, leaves |-> <<>>]
Asked(n) == [dir |-> "s2c", kind |-> "request", id |-> n, leaves |-> <<>>]

\* One request after the other, pipelined, answered in another order, without
\* the last answer, and with a request of the server. An argument may be an id.
Recordings(leaves) ==
  LET q1 == Request(1, leaves)
      q2 == Request(2, <<>>)
  IN {<<q1, Recorded(1), Client("note", NoId), q2, Recorded(2)>>,
      <<q1, q2, Recorded(1), Recorded(2)>>, <<q1, q2, Recorded(2), Recorded(1)>>,
      <<q1, Recorded(1), q2>>,
      <<q1, Asked(2), Recorded(1), Client("answer", 2)>>}

RegressionInit ==
  /\ ReplayInit
  /\ volatile \in BOOLEAN /\ nested \in BOOLEAN
  /\ session \in Recordings(<<>>) \cup Recordings(<<Leaf("id", 6)>>)
  /\ kept = TRUE /\ replays = <<>> /\ golden = Absent /\ version = 1
  /\ cmd = "idle" /\ queue = <<>> /\ source = Absent /\ complete = TRUE
  /\ exit = 0 /\ last = "none" /\ ran = 0 /\ settled = Nowhere

Idle == cmd = "idle"

ServerChanges ==        \* the last command was about the old server
  /\ Idle /\ version = 1 /\ version' = 2 /\ last' = "none"
  /\ UNCHANGED <<serverVars, replayVars, worldVars, filesVars, cmd, queue, source,
                 complete, exit, ran, settled>>

\* A checkout that has the snapshots only.
SessionsRemoved ==
  /\ Idle /\ golden # Absent /\ kept /\ kept' = FALSE /\ replays' = <<>>
  /\ UNCHANGED <<serverVars, replayVars, worldVars, golden, version, commandVars>>

(* --------------------------- the commands ------------------------------ *)

\* run_snapshot of the session: the golden file is written to a temporary one,
\* validated and moved into place, over the one that was there.
Snapshot ==
  /\ Idle /\ kept /\ golden' = Normalized(session)
  /\ last' = "none" /\ settled' = Nowhere
  /\ UNCHANGED <<serverVars, replayVars, worldVars, kept, replays, version, cmd, queue,
                 source, complete, exit, ran>>

Starts(name, files) ==
  /\ Idle /\ ran < MaxCommands /\ ran' = ran + 1
  /\ cmd' = name /\ last' = name /\ exit' = 0 /\ complete' = TRUE
  /\ queue' = files /\ source' = Head(files) /\ ReplayStarts(Head(files))
  /\ UNCHANGED <<worldVars, filesVars, version, settled>>

\* find_source_session: any file of sessions/ whose name holds the session's id,
\* a replay's too, in the order of the directory; the golden file if there is none.
Sources == IF kept THEN {session} \cup ToSet(replays) ELSE {golden}

Verify == golden # Absent /\ \E src \in Sources : Starts("verify", <<src>>)
Update == golden # Absent /\ \E src \in Sources : Starts("update", <<src>>)
Check  == kept /\ Starts("check", Append(replays, session))
ReplayStrict == kept /\ Starts("replay", <<session>>)

RunStep ==
  /\ ~Idle /\ (ReplaySteps \/ StartRaises(source))
  /\ UNCHANGED <<worldVars, filesVars, version, commandVars>>

ServerStep ==
  /\ ~Idle
  /\ \/ \E req \in asked : ServerReplies(req, Answer(version, ran, req.id))
     \/ ServerNoise
     \/ ServerExits
  /\ UNCHANGED <<replayVars, worldVars, filesVars, version, commandVars>>

(* ---------------- what a command does with a replay -------------------- *)

Ready == ~Idle /\ Over
\* The replay stays beside its source, or only if it is not valid.
Left == IF reason = "raised" THEN replays ELSE Append(replays, taken)
Spoiled == IF reason = "invalid" /\ kept THEN Append(replays, taken) ELSE replays
Ended ==
  /\ Stopped /\ cmd' = "idle"
  /\ todo' = <<>> /\ wanted' = NoId /\ taken' = <<>> /\ reason' = "none"
Matches(from, replay) == reason = "none" /\ Changes(from, replay) = {}

Settled(new) == [src |-> IF source = golden THEN new ELSE source, version |-> version]
\* _run_verify_impl for one golden file. The replay and its normalised form are
\* removed whatever happens, unless run_replay raised and its path is not known.
VerifyJudged ==
  /\ Ready /\ cmd = "verify" /\ Ended
  /\ exit' = (IF Matches(golden, Normalized(taken)) THEN 0 ELSE 1)
  /\ complete' = (reason = "none")
  /\ settled' = IF exit' = 0 THEN Settled(golden) ELSE settled
  /\ replays' = Spoiled
  /\ UNCHANGED <<worldVars, kept, golden, version, queue, source, last, ran>>

\* The requests of the source and the new responses, ordered by their times (the
\* order between the two directions changes nothing later). The temporary file
\* may fail to be written or validated; the golden file is then the old one.
BugMergedRaw == C2S(source) \o taken       \* merges the replay as it was read
Merged == C2S(source) \o Sent(Normalized(taken), "s2c")

BugUpdateJudged ==      \* an incomplete replay is an update like any other
  /\ Ready /\ cmd = "update" /\ Ended /\ complete' = (reason = "none")
  /\ exit' = 0 /\ golden' = IF Changes(golden, Normalized(taken)) = {} THEN golden ELSE Merged
  /\ settled' = Settled(golden') /\ replays' = Spoiled
  /\ UNCHANGED <<worldVars, kept, version, queue, source, last, ran>>
UpdateJudged ==
  /\ Ready /\ cmd = "update" /\ Ended /\ complete' = (reason = "none")
  /\ \/ /\ reason # "none" /\ exit' = 1 /\ UNCHANGED <<golden, settled>>
     \/ /\ reason = "none" /\ exit' = 0
        /\ golden' = IF Matches(golden, Normalized(taken)) THEN golden ELSE Merged
        /\ settled' = Settled(golden')
     \/ /\ reason = "none" /\ ~Matches(golden, Normalized(taken))
        /\ exit' = 1 /\ UNCHANGED <<golden, settled>>
  /\ replays' = Spoiled
  /\ UNCHANGED <<worldVars, kept, version, queue, source, last, ran>>

\* check: the next file is replayed.
CheckJudged ==
  /\ Ready /\ cmd = "check"
  /\ replays' = Left
  /\ exit' = IF Matches(source, taken) THEN exit ELSE 1
  /\ complete' = (complete /\ reason = "none")
  /\ queue' = Tail(queue)
  /\ IF queue' = <<>> THEN Ended /\ UNCHANGED source
     ELSE source' = Head(queue') /\ ReplayStarts(source') /\ UNCHANGED cmd
  /\ UNCHANGED <<worldVars, kept, golden, version, last, ran, settled>>

ReplayJudged ==
  /\ Ready /\ cmd = "replay" /\ Ended
  /\ replays' = Left
  /\ exit' = IF Matches(source, taken) THEN 0 ELSE 1
  /\ complete' = (reason = "none")
  /\ UNCHANGED <<worldVars, kept, golden, version, queue, source, last, ran, settled>>

Judged == VerifyJudged \/ UpdateJudged \/ CheckJudged \/ ReplayJudged

RegressionNext ==
  \/ Snapshot \/ Verify \/ Update \/ Check \/ ReplayStrict
  \/ RunStep \/ Judged
  \/ ServerStep \/ ServerChanges \/ SessionsRemoved

RegressionSpec == RegressionInit /\ [][RegressionNext]_regressionVars

(* ----------------------------- properties ------------------------------ *)

\* Messages of the server that answer a request, and what they say.
Replies(msgs) == {i \in DOMAIN msgs : msgs[i].dir = "s2c" /\ msgs[i].kind = "reply"}
Says(msgs, v) == \A i \in Replies(msgs) : Head(msgs[i].leaves) = Leaf("text", v)

\* The last command replayed the recorded session to its end, against a server
\* that has not changed and has written nothing but its answers.
Quiet == noise = MaxNoise
Unchanged == Idle /\ complete /\ Quiet /\ version = 1 /\ source = session

\* A session on which the placeholders of the session and of its replay agree:
\* no request of the server, every answer there and in the order of the requests,
\* no id among the arguments, and none in the answers if it is pipelined.
Plain ==
  LET is(i, d, k) == session[i].dir = d /\ session[i].kind = k
      asks(i) == is(i, "c2s", "request")
      answers(i, j) == is(j, "s2c", "reply") /\ session[j].id = session[i].id
  IN /\ \A i \in DOMAIN session :
          ~is(i, "s2c", "request") /\ (asks(i) => \E j \in DOMAIN session : answers(i, j))
     /\ \A i, j, k, l \in DOMAIN session :
          (asks(i) /\ asks(j) /\ answers(i, k) /\ answers(j, l) /\ i < j) => k < l
     /\ Head(session).leaves = <<>> /\ (nested => ~asks(2))

\* verify against an unchanged server passes on the sessions the placeholders
\* fit, if the golden file is the snapshot of the session.
UnchangedPasses ==
  (Unchanged /\ Plain /\ last = "verify" /\ golden = Normalized(session)) => exit = 0

\* A command that exits 0 has seen the server say what was recorded: verify what
\* the golden file says, check and replay --strict what the session says.
PassIsTrue ==
  (Idle /\ exit = 0) =>
    /\ last = "verify" => Says(golden, version)
    /\ last \in {"check", "replay"} => Says(session, version)

\* After verify --update (or a verify that passed) a verify against the same
\* server passes, whatever the session is like, if it replays the same source.
UpdateSettles ==
  (Idle /\ last = "verify" /\ complete /\ Quiet
     /\ settled = [src |-> source, version |-> version]) => exit = 0

WithId(msgs, d) == Cardinality({i \in DOMAIN msgs : msgs[i].dir = d /\ msgs[i].id # NoId})

\* The golden file keeps the requests of the session through every update, so
\* that it can be replayed without it, and an update never leaves a request in
\* it without a response, as a replay that was cut short would; except after an
\* update that took a replay left in sessions/ for the session.
UpdateKeepsGolden ==
  golden # Absent =>
    \/ /\ [i \in DOMAIN C2S(golden) |-> C2S(golden)[i].kind]
            = [i \in DOMAIN C2S(session) |-> C2S(session)[i].kind]
       /\ golden = Normalized(session) \/ WithId(golden, "c2s") <= WithId(golden, "s2c")
    \/ C2S(settled.src) = <<>>

\* Architecture.md:108: the exit code of verify is 0 if the responses match the
\* recorded transcript. It is not for a session in which every request has its
\* answer and an "id" in a payload shifts the numbers of the ids behind it.
VerifyUnchanged ==
  (Unchanged /\ last = "verify" /\ golden = Normalized(session)
     /\ DOMAIN Responses(session)
          = {C2S(session)[i].id : i \in DOMAIN C2S(session)} \ {NoId}) => exit = 0

\* docs/pytest-integration.md:73: check exits 0 if all replays are complete. The
\* replays a check leaves beside the session are checked by the next one.
CheckRepeats ==
  (Idle /\ last = "check" /\ complete /\ Quiet /\ version = 1 /\ Plain /\ ~volatile)
    => exit = 0
=============================================================================
