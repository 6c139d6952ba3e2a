------------------------------- MODULE Fuzzer -------------------------------
(***************************************************************************)
(* `mcp-vcr fuzz`: FuzzEngine.run_fuzz (fuzzer.py).  The engine sends one   *)
(* mutated message after the other to a live server and judges each by     *)
(* what it reads next; a server that crashed or timed out is replaced,     *)
(* within a budget.  The server, its pipes and the clock are external.     *)
(*                                                                         *)
(* A bootstrap (launch, initialize, tools/list) is one action: nothing of   *)
(* the engine runs beside it, and a failed one ends with shutdown() and     *)
(* another try.  transport.shutdown() kills the server and drops its pipes, *)
(* as Proxy shows.                                                          *)
(***************************************************************************)
EXTENDS Naturals, Sequences

CONSTANTS
  Sources,      \* source messages: their mutations carry the source's id
  NumCases,     \* how many mutations are generated
  MaxRestarts,  \* --max-restarts
  WallClock,    \* a wall clock limit is set
  MaxNoise      \* bound: lines that answer no case, over the whole run

(***************************************************************************)
(* A mutation: one of a source message, whose id it keeps, or one that      *)
(*   raw   is no JSON: the engine accepts any id                            *)
(*   big   is longer than max_payload_bytes                                 *)
(* If a source has no id, the engine expects a number of its own, which the *)
(* server does not know: that is a source whose replies all have a null id. *)
(***************************************************************************)
Mutation == Sources \cup {"raw", "big"}

ASSUME SourcesAssumption == Sources \cap {"raw", "big", "null"} = {}
ASSUME BoundsAssumption ==
  /\ NumCases \in Nat /\ MaxRestarts \in Nat /\ MaxNoise \in Nat
  /\ WallClock \in BOOLEAN

Case == 1..NumCases

(***************************************************************************)
(* A line of the server: a reply to case `of` with an id and an outcome, or *)
(*   note  blank, or an object without an id                                *)
(*   junk  no JSON, no object, or an id of the server's own                 *)
(*   long  readline raises                                                  *)
(*   deep  json.loads raises something that is not a JSONDecodeError        *)
(***************************************************************************)
Noise == {"note", "junk", "long", "deep"}
Outcome == {"error", "result", "neither"}
Reply == [kind : {"reply"}, of : Case, id : Sources \cup {"null"},
          outcome : Outcome]
NoiseLine == [kind : Noise]

\* An outcome: "error" is a valid error, "result" a result or a malformed
\* error, "neither" anything else.
\* `of` is the case whose reply a verdict rests on, or 0.
Verdict == {"pass", "fail", "crash", "timeout", "skipped", "protocol_error"}
Result == [verdict : Verdict, of : 0..NumCases, launch : Nat]

VARIABLES
  mutations,     \* the mutations, fixed by the transcript and the seed
  pc,            \* "ensure", "boot", "next", "ready", "drain", "await" or
                 \* "ended"
  case,          \* the current case; 0 during the first bootstrap
  transport,     \* _current_transport is set
  needsRestart,  \* _needs_restart
  restarts,      \* _restart_count
  results,       \* results
  outcome,       \* "running", "complete", "aborted" or "raised"
  srv,           \* the server: "none", "up", "exited" or "reaped"
  pipe,          \* cases written and not read by the server
  inbox,         \* cases the server has read and not answered
  out,           \* lines of the server the engine has not read
  noise,         \* noise lines written
  launches,      \* attempts to launch a server
  quiet          \* servers replaced although no case had found them dead

engineVars == <<case, transport, needsRestart, restarts, results, outcome>>
serverVars == <<srv, pipe, inbox, out>>
countVars == <<noise, launches, quiet>>
vars == <<mutations, pc, case, transport, needsRestart, restarts, results,
          outcome, srv, pipe, inbox, out, noise, launches, quiet>>

Init ==
  /\ mutations \in [Case -> Mutation]
  /\ pc = "ensure" /\ case = 0
  /\ transport = FALSE /\ needsRestart = FALSE /\ restarts = 0
  /\ results = <<>> /\ outcome = "running"
  /\ srv = "none" /\ pipe = <<>> /\ inbox = {} /\ out = <<>>
  /\ noise = 0 /\ launches = 0 /\ quiet = 0

-----------------------------------------------------------------------------
(* The server: external.                                                    *)

ServerReads ==
  /\ srv = "up" /\ pipe # <<>>
  /\ inbox' = inbox \cup {Head(pipe)}
  /\ pipe' = Tail(pipe)
  /\ UNCHANGED <<mutations, pc, engineVars, srv, out, countVars>>

\* At most one reply to a case.  Its id is null if the server found none, as
\* in what it could not parse.
ServerReplies(c, id, answer) ==
  /\ srv = "up" /\ c \in inbox
  /\ id \in {"null"} \cup ({mutations[c]} \cap Sources)
  /\ inbox' = inbox \ {c}
  /\ out' = Append(out,
       [kind |-> "reply", of |-> c, id |-> id, outcome |-> answer])
  /\ UNCHANGED <<mutations, pc, engineVars, srv, pipe, countVars>>

ServerNoise(kind) ==
  /\ srv = "up" /\ noise < MaxNoise
  /\ noise' = noise + 1
  /\ out' = Append(out, [kind |-> kind])
  /\ UNCHANGED <<mutations, pc, engineVars, srv, pipe, inbox, launches, quiet>>

ServerExits ==
  /\ srv = "up"
  /\ srv' = "exited"
  /\ UNCHANGED <<mutations, pc, engineVars, pipe, inbox, out, countVars>>

\* asyncio collects the exit status: server_running is false from here on.
Reap ==
  /\ srv = "exited"
  /\ srv' = "reaped"
  /\ UNCHANGED <<mutations, pc, engineVars, pipe, inbox, out, countVars>>

-----------------------------------------------------------------------------
(* _ensure_server_ready.  A definition whose name begins with Bug is a      *)
(* plausible mistake in the one after it and no part of the model;          *)
(* PROJECT.json names the property that finds it.                           *)

NoServer == srv' = "none" /\ pipe' = <<>> /\ inbox' = {} /\ out' = <<>>

StillReady ==
  /\ pc = "ensure"
  /\ transport /\ ~needsRestart /\ srv # "reaped"
  /\ pc' = "ready"
  /\ UNCHANGED <<mutations, engineVars, serverVars, countVars>>

BugReplaceUncounted ==   \* a restart is not counted
  /\ pc = "ensure"
  /\ ~transport \/ needsRestart \/ srv = "reaped"
  /\ pc' = "boot"
  /\ transport' = FALSE /\ NoServer
  /\ needsRestart' = FALSE
  /\ UNCHANGED <<mutations, case, restarts, results, outcome, noise, launches,
                 quiet>>

\* The old transport is shut down.  A server found dead here, which no case
\* had found dead, is replaced without counting.
Replace ==
  /\ pc = "ensure"
  /\ ~transport \/ needsRestart \/ srv = "reaped"
  /\ pc' = "boot"
  /\ transport' = FALSE /\ NoServer
  /\ restarts' = IF needsRestart THEN restarts + 1 ELSE restarts
  /\ needsRestart' = FALSE
  /\ quiet' = IF transport /\ ~needsRestart THEN quiet + 1 ELSE quiet
  /\ UNCHANGED <<mutations, case, results, outcome, noise, launches>>

Budget == restarts <= MaxRestarts
LaunchesCap == MaxRestarts + NumCases + 2   \* where the counter stops
Launched == IF launches < LaunchesCap THEN launches + 1 ELSE launches

BootstrapSucceeds ==
  /\ pc = "boot" /\ Budget
  /\ pc' = IF case = 0 THEN "next" ELSE "ready"
  /\ transport' = TRUE /\ srv' = "up"
  /\ launches' = Launched
  /\ UNCHANGED <<mutations, case, needsRestart, restarts, results, outcome,
                 pipe, inbox, out, noise, quiet>>

\* The server cannot be launched, rejects a request, times out or exits.
BootstrapFails ==
  /\ pc = "boot" /\ Budget
  /\ restarts' = restarts + 1
  /\ launches' = Launched
  /\ UNCHANGED <<mutations, pc, case, transport, needsRestart, results,
                 outcome, serverVars, noise, quiet>>

\* finally: the transport is shut down.
End(how) ==
  /\ pc' = "ended" /\ outcome' = how
  /\ transport' = FALSE /\ NoServer

\* The first handshake succeeds, and the server's list of tools is null.
NoTools ==
  /\ pc = "boot" /\ Budget /\ case = 0
  /\ launches' = Launched
  /\ End("aborted")
  /\ UNCHANGED <<mutations, case, needsRestart, restarts, results, noise,
                 quiet>>

\* No handshake within the budget: before the first case, or in the middle.
BudgetExhausted ==
  /\ pc = "boot" /\ ~Budget
  /\ End("aborted")
  /\ UNCHANGED <<mutations, case, needsRestart, restarts, results, countVars>>

-----------------------------------------------------------------------------
(* The loop over the cases.                                                 *)

NextCase ==
  /\ pc = "next" /\ case < NumCases
  /\ case' = case + 1 /\ pc' = "ensure"
  /\ UNCHANGED <<mutations, transport, needsRestart, restarts, results,
                 outcome, serverVars, countVars>>

WallClockExceeded ==
  /\ WallClock /\ pc = "next" /\ case < NumCases
  /\ End("aborted")
  /\ UNCHANGED <<mutations, case, needsRestart, restarts, results, countVars>>

AllCasesDone ==
  /\ pc = "next" /\ case = NumCases
  /\ End("complete")
  /\ UNCHANGED <<mutations, case, needsRestart, restarts, results, countVars>>

Judge(verdict, of) ==
  /\ results' = Append(results,
                       [verdict |-> verdict, of |-> of, launch |-> launches])
  /\ pc' = "next"
  /\ UNCHANGED <<mutations, case, restarts, outcome, countVars>>

\* The server is replaced before the next case; what it wrote is not read.
JudgeDead(verdict) ==
  /\ Judge(verdict, 0)
  /\ needsRestart' = TRUE

BugSkipLate ==   \* the size is checked after the write
  /\ pc = "ready" /\ mutations[case] = "big"
  /\ Judge("skipped", 0)
  /\ pipe' = Append(pipe, case)
  /\ UNCHANGED <<transport, needsRestart, srv, inbox, out>>

Skip ==
  /\ pc = "ready" /\ mutations[case] = "big"
  /\ Judge("skipped", 0)
  /\ UNCHANGED <<transport, needsRestart, serverVars>>

\* write_to_server: the line is written, and drain() may suspend.
WriteCase ==
  /\ pc = "ready" /\ mutations[case] # "big"
  /\ pipe' = Append(pipe, case)
  /\ pc' \in {"drain", "await"}
  /\ UNCHANGED <<mutations, engineVars, srv, inbox, out, countVars>>

BugWriteFailsUnjudged ==   \* the loop goes on without a result
  /\ pc = "drain" \/ (pc = "ready" /\ mutations[case] # "big")
  /\ srv # "up"
  /\ pc' = "next" /\ needsRestart' = TRUE
  /\ UNCHANGED <<mutations, case, transport, restarts, results, outcome,
                 serverVars, countVars>>

\* It raises: the pipe to the server was lost.
WriteFails ==
  /\ pc = "drain" \/ (pc = "ready" /\ mutations[case] # "big")
  /\ srv # "up"
  /\ JudgeDead("crash")
  /\ UNCHANGED <<transport, serverVars>>

DrainReturns ==
  /\ pc = "drain" /\ pipe = <<>>
  /\ pc' = "await"
  /\ UNCHANGED <<mutations, engineVars, serverVars, countVars>>

-----------------------------------------------------------------------------
(* The loop that waits for a response.                                      *)

Read(kind) ==
  /\ pc = "await" /\ out # <<>> /\ Head(out).kind = kind
  /\ out' = Tail(out)
  /\ UNCHANGED <<srv, pipe, inbox>>

ReadNote ==
  /\ Read("note")
  /\ UNCHANGED <<mutations, pc, engineVars, countVars>>

ReadJunk ==
  /\ Read("junk")
  /\ Judge("protocol_error", 0)
  /\ UNCHANGED <<transport, needsRestart>>

ReadLong ==
  /\ Read("long")
  /\ JudgeDead("crash")
  /\ UNCHANGED transport

\* The exception leaves run_fuzz, and the results are lost with it.
ReadDeep ==
  /\ pc = "await" /\ out # <<>> /\ Head(out).kind = "deep"
  /\ End("raised")
  /\ UNCHANGED <<mutations, case, needsRestart, restarts, results, countVars>>

\* The reply is for this case, as far as its id tells.
Accepts(line) ==
  /\ mutations[case] = "raw" \/ line.id = mutations[case]
  /\ line.outcome # "neither"

ReadReply ==
  LET line == Head(out) IN
  /\ Read("reply")
  /\ Judge(IF ~Accepts(line) THEN "protocol_error"
           ELSE IF line.outcome = "error" THEN "pass" ELSE "fail", line.of)
  /\ UNCHANGED <<transport, needsRestart>>

ReadEof ==
  /\ pc = "await" /\ out = <<>> /\ srv \in {"exited", "reaped"}
  /\ JudgeDead("crash")
  /\ UNCHANGED <<transport, serverVars>>

BugTimeoutKeeps ==   \* the server that timed out is kept
  /\ pc = "await"
  /\ Judge("timeout", 0)
  /\ UNCHANGED <<transport, needsRestart, serverVars>>

BugDeadlineBetweenReads ==   \* the read itself has no time limit
  /\ pc = "await" /\ out # <<>>
  /\ JudgeDead("timeout")
  /\ transport' = FALSE /\ NoServer

\* No response in time: the server is shut down at once.
Timeout ==
  /\ pc = "await"
  /\ JudgeDead("timeout")
  /\ transport' = FALSE /\ NoServer

-----------------------------------------------------------------------------
Server ==
  \/ ServerReads
  \/ \E c \in Case, id \in Sources \cup {"null"}, answer \in Outcome :
       ServerReplies(c, id, answer)
  \/ \E kind \in Noise : ServerNoise(kind)
  \/ ServerExits

Engine ==
  \/ StillReady \/ Replace \/ BootstrapSucceeds \/ BootstrapFails
  \/ NoTools \/ BudgetExhausted
  \/ NextCase \/ WallClockExceeded \/ AllCasesDone
  \/ Skip \/ WriteCase \/ WriteFails \/ DrainReturns
  \/ ReadNote \/ ReadJunk \/ ReadLong \/ ReadDeep \/ ReadReply \/ ReadEof
  \/ Timeout

Next == Server \/ Reap \/ Engine

Spec == Init /\ [][Next]_vars

(* The event loop runs the engine, whose timers expire, and reaps children. *)
(* Of the server it is assumed only that it reads its input while it is up: *)
(* a write has no time limit, every wait for a response has one.            *)
FairSpec ==
  Spec /\ WF_vars(Engine) /\ WF_vars(Reap) /\ WF_vars(ServerReads)

-----------------------------------------------------------------------------
ExitCode ==
  IF outcome = "aborted" THEN 2
  ELSE IF \E i \in 1..Len(results) :
            results[i].verdict \notin {"pass", "skipped"} THEN 1
  ELSE 0

(* Every variable has its type, and the restarts never exceed the budget by *)
(* more than the one that exhausts it.                                      *)
TypeOK ==
  /\ mutations \in [Case -> Mutation]
  /\ pc \in {"ensure", "boot", "next", "ready", "drain", "await", "ended"}
  /\ case \in 0..NumCases
  /\ transport \in BOOLEAN /\ needsRestart \in BOOLEAN
  /\ restarts \in 0..(MaxRestarts + 1)
  /\ results \in Seq(Result)
  /\ outcome \in {"running", "complete", "aborted", "raised"}
  /\ srv \in {"none", "up", "exited", "reaped"}
  /\ pipe \in Seq(Case) /\ inbox \subseteq Case
  /\ out \in Seq(Reply \cup NoiseLine)
  /\ noise \in 0..MaxNoise /\ launches \in 0..LaunchesCap /\ quiet \in Nat

(* Every case is judged once and in order, whichever way it ends, and a     *)
(* complete report has judged them all.                                     *)
EveryCaseOnce ==
  /\ pc = "next" => Len(results) = case
  /\ pc \in {"ensure", "boot", "ready", "drain", "await"} /\ case # 0 =>
       Len(results) = case - 1
  /\ outcome = "complete" => Len(results) = NumCases

(* A verdict rests on the reply to another case only behind a protocol      *)
(* error of the same server: every other way to end a case either consumes  *)
(* the reply or throws the server away with what it still has to say.       *)
StaleOnlyAfterProtocolError ==
  \A i \in 1..Len(results) :
    results[i].of \notin {0, i} =>
      /\ results[i].of < i
      /\ \E j \in 1..(i - 1) :
           /\ results[j].verdict = "protocol_error"
           /\ results[j].launch = results[i].launch

(* Exit code 0 can be trusted: the server answered each case that was sent  *)
(* with an error, and no stale reply stood in for an answer.                *)
CleanRunIsHonest ==
  outcome = "complete" /\ ExitCode = 0 =>
    \A i \in Case :
      results[i].of = IF mutations[i] = "big" THEN 0 ELSE i

(* --max-restarts bounds the attempts to launch a server, but for those     *)
(* that replace one which exited between two cases: no other loss is free.  *)
LaunchesAccounted ==
  /\ launches <= 1 + restarts + quiet
  /\ quiet <= NumCases

(* The run ends, whatever the server answers and however it fails, and      *)
(* whatever ends it leaves no server behind.                                *)
RunEnds == <>(pc = "ended" /\ srv = "none" /\ ~transport)
=============================================================================
