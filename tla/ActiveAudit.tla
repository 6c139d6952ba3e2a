---------------------------- MODULE ActiveAudit -----------------------------
(* mcp-vcr audit --active, ActiveAuditEngine.run: canaries sent to the tools *)
(* of a server that is started again when it is lost. One task; the server   *)
(* acts at any time. A bootstrap (the discovery of Generate on a fresh       *)
(* process) is one action here: a failed one only counts.                    *)
EXTENDS Exchange, FiniteSets

CONSTANTS NumTools,      \* tools the server lists
          Canaries,      \* canaries for each of them
          MaxRestarts,   \* sb_config.max_restarts
          LaunchesCap    \* bound on launches, above all those the budget allows

ASSUME AuditAssumption ==
  /\ NumTools \in Nat \ {0} /\ Canaries \in Nat \ {0}
  /\ MaxRestarts \in Nat /\ LaunchesCap \in Nat

VARIABLES
  pc,        \* "begin", "case", "ready" (_ensure_server_ready returned), "done"
  known,     \* how many tools the first bootstrap discovered
  case,      \* the canary at hand: its tool and its number
  sent,      \* request_counter, from 0
  restarts,  \* restart_count
  findings,  \* [case, verdict, line]: the line the verdict rests on
  launches   \* what happened: processes started

auditVars == <<pc, known, case, sent, restarts, findings, launches>>
vars == <<exchangeVars, auditVars>>

Init ==
  /\ ExchangeInit
  /\ pc = "begin" /\ known = 0 /\ case = [tool |-> 1, slot |-> 1]
  /\ sent = 0 /\ restarts = 0 /\ findings = <<>> /\ launches = 0

NextTool == [tool |-> case.tool + 1, slot |-> 1]
NextCase == IF case.slot < Canaries THEN [case EXCEPT !.slot = @ + 1] ELSE NextTool

Before(c, d) == c.tool < d.tool \/ (c.tool = d.tool /\ c.slot < d.slot)
AllCases == [tool : 1..NumTools, slot : 1..Canaries]

(* ----------------------- _ensure_server_ready -------------------------- *)

WantsServer ==
  /\ Idle /\ ~Running
  /\ pc = "begin" \/ (pc = "case" /\ case.tool <= known)
Exhausted == restarts > MaxRestarts

\* A process found dead between two canaries is replaced; that counts nothing.
Bootstraps ==
  /\ WantsServer /\ ~Exhausted /\ launches < LaunchesCap
  /\ launches' = launches + 1

\* The tools of the first discovery are kept; a server that lists none is done.
\* Nothing is awaited between the end of a bootstrap for a canary and its write.
BootstrapSucceeds ==
  /\ Bootstraps /\ Launched
  /\ pc' = IF pc = "begin" THEN "case" ELSE "ready"
  /\ known' \in IF pc = "begin" THEN {0, NumTools} ELSE {known}
  /\ UNCHANGED <<awaited, case, sent, restarts, findings>>

BugBootstrapFails == Bootstraps /\ Stopped
  /\ UNCHANGED <<awaited, pc, known, case, sent, restarts, findings>>
BootstrapFails ==
  /\ Bootstraps /\ Stopped /\ restarts' = restarts + 1
  /\ UNCHANGED <<awaited, pc, known, case, sent, findings>>

\* The first bootstrap: a result without findings and exit code 1.
NeverBootstrapped ==
  /\ pc = "begin" /\ WantsServer /\ Exhausted /\ pc' = "done"
  /\ UNCHANGED <<exchangeVars, known, case, sent, restarts, findings, launches>>

Judged(verdict, line) == findings' = Append(findings, [case |-> case, verdict |-> verdict, line |-> line])

\* Later: a crash finding, and a break that leaves the loop over the canaries
\* of this tool only; the next tool comes here again.
BugBudgetExhausted ==      \* the break without the finding
  /\ pc = "case" /\ WantsServer /\ Exhausted /\ case' = NextTool
  /\ UNCHANGED <<exchangeVars, pc, known, sent, restarts, findings, launches>>
BudgetExhausted ==
  /\ pc = "case" /\ WantsServer /\ Exhausted
  /\ Judged("exhausted", Nothing) /\ case' = NextTool
  /\ UNCHANGED <<exchangeVars, pc, known, sent, restarts, launches>>

(* ------------------------------ a canary ------------------------------- *)

BugRequest == [id |-> 101, of |-> case]
Request == [id |-> 101 + sent, of |-> case]

CanSend == Idle /\ (pc = "ready" \/ (pc = "case" /\ case.tool <= known /\ Running))

SendCanary ==
  /\ CanSend /\ Sends(Request) /\ sent' = sent + 1 /\ pc' = "ready"
  /\ UNCHANGED <<known, case, restarts, findings, launches>>

SkipOther == SkipLine /\ UNCHANGED auditVars

Concluded == pc' = "case" /\ case' = NextCase /\ UNCHANGED <<known, restarts, launches>>

\* An answer is an error (safe), a result without the marker (safe), with it
\* (vulnerable), or one that merely reflects the payload (error). An error that
\* is no object makes the code raise (misfit); a request of the server with
\* this id has neither an error nor the marker.
Verdict(line) ==
  IF line.kind = "request" THEN "safe"
  ELSE CASE line.body \in {"error", "clean"} -> "safe"
         [] line.body = "marker" -> "vulnerable"
         [] line.body = "reflected" -> "error"
         [] line.body = "misfit" -> "crash"

Answered ==
  /\ \E line \in NextLine :
       Receives(line) /\ Verdict(line) # "crash" /\ Judged(Verdict(line), line)
  /\ Concluded /\ UNCHANGED sent

\* A timeout and every other exception shut the transport down.
BugTimeout ==        \* a deadline that is looked at only when a read ends
  /\ ~Idle /\ (HasLine \/ AtEof) /\ awaited' = Nothing /\ Stopped
  /\ Judged("timeout", Nothing) /\ Concluded /\ UNCHANGED sent
Timeout ==
  /\ ~Idle /\ awaited' = Nothing /\ Stopped
  /\ Judged("timeout", Nothing) /\ Concluded /\ UNCHANGED sent

BugCrashes ==        \* goes on with the next canary and judges nothing
  /\ Raises /\ awaited' = Nothing /\ Stopped
  /\ Concluded /\ UNCHANGED <<sent, findings>>
Crashes ==
  /\ awaited' = Nothing /\ Stopped
  /\ \/ Raises /\ UNCHANGED sent
     \/ CanSend /\ MayFail /\ sent' = sent + 1
     \/ /\ ~Idle /\ UNCHANGED sent
        /\ \E line \in NextLine : Matches(line) /\ Verdict(line) = "crash"
  /\ Judged("crash", Nothing) /\ Concluded
AllCasesDone ==        \* and the finally clause
  /\ pc = "case" /\ case.tool > known /\ pc' = "done" /\ Stopped
  /\ UNCHANGED <<awaited, known, case, sent, restarts, findings, launches>>

Verdicts == {findings[i].verdict : i \in DOMAIN findings}
ExitCode ==            \* of a finished audit; the first case never bootstrapped
  IF (restarts > MaxRestarts /\ known = 0)
     \/ Verdicts \cap {"vulnerable", "crash", "exhausted"} # {} THEN 1 ELSE 0

(* ------------------------------ the system ----------------------------- *)

Engine ==
  \/ BootstrapSucceeds \/ BootstrapFails \/ NeverBootstrapped \/ BudgetExhausted
  \/ SendCanary \/ SkipOther \/ Answered \/ Timeout \/ Crashes \/ AllCasesDone

Server ==
  /\ \/ \E req \in asked : \E body \in {"error", "clean", "marker", "reflected", "misfit"} :
          ServerReplies(req, body) \/ ServerRepeats(req, body)
     \/ ServerNoise \/ ServerExits \/ Reap
  /\ UNCHANGED <<awaited, auditVars>>

Next == Engine \/ Server

Spec == Init /\ [][Next]_vars /\ WF_vars(Engine)

(* ----------------------------- properties ------------------------------ *)

\* The states of the engine; every bootstrap that fails counts, up to one more
\* than the budget.
TypeOK ==
  /\ pc \in {"begin", "case", "ready", "done"} /\ known \in {0, NumTools}
  /\ case \in [tool : 1..(NumTools + 1), slot : 1..Canaries]
  /\ sent \in Nat /\ restarts \in 0..(MaxRestarts + 1)
  /\ \A i \in DOMAIN findings : findings[i].verdict \in
       {"safe", "vulnerable", "error", "timeout", "crash", "exhausted"}

\* Canaries are judged in order and once, and a finished audit leaves one out
\* only behind an "exhausted" of its own tool.
EveryCanaryOnce ==
  /\ \A i, j \in DOMAIN findings : i < j => Before(findings[i].case, findings[j].case)
  /\ pc = "done" /\ known > 0 => \A c \in AllCases : \E i \in DOMAIN findings :
       \/ findings[i].case = c
       \/ findings[i].verdict = "exhausted" /\ findings[i].case.tool = c.tool

\* A verdict about an answer rests on the answer to that canary, whatever comes
\* late or twice from this process or came from one before it; only a request
\* of the server with the same id can stand in for it.
VerdictOfItsCanary ==
  \A i \in DOMAIN findings : LET f == findings[i] IN
    f.line # Nothing => f.line.kind = "request" \/ f.line.to.of = f.case

\* Exit code 0 of an audit with tools means that every canary was judged and
\* none found a vulnerability or lost the server to a crash. Timeouts count for
\* nothing: an audit in which every canary timed out is as clean.
CleanAuditIsHonest ==
  pc = "done" /\ known > 0 /\ ExitCode = 0 =>
    /\ Len(findings) = NumTools * Canaries
    /\ Verdicts \subseteq {"safe", "error", "timeout"}

\* What --max-restarts bounds is the bootstraps that fail. A process lost to a
\* timeout, a crash or an exit is replaced without counting, once for each
\* canary at most: their number bounds the launches of an audit.
LaunchesAccounted ==
  launches <= restarts + 1 + sent + IF pc = "ready" /\ Idle THEN 1 ELSE 0

\* What the help of the option says of it (cli.py:1819) is "Max server restarts
\* during active audit on crash/timeout". A server that runs has been started
\* again after every canary that crashed or timed out; there would then be no
\* more of those than the budget. There are: see LaunchesAccounted.
RestartsWithinBudget ==
  Running => Cardinality({i \in DOMAIN findings :
                 findings[i].verdict \in {"crash", "timeout"}}) <= MaxRestarts

\* The audit ends, whatever the server does: every wait has a deadline, every
\* retry a budget or a canary; and it leaves no server behind.
AuditEnds == <>(pc = "done" /\ server = "none")
=============================================================================
