------------------------------ MODULE Generate ------------------------------
(* mcp-vcr generate: GeneratorEngine.discover and call_tools against a live  *)
(* server, build_transcript, and write_snapshot. One task, so an action runs *)
(* from one await to the next; the server and a crash interleave with it.    *)
EXTENDS Exchange, FiniteSets, SequencesExt

CONSTANT MaxPages   \* MAX_TOOLS_LIST_PAGES

ASSUME GenerateAssumption == MaxPages \in Nat \ {0}

NoCursor == 0
EmptyPage == [tools |-> <<>>, cursor |-> NoCursor]

VARIABLES
  pc,       \* the step of run_generate that is running
  plan,     \* the flags and the prompt: "dry run", "no calls" or "calls"
  pages,    \* tools_list_pages: the request and the line taken for its answer
  seen,     \* seen_cursors
  results,  \* one per tool: the request, the line taken for its answer, a status
  broken,   \* transport_broken
  first,    \* the line taken for the answer to initialize
  temp,     \* the temporary file: "none", "partial", "whole"
  golden,   \* the snapshot: "old" (or absent), "new"
  exit      \* the exit code; 2 is a traceback

commandVars == <<pc, plan, pages, seen, results, broken, first>>
fileVars == <<temp, golden, exit>>
vars == <<exchangeVars, commandVars, fileVars>>

Init ==
  /\ ExchangeInit
  /\ pc = "start" /\ plan \in {"dry run", "no calls", "calls"}
  /\ pages = <<>> /\ seen = {} /\ results = <<>> /\ broken = FALSE /\ first = Nothing
  /\ temp = "none" /\ golden = "old" /\ exit = 0

\* What an answer says: a result, an error, or a result that is null. A cursor
\* is a number; a new one is the next number, which one does not matter. A page
\* holds a tool or none; the last may hold an entry that is no object.
Answer(status, page) == [status |-> status, page |-> page]
PageWith(tools, cursor) == [tools |-> tools, cursor |-> cursor]

Bodies(req) ==
  CASE req.of = "initialize" -> {Answer(s, EmptyPage) : s \in {"ok", "error", "null"}}
    [] req.of = "list" ->
         {Answer("ok", PageWith(tools, c)) :
            tools \in {<<>>, <<"tool">>}, c \in 0..(Cardinality(seen) + 1)}
         \cup {Answer("ok", PageWith(<<"scalar">>, NoCursor)), Answer("error", EmptyPage)}
    [] req.of = "call" -> {Answer(s, EmptyPage) : s \in {"ok", "error"}}

Tools == FlattenSeq([i \in DOMAIN pages |-> pages[i].page.tools])

\* The result of an answer: a request of the server taken for one has none, so
\* the code reads an empty object.
Result(line) == IF line.kind = "reply" THEN line.body ELSE Answer("ok", EmptyPage)

(* --------------------------- discover ---------------------------------- *)

Start ==
  /\ pc = "start" /\ Launched /\ pc' = "initialize"
  /\ UNCHANGED <<awaited, plan, pages, seen, results, broken, first, fileVars>>

Initialize ==
  /\ pc = "initialize" /\ Sends([id |-> 1, of |-> "initialize"])
  /\ UNCHANGED <<commandVars, fileVars>>

Initialized ==          \* then notifications/initialized, answered by nothing
  /\ pc = "initialize"
  /\ \E line \in NextLine :
       /\ Receives(line) /\ Result(line).status = "ok"
       /\ first' = line
  /\ pc' = "list"
  /\ UNCHANGED <<plan, pages, seen, results, broken, fileVars>>

\* req_id and params.cursor follow from the pages already fetched.
PageRequest ==
  [id |-> 2 + Len(pages), of |-> "list",
   cursor |-> IF pages = <<>> THEN NoCursor ELSE Last(pages).page.cursor]

ListTools ==
  /\ pc = "list" /\ Sends(PageRequest) /\ UNCHANGED <<commandVars, fileVars>>
MorePages(page, n) ==
  page.cursor # NoCursor /\ page.cursor \notin seen /\ n < MaxPages

PageReceived ==
  /\ pc = "list"
  /\ \E line \in NextLine : LET page == Result(line).page IN
       /\ Receives(line) /\ Result(line).status = "ok"
       /\ pages' = Append(pages, [req |-> awaited, line |-> line, page |-> page])
       /\ IF MorePages(page, Len(pages) + 1)
            THEN seen' = seen \cup {page.cursor} /\ pc' = "list"
            ELSE UNCHANGED seen /\ pc' = "echo"
  /\ UNCHANGED <<plan, results, broken, first, fileVars>>

\* Any exception of discover: an error or null answer to initialize, an error
\* for a page, the end of the output, a timeout. The command shuts down.
BugDiscoverFails ==     \* no deadline for the answers
  /\ pc \in {"initialize", "list"}
  /\ \/ \E line \in NextLine : Receives(line) /\ Result(line).status # "ok"
     \/ ReceiveRaises
     \/ SendRaises
  /\ pc' = "failed" /\ exit' = 1
  /\ UNCHANGED <<plan, pages, seen, results, broken, first, temp, golden>>
DiscoverFails ==
  /\ pc \in {"initialize", "list"}
  /\ \/ \E line \in NextLine :
          Receives(line) /\ Result(line).status # "ok"
     \/ ReceiveRaises
     \/ TimesOut
     \/ SendRaises
  /\ pc' = "failed" /\ exit' = 1
  /\ UNCHANGED <<plan, pages, seen, results, broken, first, temp, golden>>

BugReturnsAfterFailure ==
  /\ pc = "failed" /\ pc' = "done"
  /\ UNCHANGED <<exchangeVars, plan, pages, seen, results, broken, first, fileVars>>
ShutdownAfterFailure ==
  /\ pc = "failed" /\ Stopped /\ pc' = "done"
  /\ UNCHANGED <<awaited, plan, pages, seen, results, broken, first, fileVars>>

(* -------------------- the command between the two ---------------------- *)

\* _echo_tool_list raises on an entry that is no object, before any try.
EchoRaises ==
  /\ pc = "echo" /\ \E i \in DOMAIN Tools : Tools[i] = "scalar"
  /\ pc' = "done" /\ exit' = 2
  /\ UNCHANGED <<exchangeVars, plan, pages, seen, results, broken, first, temp, golden>>

EchoTools ==
  /\ pc = "echo" /\ \A i \in DOMAIN Tools : Tools[i] = "tool"
  /\ pc' = IF plan = "dry run" THEN "stop" ELSE "call"
  /\ UNCHANGED <<exchangeVars, plan, pages, seen, results, broken, first, fileVars>>

(* -------------------------- call_tools --------------------------------- *)

\* start_idx: the ids go on behind those of the pages.
BugCallRequest == [id |-> 2 + Len(results), of |-> "call"]
CallRequest == [id |-> 2 + Len(pages) + Len(results), of |-> "call"]
Calling == pc = "call" /\ plan = "calls" /\ Len(results) < Len(Tools)

Judged(req, line, status) ==
  /\ results' = Append(results, [req |-> req, line |-> line, status |-> status])
  /\ UNCHANGED <<pc, plan, pages, seen, first, fileVars>>

CallTool ==
  /\ Calling /\ ~broken /\ Running /\ Sends(CallRequest)
  /\ UNCHANGED <<commandVars, fileVars>>

CallSkipped ==
  /\ Calling /\ Idle /\ (broken \/ ~Running)
  /\ Judged(CallRequest, Nothing, "skipped") /\ UNCHANGED <<exchangeVars, broken>>

CallAnswered ==
  /\ Calling
  /\ \E line \in NextLine :
       /\ Receives(line)
       /\ Judged(awaited, line, IF Result(line).status = "ok" THEN "success" ELSE "error")
  /\ UNCHANGED broken

BugCallTimesOut ==      \* as if a timeout meant that the transport is broken
  /\ Calling /\ TimesOut /\ broken' = TRUE /\ Judged(awaited, Nothing, "timeout")
CallTimesOut ==
  /\ Calling /\ TimesOut /\ Judged(awaited, Nothing, "timeout") /\ UNCHANGED broken

CallRaises ==
  /\ Calling /\ broken' = TRUE
  /\ \/ ReceiveRaises /\ Judged(awaited, Nothing, "transport error")
     \/ Running /\ ~broken /\ SendRaises /\ Judged(CallRequest, Nothing, "transport error")

CallsOver ==
  /\ pc = "call" /\ (plan # "calls" \/ Len(results) = Len(Tools)) /\ pc' = "stop"
  /\ UNCHANGED <<exchangeVars, plan, pages, seen, results, broken, first, fileVars>>

Shutdown ==
  /\ pc = "stop" /\ Stopped /\ pc' = IF plan = "dry run" THEN "done" ELSE "write"
  /\ UNCHANGED <<awaited, plan, pages, seen, results, broken, first, fileVars>>

(* ----------------- build_transcript and write_snapshot ----------------- *)

Message(t, dir, what) == [t |-> t, dir |-> dir, what |-> what]
CallStart == LET end == 40 + 40 * Len(pages) + 20 IN IF end > 100 THEN end ELSE 100

\* A call without a response is left out, its times are not used again.
Transcript ==
  << Message(0, "c2s", 1), Message(25, "s2c", first), Message(30, "c2s", Nothing) >>
  \o FlattenSeq([i \in DOMAIN pages |->
       << Message(40 * i, "c2s", pages[i].req), Message(40 * i + 25, "s2c", pages[i].line) >>])
  \o FlattenSeq([i \in DOMAIN results |->
       IF results[i].line = Nothing THEN <<>>
       ELSE LET t == CallStart + 50 * (i - 1)
            IN << Message(t, "c2s", results[i].req), Message(t + 25, "s2c", results[i].line) >>])

WriteTemp ==      \* up to the fsync; an error may come at any point of it
  /\ pc = "write" /\ temp = "none" /\ temp' \in {"partial", "whole"}
  /\ UNCHANGED <<exchangeVars, commandVars, golden, exit>>
Replace ==        \* validate_file has accepted the temporary file
  /\ pc = "write" /\ temp = "whole" /\ golden' = "new" /\ temp' = "none" /\ pc' = "done"
  /\ UNCHANGED <<exchangeVars, plan, pages, seen, results, broken, first, exit>>

WriteFails ==
  /\ pc = "write" /\ temp' = "none" /\ exit' = 1 /\ pc' = "done"
  /\ UNCHANGED <<exchangeVars, plan, pages, seen, results, broken, first, golden>>

Crash ==          \* the process dies; before this step it has touched no file
  /\ pc = "write" /\ pc' = "crashed"
  /\ UNCHANGED <<exchangeVars, plan, pages, seen, results, broken, first, fileVars>>

(* ------------------------------ the system ----------------------------- *)

Command ==
  \/ Start \/ Initialize \/ Initialized \/ ListTools \/ PageReceived
  \/ DiscoverFails \/ ShutdownAfterFailure \/ EchoRaises \/ EchoTools
  \/ CallTool \/ CallSkipped \/ CallAnswered \/ CallTimesOut \/ CallRaises
  \/ CallsOver \/ Shutdown \/ WriteTemp \/ Replace \/ WriteFails
  \/ pc \in {"initialize", "list", "call"} /\ SkipLine /\ UNCHANGED <<commandVars, fileVars>>

Server ==
  /\ \/ \E req \in asked : \E body \in Bodies(req) :
          ServerReplies(req, body) \/ ServerRepeats(req, body)
     \/ ServerNoise \/ ServerExits \/ Reap
  /\ UNCHANGED <<awaited, commandVars, fileVars>>

Next == Command \/ Server \/ Crash

Spec == Init /\ [][Next]_vars /\ WF_vars(Command)

(* ----------------------------- properties ------------------------------ *)

\* Whatever comes late, twice or unasked, the line recorded as the answer to a
\* request is the server's answer to that very request, unless the server has
\* asked something of its own under the same id, which _send_and_receive does
\* not tell apart; and the times of the transcript increase, for every number
\* of pages and calls, answered or not.
TranscriptIsTrue ==
  /\ \A p \in ToSet(pages) \cup {r \in ToSet(results) : r.line # Nothing} :
       p.line.kind = "request" \/ p.line.to = p.req
  /\ pc = "write" => \A i \in 1..(Len(Transcript) - 1) : Transcript[i].t < Transcript[i + 1].t

\* Per-tool isolation: an error or a timeout costs one tool only; a tool is
\* skipped only behind a transport error or the exit of the server.
SkipsNeedALostServer ==
  \A i \in DOMAIN results : results[i].status = "skipped" =>
    \/ server \in {"none", "reaped"}
    \/ \E j \in 1..(i - 1) : results[j].status = "transport error"

\* The snapshot is replaced only by a complete transcript and exactly when the
\* command succeeds; an end without a crash leaves no temporary file and no
\* server, but for the traceback of _echo_tool_list, which leaves the server to
\* the end of the process.
EndsClean ==
  /\ golden = "new" => temp = "none" /\ exit = 0 /\ Len(results) \in {0, Len(Tools)}
  /\ pc = "done" =>
       /\ temp = "none" /\ (golden = "new" <=> (exit = 0 /\ plan # "dry run"))
       /\ server # "none" => exit = 2

\* generate ends against every server, also one that repeats or cycles its
\* cursors: every read has a deadline, and it never asks for a cursor twice.
AsksOnce == \A i, j \in DOMAIN pages : i < j => pages[i].req.cursor # pages[j].req.cursor
GenerateEnds == <>(pc \in {"done", "crashed"}) /\ []AsksOnce
=============================================================================
