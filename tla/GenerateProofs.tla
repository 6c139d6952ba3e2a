---------------------------- MODULE GenerateProofs ----------------------------
(* Theorems about Generate, for any number of pages, tools and noise lines,   *)
(* and whatever the server answers.                                           *)
EXTENDS Generate, SequenceLemmas

Page == [tools : Seq({"tool", "scalar"}), cursor : Nat]
Body == [status : {"ok", "error", "null"}, page : Page]
InitRequest == [id : {1}, of : {"initialize"}]
ListRequest == [id : Nat \ {0}, of : {"list"}, cursor : Nat]
ToolRequest == [id : Nat \ {0}, of : {"call"}]
SentRequest == InitRequest \cup ListRequest \cup ToolRequest
ReplyLine == [kind : {"reply"}, id : Nat, body : Body, to : SentRequest]
OtherLine == [kind : {"request"}, id : RequestIds] \cup [kind : NoiseKinds, id : {NoId}]
AnyLine == ReplyLine \cup OtherLine
PageEntry == [req : SentRequest, line : AnyLine, page : Page]
ResultEntry ==
  [req : SentRequest, line : AnyLine \cup {Nothing},
   status : {"skipped", "success", "error", "timeout", "transport error"}]

\* What the server and the exchange hold.
ExchangeTypes ==
  /\ server \in {"none", "up", "exited", "reaped"} /\ noise \in Nat
  /\ asked \subseteq SentRequest /\ awaited \in SentRequest \cup {Nothing}
  /\ out \in Seq(AnyLine)

\* What the command holds.
CommandTypes ==
  /\ pc \in {"start", "initialize", "list", "failed", "echo", "call", "stop", "write",
             "done", "crashed"}
  /\ plan \in {"dry run", "no calls", "calls"}
  /\ pages \in Seq(PageEntry) /\ results \in Seq(ResultEntry)
  /\ seen \in SUBSET Nat /\ IsFiniteSet(seen)
  /\ broken \in BOOLEAN /\ first \in AnyLine \cup {Nothing}
  /\ temp \in {"none", "partial", "whole"} /\ golden \in {"old", "new"}
  /\ exit \in {0, 1, 2}

-----------------------------------------------------------------------------
\* Nothing is no request.
LEMMA RequestTypes ==
  /\ \A r \in SentRequest : r.id \in Nat /\ r.id # 0 /\ r # Nothing
  /\ ExchangeTypes /\ ~Idle => awaited \in SentRequest
<1>1. Nothing.id = 0 /\ \A r \in SentRequest : r.id \in Nat /\ r.id # 0
  BY DEF Nothing, NoId, SentRequest, InitRequest, ListRequest, ToolRequest
<1>2. \A r \in SentRequest : r # Nothing
  BY <1>1
<1>3. QED
  BY <1>1, <1>2 DEF ExchangeTypes, Idle

\* What the server may answer to a request.
LEMMA BodyTypes ==
  ASSUME CommandTypes, NEW req \in SentRequest
  PROVE  Bodies(req) \subseteq Body
<1>1. EmptyPage \in Page
  BY DEF EmptyPage, Page, NoCursor
<1>2. Cardinality(seen) \in Nat
  BY FS_CardinalityType DEF CommandTypes
<1>3. \A c \in 0..(Cardinality(seen) + 1) : c \in Nat
  BY <1>2
<1>4. /\ <<>> \in Seq({"tool", "scalar"}) /\ <<"tool">> \in Seq({"tool", "scalar"})
      /\ <<"scalar">> \in Seq({"tool", "scalar"})
  OBVIOUS
<1>5. \A tools \in Seq({"tool", "scalar"}), c \in Nat : PageWith(tools, c) \in Page
  BY DEF PageWith, Page
<1>6. \A s \in {"ok", "error", "null"}, p \in Page : Answer(s, p) \in Body
  BY DEF Answer, Body
<1>7. req.of \in {"initialize", "list", "call"}
  BY DEF SentRequest, InitRequest, ListRequest, ToolRequest
<1>8. CASE req.of = "initialize"
  BY <1>1, <1>6, <1>8 DEF Bodies
<1>9. CASE req.of = "list"
  <2>1. /\ \A tools \in {<<>>, <<"tool">>}, c \in 0..(Cardinality(seen) + 1) :
             Answer("ok", PageWith(tools, c)) \in Body
        /\ Answer("ok", PageWith(<<"scalar">>, NoCursor)) \in Body
        /\ Answer("error", EmptyPage) \in Body
    BY <1>1, <1>3, <1>4, <1>5, <1>6 DEF NoCursor
  <2>2. QED
    BY <1>9, <2>1 DEF Bodies
<1>10. CASE req.of = "call"
  BY <1>1, <1>6, <1>10 DEF Bodies
<1>11. QED
  BY <1>7, <1>8, <1>9, <1>10

\* The lines the server may add to its output.
LEMMA LineTypes ==
  /\ \A r \in SentRequest, b \in Body : Reply(r, b) \in ReplyLine
  /\ NoiseLines \subseteq OtherLine
  /\ \A l \in OtherLine : l.kind # "reply" /\ (l.kind # "request" => l.id = NoId)
<1>1. \A r \in SentRequest, b \in Body : Reply(r, b) \in ReplyLine
  BY RequestTypes DEF Reply, ReplyLine
<1>2. NoiseLines \subseteq OtherLine
  BY DEF NoiseLines, OtherLine, ServerRequest
<1>3. \A l \in OtherLine : l.kind # "reply" /\ (l.kind # "request" => l.id = NoId)
  BY NoiseAssumption DEF OtherLine, NoiseAssumption
<1>4. QED
  BY <1>1, <1>2, <1>3

\* What the code reads of a line it takes for an answer.
LEMMA ResultTypes ==
  ASSUME NEW line \in AnyLine
  PROVE  Result(line) \in Body /\ Result(line).page \in Page
<1>1. line \in ReplyLine => line.body \in Body
  BY DEF ReplyLine
<1>2. Answer("ok", EmptyPage) \in Body
  BY DEF Answer, Body, EmptyPage, Page, NoCursor
<1>3. line.kind = "reply" => line \in ReplyLine
  BY LineTypes DEF AnyLine
<1>4. Result(line) \in Body
  BY <1>1, <1>2, <1>3 DEF Result
<1>5. QED
  BY <1>4 DEF Body

\* The next request.
LEMMA NextRequestTypes ==
  ASSUME CommandTypes
  PROVE  /\ Len(pages) \in Nat /\ Len(results) \in Nat
         /\ [id |-> 1, of |-> "initialize"] \in SentRequest
         /\ PageRequest \in SentRequest /\ PageRequest.id = 2 + Len(pages)
         /\ CallRequest \in SentRequest /\ CallRequest.id = 2 + Len(pages) + Len(results)
<1>1. pages \in Seq(PageEntry) /\ Len(pages) \in Nat /\ Len(results) \in Nat
  <2>1. pages \in Seq(PageEntry) /\ results \in Seq(ResultEntry)
    BY DEF CommandTypes
  <2>2. QED
    BY <2>1
<1>2. pages # <<>> => Last(pages).page.cursor \in Nat
  <2>1. pages # <<>> => Last(pages) \in PageEntry
    BY <1>1 DEF Last
  <2>2. \A e \in PageEntry : e.page \in Page
    BY DEF PageEntry
  <2>3. \A p \in Page : p.cursor \in Nat
    BY DEF Page
  <2>4. QED
    BY <2>1, <2>2, <2>3
<1>3. PageRequest \in SentRequest /\ PageRequest.id = 2 + Len(pages)
  BY <1>1, <1>2 DEF PageRequest, SentRequest, ListRequest, NoCursor
<1>4. CallRequest \in SentRequest /\ CallRequest.id = 2 + Len(pages) + Len(results)
  BY <1>1 DEF CallRequest, SentRequest, ToolRequest
<1>5. QED
  BY <1>1, <1>3, <1>4 DEF SentRequest, InitRequest

\* A line is read, or nothing is, and nobody waits for more than before.
Listens ==
  \/ SkipLine \/ ReceiveRaises \/ TimesOut \/ SendRaises
  \/ \E line \in NextLine : Receives(line)

LEMMA ListenTypes ==
  ASSUME ExchangeTypes, Listens
  PROVE  /\ ExchangeTypes' /\ Elems(out') \subseteq Elems(out)
         /\ UNCHANGED <<server, asked, noise>>
         /\ awaited' = awaited \/ awaited' = Nothing
<1>1. /\ UNCHANGED <<server, asked, noise>> /\ (awaited' = awaited \/ awaited' = Nothing)
      /\ out' = out \/ (HasLine /\ out' = Tail(out))
  BY DEF Listens, SkipLine, ReceiveRaises, TimesOut, SendRaises, Receives, TakeLine,
         serverVars, exchangeVars
<1>2. out' \in Seq(AnyLine) /\ Elems(out') \subseteq Elems(out)
  <2>1. CASE out' = out
    BY <2>1 DEF ExchangeTypes, Elems
  <2>2. CASE HasLine /\ out' = Tail(out)
    BY <2>2, TailElems DEF ExchangeTypes, HasLine
  <2>3. QED
    BY <1>1, <2>1, <2>2
<1>3. QED
  BY <1>1, <1>2 DEF ExchangeTypes

\* A line that is received.
LEMMA ReceivedTypes ==
  ASSUME ExchangeTypes, NEW line \in NextLine, Receives(line)
  PROVE  /\ line \in AnyLine /\ line \in Elems(out) /\ ~Idle /\ line.id = awaited.id
         /\ Listens /\ awaited' = Nothing /\ Result(line) \in Body /\ Result(line).page \in Page
<1>1. HasLine /\ line = Head(out) /\ ~Idle /\ line.id = awaited.id /\ awaited' = Nothing
  BY DEF Receives, Matches
<1>2. line \in AnyLine /\ line \in Elems(out)
  BY <1>1, TailElems DEF ExchangeTypes, HasLine
<1>3. Listens
  BY DEF Listens
<1>4. QED
  BY <1>1, <1>2, <1>3, ResultTypes

\* What the server does to its output.
LEMMA ServerTypes ==
  ASSUME ExchangeTypes, CommandTypes, Server
  PROVE  /\ ExchangeTypes' /\ UNCHANGED <<awaited, commandVars, fileVars>>
         /\ asked' \subseteq asked
         /\ \A l \in Elems(out') :
              l \in Elems(out) \/ (l.kind = "reply" => l.to \in asked /\ l.id = l.to.id)
         /\ server' = server \/ server = "up" \/ (server = "exited" /\ server' = "reaped")
<1>1. UNCHANGED <<awaited, commandVars, fileVars>>
  BY DEF Server
<1>2. ASSUME NEW req \in asked, NEW body \in Bodies(req),
             ServerReplies(req, body) \/ ServerRepeats(req, body)
      PROVE  /\ out' \in Seq(AnyLine) /\ asked' \subseteq asked
             /\ UNCHANGED server /\ noise' \in Nat
             /\ \A l \in Elems(out') :
                  l \in Elems(out) \/ (l.kind = "reply" => l.to \in asked /\ l.id = l.to.id)
  <2>1. PICK r \in AnyLine : r = Reply(req, body)
    BY BodyTypes, LineTypes DEF AnyLine, ExchangeTypes
  <2>2. r.to = req /\ r.id = req.id
    BY <2>1 DEF Reply
  <2>3. /\ out' = Append(out, r) \/ out' = out \o <<r, r>>
        /\ asked' \subseteq asked /\ UNCHANGED server /\ noise' \in Nat
    BY <1>2, <2>1 DEF ServerReplies, ServerRepeats, ExchangeTypes
  <2>4. out' \in Seq(AnyLine) /\ Elems(out') = Elems(out) \cup {r}
    <3>1. out \in Seq(AnyLine)
      BY DEF ExchangeTypes
    <3>2. CASE out' = Append(out, r)
      BY <3>1, <3>2, AppendElems
    <3>3. CASE out' = out \o <<r, r>>
      BY <3>1, <3>3, TwiceElems
    <3>4. QED
      BY <2>3, <3>2, <3>3
  <2>5. QED
    BY <2>2, <2>3, <2>4
<1>3. CASE \E req \in asked : \E body \in Bodies(req) :
             ServerReplies(req, body) \/ ServerRepeats(req, body)
  BY <1>1, <1>2, <1>3 DEF ExchangeTypes
<1>4. CASE ServerNoise
  <2>1. PICK line \in NoiseLines : out' = Append(out, line)
    BY <1>4 DEF ServerNoise
  <2>2. line \in AnyLine /\ line.kind # "reply"
    BY LineTypes DEF AnyLine
  <2>3. out' \in Seq(AnyLine) /\ Elems(out') = Elems(out) \cup {line}
    BY <2>1, <2>2, AppendElems DEF ExchangeTypes
  <2>4. UNCHANGED <<server, asked>> /\ noise' \in Nat
    BY <1>4 DEF ServerNoise, ExchangeTypes
  <2>5. QED
    BY <1>1, <2>2, <2>3, <2>4 DEF ExchangeTypes
<1>5. CASE ServerExits \/ Reap
  BY <1>1, <1>5 DEF ServerExits, Reap, ExchangeTypes
<1>6. QED
  BY <1>3, <1>4, <1>5 DEF Server

\* Types are kept by every step.
LEMMA TypesStep ==
  ASSUME ExchangeTypes, CommandTypes, [Next]_vars
  PROVE  ExchangeTypes' /\ CommandTypes'
<1> USE DEF commandVars, fileVars
<1>1. CASE Start
  <2>1. ExchangeTypes'
    BY <1>1 DEF Start, Launched, ExchangeTypes
  <2>2. CommandTypes'
    BY <1>1 DEF Start, CommandTypes
  <2>3. QED
    BY <2>1, <2>2
<1>2. CASE Initialize \/ ListTools \/ CallTool
  <2>1. PICK req \in SentRequest : Sends(req)
    BY <1>2, NextRequestTypes DEF Initialize, ListTools, CallTool
  <2>2. ExchangeTypes'
    BY <2>1 DEF Sends, Written, ExchangeTypes
  <2>3. CommandTypes'
    BY <1>2 DEF Initialize, ListTools, CallTool, CommandTypes
  <2>4. QED
    BY <2>2, <2>3
<1>3. CASE Initialized
  <2>1. PICK line \in NextLine : Receives(line) /\ first' = line
    BY <1>3 DEF Initialized
  <2>2. ExchangeTypes' /\ line \in AnyLine
    BY <2>1, ReceivedTypes, ListenTypes
  <2>3. CommandTypes'
    BY <1>3, <2>1, <2>2 DEF Initialized, CommandTypes
  <2>4. QED
    BY <2>2, <2>3
<1>4. CASE PageReceived
  <2>1. PICK line \in NextLine :
          /\ Receives(line)
          /\ pages' = Append(pages, [req |-> awaited, line |-> line, page |-> Result(line).page])
          /\ seen' = seen \/ seen' = seen \cup {Result(line).page.cursor}
          /\ pc' \in {"list", "echo"}
    BY <1>4 DEF PageReceived
  <2>2. /\ ExchangeTypes' /\ line \in AnyLine /\ Result(line).page \in Page
        /\ awaited \in SentRequest
    BY <2>1, ReceivedTypes, ListenTypes, RequestTypes
  <2>3. [req |-> awaited, line |-> line, page |-> Result(line).page] \in PageEntry
    BY <2>2 DEF PageEntry
  <2>4. pages' \in Seq(PageEntry)
    BY <2>1, <2>3, AppendElems DEF CommandTypes
  <2>5. seen' \in SUBSET Nat /\ IsFiniteSet(seen')
    <3>1. PICK c \in Nat : c = Result(line).page.cursor
      BY <2>2 DEF Page
    <3>2. seen \in SUBSET Nat /\ IsFiniteSet(seen)
      BY DEF CommandTypes
    <3>3. seen \cup {c} \in SUBSET Nat /\ IsFiniteSet(seen \cup {c})
      BY <3>2, FS_AddElement
    <3>4. QED
      BY <2>1, <3>1, <3>2, <3>3
  <2>6. UNCHANGED <<plan, results, broken, first, temp, golden, exit>>
    BY <1>4 DEF PageReceived
  <2>7. CommandTypes'
    BY <2>1, <2>4, <2>5, <2>6 DEF CommandTypes
  <2>8. QED
    BY <2>2, <2>7
<1>5. CASE DiscoverFails
  <2>1. ExchangeTypes'
    BY <1>5, ListenTypes DEF DiscoverFails, Listens
  <2>2. CommandTypes'
    BY <1>5 DEF DiscoverFails, CommandTypes
  <2>3. QED
    BY <2>1, <2>2
<1>6. CASE ShutdownAfterFailure \/ Shutdown
  <2>1. ExchangeTypes'
    <3>1. Stopped /\ UNCHANGED awaited
      BY <1>6 DEF ShutdownAfterFailure, Shutdown
    <3>2. <<>> \in Seq(AnyLine)
      OBVIOUS
    <3>3. QED
      BY <3>1, <3>2 DEF Stopped, ExchangeTypes
  <2>2. CommandTypes'
    BY <1>6 DEF ShutdownAfterFailure, Shutdown, CommandTypes
  <2>3. QED
    BY <2>1, <2>2
<1>7. CASE CallSkipped \/ CallAnswered \/ CallTimesOut \/ CallRaises
  <2>1. /\ \E req \in SentRequest, line \in AnyLine \cup {Nothing},
              status \in {"skipped", "success", "error", "timeout", "transport error"} :
             Judged(req, line, status)
        /\ ExchangeTypes' /\ broken' \in BOOLEAN
    <3>1. CASE CallSkipped
      <4>1. ExchangeTypes' /\ broken' \in BOOLEAN
        BY <3>1 DEF CallSkipped, exchangeVars, ExchangeTypes, CommandTypes
      <4>2. Judged(CallRequest, Nothing, "skipped")
        BY <3>1 DEF CallSkipped
      <4>3. QED
        BY <4>1, <4>2, NextRequestTypes
    <3>2. CASE CallAnswered
      <4>1. PICK line \in NextLine :
              /\ Receives(line)
              /\ Judged(awaited, line, IF Result(line).status = "ok" THEN "success" ELSE "error")
        BY <3>2 DEF CallAnswered
      <4>2. ExchangeTypes' /\ line \in AnyLine /\ awaited \in SentRequest
        BY <4>1, ReceivedTypes, ListenTypes, RequestTypes
      <4>3. broken' \in BOOLEAN
        BY <3>2 DEF CallAnswered, CommandTypes
      <4>4. QED
        BY <4>1, <4>2, <4>3
    <3>3. CASE CallTimesOut
      <4>1. Judged(awaited, Nothing, "timeout") /\ awaited \in SentRequest
        BY <3>3, RequestTypes DEF CallTimesOut, TimesOut
      <4>2. ExchangeTypes' /\ broken' \in BOOLEAN
        BY <3>3, ListenTypes DEF CallTimesOut, Listens, CommandTypes
      <4>3. QED
        BY <4>1, <4>2
    <3>4. CASE CallRaises
      <4>1. ExchangeTypes' /\ broken' \in BOOLEAN
        BY <3>4, ListenTypes DEF CallRaises, Listens
      <4>2. \E req \in SentRequest : Judged(req, Nothing, "transport error")
        BY <3>4, RequestTypes, NextRequestTypes DEF CallRaises, ReceiveRaises, Raises
      <4>3. QED
        BY <4>1, <4>2
    <3>5. QED
      BY <1>7, <3>1, <3>2, <3>3, <3>4
  <2>2. PICK e \in ResultEntry : results' = Append(results, e)
    BY <2>1 DEF Judged, ResultEntry
  <2>3. results' \in Seq(ResultEntry)
    BY <2>2, AppendElems DEF CommandTypes
  <2>4. UNCHANGED <<pc, plan, pages, seen, first, temp, golden, exit>>
    BY <2>1 DEF Judged
  <2>5. CommandTypes'
    BY <2>1, <2>3, <2>4 DEF CommandTypes
  <2>6. QED
    BY <2>1, <2>5
<1>8. CASE \/ EchoRaises \/ EchoTools \/ CallsOver \/ WriteTemp \/ Replace \/ WriteFails
           \/ Crash \/ UNCHANGED vars
  <2>1. UNCHANGED exchangeVars
    BY <1>8 DEF EchoRaises, EchoTools, CallsOver, WriteTemp, Replace, WriteFails, Crash, vars
  <2>2. ExchangeTypes'
    BY <2>1 DEF exchangeVars, ExchangeTypes
  <2>3. CommandTypes'
    BY <1>8 DEF EchoRaises, EchoTools, CallsOver, WriteTemp, Replace, WriteFails, Crash, vars,
                CommandTypes
  <2>4. QED
    BY <2>2, <2>3
<1>9. CASE SkipLine /\ UNCHANGED <<commandVars, fileVars>>
  <2>1. ExchangeTypes'
    BY <1>9, ListenTypes DEF Listens
  <2>2. CommandTypes'
    BY <1>9 DEF CommandTypes
  <2>3. QED
    BY <2>1, <2>2
<1>10. CASE Server
  <2>1. ExchangeTypes' /\ UNCHANGED <<commandVars, fileVars>>
    BY <1>10, ServerTypes
  <2>2. CommandTypes'
    BY <2>1 DEF CommandTypes
  <2>3. QED
    BY <2>1, <2>2
<1>11. QED
  BY <1>1, <1>2, <1>3, <1>4, <1>5, <1>6, <1>7, <1>8, <1>9, <1>10 DEF Next, Command

-----------------------------------------------------------------------------
(* The answers are told apart: the ids of the requests that may still be     *)
(* answered differ, and the next request has a larger id than all of them.   *)

\* The requests whose answer may still be read: unanswered, answered by a line
\* that nobody has read, or waited for.
Live ==
  asked \cup {l.to : l \in {k \in Elems(out) : k.kind = "reply"}}
        \cup (IF Idle THEN {} ELSE {awaited})

NextId == IF pc = "initialize" THEN 1 ELSE 2 + Len(pages) + Len(results)

RepliesCarryIds == \A l \in Elems(out) : l.kind = "reply" => l.id = l.to.id
Apart == \A r, s \in Live : r.id = s.id => r = s
Fresh ==
  pc \in {"initialize", "list", "echo", "call"} =>
    \A r \in Live : r.id < NextId \/ r = awaited
Asks == ~Idle => awaited.id = NextId /\ (pc \in {"initialize", "list"} \/ Calling)
InOrder ==
  /\ pc \in {"start", "initialize"} => pages = <<>>
  /\ pc \in {"start", "initialize", "list", "failed", "echo"} => results = <<>>

\* The line of an entry answers the request of the entry.
Answers(p) == p.line = Nothing \/ p.line.kind = "request" \/ p.line.to = p.req
AnswersTrue ==
  /\ \A p \in Elems(pages) : p.line # Nothing /\ Answers(p)
  /\ \A r \in Elems(results) : Answers(r)

OneAnswer ==
  /\ RepliesCarryIds /\ Apart /\ Fresh /\ Asks /\ InOrder /\ AnswersTrue

\* The transport is broken behind a transport error only.
BrokenByError ==
  broken => \E r \in Elems(results) : r.status = "transport error"

\* How far the command is: the calls, the files, the exit code, the server.
CallsDone == Len(results) \in {0, Len(Tools)}
Progress ==
  /\ plan # "calls" => results = <<>>
  /\ pc \in {"stop", "write"} => CallsDone
  /\ pc = "write" \/ golden = "new" => plan # "dry run"
  /\ pc \in {"write", "crashed"} => server = "none"
  /\ temp # "none" => pc \in {"write", "crashed"}
  /\ exit # 0 => pc \in {"failed", "done"}
  /\ pc = "failed" => exit = 1
  /\ golden = "new" => pc = "done" /\ exit = 0 /\ CallsDone
  /\ pc = "done" => golden = "new" \/ exit # 0 \/ plan = "dry run"
  /\ pc = "done" => server = "none" \/ exit = 2

-----------------------------------------------------------------------------
\* What may still be answered are requests.
LEMMA LiveTypes ==
  ASSUME ExchangeTypes
  PROVE  Live \subseteq SentRequest
<1>1. ASSUME NEW l \in Elems(out), l.kind = "reply"
      PROVE  l.to \in SentRequest
  <2>1. l \in AnyLine
    BY DEF ExchangeTypes, Elems
  <2>2. l \in ReplyLine
    BY <1>1, <2>1, LineTypes DEF AnyLine
  <2>3. QED
    BY <2>2 DEF ReplyLine
<1>2. asked \subseteq SentRequest /\ (~Idle => awaited \in SentRequest)
  BY RequestTypes DEF ExchangeTypes
<1>3. QED
  BY <1>1, <1>2 DEF Live

\* A line that matches is the answer to the request that is waited for, or a
\* request of the server.
LEMMA ReceivedAnswers ==
  ASSUME ExchangeTypes, OneAnswer, NEW line \in NextLine, Receives(line)
  PROVE  line.kind = "request" \/ line.to = awaited
<1>1. /\ line \in AnyLine /\ line \in Elems(out) /\ ~Idle /\ line.id = awaited.id
      /\ awaited \in SentRequest
  BY ReceivedTypes, RequestTypes
<1>2. CASE line.kind = "reply"
  <2>1. line.to \in Live /\ awaited \in Live
    BY <1>1, <1>2 DEF Live
  <2>2. line.to.id = awaited.id
    BY <1>1, <1>2 DEF OneAnswer, RepliesCarryIds
  <2>3. QED
    BY <2>1, <2>2 DEF OneAnswer, Apart
<1>3. CASE line.kind # "reply"
  <2>1. line \in OtherLine
    BY <1>1, <1>3 DEF AnyLine, ReplyLine
  <2>2. line.kind # "request" => line.id = NoId
    BY <2>1, LineTypes
  <2>3. awaited.id # NoId
    BY <1>1, RequestTypes DEF NoId
  <2>4. QED
    BY <1>1, <2>2, <2>3
<1>4. QED
  BY <1>2, <1>3

\* What the server does, and what a read does, adds nothing that may be answered.
LEMMA LiveShrinks ==
  ASSUME RepliesCarryIds, asked' \subseteq asked, awaited' = awaited \/ awaited' = Nothing,
         \A l \in Elems(out') :
           l \in Elems(out) \/ (l.kind = "reply" => l.to \in asked /\ l.id = l.to.id)
  PROVE  Live' \subseteq Live /\ RepliesCarryIds'
<1>1. RepliesCarryIds'
  BY DEF RepliesCarryIds
<1>2. \A l \in Elems(out') : l.kind = "reply" => l.to \in Live
  BY DEF Live
<1>3. Live' \subseteq Live
  BY <1>2 DEF Live, Idle
<1>4. QED
  BY <1>1, <1>3

\* A step behind which nothing is waited for.
LEMMA StepToIdle ==
  ASSUME ExchangeTypes, CommandTypes, CommandTypes', OneAnswer,
         Idle', Live' \subseteq Live, RepliesCarryIds', InOrder', AnswersTrue',
         pc' \in {"initialize", "list", "echo", "call"} =>
           /\ pc \in {"initialize", "list", "echo", "call"}
           /\ NextId <= NextId' /\ (Idle \/ NextId < NextId')
  PROVE  OneAnswer'
<1>1. Apart' /\ Asks'
  BY DEF OneAnswer, Apart, Asks
<1>2. NextId \in Nat /\ NextId' \in Nat
  <2>1. Len(pages) \in Nat /\ Len(results) \in Nat
    BY NextRequestTypes
  <2>2. Len(pages') \in Nat /\ Len(results') \in Nat
    <3>1. pages' \in Seq(PageEntry) /\ results' \in Seq(ResultEntry)
      BY DEF CommandTypes
    <3>2. QED
      BY <3>1
  <2>3. QED
    BY <2>1, <2>2 DEF NextId
<1>3. ASSUME NEW r \in Live', pc' \in {"initialize", "list", "echo", "call"}
      PROVE  r.id < NextId'
  <2>1. r \in Live /\ r.id \in Nat /\ r # Nothing
    BY LiveTypes, RequestTypes
  <2>2. r.id < NextId \/ r = awaited
    BY <1>3, <2>1 DEF OneAnswer, Fresh
  <2>3. r = awaited => ~Idle /\ r.id = NextId
    BY <2>1 DEF OneAnswer, Asks, Idle
  <2>4. NextId <= NextId' /\ (Idle \/ NextId < NextId')
    BY <1>3
  <2>5. QED
    BY <1>2, <2>1, <2>2, <2>3, <2>4
<1>4. Fresh'
  BY <1>3 DEF Fresh
<1>5. QED
  BY <1>1, <1>4 DEF OneAnswer

\* A step that leaves the command where it is.
LEMMA StepAside ==
  ASSUME OneAnswer, Live' \subseteq Live, RepliesCarryIds',
         awaited' = awaited,
         UNCHANGED <<pc, plan, pages, results>>
  PROVE  OneAnswer'
<1>1. NextId' = NextId /\ Tools' = Tools
  BY DEF NextId, Tools
<1>2. Apart' /\ InOrder' /\ AnswersTrue'
  BY DEF OneAnswer, Apart, InOrder, AnswersTrue
<1>3. Fresh'
  BY <1>1 DEF OneAnswer, Fresh
<1>4. Asks'
  BY <1>1 DEF OneAnswer, Asks, Idle, Calling
<1>5. QED
  BY <1>2, <1>3, <1>4 DEF OneAnswer

\* A request is sent: its id is larger than that of any request that may still
\* be answered.
LEMMA StepSends ==
  ASSUME ExchangeTypes, CommandTypes, OneAnswer,
         NEW req \in SentRequest, Sends(req), req.id = NextId,
         pc \in {"initialize", "list"} \/ Calling,
         UNCHANGED <<pc, plan, pages, results>>
  PROVE  OneAnswer'
<1>1. /\ Idle /\ awaited' = req /\ UNCHANGED out
      /\ asked' \subseteq asked \cup {req}
  BY DEF Sends, Written
<1>2. /\ NextId' = NextId /\ Tools' = Tools /\ NextId \in Nat
  BY NextRequestTypes DEF NextId, Tools
<1>3. Live' \subseteq Live \cup {req}
  BY <1>1 DEF Live, Idle
<1>4. \A r \in Live : r.id < NextId /\ r.id \in Nat
  <2>1. pc \in {"initialize", "list", "echo", "call"}
    BY DEF Calling
  <2>2. \A r \in Live : r # awaited /\ r.id \in Nat
    BY <1>1, LiveTypes, RequestTypes DEF Idle
  <2>3. QED
    BY <2>1, <2>2 DEF OneAnswer, Fresh
<1>5. Apart'
  <2>1. \A r \in Live : r.id # req.id
    BY <1>2, <1>4
  <2>2. QED
    BY <1>3, <2>1 DEF OneAnswer, Apart
<1>6. Fresh'
  <2>1. \A r \in Live' : r.id < NextId' \/ r = awaited'
    BY <1>1, <1>2, <1>3, <1>4
  <2>2. QED
    BY <2>1 DEF Fresh
<1>7. Asks'
  BY <1>1, <1>2 DEF Asks, Calling
<1>8. RepliesCarryIds' /\ InOrder' /\ AnswersTrue'
  BY <1>1 DEF OneAnswer, RepliesCarryIds, InOrder, AnswersTrue
<1>9. QED
  BY <1>5, <1>6, <1>7, <1>8 DEF OneAnswer

\* Nothing is no line.
LEMMA LineIsSomething ==
  \A l \in AnyLine : l # Nothing
<1>1. SUFFICES ASSUME NEW l \in AnyLine, l = Nothing PROVE FALSE
  OBVIOUS
<1>2. DOMAIN l = {"id"}
  BY <1>1 DEF Nothing
<1>3. "kind" \in DOMAIN l
  BY DEF AnyLine, ReplyLine, OtherLine
<1>4. QED
  BY <1>2, <1>3

\* Nothing is said to the server, and nothing read of it.
LEMMA ExchangeUnchanged ==
  ASSUME OneAnswer, UNCHANGED exchangeVars
  PROVE  Live' = Live /\ RepliesCarryIds' /\ Idle' = Idle
BY DEF exchangeVars, Live, Idle, OneAnswer, RepliesCarryIds

\* The next line is read, or nothing is: nobody waits for more than before.
LEMMA ListenShrinks ==
  ASSUME ExchangeTypes, OneAnswer, Listens
  PROVE  Live' \subseteq Live /\ RepliesCarryIds'
BY ListenTypes, LiveShrinks DEF OneAnswer

\* One entry more among the results.
Adds(e, req, line, status) ==
  /\ e.req = req /\ e.line = line /\ e.status = status
  /\ results' = Append(results, e) /\ Elems(results') = Elems(results) \cup {e}
  /\ Len(results') = Len(results) + 1
  /\ UNCHANGED <<pc, plan, pages, seen, first, fileVars>>

LEMMA JudgedNext ==
  ASSUME CommandTypes, NEW req \in SentRequest, NEW line \in AnyLine \cup {Nothing},
         NEW status \in {"skipped", "success", "error", "timeout", "transport error"},
         Judged(req, line, status)
  PROVE  \E e \in ResultEntry : Adds(e, req, line, status)
<1>1. PICK e \in ResultEntry :
        /\ e.req = req /\ e.line = line /\ e.status = status
        /\ results' = Append(results, e)
        /\ UNCHANGED <<pc, plan, pages, seen, first, fileVars>>
  BY DEF Judged, ResultEntry
<1>2. results \in Seq(ResultEntry)
  BY DEF CommandTypes
<1>3. /\ Elems(Append(results, e)) = Elems(results) \cup {e}
      /\ Len(Append(results, e)) = Len(results) + 1
  BY <1>2, AppendElems, AppendIs
<1>4. QED
  BY <1>1, <1>3 DEF Adds

\* A call that is judged leaves its id behind.
LEMMA IdGrows ==
  ASSUME CommandTypes, pc = "call", pc' = "call", pages' = pages,
         Len(results') = Len(results) + 1
  PROVE  NextId <= NextId' /\ NextId < NextId'
<1>1. Len(pages) \in Nat /\ Len(results) \in Nat
  BY NextRequestTypes
<1>2. /\ NextId = 2 + Len(pages) + Len(results)
      /\ NextId' = 2 + Len(pages) + (Len(results) + 1)
  BY DEF NextId
<1>3. QED
  BY <1>1, <1>2

\* The judgement of a call.
LEMMA StepJudged ==
  ASSUME ExchangeTypes, CommandTypes, CommandTypes', OneAnswer, Idle',
         Live' \subseteq Live, RepliesCarryIds', Calling,
         NEW req \in SentRequest, NEW line \in AnyLine \cup {Nothing},
         NEW status \in {"skipped", "success", "error", "timeout", "transport error"},
         Judged(req, line, status),
         line = Nothing \/ line.kind = "request" \/ line.to = req
  PROVE  OneAnswer'
<1>0. PICK e \in ResultEntry : Adds(e, req, line, status)
  BY JudgedNext
<1>1. /\ e.req = req /\ e.line = line /\ Elems(results') = Elems(results) \cup {e}
      /\ Len(results') = Len(results) + 1 /\ pc' = pc /\ pages' = pages
  BY <1>0 DEF Adds
<1>2. AnswersTrue'
  <2>1. Answers(e)
    BY <1>1 DEF Answers
  <2>2. QED
    BY <1>1, <2>1 DEF OneAnswer, AnswersTrue
<1>3. InOrder'
  BY <1>1 DEF InOrder, Calling
<1>4. pc = "call" /\ pc' = "call"
  BY <1>1 DEF Calling
<1>5. NextId <= NextId' /\ NextId < NextId'
  BY <1>1, <1>4, IdGrows
<1>6. QED
  BY <1>2, <1>3, <1>4, <1>5, StepToIdle

\* OneAnswer is kept by every step.
LEMMA OneAnswerStep ==
  ASSUME ExchangeTypes, CommandTypes, ExchangeTypes', CommandTypes', OneAnswer, [Next]_vars
  PROVE  OneAnswer'
<1>1. CASE Start
  <2>1. awaited' = Nothing /\ asked' = {} /\ Elems(out') = {} /\ pc' = "initialize"
    BY <1>1 DEF Start, Launched, OneAnswer, Asks, Idle, Calling, Elems
  <2>2. Idle' /\ Live' = {}
    BY <2>1 DEF Live, Idle
  <2>3. InOrder' /\ AnswersTrue'
    BY <1>1 DEF Start, OneAnswer, InOrder, AnswersTrue
  <2>4. QED
    BY <2>1, <2>2, <2>3 DEF OneAnswer, RepliesCarryIds, Apart, Fresh, Asks
<1>2. CASE Initialize \/ ListTools \/ CallTool
  <2>1. \E req \in SentRequest : Sends(req) /\ req.id = NextId
    BY <1>2, NextRequestTypes DEF Initialize, ListTools, CallTool, NextId, OneAnswer, InOrder,
       Calling
  <2>2. /\ pc \in {"initialize", "list"} \/ Calling
        /\ UNCHANGED <<pc, plan, pages, results>>
    BY <1>2 DEF Initialize, ListTools, CallTool, commandVars
  <2>3. QED
    BY <2>1, <2>2, StepSends
<1>3. CASE Initialized
  <2>1. PICK line \in NextLine : Receives(line)
    BY <1>3 DEF Initialized
  <2>2. Idle' /\ Live' \subseteq Live /\ RepliesCarryIds' /\ ~Idle
    BY <2>1, ReceivedTypes, ListenShrinks DEF Idle
  <2>3. /\ pc = "initialize" /\ pc' = "list" /\ UNCHANGED <<pages, results>>
    BY <1>3 DEF Initialized
  <2>4. InOrder' /\ AnswersTrue'
    BY <2>3 DEF OneAnswer, InOrder, AnswersTrue
  <2>5. NextId = 1 /\ NextId' >= 2
    BY <2>3, NextRequestTypes DEF NextId
  <2>6. NextId <= NextId' /\ NextId < NextId'
    BY <2>5, <2>3, NextRequestTypes DEF NextId
  <2>7. QED
    BY <2>2, <2>3, <2>4, <2>6, StepToIdle
<1>4. CASE PageReceived
  <2>1. PICK line \in NextLine :
          /\ Receives(line)
          /\ pages' = Append(pages, [req |-> awaited, line |-> line, page |-> Result(line).page])
          /\ pc = "list" /\ pc' \in {"list", "echo"} /\ UNCHANGED results
    BY <1>4 DEF PageReceived
  <2>2. /\ Idle' /\ Live' \subseteq Live /\ RepliesCarryIds' /\ ~Idle /\ line \in AnyLine
        /\ Result(line).page \in Page /\ awaited \in SentRequest
    BY <2>1, ReceivedTypes, ListenShrinks, RequestTypes DEF Idle
  <2>3. PICK e \in PageEntry : /\ e.req = awaited /\ e.line = line /\ pages' = Append(pages, e)
    BY <2>1, <2>2 DEF PageEntry
  <2>4. Elems(pages') = Elems(pages) \cup {e} /\ Len(pages') = Len(pages) + 1
    <3>1. pages \in Seq(PageEntry)
      BY DEF CommandTypes
    <3>2. QED
      BY <2>3, <3>1, AppendElems, AppendIs
  <2>5. AnswersTrue'
    <3>1. e.line # Nothing /\ Answers(e)
      BY <2>1, <2>2, <2>3, ReceivedAnswers, LineIsSomething DEF Answers
    <3>2. QED
      BY <2>1, <2>4, <3>1 DEF OneAnswer, AnswersTrue
  <2>6. InOrder'
    BY <2>1 DEF OneAnswer, InOrder
  <2>7. NextId' = NextId + 1 /\ NextId \in Nat
    BY <2>1, <2>4, NextRequestTypes DEF NextId
  <2>8. QED
    BY <2>1, <2>2, <2>5, <2>6, <2>7, StepToIdle
<1>5. CASE DiscoverFails
  <2>1. Listens /\ Idle'
    BY <1>5 DEF DiscoverFails, Listens, Receives, ReceiveRaises, TimesOut, SendRaises, Idle,
                exchangeVars
  <2>2. Live' \subseteq Live /\ RepliesCarryIds'
    BY <2>1, ListenShrinks
  <2>3. pc' = "failed" /\ InOrder' /\ AnswersTrue'
    BY <1>5 DEF DiscoverFails, OneAnswer, InOrder, AnswersTrue
  <2>4. QED
    BY <2>1, <2>2, <2>3, StepToIdle
<1>6. CASE ShutdownAfterFailure \/ Shutdown
  <2>1. /\ asked' = {} /\ Elems(out') = {} /\ UNCHANGED <<awaited, pages, results>>
        /\ pc \in {"failed", "stop"} /\ pc' \in {"done", "write"}
    <3>1. /\ Stopped /\ UNCHANGED <<awaited, pages, results>>
          /\ pc \in {"failed", "stop"} /\ pc' \in {"done", "write"}
      BY <1>6 DEF ShutdownAfterFailure, Shutdown
    <3>2. QED
      BY <3>1 DEF Stopped, Elems
  <2>2. Idle /\ Idle'
    BY <2>1 DEF OneAnswer, Asks, Calling, Idle
  <2>3. Live' \subseteq Live /\ RepliesCarryIds'
    BY <2>1, <2>2 DEF Live, RepliesCarryIds
  <2>4. InOrder' /\ AnswersTrue'
    BY <2>1 DEF OneAnswer, InOrder, AnswersTrue
  <2>5. QED
    BY <2>1, <2>2, <2>3, <2>4, StepToIdle
<1>7. CASE CallSkipped
  <2>1. /\ Calling /\ Idle /\ UNCHANGED exchangeVars
        /\ Judged(CallRequest, Nothing, "skipped")
    BY <1>7 DEF CallSkipped
  <2>2. Idle' /\ Live' \subseteq Live /\ RepliesCarryIds'
    BY <2>1, ExchangeUnchanged
  <2>3. QED
    BY <2>1, <2>2, NextRequestTypes, StepJudged
<1>8. CASE CallAnswered
  <2>1. PICK line \in NextLine :
          /\ Receives(line)
          /\ Judged(awaited, line, IF Result(line).status = "ok" THEN "success" ELSE "error")
    BY <1>8 DEF CallAnswered
  <2>2. PICK status \in {"success", "error"} : Judged(awaited, line, status)
    BY <2>1
  <2>3. /\ Idle' /\ Live' \subseteq Live /\ RepliesCarryIds' /\ line \in AnyLine
        /\ awaited \in SentRequest /\ Calling
    BY <1>8, <2>1, ReceivedTypes, ListenShrinks, RequestTypes DEF Idle, CallAnswered
  <2>4. line.kind = "request" \/ line.to = awaited
    BY <2>1, ReceivedAnswers
  <2>5. QED
    BY <2>2, <2>3, <2>4, StepJudged
<1>9. CASE CallTimesOut
  <2>1. /\ Calling /\ TimesOut /\ Judged(awaited, Nothing, "timeout")
    BY <1>9 DEF CallTimesOut
  <2>2. Idle' /\ awaited \in SentRequest /\ Listens
    BY <2>1, RequestTypes DEF TimesOut, Idle, Listens
  <2>3. QED
    BY <2>1, <2>2, ListenShrinks, StepJudged
<1>10. CASE CallRaises
  <2>1. /\ Calling /\ Listens /\ Idle'
        /\ \E req \in SentRequest : Judged(req, Nothing, "transport error")
    BY <1>10, RequestTypes, NextRequestTypes
       DEF CallRaises, Listens, ReceiveRaises, Raises, SendRaises, Idle, exchangeVars
  <2>2. QED
    BY <2>1, ListenShrinks, StepJudged
<1>11. CASE EchoTools \/ CallsOver
  <2>1. /\ UNCHANGED exchangeVars /\ UNCHANGED <<pages, results>>
        /\ \/ pc = "echo" /\ pc' \in {"stop", "call"}
           \/ pc = "call" /\ pc' = "stop" /\ ~Calling
    <3>1. CASE EchoTools
      BY <3>1 DEF EchoTools
    <3>2. CASE CallsOver
      <4>1. plan # "calls" \/ Len(results) = Len(Tools)
        BY <3>2 DEF CallsOver
      <4>2. ~Calling
        BY <4>1, NextRequestTypes DEF Calling
      <4>3. QED
        BY <3>2, <4>2 DEF CallsOver
    <3>3. QED
      BY <1>11, <3>1, <3>2
  <2>2. Idle
    BY <2>1 DEF OneAnswer, Asks, Calling
  <2>3. Idle' /\ Live' \subseteq Live /\ RepliesCarryIds'
    BY <2>1, <2>2, ExchangeUnchanged
  <2>4. InOrder' /\ AnswersTrue'
    BY <2>1 DEF OneAnswer, InOrder, AnswersTrue
  <2>5. pc' = "call" => pc = "echo" /\ NextId' = NextId /\ NextId \in Nat
    BY <2>1, NextRequestTypes DEF NextId
  <2>6. QED
    BY <2>1, <2>2, <2>3, <2>4, <2>5, StepToIdle
<1>12. CASE EchoRaises \/ Replace \/ WriteFails \/ Crash
  <2>1. /\ UNCHANGED exchangeVars /\ UNCHANGED <<pages, results>>
        /\ pc \in {"echo", "write"} /\ pc' \in {"done", "crashed"}
    BY <1>12 DEF EchoRaises, Replace, WriteFails, Crash
  <2>2. Idle
    BY <2>1 DEF OneAnswer, Asks, Calling
  <2>3. Idle' /\ Live' \subseteq Live /\ RepliesCarryIds'
    BY <2>1, <2>2, ExchangeUnchanged
  <2>4. InOrder' /\ AnswersTrue'
    BY <2>1 DEF OneAnswer, InOrder, AnswersTrue
  <2>5. QED
    BY <2>1, <2>3, <2>4, StepToIdle
<1>13. CASE WriteTemp \/ UNCHANGED vars
  <2>1. UNCHANGED exchangeVars /\ UNCHANGED <<pc, plan, pages, results>>
    BY <1>13 DEF WriteTemp, vars, commandVars
  <2>2. QED
    BY <2>1, ExchangeUnchanged, StepAside DEF exchangeVars
<1>14. CASE SkipLine /\ UNCHANGED <<commandVars, fileVars>>
  <2>1. Listens /\ awaited' = awaited /\ UNCHANGED <<pc, plan, pages, results>>
    BY <1>14 DEF Listens, SkipLine, commandVars
  <2>2. QED
    BY <2>1, ListenShrinks, StepAside
<1>15. CASE Server
  <2>1. UNCHANGED <<pc, plan, pages, results>> /\ awaited' = awaited
    BY <1>15 DEF Server, commandVars
  <2>2. Live' \subseteq Live /\ RepliesCarryIds'
    BY <1>15, <2>1, ServerTypes, LiveShrinks DEF OneAnswer
  <2>3. QED
    BY <2>1, <2>2, StepAside
<1>16. QED
  BY <1>1, <1>2, <1>3, <1>4, <1>5, <1>6, <1>7, <1>8, <1>9, <1>10, <1>11, <1>12, <1>13, <1>14,
     <1>15 DEF Next, Command

-----------------------------------------------------------------------------
\* A step without a new result; a server that is gone stays so.
LEMMA NoNewResult ==
  ASSUME BrokenByError, SkipsNeedALostServer, results' = results, broken' = broken,
         server' = server \/ server \notin {"none", "reaped"} \/ server' \in {"none", "reaped"}
           \/ results = <<>>
  PROVE  BrokenByError' /\ SkipsNeedALostServer'
<1>1. BrokenByError'
  BY DEF BrokenByError
<1>2. CASE results = <<>>
  <2>1. DOMAIN results' = {}
    BY <1>2
  <2>2. QED
    BY <1>1, <2>1 DEF SkipsNeedALostServer
<1>3. CASE server \in {"none", "reaped"} => server' \in {"none", "reaped"}
  <2>1. ASSUME NEW i \in DOMAIN results', results'[i].status = "skipped"
        PROVE  \/ server' \in {"none", "reaped"}
               \/ \E j \in 1..(i - 1) : results'[j].status = "transport error"
    <3>1. i \in DOMAIN results /\ results[i].status = "skipped"
      BY <2>1
    <3>2. \/ server \in {"none", "reaped"}
          \/ \E j \in 1..(i - 1) : results[j].status = "transport error"
      BY <3>1, Zenon DEF SkipsNeedALostServer
    <3>3. QED
      BY <3>2, <1>3, Zenon
  <2>2. QED
    BY <1>1, <2>1, Zenon DEF SkipsNeedALostServer
<1>4. QED
  BY <1>2, <1>3

\* The positions of a sequence with one element more.
LEMMA Positions ==
  ASSUME NEW n \in Nat
  PROVE  /\ \A i \in 1..(n + 1) : i = n + 1 \/ i \in 1..n
         /\ 1..((n + 1) - 1) = 1..n
         /\ \A i \in 1..n : \A j \in 1..(i - 1) : j \in 1..n
OBVIOUS

\* A sequence and the same with one element more.
Appended(r, s, e) ==
  /\ Len(s) \in Nat /\ Len(r) = Len(s) + 1 /\ r[Len(s) + 1] = e
  /\ \A i \in 1..Len(s) : r[i] = s[i]
  /\ Elems(r) = Elems(s) \cup {e} /\ DOMAIN r = 1..Len(r) /\ DOMAIN s = 1..Len(s)

LEMMA OneMore ==
  ASSUME NEW S, NEW s \in Seq(S), NEW e \in S
  PROVE  Appended(Append(s, e), s, e)
<1>1. DOMAIN s = 1..Len(s) /\ DOMAIN Append(s, e) = 1..Len(Append(s, e))
  BY AppendIs
<1>2. QED
  BY <1>1, AppendIs, AppendElems DEF Appended

\* A new result, at the end.
LEMMA NewResult ==
  ASSUME CommandTypes, BrokenByError, SkipsNeedALostServer, server' = server,
         NEW e \in ResultEntry, results' = Append(results, e),
         broken' = broken \/ e.status = "transport error",
         e.status = "skipped" => broken \/ server \in {"none", "reaped"}
  PROVE  BrokenByError' /\ SkipsNeedALostServer'
<1>1. results \in Seq(ResultEntry)
  BY DEF CommandTypes
<1>2. PICK r : r = results' /\ Appended(r, results, e)
  BY <1>1, OneMore, Zenon
<1>3. /\ Len(results) \in Nat /\ Len(r) = Len(results) + 1 /\ r[Len(results) + 1] = e
      /\ \A i \in 1..Len(results) : r[i] = results[i]
      /\ Elems(r) = Elems(results) \cup {e} /\ DOMAIN r = 1..Len(r)
      /\ DOMAIN results = 1..Len(results)
  BY <1>2, Zenon DEF Appended
<1>4. BrokenByError'
  BY <1>2, <1>3 DEF BrokenByError
<1>5. ASSUME NEW i \in DOMAIN r, r[i].status = "skipped"
      PROVE  \/ server' \in {"none", "reaped"}
             \/ \E j \in 1..(i - 1) : r[j].status = "transport error"
  <2>1. CASE i = Len(results) + 1
    <3>1. CASE server \in {"none", "reaped"}
      BY <3>1
    <3>2. CASE broken
      <4>1. PICK j \in 1..Len(results) : results[j].status = "transport error"
        BY <3>2 DEF BrokenByError, Elems
      <4>2. j \in 1..(i - 1)
        BY <1>3, <2>1, Positions
      <4>3. QED
        BY <1>3, <4>1, <4>2
    <3>3. QED
      BY <1>3, <1>5, <2>1, <3>1, <3>2
  <2>2. CASE i # Len(results) + 1
    <3>1. i \in 1..Len(results)
      BY <1>3, <2>2, Positions
    <3>2. results[i].status = "skipped" /\ i \in DOMAIN results
      BY <1>3, <1>5, <3>1
    <3>3. CASE server \in {"none", "reaped"}
      BY <3>3
    <3>4. CASE \E j \in 1..(i - 1) : results[j].status = "transport error"
      <4>1. PICK j \in 1..(i - 1) : results[j].status = "transport error"
        BY <3>4
      <4>2. j \in 1..Len(results)
        BY <1>3, <3>1, Positions
      <4>3. QED
        BY <1>3, <4>1, <4>2
    <3>5. QED
      BY <3>2, <3>3, <3>4 DEF SkipsNeedALostServer
  <2>3. QED
    BY <2>1, <2>2
<1>6. SkipsNeedALostServer'
  BY <1>2, <1>5 DEF SkipsNeedALostServer
<1>7. QED
  BY <1>4, <1>6

\* A tool is skipped behind a transport error or the exit of the server only:
\* this is kept by every step.
LEMMA SkipsStep ==
  ASSUME ExchangeTypes, CommandTypes, OneAnswer, BrokenByError, SkipsNeedALostServer,
         [Next]_vars
  PROVE  BrokenByError' /\ SkipsNeedALostServer'
<1>1. CASE Start
  <2>1. UNCHANGED <<results, broken>> /\ results = <<>>
    BY <1>1 DEF Start, OneAnswer, InOrder
  <2>2. QED
    BY <2>1, NoNewResult
<1>2. CASE CallSkipped
  <2>1. /\ Judged(CallRequest, Nothing, "skipped") /\ CallRequest \in SentRequest
        /\ server' = server /\ broken' = broken /\ (broken \/ ~Running)
    BY <1>2, NextRequestTypes DEF CallSkipped, exchangeVars
  <2>2. PICK e \in ResultEntry : Adds(e, CallRequest, Nothing, "skipped")
    BY <2>1, JudgedNext
  <2>3. results' = Append(results, e)
    BY <2>2 DEF Adds
  <2>4. broken \/ server \in {"none", "reaped"}
    BY <2>1 DEF Running, ExchangeTypes
  <2>5. QED
    BY <2>1, <2>3, <2>4, NewResult
<1>3. CASE CallAnswered
  <2>1. PICK line \in NextLine, status \in {"success", "error"} :
          Receives(line) /\ Judged(awaited, line, status)
    BY <1>3 DEF CallAnswered
  <2>2. line \in AnyLine /\ awaited \in SentRequest /\ Listens
    BY <2>1, ReceivedTypes, RequestTypes
  <2>3. server' = server
    BY <2>2, ListenTypes
  <2>4. PICK e \in ResultEntry : Adds(e, awaited, line, status)
    BY <2>1, <2>2, JudgedNext
  <2>5. results' = Append(results, e) /\ e.status # "skipped"
    BY <2>4 DEF Adds
  <2>6. broken' = broken
    BY <1>3 DEF CallAnswered
  <2>7. QED
    BY <2>3, <2>5, <2>6, NewResult
<1>4. CASE CallTimesOut
  <2>1. Judged(awaited, Nothing, "timeout") /\ awaited \in SentRequest /\ Listens
    BY <1>4, RequestTypes DEF CallTimesOut, TimesOut, Listens
  <2>2. PICK e \in ResultEntry : Adds(e, awaited, Nothing, "timeout")
    BY <2>1, JudgedNext
  <2>3. results' = Append(results, e) /\ e.status # "skipped"
    BY <2>2 DEF Adds
  <2>4. server' = server /\ broken' = broken
    BY <1>4, <2>1, ListenTypes DEF CallTimesOut
  <2>5. QED
    BY <2>3, <2>4, NewResult
<1>5. CASE CallRaises
  <2>1. /\ Listens
        /\ \E req \in SentRequest : Judged(req, Nothing, "transport error")
    BY <1>5, RequestTypes, NextRequestTypes DEF CallRaises, Listens, ReceiveRaises, Raises
  <2>2. PICK req \in SentRequest : Judged(req, Nothing, "transport error")
    BY <2>1
  <2>3. PICK e \in ResultEntry : Adds(e, req, Nothing, "transport error")
    BY <2>2, JudgedNext
  <2>4. results' = Append(results, e) /\ e.status = "transport error"
    BY <2>3 DEF Adds
  <2>5. server' = server
    BY <2>1, ListenTypes
  <2>6. QED
    BY <2>4, <2>5, NewResult
<1>6. CASE \/ Initialize \/ ListTools \/ CallTool \/ Initialized \/ PageReceived \/ DiscoverFails
           \/ EchoRaises \/ EchoTools \/ CallsOver \/ ShutdownAfterFailure \/ Shutdown
           \/ WriteTemp \/ Replace \/ WriteFails \/ Crash \/ UNCHANGED vars
           \/ (SkipLine /\ UNCHANGED <<commandVars, fileVars>>)
  <2>1. results' = results /\ broken' = broken
    BY <1>6 DEF Initialize, ListTools, CallTool, Initialized, PageReceived, DiscoverFails,
       EchoRaises, EchoTools, CallsOver, ShutdownAfterFailure, Shutdown, WriteTemp, Replace,
       WriteFails, Crash, vars, commandVars
  <2>2. server' = server \/ server' = "none"
    <3>1. CASE Initialize \/ ListTools \/ CallTool
      BY <3>1 DEF Initialize, ListTools, CallTool, Sends, Written
    <3>2. CASE \/ Initialized \/ PageReceived \/ DiscoverFails
               \/ (SkipLine /\ UNCHANGED <<commandVars, fileVars>>)
      <4>1. Listens
        BY <3>2 DEF Initialized, PageReceived, DiscoverFails, Listens
      <4>2. QED
        BY <4>1, ListenTypes
    <3>3. CASE ShutdownAfterFailure \/ Shutdown
      BY <3>3 DEF ShutdownAfterFailure, Shutdown, Stopped
    <3>4. CASE \/ EchoRaises \/ EchoTools \/ CallsOver \/ WriteTemp \/ Replace \/ WriteFails
               \/ Crash \/ UNCHANGED vars
      BY <3>4 DEF EchoRaises, EchoTools, CallsOver, WriteTemp, Replace, WriteFails, Crash, vars,
         exchangeVars
    <3>5. QED
      BY <1>6, <3>1, <3>2, <3>3, <3>4
  <2>3. QED
    BY <2>1, <2>2, NoNewResult
<1>7. CASE Server
  <2>1. results' = results /\ broken' = broken
    BY <1>7 DEF Server, commandVars
  <2>2. server' = server \/ server = "up" \/ server = "exited"
    BY <1>7, ServerTypes
  <2>3. QED
    BY <2>1, <2>2, NoNewResult
<1>8. QED
  BY <1>1, <1>2, <1>3, <1>4, <1>5, <1>6, <1>7 DEF Next, Command

-----------------------------------------------------------------------------
\* How far the command is: this is kept by every step.
LEMMA ProgressStep ==
  ASSUME ExchangeTypes, CommandTypes, OneAnswer, Progress, [Next]_vars
  PROVE  Progress'
<1>1. CASE Start
  BY <1>1 DEF Start, Progress, fileVars
<1>2. CASE \/ Initialize \/ ListTools \/ CallTool \/ Initialized
           \/ (SkipLine /\ UNCHANGED <<commandVars, fileVars>>) \/ UNCHANGED vars
  <2>1. /\ UNCHANGED <<plan, pages, fileVars>> /\ results' = results
        /\ pc' = pc \/ (pc = "initialize" /\ pc' = "list")
    BY <1>2 DEF Initialize, ListTools, CallTool, Initialized, commandVars, vars
  <2>2. server' = server
    BY <1>2 DEF Initialize, ListTools, CallTool, Sends, Written, Initialized, Receives, SkipLine,
                TakeLine, vars, exchangeVars
  <2>3. CallsDone' = CallsDone
    BY <2>1 DEF CallsDone, Tools
  <2>4. QED
    BY <2>1, <2>2, <2>3 DEF Progress, fileVars
<1>3. CASE PageReceived
  <2>1. /\ pc = "list" /\ pc' \in {"list", "echo"} /\ UNCHANGED <<plan, results, fileVars>>
    BY <1>3 DEF PageReceived
  <2>2. results = <<>>
    BY <2>1 DEF OneAnswer, InOrder
  <2>3. QED
    BY <2>1, <2>2 DEF Progress, fileVars
<1>4. CASE DiscoverFails
  <2>1. /\ pc \in {"initialize", "list"} /\ pc' = "failed" /\ exit' = 1
        /\ UNCHANGED <<plan, results, temp, golden>>
    BY <1>4 DEF DiscoverFails
  <2>2. QED
    BY <2>1 DEF Progress
<1>5. CASE ShutdownAfterFailure
  <2>1. /\ pc = "failed" /\ pc' = "done" /\ server' = "none"
        /\ UNCHANGED <<plan, results, temp, golden, exit>>
    BY <1>5 DEF ShutdownAfterFailure, Stopped, fileVars
  <2>2. exit = 1 /\ temp = "none" /\ golden # "new"
    BY <2>1 DEF Progress
  <2>3. exit' # 0
    BY <2>1, <2>2
  <2>4. QED
    BY <2>1, <2>2, <2>3 DEF Progress
<1>6. CASE EchoRaises
  <2>1. /\ pc = "echo" /\ pc' = "done" /\ exit' = 2
        /\ UNCHANGED <<plan, results, temp, golden>>
    BY <1>6 DEF EchoRaises
  <2>2. exit' # 0
    BY <2>1
  <2>3. temp = "none" /\ golden # "new"
    BY <2>1 DEF Progress
  <2>4. QED
    BY <2>1, <2>2, <2>3 DEF Progress
<1>7. CASE EchoTools
  <2>1. /\ pc = "echo" /\ pc' \in {"stop", "call"}
        /\ UNCHANGED <<plan, results, temp, golden, exit>>
    BY <1>7 DEF EchoTools, fileVars
  <2>2. results = <<>> /\ Len(results') = 0
    BY <2>1 DEF OneAnswer, InOrder
  <2>3. CallsDone'
    BY <2>2 DEF CallsDone
  <2>4. QED
    BY <2>1, <2>2, <2>3 DEF Progress
<1>8. CASE CallSkipped \/ CallAnswered \/ CallTimesOut \/ CallRaises
  <2>1. /\ Calling /\ UNCHANGED <<pc, plan, temp, golden, exit>>
    BY <1>8 DEF CallSkipped, CallAnswered, CallTimesOut, CallRaises, Judged, fileVars
  <2>2. pc = "call" /\ plan = "calls"
    BY <2>1 DEF Calling
  <2>3. QED
    BY <2>1, <2>2 DEF Progress
<1>9. CASE CallsOver
  <2>1. /\ pc = "call" /\ pc' = "stop" /\ (plan # "calls" \/ Len(results) = Len(Tools))
        /\ UNCHANGED <<plan, pages, results, temp, golden, exit>>
    BY <1>9 DEF CallsOver, fileVars
  <2>2. CallsDone
    <3>1. CASE plan # "calls"
      <4>1. results = <<>> /\ Len(results) = 0
        BY <3>1 DEF Progress
      <4>2. QED
        BY <4>1 DEF CallsDone
    <3>2. CASE Len(results) = Len(Tools)
      BY <3>2 DEF CallsDone
    <3>3. QED
      BY <2>1, <3>1, <3>2
  <2>3. CallsDone'
    BY <2>1, <2>2 DEF CallsDone, Tools
  <2>4. QED
    BY <2>1, <2>3 DEF Progress
<1>10. CASE Shutdown
  <2>1. /\ pc = "stop" /\ pc' = IF plan = "dry run" THEN "done" ELSE "write"
        /\ server' = "none" /\ UNCHANGED <<plan, pages, results, temp, golden, exit>>
    BY <1>10 DEF Shutdown, Stopped, fileVars
  <2>2. CallsDone'
    BY <2>1 DEF Progress, CallsDone, Tools
  <2>3. QED
    BY <2>1, <2>2 DEF Progress
<1>11. CASE WriteTemp \/ Replace \/ WriteFails \/ Crash
  <2>1. /\ pc = "write" /\ UNCHANGED <<server, plan, pages, results>>
    BY <1>11 DEF WriteTemp, Replace, WriteFails, Crash, exchangeVars, commandVars
  <2>2. CallsDone' /\ exit = 0 /\ golden # "new" /\ server = "none" /\ plan # "dry run"
    BY <2>1 DEF Progress, CallsDone, Tools
  <2>3. \/ pc' = "write" /\ UNCHANGED <<golden, exit>>
        \/ pc' = "crashed" /\ UNCHANGED <<golden, exit>>
        \/ pc' = "done" /\ golden' = "new" /\ temp' = "none" /\ UNCHANGED exit
        \/ pc' = "done" /\ exit' # 0 /\ temp' = "none" /\ UNCHANGED golden
    BY <1>11 DEF WriteTemp, Replace, WriteFails, Crash, fileVars, commandVars
  <2>4. QED
    BY <2>1, <2>2, <2>3 DEF Progress
<1>12. CASE Server
  <2>1. /\ UNCHANGED <<plan, pages, fileVars, pc>> /\ results' = results
    BY <1>12 DEF Server, commandVars
  <2>2. server' = server \/ server = "up" \/ server = "exited"
    BY <1>12, ServerTypes
  <2>3. CallsDone' = CallsDone
    BY <2>1 DEF CallsDone, Tools
  <2>4. pc = "done" => exit = 2 \/ server' = "none"
    BY <2>2 DEF Progress
  <2>5. pc \in {"write", "crashed"} => server' = "none"
    BY <2>2 DEF Progress
  <2>6. QED
    BY <2>1, <2>3, <2>4, <2>5 DEF Progress, fileVars
<1>13. QED
  BY <1>1, <1>2, <1>3, <1>4, <1>5, <1>6, <1>7, <1>8, <1>9, <1>10, <1>11, <1>12
     DEF Next, Command

-----------------------------------------------------------------------------
(* The times of the transcript increase. X is a set of messages.             *)

Between(s, lo, hi) ==
  /\ \A i \in 1..Len(s) : lo <= s[i].t /\ s[i].t < hi
  /\ \A i \in 1..(Len(s) - 1) : s[i].t < s[i + 1].t

\* Two messages are a sequence, and so are two sequences.
LEMMA Pair ==
  ASSUME NEW X, NEW x \in X, NEW y \in X
  PROVE  <<x, y>> \in Seq(X) /\ Len(<<x, y>>) = 2 /\ <<x, y>>[1] = x /\ <<x, y>>[2] = y
OBVIOUS

LEMMA Triple ==
  ASSUME NEW X, NEW x \in X, NEW y \in X, NEW z \in X
  PROVE  /\ <<x, y, z>> \in Seq(X) /\ Len(<<x, y, z>>) = 3
         /\ <<x, y, z>>[1] = x /\ <<x, y, z>>[2] = y /\ <<x, y, z>>[3] = z
OBVIOUS

Joined(c, s, r) ==
  /\ Len(s) \in Nat /\ Len(r) \in Nat /\ Len(c) = Len(s) + Len(r)
  /\ \A i \in 1..Len(s) : c[i] = s[i]
  /\ \A i \in 1..Len(r) : c[Len(s) + i] = r[i]

LEMMA Joins ==
  ASSUME NEW X, NEW s \in Seq(X), NEW r \in Seq(X)
  PROVE  s \o r \in Seq(X) /\ Joined(s \o r, s, r)
BY DEF Joined

\* Nothing, and two messages.
LEMMA ShortTimes ==
  ASSUME NEW X, \A x \in X : x.t \in Nat, NEW lo \in Nat, NEW hi \in Nat
  PROVE  /\ <<>> \in Seq(X) /\ Between(<<>>, lo, hi)
         /\ \A x, y \in X : lo <= x.t /\ x.t < y.t /\ y.t < hi =>
              <<x, y>> \in Seq(X) /\ Between(<<x, y>>, lo, hi)
<1>1. <<>> \in Seq(X) /\ Between(<<>>, lo, hi)
  BY DEF Between
<1>2. ASSUME NEW x \in X, NEW y \in X, lo <= x.t, x.t < y.t, y.t < hi
      PROVE  <<x, y>> \in Seq(X) /\ Between(<<x, y>>, lo, hi)
  <2>1. <<x, y>> \in Seq(X) /\ Len(<<x, y>>) = 2 /\ <<x, y>>[1] = x /\ <<x, y>>[2] = y
    BY Pair, Zenon
  <2>2. PICK s : s = <<x, y>> /\ s \in Seq(X) /\ Len(s) = 2 /\ s[1] = x /\ s[2] = y
    BY <2>1, Zenon
  <2>3. \A i \in 1..2 : lo <= s[i].t /\ s[i].t < hi
    <3>1. x.t < hi /\ lo <= y.t
      BY <1>2
    <3>2. \A i \in 1..2 : i = 1 \/ i = 2
      OBVIOUS
    <3>3. QED
      BY <1>2, <2>2, <3>1, <3>2
  <2>4. \A i \in 1..(2 - 1) : s[i].t < s[i + 1].t
    <3>1. \A i \in 1..(2 - 1) : i = 1 /\ i + 1 = 2
      OBVIOUS
    <3>2. QED
      BY <1>2, <2>2, <3>1
  <2>5. QED
    BY <2>2, <2>3, <2>4 DEF Between
<1>3. QED
  BY <1>1, <1>2

\* One sequence behind the other.
LEMMA ConcatTimes ==
  ASSUME NEW X, \A x \in X : x.t \in Nat,
         NEW lo \in Nat, NEW mid \in Nat, NEW hi \in Nat, lo <= mid, mid <= hi,
         NEW s \in Seq(X), Between(s, lo, mid), NEW r \in Seq(X), Between(r, mid, hi)
  PROVE  s \o r \in Seq(X) /\ Between(s \o r, lo, hi)
<1>0. s \o r \in Seq(X) /\ Joined(s \o r, s, r)
  BY Joins, Zenon
<1>1. PICK c : c = s \o r /\ c \in Seq(X) /\ Joined(c, s, r)
  BY <1>0, Zenon
<1>2. /\ Len(s) \in Nat /\ Len(r) \in Nat /\ Len(c) = Len(s) + Len(r)
      /\ \A i \in 1..Len(s) : c[i] = s[i]
      /\ \A i \in 1..Len(r) : c[Len(s) + i] = r[i]
  BY <1>1, Zenon DEF Joined
<1>3. \A i \in 1..Len(c) :
        \/ i \in 1..Len(s)
        \/ i - Len(s) \in 1..Len(r) /\ Len(s) + (i - Len(s)) = i
  BY <1>2
<1>4. /\ \A i \in 1..Len(s) : c[i].t \in Nat /\ lo <= c[i].t /\ c[i].t < mid
      /\ \A i \in 1..Len(c) : i \notin 1..Len(s) =>
           c[i].t \in Nat /\ mid <= c[i].t /\ c[i].t < hi
  <2>1. \A i \in 1..Len(s) : s[i] \in X
    OBVIOUS
  <2>2. \A i \in 1..Len(r) : r[i] \in X
    OBVIOUS
  <2>3. \A i \in 1..Len(r) : c[Len(s) + i].t \in Nat
                             /\ mid <= c[Len(s) + i].t /\ c[Len(s) + i].t < hi
    BY <1>2, <2>2 DEF Between
  <2>4. QED
    BY <1>2, <1>3, <2>1, <2>3 DEF Between
<1>5. \A i \in 1..Len(c) : lo <= c[i].t /\ c[i].t < hi
  BY <1>4
<1>6. ASSUME NEW i \in 1..(Len(c) - 1)
      PROVE  c[i].t < c[i + 1].t
  <2>1. i \in 1..Len(c) /\ i + 1 \in 1..Len(c)
    BY <1>2
  <2>2. CASE i + 1 \in 1..Len(s)
    <3>1. i \in 1..(Len(s) - 1) /\ i \in 1..Len(s)
      BY <1>2, <2>2
    <3>2. s[i].t < s[i + 1].t
      BY <3>1 DEF Between
    <3>3. QED
      BY <1>2, <2>2, <3>1, <3>2
  <2>3. CASE i \in 1..Len(s) /\ i + 1 \notin 1..Len(s)
    <3>1. c[i].t < mid /\ mid <= c[i + 1].t /\ c[i].t \in Nat /\ c[i + 1].t \in Nat
      BY <1>4, <2>1, <2>3
    <3>2. QED
      BY <3>1
  <2>4. CASE i \notin 1..Len(s)
    <3>1. PICK j \in 1..(Len(r) - 1) : i = Len(s) + j /\ i + 1 = Len(s) + (j + 1)
      <4>1. i - Len(s) \in 1..(Len(r) - 1)
        BY <1>2, <2>1, <2>4
      <4>2. i = Len(s) + (i - Len(s)) /\ i + 1 = Len(s) + ((i - Len(s)) + 1)
        BY <1>2, <2>1
      <4>3. QED
        BY <4>1, <4>2
    <3>2. r[j].t < r[j + 1].t
      BY DEF Between
    <3>3. j \in 1..Len(r) /\ j + 1 \in 1..Len(r)
      BY <1>2
    <3>4. QED
      BY <1>2, <3>1, <3>2, <3>3
  <2>5. QED
    BY <2>1, <2>2, <2>3, <2>4
<1>7. QED
  BY <1>1, <1>5, <1>6 DEF Between

\* Blocks of messages, each between its bounds.
LEMMA FlattenTimes ==
  ASSUME NEW X, \A x \in X : x.t \in Nat, NEW N \in Nat, NEW b, NEW at,
         \A i \in 0..N : at[i] \in Nat,
         \A i \in 1..N : b[i] \in Seq(X) /\ at[i - 1] <= at[i] /\ Between(b[i], at[i - 1], at[i])
  PROVE  /\ FlattenSeq([i \in 1..N |-> b[i]]) \in Seq(X) /\ at[0] <= at[N]
         /\ Between(FlattenSeq([i \in 1..N |-> b[i]]), at[0], at[N])
<1> DEFINE Pre(n) == [i \in 1..n |-> b[i]]
           Good(n) == /\ Pre(n) \in Seq(Seq(X)) /\ FlattenSeq(Pre(n)) \in Seq(X)
                      /\ at[0] <= at[n] /\ Between(FlattenSeq(Pre(n)), at[0], at[n])
           S == {n \in Nat : n <= N => Good(n)}
<1>1. Good(0)
  <2>1. Pre(0) = <<>> /\ <<>> \in Seq(Seq(X)) /\ <<>> \in Seq(X)
    OBVIOUS
  <2>2. FlattenSeq(<<>>) = <<>>
    BY DEF FlattenSeq
  <2>3. at[0] \in Nat
    OBVIOUS
  <2>4. at[0] <= at[0] /\ Between(<<>>, at[0], at[0])
    BY <2>3, ShortTimes
  <2>5. QED
    BY <2>1, <2>2, <2>4
<1>2. ASSUME NEW n \in Nat, n + 1 <= N, Good(n)
      PROVE  Good(n + 1)
  <2>1. n + 1 \in 1..N /\ n \in 0..N /\ n + 1 \in 0..N /\ 0 \in 0..N /\ (n + 1) - 1 = n
    BY <1>2
  <2>2. /\ b[n + 1] \in Seq(X) /\ at[n] <= at[n + 1] /\ Between(b[n + 1], at[n], at[n + 1])
        /\ at[0] \in Nat /\ at[n] \in Nat /\ at[n + 1] \in Nat
    BY <2>1
  <2>3. Pre(n + 1) = Append(Pre(n), b[n + 1])
    <3>1. Pre(n) \in Seq(Seq(X)) /\ Len(Pre(n)) = n
      BY <1>2
    <3>2. QED
      BY <3>1
  <2> HIDE DEF Pre
  <2>4. Pre(n + 1) \in Seq(Seq(X))
    BY <1>2, <2>2, <2>3, AppendIs
  <2>5. FlattenSeq(Pre(n + 1)) = FlattenSeq(Pre(n)) \o b[n + 1]
    BY <1>2, <2>2, <2>3, FlattenAppend
  <2>6. at[0] <= at[n + 1]
    BY <1>2, <2>2
  <2>7. PICK f \in Seq(X) : f = FlattenSeq(Pre(n)) /\ Between(f, at[0], at[n]) /\ at[0] <= at[n]
    BY <1>2
  <2>8. f \o b[n + 1] \in Seq(X) /\ Between(f \o b[n + 1], at[0], at[n + 1])
    BY <2>2, <2>7, ConcatTimes, Zenon
  <2>9. QED
    BY <2>4, <2>5, <2>6, <2>7, <2>8
<1> HIDE DEF Good
<1>3. 0 \in S
  BY <1>1
<1>4. \A n \in Nat : n \in S => n + 1 \in S
  BY <1>2
<1>5. Nat \subseteq S
  <2> HIDE DEF S
  <2>1. QED
    BY <1>3, <1>4, Induction
<1>6. QED
  BY <1>5 DEF Good

\* The messages of a transcript.
Recorded == {1, Nothing} \cup SentRequest \cup AnyLine
AnyMessage == [t : Nat, dir : {"c2s", "s2c"}, what : Recorded]

LEMMA MessageTypes ==
  /\ \A m \in AnyMessage : m.t \in Nat
  /\ \A t \in Nat, dir \in {"c2s", "s2c"}, what \in Recorded :
       Message(t, dir, what) \in AnyMessage /\ Message(t, dir, what).t = t
BY DEF AnyMessage, Message

\* The pages, from 40 on, 40 ms each.
LEMMA PageTimes ==
  ASSUME CommandTypes
  PROVE  \E s \in Seq(AnyMessage) :
           /\ s = FlattenSeq([i \in DOMAIN pages |->
                << Message(40 * i, "c2s", pages[i].req),
                   Message(40 * i + 25, "s2c", pages[i].line) >>])
           /\ Between(s, 40, 40 * (Len(pages) + 1))
<1> DEFINE b == [i \in 1..Len(pages) |->
                  << Message(40 * i, "c2s", pages[i].req),
                     Message(40 * i + 25, "s2c", pages[i].line) >>]
           at == [i \in Nat |-> 40 * (i + 1)]
<1>1. Len(pages) \in Nat /\ DOMAIN pages = 1..Len(pages)
      /\ \A i \in 1..Len(pages) : pages[i].req \in Recorded /\ pages[i].line \in Recorded
  <2>1. pages \in Seq(PageEntry)
    BY DEF CommandTypes
  <2>2. \A i \in 1..Len(pages) : pages[i] \in PageEntry
    BY <2>1
  <2>3. \A p \in PageEntry : p.req \in Recorded /\ p.line \in Recorded
    BY DEF PageEntry, Recorded
  <2>4. QED
    BY <2>1, <2>2, <2>3
<1>2. ASSUME NEW i \in 1..Len(pages)
      PROVE  /\ b[i] \in Seq(AnyMessage) /\ at[i - 1] <= at[i] /\ Between(b[i], at[i - 1], at[i])
  <2>1. /\ i \in Nat /\ i - 1 \in Nat /\ 40 * i \in Nat /\ 40 * i + 25 \in Nat
        /\ 40 * (i + 1) \in Nat /\ 40 * ((i - 1) + 1) = 40 * i
        /\ 40 * i <= 40 * i /\ 40 * i < 40 * i + 25 /\ 40 * i + 25 < 40 * (i + 1)
        /\ 40 * i <= 40 * (i + 1)
    BY <1>1
  <2>2. at[i - 1] = 40 * i /\ at[i] = 40 * (i + 1)
    BY <2>1
  <2>3. PICK x \in AnyMessage : x = Message(40 * i, "c2s", pages[i].req) /\ x.t = 40 * i
    BY <1>1, <2>1, MessageTypes
  <2>4. PICK y \in AnyMessage : y = Message(40 * i + 25, "s2c", pages[i].line)
                                /\ y.t = 40 * i + 25
    BY <1>1, <2>1, MessageTypes
  <2>5. b[i] = <<x, y>>
    BY <2>3, <2>4
  <2> HIDE DEF b, at
  <2>6. <<x, y>> \in Seq(AnyMessage) /\ Between(<<x, y>>, 40 * i, 40 * (i + 1))
    BY <2>1, <2>3, <2>4, MessageTypes, ShortTimes
  <2>7. QED
    BY <2>1, <2>2, <2>5, <2>6
<1>3. \A i \in 0..Len(pages) : at[i] \in Nat
  OBVIOUS
<1>4. at[0] = 40 /\ at[Len(pages)] = 40 * (Len(pages) + 1)
  BY <1>1
<1>5. b = [i \in DOMAIN pages |->
            << Message(40 * i, "c2s", pages[i].req), Message(40 * i + 25, "s2c", pages[i].line) >>]
  BY <1>1
<1>6. [i \in 1..Len(pages) |-> b[i]] = b
  OBVIOUS
<1> HIDE DEF b, at
<1>7. /\ FlattenSeq([i \in 1..Len(pages) |-> b[i]]) \in Seq(AnyMessage)
      /\ Between(FlattenSeq([i \in 1..Len(pages) |-> b[i]]), at[0], at[Len(pages)])
  BY <1>1, <1>2, <1>3, MessageTypes, FlattenTimes
<1>8. QED
  BY <1>4, <1>5, <1>6, <1>7

\* The calls, from CallStart on, 50 ms each; those without an answer are left out.
LEMMA CallTimes ==
  ASSUME CommandTypes
  PROVE  \E s \in Seq(AnyMessage) :
           /\ s = FlattenSeq([i \in DOMAIN results |->
                IF results[i].line = Nothing THEN <<>>
                ELSE LET t == CallStart + 50 * (i - 1)
                     IN << Message(t, "c2s", results[i].req),
                           Message(t + 25, "s2c", results[i].line) >>])
           /\ Between(s, CallStart, CallStart + 50 * Len(results))
<1> DEFINE b == [i \in 1..Len(results) |->
                  IF results[i].line = Nothing THEN <<>>
                  ELSE LET t == CallStart + 50 * (i - 1)
                       IN << Message(t, "c2s", results[i].req),
                             Message(t + 25, "s2c", results[i].line) >>]
           at == [i \in Nat |-> CallStart + 50 * i]
<1>1. /\ Len(results) \in Nat /\ DOMAIN results = 1..Len(results)
      /\ \A i \in 1..Len(results) : results[i].req \in Recorded /\ results[i].line \in Recorded
  <2>1. results \in Seq(ResultEntry)
    BY DEF CommandTypes
  <2>2. \A i \in 1..Len(results) : results[i] \in ResultEntry
    BY <2>1
  <2>3. \A r \in ResultEntry : r.req \in Recorded /\ r.line \in Recorded
    BY DEF ResultEntry, Recorded
  <2>4. QED
    BY <2>1, <2>2, <2>3
<1>2. CallStart \in Nat
  BY NextRequestTypes DEF CallStart
<1>3. ASSUME NEW i \in 1..Len(results)
      PROVE  /\ b[i] \in Seq(AnyMessage) /\ at[i - 1] <= at[i] /\ Between(b[i], at[i - 1], at[i])
  <2>1. PICK t \in Nat : t = CallStart + 50 * (i - 1)
    BY <1>1, <1>2
  <2>2. /\ at[i - 1] = t /\ at[i] = t + 50 /\ t + 50 \in Nat
        /\ t <= t /\ t < t + 25 /\ t + 25 < t + 50 /\ t <= t + 50 /\ t + 25 \in Nat
    BY <1>1, <1>2, <2>1
  <2>3. PICK x \in AnyMessage : x = Message(t, "c2s", results[i].req) /\ x.t = t
    BY <1>1, MessageTypes
  <2>4. PICK y \in AnyMessage : y = Message(t + 25, "s2c", results[i].line) /\ y.t = t + 25
    BY <1>1, <2>2, MessageTypes
  <2>5. b[i] = <<>> \/ b[i] = <<x, y>>
    BY <2>1, <2>3, <2>4
  <2> HIDE DEF b, at
  <2>6. /\ <<x, y>> \in Seq(AnyMessage) /\ Between(<<x, y>>, t, t + 50)
        /\ <<>> \in Seq(AnyMessage) /\ Between(<<>>, t, t + 50)
    BY <2>2, <2>3, <2>4, MessageTypes, ShortTimes
  <2>7. QED
    BY <2>2, <2>5, <2>6
<1>4. \A i \in 0..Len(results) : at[i] \in Nat
  BY <1>2
<1>5. at[0] = CallStart /\ at[Len(results)] = CallStart + 50 * Len(results)
  BY <1>1, <1>2
<1>6. b = [i \in DOMAIN results |->
            IF results[i].line = Nothing THEN <<>>
            ELSE LET t == CallStart + 50 * (i - 1)
                 IN << Message(t, "c2s", results[i].req),
                       Message(t + 25, "s2c", results[i].line) >>]
  BY <1>1
<1>7. [i \in 1..Len(results) |-> b[i]] = b
  OBVIOUS
<1> HIDE DEF b, at
<1>8. /\ FlattenSeq([i \in 1..Len(results) |-> b[i]]) \in Seq(AnyMessage)
      /\ Between(FlattenSeq([i \in 1..Len(results) |-> b[i]]), at[0], at[Len(results)])
  BY <1>1, <1>3, <1>4, MessageTypes, FlattenTimes
<1>9. QED
  BY <1>5, <1>6, <1>7, <1>8

\* One part of a transcript behind the other.
LEMMA MessageConcat ==
  ASSUME NEW lo \in Nat, NEW mid \in Nat, NEW hi \in Nat, lo <= mid, mid <= hi,
         NEW s \in Seq(AnyMessage), NEW r \in Seq(AnyMessage),
         Between(s, lo, mid), Between(r, mid, hi)
  PROVE  s \o r \in Seq(AnyMessage) /\ Between(s \o r, lo, hi)
<1>1. \A m \in AnyMessage : m.t \in Nat
  BY MessageTypes
<1>2. QED
  BY <1>1, ConcatTimes

\* The calls begin behind the pages.
LEMMA CallsBehindPages ==
  ASSUME CommandTypes
  PROVE  \E start \in Nat, m \in Nat :
           /\ start = CallStart /\ m = CallStart + 50 * Len(results)
           /\ 40 * (Len(pages) + 1) <= start /\ 0 <= 40 /\ 40 <= start /\ 0 <= start /\ start <= m
<1>1. PICK k \in Nat, l \in Nat : k = Len(pages) /\ l = Len(results)
  BY NextRequestTypes
<1>2. PICK v : v = CallStart /\ v = IF 40 + 40 * k + 20 > 100 THEN 40 + 40 * k + 20 ELSE 100
  BY <1>1 DEF CallStart
<1>3. /\ v \in Nat /\ 40 * (k + 1) <= v /\ 0 <= 40 /\ 40 <= v /\ 0 <= v
      /\ v + 50 * l \in Nat /\ v <= v + 50 * l
  BY <1>2
<1>4. v + 50 * l = CallStart + 50 * Len(results) /\ 40 * (k + 1) = 40 * (Len(pages) + 1)
  BY <1>1, <1>2, Zenon
<1>5. PICK m \in Nat : m = v + 50 * l /\ v <= m
  BY <1>3
<1>6. m = CallStart + 50 * Len(results) /\ 40 * (Len(pages) + 1) <= v
  BY <1>3, <1>4, <1>5, Zenon
<1>7. v = CallStart
  BY <1>2, Zenon
<1>8. v \in Nat /\ 0 <= 40 /\ 40 <= v /\ 0 <= v
  BY <1>3, Zenon
<1>9. QED
  BY <1>5, <1>6, <1>7, <1>8, Zenon

\* The handshake, and what is one behind the other is in order.
LEMMA TranscriptTimes ==
  ASSUME CommandTypes
  PROVE  \A i \in 1..(Len(Transcript) - 1) : Transcript[i].t < Transcript[i + 1].t
<1>1. PICK p \in Seq(AnyMessage) :
        /\ p = FlattenSeq([i \in DOMAIN pages |->
                << Message(40 * i, "c2s", pages[i].req),
                   Message(40 * i + 25, "s2c", pages[i].line) >>])
        /\ Between(p, 40, 40 * (Len(pages) + 1))
  BY PageTimes
<1>2. PICK c \in Seq(AnyMessage) :
        /\ c = FlattenSeq([i \in DOMAIN results |->
                IF results[i].line = Nothing THEN <<>>
                ELSE LET t == CallStart + 50 * (i - 1)
                     IN << Message(t, "c2s", results[i].req),
                           Message(t + 25, "s2c", results[i].line) >>])
        /\ Between(c, CallStart, CallStart + 50 * Len(results))
  BY CallTimes
<1>3. PICK x \in AnyMessage, y \in AnyMessage, z \in AnyMessage :
        /\ x = Message(0, "c2s", 1) /\ y = Message(25, "s2c", first)
        /\ z = Message(30, "c2s", Nothing) /\ x.t = 0 /\ y.t = 25 /\ z.t = 30
  <2>1. first \in Recorded /\ 1 \in Recorded /\ Nothing \in Recorded
    BY DEF CommandTypes, Recorded
  <2>2. QED
    BY <2>1, MessageTypes
<1>4. <<x, y, z>> \in Seq(AnyMessage) /\ Between(<<x, y, z>>, 0, 40)
  <2>1. PICK h : /\ h = <<x, y, z>> /\ h \in Seq(AnyMessage) /\ Len(h) = 3
                 /\ h[1] = x /\ h[2] = y /\ h[3] = z
    <3>1. /\ <<x, y, z>> \in Seq(AnyMessage) /\ Len(<<x, y, z>>) = 3
          /\ <<x, y, z>>[1] = x /\ <<x, y, z>>[2] = y /\ <<x, y, z>>[3] = z
      BY Triple, Zenon
    <3>2. QED
      BY <3>1, Zenon
  <2>2. \A i \in 1..3 : 0 <= h[i].t /\ h[i].t < 40
    <3>1. \A i \in 1..3 : i = 1 \/ i = 2 \/ i = 3
      OBVIOUS
    <3>2. QED
      BY <1>3, <2>1, <3>1
  <2>3. \A i \in 1..(3 - 1) : h[i].t < h[i + 1].t
    <3>1. \A i \in 1..(3 - 1) : (i = 1 /\ i + 1 = 2) \/ (i = 2 /\ i + 1 = 3)
      OBVIOUS
    <3>2. QED
      BY <1>3, <2>1, <3>1
  <2>4. QED
    BY <2>1, <2>2, <2>3 DEF Between
<1>5. PICK start \in Nat, m \in Nat :
        /\ start = CallStart /\ m = CallStart + 50 * Len(results)
        /\ 40 * (Len(pages) + 1) <= start /\ 0 <= 40 /\ 40 <= start /\ 0 <= start /\ start <= m
  BY CallsBehindPages, Zenon
<1>6. PICK h : h = <<x, y, z>> /\ h \in Seq(AnyMessage) /\ Between(h, 0, 40)
  BY <1>4
<1>7. h \o p \in Seq(AnyMessage) /\ Between(h \o p, 0, start)
  <2>1. Between(p, 40, start)
    <3>1. \A i \in 1..Len(p) : p[i].t \in Nat
      BY MessageTypes
    <3>2. QED
      BY <1>1, <1>5, <3>1 DEF Between
  <2>2. 0 \in Nat /\ 40 \in Nat
    OBVIOUS
  <2>3. QED
    BY <1>5, <1>6, <2>1, <2>2, MessageConcat, Zenon
<1>8. (h \o p) \o c \in Seq(AnyMessage) /\ Between((h \o p) \o c, 0, m)
  <2>1. 0 \in Nat /\ Between(c, start, m) /\ 0 <= start /\ start <= m
    BY <1>2, <1>5
  <2>2. PICK q : q = h \o p /\ q \in Seq(AnyMessage) /\ Between(q, 0, start)
    BY <1>7, Zenon
  <2>3. q \o c \in Seq(AnyMessage) /\ Between(q \o c, 0, m)
    BY <2>1, <2>2, MessageConcat, Zenon
  <2>4. QED
    BY <2>2, <2>3, Zenon
<1>9. Transcript = (h \o p) \o c
  BY <1>1, <1>2, <1>3, <1>6 DEF Transcript
<1>10. QED
  BY <1>8, <1>9 DEF Between

-----------------------------------------------------------------------------
(* A cursor is asked for once, so that the discovery ends: the next one is   *)
(* new, and those asked for before are in seen.                              *)

NextCursor == PageRequest.cursor
AsksNew ==
  /\ AsksOnce
  /\ \A i \in DOMAIN pages : pages[i].req.cursor \in seen \cup {NoCursor}
  /\ pc \in {"start", "initialize"} => pages = <<>>
  /\ pc = "list" =>
       /\ ~Idle => awaited = PageRequest
       /\ NextCursor \in seen \cup {NoCursor}
       /\ \A i \in DOMAIN pages : pages[i].req.cursor # NextCursor

\* A step that fetches no page.
LEMMA NoNewPage ==
  ASSUME AsksNew, UNCHANGED <<pages, seen>>,
         pc' \in {"start", "initialize"} => pages = <<>>,
         pc' = "list" => pc = "list" /\ (awaited' = awaited \/ awaited' \in {Nothing, PageRequest})
  PROVE  AsksNew'
<1>1. PageRequest' = PageRequest /\ NextCursor' = NextCursor /\ AsksOnce'
  BY DEF PageRequest, NextCursor, AsksNew, AsksOnce
<1>2. QED
  BY <1>1 DEF AsksNew, Idle

\* This is kept by every step.
LEMMA AsksNewStep ==
  ASSUME ExchangeTypes, CommandTypes, CommandTypes', AsksNew, [Next]_vars
  PROVE  AsksNew'
<1>1. CASE PageReceived
  <2>1. PICK line \in NextLine :
          /\ Receives(line)
          /\ pages' = Append(pages, [req |-> awaited, line |-> line, page |-> Result(line).page])
          /\ \/ /\ MorePages(Result(line).page, Len(pages) + 1)
                /\ seen' = seen \cup {Result(line).page.cursor} /\ pc' = "list"
             \/ seen' = seen /\ pc' = "echo"
    BY <1>1 DEF PageReceived
  <2>2. /\ awaited = PageRequest /\ awaited' = Nothing /\ pc = "list"
        /\ line \in AnyLine /\ Result(line).page \in Page /\ awaited \in SentRequest
    BY <1>1, <2>1, ReceivedTypes, RequestTypes DEF PageReceived, AsksNew
  <2>3. PICK e \in PageEntry : /\ e.req = PageRequest /\ e.page = Result(line).page
                               /\ pages' = Append(pages, e)
    BY <2>1, <2>2 DEF PageEntry
  <2>4. PICK r : r = pages' /\ Appended(r, pages, e)
    <3>1. pages \in Seq(PageEntry)
      BY DEF CommandTypes
    <3>2. QED
      BY <2>3, <3>1, OneMore, Zenon
  <2>5. /\ \A i \in DOMAIN r : i = Len(pages) + 1 \/ i \in DOMAIN pages
        /\ \A i \in DOMAIN pages : r[i] = pages[i] /\ r[i].req.cursor # NextCursor
        /\ r[Len(pages) + 1].req.cursor = NextCursor /\ Len(pages) + 1 \in DOMAIN r
        /\ \A i \in DOMAIN pages : i \in Nat /\ i < Len(pages) + 1 /\ ~(Len(pages) + 1 < i)
    <3>1. \A i \in DOMAIN pages : pages[i].req.cursor # NextCursor
      BY <2>2 DEF AsksNew
    <3>2. QED
      BY <2>3, <2>4, <3>1, Positions DEF Appended, NextCursor
  <2>6. AsksOnce'
    <3>1. ASSUME NEW i \in DOMAIN r, NEW j \in DOMAIN r, i < j
          PROVE  r[i].req.cursor # r[j].req.cursor
      <4>1. i \in DOMAIN pages
        <5>1. ~(Len(pages) + 1 < Len(pages) + 1)
          BY <2>4 DEF Appended
        <5>2. QED
          BY <2>5, <3>1, <5>1
      <4>2. CASE j \in DOMAIN pages
        BY <2>5, <3>1, <4>1, <4>2 DEF AsksNew, AsksOnce
      <4>3. CASE j = Len(pages) + 1
        BY <2>5, <4>1, <4>3
      <4>4. QED
        BY <2>5, <4>2, <4>3
    <3>2. QED
      BY <2>4, <3>1 DEF AsksOnce
  <2>7. \A i \in DOMAIN r : r[i].req.cursor \in seen \cup {NoCursor}
    BY <2>2, <2>5 DEF AsksNew
  <2>8. seen \subseteq seen'
    BY <2>1
  <2>9. CASE pc' = "echo"
    BY <2>4, <2>6, <2>7, <2>8, <2>9 DEF AsksNew
  <2>10. CASE pc' = "list"
    <3>1. Result(line).page.cursor \notin seen \cup {NoCursor} /\ Result(line).page.cursor \in seen'
      BY <2>1, <2>10 DEF MorePages
    <3>2. NextCursor' = Result(line).page.cursor
      <4>1. r # <<>> /\ Last(r) = e
        BY <2>4 DEF Appended, Last
      <4>2. QED
        BY <2>3, <2>4, <4>1 DEF NextCursor, PageRequest
    <3>3. Idle'
      BY <2>2 DEF Idle
    <3>4. \A i \in DOMAIN r : r[i].req.cursor # NextCursor'
      BY <2>7, <3>1, <3>2
    <3>5. QED
      BY <2>4, <2>6, <2>7, <2>8, <2>10, <3>1, <3>2, <3>3, <3>4 DEF AsksNew
  <2>11. QED
    BY <2>1, <2>9, <2>10
<1>2. CASE Start \/ Initialize \/ Initialized \/ ListTools
  <2>1. UNCHANGED <<pages, seen>> /\ (pc \in {"start", "initialize"} => pages = <<>>)
    BY <1>2 DEF Start, Initialize, Initialized, ListTools, commandVars, AsksNew
  <2>2. CASE Start
    BY <2>1, <2>2, NoNewPage DEF Start
  <2>3. CASE Initialize
    BY <2>1, <2>3, NoNewPage DEF Initialize, Sends, commandVars
  <2>4. CASE Initialized
    <3>1. pages = <<>> /\ pc' = "list" /\ Idle'
      BY <2>1, <2>4 DEF Initialized, Receives, Idle
    <3>2. NextCursor' = NoCursor /\ pages' = <<>> /\ DOMAIN pages' = {}
      BY <2>1, <3>1 DEF NextCursor, PageRequest
    <3>3. QED
      BY <3>1, <3>2 DEF AsksNew, AsksOnce
  <2>5. CASE ListTools
    BY <2>1, <2>5, NoNewPage DEF ListTools, Sends, commandVars
  <2>6. QED
    BY <1>2, <2>2, <2>3, <2>4, <2>5
<1>3. CASE \/ DiscoverFails \/ ShutdownAfterFailure \/ EchoRaises \/ EchoTools
           \/ CallTool \/ CallSkipped \/ CallAnswered \/ CallTimesOut \/ CallRaises
           \/ CallsOver \/ Shutdown \/ WriteTemp \/ Replace \/ WriteFails \/ Crash
  <2>1. UNCHANGED <<pages, seen>> /\ pc' \notin {"start", "initialize", "list"}
    BY <1>3 DEF DiscoverFails, ShutdownAfterFailure, EchoRaises, EchoTools, CallTool, CallSkipped,
       CallAnswered, CallTimesOut, CallRaises, CallsOver, Shutdown, WriteTemp, Replace, WriteFails,
       Crash, Judged, Calling, commandVars
  <2>2. QED
    BY <2>1, NoNewPage
<1>4. CASE \/ Server \/ UNCHANGED vars
           \/ (SkipLine /\ UNCHANGED <<commandVars, fileVars>>)
  <2>1. UNCHANGED <<awaited, pages, seen, pc>>
    BY <1>4 DEF Server, SkipLine, vars, exchangeVars, commandVars
  <2>2. QED
    BY <2>1, NoNewPage DEF AsksNew, Idle
<1>5. QED
  BY <1>1, <1>2, <1>3, <1>4 DEF Next, Command

-----------------------------------------------------------------------------
(* The inductive invariant and what follows from it.                         *)

Inductive ==
  /\ ExchangeTypes /\ CommandTypes
  /\ OneAnswer /\ BrokenByError /\ SkipsNeedALostServer /\ Progress /\ AsksNew

LEMMA InductiveInit == Init => Inductive
<1> SUFFICES ASSUME Init PROVE Inductive
  OBVIOUS
<1>1. /\ pc = "start" /\ pages = <<>> /\ results = <<>> /\ seen = {} /\ broken = FALSE
      /\ server = "none" /\ asked = {} /\ out = <<>> /\ awaited = Nothing /\ noise = MaxNoise
      /\ first = Nothing /\ temp = "none" /\ golden = "old" /\ exit = 0
      /\ plan \in {"dry run", "no calls", "calls"}
  BY DEF Init, ExchangeInit, NoServer
<1>2. ExchangeTypes
  <2>1. <<>> \in Seq(AnyLine)
    OBVIOUS
  <2>2. noise \in Nat
    BY <1>1, NoiseAssumption
  <2>3. QED
    BY <1>1, <2>1, <2>2 DEF ExchangeTypes
<1>3. CommandTypes
  <2>1. <<>> \in Seq(PageEntry) /\ <<>> \in Seq(ResultEntry)
    OBVIOUS
  <2>2. QED
    BY <1>1, <2>1, FS_EmptySet DEF CommandTypes
<1>4. Elems(out) = {} /\ Elems(pages) = {} /\ Elems(results) = {} /\ DOMAIN pages = {}
      /\ DOMAIN results = {}
  <2>1. Elems(<<>>) = {} /\ DOMAIN <<>> = {}
    BY DEF Elems
  <2>2. QED
    BY <1>1, <2>1
<1>5. Idle /\ Live = {}
  BY <1>1, <1>4 DEF Idle, Live
<1>6. OneAnswer
  BY <1>1, <1>4, <1>5 DEF OneAnswer, RepliesCarryIds, Apart, Fresh, Asks, InOrder, AnswersTrue
<1>7. BrokenByError /\ SkipsNeedALostServer
  BY <1>1, <1>4 DEF BrokenByError, SkipsNeedALostServer
<1>8. Progress
  BY <1>1 DEF Progress
<1>9. AsksNew
  BY <1>1, <1>4 DEF AsksNew, AsksOnce
<1>10. QED
  BY <1>2, <1>3, <1>6, <1>7, <1>8, <1>9 DEF Inductive

LEMMA InductiveStep == Inductive /\ [Next]_vars => Inductive'
BY TypesStep, OneAnswerStep, SkipsStep, ProgressStep, AsksNewStep DEF Inductive

LEMMA InductiveAlways == Spec => []Inductive
BY InductiveInit, InductiveStep, PTL DEF Spec

\* Types: the server answers only what it was asked, a line that is read is one
\* of its lines, and an entry of the transcript is a request with its line.
THEOREM TypeCorrect == Spec => [](ExchangeTypes /\ CommandTypes)
<1>1. Inductive => ExchangeTypes /\ CommandTypes
  BY DEF Inductive
<1>2. QED
  BY <1>1, InductiveAlways, PTL

\* The transcript is true: every recorded answer is the answer to the recorded
\* request, since a late or a repeated answer has the id of an older request,
\* and its times increase for any number of pages and calls.
THEOREM TranscriptCorrect == Spec => []TranscriptIsTrue
<1>1. Inductive => TranscriptIsTrue
  <2> SUFFICES ASSUME Inductive PROVE TranscriptIsTrue
    OBVIOUS
  <2>1. pages \in Seq(PageEntry) /\ results \in Seq(ResultEntry)
    BY DEF Inductive, CommandTypes
  <2>2. ToSet(pages) = Elems(pages) /\ ToSet(results) = Elems(results)
    BY <2>1 DEF ToSet, Elems
  <2>3. \A p \in ToSet(pages) \cup {r \in ToSet(results) : r.line # Nothing} :
          p.line.kind = "request" \/ p.line.to = p.req
    BY <2>2 DEF Inductive, OneAnswer, AnswersTrue, Answers
  <2>4. QED
    BY <2>3, TranscriptTimes DEF Inductive, TranscriptIsTrue
<1>2. QED
  BY <1>1, InductiveAlways, PTL

\* Per-tool isolation: a tool is skipped only behind a transport error or the
\* exit of the server.
THEOREM SkipsCorrect == Spec => []SkipsNeedALostServer
<1>1. Inductive => SkipsNeedALostServer
  BY DEF Inductive
<1>2. QED
  BY <1>1, InductiveAlways, PTL

\* The command ends clean: the snapshot is replaced exactly on success, and no
\* temporary file and no server stay behind.
THEOREM EndsCorrect == Spec => []EndsClean
<1>1. Inductive => EndsClean
  <2> SUFFICES ASSUME Inductive PROVE EndsClean
    OBVIOUS
  <2>1. Progress /\ golden \in {"old", "new"}
    BY DEF Inductive, CommandTypes
  <2>2. QED
    BY <2>1 DEF Progress, CallsDone, EndsClean
<1>2. QED
  BY <1>1, InductiveAlways, PTL

\* No cursor is asked for twice, whatever cursors the server gives.
THEOREM CursorsCorrect == Spec => []AsksOnce
<1>1. Inductive => AsksOnce
  BY DEF Inductive, AsksNew
<1>2. QED
  BY <1>1, InductiveAlways, PTL
=============================================================================
