--------------------------- MODULE ActiveAuditProofs --------------------------
(* Theorems about ActiveAudit, for any number of tools, canaries and restarts *)
(* and whatever the server writes.                                            *)
EXTENDS ActiveAudit, SequenceLemmas

Bodies == {"error", "clean", "marker", "reflected", "misfit"}
Canary == [tool : 1..(NumTools + 1), slot : 1..Canaries]
SentRequest == [id : {n \in Nat : n > 100}, of : Canary]
ReplyLine == [kind : {"reply"}, id : Nat, body : Bodies, to : SentRequest]
OtherLine == [kind : {"request"}, id : RequestIds] \cup [kind : NoiseKinds, id : {NoId}]

AnyLine == ReplyLine \cup OtherLine
Judgement == {"safe", "vulnerable", "error", "timeout", "crash", "exhausted"}
Finding == [case : Canary, verdict : Judgement, line : AnyLine \cup {Nothing}]

\* What the server and the exchange hold.
ExchangeTypes ==
  /\ server \in {"none", "up", "exited", "reaped"} /\ noise \in Nat
  /\ asked \subseteq SentRequest
  /\ awaited \in SentRequest \cup {Nothing}
  /\ out \in Seq(AnyLine)
  /\ findings \in Seq(Finding) /\ launches \in Nat

\* Where the engine is, and with which canary.
Place ==
  /\ pc = "begin" => case = [tool |-> 1, slot |-> 1] /\ known = 0 /\ findings = <<>>
  /\ pc = "ready" => case.tool <= known
  /\ ~Idle => pc = "ready"
  /\ pc = "done" => case.tool > known

Paid ==
  /\ pc = "begin" => launches <= restarts
  /\ LaunchesAccounted

\* The canaries before the one at hand, and only they, are judged.
InTurn ==
  /\ \A i, j \in 1..Len(findings) : i < j => Before(findings[i].case, findings[j].case)
  /\ \A i \in 1..Len(findings) : Before(findings[i].case, case)
  /\ \A c \in AllCases : Before(c, case) => \E i \in 1..Len(findings) :
       \/ findings[i].case = c
       \/ findings[i].verdict = "exhausted" /\ findings[i].case.tool = c.tool

\* As long as no tool was left, the canaries before the one at hand are counted
\* by the findings.
Unbroken == \A i \in 1..Len(findings) : findings[i].verdict # "exhausted"
Counted ==
  /\ case.tool > NumTools => case.slot = 1
  /\ Unbroken => Len(findings) = (case.tool - 1) * Canaries + case.slot - 1

\* The requests whose answers may still come have different ids.
Live ==
  asked \cup {l.to : l \in {x \in Elems(out) : x.kind = "reply"}}
    \cup (IF Idle THEN {} ELSE {awaited})
OneAnswer ==
  /\ \A l \in Elems(out) : l.kind = "reply" => l.id = l.to.id
  /\ \A r \in Live : r.id <= 100 + sent
  /\ \A r, q \in Live : r.id = q.id => r = q
  /\ ~Idle => awaited.of = case
  /\ VerdictOfItsCanary

-----------------------------------------------------------------------------
\* Nothing is no request.
LEMMA IdleTypes ==
  ASSUME ExchangeTypes
  PROVE  /\ Nothing.id = 0 /\ \A r \in SentRequest : r # Nothing
         /\ ~Idle => awaited \in SentRequest
<1>1. Nothing.id = 0 /\ \A r \in SentRequest : r.id > 100
  BY DEF Nothing, NoId, SentRequest
<1>2. \A r \in SentRequest : r # Nothing
  BY <1>1
<1>3. QED
  BY <1>1, <1>2 DEF ExchangeTypes, Idle

\* The lines the server may add to its output.
LEMMA LineTypes ==
  /\ \A r \in SentRequest, b \in Bodies : Reply(r, b) \in ReplyLine
  /\ NoiseLines \subseteq OtherLine
  /\ \A l \in OtherLine : l.kind # "reply" /\ (l.kind # "request" => l.id = NoId)
<1>1. \A r \in SentRequest, b \in Bodies : Reply(r, b) \in ReplyLine
  BY DEF Reply, ReplyLine, SentRequest
<1>2. NoiseLines \subseteq OtherLine
  BY DEF NoiseLines, OtherLine, ServerRequest
<1>3. \A l \in OtherLine : l.kind # "reply" /\ (l.kind # "request" => l.id = NoId)
  BY NoiseAssumption DEF OtherLine, NoiseAssumption
<1>4. QED
  BY <1>1, <1>2, <1>3

\* The canary at hand, the next one and the next tool's, and their request.
LEMMA CanaryTypes ==
  ASSUME TypeOK
  PROVE  /\ case \in Canary /\ case.tool \in Nat /\ case.slot \in 1..Canaries
         /\ NumTools \in Nat \ {0} /\ Canaries \in Nat \ {0} /\ MaxRestarts \in Nat
         /\ [tool |-> 1, slot |-> 1] \in Canary
         /\ case.tool <= known =>
              NextCase \in Canary /\ NextTool \in Canary /\ Request \in SentRequest
BY AuditAssumption DEF TypeOK, Canary, NextCase, NextTool, Request, SentRequest,
   AuditAssumption

\* What a verdict adds to the findings.
LEMMA JudgedAdds ==
  ASSUME TypeOK, ExchangeTypes, NEW v \in Judgement, NEW line \in AnyLine \cup {Nothing},
         Judged(v, line)
  PROVE  /\ findings' \in Seq(Finding) /\ Len(findings) \in Nat
         /\ Len(findings') = Len(findings) + 1
         /\ \A i \in 1..Len(findings) : findings'[i] = findings[i]
         /\ findings'[Len(findings) + 1] = [case |-> case, verdict |-> v, line |-> line]
<1>1. [case |-> case, verdict |-> v, line |-> line] \in Finding
  BY CanaryTypes DEF Finding
<1>2. QED
  BY <1>1 DEF Judged, ExchangeTypes

\* The verdicts of findings.
LEMMA FindingTypes ==
  ASSUME NEW s \in Seq(Finding)
  PROVE  \A i \in DOMAIN s : s[i].verdict \in Judgement
<1>1. \A f \in Finding : f.verdict \in Judgement
  BY DEF Finding
<1>2. \A i \in 1..Len(s) : s[i] \in Finding
  OBVIOUS
<1>3. QED
  BY <1>1, <1>2

\* A line that is taken for an answer.
LEMMA LineMatched ==
  ASSUME ExchangeTypes, NEW line \in AnyLine, ~Idle, Matches(line)
  PROVE  /\ line.kind = "request" \/ line \in ReplyLine
         /\ Verdict(line) \in Judgement
<1>1. awaited.id > 100
  BY IdleTypes DEF SentRequest
<1>2. line.kind = "request" \/ line \in ReplyLine
  BY <1>1, LineTypes DEF Matches, NoId, AnyLine
<1>3. line \in ReplyLine => line.body \in Bodies
  BY DEF ReplyLine
<1>4. QED
  BY <1>2, <1>3 DEF Verdict, Bodies, Judgement

\* A line that is read.
LEMMA LineRead ==
  ASSUME ExchangeTypes, HasLine
  PROVE  /\ Head(out) \in AnyLine /\ Head(out) \in Elems(out)
         /\ Tail(out) \in Seq(AnyLine) /\ Elems(Tail(out)) \subseteq Elems(out)
BY TailElems DEF ExchangeTypes, HasLine

\* Types, and where the engine may be, are kept by every step.
LEMMA TypesStep ==
  ASSUME TypeOK, ExchangeTypes, Place, [Next]_vars
  PROVE  (TypeOK /\ ExchangeTypes /\ Place)'
<1> USE DEF exchangeVars, serverVars, auditVars
<1>a. /\ case \in Canary /\ case.tool \in Nat
      /\ case.tool <= known => NextCase \in Canary /\ NextTool \in Canary
                               /\ Request \in SentRequest
  BY CanaryTypes
<1>b. known \in {0, NumTools} /\ NumTools \in Nat \ {0} /\ restarts \in Nat
  BY CanaryTypes DEF TypeOK
<1>c. (Idle => awaited = Nothing) /\ (~Idle => pc = "ready")
  BY DEF Place, Idle
<1>d. ASSUME ExchangeTypes', case' \in Canary, pc' \in {"begin", "case", "ready", "done"},
             known' \in {0, NumTools}, sent' \in Nat, restarts' \in 0..(MaxRestarts + 1)
      PROVE  TypeOK'
  BY <1>d, FindingTypes DEF TypeOK, ExchangeTypes, Canary, Judgement
<1>1. CASE BootstrapSucceeds
  <2>1. /\ server' = "up" /\ asked' = {} /\ out' = <<>> /\ launches' = launches + 1
        /\ UNCHANGED <<noise, awaited, case, sent, restarts, findings>>
        /\ known' \in {0, NumTools} /\ pc' \in {"case", "ready"} /\ Idle
        /\ pc' = "ready" => pc = "case" /\ known' = known /\ case.tool <= known
    BY <1>1, <1>b DEF BootstrapSucceeds, Bootstraps, WantsServer, Launched
  <2>2. ExchangeTypes' /\ Place'
    BY <2>1 DEF ExchangeTypes, Place, Idle
  <2>3. QED
    BY <1>a, <1>d, <2>1, <2>2 DEF TypeOK
<1>2. CASE BootstrapFails
  <2>1. /\ server' = "none" /\ asked' = {} /\ out' = <<>> /\ launches' = launches + 1
        /\ UNCHANGED <<noise, awaited, pc, known, case, sent, findings>>
        /\ restarts' \in 0..(MaxRestarts + 1)
    BY <1>2, <1>b, CanaryTypes DEF BootstrapFails, Bootstraps, Exhausted, Stopped
  <2>2. ExchangeTypes' /\ Place'
    BY <2>1 DEF ExchangeTypes, Place, Idle
  <2>3. QED
    BY <1>a, <1>d, <2>1, <2>2 DEF TypeOK
<1>3. CASE NeverBootstrapped
  <2>1. pc = "begin" /\ pc' = "done" /\ Idle
        /\ UNCHANGED <<exchangeVars, known, case, sent, restarts, findings, launches>>
    BY <1>3 DEF NeverBootstrapped, WantsServer
  <2>2. ExchangeTypes' /\ Place'
    BY <1>a, <2>1 DEF ExchangeTypes, Place, Idle, TypeOK
  <2>3. QED
    BY <1>a, <1>d, <2>1, <2>2 DEF TypeOK
<1>4. CASE BudgetExhausted
  <2>1. pc = "case" /\ case.tool <= known /\ Idle /\ case' = NextTool
        /\ Judged("exhausted", Nothing)
        /\ UNCHANGED <<exchangeVars, pc, known, sent, restarts, launches>>
    BY <1>4 DEF BudgetExhausted, WantsServer
  <2>2. findings' \in Seq(Finding)
    BY <2>1, JudgedAdds DEF Judgement
  <2>3. ExchangeTypes' /\ Place'
    BY <2>1, <2>2 DEF ExchangeTypes, Place, Idle
  <2>4. QED
    BY <1>a, <1>d, <2>1, <2>3 DEF TypeOK
<1>5. CASE SendCanary
  <2>1. /\ case.tool <= known /\ awaited' = Request /\ pc' = "ready"
        /\ asked' \in {asked, asked \cup {Request}}
        /\ UNCHANGED <<server, out, noise, known, case, restarts, findings, launches>>
        /\ sent' = sent + 1 /\ sent' \in Nat
    BY <1>5 DEF SendCanary, CanSend, Sends, Written, Place, TypeOK
  <2>2. ExchangeTypes' /\ Place'
    BY <1>a, <2>1 DEF ExchangeTypes, Place
  <2>3. QED
    BY <1>a, <1>d, <2>1, <2>2 DEF TypeOK
<1>6. CASE SkipOther
  <2>1. HasLine /\ out' = Tail(out) /\ UNCHANGED <<server, asked, noise, awaited, auditVars>>
    BY <1>6 DEF SkipOther, SkipLine, TakeLine
  <2>2. ExchangeTypes' /\ Place'
    BY <2>1, LineRead DEF ExchangeTypes, Place, Idle
  <2>3. QED
    BY <1>a, <1>d, <2>1, <2>2 DEF TypeOK
<1>7. CASE Answered \/ Timeout \/ Crashes
  <2>1. /\ case.tool <= known /\ pc' = "case" /\ case' = NextCase /\ awaited' = Nothing
        /\ UNCHANGED <<known, restarts, launches, noise>> /\ sent' \in Nat
        /\ server' \in {server, "none"} /\ asked' \in {asked, {}}
        /\ out' \in {<<>>, Tail(out)} /\ (out' # <<>> => HasLine)
    <3>1. CASE Answered
      BY <3>1, <1>c DEF Answered, Concluded, Receives, TakeLine, Place, TypeOK
    <3>2. CASE Timeout
      BY <3>2, <1>c DEF Timeout, Concluded, Stopped, Place, TypeOK
    <3>3. CASE Crashes
      <4>1. case.tool <= known /\ sent' \in Nat
        BY <3>3, <1>c DEF Crashes, Raises, CanSend, Place, TypeOK
      <4>2. QED
        BY <3>3, <4>1 DEF Crashes, Concluded, Stopped
    <3>4. QED
      BY <1>7, <3>1, <3>2, <3>3
  <2>2. out' \in Seq(AnyLine)
    <3>1. out' = <<>> \/ (HasLine /\ out' = Tail(out))
      BY <2>1
    <3>2. <<>> \in Seq(AnyLine)
      OBVIOUS
    <3>3. QED
      BY <3>1, <3>2, LineRead
  <2>3. findings' \in Seq(Finding)
    <3>1. PICK v \in Judgement, line \in AnyLine \cup {Nothing} : Judged(v, line)
      <4>1. CASE Answered
        <5>1. PICK line \in NextLine : Receives(line) /\ Judged(Verdict(line), line)
          BY <4>1 DEF Answered
        <5>2. line \in AnyLine
          BY <5>1, LineRead DEF NextLine, HasLine, Receives
        <5>3. Verdict(line) \in Judgement
          BY <5>1, <5>2, LineMatched DEF Receives
        <5>4. QED
          BY <5>1, <5>2, <5>3
      <4>2. CASE Timeout \/ Crashes
        BY <4>2 DEF Timeout, Crashes, Judgement
      <4>3. QED
        BY <1>7, <4>1, <4>2
    <3>2. QED
      BY <3>1, JudgedAdds
  <2>4. ExchangeTypes' /\ Place'
    BY <2>1, <2>2, <2>3 DEF ExchangeTypes, Place, Idle
  <2>5. QED
    BY <1>a, <1>d, <2>1, <2>4 DEF TypeOK
<1>8. CASE AllCasesDone
  <2>1. /\ pc = "case" /\ case.tool > known /\ pc' = "done" /\ Idle
        /\ server' = "none" /\ asked' = {} /\ out' = <<>>
        /\ UNCHANGED <<noise, awaited, known, case, sent, restarts, findings, launches>>
    BY <1>8, <1>c DEF AllCasesDone, Stopped
  <2>2. ExchangeTypes' /\ Place'
    BY <2>1 DEF ExchangeTypes, Place, Idle
  <2>3. QED
    BY <1>a, <1>d, <2>1, <2>2 DEF TypeOK
<1>9. CASE Server
  <2>1. UNCHANGED <<awaited, auditVars>>
    BY <1>9 DEF Server
  <2>2. /\ server' \in {server, "exited", "reaped"} /\ noise' \in Nat
        /\ asked' \subseteq asked /\ out' \in Seq(AnyLine)
    <3>1. ASSUME NEW req \in asked, NEW body \in Bodies, ServerReplies(req, body)
          PROVE  <2>2!:
      <4>1. Reply(req, body) \in AnyLine
        BY LineTypes DEF AnyLine, ExchangeTypes
      <4>2. out' \in Seq(AnyLine)
        BY <3>1, <4>1, AppendElems DEF ServerReplies, ExchangeTypes
      <4>3. QED
        BY <3>1, <4>2 DEF ServerReplies, ExchangeTypes
    <3>2. ASSUME NEW req \in asked, NEW body \in Bodies, ServerRepeats(req, body)
          PROVE  <2>2!:
      <4>1. Reply(req, body) \in AnyLine
        BY LineTypes DEF AnyLine, ExchangeTypes
      <4>2. out' \in Seq(AnyLine)
        BY <3>2, <4>1, TwiceElems DEF ServerRepeats, ExchangeTypes
      <4>3. QED
        BY <3>2, <4>2 DEF ServerRepeats, ExchangeTypes
    <3>3. CASE ServerNoise
      <4>1. PICK line \in NoiseLines : out' = Append(out, line)
        BY <3>3 DEF ServerNoise
      <4>2. out' \in Seq(AnyLine)
        BY <4>1, LineTypes, AppendElems DEF AnyLine, ExchangeTypes
      <4>3. QED
        BY <3>3, <4>2 DEF ServerNoise, ExchangeTypes
    <3>4. CASE ServerExits \/ Reap
      BY <3>4 DEF ServerExits, Reap, ExchangeTypes
    <3>5. QED
      BY <1>9, <3>1, <3>2, <3>3, <3>4 DEF Server, Bodies
  <2>3. ExchangeTypes' /\ Place'
    BY <2>1, <2>2 DEF ExchangeTypes, Place, Idle
  <2>4. QED
    BY <1>a, <1>d, <2>1, <2>3 DEF TypeOK
<1>10. CASE UNCHANGED vars
  BY <1>10 DEF vars, TypeOK, ExchangeTypes, Place, Idle
<1>11. QED
  BY <1>1, <1>2, <1>3, <1>4, <1>5, <1>6, <1>7, <1>8, <1>9, <1>10 DEF Next, Engine

(* ------------------------------- launches ------------------------------ *)

\* Each launch is paid for by a failed bootstrap or a canary.
LEMMA PaidStep ==
  ASSUME TypeOK, ExchangeTypes, Place, Paid, [Next]_vars
  PROVE  Paid'
<1> USE DEF exchangeVars, serverVars, auditVars
<1>a. launches \in Nat /\ restarts \in Nat /\ sent \in Nat
  BY CanaryTypes DEF TypeOK, ExchangeTypes
<1>b. /\ pc = "begin" => launches <= restarts
      /\ launches <= restarts + 1 + sent + (IF pc = "ready" /\ Idle THEN 1 ELSE 0)
  BY DEF Paid, LaunchesAccounted
<1>c. ~Idle => pc = "ready"
  BY DEF Place
<1>1. CASE BootstrapSucceeds
  <2>1. /\ launches' = launches + 1 /\ UNCHANGED <<awaited, sent, restarts>> /\ Idle
        /\ \/ pc = "begin" /\ pc' = "case"
           \/ pc = "case" /\ pc' = "ready"
    BY <1>1 DEF BootstrapSucceeds, Bootstraps, WantsServer
  <2>2. Idle'
    BY <2>1 DEF Idle
  <2>3. QED
    BY <1>a, <1>b, <2>1, <2>2 DEF Paid, LaunchesAccounted
<1>2. CASE BootstrapFails
  <2>1. /\ launches' = launches + 1 /\ restarts' = restarts + 1
        /\ UNCHANGED <<awaited, pc, sent>> /\ Idle
    BY <1>2 DEF BootstrapFails, Bootstraps, WantsServer
  <2>2. Idle'
    BY <2>1 DEF Idle
  <2>3. QED
    BY <1>a, <1>b, <2>1, <2>2 DEF Paid, LaunchesAccounted
<1>3. CASE SendCanary
  <2>1. sent' = sent + 1 /\ pc' = "ready" /\ UNCHANGED <<launches, restarts>>
    BY <1>3 DEF SendCanary
  <2>2. QED
    BY <1>a, <1>b, <2>1 DEF Paid, LaunchesAccounted
<1>4. CASE Answered \/ Timeout \/ Crashes
  <2>1. /\ pc' = "case" /\ UNCHANGED <<launches, restarts>>
        /\ \/ sent' = sent /\ ~Idle
           \/ sent' = sent + 1
    BY <1>4 DEF Answered, Timeout, Crashes, Concluded, Raises, Receives
  <2>2. QED
    BY <1>a, <1>b, <2>1 DEF Paid, LaunchesAccounted
<1>5. CASE NeverBootstrapped \/ BudgetExhausted \/ AllCasesDone
  <2>1. pc # "ready" /\ pc' # "ready" /\ (pc' = "begin" => pc = "begin")
        /\ UNCHANGED <<launches, restarts, sent>>
    BY <1>5 DEF NeverBootstrapped, BudgetExhausted, AllCasesDone
  <2>2. QED
    BY <1>a, <1>b, <2>1 DEF Paid, LaunchesAccounted
<1>6. CASE SkipOther \/ Server \/ UNCHANGED vars
  <2>1. UNCHANGED <<awaited, auditVars>>
    BY <1>6 DEF SkipOther, SkipLine, Server, vars
  <2>2. QED
    BY <2>1 DEF Paid, LaunchesAccounted, Idle
<1>7. QED
  BY <1>1, <1>2, <1>3, <1>4, <1>5, <1>6 DEF Next, Engine

(* ------------------------------- canaries ------------------------------ *)

\* The order of the canaries: what is before the next one is before this one,
\* or is this one, or is another one of its tool.
LEMMA Order ==
  ASSUME TypeOK
  PROVE  /\ Before(case, NextCase) /\ Before(case, NextTool)
         /\ \A c \in Canary : Before(c, case) => Before(c, NextCase) /\ Before(c, NextTool)
         /\ \A c \in AllCases : Before(c, NextCase) => Before(c, case) \/ c = case
         /\ \A c \in AllCases : Before(c, NextTool) => Before(c, case) \/ c.tool = case.tool
<1>1. /\ case \in Canary /\ case.tool \in 1..(NumTools + 1) /\ case.slot \in 1..Canaries
      /\ NumTools \in Nat /\ Canaries \in Nat
  BY CanaryTypes DEF Canary
<1>2. NextTool.tool = case.tool + 1 /\ NextTool.slot = 1
  BY DEF NextTool
<1>3. /\ case.slot < Canaries => NextCase.tool = case.tool /\ NextCase.slot = case.slot + 1
      /\ ~(case.slot < Canaries) => NextCase = NextTool
  BY <1>1 DEF NextCase, Canary
<1>4. \A c \in Canary : c.tool \in 1..(NumTools + 1) /\ c.slot \in 1..Canaries
  BY DEF Canary
<1>5. AllCases \subseteq Canary
  BY <1>1 DEF AllCases, Canary
<1>6. ASSUME NEW c \in Canary, c.tool = case.tool, c.slot = case.slot
      PROVE  c = case
  BY <1>1, <1>6 DEF Canary
<1>7. Before(case, NextCase) /\ Before(case, NextTool)
  BY <1>1, <1>2, <1>3 DEF Before
<1>8. \A c \in Canary : Before(c, case) => Before(c, NextCase) /\ Before(c, NextTool)
  BY <1>1, <1>2, <1>3, <1>4 DEF Before
<1>9. ASSUME NEW c \in AllCases, Before(c, NextCase)
      PROVE  Before(c, case) \/ c = case
  BY <1>1, <1>2, <1>3, <1>4, <1>5, <1>6, <1>9 DEF Before
<1>10. ASSUME NEW c \in AllCases, Before(c, NextTool)
       PROVE  Before(c, case) \/ c.tool = case.tool
  BY <1>1, <1>2, <1>4, <1>5, <1>10 DEF Before
<1>11. QED
  BY <1>7, <1>8, <1>9, <1>10

\* One more verdict, about the canary at hand.
LEMMA InTurnJudged ==
  ASSUME TypeOK, ExchangeTypes, InTurn, NEW v \in Judgement,
         NEW line \in AnyLine \cup {Nothing}, Judged(v, line),
         case' = NextCase \/ (case' = NextTool /\ v = "exhausted")
  PROVE  InTurn'
<1> DEFINE n == Len(findings)
<1>1. /\ findings' \in Seq(Finding) /\ n \in Nat /\ Len(findings') = n + 1
      /\ \A i \in 1..n : findings'[i] = findings[i]
      /\ findings'[n + 1].case = case /\ findings'[n + 1].verdict = v
  <2>1. /\ findings' \in Seq(Finding) /\ n \in Nat /\ Len(findings') = n + 1
        /\ \A i \in 1..n : findings'[i] = findings[i]
        /\ findings'[n + 1] = [case |-> case, verdict |-> v, line |-> line]
    BY JudgedAdds
  <2>2. QED
    BY <2>1
<1>2. /\ Before(case, case')
      /\ \A c \in Canary : Before(c, case) => Before(c, case')
  BY Order
<1>3. \A i \in 1..n : findings[i].case \in Canary /\ Before(findings[i].case, case)
  <2>1. \A i \in 1..n : findings[i] \in Finding
    BY DEF ExchangeTypes
  <2>2. QED
    BY <2>1 DEF Finding, InTurn
<1> HIDE DEF n
<1>4. ASSUME NEW i \in 1..(n + 1), NEW j \in 1..(n + 1), i < j
      PROVE  Before(findings'[i].case, findings'[j].case)
  <2>1. i \in 1..n
    BY <1>1, <1>4
  <2>2. CASE j \in 1..n
    BY <1>1, <1>4, <2>1, <2>2 DEF InTurn, n
  <2>3. CASE j = n + 1
    BY <1>1, <1>3, <2>1, <2>3
  <2>4. QED
    BY <1>1, <2>2, <2>3
<1>5. ASSUME NEW i \in 1..(n + 1)
      PROVE  Before(findings'[i].case, case')
  <2>1. CASE i \in 1..n
    BY <1>1, <1>2, <1>3, <2>1
  <2>2. CASE i = n + 1
    BY <1>1, <1>2, <2>2
  <2>3. QED
    BY <1>1, <2>1, <2>2
<1>6. ASSUME NEW c \in AllCases, Before(c, case')
      PROVE  \E i \in 1..(n + 1) :
               \/ findings'[i].case = c
               \/ findings'[i].verdict = "exhausted" /\ findings'[i].case.tool = c.tool
  <2>1. CASE Before(c, case)
    <3>1. PICK i \in 1..n :
            \/ findings[i].case = c
            \/ findings[i].verdict = "exhausted" /\ findings[i].case.tool = c.tool
      BY <2>1 DEF InTurn, n
    <3>2. i \in 1..(n + 1) /\ findings'[i] = findings[i]
      BY <1>1
    <3>3. QED
      BY <3>1, <3>2
  <2>2. CASE c = case \/ (c.tool = case.tool /\ v = "exhausted")
    <3>1. n + 1 \in 1..(n + 1)
      BY <1>1
    <3>2. QED
      BY <1>1, <2>2, <3>1
  <2>3. QED
    BY <1>6, <2>1, <2>2, Order
<1>7. QED
  BY <1>1, <1>4, <1>5, <1>6 DEF InTurn

\* Every step keeps the findings in turn.
LEMMA InTurnStep ==
  ASSUME TypeOK, ExchangeTypes, InTurn, [Next]_vars
  PROVE  InTurn'
<1> USE DEF exchangeVars, serverVars, auditVars
<1>1. CASE BudgetExhausted
  BY <1>1, InTurnJudged DEF BudgetExhausted, Judgement
<1>2. CASE Answered
  <2>1. PICK line \in NextLine : Receives(line) /\ Judged(Verdict(line), line)
    BY <1>2 DEF Answered
  <2>2. line \in AnyLine /\ Verdict(line) \in Judgement
    BY <2>1, LineRead, LineMatched DEF NextLine, HasLine, Receives
  <2>3. QED
    BY <1>2, <2>1, <2>2, InTurnJudged DEF Answered, Concluded
<1>3. CASE Timeout \/ Crashes
  BY <1>3, InTurnJudged DEF Timeout, Crashes, Concluded, Judgement
<1>4. CASE UNCHANGED <<case, findings>>
  BY <1>4 DEF InTurn
<1>5. QED
  BY <1>1, <1>2, <1>3, <1>4
     DEF Next, Engine, Server, vars, BootstrapSucceeds, BootstrapFails, NeverBootstrapped,
         SendCanary, SkipOther, AllCasesDone

\* The canaries of one more tool.
LEMMA OneMoreTool ==
  ASSUME NEW t \in Nat \ {0}, NEW c \in Nat
  PROVE  (t - 1) * c + c = ((t + 1) - 1) * c /\ (t - 1) * c \in Nat
<1>1. PICK n \in Nat : t = n + 1
  <2>1. t - 1 \in Nat /\ t = (t - 1) + 1
    OBVIOUS
  <2>2. QED
    BY <2>1
<1>2. n * c + c = (n + 1) * c /\ n * c \in Nat
  OBVIOUS
<1>3. QED
  BY <1>1, <1>2

\* One more verdict, about the canary at hand.
LEMMA CountedJudged ==
  ASSUME TypeOK, ExchangeTypes, Counted, NEW v \in Judgement,
         NEW line \in AnyLine \cup {Nothing}, Judged(v, line), case.tool <= NumTools,
         case' = NextCase \/ (case' = NextTool /\ v = "exhausted")
  PROVE  Counted'
<1> DEFINE n == Len(findings)
<1>1. /\ n \in Nat /\ Len(findings') = n + 1
      /\ \A i \in 1..n : findings'[i] = findings[i]
      /\ findings'[n + 1].verdict = v
  <2>1. /\ n \in Nat /\ Len(findings') = n + 1
        /\ \A i \in 1..n : findings'[i] = findings[i]
        /\ findings'[n + 1] = [case |-> case, verdict |-> v, line |-> line]
    BY JudgedAdds
  <2>2. QED
    BY <2>1
<1>2. /\ case.tool \in Nat \ {0} /\ case.slot \in 1..Canaries /\ Canaries \in Nat
      /\ NumTools \in Nat
  BY CanaryTypes DEF TypeOK
<1>3. /\ NextTool.tool = case.tool + 1 /\ NextTool.slot = 1
      /\ case.slot < Canaries =>
           NextCase.tool = case.tool /\ NextCase.slot = case.slot + 1
      /\ ~(case.slot < Canaries) => NextCase = NextTool
  BY CanaryTypes DEF NextTool, NextCase, Canary
<1> HIDE DEF n
<1>4. case'.tool > NumTools => case'.slot = 1
  BY <1>2, <1>3
<1>5. ASSUME Unbroken'
      PROVE  n + 1 = (case'.tool - 1) * Canaries + case'.slot - 1
  <2>1. \A i \in 1..(n + 1) : findings'[i].verdict # "exhausted"
    BY <1>1, <1>5 DEF Unbroken
  <2>2. v # "exhausted" /\ Unbroken
    <3>1. n + 1 \in 1..(n + 1) /\ \A i \in 1..n : i \in 1..(n + 1)
      BY <1>1
    <3>2. QED
      BY <1>1, <2>1, <3>1 DEF Unbroken, n
  <2>3. n = (case.tool - 1) * Canaries + case.slot - 1 /\ case' = NextCase
    BY <2>2 DEF Counted, n
  <2>4. /\ (case.tool - 1) * Canaries + Canaries = ((case.tool + 1) - 1) * Canaries
        /\ (case.tool - 1) * Canaries \in Nat
    BY <1>2, OneMoreTool
  <2> DEFINE before == (case.tool - 1) * Canaries
             after == ((case.tool + 1) - 1) * Canaries
  <2>5. n = before + case.slot - 1 /\ before + Canaries = after /\ before \in Nat
    BY <2>3, <2>4
  <2>6. CASE case.slot < Canaries
    <3>1. case'.tool = case.tool /\ case'.slot = case.slot + 1
      BY <1>3, <2>3, <2>6
    <3>2. (case'.tool - 1) * Canaries = before
      BY <3>1
    <3> HIDE DEF before, after
    <3>3. QED
      BY <1>2, <2>5, <3>1, <3>2
  <2>7. CASE ~(case.slot < Canaries)
    <3>1. case'.tool = case.tool + 1 /\ case'.slot = 1 /\ case.slot = Canaries
      BY <1>2, <1>3, <2>3, <2>7
    <3>2. (case'.tool - 1) * Canaries = after
      BY <3>1
    <3> HIDE DEF before, after
    <3>3. QED
      BY <1>2, <2>5, <3>1, <3>2
  <2>8. QED
    BY <2>6, <2>7
<1>6. QED
  BY <1>1, <1>4, <1>5 DEF Counted

\* Every step keeps the count.
LEMMA CountedStep ==
  ASSUME TypeOK, ExchangeTypes, Place, Counted, [Next]_vars
  PROVE  Counted'
<1> USE DEF exchangeVars, serverVars, auditVars
<1>a. case.tool <= known => case.tool <= NumTools
  BY CanaryTypes DEF TypeOK
<1>1. CASE BudgetExhausted
  BY <1>a, <1>1, CountedJudged DEF BudgetExhausted, WantsServer, Judgement
<1>2. CASE Answered
  <2>1. PICK line \in NextLine : Receives(line) /\ Judged(Verdict(line), line)
    BY <1>2 DEF Answered
  <2>2. line \in AnyLine /\ Verdict(line) \in Judgement
    BY <2>1, LineRead, LineMatched DEF NextLine, HasLine, Receives
  <2>3. case.tool <= known
    BY <2>1 DEF Receives, Place
  <2>4. QED
    BY <1>a, <1>2, <2>1, <2>2, <2>3, CountedJudged DEF Answered, Concluded
<1>3. CASE Timeout \/ Crashes
  <2>1. case.tool <= known
    BY <1>3 DEF Timeout, Crashes, Raises, CanSend, Place
  <2>2. QED
    BY <1>a, <1>3, <2>1, CountedJudged DEF Timeout, Crashes, Concluded, Judgement
<1>4. CASE UNCHANGED <<case, findings>>
  BY <1>4 DEF Counted, Unbroken
<1>5. QED
  BY <1>1, <1>2, <1>3, <1>4
     DEF Next, Engine, Server, vars, BootstrapSucceeds, BootstrapFails, NeverBootstrapped,
         SendCanary, SkipOther, AllCasesDone

(* ------------------------------- answers ------------------------------- *)

\* A step after which there is nothing new to answer.
LEMMA LiveShrinks ==
  ASSUME OneAnswer, VerdictOfItsCanary', Live' \subseteq Live, sent' \in {sent, sent + 1},
         TypeOK, ExchangeTypes,
         \A l \in Elems(out') : l.kind = "reply" => l.id = l.to.id,
         ~Idle' => ~Idle /\ awaited' = awaited /\ case' = case
  PROVE  OneAnswer'
<1>1. Live \subseteq SentRequest
  <2>1. \A l \in Elems(out) : l.kind = "reply" => l.to \in SentRequest
    <3>1. \A l \in Elems(out) : l \in AnyLine
      BY DEF ExchangeTypes, Elems
    <3>2. QED
      BY <3>1, LineTypes DEF AnyLine, ReplyLine
  <2>2. QED
    BY <2>1, IdleTypes DEF Live, ExchangeTypes
<1>2. \A r \in Live' : r.id <= 100 + sent'
  <2>1. \A r \in Live : r.id \in Nat /\ r.id <= 100 + sent
    BY <1>1 DEF SentRequest, OneAnswer
  <2>2. sent \in Nat
    BY DEF TypeOK
  <2>3. QED
    BY <2>1, <2>2
<1>3. QED
  BY <1>2 DEF OneAnswer

\* The server is gone, and nobody waits.
LEMMA LiveGone ==
  ASSUME OneAnswer, VerdictOfItsCanary', TypeOK, ExchangeTypes,
         asked' = {}, out' = <<>>, awaited' = Nothing, sent' \in {sent, sent + 1}
  PROVE  OneAnswer'
<1>1. Elems(out') = {}
  BY DEF Elems
<1>2. Live' = {} /\ Idle'
  BY <1>1 DEF Live, Idle
<1>3. QED
  BY <1>1, <1>2, LiveShrinks

\* A verdict that rests on no line, or on one that is right.
LEMMA VerdictAdded ==
  ASSUME TypeOK, ExchangeTypes, VerdictOfItsCanary, NEW v \in Judgement,
         NEW line \in AnyLine \cup {Nothing}, Judged(v, line),
         line # Nothing => line.kind = "request" \/ line.to.of = case
  PROVE  VerdictOfItsCanary'
<1>1. /\ Len(findings) \in Nat /\ Len(findings') = Len(findings) + 1
      /\ findings' \in Seq(Finding)
      /\ \A i \in 1..Len(findings) : findings'[i] = findings[i]
      /\ findings'[Len(findings) + 1] = [case |-> case, verdict |-> v, line |-> line]
  BY JudgedAdds
<1>2. findings \in Seq(Finding)
  BY DEF ExchangeTypes
<1>3. DOMAIN findings = 1..Len(findings) /\ DOMAIN findings' = 1..Len(findings')
  BY <1>1, <1>2
<1>4. SUFFICES ASSUME NEW i \in 1..(Len(findings) + 1), findings'[i].line # Nothing
               PROVE  findings'[i].line.kind = "request"
                        \/ findings'[i].line.to.of = findings'[i].case
  BY <1>1, <1>3 DEF VerdictOfItsCanary
<1>5. CASE i \in 1..Len(findings)
  BY <1>1, <1>3, <1>4, <1>5 DEF VerdictOfItsCanary
<1>6. CASE i = Len(findings) + 1
  BY <1>1, <1>4, <1>6
<1>7. QED
  BY <1>1, <1>5, <1>6

\* Every step keeps at most one answer for each id.
LEMMA OneAnswerStep ==
  ASSUME TypeOK, ExchangeTypes, Place, OneAnswer, [Next]_vars
  PROVE  OneAnswer'
<1> USE DEF exchangeVars, serverVars, auditVars
<1>a. Idle => awaited = Nothing
  BY DEF Idle
<1>b. findings' = findings => VerdictOfItsCanary'
  BY DEF OneAnswer, VerdictOfItsCanary
<1>c. \A l \in Elems(out) : l.kind = "reply" => l.id = l.to.id /\ l.to \in Live
  BY DEF OneAnswer, Live
<1>1. CASE BootstrapSucceeds \/ BootstrapFails \/ AllCasesDone
  <2>1. /\ asked' = {} /\ out' = <<>> /\ Idle /\ UNCHANGED <<awaited, sent, findings>>
    BY <1>1 DEF BootstrapSucceeds, BootstrapFails, AllCasesDone, Bootstraps, WantsServer,
                Launched, Stopped, Place
  <2>2. QED
    BY <1>a, <1>b, <2>1, LiveGone
<1>2. CASE NeverBootstrapped \/ BudgetExhausted
  <2>1. UNCHANGED <<asked, out, awaited, sent>> /\ Idle
    BY <1>2 DEF NeverBootstrapped, BudgetExhausted, WantsServer
  <2>2. VerdictOfItsCanary'
    BY <1>2, <1>b, VerdictAdded DEF NeverBootstrapped, BudgetExhausted, OneAnswer, Judgement
  <2>3. Live' = Live /\ Idle'
    BY <2>1 DEF Live, Idle
  <2>4. QED
    BY <1>c, <2>1, <2>2, <2>3, LiveShrinks
<1>3. CASE SendCanary
  <2>1. /\ Idle /\ awaited' = Request /\ asked' \subseteq asked \cup {Request}
        /\ UNCHANGED <<out, case, findings>> /\ sent' = sent + 1
    BY <1>3 DEF SendCanary, Sends, Written
  <2>2. case.tool <= known
    BY <1>3 DEF SendCanary, CanSend, Place
  <2>3. Request \in SentRequest /\ Request.id = 101 + sent /\ Request.of = case
    BY <2>2, CanaryTypes DEF Request
  <2>4. Live' \subseteq Live \cup {Request}
    BY <2>1 DEF Live
  <2>5. Live \subseteq SentRequest
    <3>1. \A l \in Elems(out) : l \in AnyLine
      BY DEF ExchangeTypes, Elems
    <3>2. \A l \in Elems(out) : l.kind = "reply" => l.to \in SentRequest
      BY <3>1, LineTypes DEF AnyLine, ReplyLine
    <3>3. QED
      BY <3>2, <2>1 DEF Live, ExchangeTypes
  <2>6. \A r \in Live : r.id \in Nat /\ r.id < Request.id
    BY <2>3, <2>5 DEF SentRequest, OneAnswer, TypeOK
  <2>7. \A r \in Live' : r.id <= 100 + sent'
    BY <2>1, <2>3, <2>4, <2>6 DEF TypeOK
  <2>8. \A r, q \in Live' : r.id = q.id => r = q
    BY <2>3, <2>4, <2>6 DEF OneAnswer, TypeOK
  <2>9. QED
    BY <1>b, <1>c, <2>1, <2>3, <2>7, <2>8 DEF OneAnswer
<1>4. CASE SkipOther
  <2>1. HasLine /\ out' = Tail(out) /\ UNCHANGED <<asked, awaited, auditVars>>
    BY <1>4 DEF SkipOther, SkipLine, TakeLine
  <2>2. Elems(out') \subseteq Elems(out)
    BY <2>1, LineRead
  <2>3. Live' \subseteq Live /\ Idle' = Idle
    BY <2>1, <2>2 DEF Live, Idle
  <2>4. QED
    BY <1>b, <1>c, <2>1, <2>2, <2>3, LiveShrinks
<1>5. CASE Answered
  <2>1. PICK line \in NextLine : Receives(line) /\ Judged(Verdict(line), line)
    BY <1>5 DEF Answered
  <2>2. /\ ~Idle /\ HasLine /\ line = Head(out) /\ Matches(line) /\ out' = Tail(out)
        /\ UNCHANGED <<asked, sent>> /\ awaited' = Nothing
    BY <1>5, <2>1 DEF Answered, Receives, TakeLine
  <2>3. line \in AnyLine /\ line \in Elems(out) /\ Elems(out') \subseteq Elems(out)
    BY <2>2, LineRead
  <2>4. Verdict(line) \in Judgement /\ (line.kind = "request" \/ line \in ReplyLine)
    BY <2>2, <2>3, LineMatched
  <2>5. line \in ReplyLine => line.to.of = case
    <3>1. SUFFICES ASSUME line \in ReplyLine
                   PROVE  line.to.of = case
      OBVIOUS
    <3>2. line.to \in Live /\ line.to.id = awaited.id
      BY <1>c, <2>2, <2>3, <3>1 DEF ReplyLine, Matches
    <3>3. awaited \in Live /\ awaited.of = case
      BY <2>2 DEF Live, OneAnswer
    <3>4. QED
      BY <3>2, <3>3 DEF OneAnswer
  <2>6. VerdictOfItsCanary'
    BY <2>1, <2>3, <2>4, <2>5, VerdictAdded DEF OneAnswer
  <2>7. Live' \subseteq Live /\ Idle'
    BY <2>2, <2>3 DEF Live, Idle
  <2>8. QED
    BY <1>c, <2>2, <2>3, <2>6, <2>7, LiveShrinks
<1>6. CASE Timeout \/ Crashes
  <2>1. /\ asked' = {} /\ out' = <<>> /\ awaited' = Nothing /\ sent' \in {sent, sent + 1}
    BY <1>6 DEF Timeout, Crashes, Stopped
  <2>2. VerdictOfItsCanary'
    BY <1>6, VerdictAdded DEF Timeout, Crashes, OneAnswer, Judgement
  <2>3. QED
    BY <2>1, <2>2, LiveGone
<1>7. CASE Server
  <2>1. UNCHANGED <<awaited, auditVars>>
    BY <1>7 DEF Server
  <2>2. /\ \A l \in Elems(out') : l.kind = "reply" => l.id = l.to.id
        /\ asked' \cup {l.to : l \in {x \in Elems(out') : x.kind = "reply"}}
             \subseteq asked \cup {l.to : l \in {x \in Elems(out) : x.kind = "reply"}}
    <3>1. ASSUME NEW req \in asked, NEW body \in Bodies,
                 ServerReplies(req, body) \/ ServerRepeats(req, body)
          PROVE  <2>2!:
      <4> DEFINE r == Reply(req, body)
      <4>1. r \in AnyLine /\ r.id = r.to.id /\ r.to = req
        BY LineTypes DEF AnyLine, ExchangeTypes, Reply
      <4>2. asked' \subseteq asked /\ (out' = Append(out, r) \/ out' = out \o <<r, r>>)
        BY <3>1 DEF ServerReplies, ServerRepeats
      <4> HIDE DEF r
      <4>3. out \in Seq(AnyLine)
        BY DEF ExchangeTypes
      <4>4. Elems(Append(out, r)) = Elems(out) \cup {r}
        BY <4>1, <4>3, AppendElems
      <4>5. Elems(out \o <<r, r>>) = Elems(out) \cup {r}
        BY <4>1, <4>3, TwiceElems
      <4>6. QED
        BY <1>c, <4>1, <4>2, <4>4, <4>5
    <3>2. CASE ServerNoise
      <4>1. PICK line \in NoiseLines : out' = Append(out, line)
        BY <3>2 DEF ServerNoise
      <4>2. line \in AnyLine /\ line.kind # "reply" /\ asked' = asked
        BY <3>2, LineTypes DEF AnyLine, ServerNoise
      <4>3. Elems(out') = Elems(out) \cup {line}
        BY <4>1, <4>2, AppendElems DEF ExchangeTypes
      <4>4. QED
        BY <1>c, <4>2, <4>3
    <3>3. CASE ServerExits \/ Reap
      BY <1>c, <3>3 DEF ServerExits, Reap
    <3>4. QED
      BY <1>7, <3>1, <3>2, <3>3 DEF Server, Bodies
  <2>3. Live' \subseteq Live /\ Idle' = Idle
    BY <2>1, <2>2 DEF Live, Idle
  <2>4. QED
    BY <1>b, <2>1, <2>2, <2>3, LiveShrinks
<1>8. CASE UNCHANGED vars
  <2>1. UNCHANGED <<asked, out, awaited, sent, case, findings>>
    BY <1>8 DEF vars
  <2>2. Live' = Live /\ Idle' = Idle
    BY <2>1 DEF Live, Idle
  <2>3. QED
    BY <1>b, <1>c, <2>1, <2>2, LiveShrinks
<1>9. QED
  BY <1>1, <1>2, <1>3, <1>4, <1>5, <1>6, <1>7, <1>8 DEF Next, Engine

(* ------------------------------- theorems ------------------------------ *)

\* The invariant is inductive.
LEMMA Inductive ==
  Spec => [](TypeOK /\ ExchangeTypes /\ Place /\ Paid /\ InTurn /\ Counted /\ OneAnswer)
<1>1. Init => TypeOK /\ ExchangeTypes /\ Place /\ Paid /\ InTurn /\ Counted /\ OneAnswer
  <2> SUFFICES ASSUME Init
               PROVE  TypeOK /\ ExchangeTypes /\ Place /\ Paid /\ InTurn /\ Counted /\ OneAnswer
    OBVIOUS
  <2> USE DEF Init, ExchangeInit, NoServer
  <2>1. Elems(out) = {} /\ Idle /\ Live = {} /\ findings = <<>> /\ DOMAIN findings = {}
    BY DEF Elems, Idle, Live
  <2>2. TypeOK
    BY <2>1, AuditAssumption DEF TypeOK, AuditAssumption
  <2>3. ExchangeTypes /\ Place
    BY <2>1, NoiseAssumption DEF ExchangeTypes, Place, NoiseAssumption
  <2>4. Paid
    BY DEF Paid, LaunchesAccounted
  <2>5. InTurn
    <3>1. Len(findings) = 0 /\ \A c \in AllCases : ~Before(c, case)
      BY <2>1, AuditAssumption DEF AllCases, Before, AuditAssumption
    <3>2. QED
      BY <3>1 DEF InTurn
  <2>6. OneAnswer
    BY <2>1 DEF OneAnswer, VerdictOfItsCanary
  <2>7. Counted
    <3>1. Len(findings) = 0 /\ case.tool = 1 /\ case.slot = 1
      BY <2>1
    <3>2. (case.tool - 1) * Canaries = 0 /\ NumTools \in Nat \ {0}
      BY <3>1, AuditAssumption DEF AuditAssumption
    <3>3. QED
      BY <3>1, <3>2 DEF Counted
  <2>8. QED
    BY <2>2, <2>3, <2>4, <2>5, <2>6, <2>7
<1>2. TypeOK /\ ExchangeTypes /\ Place /\ Paid /\ InTurn /\ Counted /\ OneAnswer /\ [Next]_vars
        => (TypeOK /\ ExchangeTypes /\ Place /\ Paid /\ InTurn /\ Counted /\ OneAnswer)'
  BY TypesStep, PaidStep, InTurnStep, CountedStep, OneAnswerStep
<1>3. QED
  BY <1>1, <1>2, PTL DEF Spec

(* Every variable keeps its type, and the failed bootstraps exceed the       *)
(* budget of restarts by one at most.                                        *)
THEOREM TypeCorrect == Spec => []TypeOK
  BY Inductive, PTL

(* The failed bootstraps and the canaries sent pay for every launch.         *)
THEOREM LaunchesCorrect == Spec => []LaunchesAccounted
  BY Inductive, PTL DEF Paid

(* A verdict rests on the answer to its own canary, whatever was late, came  *)
(* twice or was written by a server that is gone.                            *)
THEOREM VerdictCorrect == Spec => []VerdictOfItsCanary
  BY Inductive, PTL DEF OneAnswer

(* Every canary is judged once and in order, or left out behind a crash      *)
(* finding of its own tool.                                                  *)
THEOREM EveryCanaryCorrect == Spec => []EveryCanaryOnce
<1>1. TypeOK /\ ExchangeTypes /\ Place /\ InTurn => EveryCanaryOnce
  <2> SUFFICES ASSUME TypeOK, ExchangeTypes, Place, InTurn
               PROVE  EveryCanaryOnce
    OBVIOUS
  <2>1. DOMAIN findings = 1..Len(findings)
    BY DEF ExchangeTypes
  <2>2. pc = "done" /\ known > 0 => case.tool > NumTools /\ NumTools \in Nat /\ case.tool \in Nat
    BY CanaryTypes DEF Place, TypeOK
  <2>3. pc = "done" /\ known > 0 => \A c \in AllCases : Before(c, case)
    BY <2>2 DEF AllCases, Before
  <2>4. QED
    BY <2>1, <2>3 DEF InTurn, EveryCanaryOnce
<1>2. QED
  BY <1>1, Inductive, PTL

(* Exit code 0 of a finished audit can be trusted: all the canaries of all   *)
(* the tools were judged, none of them vulnerable, lost or left out.         *)
THEOREM CleanCorrect == Spec => []CleanAuditIsHonest
<1>1. TypeOK /\ ExchangeTypes /\ Place /\ Counted => CleanAuditIsHonest
  <2> SUFFICES ASSUME TypeOK, ExchangeTypes, Place, Counted,
                      pc = "done", known > 0, ExitCode = 0
               PROVE  /\ Len(findings) = NumTools * Canaries
                      /\ Verdicts \subseteq {"safe", "error", "timeout"}
    BY DEF CleanAuditIsHonest
  <2>1. Verdicts \cap {"vulnerable", "crash", "exhausted"} = {}
    BY DEF ExitCode
  <2>2. Verdicts \subseteq Judgement
    BY FindingTypes DEF Verdicts, ExchangeTypes
  <2>3. Unbroken
    BY <2>1 DEF Unbroken, Verdicts, ExchangeTypes
  <2>4. case.tool = NumTools + 1 /\ case.slot = 1 /\ NumTools \in Nat /\ Canaries \in Nat
    BY CanaryTypes DEF Place, TypeOK, Counted
  <2>5. Len(findings) = (case.tool - 1) * Canaries + case.slot - 1
    BY <2>3 DEF Counted
  <2>6. (case.tool - 1) * Canaries = NumTools * Canaries /\ NumTools * Canaries \in Nat
    BY <2>4
  <2> DEFINE all == (case.tool - 1) * Canaries
  <2>7. Len(findings) = all + case.slot - 1 /\ all \in Nat
    BY <2>5, <2>6
  <2> HIDE DEF all
  <2>8. Len(findings) = all
    BY <2>4, <2>7
  <2>9. QED
    BY <2>1, <2>2, <2>6, <2>8 DEF all, Judgement
<1>2. QED
  BY <1>1, Inductive, PTL
=============================================================================
