---------------------------- MODULE FuzzerProofs ----------------------------
(***************************************************************************)
(* Theorems about Fuzzer, for any number of cases, restarts and noise       *)
(* lines.  The invariant says where in the loop which server may be there,  *)
(* and what of earlier cases may still be in its pipes.                     *)
(***************************************************************************)
EXTENDS Fuzzer, TLAPS

Sent == {"ready", "drain", "await"}

\* The budget is only exceeded while no server is there.
Budgeted == pc \notin {"boot", "ended"} => Budget

\* A case has begun wherever one is sent or a server is there to check.
Started ==
  /\ pc \in Sent => case # 0
  /\ pc = "ensure" /\ case = 0 => ~transport

\* Where the engine is in the loop, and how many cases it has judged.
Loop ==
  /\ pc \in Sent => transport /\ ~needsRestart
  /\ pc = "next" => transport \/ needsRestart
  /\ pc = "boot" => ~needsRestart /\ ~transport
  /\ pc = "ensure" /\ case = 0 => ~needsRestart /\ launches = 0
  /\ pc = "ensure" /\ case # 0 => transport \/ needsRestart
  /\ case = 0 => results = <<>>
  /\ outcome # "running" => pc = "ended"

\* Every launch but one is paid for by a restart or a quiet replacement.
Paid ==
  /\ launches <= 1 + restarts + quiet
  /\ pc = "boot" => launches <= restarts + quiet
  /\ quiet <= case
  /\ pc = "ensure" /\ case # 0 => quiet < case

InPipe == {pipe[i] : i \in 1..Len(pipe)}
Replies == {i \in 1..Len(out) : out[i].kind = "reply"}
InOut == {out[i].of : i \in Replies}

\* A case is in one place at most, and only once.
Distinct ==
  /\ \A i, j \in 1..Len(pipe) : pipe[i] = pipe[j] => i = j
  /\ \A i, j \in Replies : out[i].of = out[j].of => i = j
  /\ InPipe \cap inbox = {} /\ InPipe \cap InOut = {} /\ inbox \cap InOut = {}

\* The cases in the pipes have been sent.  If one of them has been judged, the
\* server is replaced or the protocol error behind it is on record.
Pending == InPipe \cup inbox \cup InOut
Known ==
  \E j \in 1..Len(results) :
    results[j].verdict = "protocol_error" /\ results[j].launch = launches
StaleAt(c) ==
  /\ c <= case /\ (pc \in {"ensure", "ready"} => c < case)
  /\ c <= Len(results) => needsRestart \/ Known
Stale == \A c \in Pending : StaleAt(c)

PendingInv == Distinct /\ Stale /\ (~transport => Pending = {})

-----------------------------------------------------------------------------
\* Without a server its pipes are empty, which is a value of their types.
LEMMA NoServerType ==
  ASSUME NoServer
  PROVE  srv' = "none" /\ pipe' \in Seq(Case) /\ inbox' \subseteq Case
         /\ out' \in Seq(Reply \cup NoiseLine)
  BY DEF NoServer

(* Every variable keeps its type, and restarts exceed the budget by at most *)
(* one.                                                                     *)
LEMMA TypeInductive == Spec => [](TypeOK /\ Budgeted /\ Started)
<1> USE BoundsAssumption DEF BoundsAssumption
<1>1. Init => TypeOK /\ Budgeted /\ Started
  <2>1. /\ <<>> \in Seq(Case) /\ <<>> \in Seq(Reply \cup NoiseLine)
        /\ <<>> \in Seq(Result) /\ {} \subseteq Case
    OBVIOUS
  <2>2. 0 \in 0..NumCases /\ 0 \in 0..(MaxRestarts + 1) /\ 0 \in 0..MaxNoise
        /\ 0 \in 0..LaunchesCap /\ 0 \in Nat /\ 0 <= MaxRestarts
    BY DEF LaunchesCap
  <2>3. QED
    BY <2>1, <2>2 DEF Init, TypeOK, Budgeted, Budget, Started, Sent
<1>2. TypeOK /\ Budgeted /\ Started /\ [Next]_vars => (TypeOK /\ Budgeted /\ Started)'
  <2> SUFFICES ASSUME TypeOK, Budgeted, Started, [Next]_vars
               PROVE  (TypeOK /\ Budgeted /\ Started)'
    OBVIOUS
  <2> USE NoServerType
      DEF TypeOK, Budgeted, Budget, Started, Sent, engineVars, serverVars, countVars
  <2>1. CASE ServerReads
    <3>1. Head(pipe) \in Case /\ Tail(pipe) \in Seq(Case)
      BY <2>1 DEF ServerReads
    <3>2. QED
      BY <2>1, <3>1 DEF ServerReads
  <2>2. ASSUME NEW c \in Case, NEW id \in Sources \cup {"null"},
              NEW answer \in Outcome, ServerReplies(c, id, answer)
        PROVE  (TypeOK /\ Budgeted /\ Started)'
    <3>1. [kind |-> "reply", of |-> c, id |-> id, outcome |-> answer] \in Reply
      BY DEF Reply
    <3>2. QED
      BY <2>2, <3>1 DEF ServerReplies
  <2>3. ASSUME NEW kind \in Noise, ServerNoise(kind)
        PROVE  (TypeOK /\ Budgeted /\ Started)'
    <3>1. [kind |-> kind] \in NoiseLine
      BY DEF NoiseLine
    <3>2. QED
      BY <2>3, <3>1 DEF ServerNoise
  <2>4. CASE ServerExits
    BY <2>4 DEF ServerExits
  <2>5. CASE Reap
    BY <2>5 DEF Reap
  <2>6. CASE StillReady
    BY <2>6 DEF StillReady
  <2>7. CASE Replace
    <3>1. /\ pipe' \in Seq(Case) /\ inbox' \subseteq Case /\ srv' = "none"
          /\ out' \in Seq(Reply \cup NoiseLine)
      BY <2>7 DEF Replace
    <3>2. restarts' \in 0..(MaxRestarts + 1)
      BY <2>7 DEF Replace
    <3>3. quiet' \in Nat
      BY <2>7 DEF Replace
    <3>4. QED
      BY <2>7, <3>1, <3>2, <3>3 DEF Replace
  <2>8. CASE BootstrapSucceeds
    BY <2>8 DEF BootstrapSucceeds, Launched, LaunchesCap
  <2>9. CASE BootstrapFails
    BY <2>9 DEF BootstrapFails, Launched, LaunchesCap
  <2>10. CASE NoTools
    <3>1. /\ pipe' \in Seq(Case) /\ inbox' \subseteq Case /\ srv' = "none"
          /\ out' \in Seq(Reply \cup NoiseLine)
      BY <2>10 DEF NoTools, End
    <3>2. launches' \in 0..LaunchesCap
      BY <2>10 DEF NoTools, Launched, LaunchesCap
    <3>3. QED
      BY <2>10, <3>1, <3>2 DEF NoTools, End
  <2>11. CASE BudgetExhausted
    BY <2>11 DEF BudgetExhausted, End
  <2>12. CASE NextCase
    BY <2>12 DEF NextCase, Case
  <2>13. CASE WallClockExceeded
    BY <2>13 DEF WallClockExceeded, End
  <2>14. CASE AllCasesDone
    BY <2>14 DEF AllCasesDone, End
  <2>15. CASE Skip
    <3>1. [verdict |-> "skipped", of |-> 0, launch |-> launches] \in Result
      BY DEF Result, Verdict, LaunchesCap
    <3>2. QED
      BY <2>15, <3>1 DEF Skip, Judge
  <2>16. CASE WriteCase
    <3>1. case \in Case
      BY <2>16 DEF WriteCase, Case
    <3>2. QED
      BY <2>16, <3>1 DEF WriteCase
  <2>17. CASE WriteFails
    <3>1. [verdict |-> "crash", of |-> 0, launch |-> launches] \in Result
      BY DEF Result, Verdict, LaunchesCap
    <3>2. QED
      BY <2>17, <3>1 DEF WriteFails, Judge, JudgeDead
  <2>18. CASE DrainReturns
    BY <2>18 DEF DrainReturns
  <2>19. CASE ReadNote
    BY <2>19 DEF ReadNote, Read
  <2>20. CASE ReadJunk
    <3>1. [verdict |-> "protocol_error", of |-> 0, launch |-> launches] \in Result
      BY DEF Result, Verdict, LaunchesCap
    <3>2. QED
      BY <2>20, <3>1 DEF ReadJunk, Judge, Read
  <2>21. CASE ReadLong
    <3>1. [verdict |-> "crash", of |-> 0, launch |-> launches] \in Result
      BY DEF Result, Verdict, LaunchesCap
    <3>2. QED
      BY <2>21, <3>1 DEF ReadLong, Judge, JudgeDead, Read
  <2>22. CASE ReadDeep
    BY <2>22 DEF ReadDeep, End
  <2>23. CASE ReadReply
    <3>1. Head(out).of \in Case /\ out' = Tail(out) /\ out' \in Seq(Reply \cup NoiseLine)
      BY <2>23 DEF ReadReply, Read, Reply, NoiseLine, Noise
    <3>2. PICK v \in {"protocol_error", "pass", "fail"} : Judge(v, Head(out).of)
      BY <2>23 DEF ReadReply
    <3>3. [verdict |-> v, of |-> Head(out).of, launch |-> launches] \in Result
      BY <3>1 DEF Result, Verdict, Case, LaunchesCap
    <3>4. QED
      BY <2>23, <3>1, <3>2, <3>3 DEF ReadReply, Read, Judge
  <2>24. CASE ReadEof
    <3>1. [verdict |-> "crash", of |-> 0, launch |-> launches] \in Result
      BY DEF Result, Verdict, LaunchesCap
    <3>2. QED
      BY <2>24, <3>1 DEF ReadEof, Judge, JudgeDead
  <2>25. CASE Timeout
    <3>1. [verdict |-> "timeout", of |-> 0, launch |-> launches] \in Result
      BY DEF Result, Verdict, LaunchesCap
    <3>2. results' \in Seq(Result)
      BY <2>25, <3>1 DEF Timeout, JudgeDead, Judge
    <3>3. /\ pipe' \in Seq(Case) /\ inbox' \subseteq Case /\ srv' = "none"
          /\ out' \in Seq(Reply \cup NoiseLine)
      BY <2>25 DEF Timeout
    <3>4. QED
      BY <2>25, <3>2, <3>3 DEF Timeout, JudgeDead, Judge
  <2>26. CASE UNCHANGED vars
    BY <2>26 DEF vars
  <2>27. QED
    BY <2>1, <2>2, <2>3, <2>4, <2>5, <2>6, <2>7, <2>8, <2>9, <2>10,
       <2>11, <2>12, <2>13, <2>14, <2>15, <2>16, <2>17, <2>18, <2>19,
       <2>20, <2>21, <2>22, <2>23, <2>24, <2>25, <2>26
       DEF Next, Server, Engine
<1>3. QED
  BY <1>1, <1>2, PTL DEF Spec

\* Every variable of the engine keeps its type, whatever the server does.
THEOREM TypeCorrect == Spec => []TypeOK
  BY TypeInductive, PTL

-----------------------------------------------------------------------------
(* The rest of the invariant.                                               *)
LEMMA LoopInductive == Spec => [](Loop /\ Paid /\ EveryCaseOnce)
<1> DEFINE Inv == Loop /\ Paid /\ EveryCaseOnce
<1> USE BoundsAssumption DEF BoundsAssumption
<1>1. Init => Inv
  BY DEF Init, Loop, Paid, EveryCaseOnce, Sent
<1>2. TypeOK /\ Budgeted /\ Started /\ Inv /\ [Next]_vars => Inv'
  <2> SUFFICES ASSUME TypeOK, Started, Inv, [Next]_vars
               PROVE  Inv'
    OBVIOUS
  <2>a. /\ case \in 0..NumCases /\ restarts \in Nat /\ launches \in Nat
        /\ quiet \in Nat /\ results \in Seq(Result)
        /\ transport \in BOOLEAN /\ needsRestart \in BOOLEAN
    BY DEF TypeOK, LaunchesCap
  <2> USE <2>a DEF Started, Loop, Paid, EveryCaseOnce, Sent, engineVars, serverVars, countVars
  <2>1. CASE ServerReads
    BY <2>1 DEF ServerReads
  <2>2. ASSUME NEW c \in Case, NEW id \in Sources \cup {"null"},
              NEW answer \in Outcome, ServerReplies(c, id, answer)
        PROVE  Inv'
    BY <2>2 DEF ServerReplies
  <2>3. ASSUME NEW kind \in Noise, ServerNoise(kind)
        PROVE  Inv'
    BY <2>3 DEF ServerNoise
  <2>4. CASE ServerExits
    BY <2>4 DEF ServerExits
  <2>5. CASE Reap
    BY <2>5 DEF Reap
  <2>6. CASE StillReady
    BY <2>6 DEF StillReady
  <2>7. CASE Replace
    BY <2>7 DEF Replace, NoServer
  <2>8. CASE BootstrapSucceeds
    BY <2>8 DEF BootstrapSucceeds, Launched
  <2>9. CASE BootstrapFails
    BY <2>9 DEF BootstrapFails, Launched
  <2>10. CASE NoTools
    BY <2>10 DEF NoTools, Launched, End, NoServer
  <2>11. CASE BudgetExhausted
    BY <2>11 DEF BudgetExhausted, End, NoServer
  <2>12. CASE NextCase
    BY <2>12 DEF NextCase
  <2>13. CASE WallClockExceeded
    BY <2>13 DEF WallClockExceeded, End, NoServer
  <2>14. CASE AllCasesDone
    BY <2>14 DEF AllCasesDone, End, NoServer
  <2>15. CASE Skip
    BY <2>15 DEF Skip, Judge
  <2>16. CASE WriteCase
    BY <2>16 DEF WriteCase
  <2>17. CASE WriteFails
    BY <2>17 DEF WriteFails, Judge, JudgeDead
  <2>18. CASE DrainReturns
    BY <2>18 DEF DrainReturns
  <2>19. CASE ReadNote
    BY <2>19 DEF ReadNote, Read
  <2>20. CASE ReadJunk
    BY <2>20 DEF ReadJunk, Judge, Read
  <2>21. CASE ReadLong
    BY <2>21 DEF ReadLong, Judge, JudgeDead, Read
  <2>22. CASE ReadDeep
    BY <2>22 DEF ReadDeep, End, NoServer
  <2>23. CASE ReadReply
    BY <2>23 DEF ReadReply, Judge, Read
  <2>24. CASE ReadEof
    BY <2>24 DEF ReadEof, Judge, JudgeDead
  <2>25. CASE Timeout
    BY <2>25 DEF Timeout, Judge, JudgeDead, NoServer
  <2>26. CASE UNCHANGED vars
    BY <2>26 DEF vars
  <2>27. QED
    BY <2>1, <2>2, <2>3, <2>4, <2>5, <2>6, <2>7, <2>8, <2>9, <2>10,
       <2>11, <2>12, <2>13, <2>14, <2>15, <2>16, <2>17, <2>18, <2>19,
       <2>20, <2>21, <2>22, <2>23, <2>24, <2>25, <2>26
       DEF Next, Server, Engine
<1>3. QED
  BY <1>1, <1>2, TypeInductive, PTL DEF Spec

(* --max-restarts and the quiet replacements, of which there is at most one *)
(* for a case, pay for every attempt to launch a server.                    *)
THEOREM LaunchesCorrect == Spec => []LaunchesAccounted
<1>1. TypeOK /\ Paid => LaunchesAccounted
  <2> SUFFICES ASSUME TypeOK, Paid
               PROVE  LaunchesAccounted
    OBVIOUS
  <2>1. quiet <= NumCases
    BY BoundsAssumption DEF TypeOK, Paid, BoundsAssumption
  <2>2. QED
    BY <2>1 DEF Paid, LaunchesAccounted
<1>2. QED
  BY <1>1, TypeInductive, LoopInductive, PTL

(* Every case is judged once and in order, however the server behaves.      *)
THEOREM EveryCaseCorrect == Spec => []EveryCaseOnce
  BY LoopInductive, PTL

-----------------------------------------------------------------------------
(* What each step does to the cases in the pipes.                           *)

Typed ==
  pipe \in Seq(Case) /\ inbox \subseteq Case /\ out \in Seq(Reply \cup NoiseLine)

\* A case the server takes from the pipe is still pending.
LEMMA ReadsPending ==
  ASSUME Typed, Distinct, ServerReads
  PROVE  Distinct' /\ Pending' = Pending
<1>1. /\ pipe # <<>> /\ pipe' = Tail(pipe) /\ inbox' = inbox \cup {Head(pipe)}
      /\ out' = out
  BY DEF ServerReads
<1>2. /\ Len(pipe') = Len(pipe) - 1 /\ Len(pipe) >= 1 /\ Head(pipe) = pipe[1]
      /\ \A i \in 1..Len(pipe') : pipe'[i] = pipe[i + 1]
  BY <1>1 DEF Typed
<1>3. InPipe = InPipe' \cup {Head(pipe)}
  <2>1. InPipe' \cup {Head(pipe)} \subseteq InPipe
    BY <1>1, <1>2 DEF InPipe, Typed
  <2>2. ASSUME NEW i \in 1..Len(pipe)
        PROVE  pipe[i] \in InPipe' \cup {Head(pipe)}
    <3>1. CASE i = 1
      BY <1>2, <3>1
    <3>2. CASE i # 1
      <4>1. i - 1 \in 1..Len(pipe') /\ pipe'[i - 1] = pipe[i]
        BY <1>1, <1>2, <3>2 DEF Typed
      <4>2. QED
        BY <4>1 DEF InPipe
    <3>3. QED
      BY <3>1, <3>2
  <2>3. QED
    BY <2>1, <2>2 DEF InPipe
<1>4. Head(pipe) \notin InPipe'
  BY <1>1, <1>2 DEF InPipe, Distinct, Typed
<1>5. InOut' = InOut /\ Replies' = Replies
  BY <1>1 DEF InOut, Replies
<1>6. \A i, j \in 1..Len(pipe') : pipe'[i] = pipe'[j] => i = j
  BY <1>1, <1>2 DEF Distinct, Typed
<1>7. \A i, j \in Replies' : out'[i].of = out'[j].of => i = j
  BY <1>1, <1>5 DEF Distinct
<1>8. /\ InPipe' \cap inbox' = {} /\ InPipe' \cap InOut' = {}
      /\ inbox' \cap InOut' = {}
  BY <1>1, <1>3, <1>4, <1>5 DEF Distinct
<1>9. QED
  BY <1>1, <1>3, <1>5, <1>6, <1>7, <1>8 DEF Distinct, Pending

\* A line is appended to out.
LEMMA Appends ==
  ASSUME Typed, NEW line \in Reply \cup NoiseLine, out' = Append(out, line)
  PROVE  /\ Replies' = Replies \cup IF line.kind = "reply" THEN {Len(out) + 1} ELSE {}
         /\ InOut' = InOut \cup IF line.kind = "reply" THEN {line.of} ELSE {}
         /\ \A i \in Replies : out'[i] = out[i] /\ i <= Len(out)
         /\ out'[Len(out) + 1] = line
<1>1. /\ Len(out') = Len(out) + 1 /\ out'[Len(out) + 1] = line
      /\ \A i \in 1..Len(out) : out'[i] = out[i]
  BY DEF Typed
<1>2. \A i \in Replies : i \in 1..Len(out) /\ out'[i] = out[i] /\ i <= Len(out)
  BY <1>1 DEF Replies, Typed
<1>3. 1..(Len(out) + 1) = (1..Len(out)) \cup {Len(out) + 1}
  BY DEF Typed
<1>4. Replies' = Replies \cup IF line.kind = "reply" THEN {Len(out) + 1} ELSE {}
  BY <1>1, <1>3 DEF Replies
<1>5. InOut' = InOut \cup IF line.kind = "reply" THEN {line.of} ELSE {}
  BY <1>1, <1>2, <1>4 DEF InOut
<1>6. QED
  BY <1>1, <1>2, <1>4, <1>5

\* A case the server answers is still pending, as a reply nobody has read.
LEMMA RepliesPending ==
  ASSUME Typed, Distinct, NEW c \in Case, NEW id \in Sources \cup {"null"},
         NEW answer \in Outcome, ServerReplies(c, id, answer)
  PROVE  Distinct' /\ Pending' = Pending
<1> DEFINE line == [kind |-> "reply", of |-> c, id |-> id, outcome |-> answer]
<1>1. /\ out' = Append(out, line) /\ line \in Reply \cup NoiseLine
      /\ c \in inbox /\ inbox' = inbox \ {c} /\ pipe' = pipe
  BY DEF ServerReplies, Reply
<1>2. line.kind = "reply" /\ line.of = c
  OBVIOUS
<1> HIDE DEF line
<1>3. /\ Replies' = Replies \cup {Len(out) + 1} /\ InOut' = InOut \cup {c}
      /\ \A i \in Replies : out'[i] = out[i] /\ i <= Len(out)
      /\ out'[Len(out) + 1] = line
  BY <1>1, <1>2, Appends
<1>4. InPipe' = InPipe
  BY <1>1 DEF InPipe
<1>5. \A i \in Replies : out[i].of # c
  BY <1>1 DEF Distinct, InOut
<1>6. \A i, j \in Replies' : out'[i].of = out'[j].of => i = j
  BY <1>2, <1>3, <1>5 DEF Distinct
<1>7. \A i, j \in 1..Len(pipe') : pipe'[i] = pipe'[j] => i = j
  BY <1>1 DEF Distinct
<1>8. QED
  BY <1>1, <1>3, <1>4, <1>6, <1>7 DEF Distinct, Pending

\* A line that answers nothing leaves the pending cases as they are.
LEMMA NoisePending ==
  ASSUME Typed, Distinct, NEW kind \in Noise, ServerNoise(kind)
  PROVE  Distinct' /\ Pending' = Pending
<1> DEFINE line == [kind |-> kind]
<1>1. /\ out' = Append(out, line) /\ line \in Reply \cup NoiseLine
      /\ inbox' = inbox /\ pipe' = pipe
  BY DEF ServerNoise, NoiseLine
<1>2. line.kind # "reply"
  BY DEF Noise
<1> HIDE DEF line
<1>3. Replies' = Replies /\ InOut' = InOut
      /\ \A i \in Replies : out'[i] = out[i]
  BY <1>1, <1>2, Appends
<1>4. InPipe' = InPipe
  BY <1>1 DEF InPipe
<1>5. \A i, j \in Replies' : out'[i].of = out'[j].of => i = j
  BY <1>3 DEF Distinct
<1>6. \A i, j \in 1..Len(pipe') : pipe'[i] = pipe'[j] => i = j
  BY <1>1 DEF Distinct
<1>7. QED
  BY <1>1, <1>3, <1>4, <1>5, <1>6 DEF Distinct, Pending

\* The engine takes a line; with a reply it takes the case from the pipes.
LEMMA ReadPending ==
  ASSUME Typed, Distinct, NEW kind, Read(kind)
  PROVE  /\ Distinct' /\ Pending' \subseteq Pending
         /\ kind = "reply" => Head(out).of \in Pending \ Pending'
<1>1. /\ out # <<>> /\ out' = Tail(out) /\ Head(out).kind = kind
      /\ pipe' = pipe /\ inbox' = inbox
  BY DEF Read
<1>2. /\ Len(out') = Len(out) - 1 /\ Len(out) >= 1 /\ Head(out) = out[1]
      /\ \A i \in 1..Len(out') : out'[i] = out[i + 1]
  BY <1>1 DEF Typed
<1>3. \A i \in Replies' : i + 1 \in Replies /\ out'[i] = out[i + 1]
  BY <1>1, <1>2 DEF Replies, Typed
<1>4. InOut' \subseteq InOut
  BY <1>3 DEF InOut
<1>5. kind = "reply" => 1 \in Replies /\ Head(out).of \in InOut
  BY <1>1, <1>2 DEF Replies, InOut, Typed
<1>6. kind = "reply" => Head(out).of \notin InOut'
  <2>1. \A i \in Replies' : i \in Nat /\ i + 1 # 1
    BY DEF Replies
  <2>2. QED
    BY <1>2, <1>3, <1>5, <2>1 DEF InOut, Distinct
<1>7. InPipe' = InPipe
  BY <1>1 DEF InPipe
<1>8. \A i, j \in Replies' : out'[i].of = out'[j].of => i = j
  <2>1. \A i \in Replies' : i \in Nat
    BY DEF Replies
  <2>2. QED
    BY <1>3, <2>1 DEF Distinct
<1>9. \A i, j \in 1..Len(pipe') : pipe'[i] = pipe'[j] => i = j
  BY <1>1 DEF Distinct
<1>10. Distinct'
  BY <1>1, <1>4, <1>7, <1>8, <1>9 DEF Distinct
<1>11. QED
  BY <1>1, <1>4, <1>5, <1>6, <1>7, <1>10 DEF Distinct, Pending

\* A case that is written becomes pending, once.
LEMMA WritePending ==
  ASSUME Typed, Distinct, case \in Case, case \notin Pending,
         pipe' = Append(pipe, case), UNCHANGED <<inbox, out>>
  PROVE  Distinct' /\ Pending' = Pending \cup {case}
<1>1. /\ Len(pipe') = Len(pipe) + 1 /\ pipe'[Len(pipe) + 1] = case
      /\ \A i \in 1..Len(pipe) : pipe'[i] = pipe[i]
      /\ Len(pipe) \in Nat
  BY DEF Typed
<1>2. 1..Len(pipe') = (1..Len(pipe)) \cup {Len(pipe) + 1}
  BY <1>1 DEF Typed
<1>3. InPipe' = InPipe \cup {case}
  BY <1>1, <1>2 DEF InPipe
<1>4. \A i \in 1..Len(pipe) : pipe[i] # case
  BY DEF Pending, InPipe
<1>5. \A i, j \in 1..Len(pipe') : pipe'[i] = pipe'[j] => i = j
  BY <1>1, <1>2, <1>4 DEF Distinct
<1>6. InOut' = InOut /\ Replies' = Replies
  BY DEF InOut, Replies
<1>7. \A i, j \in Replies' : out'[i].of = out'[j].of => i = j
  BY <1>6 DEF Distinct
<1>8. QED
  BY <1>3, <1>5, <1>6, <1>7 DEF Distinct, Pending

\* A server that is shut down takes everything that was pending with it.
LEMMA NoServerPending ==
  ASSUME NoServer
  PROVE  Distinct' /\ Pending' = {}
<1>1. pipe' = <<>> /\ inbox' = {} /\ out' = <<>>
  BY DEF NoServer
<1>2. InPipe' = {} /\ Replies' = {} /\ InOut' = {}
  BY <1>1 DEF InPipe, Replies, InOut
<1>3. QED
  BY <1>1, <1>2 DEF Distinct, Pending

\* A step that leaves the pipes alone leaves the pending cases alone.
LEMMA SamePending ==
  ASSUME Distinct, UNCHANGED <<pipe, inbox, out>>
  PROVE  Distinct' /\ Pending' = Pending
BY DEF Distinct, Pending, InPipe, InOut, Replies

-----------------------------------------------------------------------------
(* A protocol error stays on record while the server is the same.           *)
LEMMA KnownKept ==
  ASSUME results \in Seq(Result), NEW r \in Result,
         results' = Append(results, r), launches' = launches,
         Known \/ (r.verdict = "protocol_error" /\ r.launch = launches)
  PROVE  Known'
<1>1. /\ Len(results') = Len(results) + 1 /\ results'[Len(results) + 1] = r
      /\ \A j \in 1..Len(results) : results'[j] = results[j]
      /\ Len(results) \in Nat
  OBVIOUS
<1>2. CASE Known
  <2>1. PICK j \in 1..Len(results) :
          results[j].verdict = "protocol_error" /\ results[j].launch = launches
    BY <1>2 DEF Known
  <2>2. j \in 1..Len(results') /\ results'[j] = results[j]
    BY <1>1
  <2>3. QED
    BY <2>1, <2>2 DEF Known
<1>3. CASE r.verdict = "protocol_error" /\ r.launch = launches
  <2>1. Len(results) + 1 \in 1..Len(results')
    BY <1>1
  <2>2. QED
    BY <1>1, <1>3, <2>1 DEF Known
<1>4. QED
  BY <1>2, <1>3

\* What a judgement adds to the results.
LEMMA Judges ==
  ASSUME TypeOK, NEW v \in Verdict, NEW of \in 0..NumCases, Judge(v, of)
  PROVE  \E r \in Result :
           /\ r.verdict = v /\ r.of = of /\ r.launch = launches
           /\ results' = Append(results, r) /\ Len(results') = Len(results) + 1
           /\ launches' = launches /\ case' = case /\ pc' = "next"
<1> DEFINE r == [verdict |-> v, of |-> of, launch |-> launches]
<1>1. r \in Result
  BY DEF Result, TypeOK, LaunchesCap
<1>2. results' = Append(results, r) /\ results \in Seq(Result)
  BY DEF Judge, TypeOK
<1>3. Len(results') = Len(results) + 1
  BY <1>1, <1>2
<1>4. launches' = launches /\ case' = case /\ pc' = "next"
  BY DEF Judge, countVars
<1>5. QED
  BY <1>1, <1>2, <1>3, <1>4


\* Only cases are pending.
LEMMA PendingCases ==
  ASSUME Typed
  PROVE  Pending \subseteq Case
<1>1. InPipe \subseteq Case
  BY DEF InPipe, Typed
<1>2. ASSUME NEW i \in Replies
      PROVE  out[i].of \in Case
  <2>1. out[i] \in Reply \cup NoiseLine /\ out[i].kind = "reply"
    BY DEF Replies, Typed
  <2>2. QED
    BY <2>1 DEF Reply, NoiseLine, Noise
<1>3. QED
  BY <1>1, <1>2 DEF Pending, InOut, Typed

\* Steps that judge nothing: what is pending was pending.
LEMMA QuietStep ==
  ASSUME TypeOK, PendingInv, Distinct', Pending' \subseteq Pending,
         UNCHANGED <<results, launches, case, needsRestart, transport>>,
         pc' \in {"ensure", "ready"} => pc \in {"ensure", "ready"}
  PROVE  PendingInv'
<1>1. Known' <=> Known
  BY DEF Known
<1>2. ASSUME NEW c \in Pending'
      PROVE  StaleAt(c)'
  BY <1>1 DEF PendingInv, Stale, StaleAt
<1>3. QED
  BY <1>2 DEF PendingInv, Stale

\* The server and its pipes are dropped.
LEMMA DroppedStep ==
  ASSUME NoServer
  PROVE  PendingInv'
BY NoServerPending DEF PendingInv, Stale

\* The case at hand is judged.
LEMMA JudgedStep ==
  ASSUME TypeOK, PendingInv, Distinct', Pending' \subseteq Pending,
         case' = case, pc' = "next", transport' = transport,
         \A c \in Pending' : needsRestart' \/ Known'
  PROVE  PendingInv'
<1>1. ASSUME NEW c \in Pending'
      PROVE  StaleAt(c)'
  BY DEF PendingInv, Stale, StaleAt
<1>2. QED
  BY <1>1 DEF PendingInv, Stale

(* The invariant of the pipes is inductive.                                 *)
LEMMA PendingInductive == Spec => []PendingInv
<1>1. Init => PendingInv
  <2> SUFFICES ASSUME Init
               PROVE  PendingInv
    OBVIOUS
  <2>1. InPipe = {} /\ Replies = {} /\ InOut = {} /\ inbox = {} /\ pipe = <<>>
    BY DEF Init, InPipe, Replies, InOut
  <2>2. QED
    BY <2>1 DEF PendingInv, Distinct, Stale, Pending
<1>2. /\ TypeOK /\ Started /\ Loop /\ EveryCaseOnce /\ PendingInv /\ [Next]_vars
      => PendingInv'
  <2> SUFFICES ASSUME TypeOK, Started, Loop, EveryCaseOnce, PendingInv, [Next]_vars
               PROVE  PendingInv'
    OBVIOUS
  <2>a. Typed /\ Distinct /\ case \in 0..NumCases /\ results \in Seq(Result)
    BY DEF TypeOK, Typed, PendingInv
  <2>b. pc \in Sent => /\ transport /\ ~needsRestart
                       /\ case \in Case /\ Len(results) = case - 1
    BY <2>a, BoundsAssumption DEF Loop, Started, EveryCaseOnce, Sent, Case, BoundsAssumption
  <2>c. pc = "next" => Len(results) = case
    BY DEF EveryCaseOnce
  <2>1. CASE ServerReads
    <3>1. Distinct' /\ Pending' = Pending
      BY <2>a, <2>1, ReadsPending
    <3>2. QED
      BY <2>1, <3>1, QuietStep DEF ServerReads, engineVars, countVars
  <2>2. ASSUME NEW c \in Case, NEW id \in Sources \cup {"null"},
              NEW answer \in Outcome, ServerReplies(c, id, answer)
        PROVE  PendingInv'
    <3>1. Distinct' /\ Pending' = Pending
      BY <2>a, <2>2, RepliesPending
    <3>2. QED
      BY <2>2, <3>1, QuietStep DEF ServerReplies, engineVars, countVars
  <2>3. ASSUME NEW kind \in Noise, ServerNoise(kind)
        PROVE  PendingInv'
    <3>1. Distinct' /\ Pending' = Pending
      BY <2>a, <2>3, NoisePending
    <3>2. QED
      BY <2>3, <3>1, QuietStep DEF ServerNoise, engineVars, countVars
  <2>4. CASE ServerExits
    <3>1. Distinct' /\ Pending' = Pending
      BY <2>a, <2>4, SamePending DEF ServerExits
    <3>2. QED
      BY <2>4, <3>1, QuietStep DEF ServerExits, engineVars, countVars
  <2>5. CASE Reap
    <3>1. Distinct' /\ Pending' = Pending
      BY <2>a, <2>5, SamePending DEF Reap
    <3>2. QED
      BY <2>5, <3>1, QuietStep DEF Reap, engineVars, countVars
  <2>6. CASE StillReady
    <3>1. Distinct' /\ Pending' = Pending
      BY <2>a, <2>6, SamePending DEF StillReady, serverVars
    <3>2. QED
      BY <2>6, <3>1, QuietStep DEF StillReady, serverVars, engineVars, countVars
  <2>7. CASE Replace
    BY <2>7, DroppedStep DEF Replace
  <2>8. CASE BootstrapSucceeds
    <3>1. Distinct' /\ Pending' = Pending
      BY <2>a, <2>8, SamePending DEF BootstrapSucceeds
    <3>2. Pending = {}
      BY <2>8 DEF BootstrapSucceeds, Loop, PendingInv
    <3>3. QED
      BY <3>1, <3>2 DEF PendingInv, Stale
  <2>9. CASE BootstrapFails
    <3>1. Distinct' /\ Pending' = Pending
      BY <2>a, <2>9, SamePending DEF BootstrapFails, serverVars
    <3>2. Pending = {}
      BY <2>9 DEF BootstrapFails, Loop, PendingInv
    <3>3. QED
      BY <3>1, <3>2 DEF PendingInv, Stale
  <2>10. CASE NoTools
    BY <2>10, DroppedStep DEF NoTools, End
  <2>11. CASE BudgetExhausted
    BY <2>11, DroppedStep DEF BudgetExhausted, End
  <2>12. CASE NextCase
    <3>1. Distinct' /\ Pending' = Pending
      BY <2>a, <2>12, SamePending DEF NextCase, serverVars
    <3>2. /\ case' = case + 1 /\ results' = results /\ needsRestart' = needsRestart
          /\ transport' = transport /\ (Known' <=> Known)
      BY <2>12 DEF NextCase, countVars, Known
    <3>3. ASSUME NEW c \in Pending
          PROVE  StaleAt(c)'
      <4>1. c \in Nat /\ c <= case /\ (c <= Len(results) => needsRestart \/ Known)
        <5>1. c \in Case /\ StaleAt(c)
          BY <2>a, <3>3, PendingCases DEF PendingInv, Stale
        <5>2. QED
          BY <5>1 DEF StaleAt, Case
      <4>2. c < case + 1
        BY <2>a, <4>1
      <4>3. QED
        BY <3>2, <4>1, <4>2 DEF StaleAt
    <3>4. QED
      BY <3>1, <3>2, <3>3 DEF PendingInv, Stale
  <2>13. CASE WallClockExceeded
    BY <2>13, DroppedStep DEF WallClockExceeded, End
  <2>14. CASE AllCasesDone
    BY <2>14, DroppedStep DEF AllCasesDone, End
  <2>15. CASE Skip
    <3>1. /\ Distinct' /\ Pending' = Pending /\ Judge("skipped", 0)
          /\ transport' = transport /\ pc = "ready" /\ ~needsRestart
      BY <2>a, <2>b, <2>15, SamePending DEF Skip, serverVars, Sent
    <3>2. PICK r \in Result : results' = Append(results, r) /\ launches' = launches
                              /\ case' = case /\ pc' = "next"
      BY <2>a, <3>1, Judges, BoundsAssumption DEF Verdict, BoundsAssumption
    <3>3. ASSUME NEW c \in Pending'
          PROVE  Known'
      <4>1. c \in Case /\ c < case
        BY <3>1, PendingCases, <2>a DEF PendingInv, Stale, StaleAt
      <4>2. c <= Len(results)
        BY <2>b, <3>1, <4>1 DEF Sent, Case
      <4>3. Known
        BY <3>1, <4>2 DEF PendingInv, Stale, StaleAt
      <4>4. QED
        BY <2>a, <3>2, <4>3, KnownKept
    <3>4. QED
      BY <3>1, <3>2, <3>3, JudgedStep
  <2>16. CASE WriteCase
    <3>1. /\ pc \in Sent /\ transport /\ case \in Case /\ Len(results) = case - 1
          /\ pipe' = Append(pipe, case) /\ UNCHANGED <<inbox, out>>
      BY <2>b, <2>16 DEF WriteCase, Sent
    <3>2. case \notin Pending
      BY <3>1, <2>16 DEF WriteCase, PendingInv, Stale, StaleAt, Case
    <3>3. Distinct' /\ Pending' = Pending \cup {case}
      BY <2>a, <3>1, <3>2, WritePending
    <3>4. /\ case' = case /\ results' = results /\ needsRestart' = needsRestart
          /\ transport' = transport /\ (Known' <=> Known) /\ pc' \in {"drain", "await"}
      BY <2>16 DEF WriteCase, engineVars, countVars, Known
    <3>5. ASSUME NEW c \in Pending
          PROVE  StaleAt(c)'
      BY <3>4 DEF PendingInv, Stale, StaleAt
    <3>6. StaleAt(case)'
      BY <3>1, <3>4 DEF StaleAt, Case
    <3>7. QED
      BY <3>1, <3>3, <3>4, <3>5, <3>6 DEF PendingInv, Stale
  <2>17. CASE WriteFails
    <3>1. /\ Distinct' /\ Pending' = Pending /\ needsRestart'
          /\ transport' = transport /\ case' = case /\ pc' = "next"
      BY <2>a, <2>17, SamePending DEF WriteFails, JudgeDead, Judge, serverVars
    <3>2. transport
      BY <2>b, <2>17 DEF WriteFails, Sent
    <3>3. QED
      BY <3>1, <3>2, JudgedStep
  <2>18. CASE DrainReturns
    <3>1. Distinct' /\ Pending' = Pending
      BY <2>a, <2>18, SamePending DEF DrainReturns, serverVars
    <3>2. QED
      BY <2>18, <3>1, QuietStep DEF DrainReturns, serverVars, engineVars, countVars
  <2>19. CASE ReadNote
    <3>1. Distinct' /\ Pending' \subseteq Pending
      BY <2>a, <2>19, ReadPending DEF ReadNote
    <3>2. QED
      BY <2>19, <3>1, QuietStep DEF ReadNote, engineVars, countVars
  <2>20. CASE ReadJunk
    <3>1. /\ Distinct' /\ Pending' \subseteq Pending /\ Judge("protocol_error", 0)
          /\ transport' = transport
      BY <2>a, <2>20, ReadPending DEF ReadJunk
    <3>2. PICK r \in Result : /\ results' = Append(results, r) /\ launches' = launches
                              /\ case' = case /\ pc' = "next"
                              /\ r.verdict = "protocol_error" /\ r.launch = launches
      BY <2>a, <3>1, Judges, BoundsAssumption DEF Verdict, BoundsAssumption
    <3>3. Known'
      BY <2>a, <3>2, KnownKept
    <3>4. QED
      BY <3>1, <3>2, <3>3, JudgedStep
  <2>21. CASE ReadLong
    <3>1. /\ Distinct' /\ Pending' \subseteq Pending /\ needsRestart'
          /\ transport' = transport /\ case' = case /\ pc' = "next"
      BY <2>a, <2>21, ReadPending DEF ReadLong, JudgeDead, Judge
    <3>2. QED
      BY <3>1, JudgedStep
  <2>22. CASE ReadDeep
    BY <2>22, DroppedStep DEF ReadDeep, End
  <2>23. CASE ReadReply
    <3>1. PICK v \in {"protocol_error", "pass", "fail"} :
            /\ Judge(v, Head(out).of) /\ (v # "protocol_error" => Accepts(Head(out)))
      BY <2>23 DEF ReadReply
    <3>2. /\ Distinct' /\ Pending' \subseteq Pending
          /\ Head(out).of \in Pending \ Pending'
          /\ transport' = transport /\ pc \in Sent
      BY <2>a, <2>23, ReadPending DEF ReadReply, Read, Sent
    <3>3. Head(out).of \in Case
      BY <2>a, <3>2, PendingCases
    <3>4. PICK r \in Result : /\ results' = Append(results, r) /\ launches' = launches
                              /\ case' = case /\ pc' = "next"
                              /\ r.verdict = v /\ r.launch = launches
      BY <2>a, <3>1, <3>3, Judges DEF Verdict, Case
    <3>5. ASSUME NEW c \in Pending'
          PROVE  Known'
      <4>1. c \in Case /\ c # Head(out).of /\ c <= case /\ Head(out).of <= case
        BY <2>a, <3>2, PendingCases DEF PendingInv, Stale, StaleAt
      <4>2. c <= Len(results) \/ Head(out).of <= Len(results)
        BY <2>b, <3>2, <3>3, <4>1 DEF Case
      <4>3. Known
        BY <2>b, <3>2, <4>2 DEF PendingInv, Stale, StaleAt
      <4>4. QED
        BY <2>a, <3>4, <4>3, KnownKept
    <3>6. QED
      BY <3>2, <3>4, <3>5, JudgedStep
  <2>24. CASE ReadEof
    <3>1. /\ Distinct' /\ Pending' = Pending /\ needsRestart'
          /\ transport' = transport /\ case' = case /\ pc' = "next"
      BY <2>a, <2>24, SamePending DEF ReadEof, JudgeDead, Judge, serverVars
    <3>2. transport
      BY <2>b, <2>24 DEF ReadEof, Sent
    <3>3. QED
      BY <3>1, <3>2, JudgedStep
  <2>25. CASE Timeout
    BY <2>25, DroppedStep DEF Timeout
  <2>26. CASE UNCHANGED vars
    <3>1. Distinct' /\ Pending' = Pending
      BY <2>a, <2>26, SamePending DEF vars
    <3>2. QED
      BY <2>26, <3>1, QuietStep DEF vars
  <2>27. QED
    BY <2>1, <2>2, <2>3, <2>4, <2>5, <2>6, <2>7, <2>8, <2>9, <2>10,
       <2>11, <2>12, <2>13, <2>14, <2>15, <2>16, <2>17, <2>18, <2>19,
       <2>20, <2>21, <2>22, <2>23, <2>24, <2>25, <2>26
       DEF Next, Server, Engine
<1>3. QED
  BY <1>1, <1>2, TypeInductive, LoopInductive, PTL DEF Spec

-----------------------------------------------------------------------------
(* What the results say of stale replies.                                   *)

\* No step but a judgement touches the results.
LEMMA SameResults ==
  ASSUME StaleOnlyAfterProtocolError, results' = results
  PROVE  StaleOnlyAfterProtocolError'
BY DEF StaleOnlyAfterProtocolError

\* A judgement that rests on no reply, on the reply to its own case, or on one
\* to an earlier case of a server with a protocol error on record.
LEMMA NewResult ==
  ASSUME StaleOnlyAfterProtocolError, results \in Seq(Result), NEW r \in Result,
         results' = Append(results, r), case \in Nat, Len(results) = case - 1,
         \/ r.of \in {0, case}
         \/ r.of < case /\ Known /\ r.launch = launches
  PROVE  StaleOnlyAfterProtocolError'
<1> DEFINE n == Len(results)
<1>1. /\ n \in Nat /\ Len(results') = n + 1 /\ results'[n + 1] = r
      /\ \A j \in 1..n : results'[j] = results[j]
  OBVIOUS
<1>2. SUFFICES ASSUME NEW i \in 1..Len(results'), results'[i].of \notin {0, i}
               PROVE  /\ results'[i].of < i
                      /\ \E j \in 1..(i - 1) :
                           /\ results'[j].verdict = "protocol_error"
                           /\ results'[j].launch = results'[i].launch
  BY DEF StaleOnlyAfterProtocolError
<1> HIDE DEF n
<1>3. CASE i \in 1..n
  <2>1. /\ results[i] = results'[i] /\ results[i].of < i
        /\ \E j \in 1..(i - 1) : /\ results[j].verdict = "protocol_error"
                                 /\ results[j].launch = results[i].launch
    BY <1>1, <1>2, <1>3 DEF StaleOnlyAfterProtocolError, n
  <2>2. \A j \in 1..(i - 1) : results'[j] = results[j]
    BY <1>1, <1>3
  <2>3. QED
    BY <2>1, <2>2
<1>4. CASE i = n + 1
  <2>1. i = case /\ results'[i] = r /\ r.of \notin {0, i}
    BY <1>1, <1>2, <1>4 DEF n, Result
  <2>2. r.of < i /\ Known /\ r.launch = launches
    BY <2>1
  <2>3. PICK j \in 1..n :
          results[j].verdict = "protocol_error" /\ results[j].launch = launches
    BY <2>2 DEF Known, n
  <2>4. j \in 1..(i - 1) /\ results'[j] = results[j]
    BY <1>1, <1>4, <2>3
  <2>5. QED
    BY <2>1, <2>2, <2>3, <2>4
<1>5. QED
  BY <1>1, <1>3, <1>4

(* A verdict that rests on the reply to another case has a protocol error   *)
(* of the same server before it.                                            *)
THEOREM StaleCorrect == Spec => []StaleOnlyAfterProtocolError
<1>1. Init => StaleOnlyAfterProtocolError
  BY DEF Init, StaleOnlyAfterProtocolError
<1>2. /\ TypeOK /\ Started /\ Loop /\ EveryCaseOnce /\ PendingInv
      /\ StaleOnlyAfterProtocolError /\ [Next]_vars
      => StaleOnlyAfterProtocolError'
  <2> SUFFICES ASSUME TypeOK, Started, Loop, EveryCaseOnce, PendingInv,
                      StaleOnlyAfterProtocolError, [Next]_vars
               PROVE  StaleOnlyAfterProtocolError'
    OBVIOUS
  <2>a. Typed /\ Distinct /\ case \in 0..NumCases /\ results \in Seq(Result)
    BY DEF TypeOK, Typed, PendingInv
  <2>b. pc \in Sent => ~needsRestart /\ case \in Case /\ Len(results) = case - 1
    BY <2>a, BoundsAssumption DEF Loop, Started, EveryCaseOnce, Sent, Case, BoundsAssumption
  <2>1. ASSUME NEW v \in Verdict, Judge(v, 0), pc \in Sent
        PROVE  StaleOnlyAfterProtocolError'
    <3>1. PICK r \in Result : r.of = 0 /\ results' = Append(results, r)
      BY <2>1, Judges, BoundsAssumption DEF BoundsAssumption
    <3>2. QED
      BY <2>a, <2>b, <2>1, <3>1, NewResult
  <2>2. CASE ReadReply
    <3>1. PICK v \in {"protocol_error", "pass", "fail"} : Judge(v, Head(out).of)
      BY <2>2 DEF ReadReply
    <3>2. Head(out).of \in Pending /\ pc \in Sent
      BY <2>a, <2>2, ReadPending DEF ReadReply, Read, Sent
    <3>3. Head(out).of \in Case
      BY <2>a, <3>2, PendingCases
    <3>4. PICK r \in Result : /\ r.of = Head(out).of /\ r.launch = launches
                              /\ results' = Append(results, r)
      BY <3>1, <3>3, Judges DEF Verdict, Case
    <3>5. r.of <= case /\ (r.of <= Len(results) => Known)
      BY <2>b, <3>2, <3>4 DEF PendingInv, Stale, StaleAt
    <3>6. r.of = case \/ (r.of < case /\ Known)
      BY <2>b, <3>2, <3>3, <3>4, <3>5 DEF Case
    <3>7. QED
      BY <2>a, <2>b, <3>2, <3>4, <3>6, NewResult
  <2>3. CASE Skip \/ WriteFails \/ ReadJunk \/ ReadLong \/ ReadEof \/ Timeout
    <3>1. pc \in Sent /\ \E v \in Verdict : Judge(v, 0)
      BY <2>3 DEF Skip, WriteFails, ReadJunk, ReadLong, ReadEof, Timeout,
                  JudgeDead, Read, Sent, Verdict
    <3>2. QED
      BY <2>1, <3>1
  <2>4. CASE \/ Server \/ Reap
             \/ StillReady \/ Replace \/ BootstrapSucceeds \/ BootstrapFails
             \/ NoTools \/ BudgetExhausted
             \/ NextCase \/ WallClockExceeded \/ AllCasesDone
             \/ WriteCase \/ DrainReturns \/ ReadNote \/ ReadDeep
             \/ UNCHANGED vars
    <3>1. results' = results
      BY <2>4 DEF Server, ServerReads, ServerReplies, ServerNoise, ServerExits,
                  Reap, StillReady, Replace, BootstrapSucceeds, BootstrapFails,
                  NoTools, BudgetExhausted, NextCase, WallClockExceeded,
                  AllCasesDone, WriteCase, DrainReturns, ReadNote, ReadDeep,
                  engineVars, vars
    <3>2. QED
      BY <3>1, SameResults
  <2>5. QED
    BY <2>2, <2>3, <2>4 DEF Next, Engine
<1>3. QED
  BY <1>1, <1>2, TypeInductive, LoopInductive, PendingInductive, PTL DEF Spec

-----------------------------------------------------------------------------
(* What a result says of the case it judges.                                *)

\* A case that is skipped was never sent, and one that passes was sent and
\* its verdict rests on a reply.
Accurate(r, i) ==
  /\ r.verdict = "skipped" => r.of = 0 /\ mutations[i] = "big"
  /\ r.verdict = "pass" => r.of # 0 /\ mutations[i] # "big"

Honest ==
  /\ \A i \in 1..Len(results) : Accurate(results[i], i)
  /\ pc \in {"drain", "await"} => mutations[case] # "big"

\* The results stay accurate as long as no case is judged.
LEMMA SameHonest ==
  ASSUME Honest, results' = results, mutations' = mutations,
         pc' \in {"drain", "await"} => mutations[case'] # "big"
  PROVE  Honest'
BY DEF Honest, Accurate

\* An accurate result of the current case is added.
LEMMA JudgedHonest ==
  ASSUME Honest, TypeOK, NEW r \in Result, results' = Append(results, r),
         mutations' = mutations, pc' = "next", case \in Nat,
         Len(results) = case - 1, Accurate(r, case)
  PROVE  Honest'
<1>1. /\ results \in Seq(Result) /\ Len(results) \in Nat
      /\ Len(results') = case /\ results'[case] = r
      /\ \A i \in 1..Len(results) : results'[i] = results[i]
  BY DEF TypeOK
<1>2. ASSUME NEW i \in 1..Len(results')
      PROVE  Accurate(results'[i], i)
  <2>1. CASE i = case
    BY <1>1, <2>1 DEF Accurate
  <2>2. CASE i # case
    <3>1. i \in 1..Len(results)
      BY <1>1, <2>2
    <3>2. QED
      BY <1>1, <3>1 DEF Honest, Accurate
  <2>3. QED
    BY <2>1, <2>2
<1>3. QED
  BY <1>2 DEF Honest, Accurate

\* Only a case that is not too big to be sent awaits a reply, and every result
\* is accurate of the case it judges.
LEMMA HonestInductive == Spec => []Honest
<1>1. Init => Honest
  BY DEF Init, Honest
<1>2. /\ TypeOK /\ Started /\ Loop /\ EveryCaseOnce /\ PendingInv /\ Honest
      /\ [Next]_vars
      => Honest'
  <2> SUFFICES ASSUME TypeOK, Started, Loop, EveryCaseOnce, PendingInv, Honest,
                      [Next]_vars
               PROVE  Honest'
    OBVIOUS
  <2>a. Typed /\ Distinct /\ case \in 0..NumCases
    BY DEF TypeOK, Typed, PendingInv
  <2>b. pc \in Sent => case \in Case /\ case \in Nat /\ Len(results) = case - 1
    BY <2>a, BoundsAssumption DEF Started, EveryCaseOnce, Sent, Case, BoundsAssumption
  <2>1. ASSUME NEW v \in Verdict, NEW of \in 0..NumCases, Judge(v, of),
               pc \in Sent,
               v = "skipped" => of = 0 /\ mutations[case] = "big",
               v = "pass" => of # 0 /\ mutations[case] # "big"
        PROVE  Honest'
    <3>1. PICK r \in Result : /\ r.verdict = v /\ r.of = of /\ pc' = "next"
                              /\ results' = Append(results, r)
      BY <2>1, Judges
    <3>2. Accurate(r, case) /\ mutations' = mutations
      BY <2>1, <3>1 DEF Accurate, Judge
    <3>3. QED
      BY <2>b, <2>1, <3>1, <3>2, JudgedHonest
  <2>2. CASE Skip
    BY <2>1, <2>2, BoundsAssumption DEF Skip, Verdict, Sent, BoundsAssumption
  <2>3. CASE ReadReply
    <3>1. PICK v \in {"protocol_error", "pass", "fail"} : Judge(v, Head(out).of)
      BY <2>3 DEF ReadReply
    <3>2. Head(out).of \in Pending /\ pc = "await"
      BY <2>a, <2>3, ReadPending DEF ReadReply, Read
    <3>3. Head(out).of \in 0..NumCases /\ Head(out).of # 0
      BY <2>a, <3>2, PendingCases DEF Case
    <3>4. mutations[case] # "big"
      BY <3>2 DEF Honest
    <3>5. QED
      BY <2>1, <3>1, <3>2, <3>3, <3>4 DEF Verdict, Sent
  <2>4. CASE WriteFails \/ ReadJunk \/ ReadLong \/ ReadEof \/ Timeout
    <3>1. /\ pc \in Sent
          /\ \E v \in Verdict \ {"skipped", "pass"} : Judge(v, 0)
      BY <2>4 DEF WriteFails, ReadJunk, ReadLong, ReadEof, Timeout,
                  JudgeDead, Read, Sent, Verdict
    <3>2. 0 \in 0..NumCases
      BY BoundsAssumption DEF BoundsAssumption
    <3>3. QED
      BY <2>1, <3>1, <3>2
  <2>5. CASE WriteCase \/ DrainReturns \/ ReadNote
    <3>1. /\ results' = results /\ mutations' = mutations /\ case' = case
          /\ mutations[case] # "big"
      BY <2>5 DEF WriteCase, DrainReturns, ReadNote, Read, engineVars, Honest
    <3>2. QED
      BY <3>1, SameHonest
  <2>6. CASE \/ Server \/ Reap \/ UNCHANGED vars
    <3>1. /\ results' = results /\ mutations' = mutations /\ case' = case
          /\ pc' = pc
      BY <2>6 DEF Server, ServerReads, ServerReplies, ServerNoise, ServerExits,
                  Reap, engineVars, vars
    <3>2. QED
      BY <3>1, SameHonest DEF Honest
  <2>7. CASE \/ StillReady \/ Replace \/ BootstrapSucceeds \/ BootstrapFails
             \/ NoTools \/ BudgetExhausted
             \/ NextCase \/ WallClockExceeded \/ AllCasesDone \/ ReadDeep
    <3>1. /\ results' = results /\ mutations' = mutations
          /\ pc' \notin {"drain", "await"}
      BY <2>7 DEF StillReady, Replace, BootstrapSucceeds, BootstrapFails,
                  NoTools, BudgetExhausted, NextCase, WallClockExceeded,
                  AllCasesDone, ReadDeep, End, engineVars
    <3>2. QED
      BY <3>1, SameHonest
  <2>8. QED
    BY <2>2, <2>3, <2>4, <2>5, <2>6, <2>7 DEF Next, Engine
<1>3. QED
  BY <1>1, <1>2, TypeInductive, LoopInductive, PendingInductive, PTL DEF Spec

(* Exit code 0 of a finished run can be trusted: every case that was sent   *)
(* has passed, which without a protocol error can only be by its own reply. *)
THEOREM CleanCorrect == Spec => []CleanRunIsHonest
<1>1. /\ TypeOK /\ EveryCaseOnce /\ StaleOnlyAfterProtocolError /\ Honest
      => CleanRunIsHonest
  <2> SUFFICES ASSUME TypeOK, EveryCaseOnce, StaleOnlyAfterProtocolError, Honest,
                      outcome = "complete", ExitCode = 0, NEW i \in Case
               PROVE  results[i].of = IF mutations[i] = "big" THEN 0 ELSE i
    BY DEF CleanRunIsHonest
  <2>1. 1..Len(results) = Case
    BY DEF EveryCaseOnce, Case
  <2>2. \A j \in Case : results[j].verdict \in {"pass", "skipped"}
    BY <2>1 DEF ExitCode
  <2>3. Accurate(results[i], i)
    BY <2>1 DEF Honest
  <2>4. \A j \in 1..(i - 1) : results[j].verdict # "protocol_error"
    <3>1. \A j \in 1..(i - 1) : j \in Case
      BY BoundsAssumption DEF Case, BoundsAssumption
    <3>2. QED
      BY <2>2, <3>1
  <2>5. results[i].of \in {0, i}
    BY <2>1, <2>4 DEF StaleOnlyAfterProtocolError
  <2>6. QED
    BY <2>2, <2>3, <2>5 DEF Accurate
<1>2. QED
  BY <1>1, TypeInductive, LoopInductive, StaleCorrect, HonestInductive, PTL
=============================================================================
