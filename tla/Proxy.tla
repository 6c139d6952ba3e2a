------------------------------- MODULE Proxy -------------------------------
(***************************************************************************)
(* `mcp-vcr record` over stdio: the two message pumps, the interceptor, its *)
(* recorder tasks and the shutdown sequence of run_proxy_with_transport    *)
(* (transports/__init__.py), with StdioTransport (transports/stdio.py)      *)
(* below it and MessageInterceptor (interceptor.py) beside it.             *)
(*                                                                         *)
(* asyncio is cooperative: what runs between two suspension points is one  *)
(* atomic action here, and the actions of different tasks interleave       *)
(* freely.  The client, the server subprocess and the kernel are external. *)
(***************************************************************************)
EXTENDS Naturals, Sequences

CONSTANTS
  ClientKinds, \* the kinds of line the client may write
  ServerKinds, \* the kinds of line the server may write
  MaxC2S,      \* bound: lines the client writes
  MaxS2C,      \* bound: lines the server writes
  PipeCap,     \* lines the kernel pipe to the server's stdin holds
  HighWater,   \* lines asyncio buffers above the pipe before drain() suspends
  LowWater,    \* lines left in that buffer when a suspended drain() resumes
  MaxFaults    \* bound: recorder writes that raise

(***************************************************************************)
(* What a line is to the pump that reads it:                               *)
(*   rpc           JSON: observed, recorded and forwarded                  *)
(*   opaque        blank, "null" or a JSONDecodeError: forwarded only      *)
(*   unredactable  JSON whose redaction raises: observed, not recorded     *)
(*   poison        readline or json.loads raises something that is not a   *)
(*                 JSONDecodeError (over the limit, not UTF-8, too deep)   *)
(***************************************************************************)
AllKinds == {"rpc", "opaque", "unredactable", "poison"}

ASSUME KindsAssumption ==
  ClientKinds \subseteq AllKinds /\ ServerKinds \subseteq AllKinds
ASSUME BoundsAssumption ==
  /\ MaxC2S \in Nat /\ MaxS2C \in Nat /\ MaxFaults \in Nat
  /\ PipeCap \in Nat \ {0}
  /\ HighWater \in Nat /\ LowWater \in Nat /\ LowWater <= HighWater

LineNumber == 1..(MaxC2S + MaxS2C)
Line == [k : LineNumber, kind : AllKinds]
Index == Nat \ {0}
Direction == {"c2s", "s2c"}
Message == [dir : Direction, k : LineNumber, kind : AllKinds]

VARIABLES
  phase,      \* where run_proxy_with_transport is
  how,        \* which shutdown() it chose: "none", "eof" or "signal"
  sig,        \* shutdown_event is set
  c2s,        \* pump_c2s: "read", "drain" or "done"
  s2c,        \* pump_s2c: "read" or "done"
  stdin,      \* process.stdin: "open", "closing" or "lost"
  wbuf,       \* asyncio's buffer above the pipe to the server
  quick,      \* process.wait() was called with the exit status collected
  observed,   \* interceptor.observed_messages
  tasks,      \* interceptor._recorder_tasks that have not run: indices
  file,       \* records in the transcript: indices into observed
  lost,       \* indices whose redaction or write raised
  faults,     \* recorder writes that have raised
  clientIn,   \* the client's lines the proxy has not read
  clientSent, \* lines the client has written
  clientEof,  \* the client closed the proxy's stdin
  clientGone, \* the client closed its end of the proxy's stdout
  pipe,       \* the kernel pipe to the server's stdin
  toServer,   \* lines the server has read
  srv,        \* the server: "none", "up", "exited" or "reaped"
  srvOut,     \* the server's lines the proxy has not read
  srvSent,    \* lines the server has written
  signalled,  \* the server has been sent the signal
  toClient    \* lines written to the proxy's stdout

mainVars == <<phase, how, sig, quick>>
recorderVars == <<observed, tasks, file, lost, faults>>
clientVars == <<clientIn, clientSent, clientEof, clientGone>>
inVars == <<stdin, wbuf, pipe, toServer>>
outVars == <<srvOut, srvSent, toClient>>
vars == <<phase, how, sig, quick, c2s, s2c, observed, tasks, file, lost,
          faults, clientIn, clientSent, clientEof, clientGone, stdin, wbuf,
          pipe, toServer, srv, srvOut, srvSent, signalled, toClient>>

Init ==
  /\ phase = "starting" /\ how = "none" /\ sig = FALSE /\ quick = FALSE
  /\ c2s = "done" /\ s2c = "done"
  /\ observed = <<>> /\ tasks = <<>> /\ file = <<>> /\ lost = {} /\ faults = 0
  /\ clientIn = <<>> /\ clientSent = 0
  /\ clientEof = FALSE /\ clientGone = FALSE
  /\ stdin = "lost" /\ wbuf = <<>> /\ pipe = <<>> /\ toServer = <<>>
  /\ srv = "none" /\ signalled = FALSE
  /\ srvOut = <<>> /\ srvSent = 0 /\ toClient = <<>>

-----------------------------------------------------------------------------
(* The client, the server and the kernel: external.                        *)

ClientWrites(kind) ==
  /\ ~clientEof /\ clientSent < MaxC2S /\ phase # "closed"
  /\ clientSent' = clientSent + 1
  /\ clientIn' = Append(clientIn, [k |-> clientSent + 1, kind |-> kind])
  /\ UNCHANGED <<mainVars, c2s, s2c, recorderVars, clientEof, clientGone,
                 inVars, srv, signalled, outVars>>

ClientClosesInput ==
  /\ ~clientEof /\ phase # "closed"
  /\ clientEof' = TRUE
  /\ UNCHANGED <<mainVars, c2s, s2c, recorderVars, clientIn, clientSent,
                 clientGone, inVars, srv, signalled, outVars>>

ClientClosesOutput ==
  /\ ~clientGone /\ phase # "closed"
  /\ clientGone' = TRUE
  /\ UNCHANGED <<mainVars, c2s, s2c, recorderVars, clientIn, clientSent,
                 clientEof, inVars, srv, signalled, outVars>>

ServerReads ==
  /\ srv = "up" /\ pipe # <<>>
  /\ pipe' = Tail(pipe)
  /\ toServer' = Append(toServer, Head(pipe))
  /\ UNCHANGED <<mainVars, c2s, s2c, recorderVars, clientVars, stdin, wbuf,
                 srv, signalled, outVars>>

ServerWrites(kind) ==
  /\ srv = "up" /\ srvSent < MaxS2C
  /\ srvSent' = srvSent + 1
  /\ srvOut' = Append(srvOut, [k |-> srvSent + 1, kind |-> kind])
  /\ UNCHANGED <<mainVars, c2s, s2c, recorderVars, clientVars, inVars, srv,
                 signalled, toClient>>

\* The server exits: by itself, on end of input, on a signal, or by crashing.
ServerExits ==
  /\ srv = "up"
  /\ srv' = "exited"
  /\ UNCHANGED <<mainVars, c2s, s2c, recorderVars, clientVars, inVars,
                 signalled, outVars>>

\* asyncio's child watcher collects the exit status.
Reap ==
  /\ srv = "exited" /\ phase # "closed"
  /\ srv' = "reaped"
  /\ UNCHANGED <<mainVars, c2s, s2c, recorderVars, clientVars, inVars,
                 signalled, outVars>>

\* asyncio moves a buffered line into the pipe, which has room again.
FlushStdin ==
  /\ stdin # "lost" /\ srv = "up" /\ wbuf # <<>> /\ Len(pipe) < PipeCap
  /\ wbuf' = Tail(wbuf)
  /\ pipe' = Append(pipe, Head(wbuf))
  /\ UNCHANGED <<mainVars, c2s, s2c, recorderVars, clientVars, stdin,
                 toServer, srv, signalled, outVars>>

\* The pipe to the server is gone: closed with nothing left to write, or
\* broken because the server has exited.
LoseStdin ==
  /\ stdin # "lost"
  /\ (stdin = "closing" /\ wbuf = <<>>) \/ srv \in {"exited", "reaped"}
  /\ stdin' = "lost"
  /\ wbuf' = <<>>
  /\ UNCHANGED <<mainVars, c2s, s2c, recorderVars, clientVars, pipe,
                 toServer, srv, signalled, outVars>>

-----------------------------------------------------------------------------
(* The interceptor and the recorder.  A definition whose name begins with   *)
(* Bug is a plausible mistake in the one after it and no part of the model; *)
(* PROJECT.json names the property that finds it.                           *)

BugObserveIndex(dir, line) ==   \* the task is given an index from 0
  /\ observed' = IF line.kind = "rpc"
                 THEN Append(observed,
                             [dir |-> dir, k |-> line.k, kind |-> "rpc"])
                 ELSE observed
  /\ tasks' = IF line.kind = "rpc" THEN Append(tasks, Len(observed)) ELSE tasks
  /\ UNCHANGED <<file, lost, faults>>

\* interceptor.observe, when the line parses to a payload: the message is
\* stored, and its write task is created unless redaction raises first.
Observe(dir, line) ==
  LET n == Len(observed) + 1 IN
  /\ observed' = IF line.kind \in {"rpc", "unredactable"}
                 THEN Append(observed,
                             [dir |-> dir, k |-> line.k, kind |-> line.kind])
                 ELSE observed
  /\ tasks' = IF line.kind = "rpc" THEN Append(tasks, n) ELSE tasks
  /\ lost' = IF line.kind = "unredactable" THEN lost \cup {n} ELSE lost
  /\ UNCHANGED <<file, faults>>

BugNewestFirst ==   \* the youngest task runs first
  /\ tasks # <<>>
  /\ tasks' = SubSeq(tasks, 1, Len(tasks) - 1)
  /\ file' = Append(file, tasks[Len(tasks)])
  /\ UNCHANGED <<mainVars, c2s, s2c, observed, lost, faults, clientVars,
                 inVars, srv, signalled, outVars>>

\* The oldest write task runs: asyncio runs tasks in the order of creation.
RecorderWrite ==
  /\ tasks # <<>>
  /\ tasks' = Tail(tasks)
  /\ file' = Append(file, Head(tasks))
  /\ UNCHANGED <<mainVars, c2s, s2c, observed, lost, faults, clientVars,
                 inVars, srv, signalled, outVars>>

\* The write raises (the payload cannot be serialised); async_write logs it.
RecorderWriteFails ==
  /\ tasks # <<>> /\ faults < MaxFaults
  /\ tasks' = Tail(tasks)
  /\ lost' = lost \cup {Head(tasks)}
  /\ faults' = faults + 1
  /\ UNCHANGED <<mainVars, c2s, s2c, observed, file, clientVars, inVars, srv,
                 signalled, outVars>>

-----------------------------------------------------------------------------
(* pump_c2s: one line is read, observed and put in the transport's buffer   *)
(* without a suspension; drain() may suspend after that.                    *)

\* process.stdin.write: straight into the pipe if nothing is queued before
\* it; dropped once the pipe is closing or lost.
WriteToServer(line) ==
  LET direct == wbuf = <<>> /\ Len(pipe) < PipeCap /\ srv = "up" IN
  /\ pipe' = IF stdin = "open" /\ direct THEN Append(pipe, line) ELSE pipe
  /\ wbuf' = IF stdin = "open" /\ ~direct THEN Append(wbuf, line) ELSE wbuf
  /\ UNCHANGED <<stdin, toServer>>

C2SRunning == c2s = "read" /\ phase # "cancelC2S"

C2SForwards ==
  /\ C2SRunning /\ clientIn # <<>> /\ Head(clientIn).kind # "poison"
  /\ clientIn' = Tail(clientIn)
  /\ Observe("c2s", Head(clientIn))
  /\ WriteToServer(Head(clientIn))
  /\ c2s' = IF stdin = "lost" THEN "done"          \* ConnectionResetError
            ELSE IF Len(wbuf') > HighWater THEN "drain" ELSE "read"
  /\ UNCHANGED <<mainVars, s2c, clientSent, clientEof, clientGone, srv,
                 signalled, outVars>>

BugC2SContinues ==   \* the pump drops the line and goes on
  /\ C2SRunning /\ clientIn # <<>> /\ Head(clientIn).kind = "poison"
  /\ clientIn' = Tail(clientIn)
  /\ UNCHANGED <<mainVars, c2s, s2c, recorderVars, clientSent, clientEof,
                 clientGone, inVars, srv, signalled, outVars>>

C2SPoisoned ==
  /\ C2SRunning /\ clientIn # <<>> /\ Head(clientIn).kind = "poison"
  /\ clientIn' = Tail(clientIn)
  /\ c2s' = "done"
  /\ UNCHANGED <<mainVars, s2c, recorderVars, clientSent, clientEof,
                 clientGone, inVars, srv, signalled, outVars>>

C2SEndOfInput ==
  /\ C2SRunning /\ clientIn = <<>> /\ clientEof
  /\ c2s' = "done"
  /\ UNCHANGED <<mainVars, s2c, recorderVars, clientVars, inVars, srv,
                 signalled, outVars>>

\* drain() returns, or raises because the pipe was lost meanwhile.
C2SDrained ==
  /\ c2s = "drain"
  /\ stdin = "lost" \/ Len(wbuf) <= LowWater
  /\ c2s' = IF stdin = "lost" THEN "done" ELSE "read"
  /\ UNCHANGED <<mainVars, s2c, recorderVars, clientVars, inVars, srv,
                 signalled, outVars>>

-----------------------------------------------------------------------------
(* pump_s2c: one line is read, observed, written and flushed to the client  *)
(* without a suspension.  While the c2s task is being cancelled the         *)
(* transport has dropped its process, so the pump handles the line it was   *)
(* waiting for and ends.                                                    *)

S2CRunning ==
  /\ s2c = "read" /\ phase # "cancelS2C"
  /\ phase = "cancelC2S" => c2s # "done"

S2CForwards ==
  /\ S2CRunning /\ srvOut # <<>> /\ Head(srvOut).kind # "poison"
  /\ srvOut' = Tail(srvOut)
  /\ Observe("s2c", Head(srvOut))
  /\ toClient' = IF clientGone THEN toClient ELSE Append(toClient, Head(srvOut))
  /\ s2c' = IF clientGone \/ phase = "cancelC2S" THEN "done" ELSE "read"
  /\ UNCHANGED <<mainVars, c2s, clientVars, inVars, srv, srvSent, signalled>>

S2CPoisoned ==
  /\ S2CRunning /\ srvOut # <<>> /\ Head(srvOut).kind = "poison"
  /\ srvOut' = Tail(srvOut)
  /\ s2c' = "done"
  /\ UNCHANGED <<mainVars, c2s, recorderVars, clientVars, inVars, srv,
                 srvSent, signalled, toClient>>

S2CEndOfOutput ==
  /\ S2CRunning /\ srvOut = <<>> /\ srv \in {"exited", "reaped"}
  /\ s2c' = "done"
  /\ UNCHANGED <<mainVars, c2s, recorderVars, clientVars, inVars, srv,
                 signalled, outVars>>

-----------------------------------------------------------------------------
(* run_proxy_with_transport and StdioTransport.shutdown.                    *)

Start ==
  /\ phase = "starting"
  /\ phase' = "running" /\ c2s' = "read" /\ s2c' = "read"
  /\ srv' = "up" /\ stdin' = "open"
  /\ UNCHANGED <<how, sig, quick, recorderVars, clientVars, wbuf, pipe,
                 toServer, signalled, outVars>>

\* The subprocess cannot be launched: the exception reaches the command,
\* which closes the recorder.
StartFails ==
  /\ phase = "starting"
  /\ phase' = "closed"
  /\ UNCHANGED <<how, sig, quick, c2s, s2c, recorderVars, clientVars, inVars,
                 srv, signalled, outVars>>

\* SIGINT or SIGTERM reaches the proxy: handle_sig.
Signal ==
  /\ ~sig /\ phase \notin {"starting", "closed"}
  /\ sig' = TRUE
  /\ UNCHANGED <<phase, how, quick, c2s, s2c, recorderVars, clientVars, inVars,
                 srv, signalled, outVars>>

\* asyncio.wait returns; which shutdown() is called is decided here, once.
\* shutdown() first cancels the stderr task, which suspends.
Decide ==
  /\ phase = "running"
  /\ c2s = "done" \/ s2c = "done" \/ sig
  /\ how' = IF sig THEN "signal" ELSE "eof"
  /\ phase' = "stopping"
  /\ UNCHANGED <<sig, quick, c2s, s2c, recorderVars, clientVars, inVars, srv,
                 signalled, outVars>>

\* shutdown(None): process.stdin.close(), then wait_closed().
CloseStdin ==
  /\ phase = "stopping" /\ how = "eof"
  /\ phase' = "closing"
  /\ stdin' = IF stdin = "open" THEN "closing" ELSE stdin
  /\ UNCHANGED <<how, sig, quick, c2s, s2c, recorderVars, clientVars, wbuf,
                 pipe, toServer, srv, signalled, outVars>>

\* wait_closed() returns; process.wait() is called under a 10 s timeout.
StdinClosed ==
  /\ phase = "closing" /\ stdin = "lost"
  /\ phase' = "waiting"
  /\ quick' = (srv = "reaped")
  /\ UNCHANGED <<how, sig, c2s, s2c, recorderVars, clientVars, inVars, srv,
                 signalled, outVars>>

\* shutdown(sig): send_signal, then process.wait() under a 5 s timeout.
ForwardSignal ==
  /\ phase = "stopping" /\ how = "signal"
  /\ phase' = "waiting"
  /\ quick' = (srv = "reaped")
  /\ signalled' = (srv # "reaped")
  /\ UNCHANGED <<how, sig, c2s, s2c, recorderVars, clientVars, inVars, srv,
                 outVars>>

BugIgnoresPipes == quick \/ srv = "reaped"   \* the pipes are not waited for

\* process.wait() returns at once if the exit status was already collected
\* when it was called, otherwise when it is collected and every pipe of the
\* process is disconnected, which the s2c pump has then read to the end.
ProcessEnded ==
  quick \/ (srv = "reaped" /\ stdin = "lost" /\ (s2c = "done" \/ srvOut = <<>>))

BugTimeoutReturns ==   \* shutdown() gives up without killing the server
  /\ phase = "waiting" /\ ~ProcessEnded
  /\ phase' = "cancelC2S"
  /\ UNCHANGED <<how, sig, quick, c2s, s2c, recorderVars, clientVars, inVars,
                 srv, signalled, outVars>>

BugTimeoutIn(path) ==   \* only one of the two paths has a timeout
  /\ phase = "waiting" /\ ~ProcessEnded /\ how = path
  /\ phase' = "killed"
  /\ srv' = IF srv = "up" THEN "exited" ELSE srv
  /\ quick' = (srv = "reaped")
  /\ UNCHANGED <<how, sig, c2s, s2c, recorderVars, clientVars, inVars,
                 signalled, outVars>>

BugNoTimeoutOnSignal == BugTimeoutIn("eof")

BugNoTimeoutOnEof == BugTimeoutIn("signal")

\* wait_for gives up: the server is killed and waited for again.
TimeoutKills ==
  /\ phase = "waiting" /\ ~ProcessEnded
  /\ phase' = "killed"
  /\ srv' = IF srv = "up" THEN "exited" ELSE srv
  /\ quick' = (srv = "reaped")
  /\ UNCHANGED <<how, sig, c2s, s2c, recorderVars, clientVars, inVars,
                 signalled, outVars>>

\* shutdown() returns and its caller asks the c2s task to cancel.
ShutdownReturns ==
  /\ phase \in {"waiting", "killed"} /\ ProcessEnded
  /\ phase' = "cancelC2S"
  /\ UNCHANGED <<how, sig, quick, c2s, s2c, recorderVars, clientVars, inVars,
                 srv, signalled, outVars>>

CancelC2S ==
  /\ phase = "cancelC2S"
  /\ c2s' = "done" /\ phase' = "cancelS2C"
  /\ UNCHANGED <<how, sig, quick, s2c, recorderVars, clientVars, inVars, srv,
                 signalled, outVars>>

CancelS2C ==
  /\ phase = "cancelS2C"
  /\ s2c' = "done" /\ phase' = "flushing"
  /\ UNCHANGED <<how, sig, quick, c2s, recorderVars, clientVars, inVars, srv,
                 signalled, outVars>>

BugClosesUnflushed ==   \* the tasks are not gathered
  /\ phase = "flushing"
  /\ phase' = "closed"
  /\ UNCHANGED <<how, sig, quick, c2s, s2c, recorderVars, clientVars, inVars,
                 srv, signalled, outVars>>

\* interceptor.flush has gathered every task; the command closes the recorder.
FlushAndClose ==
  /\ phase = "flushing" /\ tasks = <<>>
  /\ phase' = "closed"
  /\ UNCHANGED <<how, sig, quick, c2s, s2c, recorderVars, clientVars, inVars,
                 srv, signalled, outVars>>

-----------------------------------------------------------------------------
Client ==
  \/ \E kind \in ClientKinds : ClientWrites(kind)
  \/ ClientClosesInput
  \/ ClientClosesOutput

Server ==
  \/ ServerReads
  \/ \E kind \in ServerKinds : ServerWrites(kind)
  \/ ServerExits

C2SPump == C2SForwards \/ C2SPoisoned \/ C2SEndOfInput \/ C2SDrained

S2CPump == S2CForwards \/ S2CPoisoned \/ S2CEndOfOutput

Recorder == RecorderWrite \/ RecorderWriteFails

Main ==
  \/ Start \/ StartFails \/ Decide \/ CloseStdin \/ StdinClosed \/ ForwardSignal
  \/ TimeoutKills \/ ShutdownReturns \/ CancelC2S \/ CancelS2C \/ FlushAndClose

Next ==
  \/ Client \/ Server \/ Reap \/ FlushStdin \/ LoseStdin
  \/ C2SPump \/ S2CPump \/ Recorder \/ Signal \/ Main

Spec == Init /\ [][Next]_vars

(* The event loop runs every ready task and callback, and the kernel moves  *)
(* bytes and reports exits.  Nothing is assumed of the client or the server.*)
Fairness ==
  /\ WF_vars(C2SPump) /\ WF_vars(S2CPump) /\ WF_vars(Recorder) /\ WF_vars(Main)
  /\ WF_vars(Reap) /\ WF_vars(FlushStdin) /\ WF_vars(LoseStdin)

FairSpec == Spec /\ Fairness

-----------------------------------------------------------------------------
Increasing(s) == \A i, j \in 1..Len(s) : i < j => s[i] < s[j]
Records(s) == {s[i] : i \in 1..Len(s)}

(* Every variable has its type, and the pumps are over once they have been  *)
(* cancelled.                                                               *)
TypeOK ==
  /\ phase \in {"starting", "running", "stopping", "closing", "waiting",
                "killed", "cancelC2S", "cancelS2C", "flushing", "closed"}
  /\ how \in {"none", "eof", "signal"}
  /\ sig \in BOOLEAN /\ quick \in BOOLEAN /\ signalled \in BOOLEAN
  /\ c2s \in {"read", "drain", "done"} /\ s2c \in {"read", "done"}
  /\ stdin \in {"open", "closing", "lost"}
  /\ srv \in {"none", "up", "exited", "reaped"}
  /\ wbuf \in Seq(Line) /\ pipe \in Seq(Line) /\ toServer \in Seq(Line)
  /\ clientIn \in Seq(Line) /\ srvOut \in Seq(Line) /\ toClient \in Seq(Line)
  /\ observed \in Seq(Message)
  /\ tasks \in Seq(Index) /\ file \in Seq(Index) /\ lost \subseteq Index
  /\ faults \in 0..MaxFaults
  /\ clientSent \in 0..MaxC2S /\ srvSent \in 0..MaxS2C
  /\ clientEof \in BOOLEAN /\ clientGone \in BOOLEAN

(* The proxy is transparent: what the server has read, what is on its way   *)
(* to it, and what the client has been sent are the first lines the other   *)
(* side wrote, in its order, with no line missing, repeated or overtaken.   *)
(* A pump that survived a line it could not handle would leave a gap.       *)
Transparent ==
  LET inTransit == toServer \o pipe \o wbuf IN
  /\ \A i \in 1..Len(toClient) : toClient[i].k = i
  /\ \A i \in 1..Len(toServer \o pipe) : (toServer \o pipe)[i].k = i
  /\ \A i \in 1..Len(inTransit) : inTransit[i].k = i

(* When the recorder is closed, every JSON line that reached the client or  *)
(* entered the server's pipe is a record of the transcript, unless its      *)
(* write raised: cancelling the pumps and flushing leave nothing behind.    *)
ForwardedIsRecorded ==
  phase = "closed" =>
    \A d \in Direction :
      LET out == IF d = "s2c" THEN toClient ELSE toServer \o pipe IN
      \A i \in 1..Len(out) :
        out[i].kind = "rpc" =>
          \E n \in Records(file) \cup lost :
            observed[n] = [dir |-> d, k |-> out[i].k, kind |-> "rpc"]

(* The transcript shows the client nothing it did not get: an observed      *)
(* message of the server was written to the client, unless the client had   *)
(* closed its end; one of the client is on its way to the server, unless    *)
(* the server's stdin was being closed or was lost.                         *)
RecordedWasForwarded ==
  \A n \in 1..Len(observed) :
    LET m == observed[n]
        sent == IF m.dir = "s2c" THEN toClient ELSE toServer \o pipe \o wbuf IN
    \/ [k |-> m.k, kind |-> m.kind] \in {sent[i] : i \in 1..Len(sent)}
    \/ (m.dir = "s2c" /\ clientGone)
    \/ (m.dir = "c2s" /\ stdin # "open")

(* The transcript agrees with the streams, in both directions.              *)
TranscriptAgrees == ForwardedIsRecorded /\ RecordedWasForwarded

(* The proxy never outlives its server the wrong way round: once shutdown() *)
(* has returned, the server it launched is dead and its status collected,   *)
(* whichever of end of input, signal and timeouts led there.                *)
NoOrphanServer ==
  phase \in {"cancelC2S", "cancelS2C", "flushing", "closed"} /\ how # "none" =>
    srv = "reaped"

(* Nothing the server wrote before it exited is dropped by the shutdown     *)
(* sequence, unless the s2c pump had failed (the client had gone, or a line *)
(* was poison) or process.wait() found the exit status already collected.   *)
ExitDeliversAll ==
  \/ phase # "closed" \/ quick \/ clientGone \/ how = "none"
  \/ srvOut = <<>>
  \/ Len(toClient) + 1 + Len(srvOut) = srvSent   \* one line was poison

(* How the recorder's queue of tasks keeps that promise, step by step: the   *)
(* records and then the pending tasks are in the order of observation, and  *)
(* every observed message is a record, pending or lost, never two of these. *)
OrderedRecords ==
  /\ Increasing(file) /\ Increasing(tasks)
  /\ \A a \in Records(file), b \in Records(tasks) : a < b
  /\ lost \cup Records(tasks) \cup Records(file) = 1..Len(observed)
  /\ lost \cap (Records(tasks) \cup Records(file)) = {}

(* When the recorder closes no task is left, nor a pump to create one.      *)
PumpsOver ==
  /\ phase \in {"starting", "closed"} => tasks = <<>>
  /\ phase \in {"starting", "cancelS2C", "flushing", "closed"} => c2s = "done"
  /\ phase \in {"starting", "flushing", "closed"} => s2c = "done"

RecordingInv == OrderedRecords /\ PumpsOver

(* The transcript is a journal of what the interceptor observed: in order,  *)
(* nothing twice, and sealed only when every message is stored or lost.     *)
J == INSTANCE Journal WITH Message <- Message, stored <- file,
                           sealed <- (phase = "closed")
ImplementsJournal == J!Spec

(* A signal that arrives before the proxy has begun to shut down stops it,  *)
(* whatever the server and the client do.                                   *)
SignalStops == (sig /\ how = "none") ~> (phase = "closed")

(* The client closing its stream, or the server exiting, stops a running    *)
(* proxy, as long as a server that is up reads its stdin: the lines already *)
(* accepted drain first.                                                    *)
EndOfStreamStops ==
  WF_vars(ServerReads) =>
    (phase = "running" /\ (clientEof \/ srv # "up")) ~> (phase = "closed")
=============================================================================
