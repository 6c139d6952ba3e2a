------------------------------ MODULE SseProxy ------------------------------
(***************************************************************************)
(* `mcp-vcr record --transport sse`: SseTransport (transports/sse.py) under *)
(* the pumps of run_proxy_with_transport (transports/__init__.py).  Lines   *)
(* of the client are POSTed; the server's messages come over an event       *)
(* stream, through a task that parses it into a bounded queue.  The HTTP    *)
(* server, the client and the network are external.                         *)
(*                                                                         *)
(* The recorder behind the interceptor is modelled in Proxy and             *)
(* TranscriptFile; here a message is recorded when it is observed.  Which   *)
(* URL a POST goes to is not modelled.                                      *)
(***************************************************************************)
EXTENDS Naturals, Sequences

CONSTANTS
  LineKinds,   \* client lines: "rpc", "batch" (JSON, no object), "malformed"
  EventKinds,  \* events: "message", "null" and "other" (no message: an
               \* endpoint, a comment, an oversized or malformed payload)
  MaxC2S,      \* bound: lines the client writes
  MaxS2C,      \* bound: messages the server sends
  MaxOther,    \* bound: other events the server sends
  QueueMax     \* asyncio.Queue(maxsize), 1000 in the code

ASSUME KindsAssumption ==
  /\ LineKinds \subseteq {"rpc", "batch", "malformed"}
  /\ EventKinds \subseteq {"message", "null", "other"}
ASSUME BoundsAssumption ==
  MaxC2S \in Nat /\ MaxS2C \in Nat /\ MaxOther \in Nat /\ QueueMax \in Nat \ {0}

Line == [k : 1..MaxC2S, kind : LineKinds]
\* m numbers the messages; re is the client's line a message answers, or 0.
Event == [kind : EventKinds \cup {"null"}, m : 0..MaxS2C, re : 0..MaxC2S]
Sentinel == [kind |-> "null", m |-> 0, re |-> 0]   \* None, in the queue
Message == [dir : {"c2s", "s2c"}, k : Nat, re : 0..MaxC2S]

VARIABLES
  phase,      \* "starting", "running", "stopReader", "closeSession",
              \* "cancelC2S", "cancelS2C" or "closed"
  sig,        \* shutdown_event is set
  session,    \* self.session is open
  c2s,        \* pump_c2s: "read", "post" or "done"
  s2c,        \* pump_s2c: "read" or "done"
  reader,     \* _read_task: "connect", "stream", "put", "end" or "done"
  held,       \* what a suspended queue.put is waiting with
  queue,      \* _server_queue
  observed,   \* interceptor.observed_messages
  posting,    \* the line whose POST has not reached the server, or none
  received,   \* lines whose POST the server has received
  toClient,   \* messages written to the client
  clientIn, clientSent, clientEof, clientGone,  \* the client, as in Proxy
  stream,     \* events sent and not read
  streamOver, \* the server or the network ended the stream
  sent,       \* messages sent by the server
  others,     \* other events sent by the server
  raised      \* history: an exception ended the reader in mid-stream

mainVars == <<phase, sig, session>>
c2sVars == <<c2s, posting, received>>
s2cVars == <<s2c, toClient>>
readerVars == <<reader, held, queue>>
clientVars == <<clientIn, clientSent, clientEof, clientGone>>
streamVars == <<stream, streamOver, sent, others, raised>>
vars == <<phase, sig, session, c2s, s2c, reader, held, queue, observed,
          posting, received, toClient, clientIn, clientSent, clientEof,
          clientGone, stream, streamOver, sent, others, raised>>

Init ==
  /\ phase = "starting" /\ sig = FALSE /\ session = TRUE
  /\ c2s = "done" /\ s2c = "done"
  /\ reader = "connect" /\ held = Sentinel /\ queue = <<>>
  /\ observed = <<>> /\ posting = {} /\ received = {} /\ toClient = <<>>
  /\ clientIn = <<>> /\ clientSent = 0
  /\ clientEof = FALSE /\ clientGone = FALSE
  /\ stream = <<>> /\ streamOver = FALSE /\ sent = 0 /\ others = 0
  /\ raised = FALSE

-----------------------------------------------------------------------------
(* The client, the server and the network: external.                       *)

ClientWrites(kind) ==
  /\ ~clientEof /\ clientSent < MaxC2S /\ phase # "closed"
  /\ clientSent' = clientSent + 1
  /\ clientIn' = Append(clientIn, [k |-> clientSent + 1, kind |-> kind])
  /\ UNCHANGED <<mainVars, c2sVars, s2cVars, readerVars, observed, clientEof,
                 clientGone, streamVars>>

ClientClosesInput ==
  /\ ~clientEof /\ phase # "closed"
  /\ clientEof' = TRUE
  /\ UNCHANGED <<mainVars, c2sVars, s2cVars, readerVars, observed, clientIn,
                 clientSent, clientGone, streamVars>>

ClientClosesOutput ==
  /\ ~clientGone /\ phase # "closed"
  /\ clientGone' = TRUE
  /\ UNCHANGED <<mainVars, c2sVars, s2cVars, readerVars, observed, clientIn,
                 clientSent, clientEof, streamVars>>

StreamOpen == ~streamOver /\ reader \in {"stream", "put"} /\ phase # "closed"

\* A message that answers a POST the server has received, or (re = 0) none.
ServerSends(re) ==
  /\ "message" \in EventKinds
  /\ StreamOpen /\ sent < MaxS2C
  /\ re \in received \cup {0}
  /\ sent' = sent + 1
  /\ stream' = Append(stream, [kind |-> "message", m |-> sent + 1, re |-> re])
  /\ UNCHANGED <<mainVars, c2sVars, s2cVars, readerVars, observed, clientVars,
                 streamOver, others, raised>>

ServerSendsOther(kind) ==
  /\ kind # "message"
  /\ StreamOpen /\ others < MaxOther
  /\ others' = others + 1
  /\ stream' = Append(stream, [kind |-> kind, m |-> 0, re |-> 0])
  /\ UNCHANGED <<mainVars, c2sVars, s2cVars, readerVars, observed, clientVars,
                 streamOver, sent, raised>>

StreamEnds ==
  /\ ~streamOver /\ phase # "closed"
  /\ streamOver' = TRUE
  /\ UNCHANGED <<mainVars, c2sVars, s2cVars, readerVars, observed, clientVars,
                 stream, sent, others, raised>>

-----------------------------------------------------------------------------
(* _read_sse_stream; once shutdown() has cancelled it, it does nothing else.*)
(* A definition whose name begins with Bug is a plausible mistake in the    *)
(* one after it and no part of the model; PROJECT.json names the property   *)
(* that finds it.                                                           *)

Reading(where) == reader = where /\ phase # "stopReader"
Full == Len(queue) >= QueueMax

Connected ==
  /\ Reading("connect") /\ ~streamOver
  /\ reader' = "stream"
  /\ UNCHANGED <<mainVars, c2sVars, s2cVars, held, queue, observed, clientVars,
                 streamVars>>

\* A status other than 200 puts a sentinel of its own; an exception does not.
ConnectionFails ==
  /\ Reading("connect")
  /\ reader' = "end"
  /\ queue' \in {queue, Append(queue, Sentinel)}
  /\ UNCHANGED <<mainVars, c2sVars, s2cVars, held, observed, clientVars,
                 streamVars>>

\* A message, or a JSON null (None), goes into the queue or waits for room.
ReadMessage ==
  /\ Reading("stream") /\ stream # <<>>
  /\ Head(stream).kind \in {"message", "null"}
  /\ stream' = Tail(stream)
  /\ IF Full
     THEN held' = Head(stream) /\ reader' = "put" /\ UNCHANGED queue
     ELSE queue' = Append(queue, Head(stream)) /\ UNCHANGED <<held, reader>>
  /\ UNCHANGED <<mainVars, c2sVars, s2cVars, observed, clientVars, streamOver,
                 sent, others, raised>>

PutHeld ==
  /\ Reading("put") /\ ~Full
  /\ queue' = Append(queue, held)
  /\ held' = Sentinel /\ reader' = "stream"
  /\ UNCHANGED <<mainVars, c2sVars, s2cVars, observed, clientVars, streamVars>>

ReadOther ==
  /\ Reading("stream") /\ stream # <<>> /\ Head(stream).kind = "other"
  /\ stream' = Tail(stream)
  /\ UNCHANGED <<mainVars, c2sVars, s2cVars, readerVars, observed, clientVars,
                 streamOver, sent, others, raised>>

\* The loop over the stream ends, all of it read.
ReadEnd ==
  /\ Reading("stream") /\ stream = <<>> /\ streamOver
  /\ reader' = "end"
  /\ UNCHANGED <<mainVars, c2sVars, s2cVars, held, queue, observed, clientVars,
                 streamVars>>

\* Or an exception ends it: a line that is too long or no UTF-8, an endpoint
\* that is no URL, an error of the network, the session's time limit.  What is
\* not read by then is lost.
ReadRaises ==
  /\ Reading("stream")
  /\ reader' = "end" /\ raised' = TRUE
  /\ UNCHANGED <<mainVars, c2sVars, s2cVars, held, queue, observed, clientVars,
                 stream, streamOver, sent, others>>

BugSentinelDisplaces ==   \* the sentinel takes a message's place
  /\ Reading("end")
  /\ queue' = Append(IF Full THEN Tail(queue) ELSE queue, Sentinel)
  /\ reader' = "done"
  /\ UNCHANGED <<mainVars, c2sVars, s2cVars, held, observed, clientVars,
                 streamVars>>

BugSentinelDropped ==   \* put_nowait, and QueueFull is swallowed
  /\ Reading("end")
  /\ queue' = IF Full THEN queue ELSE Append(queue, Sentinel)
  /\ reader' = "done"
  /\ UNCHANGED <<mainVars, c2sVars, s2cVars, held, observed, clientVars,
                 streamVars>>

\* finally, while running: await queue.put(None).
PutSentinel ==
  /\ Reading("end") /\ ~Full
  /\ queue' = Append(queue, Sentinel)
  /\ reader' = "done"
  /\ UNCHANGED <<mainVars, c2sVars, s2cVars, held, observed, clientVars,
                 streamVars>>

-----------------------------------------------------------------------------
(* pump_c2s with write_to_server: the line is observed, then POSTed.        *)

Observe(dir, k, re) ==
  observed' = Append(observed, [dir |-> dir, k |-> k, re |-> re])

BugPostUnobserved ==   \* the line is POSTed first, and observed never
  LET line == Head(clientIn)
      posts == line.kind = "rpc" /\ session IN
  /\ c2s = "read" /\ clientIn # <<>>
  /\ clientIn' = Tail(clientIn)
  /\ posting' = IF posts THEN {line.k} ELSE {}
  /\ c2s' = IF posts THEN "post" ELSE "done"
  /\ UNCHANGED <<mainVars, received, s2cVars, readerVars, observed, clientSent,
                 clientEof, clientGone, streamVars>>

\* An object is POSTed, as long as the session is open.  Anything else raises
\* in write_to_server and ends the pump; JSON has been observed by then.
C2SReads ==
  LET line == Head(clientIn)
      posts == line.kind = "rpc" /\ session IN
  /\ c2s = "read" /\ clientIn # <<>>
  /\ clientIn' = Tail(clientIn)
  /\ IF line.kind = "malformed" THEN UNCHANGED observed
                                ELSE Observe("c2s", line.k, 0)
  /\ posting' = IF posts THEN {line.k} ELSE {}
  /\ c2s' = IF posts THEN "post" ELSE "done"
  /\ UNCHANGED <<mainVars, received, s2cVars, readerVars, clientSent,
                 clientEof, clientGone, streamVars>>

C2SEndOfInput ==
  /\ c2s = "read" /\ clientIn = <<>> /\ clientEof
  /\ c2s' = "done"
  /\ UNCHANGED <<mainVars, posting, received, s2cVars, readerVars, observed,
                 clientVars, streamVars>>

\* The request reaches the server: external.
PostArrives ==
  /\ posting # {} /\ session
  /\ received' = received \cup posting
  /\ posting' = {}
  /\ UNCHANGED <<mainVars, c2s, s2cVars, readerVars, observed, clientVars,
                 streamVars>>

PostAccepted ==
  /\ c2s = "post" /\ posting = {}
  /\ c2s' = "read"
  /\ UNCHANGED <<mainVars, posting, received, s2cVars, readerVars, observed,
                 clientVars, streamVars>>

BugPostErrorIgnored ==   \* the pump goes on after a POST that failed
  /\ c2s = "post"
  /\ c2s' = "read" /\ posting' = {}
  /\ UNCHANGED <<mainVars, received, s2cVars, readerVars, observed, clientVars,
                 streamVars>>

\* An unexpected status, a network error or the 5 s timeout: it raises.
PostFails ==
  /\ c2s = "post"
  /\ c2s' = "done" /\ posting' = {}
  /\ UNCHANGED <<mainVars, received, s2cVars, readerVars, observed, clientVars,
                 streamVars>>

-----------------------------------------------------------------------------
(* pump_s2c with read_server_message: None ends the pump, and so does the   *)
(* next read once shutdown() has begun.                                     *)

S2CForwards ==
  /\ s2c = "read" /\ phase # "cancelS2C"
  /\ queue # <<>> /\ Head(queue).kind = "message"
  /\ queue' = Tail(queue)
  /\ Observe("s2c", Head(queue).m, Head(queue).re)
  /\ toClient' = IF clientGone THEN toClient
                 ELSE Append(toClient, Head(queue).m)
  /\ s2c' = IF clientGone \/ phase # "running" THEN "done" ELSE "read"
  /\ UNCHANGED <<mainVars, c2sVars, reader, held, clientVars, streamVars>>

S2CSentinel ==
  /\ s2c = "read" /\ phase # "cancelS2C"
  /\ queue # <<>> /\ Head(queue).kind = "null"
  /\ queue' = Tail(queue)
  /\ s2c' = "done"
  /\ UNCHANGED <<mainVars, c2sVars, toClient, reader, held, observed,
                 clientVars, streamVars>>

-----------------------------------------------------------------------------
(* run_proxy_with_transport, start() and shutdown().                        *)

\* start() waits for the endpoint at most 5 s, and returns in either case.
Start ==
  /\ phase = "starting"
  /\ phase' = "running" /\ c2s' = "read" /\ s2c' = "read"
  /\ UNCHANGED <<sig, session, posting, received, toClient, readerVars,
                 observed, clientVars, streamVars>>

Signal ==
  /\ ~sig /\ phase \notin {"starting", "closed"}
  /\ sig' = TRUE
  /\ UNCHANGED <<phase, session, c2sVars, s2cVars, readerVars, observed,
                 clientVars, streamVars>>

\* shutdown() is called: not running any more, the read task is cancelled.
Decide ==
  /\ phase = "running"
  /\ c2s = "done" \/ s2c = "done" \/ sig
  /\ phase' = IF reader = "done" THEN "closeSession" ELSE "stopReader"
  /\ UNCHANGED <<sig, session, c2sVars, s2cVars, readerVars, observed,
                 clientVars, streamVars>>

\* The read task ends: a sentinel without waiting, in place of the oldest
\* entry if the queue is full.  A pump with something to read was woken before
\* the task was cancelled, and the loop runs it first.
StopReader ==
  /\ phase = "stopReader"
  /\ s2c = "read" => queue = <<>>
  /\ phase' = "closeSession"
  /\ queue' = Append(IF Full THEN Tail(queue) ELSE queue, Sentinel)
  /\ reader' = "done" /\ held' = Sentinel
  /\ UNCHANGED <<sig, session, c2sVars, s2cVars, observed, clientVars,
                 streamVars>>

\* The await of session.close() may go on after the session is closed.
CloseSession ==
  /\ phase = "closeSession"
  /\ phase' = "cancelC2S"
  /\ session' = FALSE
  /\ UNCHANGED <<sig, c2sVars, s2cVars, readerVars, observed, clientVars,
                 streamVars>>

CancelC2S ==
  /\ phase = "cancelC2S"
  /\ phase' = "cancelS2C"
  /\ c2s' = "done" /\ posting' = {}
  /\ UNCHANGED <<sig, session, received, s2cVars, readerVars, observed,
                 clientVars, streamVars>>

\* Then the interceptor is flushed, as in Proxy.
CancelS2C ==
  /\ phase = "cancelS2C"
  /\ phase' = "closed"
  /\ s2c' = "done"
  /\ UNCHANGED <<sig, session, c2sVars, toClient, readerVars, observed,
                 clientVars, streamVars>>

-----------------------------------------------------------------------------
Client ==
  \/ \E kind \in LineKinds : ClientWrites(kind)
  \/ ClientClosesInput
  \/ ClientClosesOutput

Server ==
  \/ \E re \in 0..MaxC2S : ServerSends(re)
  \/ \E kind \in EventKinds : ServerSendsOther(kind)
  \/ StreamEnds
  \/ PostArrives

Reader ==
  \/ Connected \/ ConnectionFails \/ ReadMessage \/ PutHeld \/ ReadOther
  \/ ReadEnd \/ PutSentinel

C2SPump == C2SReads \/ C2SEndOfInput \/ PostAccepted \/ PostFails

S2CPump == S2CForwards \/ S2CSentinel

Main ==
  Start \/ Decide \/ StopReader \/ CloseSession \/ CancelC2S \/ CancelS2C

Next ==
  Client \/ Server \/ Reader \/ ReadRaises \/ C2SPump \/ S2CPump \/ Signal \/ Main

Spec == Init /\ [][Next]_vars

(* The event loop runs ready tasks; the time limits of a POST and of the    *)
(* connection end them one way or the other.  A stream need never fail.     *)
Fairness ==
  WF_vars(Reader) /\ WF_vars(C2SPump) /\ WF_vars(S2CPump) /\ WF_vars(Main)

FairSpec == Spec /\ Fairness

-----------------------------------------------------------------------------
(* Every variable has its type, and the queue never exceeds its limit.      *)
TypeOK ==
  /\ phase \in {"starting", "running", "stopReader", "closeSession",
                "cancelC2S", "cancelS2C", "closed"}
  /\ sig \in BOOLEAN /\ session \in BOOLEAN
  /\ c2s \in {"read", "post", "done"} /\ s2c \in {"read", "done"}
  /\ reader \in {"connect", "stream", "put", "end", "done"}
  /\ held \in Event
  /\ queue \in Seq(Event) /\ Len(queue) <= QueueMax
  /\ observed \in Seq(Message)
  /\ posting \subseteq 1..MaxC2S /\ received \subseteq 1..MaxC2S
  /\ toClient \in Seq(1..MaxS2C)
  /\ clientIn \in Seq(Line) /\ clientSent \in 0..MaxC2S
  /\ clientEof \in BOOLEAN /\ clientGone \in BOOLEAN
  /\ stream \in Seq(Event) /\ streamOver \in BOOLEAN
  /\ sent \in 0..MaxS2C /\ others \in 0..MaxOther /\ raised \in BOOLEAN

(* The client gets the server's messages in order, none missing between two *)
(* and none twice, through the stream, the bounded queue and the pump, also *)
(* when shutdown displaces the oldest entry of a full queue.                *)
InOrder == \A i \in 1..Len(toClient) : toClient[i] = i

\* The messages the server has sent and the reader has not read.
Unread == {stream[i].m : i \in {j \in DOMAIN stream : stream[j].kind = "message"}}

(* If the s2c pump of a running session has ended, every message the reader *)
(* took from the stream has reached the client: the sentinel waits its turn *)
(* behind the messages of a full queue.  The others are still unread, and   *)
(* there are such only if an exception ended the reader in mid-stream; else *)
(* the client has got all that the server sent.                             *)
EndMeansAllDelivered ==
  phase = "running" /\ s2c = "done" /\ ~clientGone =>
    /\ \A m \in 1..sent : m <= Len(toClient) \/ m \in Unread
    /\ ~raised => Len(toClient) = sent

(* Order and completeness of what the client gets.                          *)
DeliveredInOrder == InOrder /\ EndMeansAllDelivered

(* A transcript never shows an answer before its request, although both     *)
(* pumps and the stream run concurrently.                                   *)
AnswerAfterRequest ==
  \A j \in 1..Len(observed) :
    observed[j].dir = "s2c" /\ observed[j].re # 0 =>
      \E i \in 1..(j - 1) :
        observed[i].dir = "c2s" /\ observed[i].k = observed[j].re

(* A message of the client that was recorded and did not reach the server   *)
(* is the last one recorded: its failure ended the pump.                    *)
OnlyLastUndelivered ==
  \A i, j \in 1..Len(observed) :
    observed[i].dir = "c2s" /\ observed[j].dir = "c2s" /\ i < j =>
      observed[i].k \in received

\* Nothing of the transport is left: no read task, no POST in flight, no session.
Closed ==
  phase = "closed" /\ reader = "done" /\ ~session /\ posting = {}
    /\ c2s = "done" /\ s2c = "done"

(* The end of the stream, or an exception in the middle of it, ends the     *)
(* session and everything that belongs to it, even if it finds the queue    *)
(* full.                                                                    *)
StreamEndStops == (streamOver \/ raised) ~> Closed
=============================================================================
