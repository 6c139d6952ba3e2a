------------------------------ MODULE Exchange ------------------------------
(* GeneratorEngine._send_and_receive: write a request, then read lines until *)
(* one carries its id, under one deadline. The discovery, the tool calls of  *)
(* generate and the canaries of the active audit all go through it, each     *)
(* with its own continuation, so what follows are the parts of their steps.  *)
EXTENDS LineServer

VARIABLE awaited    \* the request whose answer is read for, or Nothing

Nothing == [id |-> NoId]

exchangeVars == <<server, asked, out, noise, awaited>>

ExchangeInit == NoServer /\ awaited = Nothing

Idle == awaited = Nothing

\* The write and its drain: the requests are far below the pipe's capacity,
\* so the drain does not wait for the server (unlike a fuzz case).
Sends(req) == Idle /\ Written(req) /\ awaited' = req

SendRaises == Idle /\ MayFail /\ UNCHANGED exchangeVars

\* A blank or malformed line, a notification, an answer with another id: read
\* on. A request of the server is matched by its id like any other line.
Matches(line) == line.id = awaited.id

SkipLine ==
  /\ ~Idle /\ HasLine
  /\ Head(out).kind # "undecodable" /\ ~Matches(Head(out))
  /\ TakeLine /\ UNCHANGED awaited

Receives(line) ==
  /\ ~Idle /\ HasLine /\ line = Head(out) /\ Matches(line)
  /\ TakeLine /\ awaited' = Nothing

\* The end of the output is a ConnectionError; a line that is no UTF-8 raises
\* out of the loop, since only JSONDecodeError is caught.
Raises == ~Idle /\ (AtEof \/ (HasLine /\ Head(out).kind = "undecodable"))

ReceiveRaises ==
  /\ Raises /\ awaited' = Nothing
  /\ IF HasLine THEN TakeLine ELSE UNCHANGED serverVars

TimesOut == ~Idle /\ awaited' = Nothing /\ UNCHANGED serverVars
=============================================================================
