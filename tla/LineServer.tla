----------------------------- MODULE LineServer -----------------------------
(* A server process that speaks one JSON message per line over stdio, as the *)
(* engines that drive it themselves meet it (generate, the active audit, the *)
(* replay). It is external: it may answer each request once, late or never,  *)
(* write lines that answer nothing, ask requests of its own, and exit.       *)
EXTENDS Naturals, Sequences

CONSTANTS MaxNoise,     \* lines that answer no request, per run
          NoiseKinds,   \* which: notifications, no JSON, no UTF-8
          RequestIds    \* ids the server may give to requests of its own

NoId == 0
ASSUME NoiseAssumption ==
  /\ MaxNoise \in Nat /\ NoId \notin RequestIds
  /\ NoiseKinds \subseteq {"note", "malformed", "undecodable"}

VARIABLES
  server,   \* "none", "up", "exited" (status not collected yet) or "reaped"
  asked,    \* requests it has not answered: records with an "id"
  out,      \* lines it has written and nobody has read
  noise     \* lines left that answer nothing

serverVars == <<server, asked, out, noise>>

\* What a reader tells apart of a line. Only a "reply" has a "to".
Reply(req, body)    == [kind |-> "reply", id |-> req.id, body |-> body, to |-> req]
ServerRequest(i)    == [kind |-> "request", id |-> i]
NoiseLines ==
  {[kind |-> k, id |-> NoId] : k \in NoiseKinds} \cup {ServerRequest(i) : i \in RequestIds}

NoServer == server = "none" /\ asked = {} /\ out = <<>> /\ noise = MaxNoise

Running == server \in {"up", "exited"}      \* server_running: no status yet

Launched == server' = "up" /\ asked' = {} /\ out' = <<>> /\ UNCHANGED noise

\* Transport.shutdown: the process is dead and its pipes are dropped (Proxy).
Stopped == server' = "none" /\ asked' = {} /\ out' = <<>> /\ UNCHANGED noise

\* A line written to a server that has exited is lost, or the write raises.
Written(req) ==
  /\ asked' = IF server = "up" THEN asked \cup {req} ELSE asked
  /\ UNCHANGED <<server, out, noise>>
MayFail == server # "up"

HasLine == out # <<>>
NextLine == IF HasLine THEN {Head(out)} ELSE {}   \* for \E line \in NextLine
AtEof   == out = <<>> /\ server # "up"
TakeLine == out' = Tail(out) /\ UNCHANGED <<server, asked, noise>>

\* The actions of the server itself.
ServerReplies(req, body) ==
  /\ server = "up" /\ req \in asked
  /\ out' = Append(out, Reply(req, body))
  /\ asked' = asked \ {req}
  /\ UNCHANGED <<server, noise>>

ServerRepeats(req, body) ==     \* the same reply twice
  /\ server = "up" /\ req \in asked /\ noise > 0
  /\ out' = out \o <<Reply(req, body), Reply(req, body)>>
  /\ asked' = asked \ {req} /\ noise' = noise - 1
  /\ UNCHANGED server

ServerNoise ==
  /\ server = "up" /\ noise > 0
  /\ \E line \in NoiseLines : out' = Append(out, line)
  /\ noise' = noise - 1
  /\ UNCHANGED <<server, asked>>

ServerExits == server = "up" /\ server' = "exited" /\ UNCHANGED <<asked, out, noise>>
Reap == server = "exited" /\ server' = "reaped" /\ UNCHANGED <<asked, out, noise>>
=============================================================================
