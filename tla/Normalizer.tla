----------------------------- MODULE Normalizer -----------------------------
(* NormalizerChain and run_diff, on messages whose payload is an id (NoId for *)
(* none) and a sequence of leaves: nested "id"s, "uuid"s, "stamp"s (instants  *)
(* and cursors) and "text"s. A leaf is at the same path in every answer to a  *)
(* request, so that comparing paths is comparing positions.                   *)
EXTENDS Naturals, Sequences, FiniteSets, SequencesExt

Leaf(kind, v) == [kind |-> kind, v |-> v]

\* Normalised ids and UUIDs are strings no server of ours uses: numbers from 101.
Normal(n) == 100 + n

\* The values one normalizer sees, in the order of its walk over the messages:
\* a dictionary's own id before what it contains.
Values(m, kind) ==
  (IF kind = "id" /\ m.id # 0 THEN <<m.id>> ELSE <<>>)
    \o FlattenSeq([i \in DOMAIN m.leaves |->
                     IF m.leaves[i].kind = kind THEN <<m.leaves[i].v>> ELSE <<>>])
Walk(msgs, kind) == FlattenSeq([i \in DOMAIN msgs |-> Values(msgs[i], kind)])

\* seen_ids, seen_uuids: a value is numbered when it is first seen, by one chain
\* for the whole transcript.
Number(walk, v) ==
  LET first == CHOOSE i \in DOMAIN walk : walk[i] = v /\ \A j \in 1..(i - 1) : walk[j] # v
  IN Normal(Cardinality({walk[i] : i \in 1..first}))

BugNormalized(msgs) ==          \* UUIDs and instants are left as they are
  LET ids == Walk(msgs, "id")
      Hide(l) == IF l.kind = "id" THEN Leaf("id", Number(ids, l.v)) ELSE l
  IN [i \in DOMAIN msgs |->
        [msgs[i] EXCEPT !.id = IF @ = 0 THEN @ ELSE Number(ids, @),
                        !.leaves = [j \in DOMAIN @ |-> Hide(@[j])]]]
\* normalize_transcript_data: messages of both directions, in their order.
Normalized(msgs) ==
  LET ids == Walk(msgs, "id")
      uuids == Walk(msgs, "uuid")
      Hide(l) == CASE l.kind = "id"    -> Leaf("id", Number(ids, l.v))
                   [] l.kind = "uuid"  -> Leaf("uuid", Number(uuids, l.v))
                   [] l.kind = "stamp" -> Leaf("stamp", 0)
                   [] OTHER            -> l
  IN [i \in DOMAIN msgs |->
        [msgs[i] EXCEPT !.id = IF @ = 0 THEN @ ELSE Number(ids, @),
                        !.leaves = [j \in DOMAIN @ |-> Hide(@[j])]]]

(* --------------------------- run_diff ---------------------------------- *)

\* Messages of the server with an id, requests among them; the last one wins.
Responses(msgs) ==
  LET at == {i \in DOMAIN msgs : msgs[i].dir = "s2c" /\ msgs[i].id # 0}
      last == {i \in at : \A j \in at : msgs[j].id = msgs[i].id => j <= i}
  IN [n \in {msgs[i].id : i \in last} |->
        msgs[CHOOSE i \in last : msgs[i].id = n]]

BugChanges(a, b) ==             \* compares which ids were answered, not the answers
  LET ra == Responses(a)
      rb == Responses(b)
  IN (DOMAIN ra \ DOMAIN rb) \cup (DOMAIN rb \ DOMAIN ra)

\* The ids with a change: removed, added, or different (in "semantic" and in
\* "strict" mode alike, on these payloads). Notifications are not compared.
Changes(a, b) ==
  LET ra == Responses(a)
      rb == Responses(b)
  IN {n \in DOMAIN ra \cup DOMAIN rb :
        IF n \in DOMAIN ra \cap DOMAIN rb THEN ra[n] # rb[n] ELSE TRUE}
=============================================================================
