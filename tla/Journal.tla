------------------------------ MODULE Journal ------------------------------
(***************************************************************************)
(* What recording promises, whatever the transport: the messages the       *)
(* interceptor has observed are numbered 1, 2, ... in the order it saw      *)
(* them; the transcript stores them in that order, each at most once; and  *)
(* once the transcript is sealed (the session is over and the recorder is  *)
(* closed) every observed message is either stored or known to be lost     *)
(* (its redaction or its write raised, and the code logged it).            *)
(***************************************************************************)
EXTENDS Naturals, Sequences

CONSTANT Message    \* what the interceptor can observe

VARIABLES
  observed,   \* messages observed so far, in order
  stored,     \* indices into observed: the records of the transcript
  lost,       \* indices that will never be stored: redaction or write failed
  sealed      \* the recorder has been closed

journalVars == <<observed, stored, lost, sealed>>

Init ==
  /\ observed = <<>>
  /\ stored = <<>>
  /\ lost = {}
  /\ sealed = FALSE

\* A message is observed; failed says that its redaction raised.
Observe(m, failed) ==
  /\ ~sealed
  /\ observed' = Append(observed, m)
  /\ lost' = IF failed THEN lost \cup {Len(observed) + 1} ELSE lost
  /\ UNCHANGED <<stored, sealed>>

Fits(n) ==   \* n may be the next record: observed, and after every stored one
  /\ n \in 1..Len(observed)
  /\ n \notin lost
  /\ \A i \in 1..Len(stored) : stored[i] < n

Store(n) ==
  /\ ~sealed
  /\ Fits(n)
  /\ stored' = Append(stored, n)
  /\ UNCHANGED <<observed, lost, sealed>>

Lose(n) ==
  /\ ~sealed
  /\ Fits(n)
  /\ lost' = lost \cup {n}
  /\ UNCHANGED <<observed, stored, sealed>>

\* The recorder is closed only when nothing is still on its way to the file.
Seal ==
  /\ ~sealed
  /\ \A n \in 1..Len(observed) :
        n \in lost \/ \E i \in 1..Len(stored) : stored[i] = n
  /\ sealed' = TRUE
  /\ UNCHANGED <<observed, stored, lost>>

Next ==
  \/ \E m \in Message, failed \in BOOLEAN : Observe(m, failed)
  \/ \E n \in 1..Len(observed) : Store(n) \/ Lose(n)
  \/ Seal

Spec == Init /\ [][Next]_journalVars
=============================================================================
