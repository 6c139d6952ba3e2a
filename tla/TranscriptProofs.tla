-------------------------- MODULE TranscriptProofs --------------------------
(* Theorems about transcripts, as they are written and as they are compared. *)
(*                                                                           *)
(* TranscriptFile, for all formats and bounds: the invariant follows the     *)
(* records from the handle's buffer to the file and through the backfill.    *)
(* Wherever they are, they stand in the order of their writes, and each one  *)
(* is there but for the records whose error found no room for them in the    *)
(* handle and those that ran into a piece of one.                            *)
(*                                                                           *)
(* Regression, for any number of commands and any noise of the server: the   *)
(* invariant says that the messages of one side of a transcript have ids of  *)
(* their own, in a session, in a replay and in a golden file, so that of the *)
(* answers run_diff keys by their ids none hides another one; and an update  *)
(* that is judged clean has been given all the golden file's requests, since *)
(* what a source asks is to be sent, is awaited, or has been answered. What  *)
(* a quiet server answers is a function of its version and of what is asked, *)
(* up to the instants and UUIDs of the run, which the normal form hides; so  *)
(* a file that was once found to match its source is found to match it again.*)
(* On the sessions whose answers come in the order of the requests, with no  *)
(* id that a replay does not repeat, a recording and its replay number their *)
(* values alike, and an unchanged server passes.                             *)
EXTENDS TranscriptFile, Regression, SequenceLemmas

\* Every record given to write() stands in the text of the file and the handle
\* once at most, in order, or is excused.
Increasing(s) ==
  \A i, j \in 1..Len(s) : i < j /\ s[i] # Piece /\ s[j] # Piece => s[i] < s[j]
Accounted(text, n, gone) ==
  /\ Increasing(text) /\ Elems(text) \subseteq 0..n
  /\ \A k \in 1..n : k \in Elems(text) \/ k \in gone \/ k - 1 \in gone

\* A text that has added its order and lost no record but those of a set.
Thinned(s, t, dropped) ==
  /\ Increasing(s) => Increasing(t)
  /\ Elems(t) \subseteq Elems(s) /\ Elems(s) \subseteq Elems(t) \cup dropped

Leads(s, t) == Len(s) <= Len(t) /\ \A i \in 1..Len(s) : s[i] = t[i]

-----------------------------------------------------------------------------
\* The elements of a sequence are its range.
LEMMA ElemsIsRange ==
  ASSUME NEW X, NEW s \in Seq(X)
  PROVE  Range(s) = Elems(s)
BY DEF Range, Elems

\* Places in one sequence that follow each other as in another.
LEMMA IncreasingPart ==
  ASSUME NEW s \in Seq(Nat), NEW t \in Seq(Nat), NEW p \in [1..Len(t) -> 1..Len(s)],
         \A k \in 1..Len(t) : t[k] = s[p[k]],
         \A j, k \in 1..Len(t) : j < k => p[j] < p[k],
         Increasing(s)
  PROVE  Increasing(t)
BY DEF Increasing

LEMMA IncreasingStart ==
  ASSUME NEW a \in Seq(Nat), NEW b \in Seq(Nat), Increasing(a \o b)
  PROVE  Increasing(a)
<1>1. /\ Len(a) \in Nat /\ a \o b \in Seq(Nat)
      /\ \A i \in 1..Len(a) : i \in 1..Len(a \o b) /\ (a \o b)[i] = a[i]
  BY ConcatIs
<1>2. QED
  BY <1>1 DEF Increasing

LEMMA RestType ==
  ASSUME NEW X, NEW s \in Seq(X), NEW n \in 0..Len(s)
  PROVE  SubSeq(s, n + 1, Len(s)) \in Seq(X)
<1>1. Len(s) \in Nat /\ n \in Nat /\ n <= Len(s)
  OBVIOUS
<1>2. QED
  BY <1>1

\* A part of the held records is written, and the rest still follows.
LEMMA Split ==
  ASSUME NEW recs \in Seq(Nat), NEW held \in Seq(Nat), NEW n \in 0..Len(held)
  PROVE  /\ SubSeq(held, 1, n) \in Seq(Nat) /\ SubSeq(held, n + 1, Len(held)) \in Seq(Nat)
         /\ (recs \o SubSeq(held, 1, n)) \o SubSeq(held, n + 1, Len(held)) = recs \o held
<1> DEFINE new == SubSeq(held, 1, n)
           rest == SubSeq(held, n + 1, Len(held))
           t == (recs \o new) \o rest
           s == recs \o held
<1>6a. Len(held) \in Nat /\ n \in Nat /\ n <= Len(held) /\ Len(recs) \in Nat
  OBVIOUS
<1>1. /\ new \in Seq(Nat) /\ Len(new) = n /\ \A i \in 1..n : new[i] = held[i]
  OBVIOUS
<1>2. /\ rest \in Seq(Nat) /\ Len(rest) = Len(held) - n
      /\ \A i \in 1..(Len(held) - n) : rest[i] = held[n + i]
  <2>1. rest \in Seq(Nat)
    BY <1>6a
  <2>2. Len(rest) = Len(held) - n
    BY <1>6a
  <2>3. \A i \in 1..(Len(held) - n) : rest[i] = held[n + i]
    BY <1>6a
  <2>4. QED
    BY <2>1, <2>2, <2>3
<1> HIDE DEF new, rest
<1> DEFINE l == Len(recs)
           h == Len(held)
           u == recs \o new
<1>3. /\ u \in Seq(Nat) /\ Len(u) = l + n
      /\ \A i \in 1..l : u[i] = recs[i]
      /\ \A i \in 1..n : u[l + i] = held[i]
  <2>1. /\ u \in Seq(Nat) /\ Len(u) = l + Len(new)
        /\ \A i \in 1..l : u[i] = recs[i]
        /\ \A i \in 1..Len(new) : u[l + i] = new[i]
    <3>1. new \in Seq(Nat)
      BY <1>1
    <3>2. QED
      BY ONLY <3>1, recs \in Seq(Nat), ConcatIs
  <2> HIDE DEF u, l
  <2>2. QED
    BY <1>1, <2>1
<1>4. /\ t \in Seq(Nat) /\ Len(t) = Len(u) + Len(rest)
      /\ \A i \in 1..Len(u) : t[i] = u[i]
      /\ \A i \in 1..Len(rest) : t[Len(u) + i] = rest[i]
  <2>1. u \in Seq(Nat) /\ rest \in Seq(Nat)
    BY <1>2, <1>3
  <2>2. t = u \o rest
    OBVIOUS
  <2> HIDE DEF t, u
  <2>3. QED
    BY <2>1, <2>2, ConcatIs
<1>5. /\ s \in Seq(Nat) /\ Len(s) = l + h
      /\ \A i \in 1..l : s[i] = recs[i]
      /\ \A i \in 1..h : s[l + i] = held[i]
  BY ConcatIs
<1>a. l \in Nat /\ h \in Nat /\ n \in 0..h /\ Len(rest) = h - n
      /\ \A i \in 1..(h - n) : rest[i] = held[n + i]
  BY <1>6a, <1>2
<1> HIDE DEF t, s, u, l, h
<1>b. Len(t) = Len(s) /\ Len(s) = l + h
  BY <1>a, <1>3, <1>4, <1>5
<1>6. ASSUME NEW k \in 1..Len(s)
      PROVE  t[k] = s[k]
  <2>1. CASE k <= l
    <3>1. k \in 1..l /\ k \in 1..Len(u)
      BY <1>a, <1>b, <1>3, <2>1
    <3>2. QED
      BY <1>3, <1>4, <1>5, <3>1
  <2>2. CASE k > l /\ k <= l + n
    <3>1. PICK i \in 1..n : k = l + i
      <4>1. k - l \in 1..n /\ k = l + (k - l)
        BY <1>a, <1>b, <2>2
      <4>2. QED
        BY <4>1
    <3>2. k \in 1..Len(u) /\ i \in 1..h
      BY <1>a, <1>b, <1>3, <2>2, <3>1
    <3>3. QED
      BY <1>3, <1>4, <1>5, <3>1, <3>2
  <2>3. CASE k > l + n
    <3>1. PICK i \in 1..(h - n) : k = l + n + i
      <4>1. k - (l + n) \in 1..(h - n) /\ k = l + n + (k - (l + n))
        BY <1>a, <1>b, <2>3
      <4>2. QED
        BY <4>1
    <3>2. k = Len(u) + i /\ i \in 1..Len(rest) /\ n + i \in 1..h /\ k = l + (n + i)
      BY <1>a, <1>3, <3>1
    <3>3. t[k] = rest[i] /\ s[k] = held[n + i]
      BY <1>4, <1>5, <3>2
    <3>4. QED
      BY <1>a, <3>1, <3>3
  <2>4. QED
    BY <1>a, <1>b, <2>1, <2>2, <2>3
<1>7. t = s
  BY <1>4, <1>5, <1>6, <1>b, SameSequence
<1>8. QED
  BY <1>1, <1>2, <1>7 DEF new, rest, t, s, u

\* The first of the held records is dropped from the text.
LEMMA HeadDropped ==
  ASSUME NEW recs \in Seq(Nat), NEW new \in Seq(Nat), NEW rest \in Seq(Nat), new # <<>>
  PROVE  Thinned((recs \o new) \o rest, (recs \o Tail(new)) \o rest, {new[1]})
<1> DEFINE s == (recs \o new) \o rest
           u == recs \o Tail(new)
           t == u \o rest
           d == Len(recs)
<1>1. /\ Tail(new) \in Seq(Nat) /\ Len(new) \in Nat \ {0} /\ Len(Tail(new)) = Len(new) - 1
      /\ \A i \in 1..(Len(new) - 1) : Tail(new)[i] = new[i + 1]
      /\ d \in Nat /\ Len(rest) \in Nat
  OBVIOUS
<1>2. /\ recs \o new \in Seq(Nat) /\ Len(recs \o new) = d + Len(new)
      /\ \A i \in 1..d : (recs \o new)[i] = recs[i]
      /\ \A i \in 1..Len(new) : (recs \o new)[d + i] = new[i]
  BY ConcatIs
<1>3. /\ s \in Seq(Nat) /\ Len(s) = Len(recs \o new) + Len(rest)
      /\ \A i \in 1..Len(recs \o new) : s[i] = (recs \o new)[i]
      /\ \A i \in 1..Len(rest) : s[Len(recs \o new) + i] = rest[i]
  BY <1>2, ConcatIs
<1>4. /\ u \in Seq(Nat) /\ Len(u) = d + Len(Tail(new))
      /\ \A i \in 1..d : u[i] = recs[i]
      /\ \A i \in 1..Len(Tail(new)) : u[d + i] = Tail(new)[i]
  BY <1>1, ConcatIs
<1>5. /\ t \in Seq(Nat) /\ Len(t) = Len(u) + Len(rest)
      /\ \A i \in 1..Len(u) : t[i] = u[i]
      /\ \A i \in 1..Len(rest) : t[Len(u) + i] = rest[i]
  BY <1>4, ConcatIs
<1> HIDE DEF s, t, u, d
<1>6. Len(s) = d + Len(new) + Len(rest) /\ Len(t) = Len(s) - 1 /\ Len(u) = d + Len(new) - 1
  BY <1>1, <1>2, <1>3, <1>4, <1>5
<1> DEFINE l == Len(new)
           w == Len(recs \o new)
<1>6a. d \in Nat /\ l \in Nat \ {0} /\ w = d + l /\ Len(u) = d + l - 1
  BY <1>1, <1>2, <1>6
<1> HIDE DEF l, w
<1>7. ASSUME NEW k \in 1..d
      PROVE  t[k] = s[k]
  <2>1. k \in 1..Len(u) /\ k \in 1..w
    BY <1>6a
  <2>2. QED
    BY <1>2, <1>3, <1>4, <1>5, <2>1 DEF w
<1>8. ASSUME NEW k \in (d + 1)..Len(t)
      PROVE  t[k] = s[k + 1]
  <2>1. CASE k <= Len(u)
    <3>1. PICK i \in 1..(Len(new) - 1) : k = d + i
      <4>1. k - d \in 1..(Len(new) - 1) /\ k = d + (k - d)
        BY <1>1, <1>5, <1>6, <2>1
      <4>2. QED
        BY <4>1
    <3>2. t[k] = new[i + 1]
      <4>1. t[k] = u[d + i] /\ u[d + i] = Tail(new)[i]
        BY <1>1, <1>4, <1>5, <1>6, <2>1, <3>1
      <4>2. QED
        BY <1>1, <4>1
    <3>3. s[k + 1] = new[i + 1]
      <4>0. i \in 1..(l - 1) /\ k = d + i
        BY <3>1 DEF l
      <4>1. i + 1 \in 1..l /\ k + 1 = d + (i + 1) /\ k + 1 \in 1..w
        BY <1>6a, <4>0
      <4>2. s[k + 1] = (recs \o new)[d + (i + 1)] /\ (recs \o new)[d + (i + 1)] = new[i + 1]
        BY <1>2, <1>3, <4>1 DEF l, w
      <4>3. QED
        BY <4>2
    <3>4. QED
      BY <3>2, <3>3
  <2>2. CASE k > Len(u)
    <3>1. PICK i \in 1..Len(rest) : k = Len(u) + i
      <4>1. k - Len(u) \in 1..Len(rest) /\ k = Len(u) + (k - Len(u))
        BY <1>1, <1>5, <1>6, <2>2
      <4>2. QED
        BY <4>1
    <3>2. k + 1 = Len(recs \o new) + i
      BY <1>1, <1>2, <1>6, <3>1
    <3>3. QED
      BY <1>3, <1>5, <3>1, <3>2
  <2>3. QED
    BY <1>1, <1>6, <2>1, <2>2
<1>9. Increasing(s) => Increasing(t)
  <2> SUFFICES ASSUME Increasing(s) PROVE Increasing(t)
    OBVIOUS
  <2> DEFINE p == [k \in 1..Len(t) |-> IF k <= d THEN k ELSE k + 1]
  <2>1. /\ p \in [1..Len(t) -> 1..Len(s)]
        /\ \A j, k \in 1..Len(t) : j < k => p[j] < p[k]
    BY <1>1, <1>6
  <2>2. \A k \in 1..Len(t) : t[k] = s[p[k]]
    BY <1>1, <1>6, <1>7, <1>8
  <2> HIDE DEF p
  <2>3. QED
    BY <1>3, <1>5, <2>1, <2>2, IncreasingPart
<1>10. Elems(t) \subseteq Elems(s)
  <2> SUFFICES ASSUME NEW k \in 1..Len(t) PROVE t[k] \in Elems(s)
    BY DEF Elems
  <2>1. CASE k <= d
    BY <1>1, <1>6, <1>7, <2>1 DEF Elems
  <2>2. CASE k > d
    <3>1. t[k] = s[k + 1] /\ k + 1 \in 1..Len(s)
      BY <1>1, <1>6, <1>8, <2>2
    <3>2. QED
      BY <3>1 DEF Elems
  <2>3. QED
    BY <1>1, <2>1, <2>2
<1>11. Elems(s) \subseteq Elems(t) \cup {new[1]}
  <2> SUFFICES ASSUME NEW k \in 1..Len(s) PROVE s[k] \in Elems(t) \cup {new[1]}
    BY DEF Elems
  <2>1. CASE k <= d
    <3>1. k \in 1..Len(t) /\ t[k] = s[k]
      BY <1>1, <1>6, <1>7, <2>1
    <3>2. QED
      BY <3>1 DEF Elems
  <2>2. CASE k = d + 1
    <3>0. 1 \in 1..Len(new) /\ d + 1 \in 1..Len(recs \o new)
      BY <1>1, <1>2
    <3>1. s[d + 1] = new[1]
      BY <1>2, <1>3, <3>0
    <3>2. QED
      BY <2>2, <3>1
  <2>3. CASE k > d + 1
    <3>1. k - 1 \in (d + 1)..Len(t) /\ (k - 1) + 1 = k /\ k - 1 \in 1..Len(t)
      BY <1>1, <1>6, <2>3
    <3>2. t[k - 1] = s[k]
      BY <1>8, <3>1
    <3>3. QED
      BY <3>1, <3>2 DEF Elems
  <2>4. QED
    BY <1>1, <1>3, <2>1, <2>2, <2>3
<1>12. QED
  BY <1>9, <1>10, <1>11 DEF Thinned, s, t, u

LEMMA ConcatAppend ==
  ASSUME NEW a \in Seq(Nat), NEW b \in Seq(Nat), NEW e \in Nat
  PROVE  a \o Append(b, e) = Append(a \o b, e)
<1> DEFINE u == a \o b
           v == Append(b, e)
           s == a \o v
           t == Append(u, e)
           l == Len(a)
           m == Len(b)
<1>1. /\ u \in Seq(Nat) /\ Len(u) = l + m /\ l \in Nat /\ m \in Nat
      /\ \A i \in 1..l : u[i] = a[i]
      /\ \A i \in 1..m : u[l + i] = b[i]
  BY ConcatIs
<1>2. /\ v \in Seq(Nat) /\ Len(v) = m + 1
      /\ v[m + 1] = e /\ \A i \in 1..m : v[i] = b[i]
  OBVIOUS
<1> HIDE DEF u, v
<1>3. /\ s \in Seq(Nat) /\ Len(s) = l + Len(v)
      /\ \A i \in 1..l : s[i] = a[i]
      /\ \A i \in 1..Len(v) : s[l + i] = v[i]
  <2>1. v \in Seq(Nat)
    BY <1>2
  <2>2. QED
    BY ONLY <2>1, a \in Seq(Nat), ConcatIs
<1>4. /\ t \in Seq(Nat) /\ Len(t) = Len(u) + 1 /\ t[Len(u) + 1] = e
      /\ \A i \in 1..Len(u) : t[i] = u[i]
  BY <1>1
<1> HIDE DEF s, t, l, m
<1>5. Len(s) = l + m + 1 /\ Len(t) = l + m + 1
  BY <1>1, <1>2, <1>3, <1>4
<1>6. ASSUME NEW k \in 1..(l + m + 1)
      PROVE  s[k] = t[k]
  <2>1. CASE k <= l
    <3>1. k \in 1..l /\ k \in 1..Len(u)
      BY <1>1, <2>1
    <3>2. QED
      BY <1>1, <1>3, <1>4, <3>1
  <2>2. CASE k = l + m + 1
    <3>1. m + 1 \in 1..Len(v) /\ k = l + (m + 1) /\ k = Len(u) + 1
      BY <1>1, <1>2, <2>2
    <3>2. s[l + (m + 1)] = v[m + 1]
      BY <1>3, <3>1
    <3>3. QED
      BY <1>2, <1>4, <3>1, <3>2
  <2>3. CASE k > l /\ k # l + m + 1
    <3>1. PICK i \in 1..m : k = l + i
      <4>1. k - l \in 1..m /\ k = l + (k - l)
        BY <1>1, <2>3
      <4>2. QED
        BY <4>1
    <3>2. i \in 1..Len(v) /\ k \in 1..Len(u)
      BY <1>1, <1>2, <3>1
    <3>3. s[k] = b[i] /\ t[k] = b[i]
      BY <1>1, <1>2, <1>3, <1>4, <3>1, <3>2
    <3>4. QED
      BY <3>3
  <2>4. QED
    BY <1>1, <2>1, <2>2, <2>3
<1>7. s = t
  BY <1>3, <1>4, <1>5, <1>6, SameSequence
<1>8. QED
  BY <1>7 DEF s, t, u, v

LEMMA NothingDropped ==
  ASSUME NEW s
  PROVE  Thinned(s, s, {})
BY DEF Thinned

-----------------------------------------------------------------------------
\* What Extended makes of the file and of the text it is part of.
Extends(file, held, n) ==
  LET drops == disk.tail = "cut" /\ n # 0 IN
  /\ file \in File /\ file.meta = disk.meta
  /\ file.tail = (IF n = 0 THEN disk.tail ELSE "whole")
  /\ Piece \in Elems(file.recs) => Piece \in Elems(disk.recs)
  /\ Thinned(disk.recs \o held, file.recs \o SubSeq(held, n + 1, Len(held)),
             IF drops THEN {held[1]} ELSE {})

LEMMA ExtendedFile ==
  ASSUME TypeOK, NEW held \in Seq(1..MaxRecords), NEW n \in 0..Len(held)
  PROVE  Extends(Extended(disk, SubSeq(held, 1, n)), held, n)
<1> DEFINE new == SubSeq(held, 1, n)
           rest == SubSeq(held, n + 1, Len(held))
           file == Extended(disk, new)
           added == IF disk.tail = "cut" THEN Tail(new) ELSE new
<1> USE BoundAssumption DEF BoundAssumption
<1>1. /\ disk \in File /\ disk.recs \in Seq({Piece} \cup 1..MaxRecords)
      /\ disk.recs \in Seq(Nat) /\ held \in Seq(Nat)
  BY DEF TypeOK, File, Piece
<1>2. /\ new \in Seq(1..MaxRecords) /\ new \in Seq(Nat) /\ rest \in Seq(Nat)
      /\ (disk.recs \o new) \o rest = disk.recs \o held
  <2>1. new \in Seq(1..MaxRecords)
    OBVIOUS
  <2>2. QED
    BY <1>1, <2>1, Split
<1>3. Len(new) = n /\ (new = <<>> <=> n = 0) /\ (n # 0 => new[1] = held[1])
  OBVIOUS
<1> HIDE DEF new, rest
<1>4. CASE n = 0
  <2>1. new = <<>> /\ file = disk
    BY <1>3, <1>4 DEF Extended
  <2>2. disk.recs \o new = disk.recs
    BY <1>1, <2>1
  <2>3. Thinned(disk.recs \o held, disk.recs \o rest, {})
    BY <1>2, <2>2, NothingDropped
  <2>4. QED
    BY <1>1, <1>4, <2>1, <2>3 DEF Extends, rest, new
<1>5. CASE n # 0
  <2>1. new # <<>>
    BY <1>3, <1>5
  <2>2. added \in Seq(1..MaxRecords) /\ added \in Seq(Nat) /\ Piece \notin Elems(added)
    <3>1. Tail(new) \in Seq(1..MaxRecords)
      BY <1>2, <2>1
    <3>2. added \in Seq(1..MaxRecords)
      BY <1>2, <3>1
    <3> HIDE DEF added
    <3>3. QED
      BY <3>2 DEF Elems, Piece
  <2>3. /\ file.recs = disk.recs \o added /\ file.tail = "whole" /\ file.meta = disk.meta
        /\ file = [disk EXCEPT !.recs = disk.recs \o added, !.tail = "whole"]
    BY <1>1, <2>1 DEF Extended, File
  <2> HIDE DEF added
  <2>4. /\ disk.recs \o added \in Seq({Piece} \cup 1..MaxRecords)
        /\ Elems(disk.recs \o added) \subseteq Elems(disk.recs) \cup Elems(added)
    <3> DEFINE K == {Piece} \cup 1..MaxRecords
    <3>1. 1..MaxRecords \subseteq K
      OBVIOUS
    <3> HIDE DEF K
    <3>2. added \in Seq(K)
      BY <2>2, <3>1, WiderSeq
    <3>3. QED
      BY <1>1, <3>2, ConcatElems DEF K
  <2>5. file \in File
    BY <1>1, <2>3, <2>4 DEF File, Tails
  <2>6. Piece \in Elems(file.recs) => Piece \in Elems(disk.recs)
    BY <2>2, <2>3, <2>4
  <2>7. CASE disk.tail = "cut"
    <3>1. added = Tail(new)
      BY <2>7 DEF added
    <3>2. Thinned(disk.recs \o held, file.recs \o rest, {held[1]})
      <4>1. Thinned((disk.recs \o new) \o rest, (disk.recs \o Tail(new)) \o rest, {new[1]})
        BY <1>1, <1>2, <2>1, HeadDropped
      <4>2. QED
        BY <1>2, <1>3, <1>5, <2>3, <3>1, <4>1
    <3>3. QED
      BY <1>5, <2>3, <2>5, <2>6, <2>7, <3>2 DEF Extends, rest, new
  <2>8. CASE disk.tail # "cut"
    <3>1. file.recs \o rest = disk.recs \o held
      BY <1>2, <2>3, <2>8 DEF added
    <3>2. Thinned(disk.recs \o held, file.recs \o rest, {})
      BY <3>1, NothingDropped
    <3>3. QED
      BY <1>5, <2>3, <2>5, <2>6, <2>8, <3>2 DEF Extends, rest, new
  <2>9. QED
    BY <2>7, <2>8
<1>6. QED
  BY <1>4, <1>5

\* All that is held is written.
LEMMA ExtendedWhole ==
  ASSUME TypeOK, NEW held \in Seq(1..MaxRecords)
  PROVE  /\ Extends(Extended(disk, held), held, Len(held))
         /\ Extended(disk, held).recs \o SubSeq(held, Len(held) + 1, Len(held))
              = Extended(disk, held).recs
<1>1. SubSeq(held, 1, Len(held)) = held /\ SubSeq(held, Len(held) + 1, Len(held)) = <<>>
      /\ Len(held) \in 0..Len(held)
  OBVIOUS
<1>2. Extends(Extended(disk, held), held, Len(held))
  BY <1>1, ExtendedFile
<1>3. Extended(disk, held).recs \in Seq({Piece} \cup 1..MaxRecords)
  BY <1>2 DEF Extends, File
<1>4. QED
  BY <1>1, <1>2, <1>3

\* What the handle has written so far, with part of the next record.
LEMMA WrittenFile ==
  ASSUME TypeOK, NEW held \in Seq(1..MaxRecords), NEW n \in 0..Len(held),
         WrittenUpTo(held, n)
  PROVE  \E file \in File :
           /\ Extends(file, held, n) /\ disk'.recs = file.recs /\ disk'.meta = file.meta
           /\ disk' \in File /\ disk'.tail \in Ends(file.tail)
<1> DEFINE file == Extended(disk, SubSeq(held, 1, n))
<1>1. Extends(file, held, n)
  BY ExtendedFile
<1>2. \E tail \in Ends(file.tail) : disk' = [file EXCEPT !.tail = tail]
  BY DEF WrittenUpTo
<1> HIDE DEF file
<1>3. file \in File
  BY <1>1 DEF Extends
<1>4. Ends(file.tail) \subseteq Tails
  BY <1>3 DEF Ends, Tails, File
<1>5. QED
  BY <1>1, <1>2, <1>3, <1>4 DEF File

-----------------------------------------------------------------------------
\* The account of the records, as they move and as others come.
LEMMA AccountThinned ==
  ASSUME NEW s, NEW t, NEW x, NEW n \in Nat, NEW gone, Accounted(s, n, gone),
         Thinned(s, t, x), \A k \in x : k \in gone \/ k - 1 \in gone
  PROVE  Accounted(t, n, gone)
BY DEF Accounted, Thinned

LEMMA AccountNext ==
  ASSUME NEW n \in Nat, NEW s \in Seq(Nat), NEW gone, Accounted(s, n, gone)
  PROVE  Accounted(Append(s, n + 1), n + 1, gone)
<1> DEFINE t == Append(s, n + 1)
           l == Len(s)
<1>1. /\ t \in Seq(Nat) /\ Elems(t) = Elems(s) \cup {n + 1}
  BY AppendElems
<1>2. /\ l \in Nat /\ Len(t) = l + 1 /\ t[l + 1] = n + 1 /\ \A i \in 1..l : t[i] = s[i]
  OBVIOUS
<1>3. \A i \in 1..l : s[i] \in Elems(s)
  BY DEF Elems
<1> HIDE DEF t, l
<1>4. \A i \in 1..l : s[i] \in 0..n
  BY <1>3 DEF Accounted
<1>5. Increasing(t)
  <2> SUFFICES ASSUME NEW i \in 1..(l + 1), NEW j \in 1..(l + 1), i < j,
                      t[i] # Piece, t[j] # Piece
               PROVE  t[i] < t[j]
    BY <1>2 DEF Increasing
  <2>1. i \in 1..l /\ t[i] = s[i] /\ s[i] \in 0..n
    BY <1>2, <1>4
  <2>2. CASE j = l + 1
    BY <1>2, <2>1, <2>2
  <2>3. CASE j # l + 1
    <3>1. j \in 1..l /\ t[j] = s[j]
      BY <1>2, <2>3
    <3>2. QED
      BY <2>1, <3>1 DEF Accounted, Increasing, l
  <2>4. QED
    BY <2>2, <2>3
<1>6. Elems(t) \subseteq 0..(n + 1)
  BY <1>1 DEF Accounted
<1>7. \A k \in 1..(n + 1) : k \in Elems(t) \/ k \in gone \/ k - 1 \in gone
  <2> SUFFICES ASSUME NEW k \in 1..(n + 1)
               PROVE  k \in Elems(t) \/ k \in gone \/ k - 1 \in gone
    OBVIOUS
  <2>1. k = n + 1 \/ k \in 1..n
    OBVIOUS
  <2>2. QED
    BY <1>1, <2>1 DEF Accounted
<1>8. QED
  BY <1>5, <1>6, <1>7 DEF Accounted, t

LEMMA AccountGone ==
  ASSUME NEW s, NEW n \in Nat, NEW gone, Accounted(s, n, gone)
  PROVE  Accounted(s, n + 1, gone \cup {n + 1})
<1>1. Elems(s) \subseteq 0..(n + 1)
  BY DEF Accounted
<1>2. \A k \in 1..(n + 1) : k = n + 1 \/ k \in 1..n
  OBVIOUS
<1>3. QED
  BY <1>1, <1>2 DEF Accounted

LEMMA AccountPiece ==
  ASSUME NEW s \in Seq(Nat), NEW n \in Nat, NEW gone, Accounted(s, n, gone)
  PROVE  Accounted(Append(s, Piece), n, gone)
<1> DEFINE t == Append(s, Piece)
           l == Len(s)
<1>1. /\ t \in Seq(Nat) /\ Elems(t) = Elems(s) \cup {Piece}
  BY AppendElems DEF Piece
<1>2. /\ l \in Nat /\ Len(t) = l + 1 /\ t[l + 1] = Piece /\ \A i \in 1..l : t[i] = s[i]
  OBVIOUS
<1> HIDE DEF t
<1>3. \A i \in 1..Len(t) : t[i] # Piece => i \in 1..l /\ t[i] = s[i]
  BY <1>2
<1>4. Increasing(t)
  BY <1>3 DEF Increasing, Accounted
<1>5. Elems(t) \subseteq 0..n
  BY <1>1 DEF Accounted, Piece
<1>6. QED
  BY <1>1, <1>4, <1>5 DEF Accounted, t

-----------------------------------------------------------------------------
\* The records of a file are in order; a piece is there only after an error.
Sound(file) ==
  /\ Increasing(file.recs)
  /\ Piece \in Elems(file.recs) \/ file.tail = "cut" => unkept # {}

\* While the handle is open: what is not in the file is in the buffer, and
\* what will run into a piece is excused.
Recording ==
  stage = "recording" =>
    /\ disk.meta = {"base"} /\ loaded = Empty
    /\ Accounted(disk.recs \o buf, written, unkept)
    /\ disk.tail = "cut" => Excused(IF buf = <<>> THEN written + 1 ELSE buf[1])
    /\ disk.tail = "torn" => buf # <<>>
    /\ faults = 0 => buf = <<>>

Backfill ==
  stage = "backfill" =>
    /\ disk.meta = {"base"} /\ loaded = Empty /\ disk.tail # "torn"
    /\ buf = <<>> /\ Accounted(disk.recs, written, unkept)

\* What the backfill has read, and what it will therefore write.
Loaded ==
  loaded.meta = {"base"} \cup lazy /\ Accounted(loaded.recs, written, unkept)
Rewriting ==
  stage = "rewriting" =>
    /\ format = "yaml" /\ lazy # {} /\ Loaded
    /\ disk.tail = "whole" /\ loaded.tail = "whole"
    /\ Leads(disk.recs, loaded.recs) /\ buf = <<>>

Copying ==
  stage \in {"copying", "unlinking"} =>
    /\ format = "ndjson" /\ disk.meta = {"base"} /\ Loaded
    /\ loaded.recs = disk.recs /\ loaded.tail # "torn"
    /\ \A f \in temp : Leads(f.recs, loaded.recs) /\ f.meta = {"base"} \cup lazy
    /\ stage = "unlinking" => faults # 0

Closed ==
  stage \in {"done", "crashed"} =>
    \/ Leads(loaded.recs, disk.recs)
    \/ format = "yaml" /\ lazy # {} /\ (stage = "crashed" \/ faults > 0)

Done ==
  stage = "done" =>
    /\ faults = 0 =>
         /\ Accounted(disk.recs, written, unkept) /\ disk.tail = "whole"
         /\ disk.meta = {"base"} \cup lazy
    /\ temp # {} => faults >= 2 /\ disk.recs = loaded.recs /\ disk.meta = {"base"}

FileInv ==
  /\ Sound(disk) /\ Sound(loaded)
  /\ IsFiniteSet(unkept) /\ Cardinality(unkept) <= faults
  /\ stage = "new" =>
       disk = Empty /\ loaded = Empty /\ buf = <<>> /\ written = 0 /\ unkept = {}
  /\ temp # {} => stage \in {"copying", "unlinking", "done", "crashed"}
  /\ Recording /\ Backfill /\ Rewriting /\ Copying /\ Closed /\ Done
  /\ format = "ndjson" /\ disk.recs # <<>> => "base" \in disk.meta

-----------------------------------------------------------------------------
\* The file that open() creates.
LEMMA EmptyFile ==
  /\ Empty \in File /\ Empty.meta = {} /\ Empty.recs = <<>> /\ Empty.tail = "whole"
  /\ Increasing(Empty.recs) /\ Elems(Empty.recs) = {}
  BY BoundAssumption DEF Empty, File, Tails, BoundAssumption, Increasing, Elems

\* A flush that raises, with the text accounted for.
LEMMA FlushFailsKeeps ==
  ASSUME TypeOK, NEW held \in Seq(1..MaxRecords), FlushFails(held),
         NEW w \in Nat, NEW g, Accounted(disk.recs \o held, w, g),
         disk.tail = "cut" => held[1] \in g \/ held[1] - 1 \in g
  PROVE  /\ disk' \in File /\ disk'.meta = disk.meta
         /\ buf' \in Seq(1..MaxRecords) /\ buf' # <<>>
         /\ Accounted(disk'.recs \o buf', w, g)
         /\ Piece \in Elems(disk'.recs) => Piece \in Elems(disk.recs)
         /\ disk'.tail = "cut" => disk.tail = "cut" /\ buf' = held
<1>1. PICK n \in 0..(Len(held) - 1) :
        WrittenUpTo(held, n) /\ buf' = SubSeq(held, n + 1, Len(held))
  BY DEF FlushFails
<1>2. /\ n \in 0..Len(held) /\ buf' \in Seq(1..MaxRecords) /\ buf' # <<>>
      /\ n = 0 => buf' = held
  <2>1. n \in 0..Len(held) /\ Len(held) \in Nat /\ n \in Nat /\ n <= Len(held)
    BY <1>1
  <2> DEFINE rest == SubSeq(held, n + 1, Len(held))
  <2>2. rest \in Seq(1..MaxRecords) /\ Len(rest) = Len(held) - n
    <3>1. rest \in Seq(1..MaxRecords)
      BY <2>1, RestType
    <3>2. Len(rest) = Len(held) - n
      BY <2>1
    <3>3. QED
      BY <3>1, <3>2
  <2>3. SubSeq(held, 1, Len(held)) = held
    OBVIOUS
  <2>4. Len(held) - n # 0
    BY <2>1
  <2>5. rest # <<>>
    <3> HIDE DEF rest
    <3>1. QED
      BY <2>2, <2>4
  <2>6. n = 0 => rest = held
    BY <2>3
  <2>7. QED
    BY <1>1, <2>1, <2>2, <2>5, <2>6
<1>3. PICK file \in File :
        /\ Extends(file, held, n) /\ disk'.recs = file.recs /\ disk'.meta = file.meta
        /\ disk' \in File /\ disk'.tail \in Ends(file.tail)
  BY <1>1, <1>2, WrittenFile
<1> DEFINE x == IF disk.tail = "cut" /\ n # 0 THEN {held[1]} ELSE {}
<1>4. \A k \in x : k \in g \/ k - 1 \in g
  OBVIOUS
<1>5. Thinned(disk.recs \o held, disk'.recs \o buf', x)
  BY <1>1, <1>3 DEF Extends
<1> HIDE DEF x
<1>6. Accounted(disk'.recs \o buf', w, g)
  BY <1>4, <1>5, AccountThinned
<1>7. disk'.tail = "cut" => n = 0 /\ disk.tail = "cut"
  BY <1>3 DEF Extends, Ends
<1>8. QED
  BY <1>2, <1>3, <1>6, <1>7 DEF Extends

\* A flush that succeeds.
LEMMA FlushKeeps ==
  ASSUME TypeOK, NEW held \in Seq(1..MaxRecords),
         NEW w \in Nat, NEW g, Accounted(disk.recs \o held, w, g),
         disk.tail = "cut" /\ held # <<>> => held[1] \in g \/ held[1] - 1 \in g
  PROVE  LET file == Extended(disk, held) IN
         /\ file \in File /\ file.meta = disk.meta
         /\ Accounted(file.recs, w, g)
         /\ Piece \in Elems(file.recs) => Piece \in Elems(disk.recs)
         /\ file.tail = IF held = <<>> THEN disk.tail ELSE "whole"
<1> DEFINE file == Extended(disk, held)
           n == Len(held)
           x == IF disk.tail = "cut" /\ n # 0 THEN {held[1]} ELSE {}
<1>1. /\ Extends(file, held, n)
      /\ file.recs \o SubSeq(held, n + 1, Len(held)) = file.recs
  BY ExtendedWhole
<1>2. n = 0 <=> held = <<>>
  OBVIOUS
<1>3. \A k \in x : k \in g \/ k - 1 \in g
  BY <1>2
<1> HIDE DEF file, n
<1>4. Thinned(disk.recs \o held, file.recs, x)
  BY <1>1 DEF Extends
<1> HIDE DEF x
<1>5. Accounted(file.recs, w, g)
  BY <1>3, <1>4, AccountThinned
<1>6. QED
  BY <1>1, <1>2, <1>5 DEF Extends, file

\* The text as it is, and with one more record at its end.
LEMMA Text ==
  ASSUME TypeOK, FileInv, stage = "recording"
  PROVE  /\ disk.recs \in Seq(Nat) /\ disk.recs \o buf \in Seq(Nat) /\ written \in Nat
         /\ faults \in Nat
         /\ Accounted(disk.recs \o buf, written, unkept)
         /\ written < MaxRecords =>
              /\ Append(buf, written + 1) \in Seq(1..MaxRecords)
              /\ Append(buf, written + 1) # <<>>
              /\ Accounted(disk.recs \o Append(buf, written + 1), written + 1, unkept)
              /\ disk.tail = "cut" => Excused(Append(buf, written + 1)[1])
         /\ disk.tail = "cut" /\ buf # <<>> => Excused(buf[1])
<1> USE BoundAssumption DEF BoundAssumption
<1>1. /\ disk.recs \in Seq(Nat) /\ buf \in Seq(1..MaxRecords) /\ buf \in Seq(Nat)
      /\ written \in Nat /\ faults \in Nat /\ MaxRecords \in Nat
  BY DEF TypeOK, File, Piece
<1>2. disk.recs \o buf \in Seq(Nat)
  BY <1>1
<1>3. Accounted(disk.recs \o buf, written, unkept)
  BY DEF FileInv, Recording
<1>4. disk.recs \o Append(buf, written + 1) = Append(disk.recs \o buf, written + 1)
  <2>1. written + 1 \in Nat
    BY <1>1
  <2>2. QED
    BY <1>1, <2>1, ConcatAppend
<1>5. Accounted(Append(disk.recs \o buf, written + 1), written + 1, unkept)
  BY <1>1, <1>2, <1>3, AccountNext
<1>6. Append(buf, written + 1)[1] = IF buf = <<>> THEN written + 1 ELSE buf[1]
  BY <1>1
<1>7. written < MaxRecords =>
        Append(buf, written + 1) \in Seq(1..MaxRecords) /\ Append(buf, written + 1) # <<>>
  BY <1>1
<1>8. /\ disk.tail = "cut" => Excused(Append(buf, written + 1)[1])
      /\ disk.tail = "cut" /\ buf # <<>> => Excused(buf[1])
  BY <1>6 DEF FileInv, Recording
<1>9. QED
  BY <1>1, <1>2, <1>3, <1>4, <1>5, <1>7, <1>8

-----------------------------------------------------------------------------
\* A raw write of a record that had no room leaves the file as it was, or a
\* piece at its end.
LongFile(file, d) ==
  \/ d = file
  \/ /\ d.meta = file.meta /\ d.tail \in {"cut", "whole"} /\ d \in File
     /\ d.recs = IF file.tail = "cut" THEN file.recs ELSE Append(file.recs, Piece)

LEMMA LongWriteFailsCases ==
  ASSUME TypeOK, LongWriteFails
  PROVE  FlushFails(buf) \/ (LongFile(Extended(disk, buf), disk') /\ buf' = <<>>)
<1> DEFINE file == Extended(disk, buf)
           recs == IF file.tail = "cut" THEN file.recs ELSE Append(file.recs, Piece)
           tails == IF format = "yaml" THEN {"cut", "whole"} ELSE {"cut"}
<1>1. buf \in Seq(1..MaxRecords)
  BY DEF TypeOK
<1>2. file \in File
  BY <1>1, ExtendedWhole DEF Extends
<1>3. \/ FlushFails(buf)
      \/ /\ disk' \in {file} \cup {[file EXCEPT !.recs = recs, !.tail = t] : t \in tails}
         /\ buf' = <<>>
  BY DEF LongWriteFails
<1>4. recs \in Seq({Piece} \cup 1..MaxRecords) /\ tails \subseteq {"cut", "whole"}
  <2>1. file.recs \in Seq({Piece} \cup 1..MaxRecords) /\ Piece \in {Piece} \cup 1..MaxRecords
    BY <1>2 DEF File
  <2> HIDE DEF file
  <2>2. QED
    BY <2>1
<1> HIDE DEF file, tails
<1>5. ASSUME NEW t \in tails, disk' = [file EXCEPT !.recs = recs, !.tail = t]
      PROVE  LongFile(file, disk')
  <2>1. /\ disk'.recs = recs /\ disk'.tail = t /\ disk'.meta = file.meta /\ disk' \in File
    <3> HIDE DEF recs
    <3>1. QED
      BY <1>2, <1>4, <1>5 DEF File, Tails
  <2>2. QED
    BY <1>4, <2>1 DEF LongFile
<1>6. QED
  BY <1>3, <1>5 DEF LongFile, file

(* Every variable of the recorder keeps its type.                           *)
THEOREM TypeCorrect == Spec => []TypeOK
<1> USE FormatsAssumption, BoundAssumption, EmptyFile DEF BoundAssumption
<1>1. Init => TypeOK
  BY DEF Init, TypeOK, File, Tails, MetaFields, LazyFields
<1>2. TypeOK /\ [Next]_vars => TypeOK'
  <2> SUFFICES ASSUME TypeOK, [Next]_vars
               PROVE  TypeOK'
    OBVIOUS
  <2>a. ASSUME NEW held \in Seq(1..MaxRecords)
        PROVE  Extended(disk, held) \in File
    BY <2>a, ExtendedWhole DEF Extends
  <2>b. ASSUME NEW held \in Seq(1..MaxRecords), FlushFails(held)
        PROVE  disk' \in File /\ buf' \in Seq(1..MaxRecords)
    <3>1. PICK n \in 0..(Len(held) - 1) :
            WrittenUpTo(held, n) /\ buf' = SubSeq(held, n + 1, Len(held))
      BY <2>b DEF FlushFails
    <3>2. n \in 0..Len(held)
      BY <3>1
    <3>3. QED
      BY <3>1, <3>2, WrittenFile, RestType
  <2>c. Given => Append(buf, written + 1) \in Seq(1..MaxRecords) /\ written' \in 0..MaxRecords
                 /\ written + 1 \in 1..MaxRecords
    BY DEF Given, TypeOK
  <2>d. Fault => faults' \in 0..MaxFaults
    BY DEF Fault, TypeOK
  <2> USE DEF TypeOK, Backfilled
  <2>1. CASE StartSession
    BY <2>1 DEF StartSession, File, MetaFields, LazyFields, Tails
  <2>2. CASE StartSessionFails
    <3>1. disk' \in File
      BY <2>2 DEF StartSessionFails, File, Tails
    <3>2. QED
      BY <2>2, <2>d, <3>1 DEF StartSessionFails
  <2>3. CASE Write
    <3>1. disk' \in File
      BY <2>3, <2>a, <2>c DEF Write
    <3>2. QED
      BY <2>3, <2>c, <3>1 DEF Write, Given
  <2>4. CASE WriteFails
    <3>1. disk' \in File /\ buf' \in Seq(1..MaxRecords)
      BY <2>4, <2>b, <2>c DEF WriteFails
    <3>2. QED
      BY <2>4, <2>c, <2>d, <3>1 DEF WriteFails, Given
  <2>5. CASE LongWriteFails
    <3>1. disk' \in File /\ buf' \in Seq(1..MaxRecords)
      <4>1. CASE FlushFails(buf)
        BY <2>b, <4>1
      <4>2. CASE LongFile(Extended(disk, buf), disk') /\ buf' = <<>>
        BY <2>a, <4>2 DEF LongFile
      <4>3. QED
        BY <2>5, <4>1, <4>2, LongWriteFailsCases
    <3>2. unkept' \subseteq 1..MaxRecords
      BY <2>5, <2>c DEF LongWriteFails
    <3>3. QED
      BY <2>5, <2>c, <2>d, <3>1, <3>2 DEF LongWriteFails, Given
  <2>6. ASSUME NEW field \in LazyFields, UpdateLazyMetadata(field)
       PROVE  TypeOK'
    BY <2>6 DEF UpdateLazyMetadata, LazyFields
  <2>7. CASE CloseHandle
    <3>1. disk' \in File
      BY <2>7, <2>a DEF CloseHandle
    <3>2. QED
      BY <2>7, <3>1 DEF CloseHandle
  <2>8. CASE CloseHandleFails
    <3>1. disk' \in File /\ buf' \in Seq(1..MaxRecords)
      <4>1. CASE FlushFails(buf)
        BY <2>b, <4>1
      <4>2. CASE disk' = Extended(disk, buf) /\ buf' = <<>>
        BY <2>a, <4>2
      <4>3. QED
        BY <2>8, <4>1, <4>2 DEF CloseHandleFails
    <3>2. QED
      BY <2>8, <2>d, <3>1 DEF CloseHandleFails
  <2>9. CASE NothingToBackfill \/ BackfillUnreadable
    BY <2>9 DEF NothingToBackfill, BackfillUnreadable
  <2>10. CASE BackfillFails
    BY <2>10, <2>d DEF BackfillFails
  <2>11. CASE Truncate
    <3>1. loaded' \in File
      BY <2>11 DEF Truncate, File, MetaFields, LazyFields, Tails
    <3>2. QED
      BY <2>11, <3>1 DEF Truncate
  <2>12. CASE RewriteRecord
    <3>1. loaded.recs[Len(disk.recs) + 1] \in {Piece} \cup 1..MaxRecords
      BY <2>12 DEF RewriteRecord, File
    <3>2. Append(disk.recs, loaded.recs[Len(disk.recs) + 1]) \in Seq({Piece} \cup 1..MaxRecords)
      BY <3>1 DEF File
    <3>3. QED
      BY <2>12, <3>2 DEF RewriteRecord, File
  <2>13. CASE RewriteMeta
    BY <2>13 DEF RewriteMeta, File, MetaFields, LazyFields, Tails
  <2>14. CASE RewriteFails
    <3>1. disk' \in File
      BY <2>14 DEF RewriteFails, File, Tails, Ends
    <3>2. QED
      BY <2>14, <2>d, <3>1 DEF RewriteFails
  <2>15. CASE MakeTemp
    <3>1. [Empty EXCEPT !.meta = disk.meta \cup lazy] \in File
      BY DEF File, MetaFields, LazyFields
    <3>2. loaded' \in File
      BY <2>15 DEF MakeTemp, File, MetaFields, LazyFields
    <3>3. QED
      BY <2>15, <3>1, <3>2 DEF MakeTemp
  <2>16. CASE CopyRecord
    <3>1. PICK f \in temp :
            /\ Len(f.recs) < Len(loaded.recs)
            /\ temp' = {[f EXCEPT !.recs = Append(@, loaded.recs[Len(@) + 1])]}
      BY <2>16 DEF CopyRecord
    <3>2. loaded.recs[Len(f.recs) + 1] \in {Piece} \cup 1..MaxRecords
      BY <3>1 DEF File
    <3>3. Append(f.recs, loaded.recs[Len(f.recs) + 1]) \in Seq({Piece} \cup 1..MaxRecords)
      BY <3>1, <3>2 DEF File
    <3>4. QED
      BY <2>16, <3>1, <3>3 DEF CopyRecord, File
  <2>17. CASE Replace
    <3>1. disk' \in File
      BY <2>17 DEF Replace, File, Tails
    <3>2. QED
      BY <2>17, <3>1 DEF Replace
  <2>18. CASE CopyFails \/ UnlinkFails
    BY <2>18, <2>d DEF CopyFails, UnlinkFails
  <2>19. CASE Unlink
    BY <2>19 DEF Unlink
  <2>20. CASE Crash
    <3>1. disk' \in File
      <4>1. CASE \E n \in 0..Len(buf) : WrittenUpTo(buf, n)
        BY <4>1, WrittenFile
      <4>2. QED
        BY <2>20, <4>1 DEF Crash
    <3>2. QED
      BY <2>20, <3>1 DEF Crash
  <2>21. CASE UNCHANGED vars
    BY <2>21 DEF vars
  <2>22. QED
    BY <2>1, <2>2, <2>3, <2>4, <2>5, <2>6, <2>7, <2>8, <2>9, <2>10,
       <2>11, <2>12, <2>13, <2>14, <2>15, <2>16, <2>17, <2>18, <2>19, <2>20, <2>21
       DEF Next
<1>3. QED
  BY <1>1, <1>2, PTL DEF Spec

-----------------------------------------------------------------------------
\* A step of write() that leaves its text accounted for.
LEMMA StillRecording ==
  ASSUME TypeOK, TypeOK', FileInv, stage = "recording", stage' = "recording",
         temp' = temp, loaded' = loaded, disk'.meta = disk.meta,
         Accounted(disk'.recs \o buf', written', unkept'),
         Piece \in Elems(disk'.recs) \/ disk'.tail = "cut" => unkept' # {},
         disk'.tail = "cut" => Excused(IF buf = <<>> THEN written + 1 ELSE buf[1])',
         disk'.tail = "torn" => buf' # <<>>, faults' = 0 => buf' = <<>>,
         IsFiniteSet(unkept'), Cardinality(unkept') <= faults'
  PROVE  FileInv'
<1>1. disk.meta = {"base"} /\ loaded = Empty /\ temp = {}
  BY DEF FileInv, Recording
<1>2. Recording'
  BY <1>1 DEF Recording
<1>3. disk'.recs \in Seq(Nat) /\ buf' \in Seq(Nat)
  BY BoundAssumption DEF TypeOK, File, Piece, BoundAssumption
<1>4. Increasing(disk'.recs \o buf')
  BY DEF Accounted
<1>5. Increasing(disk'.recs)
  BY <1>3, <1>4, IncreasingStart
<1>6. Sound(disk)' /\ Sound(loaded)'
  <2>1. Sound(disk)'
    BY <1>5 DEF Sound
  <2>2. loaded' = Empty /\ Empty.tail = "whole"
    BY <1>1, EmptyFile
  <2>3. QED
    BY <2>1, <2>2, EmptyFile DEF Sound
<1>7. QED
  BY <1>1, <1>2, <1>6 DEF FileInv, Backfill, Rewriting, Copying, Closed, Done

\* The steps of write().
LEMMA WriteInv ==
  ASSUME TypeOK, TypeOK', FileInv, Write
  PROVE  FileInv'
<1> DEFINE held == Append(buf, written + 1)
<1>1. stage = "recording" /\ written < MaxRecords /\ written' = written + 1
  BY DEF Write, Given
<1>2. /\ held \in Seq(1..MaxRecords) /\ held # <<>>
      /\ Accounted(disk.recs \o held, written + 1, unkept)
      /\ disk.tail = "cut" => held[1] \in unkept \/ held[1] - 1 \in unkept
      /\ written + 1 \in Nat
  BY <1>1, Text DEF Excused
<1> HIDE DEF held
<1>3. /\ disk' = Extended(disk, held) /\ buf' = <<>> /\ stage' = "recording"
      /\ UNCHANGED <<temp, unkept, loaded, faults>>
  BY <1>1 DEF Write, held
<1>4. /\ disk'.meta = disk.meta /\ Accounted(disk'.recs, written', unkept')
      /\ Piece \in Elems(disk'.recs) => Piece \in Elems(disk.recs)
      /\ disk'.tail = "whole"
  BY <1>1, <1>2, <1>3, FlushKeeps
<1>5. disk'.recs \o buf' = disk'.recs
  BY <1>3 DEF TypeOK, File
<1>6. /\ Piece \in Elems(disk.recs) => unkept # {}
      /\ IsFiniteSet(unkept) /\ Cardinality(unkept) <= faults
  BY DEF FileInv, Sound
<1>7. QED
  BY <1>1, <1>3, <1>4, <1>5, <1>6, StillRecording

LEMMA WriteFailsInv ==
  ASSUME TypeOK, TypeOK', FileInv, WriteFails
  PROVE  FileInv'
<1> DEFINE held == Append(buf, written + 1)
<1>1. stage = "recording" /\ written < MaxRecords /\ written' = written + 1
  BY DEF WriteFails, Given
<1>2. /\ held \in Seq(1..MaxRecords) /\ held # <<>>
      /\ Accounted(disk.recs \o held, written + 1, unkept)
      /\ disk.tail = "cut" => held[1] \in unkept \/ held[1] - 1 \in unkept
      /\ written + 1 \in Nat /\ faults \in Nat
  BY <1>1, Text DEF Excused
<1> HIDE DEF held
<1>3. /\ FlushFails(held) /\ stage' = "recording" /\ faults' = faults + 1
      /\ UNCHANGED <<temp, unkept, loaded>>
  BY <1>1 DEF WriteFails, Fault, held
<1>4. /\ disk'.meta = disk.meta /\ buf' # <<>>
      /\ Accounted(disk'.recs \o buf', written', unkept')
      /\ Piece \in Elems(disk'.recs) => Piece \in Elems(disk.recs)
      /\ disk'.tail = "cut" => disk.tail = "cut" /\ buf' = held
  BY <1>1, <1>2, <1>3, FlushFailsKeeps
<1>5. disk'.tail = "cut" => Excused(IF buf = <<>> THEN written + 1 ELSE buf[1])'
  BY <1>2, <1>3, <1>4 DEF Excused
<1>6. /\ Piece \in Elems(disk.recs) \/ disk.tail = "cut" => unkept # {}
      /\ IsFiniteSet(unkept) /\ Cardinality(unkept) <= faults
  BY DEF FileInv, Sound
<1>7. Cardinality(unkept) <= faults + 1 /\ faults + 1 # 0
  BY <1>2, <1>6, FS_CardinalityType
<1>8. QED
  BY <1>1, <1>3, <1>4, <1>5, <1>6, <1>7, StillRecording

LEMMA LongWriteFailsInv ==
  ASSUME TypeOK, TypeOK', FileInv, LongWriteFails
  PROVE  FileInv'
<1> DEFINE gone == unkept \cup {written + 1}
<1>1. /\ stage = "recording" /\ stage' = "recording" /\ written' = written + 1
      /\ unkept' = gone /\ faults' = faults + 1 /\ UNCHANGED <<temp, loaded>>
  BY DEF LongWriteFails, Given, Fault
<1>2. /\ Accounted(disk.recs \o buf, written, unkept) /\ written \in Nat /\ faults \in Nat
      /\ disk.tail = "cut" /\ buf # <<>> => buf[1] \in gone \/ buf[1] - 1 \in gone
      /\ buf \in Seq(1..MaxRecords) /\ disk.recs \in Seq(Nat) /\ written + 1 \in Nat
  BY <1>1, Text DEF Excused, TypeOK
<1>3. Accounted(disk.recs \o buf, written + 1, gone)
  BY <1>2, AccountGone
<1>4. /\ gone # {} /\ IsFiniteSet(gone) /\ Cardinality(gone) <= faults + 1 /\ faults + 1 # 0
      /\ written + 1 \in gone
  <2>1. IsFiniteSet(unkept) /\ Cardinality(unkept) <= faults
    BY DEF FileInv
  <2>2. /\ IsFiniteSet(gone) /\ Cardinality(unkept) \in Nat
        /\ Cardinality(gone) = Cardinality(unkept) \/ Cardinality(gone) = Cardinality(unkept) + 1
    BY <2>1, FS_AddElement, FS_CardinalityType
  <2>3. QED
    BY <1>2, <2>1, <2>2
<1> HIDE DEF gone
<1>5. CASE FlushFails(buf)
  <2>1. buf # <<>>
    BY <1>5 DEF FlushFails, TypeOK
  <2>2. /\ disk'.meta = disk.meta /\ buf' # <<>>
        /\ Accounted(disk'.recs \o buf', written + 1, gone)
        /\ disk'.tail = "cut" => disk.tail = "cut" /\ buf' = buf
    BY <1>2, <1>3, <1>5, <2>1, FlushFailsKeeps
  <2>3. disk'.tail = "cut" => Excused(IF buf = <<>> THEN written + 1 ELSE buf[1])'
    BY <1>1, <1>2, <2>1, <2>2 DEF Excused
  <2>4. QED
    BY <1>1, <1>4, <2>2, <2>3, StillRecording
<1>6. CASE LongFile(Extended(disk, buf), disk') /\ buf' = <<>>
  <2> DEFINE file == Extended(disk, buf)
  <2>1. /\ file \in File /\ file.meta = disk.meta
        /\ Accounted(file.recs, written + 1, gone)
        /\ file.tail = IF buf = <<>> THEN disk.tail ELSE "whole"
    BY <1>2, <1>3, FlushKeeps
  <2>2. disk.tail = "torn" => buf # <<>>
    BY <1>1 DEF FileInv, Recording
  <2> HIDE DEF file
  <2>3. file.recs \in Seq(Nat)
    BY <2>1, BoundAssumption DEF File, Piece, BoundAssumption
  <2>4. LongFile(file, disk')
    BY <1>6 DEF file
  <2>5. Accounted(disk'.recs, written + 1, gone)
    <3>1. Accounted(Append(file.recs, Piece), written + 1, gone)
      BY <1>2, <2>1, <2>3, AccountPiece
    <3>2. disk'.recs \in {file.recs, Append(file.recs, Piece)}
      BY <2>4 DEF LongFile
    <3>3. QED
      BY <2>1, <3>1, <3>2
  <2>6. disk'.recs \o buf' = disk'.recs
    BY <1>6 DEF TypeOK, File
  <2>7. disk'.meta = disk.meta /\ disk'.tail # "torn"
    BY <2>1, <2>2, <2>4 DEF LongFile, TypeOK, File, Tails
  <2>8. Excused(IF buf = <<>> THEN written + 1 ELSE buf[1])'
    <3>1. buf' = <<>> /\ written' \in Nat /\ written' \in unkept'
      BY <1>1, <1>2, <1>4, <1>6
    <3>2. QED
      BY <3>1 DEF Excused
  <2>9. faults' = 0 => buf' = <<>>
    BY <1>6
  <2>10. QED
    BY <1>1, <1>4, <1>6, <2>5, <2>6, <2>7, <2>8, StillRecording
<1>7. QED
  BY <1>5, <1>6, LongWriteFailsCases

\* Closing the handle: what was left in the buffer follows what was flushed.
LEMMA CloseFlush ==
  ASSUME TypeOK, FileInv, stage = "recording"
  PROVE  LET file == Extended(disk, buf) IN
         /\ file.meta = disk.meta /\ file.tail # "torn"
         /\ Accounted(file.recs, written, unkept) /\ Sound(file)
         /\ unkept = {} => file.tail = "whole"
<1> DEFINE file == Extended(disk, buf)
<1>1. /\ Accounted(disk.recs \o buf, written, unkept) /\ written \in Nat
      /\ disk.tail = "cut" /\ buf # <<>> => buf[1] \in unkept \/ buf[1] - 1 \in unkept
      /\ buf \in Seq(1..MaxRecords)
  BY Text DEF Excused, TypeOK
<1>2. /\ file \in File /\ file.meta = disk.meta
      /\ Accounted(file.recs, written, unkept)
      /\ Piece \in Elems(file.recs) => Piece \in Elems(disk.recs)
      /\ file.tail = IF buf = <<>> THEN disk.tail ELSE "whole"
  BY <1>1, FlushKeeps
<1>3. /\ disk.tail = "torn" => buf # <<>>
      /\ Piece \in Elems(disk.recs) \/ disk.tail = "cut" => unkept # {}
      /\ disk.tail \in Tails
  BY DEF FileInv, Recording, Sound, TypeOK, File
<1> HIDE DEF file
<1>4. Sound(file)
  BY <1>2, <1>3 DEF Sound, Accounted
<1>5. QED
  BY <1>2, <1>3, <1>4 DEF file, Tails

LEMMA CloseHandleInv ==
  ASSUME TypeOK, TypeOK', FileInv, CloseHandle
  PROVE  FileInv'
<1>1. /\ stage = "recording" /\ stage' = "backfill" /\ buf' = <<>>
      /\ disk' = Extended(disk, buf)
      /\ UNCHANGED <<format, temp, unkept, lazy, loaded, written, faults>>
  BY DEF CloseHandle
<1>2. /\ disk'.meta = disk.meta /\ disk'.tail # "torn"
      /\ Accounted(disk'.recs, written, unkept) /\ Sound(disk')
  BY <1>1, CloseFlush
<1>3. disk.meta = {"base"} /\ loaded = Empty /\ Sound(loaded) /\ temp = {}
      /\ IsFiniteSet(unkept) /\ Cardinality(unkept) <= faults
  BY <1>1 DEF FileInv, Recording
<1>4. Sound(disk)' /\ Sound(loaded)'
  BY <1>1, <1>2, <1>3 DEF Sound
<1>5. QED
  BY <1>1, <1>2, <1>3, <1>4
     DEF FileInv, Recording, Backfill, Rewriting, Copying, Closed, Done

\* Every file of records leads the empty one.
LEMMA EmptyLeads ==
  ASSUME NEW f \in File
  PROVE  Leads(Empty.recs, f.recs)
BY EmptyFile DEF Leads, File

LEMMA CloseHandleFailsInv ==
  ASSUME TypeOK, TypeOK', FileInv, CloseHandleFails
  PROVE  FileInv'
<1>1. /\ stage = "recording" /\ stage' = "done" /\ buf # <<>> /\ faults' = faults + 1
      /\ UNCHANGED <<format, temp, unkept, lazy, loaded, written>>
  BY DEF CloseHandleFails, Fault
<1>2. disk.meta = {"base"} /\ loaded = Empty /\ Sound(loaded) /\ temp = {}
      /\ IsFiniteSet(unkept) /\ Cardinality(unkept) <= faults /\ Sound(disk)
  BY <1>1 DEF FileInv, Recording
<1>3. /\ Accounted(disk.recs \o buf, written, unkept) /\ written \in Nat /\ faults \in Nat
      /\ disk.tail = "cut" => buf[1] \in unkept \/ buf[1] - 1 \in unkept
      /\ buf \in Seq(1..MaxRecords)
  BY <1>1, Text DEF Excused, TypeOK
<1>4. disk'.meta = disk.meta /\ Sound(disk')
  <2>1. CASE FlushFails(buf)
    <3>1. /\ disk'.meta = disk.meta /\ Accounted(disk'.recs \o buf', written, unkept)
          /\ Piece \in Elems(disk'.recs) => Piece \in Elems(disk.recs)
          /\ disk'.tail = "cut" => disk.tail = "cut"
      BY <1>3, <2>1, FlushFailsKeeps
    <3>2. disk'.recs \in Seq(Nat) /\ buf' \in Seq(Nat)
      BY BoundAssumption DEF TypeOK, File, Piece, BoundAssumption
    <3>3. Increasing(disk'.recs)
      BY <3>1, <3>2, IncreasingStart DEF Accounted
    <3>4. QED
      BY <1>2, <3>1, <3>3 DEF Sound
  <2>2. CASE disk' = Extended(disk, buf) /\ buf' = <<>>
    BY <1>1, <2>2, CloseFlush
  <2>3. QED
    BY <2>1, <2>2 DEF CloseHandleFails
<1>5. Cardinality(unkept) <= faults + 1 /\ faults + 1 # 0
  BY <1>2, <1>3, FS_CardinalityType
<1>6. Leads(loaded.recs, disk'.recs)
  BY <1>2, EmptyLeads DEF TypeOK
<1>7. Sound(disk)' /\ Sound(loaded)'
  BY <1>1, <1>2, <1>4 DEF Sound
<1>8. QED
  BY <1>1, <1>2, <1>4, <1>5, <1>6, <1>7
     DEF FileInv, Recording, Backfill, Rewriting, Copying, Closed, Done

-----------------------------------------------------------------------------
\* What is read back: the beginning of a file with its records in order.
LEMMA LeadingPart ==
  ASSUME NEW f \in File, NEW g \in File, Leads(f.recs, g.recs)
  PROVE  /\ Increasing(g.recs) => Increasing(f.recs)
         /\ Elems(f.recs) \subseteq Elems(g.recs)
<1>1. f.recs \in Seq({Piece} \cup 1..MaxRecords) /\ g.recs \in Seq({Piece} \cup 1..MaxRecords)
  BY DEF File
<1>2. \A i \in 1..Len(f.recs) : i \in 1..Len(g.recs) /\ f.recs[i] = g.recs[i]
  BY <1>1 DEF Leads
<1>3. QED
  BY <1>2 DEF Increasing, Elems

\* One more record of a sequence that another one leads.
LEMMA LeadsOn ==
  ASSUME NEW X, NEW s \in Seq(X), NEW t \in Seq(X), Leads(s, t), Len(s) < Len(t)
  PROVE  Leads(Append(s, t[Len(s) + 1]), t)
<1>1. t[Len(s) + 1] \in X /\ Len(s) \in Nat
  OBVIOUS
<1>2. QED
  BY <1>1 DEF Leads

LEMMA WholeLeads ==
  ASSUME NEW X, NEW s \in Seq(X)
  PROVE  Leads(s, s)
BY DEF Leads

\* A step after which no record has moved ends the session.
LEMMA EndsInv ==
  ASSUME TypeOK, FileInv, stage' \in {"done", "crashed"},
         UNCHANGED <<format, disk, unkept, lazy, loaded, written>>,
         IsFiniteSet(unkept), Cardinality(unkept) <= faults',
         temp' # {} => stage' = "crashed" \/ (stage = "unlinking" /\ faults' >= 2),
         stage' = "done" /\ faults' = 0 =>
           /\ Accounted(disk.recs, written, unkept) /\ disk.tail = "whole"
           /\ disk.meta = {"base"} \cup lazy,
         stage = "rewriting" => stage' = "crashed" \/ faults' > 0,
         stage \in {"new", "recording", "backfill", "rewriting", "copying", "unlinking"}
  PROVE  FileInv'
<1>1. Sound(disk)' /\ Sound(loaded)'
  BY DEF FileInv, Sound
<1>2. stage # "rewriting" => Leads(loaded.recs, disk.recs)
  <2>1. stage \in {"new", "recording", "backfill"} => loaded = Empty
    BY DEF FileInv, Recording, Backfill
  <2>2. stage \in {"copying", "unlinking"} => loaded.recs = disk.recs
    BY DEF FileInv, Copying
  <2>3. disk.recs \in Seq({Piece} \cup 1..MaxRecords) /\ disk \in File
    BY DEF TypeOK, File
  <2>4. QED
    BY <2>1, <2>2, <2>3, EmptyLeads, WholeLeads
<1>3. Closed'
  BY <1>2 DEF Closed, FileInv, Rewriting
<1>4. Done'
  BY DEF Done, FileInv, Copying
<1>5. QED
  BY <1>1, <1>3, <1>4 DEF FileInv, Recording, Backfill, Rewriting, Copying

\* Without a fault nothing was cut, and all records are accounted for.
LEMMA NoFault ==
  ASSUME TypeOK, FileInv, faults = 0
  PROVE  unkept = {} /\ disk.tail # "cut" /\ loaded.tail # "cut"
         /\ Piece \notin Elems(disk.recs)
<1>1. Cardinality(unkept) \in Nat /\ Cardinality(unkept) <= 0 /\ IsFiniteSet(unkept)
  BY FS_CardinalityType DEF FileInv
<1>2. unkept = {}
  BY <1>1, FS_EmptySet
<1>3. QED
  BY <1>2 DEF FileInv, Sound

LEMMA NothingToBackfillInv ==
  ASSUME TypeOK, FileInv, NothingToBackfill \/ BackfillUnreadable
  PROVE  FileInv'
<1>1. /\ stage = "backfill" /\ stage' = "done"
      /\ UNCHANGED <<format, disk, temp, unkept, lazy, loaded, written, faults>>
  BY DEF NothingToBackfill, BackfillUnreadable
<1>2. /\ disk.meta = {"base"} /\ disk.tail # "torn" /\ temp = {}
      /\ Accounted(disk.recs, written, unkept)
      /\ IsFiniteSet(unkept) /\ Cardinality(unkept) <= faults
  BY <1>1 DEF FileInv, Backfill
<1>3. faults = 0 => disk.tail = "whole" /\ disk.meta = {"base"} \cup lazy
  <2>1. faults = 0 => Piece \notin Elems(disk.recs) /\ disk.tail # "cut"
    BY NoFault
  <2>2. disk.recs \in Seq({Piece} \cup 1..MaxRecords) /\ disk.tail \in Tails
    BY DEF TypeOK, File
  <2>3. BackfillUnreadable => Piece \in Elems(disk.recs)
    BY <2>2, ElemsIsRange DEF BackfillUnreadable
  <2>4. NothingToBackfill => disk.meta = {"base"} \cup lazy
    BY <1>2 DEF NothingToBackfill
  <2>5. QED
    BY <1>2, <2>1, <2>2, <2>3, <2>4 DEF Tails
<1>4. QED
  BY <1>1, <1>2, <1>3, EndsInv

\* A caught error of the backfill, of the copy or of the unlink.
LEMMA FailsInv ==
  ASSUME TypeOK, FileInv, BackfillFails \/ UnlinkFails
  PROVE  FileInv'
<1>1. /\ stage \in {"backfill", "unlinking"} /\ stage' = "done" /\ faults' = faults + 1
      /\ UNCHANGED <<format, disk, temp, unkept, lazy, loaded, written>>
  BY DEF BackfillFails, UnlinkFails, Fault
<1>2. /\ faults \in Nat /\ IsFiniteSet(unkept) /\ Cardinality(unkept) <= faults
      /\ Cardinality(unkept) \in Nat
  BY BoundAssumption, FS_CardinalityType DEF TypeOK, FileInv, BoundAssumption
<1>3. Cardinality(unkept) <= faults' /\ faults' # 0 /\ faults' > 0
  BY <1>1, <1>2
<1>4. temp' # {} => stage = "unlinking" /\ faults' >= 2
  <2>1. temp # {} => stage = "unlinking"
    BY <1>1 DEF FileInv
  <2>2. stage = "unlinking" => faults # 0
    BY DEF FileInv, Copying
  <2>3. QED
    BY <1>1, <1>2, <2>1, <2>2
<1>5. QED
  BY <1>1, <1>2, <1>3, <1>4, EndsInv

LEMMA UnlinkInv ==
  ASSUME TypeOK, FileInv, Unlink
  PROVE  FileInv'
<1>1. /\ stage = "unlinking" /\ stage' = "done" /\ temp' = {}
      /\ UNCHANGED <<format, disk, unkept, lazy, loaded, written, faults>>
  BY DEF Unlink
<1>2. IsFiniteSet(unkept) /\ Cardinality(unkept) <= faults /\ faults # 0
  BY <1>1 DEF FileInv, Copying
<1>3. QED
  BY <1>1, <1>2, EndsInv

\* The YAML file is read, then truncated.
LEMMA TruncateInv ==
  ASSUME TypeOK, FileInv, Truncate
  PROVE  FileInv'
<1>1. /\ stage = "backfill" /\ stage' = "rewriting" /\ format = "yaml" /\ lazy # {}
      /\ disk' = Empty /\ UNCHANGED <<format, temp, buf, unkept, lazy, written, faults>>
      /\ loaded'.recs = disk.recs /\ loaded'.meta = disk.meta \cup lazy
      /\ loaded'.tail = "whole"
  BY DEF Truncate, Backfilled, TypeOK, File
<1>2. /\ disk.meta = {"base"} /\ temp = {} /\ buf = <<>>
      /\ Accounted(disk.recs, written, unkept) /\ Sound(disk)
      /\ IsFiniteSet(unkept) /\ Cardinality(unkept) <= faults
  BY <1>1 DEF FileInv, Backfill
<1>3. Loaded'
  BY <1>1, <1>2 DEF Loaded
<1>4. Leads(disk'.recs, loaded'.recs)
  BY <1>1, EmptyLeads DEF TypeOK
<1>5. Sound(loaded)' /\ Sound(disk)' /\ disk'.tail = "whole" /\ disk'.recs = <<>>
  BY <1>1, <1>2, EmptyFile DEF Sound
<1>6. QED
  BY <1>1, <1>2, <1>3, <1>4, <1>5
     DEF FileInv, Recording, Backfill, Rewriting, Copying, Closed, Done

\* One more record of the YAML file is written again.
LEMMA RewriteRecordInv ==
  ASSUME TypeOK, TypeOK', FileInv, RewriteRecord
  PROVE  FileInv'
<1>1. /\ stage = "rewriting" /\ stage' = "rewriting" /\ Len(disk.recs) + 1 <= Len(loaded.recs)
      /\ disk'.recs = Append(disk.recs, loaded.recs[Len(disk.recs) + 1])
      /\ disk'.meta = disk.meta /\ disk'.tail = disk.tail
      /\ UNCHANGED <<format, temp, buf, unkept, lazy, loaded, written, faults>>
  BY DEF RewriteRecord, TypeOK, File
<1>2. /\ disk.recs \in Seq({Piece} \cup 1..MaxRecords)
      /\ loaded.recs \in Seq({Piece} \cup 1..MaxRecords)
      /\ Len(disk.recs) \in Nat /\ Len(loaded.recs) \in Nat
  BY DEF TypeOK, File
<1>3. /\ Leads(disk.recs, loaded.recs) /\ Loaded /\ Sound(loaded) /\ disk.tail = "whole"
      /\ format = "yaml" /\ lazy # {} /\ temp = {}
      /\ loaded.tail = "whole" /\ buf = <<>>
      /\ IsFiniteSet(unkept) /\ Cardinality(unkept) <= faults
  BY <1>1 DEF FileInv, Rewriting
<1>4. Leads(disk'.recs, loaded.recs)
  <2>1. Len(disk.recs) < Len(loaded.recs)
    BY <1>1, <1>2
  <2>2. QED
    BY <1>1, <1>2, <1>3, <2>1, LeadsOn
<1>5. Sound(disk)' /\ Sound(loaded)'
  <2>1. Increasing(disk'.recs) /\ Elems(disk'.recs) \subseteq Elems(loaded.recs)
    BY <1>3, <1>4, LeadingPart DEF TypeOK, Sound
  <2>2. QED
    BY <1>1, <1>3, <2>1 DEF Sound
<1>6. Loaded'
  BY <1>1, <1>3 DEF Loaded
<1>7. QED
  BY <1>1, <1>3, <1>4, <1>5, <1>6
     DEF FileInv, Recording, Backfill, Rewriting, Copying, Closed, Done

\* All of it is written, and the metadata last.
LEMMA RewriteMetaInv ==
  ASSUME TypeOK, FileInv, RewriteMeta
  PROVE  FileInv'
<1>1. /\ stage = "rewriting" /\ stage' = "done" /\ disk.recs = loaded.recs
      /\ disk'.recs = disk.recs /\ disk'.meta = loaded.meta /\ disk'.tail = disk.tail
      /\ UNCHANGED <<format, temp, buf, unkept, lazy, loaded, written, faults>>
  BY DEF RewriteMeta, TypeOK, File
<1>2. /\ Loaded /\ Sound(loaded) /\ Sound(disk) /\ disk.tail = "whole"
      /\ format = "yaml" /\ temp = {}
      /\ IsFiniteSet(unkept) /\ Cardinality(unkept) <= faults
  BY <1>1 DEF FileInv, Rewriting
<1>3. Leads(loaded'.recs, disk'.recs)
  <2>1. disk.recs \in Seq({Piece} \cup 1..MaxRecords)
    BY DEF TypeOK, File
  <2>2. QED
    BY <1>1, <2>1, WholeLeads
<1>4. Sound(disk)' /\ Sound(loaded)'
  BY <1>1, <1>2 DEF Sound
<1>5. QED
  BY <1>1, <1>2, <1>3, <1>4
     DEF FileInv, Loaded, Recording, Backfill, Rewriting, Copying, Closed, Done

LEMMA RewriteFailsInv ==
  ASSUME TypeOK, FileInv, RewriteFails
  PROVE  FileInv'
<1>1. /\ stage = "rewriting" /\ stage' = "done" /\ faults' = faults + 1
      /\ disk'.recs = disk.recs /\ disk'.meta = disk.meta /\ disk'.tail \in Ends(disk.tail)
      /\ UNCHANGED <<format, temp, buf, unkept, lazy, loaded, written>>
  BY DEF RewriteFails, Fault, TypeOK, File
<1>2. /\ Sound(loaded) /\ Sound(disk) /\ disk.tail = "whole"
      /\ format = "yaml" /\ lazy # {} /\ temp = {}
      /\ IsFiniteSet(unkept) /\ Cardinality(unkept) <= faults
  BY <1>1 DEF FileInv, Rewriting
<1>3. faults \in Nat /\ Cardinality(unkept) \in Nat
  BY <1>2, BoundAssumption, FS_CardinalityType DEF TypeOK, BoundAssumption
<1>4. Cardinality(unkept) <= faults' /\ faults' # 0 /\ faults' > 0
  BY <1>1, <1>2, <1>3
<1>5. Sound(disk)' /\ Sound(loaded)'
  BY <1>1, <1>2 DEF Sound, Ends
<1>6. QED
  BY <1>1, <1>2, <1>4, <1>5
     DEF FileInv, Recording, Backfill, Rewriting, Copying, Closed, Done

\* The NDJSON file is read, and a copy of it begun.
LEMMA MakeTempInv ==
  ASSUME TypeOK, FileInv, MakeTemp
  PROVE  FileInv'
<1>1. /\ stage = "backfill" /\ stage' = "copying" /\ format = "ndjson"
      /\ UNCHANGED <<format, disk, buf, unkept, lazy, written, faults>>
      /\ loaded'.recs = disk.recs /\ loaded'.meta = disk.meta \cup lazy
      /\ loaded'.tail = disk.tail
      /\ temp' = {[Empty EXCEPT !.meta = disk.meta \cup lazy]}
  BY DEF MakeTemp, Backfilled, TypeOK, File
<1>2. /\ disk.meta = {"base"} /\ disk.tail # "torn"
      /\ Accounted(disk.recs, written, unkept) /\ Sound(disk)
      /\ IsFiniteSet(unkept) /\ Cardinality(unkept) <= faults
  BY <1>1 DEF FileInv, Backfill
<1>3. Loaded'
  BY <1>1, <1>2 DEF Loaded
<1>4. \A f \in temp' : Leads(f.recs, loaded'.recs) /\ f.meta = {"base"} \cup lazy
  <2>1. \A f \in temp' : f.recs = Empty.recs /\ f.meta = {"base"} \cup lazy
    BY <1>1, <1>2, EmptyFile DEF File
  <2>2. QED
    BY <1>1, <2>1, EmptyLeads DEF TypeOK
<1>5. Sound(loaded)' /\ Sound(disk)'
  BY <1>1, <1>2 DEF Sound
<1>6. QED
  BY <1>1, <1>2, <1>3, <1>4, <1>5
     DEF FileInv, Recording, Backfill, Rewriting, Copying, Closed, Done

\* One more record of the NDJSON file reaches the temporary copy.
LEMMA CopyRecordInv ==
  ASSUME TypeOK, FileInv, CopyRecord
  PROVE  FileInv'
<1>1. PICK f \in temp :
        /\ Len(f.recs) < Len(loaded.recs)
        /\ temp' = {[f EXCEPT !.recs = Append(@, loaded.recs[Len(@) + 1])]}
  BY DEF CopyRecord
<1>2. /\ stage = "copying" /\ stage' = "copying"
      /\ UNCHANGED <<format, disk, buf, unkept, lazy, loaded, written, faults>>
  BY DEF CopyRecord
<1>3. /\ f \in File /\ f.recs \in Seq({Piece} \cup 1..MaxRecords)
      /\ loaded.recs \in Seq({Piece} \cup 1..MaxRecords)
      /\ Leads(f.recs, loaded.recs) /\ f.meta = {"base"} \cup lazy
  BY <1>2 DEF TypeOK, File, FileInv, Copying
<1>4. Leads(Append(f.recs, loaded.recs[Len(f.recs) + 1]), loaded.recs)
  BY <1>1, <1>3, LeadsOn
<1>5. \A g \in temp' :
        g.recs = Append(f.recs, loaded.recs[Len(f.recs) + 1]) /\ g.meta = f.meta
  BY <1>1, <1>3 DEF File
<1>6. Sound(loaded)' /\ Sound(disk)'
  BY <1>2 DEF FileInv, Sound
<1>7. \A g \in temp' : Leads(g.recs, loaded.recs) /\ g.meta = {"base"} \cup lazy
  BY <1>3, <1>4, <1>5
<1>8. QED
  BY <1>2, <1>6, <1>7
     DEF FileInv, Loaded, Recording, Backfill, Rewriting, Copying, Closed, Done

\* The copy takes the place of the file, or is given up.
LEMMA ReplaceInv ==
  ASSUME TypeOK, FileInv, Replace
  PROVE  FileInv'
<1>1. PICK f \in temp : f.recs = loaded.recs /\ disk' = [f EXCEPT !.tail = loaded.tail]
  BY DEF Replace
<1>2. /\ stage = "copying" /\ stage' = "done" /\ temp' = {}
      /\ UNCHANGED <<format, buf, unkept, lazy, loaded, written, faults>>
  BY DEF Replace
<1>3. /\ Loaded /\ loaded.tail # "torn" /\ f.meta = {"base"} \cup lazy /\ f \in File
      /\ Sound(loaded) /\ format = "ndjson"
      /\ IsFiniteSet(unkept) /\ Cardinality(unkept) <= faults
  BY <1>2 DEF TypeOK, FileInv, Copying
<1>4. /\ disk'.recs = loaded.recs /\ disk'.tail = loaded.tail
      /\ disk'.meta = {"base"} \cup lazy
  BY <1>1, <1>3 DEF File
<1>5. Sound(disk)' /\ Sound(loaded)'
  BY <1>2, <1>3, <1>4 DEF Sound
<1>6. Leads(loaded'.recs, disk'.recs)
  <2>1. loaded.recs \in Seq({Piece} \cup 1..MaxRecords)
    BY DEF TypeOK, File
  <2>2. QED
    BY <1>2, <1>4, <2>1, WholeLeads
<1>7. faults = 0 => disk'.tail = "whole"
  BY <1>3, <1>4, NoFault DEF TypeOK, File, Tails
<1>8. QED
  BY <1>2, <1>3, <1>4, <1>5, <1>6, <1>7
     DEF FileInv, Loaded, Recording, Backfill, Rewriting, Copying, Closed, Done

LEMMA CopyFailsInv ==
  ASSUME TypeOK, FileInv, CopyFails
  PROVE  FileInv'
<1>1. /\ stage = "copying" /\ stage' = "unlinking" /\ faults' = faults + 1
      /\ UNCHANGED <<format, disk, temp, buf, unkept, lazy, loaded, written>>
  BY DEF CopyFails, Fault
<1>2. /\ faults \in Nat /\ IsFiniteSet(unkept) /\ Cardinality(unkept) <= faults
      /\ Cardinality(unkept) \in Nat
  BY BoundAssumption, FS_CardinalityType DEF TypeOK, FileInv, BoundAssumption
<1>3. Cardinality(unkept) <= faults' /\ faults' # 0
  BY <1>1, <1>2
<1>4. Sound(disk)' /\ Sound(loaded)'
  BY <1>1 DEF FileInv, Sound
<1>5. QED
  BY <1>1, <1>2, <1>3, <1>4
     DEF FileInv, Loaded, Recording, Backfill, Rewriting, Copying, Closed, Done

\* The process dies, with some of what the handle held on disk.
LEMMA CrashInv ==
  ASSUME TypeOK, TypeOK', FileInv, Crash
  PROVE  FileInv'
<1>1. /\ stage \notin {"done", "crashed"} /\ stage' = "crashed"
      /\ UNCHANGED <<format, temp, unkept, lazy, loaded, written, faults>>
      /\ IsFiniteSet(unkept) /\ Cardinality(unkept) <= faults
      /\ Sound(disk) /\ Sound(loaded)
  BY DEF Crash, FileInv
<1>2. CASE disk' = disk
  <2>1. stage \in {"new", "recording", "backfill", "rewriting", "copying", "unlinking"}
    BY <1>1 DEF TypeOK
  <2>2. QED
    BY <1>1, <1>2, <2>1, EndsInv
<1>3. CASE stage \in {"recording", "rewriting"} /\ \E n \in 0..Len(buf) : WrittenUpTo(buf, n)
  <2>1. PICK n \in 0..Len(buf) : WrittenUpTo(buf, n)
    BY <1>3
  <2>2. PICK file \in File :
          /\ Extends(file, buf, n) /\ disk'.recs = file.recs /\ disk'.meta = file.meta
          /\ disk' \in File /\ disk'.tail \in Ends(file.tail)
    BY <2>1, WrittenFile DEF TypeOK
  <2>3. disk'.meta = disk.meta /\ (disk'.tail = "cut" => disk.tail = "cut")
        /\ (Piece \in Elems(disk'.recs) => Piece \in Elems(disk.recs))
    BY <2>2 DEF Extends, Ends
  <2>4. Increasing(disk'.recs)
    <3>1. Increasing(disk.recs \o buf)
      <4>1. CASE stage = "recording"
        BY <4>1 DEF FileInv, Recording, Accounted
      <4>2. CASE stage = "rewriting"
        <5>1. buf = <<>> /\ disk.recs \o <<>> = disk.recs
          BY <4>2 DEF FileInv, Rewriting, TypeOK, File
        <5>2. QED
          BY <1>1, <5>1 DEF Sound
      <4>3. QED
        BY <1>3, <4>1, <4>2
    <3>2. Increasing(disk'.recs \o SubSeq(buf, n + 1, Len(buf)))
      BY <2>2, <3>1 DEF Extends, Thinned
    <3>3. disk'.recs \in Seq(Nat) /\ SubSeq(buf, n + 1, Len(buf)) \in Seq(Nat)
      <4>1. buf \in Seq(Nat)
        BY BoundAssumption DEF TypeOK, BoundAssumption
      <4>2. disk'.recs \in Seq(Nat)
        BY <2>2, BoundAssumption DEF File, Piece, BoundAssumption
      <4>3. QED
        BY <4>1, <4>2, RestType
    <3>4. QED
      BY <3>2, <3>3, IncreasingStart
  <2>5. Sound(disk)' /\ Sound(loaded)'
    BY <1>1, <2>3, <2>4 DEF Sound
  <2>6. Closed'
    <3>1. CASE stage = "recording"
      <4>1. Leads(loaded.recs, disk'.recs)
        BY <2>2, <3>1, EmptyLeads DEF FileInv, Recording
      <4>2. QED
        BY <1>1, <4>1 DEF Closed
    <3>2. CASE stage = "rewriting"
      BY <1>1, <3>2 DEF FileInv, Rewriting, Closed
    <3>3. QED
      BY <1>3, <3>1, <3>2
  <2>7. format = "ndjson" /\ disk'.recs # <<>> => "base" \in disk'.meta
    BY <1>3, <2>3 DEF FileInv, Recording, Rewriting
  <2>8. QED
    BY <1>1, <2>5, <2>6, <2>7
       DEF FileInv, Recording, Backfill, Rewriting, Copying, Done
<1>4. QED
  BY <1>2, <1>3 DEF Crash

\* The header is written, or is not, before there are records.
LEMMA StartInv ==
  ASSUME TypeOK, FileInv, StartSession \/ StartSessionFails
  PROVE  FileInv'
<1>1. /\ stage = "new" /\ loaded' = Empty /\ temp' = {} /\ buf' = <<>> /\ unkept' = {}
      /\ written' = 0 /\ disk'.recs = <<>> /\ disk'.tail # "cut"
  BY EmptyFile DEF StartSession, StartSessionFails, FileInv, File
<1>2. faults \in Nat /\ faults' \in Nat
  BY BoundAssumption DEF TypeOK, StartSession, StartSessionFails, Fault, BoundAssumption
<1>3. /\ IsFiniteSet(unkept') /\ Cardinality(unkept') <= faults'
  BY <1>1, <1>2, FS_EmptySet
<1>4. Sound(disk)' /\ Sound(loaded)'
  BY <1>1, EmptyFile DEF Sound
<1>5. CASE StartSession
  <2>1. stage' = "recording" /\ disk'.meta = {"base"} /\ disk'.tail = "whole"
    BY <1>5, EmptyFile DEF StartSession, File
  <2>2. Accounted(disk'.recs \o buf', written', unkept')
    <3>1. disk'.recs \o buf' = Empty.recs /\ written' = 0
      BY <1>1, EmptyFile
    <3>2. Accounted(Empty.recs, 0, {})
      BY EmptyFile DEF Accounted
    <3>3. QED
      BY <1>1, <3>1, <3>2
  <2>3. QED
    BY <1>1, <1>3, <1>4, <2>1, <2>2
       DEF FileInv, Recording, Backfill, Rewriting, Copying, Closed, Done
<1>6. CASE StartSessionFails
  <2>1. stage' = "done" /\ faults' # 0
    BY <1>2, <1>6 DEF StartSessionFails, Fault
  <2>2. Leads(loaded'.recs, disk'.recs)
    BY <1>1, EmptyFile, EmptyLeads
  <2>3. QED
    BY <1>1, <1>3, <1>4, <2>1, <2>2
       DEF FileInv, Recording, Backfill, Rewriting, Copying, Closed, Done
<1>7. QED
  BY <1>5, <1>6

(* The invariant is inductive.                                              *)
LEMMA FileCorrect == Spec => []FileInv
<1>1. Init => FileInv
  <2> SUFFICES ASSUME Init PROVE FileInv
    OBVIOUS
  <2>1. Sound(disk) /\ Sound(loaded)
    BY EmptyFile DEF Init, Sound
  <2>2. IsFiniteSet(unkept) /\ Cardinality(unkept) <= faults
    BY FS_EmptySet DEF Init
  <2>3. QED
    BY <2>1, <2>2, EmptyFile
       DEF Init, FileInv, Recording, Backfill, Rewriting, Copying, Closed, Done
<1>2. TypeOK /\ TypeOK' /\ FileInv /\ [Next]_vars => FileInv'
  <2> SUFFICES ASSUME TypeOK, TypeOK', FileInv, [Next]_vars
               PROVE  FileInv'
    OBVIOUS
  <2>1. CASE StartSession \/ StartSessionFails
    BY <2>1, StartInv
  <2>2. CASE Write
    BY <2>2, WriteInv
  <2>3. CASE WriteFails
    BY <2>3, WriteFailsInv
  <2>4. CASE LongWriteFails
    BY <2>4, LongWriteFailsInv
  <2>5. ASSUME NEW field \in LazyFields, UpdateLazyMetadata(field)
       PROVE  FileInv'
    BY <2>5 DEF UpdateLazyMetadata, FileInv, Sound, Recording, Backfill, Rewriting,
                Copying, Closed, Done, Excused
  <2>6. CASE CloseHandle
    BY <2>6, CloseHandleInv
  <2>7. CASE CloseHandleFails
    BY <2>7, CloseHandleFailsInv
  <2>8. CASE NothingToBackfill \/ BackfillUnreadable
    BY <2>8, NothingToBackfillInv
  <2>9. CASE BackfillFails \/ UnlinkFails
    BY <2>9, FailsInv
  <2>10. CASE Truncate
    BY <2>10, TruncateInv
  <2>11. CASE RewriteRecord
    BY <2>11, RewriteRecordInv
  <2>12. CASE RewriteMeta
    BY <2>12, RewriteMetaInv
  <2>13. CASE RewriteFails
    BY <2>13, RewriteFailsInv
  <2>14. CASE MakeTemp
    BY <2>14, MakeTempInv
  <2>15. CASE CopyRecord
    BY <2>15, CopyRecordInv
  <2>16. CASE Replace
    BY <2>16, ReplaceInv
  <2>17. CASE CopyFails
    BY <2>17, CopyFailsInv
  <2>18. CASE Unlink
    BY <2>18, UnlinkInv
  <2>19. CASE Crash
    BY <2>19, CrashInv
  <2>20. CASE UNCHANGED vars
    BY <2>20 DEF vars, FileInv, Sound, Loaded, Recording, Backfill, Rewriting,
                 Copying, Closed, Done, Excused
  <2>21. QED
    BY <2>1, <2>2, <2>3, <2>4, <2>5, <2>6, <2>7, <2>8, <2>9, <2>10,
       <2>11, <2>12, <2>13, <2>14, <2>15, <2>16, <2>17, <2>18, <2>19, <2>20
       DEF Next
<1>3. QED
  BY <1>1, <1>2, TypeCorrect, PTL DEF Spec

\* The elements of the file and of the handle, as the properties name them.
LEMMA Ranges ==
  ASSUME TypeOK
  PROVE  /\ Range(disk.recs) = Elems(disk.recs) /\ Range(buf) = Elems(buf)
         /\ disk.recs \in Seq({Piece} \cup 1..MaxRecords)
         /\ Elems(disk.recs \o buf) \subseteq Elems(disk.recs) \cup Elems(buf)
<1>1. disk.recs \in Seq({Piece} \cup 1..MaxRecords)
  BY DEF TypeOK, File
<1>2. buf \in Seq({Piece} \cup 1..MaxRecords)
  <2>1. buf \in Seq(1..MaxRecords)
    BY DEF TypeOK
  <2> DEFINE K == {Piece} \cup 1..MaxRecords
  <2>2. 1..MaxRecords \subseteq K
    OBVIOUS
  <2> HIDE DEF K
  <2>3. buf \in Seq(K)
    BY <2>1, <2>2, WiderSeq
  <2>4. QED
    BY <2>3 DEF K
<1>3. QED
  BY <1>1, <1>2, ElemsIsRange, ConcatElems

(* The records of the file are in the order of the writes, none twice, with *)
(* a piece of one only after an error on a record that had no room, through *)
(* failed flushes, failed backfills and crashes.                            *)
THEOREM InOrderCorrect == Spec => []RecordsInOrder
<1>1. TypeOK /\ FileInv => RecordsInOrder
  BY Ranges DEF FileInv, Sound, Increasing, RecordsInOrder
<1>2. QED
  BY <1>1, TypeCorrect, FileCorrect, PTL

(* An error of a write costs at most its record and the next one, and only  *)
(* if its record had no room in the handle; a close() without errors leaves *)
(* a complete file, and one whose unlink failed the file it found.          *)
THEOREM NothingLostCorrect == Spec => []NothingLost
<1>1. TypeOK /\ FileInv => NothingLost
  <2> SUFFICES ASSUME TypeOK, FileInv
               PROVE  NothingLost
    OBVIOUS
  <2>1. ASSUME stage \in {"recording", "backfill"}, NEW k \in 1..written
        PROVE  k \in Range(disk.recs) \cup Range(buf) \/ Excused(k)
    <3>1. CASE stage = "recording"
      BY <2>1, <3>1, Ranges DEF FileInv, Recording, Accounted, Excused
    <3>2. CASE stage = "backfill"
      BY <2>1, <3>2, Ranges DEF FileInv, Backfill, Accounted, Excused
    <3>3. QED
      BY <2>1, <3>1, <3>2
  <2>2. Cardinality(unkept) <= faults /\ (stage = "backfill" => buf = <<>>)
    BY DEF FileInv, Backfill
  <2>3. ASSUME stage = "done", faults = 0
        PROVE  /\ 1..written \subseteq Range(disk.recs) /\ disk.tail = "whole"
               /\ disk.meta = {"base"} \cup lazy
    <3>1. unkept = {}
      BY <2>3, NoFault
    <3>2. QED
      BY <2>3, <3>1, Ranges DEF FileInv, Done, Accounted
  <2>4. stage = "done" /\ temp # {} =>
          faults >= 2 /\ disk.recs = loaded.recs /\ disk.meta = {"base"}
    BY DEF FileInv, Done
  <2>5. QED
    BY <2>1, <2>2, <2>3, <2>4 DEF NothingLost
<1>2. QED
  BY <1>1, TypeCorrect, FileCorrect, PTL

\* What leads a sequence is a prefix of it.
LEMMA LeadsPrefix ==
  ASSUME NEW X, NEW s \in Seq(X), NEW t \in Seq(X), Leads(s, t)
  PROVE  IsPrefix(s, t)
<1>1. SubSeq(s, 1, Len(s)) = SubSeq(t, 1, Len(s))
  BY DEF Leads
<1>2. QED
  BY <1>1 DEF IsPrefix, Leads

(* The backfill takes no record from a file it has read, but for YAML after *)
(* a crash or an error; an NDJSON file with records has its meta line.      *)
THEOREM BackfillCorrect == Spec => []BackfillKeepsRecords
<1>1. TypeOK /\ FileInv => BackfillKeepsRecords
  <2> SUFFICES ASSUME TypeOK, FileInv
               PROVE  BackfillKeepsRecords
    OBVIOUS
  <2>1. /\ disk.recs \in Seq({Piece} \cup 1..MaxRecords)
        /\ loaded.recs \in Seq({Piece} \cup 1..MaxRecords)
    BY DEF TypeOK, File
  <2>2. Leads(loaded.recs, disk.recs) => IsPrefix(loaded.recs, disk.recs)
    BY <2>1, LeadsPrefix
  <2>3. QED
    BY <2>2 DEF FileInv, Closed, BackfillKeepsRecords, KeepsLoaded
<1>2. QED
  BY <1>1, TypeCorrect, FileCorrect, PTL

-----------------------------------------------------------------------------
(* Regression                                                              *)

(* ----------------------------- transcripts ----------------------------- *)

LeafType == [kind : {"text", "id", "stamp", "uuid"}, v : Nat]
MessageType ==
  [dir : {"c2s", "s2c"}, kind : {"request", "note", "reply", "answer"}, id : Nat,
   leaves : Seq(LeafType)]

\* The messages a side sends have different ids, requests and replies have one,
\* and a reply says something.
Distinct(msgs) ==
  \A i, j \in DOMAIN msgs :
    (msgs[i].dir = msgs[j].dir /\ msgs[i].id = msgs[j].id /\ msgs[i].id # NoId) => i = j
Proper(msgs) ==
  \A i \in DOMAIN msgs : /\ msgs[i].kind \in {"request", "reply"} => msgs[i].id # NoId
                         /\ msgs[i].kind = "reply" => msgs[i].leaves # <<>>
Good(msgs) == msgs \in Seq(MessageType) /\ Distinct(msgs) /\ Proper(msgs)

(* ----------------------------- invariants ------------------------------ *)

FilesInv ==
  /\ Good(session) /\ volatile \in BOOLEAN /\ nested \in BOOLEAN
  /\ golden = Absent \/ Good(golden)
  /\ replays \in Seq(Seq(MessageType)) /\ \A i \in DOMAIN replays : Good(replays[i])
  /\ version \in Nat /\ ran \in Nat

\* The files that a check still replays end with the session.
CommandInv ==
  /\ Idle => out = <<>> /\ taken = <<>>
  /\ ~Idle => cmd = last /\ Good(source)
  /\ last = "verify" => golden # Absent
  /\ cmd = "replay" => source = session
  /\ cmd = "check" =>
       /\ queue \in Seq(Seq(MessageType)) /\ queue # <<>>
       /\ source = Head(queue) /\ queue[Len(queue)] = session
       /\ \A i \in DOMAIN queue : Good(queue[i])

\* The server says its version in each answer.
Answers ==
  {l \in [kind : {"reply"}, id : Nat \ {0}, body : Seq(LeafType), to : MessageType] :
     l.body = Answer(version, ran, l.id)}
ServerInv ==
  /\ asked \subseteq MessageType /\ \A req \in asked : req.id # NoId
  /\ out \in Seq(NoiseLines \cup Answers)

\* An id is sent, wanted and answered once.
TodoInv ==
  /\ Good(todo) /\ \A i \in DOMAIN todo : todo[i].dir = "c2s"
  /\ \A i \in DOMAIN todo : todo[i].id # NoId =>
       todo[i].id # wanted /\ \A j \in DOMAIN taken : taken[j].id # todo[i].id
TakenInv ==
  /\ Good(taken) /\ \A i \in DOMAIN taken : taken[i].dir = "s2c"
  /\ wanted \in Nat /\ (wanted # NoId => \A j \in DOMAIN taken : taken[j].id # wanted)
  /\ Says(taken, version)

RegressionInv == FilesInv /\ CommandInv /\ ServerInv /\ TodoInv /\ TakenInv /\ PassIsTrue

(* ------------------------- selected messages --------------------------- *)

\* The messages of one side are messages of the transcript, each of them once.
Picks(p, sent, msgs, dir, n) ==
  /\ p \in [1..Len(sent) -> 1..n]
  /\ \A k \in 1..Len(sent) : sent[k] = msgs[p[k]] /\ sent[k].dir = dir
  /\ \A j, k \in 1..Len(sent) : p[j] = p[k] => j = k
LEMMA SentIs ==
  ASSUME NEW X, NEW msgs \in Seq(X), NEW dir
  PROVE  Sent(msgs, dir) \in Seq(X) /\ \E p : Picks(p, Sent(msgs, dir), msgs, dir, Len(msgs))
<1> DEFINE part(m) == IF m.dir = dir THEN <<m>> ELSE <<>>
           s == [i \in DOMAIN msgs |-> part(msgs[i])]
<1>1. Len(msgs) \in Nat /\ DOMAIN msgs = 1..Len(msgs) /\ \A i \in 1..Len(msgs) : msgs[i] \in X
  OBVIOUS
<1>2. s \in Seq(Seq(X)) /\ Len(s) = Len(msgs) /\ \A i \in 1..Len(msgs) : s[i] = part(msgs[i])
  <2>1. \A i \in 1..Len(msgs) : part(msgs[i]) \in Seq(X)
    BY <1>1
  <2>2. QED
    BY <1>1, <2>1
<1>3. Sent(msgs, dir) = FlattenSeq(s)
  BY DEF Sent
<1> HIDE DEF s
<1>4. CASE msgs = <<>>
  <2>1. Len(s) = 0 /\ s = <<>> /\ FlattenSeq(s) = <<>>
    BY <1>2, <1>4 DEF FlattenSeq
  <2>2. Picks(<<>>, <<>>, msgs, dir, Len(msgs))
    BY <1>4 DEF Picks
  <2>3. Sent(msgs, dir) = <<>> /\ <<>> \in Seq(X)
    BY <1>3, <2>1
  <2>4. QED
    BY <2>2, <2>3
<1>5. CASE msgs # <<>>
  <2>1. s # <<>> /\ Len(msgs) >= 1
    BY <1>1, <1>2, <1>5
  <2>2. PICK f : /\ Flattens(f, s) /\ FlattenSeq(s) = f[Len(s)]
                 /\ \A m \in 1..Len(s) : f[m] \in Seq(X)
    BY <1>2, <2>1, FlattenIs
  <2>3. \A m \in 1..Len(msgs) : f[m] = IF m = 1 THEN s[m] ELSE f[m - 1] \o s[m]
    BY <1>2, <2>2 DEF Flattens
  <2> DEFINE Does(m) == \E p : Picks(p, f[m], msgs, dir, m)
             S == {m \in Nat : m \in 1..Len(msgs) => Does(m)}
  <2>4. Does(1)
    <3>1. f[1] = part(msgs[1])
      BY <1>2, <2>1, <2>3
    <3>2. CASE msgs[1].dir = dir
      <4>1. f[1] = <<msgs[1]>>
        BY <3>1, <3>2
      <4>2. Picks(<<1>>, f[1], msgs, dir, 1)
        BY <3>2, <4>1 DEF Picks
      <4>3. QED
        BY <4>2
    <3>3. CASE msgs[1].dir # dir
      <4>1. f[1] = <<>>
        BY <3>1, <3>3
      <4>2. Picks(<<>>, f[1], msgs, dir, 1)
        BY <4>1 DEF Picks
      <4>3. QED
        BY <4>2
    <3>4. QED
      BY <3>2, <3>3
  <2>5. ASSUME NEW m \in Nat, m \in S, m + 1 \in 1..Len(msgs)
        PROVE  Does(m + 1)
    <3>1. CASE m = 0
      BY <2>4, <3>1
    <3>2. CASE m # 0
      <4>1. m \in 1..Len(msgs) /\ (m + 1) - 1 = m /\ m + 1 # 1
        BY <2>5, <3>2
      <4>2. PICK p : Picks(p, f[m], msgs, dir, m)
        BY <2>5, <4>1
      <4>3. f[m + 1] = f[m] \o part(msgs[m + 1]) /\ f[m] \in Seq(X) /\ msgs[m + 1] \in X
        BY <1>1, <1>2, <2>2, <2>3, <2>5, <4>1
      <4>4. CASE msgs[m + 1].dir # dir
        <5>1. f[m + 1] = f[m]
          BY <4>3, <4>4
        <5>2. Picks(p, f[m], msgs, dir, m + 1)
          <6>1. 1..m \subseteq 1..(m + 1)
            BY <4>1
          <6>2. p \in [1..Len(f[m]) -> 1..(m + 1)]
            BY <4>2, <6>1 DEF Picks
          <6>3. QED
            BY <4>2, <6>2 DEF Picks
        <5>3. QED
          BY <5>1, <5>2
      <4>5. CASE msgs[m + 1].dir = dir
        <5> DEFINE q == [k \in 1..(Len(f[m]) + 1) |-> IF k <= Len(f[m]) THEN p[k] ELSE m + 1]
        <5>1. /\ f[m + 1] = f[m] \o <<msgs[m + 1]>> /\ Len(f[m + 1]) = Len(f[m]) + 1
              /\ Len(f[m]) \in Nat /\ f[m + 1][Len(f[m]) + 1] = msgs[m + 1]
              /\ \A k \in 1..Len(f[m]) : f[m + 1][k] = f[m][k]
          BY <4>3, <4>5
        <5>2. /\ q \in [1..Len(f[m + 1]) -> 1..(m + 1)] /\ q[Len(f[m]) + 1] = m + 1
              /\ \A k \in 1..Len(f[m]) : q[k] = p[k] /\ q[k] \in 1..m
          <6>1. \A k \in 1..Len(f[m]) : p[k] \in 1..m
            BY <4>2 DEF Picks
          <6>2. /\ DOMAIN q = 1..Len(f[m + 1]) /\ q[Len(f[m]) + 1] = m + 1
                /\ \A k \in 1..Len(f[m]) : q[k] = p[k]
            BY <5>1
          <6>3. \A k \in 1..Len(f[m + 1]) : k \in 1..Len(f[m]) \/ k = Len(f[m]) + 1
            BY <5>1
          <6>4. \A k \in 1..Len(f[m + 1]) : q[k] \in 1..(m + 1)
            BY <4>1, <6>1, <6>2, <6>3
          <6>5. q = [k \in DOMAIN q |-> q[k]]
            OBVIOUS
          <6>6. QED
            BY <6>1, <6>2, <6>4, <6>5
        <5> HIDE DEF q
        <5>3. \A k \in 1..Len(f[m + 1]) : k \in 1..Len(f[m]) \/ k = Len(f[m]) + 1
          BY <5>1
        <5>4. \A k \in 1..Len(f[m + 1]) : f[m + 1][k] = msgs[q[k]] /\ f[m + 1][k].dir = dir
          BY <4>2, <4>5, <5>1, <5>2, <5>3 DEF Picks
        <5>5. \A k \in 1..Len(f[m]) : q[k] # m + 1
          BY <5>2
        <5>6. \A j, k \in 1..Len(f[m + 1]) : q[j] = q[k] => j = k
          BY <4>2, <5>2, <5>3, <5>5 DEF Picks
        <5>7. Picks(q, f[m + 1], msgs, dir, m + 1)
          BY <5>2, <5>4, <5>6 DEF Picks
        <5>8. QED
          BY <5>7
      <4>6. QED
        BY <4>4, <4>5
    <3>3. QED
      BY <3>1, <3>2
  <2>6. Nat \subseteq S
    <3>0. 0 \in S
      BY <1>1
    <3>1. ASSUME NEW m \in Nat, m \in S PROVE m + 1 \in S
      <4>1. m + 1 \in Nat
        OBVIOUS
      <4>2. m + 1 \in 1..Len(msgs) => Does(m + 1)
        BY <2>5, <3>1
      <4>3. QED
        BY <4>1, <4>2
    <3> HIDE DEF S
    <3>2. QED
      BY <3>0, <3>1, Induction
  <2>7. Does(Len(msgs))
    BY <1>1, <2>1, <2>6
  <2>8. QED
    BY <1>2, <1>3, <2>1, <2>2, <2>7
<1>6. QED
  BY <1>4, <1>5

LEMMA SentGood ==
  ASSUME NEW msgs, Good(msgs), NEW dir
  PROVE  /\ Good(Sent(msgs, dir))
         /\ \A i \in DOMAIN Sent(msgs, dir) : Sent(msgs, dir)[i].dir = dir
<1>1. msgs \in Seq(MessageType) /\ DOMAIN msgs = 1..Len(msgs)
  BY DEF Good
<1>2. PICK t : t = Sent(msgs, dir)
  OBVIOUS
<1>3. t \in Seq(MessageType) /\ \E p : Picks(p, t, msgs, dir, Len(msgs))
  BY <1>1, <1>2, SentIs
<1>4. PICK p : Picks(p, t, msgs, dir, Len(msgs))
  BY <1>3
<1>5. /\ DOMAIN t = 1..Len(t)
      /\ \A k \in DOMAIN t : t[k] = msgs[p[k]] /\ t[k].dir = dir /\ p[k] \in DOMAIN msgs
      /\ \A j, k \in DOMAIN t : p[j] = p[k] => j = k
  BY <1>1, <1>3, <1>4 DEF Picks
<1>6. Distinct(t)
  BY <1>5 DEF Good, Distinct
<1>7. Proper(t)
  BY <1>5 DEF Good, Proper
<1>8. QED
  BY <1>2, <1>3, <1>5, <1>6, <1>7 DEF Good

(* ------------------------- what is numbered ---------------------------- *)

\* The walk meets the id of a message and every leaf of its kind.
LEMMA ValuesIs ==
  ASSUME NEW m \in MessageType, NEW kind
  PROVE  /\ Values(m, kind) \in Seq(Nat)
         /\ (kind = "id" /\ m.id # 0) => m.id \in Elems(Values(m, kind))
         /\ \A j \in DOMAIN m.leaves :
              m.leaves[j].kind = kind => m.leaves[j].v \in Elems(Values(m, kind))
<1> DEFINE own == IF kind = "id" /\ m.id # 0 THEN <<m.id>> ELSE <<>>
           part(x) == IF x.kind = kind THEN <<x.v>> ELSE <<>>
           s == [i \in DOMAIN m.leaves |-> part(m.leaves[i])]
<1>1. m.id \in Nat /\ m.leaves \in Seq(LeafType)
  BY DEF MessageType
<1>2. \A x \in LeafType : part(x) \in Seq(Nat)
  BY DEF LeafType
<1>3. /\ s \in Seq(Seq(Nat)) /\ DOMAIN m.leaves = 1..Len(s)
      /\ \A i \in 1..Len(s) : s[i] = part(m.leaves[i])
  <2>1. DOMAIN m.leaves = 1..Len(m.leaves) /\ \A i \in 1..Len(m.leaves) : m.leaves[i] \in LeafType
    BY <1>1
  <2>2. \A i \in 1..Len(m.leaves) : part(m.leaves[i]) \in Seq(Nat)
    BY <1>2, <2>1
  <2>3. Len(m.leaves) \in Nat
    BY <1>1
  <2> HIDE DEF part
  <2>4. QED
    BY <2>1, <2>2, <2>3
<1>4. FlattenSeq(s) \in Seq(Nat)
  <2>1. <<>> \in Seq(Nat)
    OBVIOUS
  <2> HIDE DEF s
  <2>2. QED
    BY <1>3, <2>1, FlattenAppend
<1>5. own \in Seq(Nat) /\ ((kind = "id" /\ m.id # 0) => m.id \in Elems(own))
  BY <1>1 DEF Elems
<1>6. Values(m, kind) = own \o FlattenSeq(s)
  BY DEF Values
<1>7. \A j \in DOMAIN m.leaves : m.leaves[j].kind = kind => m.leaves[j].v \in Elems(FlattenSeq(s))
  <2>1. SUFFICES ASSUME NEW j \in DOMAIN m.leaves, m.leaves[j].kind = kind
                 PROVE  m.leaves[j].v \in Elems(FlattenSeq(s))
    OBVIOUS
  <2>2. j \in 1..Len(s) /\ s[j] = <<m.leaves[j].v>>
    BY <1>3, <2>1
  <2>3. m.leaves[j].v \in Elems(s[j])
    BY <2>2 DEF Elems
  <2> HIDE DEF s
  <2>4. QED
    BY <1>3, <2>2, <2>3, FlattenElems
<1> HIDE DEF own, s
<1>8. /\ own \o FlattenSeq(s) \in Seq(Nat)
      /\ Elems(own) \cup Elems(FlattenSeq(s)) \subseteq Elems(own \o FlattenSeq(s))
  BY <1>4, <1>5, ConcatElems
<1>9. QED
  BY <1>5, <1>6, <1>7, <1>8

LEMMA WalkIs ==
  ASSUME NEW msgs \in Seq(MessageType), NEW kind
  PROVE  /\ Walk(msgs, kind) \in Seq(Nat)
         /\ \A i \in DOMAIN msgs :
              /\ (kind = "id" /\ msgs[i].id # 0) => msgs[i].id \in Elems(Walk(msgs, kind))
              /\ \A j \in DOMAIN msgs[i].leaves :
                   msgs[i].leaves[j].kind = kind => msgs[i].leaves[j].v \in Elems(Walk(msgs, kind))
<1> DEFINE s == [i \in DOMAIN msgs |-> Values(msgs[i], kind)]
<1>1. \A i \in DOMAIN msgs : msgs[i] \in MessageType
  OBVIOUS
<1>2. \A i \in DOMAIN msgs : Values(msgs[i], kind) \in Seq(Nat)
  BY <1>1, ValuesIs
<1>3. s \in Seq(Seq(Nat)) /\ DOMAIN msgs = 1..Len(s) /\ \A i \in 1..Len(s) : s[i] = Values(msgs[i], kind)
  BY <1>2
<1>4. Walk(msgs, kind) = FlattenSeq(s)
  BY DEF Walk
<1> HIDE DEF s
<1>5. FlattenSeq(s) \in Seq(Nat)
  <2>1. <<>> \in Seq(Nat)
    OBVIOUS
  <2>2. QED
    BY <1>3, <2>1, FlattenAppend
<1>6. ASSUME NEW i \in DOMAIN msgs, NEW x \in Elems(Values(msgs[i], kind))
      PROVE  x \in Elems(FlattenSeq(s))
  BY <1>3, <1>6, FlattenElems
<1>7. \A i \in DOMAIN msgs :
         /\ (kind = "id" /\ msgs[i].id # 0) => msgs[i].id \in Elems(Values(msgs[i], kind))
         /\ \A j \in DOMAIN msgs[i].leaves :
              msgs[i].leaves[j].kind = kind => msgs[i].leaves[j].v \in Elems(Values(msgs[i], kind))
  BY <1>1, ValuesIs
<1>8. QED
  BY <1>4, <1>5, <1>6, <1>7

FirstAt(walk, v) ==
  CHOOSE i \in DOMAIN walk : walk[i] = v /\ \A j \in 1..(i - 1) : walk[j] # v
UpToFirst(walk, v) == {walk[i] : i \in 1..FirstAt(walk, v)}

LEMMA FirstIs ==
  ASSUME NEW walk \in Seq(Nat), NEW v \in Elems(walk)
  PROVE  /\ FirstAt(walk, v) \in 1..Len(walk) /\ walk[FirstAt(walk, v)] = v
         /\ \A j \in 1..(FirstAt(walk, v) - 1) : walk[j] # v
<1> DEFINE T == {i \in 1..Len(walk) : walk[i] = v}
<1>1. Len(walk) \in Nat /\ DOMAIN walk = 1..Len(walk)
  OBVIOUS
<1>2. T \in SUBSET Nat /\ T # {}
  BY <1>1 DEF Elems
<1>3. PICK i \in T : \A j \in T : i <= j
  BY <1>2, LeastElement
<1>4. i \in DOMAIN walk /\ walk[i] = v /\ \A j \in 1..(i - 1) : walk[j] # v
  <2>1. \A j \in 1..(i - 1) : j \in 1..Len(walk) /\ ~(i <= j)
    BY <1>1
  <2>2. QED
    BY <1>1, <1>3, <2>1
<1>5. QED
  BY <1>1, <1>4 DEF FirstAt

LEMMA NumberIs ==
  ASSUME NEW walk \in Seq(Nat), NEW v \in Elems(walk)
  PROVE  /\ IsFiniteSet(UpToFirst(walk, v)) /\ Cardinality(UpToFirst(walk, v)) \in Nat
         /\ Number(walk, v) = 100 + Cardinality(UpToFirst(walk, v))
         /\ Number(walk, v) \in Nat /\ Number(walk, v) # 0
<1>1. FirstAt(walk, v) \in 1..Len(walk) /\ Len(walk) \in Nat
  BY FirstIs
<1>2. IsFiniteSet(1..FirstAt(walk, v))
  BY <1>1, FS_Interval
<1>3. IsFiniteSet(UpToFirst(walk, v))
  <2> DEFINE I == 1..FirstAt(walk, v)
             f == [i \in I |-> walk[i]]
  <2>1. f \in Surjection(I, UpToFirst(walk, v))
    BY DEF UpToFirst, Surjection
  <2>2. QED
    BY <1>2, <2>1, FS_Surjection
<1>4. Cardinality(UpToFirst(walk, v)) \in Nat
  BY <1>3, FS_CardinalityType
<1>5. Number(walk, v) = 100 + Cardinality(UpToFirst(walk, v))
  BY DEF Number, Normal, UpToFirst, FirstAt
<1>6. QED
  BY <1>3, <1>4, <1>5

\* Different values have different numbers.
LEMMA NumberDiffers ==
  ASSUME NEW walk \in Seq(Nat), NEW v \in Elems(walk), NEW w \in Elems(walk),
         FirstAt(walk, v) < FirstAt(walk, w)
  PROVE  Number(walk, v) # Number(walk, w)
<1>1. /\ FirstAt(walk, v) \in Nat /\ FirstAt(walk, w) \in Nat /\ walk[FirstAt(walk, w)] = w
      /\ FirstAt(walk, w) \in 1..FirstAt(walk, w)
      /\ \A j \in 1..(FirstAt(walk, w) - 1) : walk[j] # w
  BY FirstIs
<1>2. 1..FirstAt(walk, v) \subseteq 1..(FirstAt(walk, w) - 1)
  BY <1>1
<1>3. UpToFirst(walk, v) \subseteq UpToFirst(walk, w) /\ w \in UpToFirst(walk, w)
  BY <1>1 DEF UpToFirst
<1>4. w \notin UpToFirst(walk, v)
  BY <1>1, <1>2 DEF UpToFirst
<1>5. Cardinality(UpToFirst(walk, v)) # Cardinality(UpToFirst(walk, w))
  BY <1>3, <1>4, NumberIs, FS_Subset
<1>6. QED
  BY <1>5, NumberIs

LEMMA NumberInjective ==
  ASSUME NEW walk \in Seq(Nat), NEW v \in Elems(walk), NEW w \in Elems(walk),
         Number(walk, v) = Number(walk, w)
  PROVE  v = w
<1>1. /\ FirstAt(walk, v) \in Nat /\ walk[FirstAt(walk, v)] = v
      /\ FirstAt(walk, w) \in Nat /\ walk[FirstAt(walk, w)] = w
  BY FirstIs
<1>2. ~(FirstAt(walk, v) < FirstAt(walk, w)) /\ ~(FirstAt(walk, w) < FirstAt(walk, v))
  BY NumberDiffers
<1>3. QED
  BY <1>1, <1>2

(* ----------------------------- normal forms ---------------------------- *)

Placeholder(msgs, l) ==
  CASE l.kind = "id"    -> Leaf("id", Number(Walk(msgs, "id"), l.v))
    [] l.kind = "uuid"  -> Leaf("uuid", Number(Walk(msgs, "uuid"), l.v))
    [] l.kind = "stamp" -> Leaf("stamp", 0)
    [] OTHER            -> l

LEMMA PlaceholderIs ==
  ASSUME NEW msgs \in Seq(MessageType), NEW i \in DOMAIN msgs, NEW j \in DOMAIN msgs[i].leaves
  PROVE  /\ Placeholder(msgs, msgs[i].leaves[j]) \in LeafType
         /\ msgs[i].leaves[j].kind = "text" =>
              Placeholder(msgs, msgs[i].leaves[j]) = msgs[i].leaves[j]
<1>1. PICK l : l = msgs[i].leaves[j]
  OBVIOUS
<1>2. l \in LeafType
  <2>1. msgs[i] \in MessageType
    OBVIOUS
  <2>2. msgs[i].leaves \in Seq(LeafType)
    BY <2>1 DEF MessageType
  <2>3. QED
    BY <1>1, <2>2
<1>3. l.kind \in {"text", "id", "stamp", "uuid"}
  BY <1>2 DEF LeafType
<1>4. \A k \in {"id", "uuid"} : l.kind = k => Number(Walk(msgs, k), l.v) \in Nat
  <2>1. SUFFICES ASSUME NEW k \in {"id", "uuid"}, l.kind = k
                 PROVE  Number(Walk(msgs, k), l.v) \in Nat
    OBVIOUS
  <2>2. Walk(msgs, k) \in Seq(Nat) /\ l.v \in Elems(Walk(msgs, k))
    BY <1>1, <2>1, WalkIs
  <2>3. QED
    BY <2>2, NumberIs
<1>5. CASE l.kind = "id"
  <2>1. Placeholder(msgs, l) = Leaf("id", Number(Walk(msgs, "id"), l.v))
    BY <1>5 DEF Placeholder
  <2>2. QED
    BY <1>1, <1>4, <1>5, <2>1 DEF Leaf, LeafType
<1>6. CASE l.kind = "uuid"
  <2>1. Placeholder(msgs, l) = Leaf("uuid", Number(Walk(msgs, "uuid"), l.v))
    BY <1>6 DEF Placeholder
  <2>2. QED
    BY <1>1, <1>4, <1>6, <2>1 DEF Leaf, LeafType
<1>7. CASE l.kind = "stamp"
  <2>1. Placeholder(msgs, l) = Leaf("stamp", 0)
    BY <1>7 DEF Placeholder
  <2>2. QED
    BY <1>1, <1>7, <2>1 DEF Leaf, LeafType
<1>8. CASE l.kind = "text"
  BY <1>1, <1>2, <1>8 DEF Placeholder
<1>9. QED
  BY <1>3, <1>5, <1>6, <1>7, <1>8

LEMMA NormalizedIs ==
  ASSUME NEW msgs \in Seq(MessageType)
  PROVE  /\ Normalized(msgs) \in Seq(MessageType) /\ DOMAIN Normalized(msgs) = DOMAIN msgs
         /\ \A i \in DOMAIN msgs :
              /\ Normalized(msgs)[i].dir = msgs[i].dir /\ Normalized(msgs)[i].kind = msgs[i].kind
              /\ Normalized(msgs)[i].id = IF msgs[i].id = 0 THEN 0
                                          ELSE Number(Walk(msgs, "id"), msgs[i].id)
              /\ Normalized(msgs)[i].leaves
                   = [j \in DOMAIN msgs[i].leaves |-> Placeholder(msgs, msgs[i].leaves[j])]
<1> DEFINE id(i) == IF msgs[i].id = 0 THEN 0 ELSE Number(Walk(msgs, "id"), msgs[i].id)
           leaves(i) == [j \in DOMAIN msgs[i].leaves |-> Placeholder(msgs, msgs[i].leaves[j])]
           new(i) == [msgs[i] EXCEPT !.id = id(i), !.leaves = leaves(i)]
<1>1. Normalized(msgs) = [i \in DOMAIN msgs |-> new(i)]
  BY DEF Normalized, Placeholder
<1>2. DOMAIN msgs = 1..Len(msgs) /\ Len(msgs) \in Nat /\ \A i \in DOMAIN msgs : msgs[i] \in MessageType
  OBVIOUS
<1>3. ASSUME NEW i \in DOMAIN msgs
      PROVE  id(i) \in Nat
  <2>1. CASE msgs[i].id = 0
    BY <2>1
  <2>2. CASE msgs[i].id # 0
    <3>1. Walk(msgs, "id") \in Seq(Nat) /\ msgs[i].id \in Elems(Walk(msgs, "id"))
      BY <2>2, WalkIs
    <3>2. Number(Walk(msgs, "id"), msgs[i].id) \in Nat
      BY <3>1, NumberIs
    <3>3. QED
      BY <2>2, <3>2
  <2>3. QED
    BY <2>1, <2>2
<1>4. ASSUME NEW i \in DOMAIN msgs
      PROVE  leaves(i) \in Seq(LeafType)
  <2>1. \A j \in DOMAIN msgs[i].leaves : Placeholder(msgs, msgs[i].leaves[j]) \in LeafType
    BY PlaceholderIs
  <2>2. \E n \in Nat : DOMAIN msgs[i].leaves = 1..n
    <3>1. msgs[i].leaves \in Seq(LeafType)
      BY <1>2 DEF MessageType
    <3>2. QED
      BY <3>1
  <2>3. QED
    BY <2>1, <2>2
<1> HIDE DEF id, leaves
<1>5. ASSUME NEW i \in DOMAIN msgs
      PROVE  /\ new(i) \in MessageType /\ new(i).dir = msgs[i].dir /\ new(i).kind = msgs[i].kind
             /\ new(i).id = id(i) /\ new(i).leaves = leaves(i)
  <2>1. msgs[i] \in MessageType /\ id(i) \in Nat /\ leaves(i) \in Seq(LeafType)
    BY <1>2, <1>3, <1>4
  <2>2. QED
    BY <2>1 DEF MessageType
<1> HIDE DEF new
<1>6. Normalized(msgs) \in Seq(MessageType)
  BY <1>1, <1>2, <1>5
<1>7. QED
  BY <1>1, <1>5, <1>6 DEF id, leaves

LEMMA NormalizedGood ==
  ASSUME NEW msgs, Good(msgs)
  PROVE  Good(Normalized(msgs))
<1>1. msgs \in Seq(MessageType)
  BY DEF Good
<1>2. PICK t : t = Normalized(msgs)
  OBVIOUS
<1>3. t \in Seq(MessageType) /\ DOMAIN t = DOMAIN msgs
  BY <1>1, <1>2, NormalizedIs
<1>4. ASSUME NEW i \in DOMAIN msgs
      PROVE  /\ t[i].dir = msgs[i].dir /\ t[i].kind = msgs[i].kind
             /\ msgs[i].id # 0 => t[i].id = Number(Walk(msgs, "id"), msgs[i].id)
             /\ t[i].id # 0 <=> msgs[i].id # 0
  <2>1. /\ t[i].dir = msgs[i].dir /\ t[i].kind = msgs[i].kind
        /\ t[i].id = IF msgs[i].id = 0 THEN 0 ELSE Number(Walk(msgs, "id"), msgs[i].id)
    BY <1>1, <1>2, NormalizedIs
  <2>2. CASE msgs[i].id # 0
    <3>1. Walk(msgs, "id") \in Seq(Nat) /\ msgs[i].id \in Elems(Walk(msgs, "id"))
      BY <1>1, <2>2, WalkIs
    <3>2. Number(Walk(msgs, "id"), msgs[i].id) # 0
      BY <3>1, NumberIs
    <3>3. QED
      BY <2>1, <2>2, <3>2
  <2>3. CASE msgs[i].id = 0
    BY <2>1, <2>3
  <2>4. QED
    BY <2>2, <2>3
<1>5. ASSUME NEW i \in DOMAIN msgs, NEW j \in DOMAIN msgs, t[i].id = t[j].id, t[i].id # 0
      PROVE  msgs[i].id = msgs[j].id
  <2>1. /\ msgs[i].id # 0 /\ msgs[j].id # 0
        /\ Number(Walk(msgs, "id"), msgs[i].id) = Number(Walk(msgs, "id"), msgs[j].id)
    BY <1>4, <1>5
  <2>2. /\ Walk(msgs, "id") \in Seq(Nat) /\ msgs[i].id \in Elems(Walk(msgs, "id"))
        /\ msgs[j].id \in Elems(Walk(msgs, "id"))
    BY <1>1, <2>1, WalkIs
  <2>3. QED
    BY <2>1, <2>2, NumberInjective
<1>6. Distinct(t)
  <2>1. SUFFICES ASSUME NEW i \in DOMAIN t, NEW j \in DOMAIN t,
                        t[i].dir = t[j].dir, t[i].id = t[j].id, t[i].id # NoId
                 PROVE  i = j
    BY DEF Distinct
  <2>2. msgs[i].dir = msgs[j].dir /\ msgs[i].id = msgs[j].id /\ msgs[i].id # NoId
    BY <1>3, <1>4, <1>5, <2>1 DEF NoId
  <2>3. QED
    BY <1>3, <2>2 DEF Good, Distinct
<1>7. Proper(t)
  <2>1. SUFFICES ASSUME NEW i \in DOMAIN t
                 PROVE  /\ t[i].kind \in {"request", "reply"} => t[i].id # NoId
                        /\ t[i].kind = "reply" => t[i].leaves # <<>>
    BY DEF Proper
  <2>2. t[i].kind \in {"request", "reply"} => t[i].id # NoId
    BY <1>3, <1>4 DEF Good, Proper, NoId
  <2>3. ASSUME t[i].kind = "reply"
        PROVE  t[i].leaves # <<>>
    <3>1. msgs[i].leaves # <<>> /\ msgs[i] \in MessageType
      BY <1>1, <1>3, <1>4, <2>3 DEF Good, Proper
    <3>2. DOMAIN t[i].leaves = DOMAIN msgs[i].leaves
      <4>1. i \in DOMAIN msgs
        BY <1>3
      <4>2. t[i].leaves = [j \in DOMAIN msgs[i].leaves |-> Placeholder(msgs, msgs[i].leaves[j])]
        BY <1>1, <1>2, <4>1, NormalizedIs
      <4>3. QED
        BY <4>2
    <3>3. msgs[i].leaves \in Seq(LeafType)
      BY <3>1 DEF MessageType
    <3>4. 1 \in DOMAIN msgs[i].leaves
      BY <3>1, <3>3
    <3>5. QED
      BY <3>2, <3>4
  <2>4. QED
    BY <2>2, <2>3
<1>8. QED
  BY <1>2, <1>3, <1>6, <1>7 DEF Good

\* A placeholder is never put in the place of a text.
LEMMA NormalizedSays ==
  ASSUME NEW msgs, Good(msgs), NEW v, Says(msgs, v)
  PROVE  Says(Normalized(msgs), v)
<1>1. msgs \in Seq(MessageType)
  BY DEF Good
<1>2. SUFFICES ASSUME NEW i \in Replies(Normalized(msgs))
               PROVE  Head(Normalized(msgs)[i].leaves) = Leaf("text", v)
  BY DEF Says
<1>3. i \in DOMAIN msgs /\ i \in Replies(msgs)
  BY <1>1, <1>2, NormalizedIs DEF Replies
<1>4. msgs[i].leaves \in Seq(LeafType) /\ msgs[i].leaves # <<>>
  <2>1. msgs[i] \in MessageType
    BY <1>1, <1>3
  <2>2. QED
    BY <1>3, <2>1 DEF MessageType, Good, Proper, Replies
<1>5. 1 \in DOMAIN msgs[i].leaves /\ msgs[i].leaves[1] = Leaf("text", v)
  BY <1>3, <1>4 DEF Says
<1>6. Placeholder(msgs, msgs[i].leaves[1]) = Leaf("text", v)
  BY <1>1, <1>3, <1>5, PlaceholderIs DEF Leaf
<1>7. Normalized(msgs)[i].leaves[1] = Leaf("text", v)
  BY <1>1, <1>3, <1>5, <1>6, NormalizedIs
<1>8. Head(Normalized(msgs)[i].leaves) = Normalized(msgs)[i].leaves[1]
  <2>1. PICK t : t = Normalized(msgs)
    OBVIOUS
  <2>2. Good(t)
    BY <2>1, NormalizedGood
  <2>3. i \in DOMAIN t /\ t \in Seq(MessageType) /\ t[i].leaves # <<>>
    BY <1>2, <2>1, <2>2 DEF Good, Proper, Replies
  <2>4. t[i].leaves \in Seq(LeafType)
    <3>1. t[i] \in MessageType
      BY <2>3
    <3>2. QED
      BY <3>1 DEF MessageType
  <2>5. Head(t[i].leaves) = t[i].leaves[1]
    BY <2>3, <2>4
  <2>6. QED
    BY <2>1, <2>5
<1>9. QED
  BY <1>7, <1>8

\* run_diff keys the messages of the server by their ids, the last one of each.
Keyed(msgs) == {i \in DOMAIN msgs : msgs[i].dir = "s2c" /\ msgs[i].id # 0}
LastKeyed(msgs) ==
  {i \in Keyed(msgs) : \A j \in Keyed(msgs) : msgs[j].id = msgs[i].id => j <= i}

LEMMA ResponsesAre ==
  ASSUME NEW msgs
  PROVE  /\ DOMAIN Responses(msgs) = {msgs[i].id : i \in LastKeyed(msgs)}
         /\ \A n \in DOMAIN Responses(msgs) : \E i \in LastKeyed(msgs) :
              msgs[i].id = n /\ Responses(msgs)[n] = msgs[i]
<1> DEFINE ids == {msgs[i].id : i \in LastKeyed(msgs)}
           pick(n) == CHOOSE i \in LastKeyed(msgs) : msgs[i].id = n
<1>1. Responses(msgs) = [n \in ids |-> msgs[pick(n)]]
  BY DEF Responses, LastKeyed, Keyed
<1>2. \A n \in ids : pick(n) \in LastKeyed(msgs) /\ msgs[pick(n)].id = n
  OBVIOUS
<1> HIDE DEF pick
<1>3. QED
  BY <1>1, <1>2

\* Where nothing changes, the answers that are compared say the same.
LEMMA MatchSays ==
  ASSUME NEW a, NEW b, Good(a), Changes(a, b) = {}, NEW v, Says(b, v)
  PROVE  Says(a, v)
<1>1. SUFFICES ASSUME NEW i \in Replies(a) PROVE Head(a[i].leaves) = Leaf("text", v)
  BY DEF Says
<1>2. /\ a \in Seq(MessageType) /\ DOMAIN a \subseteq Nat
      /\ i \in DOMAIN a /\ a[i].dir = "s2c" /\ a[i].kind = "reply" /\ a[i].id # 0
  BY DEF Good, Proper, Replies, NoId
<1>3. \A j \in Keyed(a) : a[j].id = a[i].id => j = i
  BY <1>2 DEF Keyed, Good, Distinct, NoId
<1>4. i \in LastKeyed(a)
  BY <1>2, <1>3 DEF Keyed, LastKeyed
<1>5. a[i].id \in DOMAIN Responses(a)
  BY <1>4, ResponsesAre
<1>6. PICK j \in LastKeyed(a) : a[j].id = a[i].id /\ Responses(a)[a[i].id] = a[j]
  BY <1>5, ResponsesAre
<1>7. j = i
  BY <1>3, <1>6 DEF LastKeyed
<1>8. a[i].id \in DOMAIN Responses(b) /\ Responses(b)[a[i].id] = a[i]
  BY <1>5, <1>6, <1>7 DEF Changes
<1>9. PICK k \in LastKeyed(b) : Responses(b)[a[i].id] = b[k]
  BY <1>8, ResponsesAre
<1>10. k \in Replies(b) /\ b[k] = a[i]
  BY <1>2, <1>8, <1>9 DEF LastKeyed, Keyed, Replies
<1>11. QED
  BY <1>10 DEF Says

(* ---------------------- transcripts that are written ------------------- *)

LEMMA ConcatGood ==
  ASSUME NEW a, NEW b, Good(a), Good(b), \A i \in DOMAIN a, j \in DOMAIN b : a[i].dir # b[j].dir
  PROVE  Good(a \o b)
<1>1. PICK t : t = a \o b
  OBVIOUS
<1>2. a \in Seq(MessageType) /\ b \in Seq(MessageType)
  BY DEF Good
<1>3. /\ t \in Seq(MessageType) /\ DOMAIN t = 1..Len(t) /\ Len(t) = Len(a) + Len(b)
      /\ Len(a) \in Nat /\ Len(b) \in Nat /\ DOMAIN a = 1..Len(a) /\ DOMAIN b = 1..Len(b)
      /\ \A n \in 1..Len(a) : t[n] = a[n]
      /\ \A n \in 1..Len(b) : t[Len(a) + n] = b[n]
  BY <1>1, <1>2
<1>4. \A n \in DOMAIN t : \/ n \in DOMAIN a /\ t[n] = a[n]
                          \/ n - Len(a) \in DOMAIN b /\ t[n] = b[n - Len(a)] /\ n \notin DOMAIN a
  <2>1. SUFFICES ASSUME NEW n \in 1..Len(t), ~(n \in 1..Len(a))
                 PROVE  n - Len(a) \in 1..Len(b) /\ t[n] = b[n - Len(a)]
    BY <1>3
  <2>2. n - Len(a) \in 1..Len(b) /\ Len(a) + (n - Len(a)) = n
    BY <1>3, <2>1
  <2>3. t[Len(a) + (n - Len(a))] = b[n - Len(a)]
    BY <1>3, <2>2
  <2>4. QED
    BY <2>2, <2>3
<1>5. Distinct(t)
  <2>1. SUFFICES ASSUME NEW i \in DOMAIN t, NEW j \in DOMAIN t,
                        t[i].dir = t[j].dir, t[i].id = t[j].id, t[i].id # NoId
                 PROVE  i = j
    BY DEF Distinct
  <2>2. CASE i \in DOMAIN a /\ t[i] = a[i] /\ j \in DOMAIN a /\ t[j] = a[j]
    BY <2>1, <2>2 DEF Good, Distinct
  <2>3. CASE /\ i - Len(a) \in DOMAIN b /\ t[i] = b[i - Len(a)]
             /\ j - Len(a) \in DOMAIN b /\ t[j] = b[j - Len(a)]
    <3>1. i - Len(a) = j - Len(a)
      BY <2>1, <2>3 DEF Good, Distinct
    <3>2. i \in Int /\ j \in Int /\ Len(a) \in Int
      BY <1>3
    <3>3. QED
      BY <3>1, <3>2
  <2>4. QED
    BY <1>4, <2>1, <2>2, <2>3
<1>6. Proper(t)
  BY <1>4 DEF Good, Proper
<1>7. QED
  BY <1>1, <1>3, <1>5, <1>6 DEF Good

LEMMA MergedGood ==
  ASSUME Good(source), Good(taken)
  PROVE  Good(Merged)
<1>1. PICK n : n = Normalized(taken)
  OBVIOUS
<1>2. Good(n)
  BY <1>1, NormalizedGood
<1>3. PICK a, b : a = Sent(source, "c2s") /\ b = Sent(n, "s2c")
  OBVIOUS
<1>4. /\ Good(a) /\ Good(b)
      /\ \A i \in DOMAIN a : a[i].dir = "c2s"
      /\ \A i \in DOMAIN b : b[i].dir = "s2c"
  BY <1>2, <1>3, SentGood
<1>5. Good(a \o b)
  BY <1>4, ConcatGood
<1>6. QED
  BY <1>1, <1>3, <1>5 DEF Merged, C2S

\* A message more, with an id that its side has not used.
LEMMA AppendGood ==
  ASSUME NEW s, Good(s), NEW m \in MessageType,
         m.kind \in {"request", "reply"} => m.id # NoId, m.kind = "reply" => m.leaves # <<>>,
         m.id # NoId => \A i \in DOMAIN s : s[i].id # m.id
  PROVE  /\ Good(Append(s, m)) /\ DOMAIN Append(s, m) = 1..(Len(s) + 1) /\ Len(s) \in Nat
         /\ \A i \in DOMAIN Append(s, m) : \/ i \in DOMAIN s /\ Append(s, m)[i] = s[i]
                                           \/ i = Len(s) + 1 /\ Append(s, m)[i] = m
<1>1. PICK t : t = Append(s, m)
  OBVIOUS
<1>2. s \in Seq(MessageType)
  BY DEF Good
<1>3. /\ t \in Seq(MessageType) /\ DOMAIN t = 1..(Len(s) + 1) /\ Len(s) \in Nat
      /\ DOMAIN s = 1..Len(s) /\ t[Len(s) + 1] = m /\ \A i \in 1..Len(s) : t[i] = s[i]
  BY <1>1, <1>2
<1>4. \A i \in DOMAIN t : (i \in DOMAIN s /\ t[i] = s[i]) \/ (i = Len(s) + 1 /\ t[i] = m)
  BY <1>3
<1>5. Distinct(t)
  BY <1>4 DEF Good, Distinct
<1>6. Proper(t)
  BY <1>4 DEF Good, Proper
<1>7. QED
  BY <1>1, <1>3, <1>4, <1>5, <1>6 DEF Good

LEMMA TailGood ==
  ASSUME NEW s, Good(s), s # <<>>
  PROVE  /\ Good(Tail(s)) /\ Head(s) \in MessageType /\ Head(s) = s[1] /\ 1 \in DOMAIN s
         /\ \A i \in DOMAIN Tail(s) : i + 1 \in DOMAIN s /\ Tail(s)[i] = s[i + 1] /\ i + 1 # 1
         /\ s[1].id # NoId => \A i \in DOMAIN Tail(s) :
              Tail(s)[i].dir = s[1].dir => Tail(s)[i].id # s[1].id
<1>1. PICK t : t = Tail(s)
  OBVIOUS
<1>2. s \in Seq(MessageType)
  BY DEF Good
<1>3. /\ t \in Seq(MessageType) /\ Head(s) \in MessageType /\ Head(s) = s[1] /\ 1 \in DOMAIN s
      /\ \A i \in DOMAIN t : i \in Nat /\ i + 1 \in DOMAIN s /\ t[i] = s[i + 1] /\ i + 1 # 1
  BY <1>1, <1>2
<1>4. Distinct(t)
  <2>1. SUFFICES ASSUME NEW i \in DOMAIN t, NEW j \in DOMAIN t,
                        t[i].dir = t[j].dir, t[i].id = t[j].id, t[i].id # NoId
                 PROVE  i = j
    BY DEF Distinct
  <2>2. i + 1 = j + 1
    BY <1>3, <2>1 DEF Good, Distinct
  <2>3. i \in Nat /\ j \in Nat
    BY <1>3
  <2>4. QED
    BY <2>2, <2>3
<1>5. Proper(t)
  BY <1>3 DEF Good, Proper
<1>6. s[1].id # NoId => \A i \in DOMAIN t : t[i].dir = s[1].dir => t[i].id # s[1].id
  BY <1>3 DEF Good, Distinct
<1>7. QED
  BY <1>1, <1>3, <1>4, <1>5, <1>6 DEF Good

(* ------------------------------ the session ---------------------------- *)

LEMMA AnswerIs ==
  ASSUME nested \in BOOLEAN, volatile \in BOOLEAN, NEW v \in Nat, NEW run \in Nat, NEW n \in Nat
  PROVE  /\ Answer(v, run, n) \in Seq(LeafType) /\ Answer(v, run, n) # <<>>
         /\ Head(Answer(v, run, n)) = Leaf("text", v)
<1>1. /\ Leaf("text", v) \in LeafType /\ Leaf("id", 5) \in LeafType /\ Leaf("stamp", run) \in LeafType
      /\ Leaf("uuid", 10 * run + n) \in LeafType
  <2>1. 10 * run + n \in Nat
    OBVIOUS
  <2>2. QED
    BY <2>1 DEF Leaf, LeafType
<1>2. PICK a, b, c, d : /\ a = Leaf("text", v) /\ b = Leaf("id", 5) /\ c = Leaf("stamp", run)
                        /\ d = Leaf("uuid", 10 * run + n)
  OBVIOUS
<1>3. Answer(v, run, n) = <<a>> \o (IF nested THEN <<b>> ELSE <<>>)
                                \o (IF volatile THEN <<c, d>> ELSE <<>>)
  BY <1>2 DEF Answer
<1>4. a \in LeafType /\ b \in LeafType /\ c \in LeafType /\ d \in LeafType
  BY <1>1, <1>2
<1>5. PICK x \in Seq(LeafType), y \in Seq(LeafType) :
        x = (IF nested THEN <<b>> ELSE <<>>) /\ y = (IF volatile THEN <<c, d>> ELSE <<>>)
  <2>1. <<>> \in Seq(LeafType) /\ <<b>> \in Seq(LeafType) /\ <<c, d>> \in Seq(LeafType)
    BY <1>4
  <2>2. (IF nested THEN <<b>> ELSE <<>>) \in Seq(LeafType)
    BY <2>1, Zenon
  <2>3. (IF volatile THEN <<c, d>> ELSE <<>>) \in Seq(LeafType)
    BY <2>1, Zenon
  <2>4. QED
    BY <2>2, <2>3, Zenon
<1>6. <<a>> \o x \o y \in Seq(LeafType) /\ <<a>> \o x \o y # <<>> /\ Head(<<a>> \o x \o y) = a
  BY <1>4
<1>7. QED
  BY <1>2, <1>3, <1>5, <1>6

LEMMA RecordingsGood ==
  ASSUME nested \in BOOLEAN, volatile \in BOOLEAN, NEW leaves \in Seq(LeafType),
         NEW s \in Recordings(leaves)
  PROVE  Good(s)
<1>1. PICK q1, q2, r1, r2, c, a, r :
        /\ q1 = Request(1, leaves) /\ q2 = Request(2, <<>>) /\ r1 = Recorded(1) /\ r2 = Recorded(2)
        /\ c = Client("note", NoId) /\ a = Client("answer", 2) /\ r = Asked(2)
  OBVIOUS
<1>2. /\ Answer(1, 0, 1) \in Seq(LeafType) /\ Answer(1, 0, 1) # <<>>
      /\ Answer(1, 0, 2) \in Seq(LeafType) /\ Answer(1, 0, 2) # <<>>
  BY AnswerIs
<1>3. /\ q1 \in MessageType /\ q1.dir = "c2s" /\ q1.id = 1 /\ q1.kind = "request"
      /\ q2 \in MessageType /\ q2.dir = "c2s" /\ q2.id = 2 /\ q2.kind = "request"
      /\ c \in MessageType /\ c.dir = "c2s" /\ c.id = 0 /\ c.kind = "note"
      /\ a \in MessageType /\ a.dir = "c2s" /\ a.id = 2 /\ a.kind = "answer"
      /\ r \in MessageType /\ r.dir = "s2c" /\ r.id = 2 /\ r.kind = "request"
  <2>1. <<>> \in Seq(LeafType)
    OBVIOUS
  <2>2. QED
    BY <1>1, <2>1 DEF Request, Client, Asked, MessageType, NoId
<1>4. /\ r1 \in MessageType /\ r1.dir = "s2c" /\ r1.id = 1 /\ r1.kind = "reply" /\ r1.leaves # <<>>
      /\ r2 \in MessageType /\ r2.dir = "s2c" /\ r2.id = 2 /\ r2.kind = "reply" /\ r2.leaves # <<>>
  BY <1>1, <1>2 DEF Recorded, MessageType
<1>5. \/ s = <<q1, r1, c, q2, r2>> \/ s = <<q1, q2, r1, r2>> \/ s = <<q1, q2, r2, r1>>
      \/ s = <<q1, r1, q2>> \/ s = <<q1, r, r1, a>>
  BY <1>1 DEF Recordings
<1>6. CASE s = <<q1, r1, c, q2, r2>>
  BY <1>3, <1>4, <1>6 DEF Good, Distinct, Proper, NoId
<1>7. CASE s = <<q1, q2, r1, r2>>
  BY <1>3, <1>4, <1>7 DEF Good, Distinct, Proper, NoId
<1>8. CASE s = <<q1, q2, r2, r1>>
  BY <1>3, <1>4, <1>8 DEF Good, Distinct, Proper, NoId
<1>9. CASE s = <<q1, r1, q2>>
  BY <1>3, <1>4, <1>9 DEF Good, Distinct, Proper, NoId
<1>10. CASE s = <<q1, r, r1, a>>
  BY <1>3, <1>4, <1>10 DEF Good, Distinct, Proper, NoId
<1>11. QED
  BY <1>5, <1>6, <1>7, <1>8, <1>9, <1>10

(* ------------------------------ the steps ------------------------------ *)

LEMMA EmptyGood ==
  Good(<<>>) /\ DOMAIN <<>> = {}
<1>1. <<>> \in Seq(MessageType) /\ DOMAIN <<>> = {}
  OBVIOUS
<1>2. QED
  BY <1>1 DEF Good, Distinct, Proper

\* Nothing is read or taken between two replays.
Clean == /\ asked = {} /\ out = <<>> /\ Good(todo) /\ (\A i \in DOMAIN todo : todo[i].dir = "c2s")
         /\ wanted = NoId /\ taken = <<>>
LEMMA CleanInv == Clean => ServerInv /\ TodoInv /\ TakenInv
<1>1. SUFFICES ASSUME Clean PROVE ServerInv /\ TodoInv /\ TakenInv
  OBVIOUS
<1>2. ServerInv
  <2>1. <<>> \in Seq(NoiseLines \cup Answers)
    OBVIOUS
  <2>2. QED
    BY <1>1, <2>1 DEF Clean, ServerInv
<1>3. Good(taken) /\ DOMAIN taken = {}
  BY <1>1, EmptyGood DEF Clean
<1>4. TakenInv
  BY <1>1, <1>3 DEF Clean, TakenInv, Says, Replies, NoId
<1>5. TodoInv
  BY <1>1, <1>3 DEF Clean, TodoInv
<1>6. QED
  BY <1>2, <1>4, <1>5

LEMMA StartsClean ==
  ASSUME NEW src, Good(src), ReplayStarts(src)
  PROVE  ServerInv' /\ TodoInv' /\ TakenInv'
<1>1. Good(C2S(src)) /\ \A i \in DOMAIN C2S(src) : C2S(src)[i].dir = "c2s"
  BY SentGood DEF C2S
<1>2. Clean'
  BY <1>1 DEF ReplayStarts, Launched, Clean
<1>3. (Clean => ServerInv /\ TodoInv /\ TakenInv)'
  BY CleanInv, PTL
<1>4. QED
  BY <1>2, <1>3

LEMMA EndsClean ==
  ASSUME Ended
  PROVE  ServerInv' /\ TodoInv' /\ TakenInv'
<1>1. Clean'
  BY EmptyGood DEF Ended, Stopped, Clean
<1>2. (Clean => ServerInv /\ TodoInv /\ TakenInv)'
  BY CleanInv, PTL
<1>3. QED
  BY <1>1, <1>2

\* What the server and the engine do to each other keeps everything else.
LEMMA SameAnswers ==
  ASSUME UNCHANGED <<version, ran, volatile, nested>>
  PROVE  Answers' = Answers /\ NoiseLines' = NoiseLines
BY DEF Answers, Answer, NoiseLines

LEMMA LineIs ==
  ASSUME NEW line \in NoiseLines \cup Answers
  PROVE  \/ /\ line.kind \in NoiseKinds /\ line.id = NoId
         \/ /\ line.kind = "request" /\ line.id \in RequestIds /\ line.id \in Nat /\ line.id # NoId
         \/ /\ line.kind = "reply" /\ line.id \in Nat \ {0} /\ line.body \in Seq(LeafType)
            /\ line.body = Answer(version, ran, line.id)
<1>1. CASE line \in Answers
  BY <1>1 DEF Answers
<1>2. CASE \E k \in NoiseKinds : line = [kind |-> k, id |-> NoId]
  BY <1>2
<1>3. CASE \E i \in RequestIds : line = ServerRequest(i)
  BY <1>3, NoiseAssumption, RegressionAssumption DEF ServerRequest
<1>4. QED
  BY <1>1, <1>2, <1>3 DEF NoiseLines

LEMMA MessageIs ==
  ASSUME FilesInv, NEW line \in NoiseLines \cup Answers, ~NoMessage(line)
  PROVE  /\ Message(line) \in MessageType /\ Message(line).dir = "s2c"
         /\ Message(line).id = line.id /\ Message(line).kind = line.kind
         /\ line.kind \in {"request", "reply"} => line.id # NoId
         /\ line.kind = "reply" => /\ Message(line).leaves # <<>>
                                   /\ Head(Message(line).leaves) = Leaf("text", version)
<1>1. CASE line.kind \in NoiseKinds /\ line.id = NoId
  <2>1. line.kind = "note"
    BY <1>1, NoiseAssumption DEF NoMessage
  <2>2. Message(line) = [dir |-> "s2c", kind |-> "note", id |-> 0, leaves |-> <<>>]
    BY <1>1, <2>1 DEF Message, NoId
  <2>3. <<>> \in Seq(LeafType)
    OBVIOUS
  <2>4. QED
    BY <1>1, <2>1, <2>2, <2>3 DEF MessageType, NoId
<1>2. CASE line.kind = "request" /\ line.id \in Nat /\ line.id # NoId
  <2>1. Message(line) = [dir |-> "s2c", kind |-> "request", id |-> line.id, leaves |-> <<>>]
    BY <1>2 DEF Message
  <2>2. <<>> \in Seq(LeafType)
    OBVIOUS
  <2>3. QED
    BY <1>2, <2>1, <2>2 DEF MessageType
<1>3. CASE /\ line.kind = "reply" /\ line.id \in Nat \ {0} /\ line.body \in Seq(LeafType)
           /\ line.body = Answer(version, ran, line.id)
  <2>1. Message(line) = [dir |-> "s2c", kind |-> "reply", id |-> line.id, leaves |-> line.body]
    BY <1>3 DEF Message
  <2>2. line.body # <<>> /\ Head(line.body) = Leaf("text", version)
    BY <1>3, AnswerIs DEF FilesInv
  <2>3. QED
    BY <1>3, <2>1, <2>2 DEF MessageType, NoId
<1>4. QED
  BY <1>1, <1>2, <1>3, LineIs

\* A line that is read and kept.
LEMMA TakeStep ==
  ASSUME FilesInv, ServerInv, TodoInv, TakenInv, UNCHANGED <<version, ran, volatile, nested, todo>>,
         HasLine, ~NoMessage(Head(out)), TakeLine, taken' = Append(taken, Message(Head(out))),
         \/ Head(out).id = NoId /\ wanted' = wanted
         \/ Head(out).id = wanted /\ wanted # NoId /\ wanted' = NoId
  PROVE  ServerInv' /\ TodoInv' /\ TakenInv'
<1>1. PICK line : line = Head(out)
  OBVIOUS
<1>2. line \in NoiseLines \cup Answers /\ Tail(out) \in Seq(NoiseLines \cup Answers)
  BY <1>1 DEF ServerInv, HasLine
<1>3. PICK m : m = Message(line)
  OBVIOUS
<1>4. /\ m \in MessageType /\ m.dir = "s2c" /\ m.id = line.id /\ m.kind = line.kind
      /\ m.kind \in {"request", "reply"} => m.id # NoId
      /\ m.kind = "reply" => m.leaves # <<>> /\ Head(m.leaves) = Leaf("text", version)
  BY <1>1, <1>2, <1>3, MessageIs
<1>5. ServerInv'
  BY <1>2, SameAnswers DEF ServerInv, TakeLine
<1>6. m.id # NoId => \A i \in DOMAIN taken : taken[i].id # m.id
  BY <1>1, <1>4 DEF TakenInv
<1>7. /\ Good(taken') /\ DOMAIN taken' = 1..(Len(taken) + 1)
      /\ \A i \in DOMAIN taken' : \/ i \in DOMAIN taken /\ taken'[i] = taken[i]
                                  \/ i = Len(taken) + 1 /\ taken'[i] = m
  BY <1>1, <1>3, <1>4, <1>6, AppendGood DEF TakenInv
<1>8. TakenInv'
  <2>1. \A i \in DOMAIN taken' : taken'[i].dir = "s2c"
    BY <1>4, <1>7 DEF TakenInv
  <2>2. wanted' \in Nat /\ (wanted' # NoId => \A j \in DOMAIN taken' : taken'[j].id # wanted')
    BY <1>1, <1>4, <1>7 DEF TakenInv, NoId
  <2>3. Says(taken', version)
    <3>1. SUFFICES ASSUME NEW i \in Replies(taken')
                   PROVE  Head(taken'[i].leaves) = Leaf("text", version)
      BY DEF Says
    <3>2. i \in DOMAIN taken' /\ taken'[i].kind = "reply" /\ taken'[i].dir = "s2c"
      BY <3>1 DEF Replies
    <3>3. CASE i \in DOMAIN taken /\ taken'[i] = taken[i]
      <4>1. i \in Replies(taken)
        BY <3>2, <3>3 DEF Replies
      <4>2. QED
        BY <3>3, <4>1 DEF TakenInv, Says
    <3>4. CASE taken'[i] = m
      BY <1>4, <3>2, <3>4
    <3>5. QED
      BY <1>7, <3>2, <3>3, <3>4
  <2>4. (Says(taken, version))'
    BY <2>3 DEF Says, Replies
  <2>5. QED
    BY <1>7, <2>1, <2>2, <2>4 DEF TakenInv
<1>9. TodoInv'
  <2>1. ASSUME NEW i \in DOMAIN todo, todo[i].id # NoId
        PROVE  todo[i].id # wanted' /\ \A j \in DOMAIN taken' : taken'[j].id # todo[i].id
    BY <1>1, <1>4, <1>7, <2>1 DEF TodoInv
  <2>2. QED
    BY <2>1 DEF TodoInv
<1>10. QED
  BY <1>5, <1>8, <1>9

LEMMA SendStep ==
  ASSUME FilesInv, ServerInv, TodoInv, TakenInv, UNCHANGED <<version, ran, volatile, nested>>, Send
  PROVE  ServerInv' /\ TodoInv' /\ TakenInv'
<1>1. todo # <<>> /\ wanted = NoId
  BY DEF Send, Sending, Over
<1>2. PICK m : m = Head(todo)
  OBVIOUS
<1>3. /\ Good(Tail(todo)) /\ m \in MessageType /\ m = todo[1] /\ 1 \in DOMAIN todo
      /\ \A i \in DOMAIN Tail(todo) : i + 1 \in DOMAIN todo /\ Tail(todo)[i] = todo[i + 1]
      /\ m.id # NoId => \A i \in DOMAIN Tail(todo) :
           Tail(todo)[i].dir = m.dir => Tail(todo)[i].id # m.id
  BY <1>1, <1>2, TailGood DEF TodoInv
<1>4. m.id \in Nat /\ (m.kind = "request" => m.id # NoId) /\ m.dir = "c2s"
      /\ (m.id # NoId => \A j \in DOMAIN taken : taken[j].id # m.id)
  BY <1>3 DEF TodoInv, Good, Proper, MessageType
<1>5. wanted' = m.id /\ todo' = Tail(todo) /\ taken' = taken /\ out' = out
      /\ (asked' = asked \/ (m.kind = "request" /\ asked' = asked \cup {m}))
  BY <1>2 DEF Send, Written, serverVars
<1>6. ServerInv'
  BY <1>3, <1>4, <1>5, SameAnswers DEF ServerInv
<1>7. TakenInv'
  <2>1. Says(taken, version)' <=> Says(taken, version)
    BY <1>5 DEF Says, Replies
  <2>2. QED
    BY <1>4, <1>5, <2>1 DEF TakenInv
<1>8. TodoInv'
  BY <1>3, <1>4, <1>5 DEF TodoInv, NoId
<1>9. QED
  BY <1>6, <1>7, <1>8

\* Steps that leave what was taken and what is to be sent alone.
LEMMA OtherStep ==
  ASSUME FilesInv, ServerInv, TodoInv, TakenInv, UNCHANGED <<version, ran, volatile, nested>>,
         UNCHANGED <<todo, wanted, taken>>,
         \/ UNCHANGED <<asked, out>>
         \/ asked' = asked /\ HasLine /\ out' = Tail(out)
         \/ asked' = asked /\ \E line \in NoiseLines : out' = Append(out, line)
         \/ \E req \in asked : /\ asked' = asked \ {req}
                               /\ out' = Append(out, Reply(req, Answer(version, ran, req.id)))
  PROVE  ServerInv' /\ TodoInv' /\ TakenInv'
<1>1. TodoInv' /\ TakenInv'
  BY DEF TodoInv, TakenInv, Says, Replies
<1>2. PICK S : S = NoiseLines \cup Answers
  OBVIOUS
<1>3. out \in Seq(S)
  BY <1>2 DEF ServerInv
<1>4. asked' \subseteq asked /\ out' \in Seq(S)
  <2>1. CASE UNCHANGED <<asked, out>>
    BY <1>3, <2>1
  <2>2. CASE asked' = asked /\ HasLine /\ out' = Tail(out)
    BY <1>3, <2>2 DEF HasLine
  <2>3. CASE asked' = asked /\ \E line \in NoiseLines : out' = Append(out, line)
    BY <1>2, <1>3, <2>3
  <2>4. CASE \E req \in asked : /\ asked' = asked \ {req}
                                /\ out' = Append(out, Reply(req, Answer(version, ran, req.id)))
    <3>1. PICK req \in asked : /\ asked' = asked \ {req}
                               /\ out' = Append(out, Reply(req, Answer(version, ran, req.id)))
      BY <2>4
    <3>2. req \in MessageType /\ req.id \in Nat \ {0}
      BY DEF ServerInv, MessageType, NoId
    <3>3. Answer(version, ran, req.id) \in Seq(LeafType)
      BY <3>2, AnswerIs DEF FilesInv
    <3>4. Reply(req, Answer(version, ran, req.id)) \in S
      BY <1>2, <3>2, <3>3 DEF Reply, Answers
    <3>5. QED
      BY <1>3, <3>1, <3>4
  <2>5. QED
    BY <2>1, <2>2, <2>3, <2>4
<1>5. ServerInv'
  BY <1>2, <1>4, SameAnswers DEF ServerInv
<1>6. QED
  BY <1>1, <1>5

LEMMA RunStepInv ==
  ASSUME RegressionInv, RunStep \/ ServerStep
  PROVE  RegressionInv'
<1>1. /\ UNCHANGED <<version, ran, volatile, nested>> /\ ~Idle /\ ~Idle'
      /\ UNCHANGED <<worldVars, filesVars, commandVars>>
  BY DEF RunStep, ServerStep, worldVars, commandVars, Idle
<1>2. FilesInv' /\ CommandInv' /\ PassIsTrue'
  BY <1>1 DEF RegressionInv, FilesInv, CommandInv, PassIsTrue, worldVars, filesVars, commandVars, Idle
<1>3. ServerInv' /\ TodoInv' /\ TakenInv'
  <2>1. CASE Send
    BY <1>1, <2>1, SendStep DEF RegressionInv
  <2>2. CASE SendFails \/ StartRaises(source) \/ EndRaises
    BY <1>1, <2>2, OtherStep DEF RegressionInv, SendFails, StartRaises, EndRaises, serverVars
  <2>3. CASE ReadOn
    <3>1. /\ HasLine /\ ~NoMessage(Head(out)) /\ TakeLine /\ UNCHANGED <<todo, wanted>>
          /\ taken' = IF Head(out).id = NoId THEN Append(taken, Message(Head(out))) ELSE taken
      BY <2>3 DEF ReadOn
    <3>2. CASE Head(out).id = NoId
      BY <1>1, <3>1, <3>2, TakeStep DEF RegressionInv
    <3>3. CASE Head(out).id # NoId
      BY <1>1, <3>1, <3>3, OtherStep DEF RegressionInv, TakeLine
    <3>4. QED
      BY <3>2, <3>3
  <2>4. CASE Match
    <3>1. /\ HasLine /\ TakeLine /\ todo' = todo /\ wanted' = NoId /\ wanted # NoId
          /\ Head(out).id = wanted /\ taken' = Append(taken, Message(Head(out)))
      BY <2>4 DEF Match, Reading
    <3>2. Head(out) \in NoiseLines \cup Answers
      BY <3>1 DEF RegressionInv, ServerInv, HasLine
    <3>3. ~NoMessage(Head(out))
      <4>1. \/ Head(out).kind = "request" \/ Head(out).kind = "reply"
        BY <3>1, <3>2, LineIs
      <4>2. QED
        BY <4>1 DEF NoMessage
    <3>4. QED
      BY <1>1, <3>1, <3>3, TakeStep DEF RegressionInv
  <2>5. CASE ReadFails
    BY <1>1, <2>5, OtherStep DEF RegressionInv, ReadFails, TakeLine, serverVars
  <2>6. CASE ServerStep
    BY <1>1, <2>6, OtherStep DEF RegressionInv, ServerStep, ServerReplies, ServerNoise, ServerExits,
       replayVars
  <2>7. QED
    BY <2>1, <2>2, <2>3, <2>4, <2>5, <2>6 DEF RunStep, ReplaySteps
<1>4. QED
  BY <1>2, <1>3 DEF RegressionInv

LEMMA StartsInv ==
  ASSUME RegressionInv, NEW name \in {"verify", "update", "check", "replay"},
         NEW files \in Seq(Seq(MessageType)), files # <<>>, \A i \in DOMAIN files : Good(files[i]),
         Starts(name, files), name = "verify" => golden # Absent,
         name = "replay" => Head(files) = session,
         name = "check" => files[Len(files)] = session
  PROVE  RegressionInv'
<1>1. Good(Head(files)) /\ Head(files) = files[1]
  BY DEF Good
<1>2. ServerInv' /\ TodoInv' /\ TakenInv'
  BY <1>1, StartsClean DEF Starts
<1>3. ~Idle' /\ cmd' = name /\ last' = name /\ queue' = files /\ source' = Head(files)
      /\ UNCHANGED <<worldVars, filesVars, version>>
  BY DEF Starts, Idle
<1>4. FilesInv'
  BY <1>3 DEF RegressionInv, FilesInv, Starts, worldVars, filesVars
<1>5. CommandInv'
  BY <1>1, <1>3 DEF CommandInv, worldVars, filesVars
<1>6. PassIsTrue'
  BY <1>3 DEF PassIsTrue
<1>7. QED
  BY <1>2, <1>4, <1>5, <1>6 DEF RegressionInv

LEMMA IdleStepInv ==
  ASSUME RegressionInv, Snapshot \/ ServerChanges \/ SessionsRemoved
  PROVE  RegressionInv'
<1>1. /\ Idle /\ Idle' /\ out = <<>> /\ taken = <<>>
      /\ UNCHANGED <<serverVars, replayVars, worldVars, ran, cmd, source, queue, exit>>
  BY DEF Snapshot, ServerChanges, SessionsRemoved, commandVars, Idle, RegressionInv, CommandInv
<1>2. ServerInv' /\ TodoInv' /\ TakenInv'
  <2>1. out' = <<>> /\ asked' = asked /\ <<>> \in Seq((NoiseLines \cup Answers)')
    BY <1>1 DEF serverVars
  <2>2. ServerInv'
    BY <2>1 DEF RegressionInv, ServerInv
  <2>3. TodoInv'
    BY <1>1 DEF RegressionInv, TodoInv, replayVars
  <2>4. taken' = <<>> /\ wanted' = wanted /\ DOMAIN taken' = {}
    BY <1>1, EmptyGood DEF replayVars
  <2>5. TakenInv'
    BY <2>4, EmptyGood DEF RegressionInv, TakenInv, Says, Replies
  <2>6. QED
    BY <2>2, <2>3, <2>5
<1>3. CASE Snapshot
  <2>1. Good(golden') /\ last' = "none" /\ UNCHANGED <<version, replays>>
    BY <1>3, NormalizedGood DEF Snapshot, RegressionInv, FilesInv
  <2>2. FilesInv'
    BY <1>1, <2>1 DEF RegressionInv, FilesInv, worldVars
  <2>3. CommandInv' /\ PassIsTrue'
    BY <1>1, <2>1 DEF RegressionInv, CommandInv, PassIsTrue, Idle, serverVars, replayVars
  <2>4. QED
    BY <1>2, <2>2, <2>3 DEF RegressionInv
<1>4. CASE ServerChanges
  <2>1. /\ version' = 2 /\ last' = "none" /\ UNCHANGED <<session, golden, replays>>
    BY <1>4 DEF ServerChanges, worldVars, filesVars
  <2>2. FilesInv'
    BY <1>1, <2>1 DEF RegressionInv, FilesInv, worldVars
  <2>3. CommandInv' /\ PassIsTrue'
    BY <1>1, <2>1 DEF RegressionInv, CommandInv, PassIsTrue, Idle, serverVars, replayVars
  <2>4. QED
    BY <1>2, <2>2, <2>3 DEF RegressionInv
<1>5. CASE SessionsRemoved
  <2>1. /\ replays' = <<>> /\ UNCHANGED <<golden, version, last>>
    BY <1>5 DEF SessionsRemoved, commandVars
  <2>2. FilesInv'
    <3>1. replays' \in Seq(Seq(MessageType)) /\ DOMAIN replays' = {}
      BY <2>1
    <3>2. QED
      BY <1>1, <2>1, <3>1 DEF RegressionInv, FilesInv, worldVars
  <2>3. CommandInv'
    BY <1>1, <2>1 DEF RegressionInv, CommandInv, Idle, serverVars, replayVars
  <2>4. PassIsTrue'
    BY <1>1, <2>1 DEF RegressionInv, PassIsTrue, Says, Replies, worldVars
  <2>5. QED
    BY <1>2, <2>2, <2>3, <2>4 DEF RegressionInv
<1>6. QED
  BY <1>3, <1>4, <1>5

LEMMA SourcesGood ==
  ASSUME FilesInv, golden # Absent, NEW src \in Sources
  PROVE  Good(src)
BY DEF FilesInv, Sources, ToSet

LEMMA StartStepInv ==
  ASSUME RegressionInv, Verify \/ Update \/ Check \/ ReplayStrict
  PROVE  RegressionInv'
<1>1. CASE Verify \/ Update
  <2>1. PICK src \in Sources, name \in {"verify", "update"} : Starts(name, <<src>>) /\ golden # Absent
    BY <1>1 DEF Verify, Update
  <2>2. Good(src)
    BY <2>1, SourcesGood DEF RegressionInv
  <2>3. /\ <<src>> \in Seq(Seq(MessageType)) /\ <<src>> # <<>>
        /\ \A i \in DOMAIN <<src>> : Good(<<src>>[i])
    BY <2>2 DEF Good
  <2>4. QED
    BY <2>1, <2>3, StartsInv
<1>2. CASE Check
  <2>1. PICK files : files = Append(replays, session)
    OBVIOUS
  <2>2. /\ files \in Seq(Seq(MessageType)) /\ files # <<>> /\ files[Len(files)] = session
        /\ \A i \in DOMAIN files : (i \in DOMAIN replays /\ files[i] = replays[i]) \/ files[i] = session
    <3>1. replays \in Seq(Seq(MessageType)) /\ session \in Seq(MessageType)
      BY DEF RegressionInv, FilesInv, Good
    <3>2. QED
      BY <2>1, <3>1
  <2>3. \A i \in DOMAIN files : Good(files[i])
    BY <2>2 DEF RegressionInv, FilesInv
  <2>4. Starts("check", files)
    BY <1>2, <2>1 DEF Check
  <2>5. QED
    BY <2>2, <2>3, <2>4, StartsInv
<1>3. CASE ReplayStrict
  <2>1. /\ <<session>> \in Seq(Seq(MessageType)) /\ <<session>> # <<>> /\ Head(<<session>>) = session
        /\ \A i \in DOMAIN <<session>> : Good(<<session>>[i])
    BY DEF RegressionInv, FilesInv, Good
  <2>2. Starts("replay", <<session>>)
    BY <1>3 DEF ReplayStrict
  <2>3. QED
    BY <2>1, <2>2, StartsInv
<1>4. QED
  BY <1>1, <1>2, <1>3

\* The replays a command leaves are transcripts like any other.
LEMMA LeftGood ==
  ASSUME FilesInv, TakenInv
  PROVE  /\ Left \in Seq(Seq(MessageType)) /\ \A i \in DOMAIN Left : Good(Left[i])
         /\ Spoiled \in Seq(Seq(MessageType)) /\ \A i \in DOMAIN Spoiled : Good(Spoiled[i])
<1>1. PICK t : t = Append(replays, taken)
  OBVIOUS
<1>2. /\ t \in Seq(Seq(MessageType))
      /\ \A i \in DOMAIN t : (i \in DOMAIN replays /\ t[i] = replays[i]) \/ t[i] = taken
  <2>1. replays \in Seq(Seq(MessageType)) /\ taken \in Seq(MessageType)
    BY DEF FilesInv, TakenInv, Good
  <2>2. QED
    BY <1>1, <2>1
<1>3. \A i \in DOMAIN t : Good(t[i])
  BY <1>2 DEF FilesInv, TakenInv
<1>4. (Left = replays \/ Left = t) /\ (Spoiled = replays \/ Spoiled = t)
  BY <1>1 DEF Left, Spoiled
<1>5. QED
  BY <1>2, <1>3, <1>4 DEF FilesInv

LEMMA VerifyJudgedInv ==
  ASSUME RegressionInv, VerifyJudged
  PROVE  RegressionInv'
<1>1. /\ Ended /\ cmd = "verify" /\ last = "verify" /\ Idle'
      /\ replays' = Spoiled /\ UNCHANGED <<worldVars, golden, version, queue, source, last, ran>>
  BY DEF VerifyJudged, RegressionInv, CommandInv, Ended, Idle
<1>2. golden # Absent /\ Good(golden) /\ Good(taken) /\ Says(taken, version)
  BY <1>1 DEF RegressionInv, CommandInv, FilesInv, TakenInv
<1>3. exit' = 0 => Says(golden, version)
  <2>1. exit' = 0 => Changes(golden, Normalized(taken)) = {}
    BY DEF VerifyJudged, Matches
  <2>2. Says(Normalized(taken), version)
    BY <1>2, NormalizedSays
  <2>3. QED
    BY <1>2, <2>1, <2>2, MatchSays
<1>4. PassIsTrue'
  BY <1>1, <1>3 DEF PassIsTrue, Says, Replies
<1>5. FilesInv'
  BY <1>1, LeftGood DEF RegressionInv, FilesInv, worldVars
<1>6. CommandInv'
  BY <1>1, <1>2 DEF CommandInv, Idle, Ended, Stopped
<1>7. QED
  BY <1>1, <1>4, <1>5, <1>6, EndsClean DEF RegressionInv

LEMMA UpdateJudgedInv ==
  ASSUME RegressionInv, UpdateJudged
  PROVE  RegressionInv'
<1>1. /\ Ended /\ cmd = "update" /\ last = "update" /\ last' = "update" /\ Idle' /\ Good(source)
      /\ replays' = Spoiled /\ UNCHANGED <<worldVars, version, ran>>
  BY DEF UpdateJudged, Ready, RegressionInv, CommandInv, Ended, Idle
<1>2. golden' = golden \/ golden' = Merged
  BY DEF UpdateJudged
<1>3. Good(Merged)
  BY <1>1, MergedGood DEF RegressionInv, TakenInv
<1>4. FilesInv'
  BY <1>1, <1>2, <1>3, LeftGood DEF RegressionInv, FilesInv, worldVars
<1>5. CommandInv' /\ PassIsTrue'
  BY <1>1 DEF CommandInv, PassIsTrue, Idle, Ended, Stopped
<1>6. QED
  BY <1>1, <1>4, <1>5, EndsClean DEF RegressionInv

LEMMA ReplayJudgedInv ==
  ASSUME RegressionInv, ReplayJudged
  PROVE  RegressionInv'
<1>1. /\ Ended /\ cmd = "replay" /\ last = "replay" /\ source = session /\ Idle' /\ replays' = Left
      /\ UNCHANGED <<worldVars, golden, version, last, ran>>
  BY DEF ReplayJudged, RegressionInv, CommandInv, Ended, Idle
<1>2. exit' = 0 => Says(session, version)
  <2>1. exit' = 0 => Changes(session, taken) = {}
    BY <1>1 DEF ReplayJudged, Matches
  <2>2. Good(session) /\ Good(taken) /\ Says(taken, version)
    BY DEF RegressionInv, FilesInv, TakenInv
  <2>3. QED
    BY <2>1, <2>2, MatchSays
<1>3. PassIsTrue'
  BY <1>1, <1>2 DEF PassIsTrue, Says, Replies, worldVars
<1>4. FilesInv'
  BY <1>1, LeftGood DEF RegressionInv, FilesInv, worldVars
<1>5. CommandInv'
  BY <1>1 DEF CommandInv, Idle, Ended, Stopped
<1>6. QED
  BY <1>1, <1>3, <1>4, <1>5, EndsClean DEF RegressionInv

LEMMA CheckJudgedInv ==
  ASSUME RegressionInv, CheckJudged
  PROVE  RegressionInv'
<1>1. /\ ~Idle /\ cmd = "check" /\ last = "check" /\ replays' = Left /\ queue' = Tail(queue)
      /\ exit' = IF Matches(source, taken) THEN exit ELSE 1
      /\ UNCHANGED <<worldVars, golden, version, last, ran>>
  BY DEF CheckJudged, Ready, RegressionInv, CommandInv, Idle
<1>2. FilesInv'
  BY <1>1, LeftGood DEF RegressionInv, FilesInv, worldVars
<1>3. /\ queue \in Seq(Seq(MessageType)) /\ queue # <<>> /\ source = Head(queue)
      /\ queue[Len(queue)] = session /\ \A i \in DOMAIN queue : Good(queue[i])
  BY <1>1 DEF RegressionInv, CommandInv
<1>4. CASE queue' = <<>>
  <2>1. Ended /\ Idle'
    BY <1>4 DEF CheckJudged, Ended, Idle
  <2>2. source = session
    <3>1. Len(queue) = 1
      <4>1. PICK q \in Seq(Seq(MessageType)) : q = queue
        BY <1>3
      <4>2. q # <<>> /\ Tail(q) = <<>>
        BY <1>1, <1>3, <1>4, <4>1
      <4>3. Len(Tail(q)) = Len(q) - 1 /\ Len(q) \in Nat
        BY <4>2
      <4>4. Len(Tail(q)) = 0
        <5>1. Len(<<>>) = 0
          OBVIOUS
        <5>2. QED
          BY <4>2, <5>1, Zenon
      <4>5. Len(q) = 1
        BY <4>3, <4>4
      <4>6. QED
        BY <4>1, <4>5
    <3>2. QED
      BY <1>3, <3>1
  <2>3. exit' = 0 => Says(session, version)
    <3>1. exit' = 0 => Changes(session, taken) = {}
      BY <1>1, <2>2 DEF Matches
    <3>2. Good(session) /\ Good(taken) /\ Says(taken, version)
      BY DEF RegressionInv, FilesInv, TakenInv
    <3>3. QED
      BY <3>1, <3>2, MatchSays
  <2>4. PassIsTrue'
    BY <1>1, <2>3 DEF PassIsTrue, Says, Replies, worldVars
  <2>5. CommandInv'
    BY <1>1, <2>1 DEF CommandInv, Idle, Ended, Stopped
  <2>6. QED
    BY <1>2, <2>1, <2>4, <2>5, EndsClean DEF RegressionInv
<1>5. CASE queue' # <<>>
  <2>1. source' = Head(queue') /\ ReplayStarts(source') /\ cmd' = "check" /\ ~Idle'
    BY <1>1, <1>5 DEF CheckJudged, Idle
  <2>2. /\ queue' \in Seq(Seq(MessageType)) /\ queue'[Len(queue')] = session
        /\ 1 \in DOMAIN queue' /\ source' = queue'[1]
        /\ \A i \in DOMAIN queue' : i + 1 \in DOMAIN queue /\ queue'[i] = queue[i + 1]
    BY <1>1, <1>3, <1>5, <2>1
  <2>3. \A i \in DOMAIN queue' : Good(queue'[i])
    BY <1>3, <2>2
  <2>4. Good(source')
    BY <2>2, <2>3
  <2>5. ServerInv' /\ TodoInv' /\ TakenInv'
    BY <2>1, <2>4, StartsClean
  <2>6. CommandInv'
    BY <1>1, <1>5, <2>1, <2>2, <2>3, <2>4 DEF CommandInv, worldVars
  <2>7. PassIsTrue'
    BY <2>1 DEF PassIsTrue
  <2>8. QED
    BY <1>2, <2>5, <2>6, <2>7 DEF RegressionInv
<1>6. QED
  BY <1>4, <1>5

LEMMA RegressionStarts == RegressionInit => RegressionInv
<1>1. SUFFICES ASSUME RegressionInit PROVE RegressionInv
  OBVIOUS
<1>2. nested \in BOOLEAN /\ volatile \in BOOLEAN
  BY <1>1 DEF RegressionInit
<1>3. Good(session)
  <2>1. <<>> \in Seq(LeafType) /\ <<Leaf("id", 6)>> \in Seq(LeafType)
    BY DEF Leaf, LeafType
  <2>2. session \in Recordings(<<>>) \/ session \in Recordings(<<Leaf("id", 6)>>)
    BY <1>1 DEF RegressionInit
  <2>3. QED
    BY <1>2, <2>1, <2>2, RecordingsGood
<1>4. FilesInv
  <2>1. replays \in Seq(Seq(MessageType)) /\ DOMAIN replays = {}
    BY <1>1 DEF RegressionInit
  <2>2. QED
    BY <1>1, <1>2, <1>3, <2>1 DEF RegressionInit, FilesInv
<1>5. Clean
  BY <1>1, EmptyGood DEF RegressionInit, ReplayInit, NoServer, Clean
<1>6. CommandInv /\ PassIsTrue
  BY <1>1, <1>5 DEF RegressionInit, CommandInv, PassIsTrue, Idle, Clean
<1>7. QED
  BY <1>4, <1>5, <1>6, CleanInv DEF RegressionInv

LEMMA RegressionStep == RegressionInv /\ [RegressionNext]_regressionVars => RegressionInv'
<1>1. SUFFICES ASSUME RegressionInv, [RegressionNext]_regressionVars PROVE RegressionInv'
  OBVIOUS
<1>2. CASE Snapshot \/ ServerChanges \/ SessionsRemoved
  BY <1>1, <1>2, IdleStepInv
<1>3. CASE Verify \/ Update \/ Check \/ ReplayStrict
  BY <1>1, <1>3, StartStepInv
<1>4. CASE RunStep \/ ServerStep
  BY <1>1, <1>4, RunStepInv
<1>5. CASE Judged
  BY <1>1, <1>5, VerifyJudgedInv, UpdateJudgedInv, CheckJudgedInv, ReplayJudgedInv DEF Judged
<1>6. CASE UNCHANGED regressionVars
  <2>1. UNCHANGED <<serverVars, replayVars, worldVars, filesVars, version, commandVars>>
    BY <1>6 DEF regressionVars
  <2>2. FilesInv' /\ CommandInv' /\ PassIsTrue'
    BY <1>1, <2>1 DEF RegressionInv, FilesInv, CommandInv, PassIsTrue, Says, Replies, Idle,
       serverVars, replayVars, worldVars, filesVars, commandVars
  <2>3. ServerInv' /\ TodoInv' /\ TakenInv'
    BY <1>1, <2>1, OtherStep DEF RegressionInv, serverVars, replayVars, worldVars, commandVars
  <2>4. QED
    BY <2>2, <2>3 DEF RegressionInv
<1>7. QED
  BY <1>1, <1>2, <1>3, <1>4, <1>5, <1>6 DEF RegressionNext

\* A command that exits 0 has seen the server say what was recorded: verify
\* (cli.py, _run_verify_impl) what the golden file says, check and replay
\* --strict what the session says, whatever the server wrote besides, in which
\* order its answers came and which of the replays were cut short before.
THEOREM PassCorrect == RegressionSpec => []PassIsTrue
<1>1. RegressionInv => PassIsTrue
  BY DEF RegressionInv
<1>2. QED
  BY RegressionStarts, RegressionStep, <1>1, PTL DEF RegressionSpec

(* ---------------------- one side of a transcript ----------------------- *)

\* What one side has sent of the first m messages.
SentOf(g, msgs, dir) ==
  /\ g[0] = <<>> /\ Sent(msgs, dir) = g[Len(msgs)]
  /\ \A m \in 1..Len(msgs) :
       g[m] = IF msgs[m].dir = dir THEN Append(g[m - 1], msgs[m]) ELSE g[m - 1]
LEMMA SentSteps ==
  ASSUME NEW X, NEW msgs \in Seq(X), NEW dir
  PROVE  \E g : SentOf(g, msgs, dir) /\ \A m \in 0..Len(msgs) : g[m] \in Seq(X)
<1> DEFINE part(m) == IF m.dir = dir THEN <<m>> ELSE <<>>
           s == [i \in DOMAIN msgs |-> part(msgs[i])]
<1>1. Len(msgs) \in Nat /\ DOMAIN msgs = 1..Len(msgs) /\ \A i \in 1..Len(msgs) : msgs[i] \in X
  OBVIOUS
<1>2. s \in Seq(Seq(X)) /\ Len(s) = Len(msgs) /\ \A i \in 1..Len(msgs) : s[i] = part(msgs[i])
  <2>1. \A i \in 1..Len(msgs) : part(msgs[i]) \in Seq(X)
    BY <1>1
  <2>2. QED
    BY <1>1, <2>1
<1>3. Sent(msgs, dir) = FlattenSeq(s)
  BY DEF Sent
<1> HIDE DEF s
<1>4. <<>> \in Seq(X)
  OBVIOUS
<1>5. CASE msgs = <<>>
  <2>1. Len(s) = 0 /\ s = <<>> /\ FlattenSeq(s) = <<>>
    BY <1>2, <1>5 DEF FlattenSeq
  <2>2. Len(msgs) = 0
    BY <1>5
  <2> DEFINE g == [m \in 0..0 |-> <<>>]
  <2>3. g[0] = <<>>
    OBVIOUS
  <2> HIDE DEF g
  <2>4. SentOf(g, msgs, dir) /\ \A m \in 0..Len(msgs) : g[m] \in Seq(X)
    <3>1. g[Len(msgs)] = <<>> /\ Sent(msgs, dir) = <<>>
      BY <1>3, <2>1, <2>2, <2>3, Zenon
    <3>2. \A m \in 0..Len(msgs) : m = 0
      BY <2>2
    <3>3. \A m \in 1..Len(msgs) : FALSE
      BY <2>2
    <3>4. SentOf(g, msgs, dir)
      BY <2>3, <3>1, <3>3, Zenon DEF SentOf
    <3>5. QED
      BY <1>4, <2>3, <3>2, <3>4, Zenon
  <2>5. QED
    BY <2>4
<1>6. CASE msgs # <<>>
  <2>1. s # <<>> /\ Len(msgs) >= 1
    BY <1>1, <1>2, <1>6
  <2>2. PICK f : /\ Flattens(f, s) /\ FlattenSeq(s) = f[Len(s)]
                 /\ \A m \in 1..Len(s) : f[m] \in Seq(X)
    BY <1>2, <2>1, FlattenIs
  <2>3. \A m \in 1..Len(msgs) : f[m] = IF m = 1 THEN s[m] ELSE f[m - 1] \o s[m]
    BY <1>2, <2>2 DEF Flattens
  <2> DEFINE g == [m \in 0..Len(msgs) |-> IF m = 0 THEN <<>> ELSE f[m]]
  <2>4. g[0] = <<>> /\ \A m \in 1..Len(msgs) : g[m] = f[m] /\ g[m] \in Seq(X)
    BY <1>1, <1>2, <2>2
  <2> HIDE DEF g
  <2>5. \A m \in 0..Len(msgs) : g[m] \in Seq(X)
    <3>1. \A m \in 0..Len(msgs) : m = 0 \/ m \in 1..Len(msgs)
      BY <1>1
    <3>2. QED
      BY <1>4, <2>4, <3>1
  <2>6. ASSUME NEW m \in 1..Len(msgs)
        PROVE  g[m] = g[m - 1] \o s[m]
    <3>1. CASE m = 1
      <4>1. f[1] = s[1] /\ g[1] = s[1] /\ s[1] \in Seq(X)
        BY <1>1, <1>2, <2>1, <2>3, <2>4
      <4>2. \A x \in Seq(X) : <<>> \o x = x
        OBVIOUS
      <4>3. g[0] \o s[1] = s[1] /\ m - 1 = 0
        BY <2>4, <3>1, <4>1, <4>2
      <4>4. QED
        BY <3>1, <4>1, <4>3
    <3>2. CASE m # 1
      <4>1. m - 1 \in 1..Len(msgs)
        BY <1>1, <3>2
      <4>2. g[m - 1] = f[m - 1] /\ g[m] = f[m] /\ f[m] = f[m - 1] \o s[m]
        BY <2>3, <2>4, <3>2, <4>1
      <4>3. QED
        BY <4>2
    <3>3. QED
      BY <3>1, <3>2
  <2>7. ASSUME NEW m \in 1..Len(msgs)
        PROVE  g[m] = IF msgs[m].dir = dir THEN Append(g[m - 1], msgs[m]) ELSE g[m - 1]
    <3>1. PICK h \in Seq(X), e \in X : h = g[m - 1] /\ e = msgs[m]
      <4>1. m - 1 \in 0..Len(msgs)
        BY <1>1
      <4>2. QED
        BY <1>1, <2>5, <4>1
    <3>2. g[m] = h \o part(e)
      BY <1>2, <2>6, <3>1
    <3>3. h \o <<e>> = Append(h, e) /\ h \o <<>> = h
      OBVIOUS
    <3>4. QED
      BY <3>1, <3>2, <3>3
  <2>8. SentOf(g, msgs, dir)
    BY <1>1, <1>2, <1>3, <2>1, <2>2, <2>4, <2>7 DEF SentOf
  <2>9. QED
    BY <2>5, <2>8
<1>7. QED
  BY <1>5, <1>6

\* A transcript in which one side sends first.
LEMMA SentFirst ==
  ASSUME NEW X, NEW msgs \in Seq(X), NEW dir, NEW n \in 0..Len(msgs),
         \A i \in 1..Len(msgs) : msgs[i].dir = dir <=> i <= n
  PROVE  /\ Sent(msgs, dir) \in Seq(X) /\ Len(Sent(msgs, dir)) = n
         /\ \A k \in 1..n : Sent(msgs, dir)[k] = msgs[k]
<1>1. Len(msgs) \in Nat /\ n \in Nat /\ n <= Len(msgs) /\ \A i \in 1..Len(msgs) : msgs[i] \in X
  OBVIOUS
<1>2. PICK g : SentOf(g, msgs, dir) /\ \A m \in 0..Len(msgs) : g[m] \in Seq(X)
  BY SentSteps
<1> DEFINE Least(m) == IF m <= n THEN m ELSE n
           S == {m \in Nat : Len(g[m]) = Least(m) /\ \A k \in 1..Least(m) : g[m][k] = msgs[k]}
<1>3. 0 \in S
  BY <1>1, <1>2 DEF SentOf
<1>4. ASSUME NEW m \in Nat, m + 1 <= Len(msgs), m \in S
      PROVE  m + 1 \in S
  <2>1. m \in 0..Len(msgs) /\ m + 1 \in 1..Len(msgs) /\ (m + 1) - 1 = m
    BY <1>1, <1>4
  <2>2. PICK h \in Seq(X), e \in X : h = g[m] /\ e = msgs[m + 1]
    BY <1>1, <1>2, <2>1
  <2>3. Len(h) = Least(m) /\ \A k \in 1..Least(m) : h[k] = msgs[k]
    BY <1>4, <2>2
  <2>4. g[m + 1] = IF e.dir = dir THEN Append(h, e) ELSE h
    BY <1>2, <2>1, <2>2 DEF SentOf
  <2>5. e.dir = dir <=> m + 1 <= n
    BY <2>1, <2>2
  <2>6. CASE m + 1 <= n
    <3>1. Least(m) = m /\ Least(m + 1) = m + 1 /\ g[m + 1] = Append(h, e)
      BY <1>1, <2>4, <2>5, <2>6
    <3>2. /\ Len(Append(h, e)) = m + 1 /\ Append(h, e)[m + 1] = e
          /\ \A k \in 1..m : Append(h, e)[k] = h[k]
      BY <2>3, <3>1, AppendIs
    <3>3. \A k \in 1..(m + 1) : k = m + 1 \/ k \in 1..m
      OBVIOUS
    <3>4. \A k \in 1..(m + 1) : g[m + 1][k] = msgs[k]
      BY <2>2, <2>3, <3>1, <3>2, <3>3
    <3>5. Len(g[m + 1]) = m + 1
      BY <3>1, <3>2
    <3>6. \A k \in 1..Least(m + 1) : g[m + 1][k] = msgs[k]
      BY <3>1, <3>4
    <3>7. m + 1 \in Nat /\ Len(g[m + 1]) = Least(m + 1)
      BY <3>1, <3>5
    <3>8. QED
      BY <3>6, <3>7
  <2>7. CASE ~(m + 1 <= n)
    <3>1. Least(m) = n /\ Least(m + 1) = n /\ g[m + 1] = h
      BY <1>1, <2>4, <2>5, <2>7
    <3>2. QED
      BY <2>3, <3>1
  <2>8. QED
    BY <2>6, <2>7
<1>5. \A m \in 0..Len(msgs) : m \in S
  <2> HIDE DEF S
  <2>1. QED
    BY <1>1, <1>3, <1>4, InductionTo
<1>6. Len(msgs) \in 0..Len(msgs) /\ Least(Len(msgs)) = n
  BY <1>1
<1>7. Sent(msgs, dir) = g[Len(msgs)]
  BY <1>2 DEF SentOf
<1>8. QED
  BY <1>2, <1>5, <1>6, <1>7

LEMMA SentAll ==
  ASSUME NEW X, NEW msgs \in Seq(X), NEW dir, \A i \in 1..Len(msgs) : msgs[i].dir = dir
  PROVE  Sent(msgs, dir) = msgs
<1>1. Len(msgs) \in 0..Len(msgs) /\ \A i \in 1..Len(msgs) : msgs[i].dir = dir <=> i <= Len(msgs)
  OBVIOUS
<1>2. PICK t : t = Sent(msgs, dir)
  OBVIOUS
<1>3. t \in Seq(X) /\ Len(t) = Len(msgs) /\ \A k \in 1..Len(msgs) : t[k] = msgs[k]
  BY <1>1, <1>2, SentFirst
<1>4. QED
  BY <1>2, <1>3, SameSequence

LEMMA SentNone ==
  ASSUME NEW X, NEW msgs \in Seq(X), NEW dir, \A i \in 1..Len(msgs) : msgs[i].dir # dir
  PROVE  Sent(msgs, dir) = <<>>
<1>1. 0 \in 0..Len(msgs) /\ \A i \in 1..Len(msgs) : msgs[i].dir = dir <=> i <= 0
  OBVIOUS
<1>2. PICK t : t = Sent(msgs, dir)
  OBVIOUS
<1>3. t \in Seq(X) /\ Len(t) = 0
  BY <1>1, <1>2, SentFirst
<1>4. QED
  BY <1>2, <1>3

\* What the client sent of a transcript that was merged.
LEMMA SentConcat ==
  ASSUME NEW X, NEW a \in Seq(X), NEW b \in Seq(X), NEW dir,
         \A i \in 1..Len(a) : a[i].dir = dir, \A i \in 1..Len(b) : b[i].dir # dir
  PROVE  Sent(a \o b, dir) = a
<1>1. PICK t \in Seq(X) : t = a \o b
  BY ConcatIs
<1>2. /\ Len(a) \in Nat /\ Len(b) \in Nat /\ Len(t) = Len(a) + Len(b)
      /\ \A n \in 1..Len(a) : t[n] = a[n]
      /\ \A n \in 1..Len(b) : t[Len(a) + n] = b[n]
  BY <1>1, ConcatIs
<1>3. Len(a) \in 0..Len(t)
  BY <1>2
<1>4. ASSUME NEW i \in 1..Len(t)
      PROVE  t[i].dir = dir <=> i <= Len(a)
  <2>1. CASE i <= Len(a)
    <3>1. i \in 1..Len(a)
      BY <1>2, <2>1
    <3>2. QED
      BY <1>2, <2>1, <3>1
  <2>2. CASE ~(i <= Len(a))
    <3>1. i - Len(a) \in 1..Len(b) /\ Len(a) + (i - Len(a)) = i
      BY <1>2, <2>2
    <3>2. t[i] = b[i - Len(a)]
      BY <1>2, <3>1
    <3>3. QED
      BY <2>2, <3>1, <3>2
  <2>3. QED
    BY <2>1, <2>2
<1>5. PICK u : u = Sent(t, dir)
  OBVIOUS
<1>6. u \in Seq(X) /\ Len(u) = Len(a) /\ \A k \in 1..Len(a) : u[k] = t[k]
  BY <1>3, <1>4, <1>5, SentFirst
<1>7. u = a
  BY <1>2, <1>6, SameSequence
<1>8. QED
  BY <1>1, <1>5, <1>7

Kinds(msgs) == [i \in DOMAIN C2S(msgs) |-> C2S(msgs)[i].kind]
Whole(msgs) ==
  /\ Kinds(msgs) = Kinds(session)
  /\ msgs = Normalized(session) \/ WithId(msgs, "c2s") <= WithId(msgs, "s2c")

\* The golden file is whole, or an update has replayed a replay of another
\* command, which has no requests, and has left nothing.
GoldenInv ==
  golden # Absent => Whole(golden) \/ (golden = <<>> /\ C2S(settled.src) = <<>>)
SessionInv == \E i \in DOMAIN session : session[i].dir = "c2s" /\ session[i].id # NoId
ReplaysInv == \A i \in DOMAIN replays : C2S(replays[i]) = <<>>

\* What the source asks is to be sent, awaited or answered.
Pursued(src) ==
  /\ \A i \in DOMAIN C2S(src) : C2S(src)[i].id # NoId =>
       \/ C2S(src)[i].id = wanted
       \/ \E j \in DOMAIN todo : todo[j].id = C2S(src)[i].id
       \/ \E j \in DOMAIN taken : taken[j].id = C2S(src)[i].id
  /\ C2S(src) = <<>> => todo = <<>> /\ wanted = NoId /\ taken = <<>>
SourceInv ==
  ~Idle =>
    /\ cmd \in {"verify", "update"} =>
         golden # Absent /\ (source = session \/ source = golden \/ C2S(source) = <<>>)
    /\ Pursued(source)

KeepInv == RegressionInv /\ GoldenInv /\ SessionInv /\ ReplaysInv /\ SourceInv

(* --------------------------- what is kept ------------------------------ *)

LEMMA SentKinds ==
  ASSUME NEW X, NEW s \in Seq(X), NEW t \in Seq(X), NEW dir, Len(s) = Len(t),
         \A i \in 1..Len(s) : s[i].dir = t[i].dir /\ s[i].kind = t[i].kind
  PROVE  /\ Len(Sent(s, dir)) = Len(Sent(t, dir))
         /\ \A k \in 1..Len(Sent(s, dir)) : Sent(s, dir)[k].kind = Sent(t, dir)[k].kind
<1>1. Len(s) \in Nat /\ \A i \in 1..Len(s) : s[i] \in X /\ t[i] \in X
  OBVIOUS
<1>2. PICK g : SentOf(g, s, dir) /\ \A m \in 0..Len(s) : g[m] \in Seq(X)
  BY SentSteps
<1>3. PICK h : SentOf(h, t, dir) /\ \A m \in 0..Len(s) : h[m] \in Seq(X)
  BY SentSteps
<1> DEFINE Same(a, b) == Len(a) = Len(b) /\ \A k \in 1..Len(a) : a[k].kind = b[k].kind
           S == {m \in Nat : Same(g[m], h[m])}
<1>4. 0 \in S
  BY <1>2, <1>3 DEF SentOf
<1>5. ASSUME NEW a \in Seq(X), NEW b \in Seq(X), Same(a, b), NEW x \in X, NEW y \in X, x.kind = y.kind
      PROVE  Same(Append(a, x), Append(b, y))
  <2>1. /\ Len(a) \in Nat /\ Len(Append(a, x)) = Len(a) + 1 /\ Append(a, x)[Len(a) + 1] = x
        /\ \A k \in 1..Len(a) : Append(a, x)[k] = a[k]
    BY AppendIs
  <2>2. /\ Len(b) \in Nat /\ Len(Append(b, y)) = Len(b) + 1 /\ Append(b, y)[Len(b) + 1] = y
        /\ \A k \in 1..Len(b) : Append(b, y)[k] = b[k]
    BY AppendIs
  <2>3. \A k \in 1..(Len(a) + 1) : k = Len(a) + 1 \/ k \in 1..Len(a)
    BY <2>1
  <2>4. \A k \in 1..(Len(a) + 1) : Append(a, x)[k].kind = Append(b, y)[k].kind
    BY <1>5, <2>1, <2>2, <2>3
  <2>5. QED
    BY <1>5, <2>1, <2>2, <2>4
<1> HIDE DEF Same
<1>6. ASSUME NEW m \in Nat, m + 1 <= Len(s), m \in S
      PROVE  m + 1 \in S
  <2>1. m \in 0..Len(s) /\ m + 1 \in 1..Len(s) /\ (m + 1) - 1 = m
    BY <1>1, <1>6
  <2>2. PICK a \in Seq(X), b \in Seq(X), x \in X, y \in X :
          a = g[m] /\ b = h[m] /\ x = s[m + 1] /\ y = t[m + 1]
    BY <1>1, <1>2, <1>3, <2>1
  <2>3. /\ g[m + 1] = IF x.dir = dir THEN Append(a, x) ELSE a
        /\ h[m + 1] = IF y.dir = dir THEN Append(b, y) ELSE b
    BY <1>2, <1>3, <2>1, <2>2 DEF SentOf
  <2>4. x.dir = y.dir /\ x.kind = y.kind /\ Same(a, b)
    BY <1>6, <2>1, <2>2
  <2>5. Same(Append(a, x), Append(b, y))
    BY <1>5, <2>2, <2>4
  <2>6. QED
    BY <2>3, <2>4, <2>5
<1>7. \A m \in 0..Len(s) : m \in S
  <2> HIDE DEF S
  <2>1. QED
    BY <1>1, <1>4, <1>6, InductionTo
<1>8. Len(s) \in 0..Len(s) /\ Sent(s, dir) = g[Len(s)] /\ Sent(t, dir) = h[Len(s)]
  BY <1>1, <1>2, <1>3 DEF SentOf
<1>9. Same(Sent(s, dir), Sent(t, dir))
  BY <1>7, <1>8
<1>10. QED
  BY <1>9 DEF Same

LEMMA KindsNormalized ==
  ASSUME NEW msgs, Good(msgs)
  PROVE  Kinds(Normalized(msgs)) = Kinds(msgs)
<1>1. PICK t : t = Normalized(msgs)
  OBVIOUS
<1>2. /\ msgs \in Seq(MessageType) /\ t \in Seq(MessageType) /\ DOMAIN t = DOMAIN msgs
      /\ \A i \in DOMAIN msgs : msgs[i].dir = t[i].dir /\ msgs[i].kind = t[i].kind
  BY <1>1, NormalizedIs DEF Good
<1>3. Len(t) = Len(msgs) /\ \A i \in 1..Len(t) : t[i].dir = msgs[i].dir /\ t[i].kind = msgs[i].kind
  BY <1>2
<1>4. PICK a, b : a = C2S(t) /\ b = C2S(msgs)
  OBVIOUS
<1>5. /\ Len(a) = Len(b) /\ \A k \in 1..Len(a) : a[k].kind = b[k].kind
      /\ a \in Seq(MessageType) /\ b \in Seq(MessageType)
  BY <1>2, <1>3, <1>4, SentKinds, SentIs DEF C2S
<1>6. DOMAIN a = 1..Len(a) /\ DOMAIN b = 1..Len(a)
  BY <1>5
<1>7. [i \in DOMAIN a |-> a[i].kind] = [i \in DOMAIN b |-> b[i].kind]
  BY <1>5, <1>6
<1>8. QED
  BY <1>1, <1>4, <1>7 DEF Kinds

LEMMA NormalizedIds ==
  ASSUME NEW msgs, Good(msgs), NEW i \in DOMAIN msgs, msgs[i].id # NoId
  PROVE  Normalized(msgs)[i].id # NoId
<1>1. msgs \in Seq(MessageType)
  BY DEF Good
<1>2. Walk(msgs, "id") \in Seq(Nat) /\ msgs[i].id \in Elems(Walk(msgs, "id"))
  BY <1>1, WalkIs DEF NoId
<1>3. Number(Walk(msgs, "id"), msgs[i].id) # 0
  BY <1>2, NumberIs
<1>4. Normalized(msgs)[i].id = Number(Walk(msgs, "id"), msgs[i].id)
  BY <1>1, NormalizedIs DEF NoId
<1>5. QED
  BY <1>3, <1>4 DEF NoId

\* The golden file of a complete replay asks what its source asks, and holds an
\* answer to all of it.
LEMMA MergedKeeps ==
  ASSUME Good(source), Good(taken), \A i \in DOMAIN taken : taken[i].dir = "s2c",
         \A i \in DOMAIN C2S(source) : C2S(source)[i].id # NoId =>
           \E j \in DOMAIN taken : taken[j].id = C2S(source)[i].id
  PROVE  Kinds(Merged) = Kinds(source) /\ WithId(Merged, "c2s") <= WithId(Merged, "s2c")
<1>1. PICK a, n : a = C2S(source) /\ n = Normalized(taken)
  OBVIOUS
<1>2. Good(a) /\ \A i \in DOMAIN a : a[i].dir = "c2s"
  BY <1>1, SentGood DEF C2S
<1>3. /\ Good(n) /\ DOMAIN n = DOMAIN taken /\ \A i \in DOMAIN n : n[i].dir = "s2c"
  BY <1>1, NormalizedGood, NormalizedIs DEF Good
<1>4. /\ a \in Seq(MessageType) /\ DOMAIN a = 1..Len(a)
      /\ n \in Seq(MessageType) /\ DOMAIN n = 1..Len(n)
  BY <1>2, <1>3 DEF Good
<1>5. PICK t : t = a \o n
  OBVIOUS
<1>6. Merged = t
  <2>1. Sent(n, "s2c") = n
    BY <1>3, <1>4, SentAll
  <2>2. QED
    BY <1>1, <1>5, <2>1 DEF Merged
<1>7. C2S(t) = a
  <2>1. \A i \in 1..Len(n) : n[i].dir # "c2s"
    BY <1>3, <1>4
  <2>2. QED
    BY <1>2, <1>4, <1>5, <2>1, SentConcat DEF C2S
<1>8. Kinds(Merged) = Kinds(source)
  BY <1>1, <1>6, <1>7 DEF Kinds
<1>9. /\ t \in Seq(MessageType) /\ DOMAIN t = 1..(Len(a) + Len(n)) /\ Len(a) \in Nat /\ Len(n) \in Nat
      /\ \A i \in 1..Len(a) : t[i] = a[i]
      /\ \A i \in 1..Len(n) : Len(a) + i \in DOMAIN t /\ t[Len(a) + i] = n[i]
  BY <1>4, <1>5
<1> DEFINE A == {i \in DOMAIN t : t[i].dir = "c2s" /\ t[i].id # NoId}
           B == {i \in DOMAIN t : t[i].dir = "s2c" /\ t[i].id # NoId}
           answer(i) == CHOOSE j \in DOMAIN taken : taken[j].id = t[i].id
           f == [i \in A |-> Len(a) + answer(i)]
<1>10. ASSUME NEW i \in A
       PROVE  i \in DOMAIN a /\ t[i] = a[i] /\ t[i].id # NoId
  <2>1. CASE i \in 1..Len(a)
    BY <1>4, <1>9, <2>1
  <2>2. CASE i \notin 1..Len(a)
    <3>1. i - Len(a) \in 1..Len(n) /\ Len(a) + (i - Len(a)) = i
      BY <1>9, <2>2
    <3>2. t[i] = n[i - Len(a)]
      BY <1>9, <3>1
    <3>3. t[i].dir = "s2c"
      BY <1>3, <1>4, <3>1, <3>2
    <3>4. QED
      BY <3>3
  <2>3. QED
    BY <2>1, <2>2
<1>11. ASSUME NEW i \in A
       PROVE  answer(i) \in DOMAIN taken /\ taken[answer(i)].id = t[i].id
  <2>1. \E j \in DOMAIN taken : taken[j].id = t[i].id
    BY <1>1, <1>10
  <2>2. QED
    BY <2>1
<1> HIDE DEF answer
<1>12. ASSUME NEW i \in A
       PROVE  Len(a) + answer(i) \in B
  <2>1. PICK j : j = answer(i) /\ j \in 1..Len(n) /\ taken[j].id # NoId
    BY <1>3, <1>4, <1>10, <1>11
  <2>2. n[j].id # NoId /\ n[j].dir = "s2c"
    BY <1>1, <1>3, <1>4, <2>1, NormalizedIds
  <2>3. QED
    BY <1>9, <2>1, <2>2
<1>13. ASSUME NEW i \in A, NEW k \in A, Len(a) + answer(i) = Len(a) + answer(k)
       PROVE  i = k
  <2>1. answer(i) = answer(k)
    <3>1. answer(i) \in Nat /\ answer(k) \in Nat
      BY <1>3, <1>4, <1>11
    <3>2. QED
      BY <1>9, <1>13, <3>1
  <2>2. a[i].id = a[k].id /\ a[i].id # NoId /\ i \in DOMAIN a /\ k \in DOMAIN a
    BY <1>10, <1>11, <2>1
  <2>3. QED
    BY <1>2, <2>2 DEF Good, Distinct
<1> HIDE DEF A, B
<1>14. f \in Injection(A, B)
  BY <1>12, <1>13 DEF Injection, IsInjective
<1>15. IsFiniteSet(B)
  <2>1. IsFiniteSet(DOMAIN t) /\ B \subseteq DOMAIN t
    BY <1>9, FS_Interval DEF B
  <2>2. QED
    BY <2>1, FS_Subset
<1>16. Cardinality(A) <= Cardinality(B)
  BY <1>14, <1>15, FS_Injection
<1>17. QED
  BY <1>6, <1>8, <1>16 DEF WithId, A, B

LEMMA SentHas ==
  ASSUME NEW X, NEW msgs \in Seq(X), NEW i \in 1..Len(msgs), NEW e, e = msgs[i],
         NEW dir, e.dir = dir
  PROVE  \E k \in 1..Len(Sent(msgs, dir)) : Sent(msgs, dir)[k] = e
<1> DEFINE part(m) == IF m.dir = dir THEN <<m>> ELSE <<>>
           s == [j \in DOMAIN msgs |-> part(msgs[j])]
<1>1. Len(msgs) \in Nat /\ DOMAIN msgs = 1..Len(msgs) /\ \A j \in 1..Len(msgs) : msgs[j] \in X
  OBVIOUS
<1>2. \A j \in 1..Len(msgs) : part(msgs[j]) \in Seq(X)
  BY <1>1
<1>3. s \in Seq(Seq(X)) /\ Len(s) = Len(msgs)
  BY <1>1, <1>2
<1>4. s[i] = <<e>>
  BY <1>1
<1>5. Sent(msgs, dir) = FlattenSeq(s)
  BY DEF Sent
<1> HIDE DEF s
<1>6. i \in 1..Len(s)
  BY <1>3
<1>7. Len(<<e>>) = 1 /\ <<e>>[1] = e
  OBVIOUS
<1>8. 1 \in 1..1
  OBVIOUS
<1>9. 1 \in 1..Len(s[i]) /\ s[i][1] = e
  BY <1>4, <1>7, <1>8, Zenon
<1>10. \E k \in 1..Len(FlattenSeq(s)) : FlattenSeq(s)[k] = s[i][1]
  <2>1. PICK q : q = s
    OBVIOUS
  <2>2. q \in Seq(Seq(X)) /\ i \in 1..Len(q) /\ 1 \in 1..Len(q[i])
    BY <1>3, <1>6, <1>9, <2>1, Zenon
  <2>3. \E k \in 1..Len(FlattenSeq(q)) : FlattenSeq(q)[k] = q[i][1]
    BY <2>2, FlattenPart
  <2>4. QED
    BY <2>1, <2>3, Zenon
<1>11. QED
  BY <1>5, <1>9, <1>10, Zenon

LEMMA SentMember ==
  ASSUME NEW X, NEW msgs \in Seq(X), NEW i \in DOMAIN msgs
  PROVE  \E k \in DOMAIN Sent(msgs, msgs[i].dir) : Sent(msgs, msgs[i].dir)[k] = msgs[i]
<1>1. PICK dir : dir = msgs[i].dir
  OBVIOUS
<1>2. i \in 1..Len(msgs)
  OBVIOUS
<1>3. \E k \in 1..Len(Sent(msgs, dir)) : Sent(msgs, dir)[k] = msgs[i]
  BY <1>1, <1>2, SentHas
<1>4. Sent(msgs, dir) \in Seq(X)
  BY SentIs
<1>5. DOMAIN Sent(msgs, dir) = 1..Len(Sent(msgs, dir))
  BY <1>4
<1>6. QED
  BY <1>1, <1>3, <1>5, Zenon

LEMMA SessionAsks ==
  ASSUME FilesInv, SessionInv
  PROVE  \E i \in DOMAIN C2S(session) : C2S(session)[i].id # NoId
<1>1. PICK i \in DOMAIN session : session[i].dir = "c2s" /\ session[i].id # NoId
  BY DEF SessionInv
<1>2. PICK k \in DOMAIN Sent(session, session[i].dir) :
        Sent(session, session[i].dir)[k] = session[i]
  BY SentMember DEF FilesInv, Good
<1>3. QED
  BY <1>1, <1>2 DEF C2S

\* A golden file that says nothing matches no replay that says something.
LEMMA AnswersDiffer ==
  ASSUME Good(taken), \A i \in DOMAIN taken : taken[i].dir = "s2c",
         NEW j \in DOMAIN taken, taken[j].id # NoId
  PROVE  Changes(<<>>, Normalized(taken)) # {}
<1>1. PICK n : n = Normalized(taken)
  OBVIOUS
<1>2. Good(n) /\ j \in DOMAIN n /\ n[j].id # 0 /\ n[j].dir = "s2c"
  BY <1>1, NormalizedGood, NormalizedIs, NormalizedIds DEF Good, NoId
<1>3. DOMAIN n \subseteq Nat
  BY <1>2 DEF Good
<1>4. \A i \in Keyed(n) : n[i].id = n[j].id => i = j
  BY <1>2 DEF Keyed, Good, Distinct, NoId
<1>5. j \in LastKeyed(n)
  BY <1>2, <1>3, <1>4 DEF Keyed, LastKeyed
<1>6. n[j].id \in DOMAIN Responses(n)
  BY <1>5, ResponsesAre
<1>7. n[j].id \notin DOMAIN Responses(<<>>)
  <2>1. DOMAIN Responses(<<>>) = {<<>>[i].id : i \in LastKeyed(<<>>)}
    BY ResponsesAre
  <2>2. LastKeyed(<<>>) = {}
    BY EmptyGood DEF LastKeyed, Keyed
  <2>3. QED
    BY <2>1, <2>2
<1>8. QED
  BY <1>1, <1>6, <1>7 DEF Changes

LEMMA EmptySide == C2S(<<>>) = <<>>
<1>1. <<>> \in Seq(MessageType) /\ \A i \in 1..Len(<<>>) : FALSE
  OBVIOUS
<1>2. QED
  BY <1>1, SentNone DEF C2S

\* Where nothing is missing from a replay, and what that says of the files.
LEMMA CompleteReplay ==
  ASSUME KeepInv, ~Idle, todo = <<>>, wanted = NoId
  PROVE  /\ \A i \in DOMAIN C2S(source) : C2S(source)[i].id # NoId =>
              \E j \in DOMAIN taken : taken[j].id = C2S(source)[i].id
         /\ source = session => Changes(<<>>, Normalized(taken)) # {}
         /\ C2S(source) = <<>> => Merged = <<>>
<1>1. Pursued(source) /\ Good(taken) /\ \A i \in DOMAIN taken : taken[i].dir = "s2c"
  BY DEF KeepInv, SourceInv, RegressionInv, TakenInv
<1>2. DOMAIN todo = {}
  BY EmptyGood
<1>3. ASSUME NEW i \in DOMAIN C2S(source), C2S(source)[i].id # NoId
      PROVE  \E j \in DOMAIN taken : taken[j].id = C2S(source)[i].id
  BY <1>1, <1>2, <1>3 DEF Pursued
<1>4. ASSUME source = session
      PROVE  Changes(<<>>, Normalized(taken)) # {}
  <2>1. PICK i \in DOMAIN C2S(source) : C2S(source)[i].id # NoId
    BY <1>4, SessionAsks DEF KeepInv, RegressionInv
  <2>2. PICK j \in DOMAIN taken : taken[j].id # NoId
    BY <1>3, <2>1
  <2>3. QED
    BY <1>1, <2>2, AnswersDiffer
<1>5. ASSUME C2S(source) = <<>>
      PROVE  Merged = <<>>
  <2>1. taken = <<>>
    BY <1>1, <1>5 DEF Pursued
  <2>2. PICK n : n = Normalized(taken)
    OBVIOUS
  <2>3. n \in Seq(MessageType) /\ DOMAIN n = {}
    BY <1>1, <2>1, <2>2, EmptyGood, NormalizedIs DEF Good
  <2>4. \A i \in 1..Len(n) : FALSE
    BY <2>3
  <2>5. Sent(n, "s2c") = <<>>
    BY <2>3, <2>4, SentNone
  <2>6. Merged = <<>> \o <<>>
    BY <1>5, <2>2, <2>5 DEF Merged
  <2>7. QED
    BY <2>6
<1>6. QED
  BY <1>3, <1>4, <1>5

LEMMA LeftSides ==
  ASSUME RegressionInv, ReplaysInv
  PROVE  /\ \A i \in DOMAIN Left : C2S(Left[i]) = <<>>
         /\ \A i \in DOMAIN Spoiled : C2S(Spoiled[i]) = <<>>
<1>1. taken \in Seq(MessageType) /\ \A i \in 1..Len(taken) : taken[i].dir # "c2s"
  BY DEF RegressionInv, TakenInv, Good
<1>2. C2S(taken) = <<>>
  BY <1>1, SentNone DEF C2S
<1>3. PICK t : t = Append(replays, taken)
  OBVIOUS
<1>4. \A i \in DOMAIN t : (i \in DOMAIN replays /\ t[i] = replays[i]) \/ t[i] = taken
  BY <1>1, <1>3 DEF RegressionInv, FilesInv
<1>5. (Left = replays \/ Left = t) /\ (Spoiled = replays \/ Spoiled = t)
  BY <1>3 DEF Left, Spoiled
<1>6. QED
  BY <1>2, <1>4, <1>5 DEF ReplaysInv

LEMMA StartsPursued ==
  ASSUME NEW src, Good(src), ReplayStarts(src), source' = src
  PROVE  Pursued(source)'
<1>1. todo' = C2S(source') /\ wanted' = NoId /\ taken' = <<>>
  BY DEF ReplayStarts
<1>2. QED
  BY <1>1 DEF Pursued

(* ------------------- the steps, and what they keep --------------------- *)

\* Steps that leave the golden file and its origin alone.
LEMMA SameGolden ==
  ASSUME GoldenInv, SessionInv, UNCHANGED <<golden, settled, session>>
  PROVE  GoldenInv' /\ SessionInv'
BY DEF GoldenInv, SessionInv, Whole, Kinds, WithId

LEMMA RunPursued ==
  ASSUME KeepInv, RunStep \/ ServerStep
  PROVE  Pursued(source)'
<1>1. /\ source' = source /\ Pursued(source) /\ Good(todo) /\ Good(taken)
      /\ out \in Seq(NoiseLines \cup Answers)
  BY DEF RunStep, ServerStep, commandVars, KeepInv, SourceInv, RegressionInv, TodoInv, TakenInv,
     ServerInv
<1>2. CASE UNCHANGED <<todo, wanted, taken>>
  BY <1>1, <1>2 DEF Pursued
<1>3. ASSUME Sending \/ Reading
      PROVE  C2S(source) # <<>>
  BY <1>1, <1>3 DEF Pursued, Sending, Reading, Over
<1>4. CASE Send
  <2>1. todo # <<>> /\ wanted = NoId /\ C2S(source) # <<>>
    BY <1>3, <1>4 DEF Send, Sending, Over
  <2>2. wanted' = todo[1].id /\ todo' = Tail(todo) /\ taken' = taken
    BY <1>1, <1>4, <2>1, TailGood DEF Send
  <2>3. \A j \in DOMAIN todo : j = 1 \/ \E k \in DOMAIN Tail(todo) : Tail(todo)[k] = todo[j]
    <3>1. todo \in Seq(MessageType)
      BY <1>1 DEF Good
    <3>2. ASSUME NEW j \in DOMAIN todo, j # 1
          PROVE  j - 1 \in DOMAIN Tail(todo) /\ Tail(todo)[j - 1] = todo[j]
      BY <2>1, <3>1, <3>2
    <3>3. QED
      BY <3>2
  <2>4. QED
    BY <1>1, <2>1, <2>2, <2>3 DEF Pursued
<1>5. CASE ReadOn \/ Match
  <2>1. PICK line : line = Head(out)
    OBVIOUS
  <2>2. /\ C2S(source) # <<>> /\ todo' = todo
        /\ \/ wanted' = wanted /\ taken' = taken
           \/ wanted' = wanted /\ taken' = Append(taken, Message(line))
           \/ wanted' = NoId /\ line.id = wanted /\ taken' = Append(taken, Message(line))
    BY <1>3, <1>5, <2>1 DEF ReadOn, Match
  <2>3. Message(line).id = line.id
    BY DEF Message
  <2>4. /\ \A j \in DOMAIN taken : \E k \in DOMAIN Append(taken, Message(line)) :
             Append(taken, Message(line))[k] = taken[j]
        /\ \E k \in DOMAIN Append(taken, Message(line)) :
             Append(taken, Message(line))[k] = Message(line)
    <3>1. PICK m : m = Message(line)
      OBVIOUS
    <3>2. taken \in Seq(MessageType)
      BY <1>1 DEF Good
    <3>3. /\ DOMAIN Append(taken, m) = 1..(Len(taken) + 1) /\ DOMAIN taken = 1..Len(taken)
          /\ Len(taken) \in Nat /\ Append(taken, m)[Len(taken) + 1] = m
          /\ \A k \in 1..Len(taken) : Append(taken, m)[k] = taken[k]
      BY <3>2
    <3>4. 1..Len(taken) \subseteq 1..(Len(taken) + 1) /\ Len(taken) + 1 \in 1..(Len(taken) + 1)
      BY <3>3
    <3>5. QED
      BY <3>1, <3>3, <3>4
  <2>5. QED
    BY <1>1, <2>2, <2>3, <2>4 DEF Pursued
<1>6. QED
  BY <1>2, <1>4, <1>5 DEF RunStep, ReplaySteps, SendFails, ReadFails, StartRaises, EndRaises,
     ServerStep, replayVars

LEMMA KeepRun ==
  ASSUME KeepInv, RunStep \/ ServerStep
  PROVE  GoldenInv' /\ SessionInv' /\ ReplaysInv' /\ SourceInv'
<1>1. ~Idle /\ UNCHANGED <<worldVars, filesVars, commandVars>>
  BY DEF RunStep, ServerStep
<1>2. UNCHANGED <<golden, settled, session, replays, source, cmd>>
  BY <1>1 DEF worldVars, filesVars, commandVars
<1>3. GoldenInv' /\ SessionInv'
  BY <1>2, SameGolden DEF KeepInv
<1>4. ReplaysInv'
  BY <1>2 DEF KeepInv, ReplaysInv
<1>5. SourceInv'
  BY <1>1, <1>2, RunPursued DEF KeepInv, SourceInv, Idle
<1>6. QED
  BY <1>3, <1>4, <1>5

LEMMA KeepIdle ==
  ASSUME KeepInv, Snapshot \/ ServerChanges \/ SessionsRemoved
  PROVE  GoldenInv' /\ SessionInv' /\ ReplaysInv' /\ SourceInv'
<1>1. Idle' /\ session' = session
  BY DEF Snapshot, ServerChanges, SessionsRemoved, commandVars, worldVars, Idle
<1>2. SourceInv'
  BY <1>1 DEF SourceInv
<1>3. ReplaysInv'
  <2>1. replays' = replays \/ replays' = <<>>
    BY DEF Snapshot, ServerChanges, SessionsRemoved, filesVars
  <2>2. QED
    BY <2>1, EmptyGood DEF KeepInv, ReplaysInv
<1>4. CASE Snapshot
  <2>1. golden' = Normalized(session) /\ session' = session
    BY <1>1, <1>4 DEF Snapshot
  <2>2. Kinds(golden') = Kinds(session)
    BY <2>1, KindsNormalized DEF KeepInv, RegressionInv, FilesInv
  <2>3. GoldenInv'
    BY <2>1, <2>2 DEF GoldenInv, Whole, Kinds
  <2>4. SessionInv'
    BY <2>1 DEF KeepInv, SessionInv
  <2>5. QED
    BY <1>2, <1>3, <2>3, <2>4
<1>5. CASE ServerChanges \/ SessionsRemoved
  <2>1. golden' = golden /\ settled' = settled
    BY <1>5 DEF ServerChanges, SessionsRemoved, filesVars, commandVars
  <2>2. QED
    BY <1>1, <1>2, <1>3, <2>1, SameGolden DEF KeepInv
<1>6. QED
  BY <1>4, <1>5

LEMMA KeepStart ==
  ASSUME KeepInv, Verify \/ Update \/ Check \/ ReplayStrict
  PROVE  GoldenInv' /\ SessionInv' /\ ReplaysInv' /\ SourceInv'
<1>1. PICK name, files :
        /\ Starts(name, files)
        /\ \/ /\ name \in {"verify", "update"} /\ golden # Absent
              /\ \E src \in Sources : files = <<src>>
           \/ name = "check" /\ files = Append(replays, session)
           \/ name = "replay" /\ files = <<session>>
  BY DEF Verify, Update, Check, ReplayStrict
<1>2. /\ UNCHANGED <<session, golden, settled, replays>> /\ cmd' = name
      /\ source' = Head(files) /\ ReplayStarts(Head(files))
  BY <1>1 DEF Starts, worldVars, filesVars
<1>3. GoldenInv' /\ SessionInv' /\ ReplaysInv'
  BY <1>2, SameGolden DEF KeepInv, ReplaysInv
<1>4. Good(Head(files))
  <2>1. CASE \E src \in Sources : files = <<src>> /\ golden # Absent
    BY <2>1, SourcesGood DEF KeepInv, RegressionInv
  <2>2. CASE files = Append(replays, session)
    <3>1. session \in Seq(MessageType) /\ replays \in Seq(Seq(MessageType))
      BY DEF KeepInv, RegressionInv, FilesInv, Good
    <3>2. Head(files) = session \/ (1 \in DOMAIN replays /\ Head(files) = replays[1])
      BY <2>2, <3>1
    <3>3. QED
      BY <3>2 DEF KeepInv, RegressionInv, FilesInv
  <2>3. CASE files = <<session>>
    BY <2>3 DEF KeepInv, RegressionInv, FilesInv
  <2>4. QED
    BY <1>1, <2>1, <2>2, <2>3
<1>5. Pursued(source)'
  BY <1>2, <1>4, StartsPursued
<1>6. ASSUME name \in {"verify", "update"}
      PROVE  golden # Absent
             /\ (Head(files) = session \/ Head(files) = golden \/ C2S(Head(files)) = <<>>)
  <2>1. PICK src \in Sources : files = <<src>> /\ golden # Absent
    BY <1>1, <1>6
  <2>2. src = session \/ src = golden \/ \E i \in DOMAIN replays : src = replays[i]
    BY DEF Sources, ToSet
  <2>3. QED
    BY <2>1, <2>2 DEF KeepInv, ReplaysInv
<1>7. SourceInv'
  BY <1>2, <1>5, <1>6 DEF SourceInv
<1>8. QED
  BY <1>3, <1>7

LEMMA KeepVerify ==
  ASSUME KeepInv, VerifyJudged
  PROVE  GoldenInv' /\ SessionInv' /\ ReplaysInv' /\ SourceInv'
<1>1. /\ ~Idle /\ cmd = "verify" /\ Idle' /\ replays' = Spoiled /\ UNCHANGED <<session, golden>>
  BY DEF VerifyJudged, Ready, Ended, Idle, worldVars
<1>2. SessionInv' /\ ReplaysInv' /\ SourceInv'
  BY <1>1, LeftSides DEF KeepInv, SessionInv, ReplaysInv, SourceInv
<1>3. CASE settled' = settled
  BY <1>1, <1>2, <1>3, SameGolden DEF KeepInv
<1>4. CASE settled' # settled
  <2>1. /\ reason = "none" /\ Changes(golden, Normalized(taken)) = {} /\ todo = <<>> /\ wanted = NoId
        /\ settled'.src = IF source = golden THEN golden ELSE source
    BY <1>4 DEF VerifyJudged, Ready, Over, Matches, Settled
  <2>2. CASE golden = <<>>
    <3>1. source # session
      BY <1>1, <2>1, <2>2, CompleteReplay
    <3>2. source = golden \/ C2S(source) = <<>>
      BY <1>1, <3>1 DEF KeepInv, SourceInv
    <3>3. C2S(settled'.src) = <<>>
      BY <2>1, <2>2, <3>2, EmptySide
    <3>4. GoldenInv'
      BY <1>1, <2>2, <3>3 DEF GoldenInv
    <3>5. QED
      BY <1>2, <3>4
  <2>3. CASE golden # <<>>
    <3>1. GoldenInv'
      BY <1>1, <2>3 DEF KeepInv, GoldenInv, Whole, Kinds, WithId
    <3>2. QED
      BY <1>2, <3>1
  <2>4. QED
    BY <2>2, <2>3
<1>5. QED
  BY <1>3, <1>4

LEMMA KeepUpdate ==
  ASSUME KeepInv, UpdateJudged
  PROVE  GoldenInv' /\ SessionInv' /\ ReplaysInv' /\ SourceInv'
<1>1. /\ ~Idle /\ cmd = "update" /\ Idle' /\ replays' = Spoiled /\ session' = session /\ Over
  BY DEF UpdateJudged, Ready, Ended, Idle, worldVars
<1>2. SessionInv' /\ ReplaysInv' /\ SourceInv'
  BY <1>1, LeftSides DEF KeepInv, SessionInv, ReplaysInv, SourceInv
<1>3. golden # Absent /\ (source = session \/ source = golden \/ C2S(source) = <<>>) /\ Good(source)
      /\ Good(taken) /\ \A i \in DOMAIN taken : taken[i].dir = "s2c"
  BY <1>1 DEF KeepInv, SourceInv, RegressionInv, CommandInv, TakenInv
<1>4. CASE UNCHANGED <<golden, settled>>
  BY <1>1, <1>2, <1>4, SameGolden DEF KeepInv
<1>5. CASE ~UNCHANGED <<golden, settled>>
  <2>1. /\ reason = "none" /\ todo = <<>> /\ wanted = NoId
        /\ golden' = IF Changes(golden, Normalized(taken)) = {} THEN golden ELSE Merged
        /\ settled'.src = IF source = golden THEN golden' ELSE source
    BY <1>1, <1>5 DEF UpdateJudged, Over, Matches, Settled
  <2>2. CASE golden = <<>> /\ golden' = golden
    <3>1. source # session
      <4>1. ASSUME source = session
            PROVE  FALSE
        <5>1. Changes(golden, Normalized(taken)) # {}
          BY <1>1, <2>1, <2>2, <4>1, CompleteReplay
        <5>2. Merged = golden
          BY <2>1, <2>2, <5>1
        <5>3. Kinds(Merged) = Kinds(source)
          BY <1>1, <1>3, <2>1, CompleteReplay, MergedKeeps
        <5>4. DOMAIN C2S(<<>>) = DOMAIN C2S(session)
          BY <2>2, <4>1, <5>2, <5>3 DEF Kinds
        <5>5. QED
          BY <5>4, SessionAsks, EmptySide, EmptyGood DEF KeepInv, RegressionInv
      <4>2. QED
        BY <4>1
    <3>2. source = golden \/ C2S(source) = <<>>
      BY <1>3, <3>1
    <3>3. C2S(settled'.src) = <<>>
      BY <2>1, <2>2, <3>2, EmptySide
    <3>4. GoldenInv'
      BY <2>2, <3>3 DEF GoldenInv
    <3>5. QED
      BY <1>2, <3>4
  <2>3. CASE golden # <<>> /\ golden' = golden
    <3>1. GoldenInv'
      BY <1>1, <2>3 DEF KeepInv, GoldenInv, Whole, Kinds, WithId
    <3>2. QED
      BY <1>2, <3>1
  <2>4. CASE golden' = Merged /\ C2S(source) = <<>>
    <3>1. golden' = <<>>
      BY <1>1, <2>1, <2>4, CompleteReplay
    <3>2. C2S(settled'.src) = <<>>
      BY <2>1, <2>4, <3>1, EmptySide
    <3>3. GoldenInv'
      BY <3>1, <3>2 DEF GoldenInv
    <3>4. QED
      BY <1>2, <3>3
  <2>5. CASE golden' = Merged /\ C2S(source) # <<>>
    <3>1. Kinds(source) = Kinds(session)
      <4>1. CASE source = session
        BY <4>1
      <4>2. CASE source = golden
        <5>1. golden # <<>>
          BY <2>5, <4>2, EmptySide
        <5>2. QED
          BY <1>3, <4>2, <5>1 DEF KeepInv, GoldenInv, Whole
      <4>3. QED
        BY <1>3, <2>5, <4>1, <4>2
    <3>2. Kinds(Merged) = Kinds(source) /\ WithId(Merged, "c2s") <= WithId(Merged, "s2c")
      BY <1>1, <1>3, <2>1, CompleteReplay, MergedKeeps
    <3>3. Whole(Merged)
      BY <3>1, <3>2 DEF Whole
    <3>4. GoldenInv'
      BY <1>1, <2>5, <3>3 DEF GoldenInv, Whole, Kinds, WithId, Merged
    <3>5. QED
      BY <1>2, <3>4
  <2>6. QED
    BY <2>1, <2>2, <2>3, <2>4, <2>5
<1>6. QED
  BY <1>4, <1>5

LEMMA KeepCheck ==
  ASSUME KeepInv, CheckJudged \/ ReplayJudged
  PROVE  GoldenInv' /\ SessionInv' /\ ReplaysInv' /\ SourceInv'
<1>1. ~Idle /\ UNCHANGED <<session, golden, settled>> /\ replays' = Left
  BY DEF CheckJudged, ReplayJudged, Ready, worldVars
<1>2. GoldenInv' /\ SessionInv'
  BY <1>1, SameGolden DEF KeepInv
<1>3. ReplaysInv'
  BY <1>1, LeftSides DEF KeepInv, ReplaysInv
<1>4. SourceInv'
  <2>1. CASE cmd' = "idle"
    BY <2>1 DEF SourceInv, Idle
  <2>2. CASE cmd' # "idle"
    <3>1. /\ cmd = "check" /\ cmd' = "check" /\ queue' = Tail(queue) /\ queue' # <<>>
          /\ source' = Head(queue') /\ ReplayStarts(source')
      BY <2>2 DEF CheckJudged, ReplayJudged, Ended
    <3>2. queue \in Seq(Seq(MessageType)) /\ \A i \in DOMAIN queue : Good(queue[i])
      BY <3>1 DEF KeepInv, RegressionInv, CommandInv
    <3>3. 2 \in DOMAIN queue /\ source' = queue[2]
      BY <3>1, <3>2
    <3>4. Pursued(source)'
      BY <3>1, <3>2, <3>3, StartsPursued
    <3>5. QED
      BY <3>1, <3>4 DEF SourceInv
  <2>3. QED
    BY <2>1, <2>2
<1>5. QED
  BY <1>2, <1>3, <1>4

LEMMA KeepStarts == RegressionInit => KeepInv
<1>1. SUFFICES ASSUME RegressionInit PROVE KeepInv
  OBVIOUS
<1>2. RegressionInv
  BY <1>1, RegressionStarts
<1>3. GoldenInv /\ SourceInv
  BY <1>1 DEF RegressionInit, GoldenInv, SourceInv, Idle
<1>4. ReplaysInv
  BY <1>1, EmptyGood DEF RegressionInit, ReplaysInv
<1>5. SessionInv
  <2>1. PICK leaves : session \in Recordings(leaves)
    BY <1>1 DEF RegressionInit
  <2>2. PICK q : q = Request(1, leaves)
    OBVIOUS
  <2>3. session # <<>> /\ 1 \in DOMAIN session /\ session[1] = q
    BY <2>1, <2>2 DEF Recordings
  <2>4. q.dir = "c2s" /\ q.id # NoId
    BY <2>2 DEF Request, NoId
  <2>5. QED
    BY <2>3, <2>4 DEF SessionInv
<1>6. QED
  BY <1>2, <1>3, <1>4, <1>5 DEF KeepInv

LEMMA KeepStep == KeepInv /\ [RegressionNext]_regressionVars => KeepInv'
<1>1. SUFFICES ASSUME KeepInv, [RegressionNext]_regressionVars PROVE KeepInv'
  OBVIOUS
<1>2. RegressionInv'
  BY <1>1, RegressionStep DEF KeepInv
<1>3. CASE Snapshot \/ ServerChanges \/ SessionsRemoved
  BY <1>1, <1>2, <1>3, KeepIdle DEF KeepInv
<1>4. CASE Verify \/ Update \/ Check \/ ReplayStrict
  BY <1>1, <1>2, <1>4, KeepStart DEF KeepInv
<1>5. CASE RunStep \/ ServerStep
  BY <1>1, <1>2, <1>5, KeepRun DEF KeepInv
<1>6. CASE Judged
  BY <1>1, <1>2, <1>6, KeepVerify, KeepUpdate, KeepCheck DEF Judged, KeepInv
<1>7. CASE UNCHANGED regressionVars
  <2>1. UNCHANGED <<session, golden, replays, settled, source, cmd, todo, wanted, taken>>
    BY <1>7 DEF regressionVars, worldVars, filesVars, commandVars, replayVars
  <2>2. GoldenInv' /\ SessionInv'
    BY <1>1, <2>1, SameGolden DEF KeepInv
  <2>3. ReplaysInv' /\ SourceInv'
    BY <1>1, <2>1 DEF KeepInv, ReplaysInv, SourceInv, Pursued, Idle
  <2>4. QED
    BY <1>2, <2>2, <2>3 DEF KeepInv
<1>8. QED
  BY <1>1, <1>3, <1>4, <1>5, <1>6, <1>7 DEF RegressionNext

\* A golden file keeps the requests of its session through every update
\* (snapshot.py, _run_verify_impl), and never holds a request without an answer
\* that a replay cut short would have left; unless an update took a replay of
\* another command for the session.
THEOREM GoldenCorrect == RegressionSpec => []UpdateKeepsGolden
<1>1. KeepInv => UpdateKeepsGolden
  BY DEF KeepInv, GoldenInv, Whole, Kinds, UpdateKeepsGolden
<1>2. QED
  BY KeepStarts, KeepStep, <1>1, PTL DEF RegressionSpec

(* --------------- transcripts that differ in their run ------------------ *)

\* The values of one sequence are those of another one, moved.
Level(x, a, y, b) == x + a = y + b
Shifted(s, t, a, b) == Len(s) = Len(t) /\ \A k \in 1..Len(s) : Level(s[k], a, t[k], b)

LEMMA LevelIs ==
  ASSUME NEW a \in Nat, NEW b \in Nat, NEW v \in Nat, NEW w \in Nat, Level(v, a, w, b),
         NEW x \in Nat, NEW y \in Nat, Level(x, a, y, b)
  PROVE  (x = v <=> y = w) /\ (x + a) - b = y
BY DEF Level

LEMMA ConcatShifted ==
  ASSUME NEW s \in Seq(Nat), NEW t \in Seq(Nat), NEW x \in Seq(Nat), NEW y \in Seq(Nat),
         NEW a \in Nat, NEW b \in Nat, Shifted(s, t, a, b), Shifted(x, y, a, b)
  PROVE  Shifted(s \o x, t \o y, a, b)
<1>1. PICK u, v : u = s \o x /\ v = t \o y
  OBVIOUS
<1>2. /\ Len(s) \in Nat /\ Len(x) \in Nat /\ Len(u) = Len(s) + Len(x)
      /\ \A n \in 1..Len(s) : u[n] = s[n]
      /\ \A k \in 1..Len(x) : u[Len(s) + k] = x[k]
  BY <1>1, ConcatIs
<1>3. /\ Len(v) = Len(t) + Len(y)
      /\ \A n \in 1..Len(t) : v[n] = t[n]
      /\ \A k \in 1..Len(y) : v[Len(t) + k] = y[k]
  BY <1>1, ConcatIs
<1>4. Len(s) = Len(t) /\ Len(x) = Len(y)
  BY DEF Shifted
<1>5. ASSUME NEW k \in 1..Len(u)
      PROVE  Level(u[k], a, v[k], b)
  <2>1. CASE k \in 1..Len(s)
    BY <1>2, <1>3, <1>4, <2>1 DEF Shifted
  <2>2. CASE k \notin 1..Len(s)
    <3>1. PICK j \in 1..Len(x) : k = Len(s) + j
      <4>1. k - Len(s) \in 1..Len(x) /\ k = Len(s) + (k - Len(s))
        BY <1>2, <2>2
      <4>2. QED
        BY <4>1
    <3>2. u[k] = x[j] /\ v[k] = y[j]
      BY <1>2, <1>3, <1>4, <3>1
    <3>3. QED
      BY <3>2 DEF Shifted
  <2>3. QED
    BY <2>1, <2>2
<1>6. QED
  BY <1>1, <1>2, <1>3, <1>4, <1>5 DEF Shifted

LEMMA FlattenShifted ==
  ASSUME NEW s \in Seq(Seq(Nat)), NEW t \in Seq(Seq(Nat)), NEW a \in Nat, NEW b \in Nat,
         Len(s) = Len(t), \A i \in 1..Len(s) : Shifted(s[i], t[i], a, b)
  PROVE  Shifted(FlattenSeq(s), FlattenSeq(t), a, b)
<1>1. Len(s) \in Nat /\ \A i \in 1..Len(s) : s[i] \in Seq(Nat) /\ t[i] \in Seq(Nat)
  OBVIOUS
<1>2. CASE s = <<>>
  <2>1. t = <<>>
    BY <1>2
  <2>2. FlattenSeq(s) = <<>> /\ FlattenSeq(t) = <<>>
    BY <1>2, <2>1 DEF FlattenSeq
  <2>3. QED
    BY <2>2 DEF Shifted
<1>3. CASE s # <<>>
  <2>1. t # <<>> /\ Len(s) >= 1
    BY <1>3
  <2>2. PICK f : /\ Flattens(f, s) /\ FlattenSeq(s) = f[Len(s)]
                 /\ \A m \in 1..Len(s) : f[m] \in Seq(Nat)
    BY <1>3, FlattenIs
  <2>3. PICK g : /\ Flattens(g, t) /\ FlattenSeq(t) = g[Len(t)]
                 /\ \A m \in 1..Len(t) : g[m] \in Seq(Nat)
    BY <2>1, FlattenIs
  <2>4. \A m \in 1..Len(s) : /\ f[m] = IF m = 1 THEN s[m] ELSE f[m - 1] \o s[m]
                             /\ g[m] = IF m = 1 THEN t[m] ELSE g[m - 1] \o t[m]
    BY <2>2, <2>3 DEF Flattens
  <2> DEFINE S == {m \in Nat : m # 0 => Shifted(f[m], g[m], a, b)}
  <2>5. 0 \in S
    OBVIOUS
  <2>6. ASSUME NEW m \in Nat, m + 1 <= Len(s), m \in S
        PROVE  m + 1 \in S
    <3>1. m + 1 \in 1..Len(s) /\ (m + 1) - 1 = m
      BY <1>1, <2>6
    <3>2. CASE m = 0
      <4>1. f[1] = s[1] /\ g[1] = t[1]
        BY <2>4, <3>1, <3>2
      <4>2. QED
        BY <3>1, <3>2, <4>1
    <3>3. CASE m # 0
      <4>1. m \in 1..Len(s) /\ m + 1 # 1
        BY <2>6, <3>1, <3>3
      <4>2. PICK p \in Seq(Nat), q \in Seq(Nat), x \in Seq(Nat), y \in Seq(Nat) :
              p = f[m] /\ q = g[m] /\ x = s[m + 1] /\ y = t[m + 1]
        BY <1>1, <2>2, <2>3, <3>1, <4>1
      <4>3. f[m + 1] = p \o x /\ g[m + 1] = q \o y
        BY <2>4, <3>1, <4>1, <4>2
      <4>4. Shifted(p, q, a, b) /\ Shifted(x, y, a, b)
        BY <2>6, <3>1, <3>3, <4>2
      <4>5. Shifted(p \o x, q \o y, a, b)
        BY <4>4, ConcatShifted
      <4>6. Shifted(f[m + 1], g[m + 1], a, b)
        BY <4>3, <4>5, Zenon
      <4>7. m + 1 \in Nat
        OBVIOUS
      <4>8. QED
        BY <4>6, <4>7
    <3>4. QED
      BY <3>2, <3>3
  <2>7. \A m \in 0..Len(s) : m \in S
    <3> HIDE DEF S
    <3>1. QED
      BY <1>1, <2>5, <2>6, InductionTo
  <2>8. Len(s) \in 0..Len(s) /\ Len(s) # 0
    BY <1>1, <2>1
  <2>9. QED
    BY <2>2, <2>3, <2>7, <2>8
<1>4. QED
  BY <1>2, <1>3

\* A number says at which place among the different values one was first met.
LEMMA NumberShifted ==
  ASSUME NEW s \in Seq(Nat), NEW t \in Seq(Nat), NEW a \in Nat, NEW b \in Nat, Shifted(s, t, a, b),
         NEW v \in Nat, v \in Elems(s), NEW w \in Nat, Level(v, a, w, b)
  PROVE  Number(s, v) = Number(t, w)
<1>1. /\ Len(s) \in Nat /\ Len(t) = Len(s)
      /\ \A k \in 1..Len(s) : s[k] \in Nat /\ t[k] \in Nat /\ Level(s[k], a, t[k], b)
  BY DEF Shifted
<1>2. ASSUME NEW k \in 1..Len(s)
      PROVE  (s[k] = v <=> t[k] = w) /\ (s[k] + a) - b = t[k]
  <2>1. s[k] \in Nat /\ t[k] \in Nat /\ Level(s[k], a, t[k], b)
    BY <1>1
  <2>2. \A x, y \in Nat : Level(x, a, y, b) => (x = v <=> y = w) /\ (x + a) - b = y
    BY LevelIs
  <2>3. QED
    BY <2>1, <2>2
<1>3. w \in Elems(t)
  BY <1>1, <1>2 DEF Elems
<1>4. PICK m, n : m = FirstAt(s, v) /\ n = FirstAt(t, w)
  OBVIOUS
<1>5. /\ m \in 1..Len(s) /\ s[m] = v /\ \A j \in 1..(m - 1) : s[j] # v
      /\ n \in 1..Len(s) /\ t[n] = w /\ \A j \in 1..(n - 1) : t[j] # w
  BY <1>1, <1>3, <1>4, FirstIs
<1>6. m = n
  <2>1. m < n => m \in 1..(n - 1)
    BY <1>1, <1>5
  <2>2. n < m => n \in 1..(m - 1)
    BY <1>1, <1>5
  <2>3. ~(m < n) /\ ~(n < m)
    BY <1>2, <1>5, <2>1, <2>2
  <2>4. QED
    BY <1>1, <1>5, <2>3
<1>7. PICK A, B : A = UpToFirst(s, v) /\ B = UpToFirst(t, w)
  OBVIOUS
<1>8. A = {s[i] : i \in 1..m} /\ B = {t[i] : i \in 1..m}
  BY <1>4, <1>6, <1>7 DEF UpToFirst
<1>9. \A i \in 1..m : i \in 1..Len(s)
  BY <1>1, <1>5
<1> DEFINE f == [x \in A |-> (x + a) - b]
<1>10. ASSUME NEW i \in 1..m
       PROVE  s[i] \in A /\ t[i] \in B /\ f[s[i]] = t[i]
  BY <1>2, <1>8, <1>9
<1>11. (\A x \in A : f[x] \in B) /\ (\A y \in B : \E x \in A : f[x] = y)
  <2>1. PICK g : g = f
    OBVIOUS
  <2> HIDE DEF f
  <2>2. \A i \in 1..m : s[i] \in A /\ t[i] \in B /\ g[s[i]] = t[i]
    BY <1>10, <2>1
  <2>3. \A x \in A : \E i \in 1..m : x = s[i]
    BY <1>8
  <2>4. \A y \in B : \E i \in 1..m : y = t[i]
    BY <1>8
  <2>5. ASSUME NEW x \in A
        PROVE  g[x] \in B
    <3>1. PICK i \in 1..m : x = s[i]
      BY <2>3
    <3>2. QED
      BY <2>2, <3>1
  <2>6. ASSUME NEW y \in B
        PROVE  \E x \in A : g[x] = y
    <3>1. PICK i \in 1..m : y = t[i]
      BY <2>4
    <3>2. QED
      BY <2>2, <3>1
  <2>7. QED
    BY <2>1, <2>5, <2>6
<1>12. DOMAIN f = A
  OBVIOUS
<1>13. f \in [A -> B]
  BY <1>11
<1>14. ASSUME NEW x \in A, NEW y \in A, f[x] = f[y]
       PROVE  x = y
  <2>1. PICK i \in 1..m, j \in 1..m : x = s[i] /\ y = s[j]
    BY <1>8
  <2>2. t[i] = t[j]
    <3> HIDE DEF f
    <3>1. QED
      BY <1>10, <1>14, <2>1
  <2>3. /\ s[i] \in Nat /\ s[j] \in Nat /\ t[i] \in Nat
        /\ Level(s[i], a, t[i], b) /\ Level(s[j], a, t[i], b)
    BY <1>1, <1>9, <2>2
  <2>4. \A p, q, z \in Nat : Level(p, a, z, b) /\ Level(q, a, z, b) => p = q
    BY LevelIs
  <2>5. QED
    BY <2>1, <2>3, <2>4
<1> HIDE DEF f
<1>15. f \in Bijection(A, B)
  <2>1. f \in Injection(A, B)
    BY <1>12, <1>13, <1>14 DEF Injection, IsInjective
  <2>2. f \in Surjection(A, B)
    BY <1>11, <1>12, <1>13 DEF Surjection
  <2>3. QED
    BY <2>1, <2>2 DEF Bijection
<1>16. IsFiniteSet(A)
  BY <1>7, NumberIs
<1>17. Cardinality(A) = Cardinality(B)
  BY <1>15, <1>16, FS_Bijection DEF ExistsBijection
<1>18. QED
  BY <1>3, <1>7, <1>17, NumberIs

\* Two transcripts that say the same, but for the UUIDs and the instants.
LeafTwins(x, y, a, b) ==
  /\ x.kind = y.kind
  /\ x.kind \in {"text", "id"} => x.v = y.v
  /\ x.kind = "uuid" => Level(x.v, a, y.v, b)
MessageTwins(m, n, a, b) ==
  /\ m.dir = n.dir /\ m.kind = n.kind /\ m.id = n.id
  /\ DOMAIN m.leaves = DOMAIN n.leaves
  /\ \A j \in DOMAIN m.leaves : LeafTwins(m.leaves[j], n.leaves[j], a, b)
Twins(s, t, a, b) ==
  Len(s) = Len(t) /\ \A i \in 1..Len(s) : MessageTwins(s[i], t[i], a, b)

\* What one normalizer sees of them.
Moved(kind, a, b, c, d) == (kind = "id" /\ c = 0 /\ d = 0) \/ (kind = "uuid" /\ c = a /\ d = b)

Parts(p, m, kind) ==
  /\ p \in Seq(Seq(Nat)) /\ FlattenSeq(p) \in Seq(Nat) /\ DOMAIN m.leaves = 1..Len(p)
  /\ \A j \in 1..Len(p) : p[j] = IF m.leaves[j].kind = kind THEN <<m.leaves[j].v>> ELSE <<>>
  /\ Values(m, kind) = (IF kind = "id" /\ m.id # 0 THEN <<m.id>> ELSE <<>>) \o FlattenSeq(p)
LEMMA PartIs ==
  ASSUME NEW m \in MessageType, NEW kind
  PROVE  \E p : Parts(p, m, kind)
<1> DEFINE part(x) == IF x.kind = kind THEN <<x.v>> ELSE <<>>
           s == [i \in DOMAIN m.leaves |-> part(m.leaves[i])]
<1>1. m.leaves \in Seq(LeafType)
  BY DEF MessageType
<1>2. \A x \in LeafType : part(x) \in Seq(Nat)
  BY DEF LeafType
<1>3. /\ s \in Seq(Seq(Nat)) /\ DOMAIN m.leaves = 1..Len(s)
      /\ \A i \in 1..Len(s) : s[i] = part(m.leaves[i])
  <2>1. DOMAIN m.leaves = 1..Len(m.leaves) /\ \A i \in 1..Len(m.leaves) : m.leaves[i] \in LeafType
    BY <1>1
  <2>2. \A i \in 1..Len(m.leaves) : part(m.leaves[i]) \in Seq(Nat)
    BY <1>2, <2>1
  <2>3. Len(m.leaves) \in Nat
    BY <1>1
  <2> HIDE DEF part
  <2>4. QED
    BY <2>1, <2>2, <2>3
<1>4. Values(m, kind) = (IF kind = "id" /\ m.id # 0 THEN <<m.id>> ELSE <<>>) \o FlattenSeq(s)
  BY DEF Values
<1>5. FlattenSeq(s) \in Seq(Nat)
  <2>1. <<>> \in Seq(Nat)
    OBVIOUS
  <2> HIDE DEF s
  <2>2. QED
    BY <1>3, <2>1, FlattenAppend
<1>6. \A i \in 1..Len(s) : s[i] = IF m.leaves[i].kind = kind THEN <<m.leaves[i].v>> ELSE <<>>
  BY <1>3
<1> HIDE DEF s
<1>7. Parts(s, m, kind)
  BY <1>3, <1>4, <1>5, <1>6 DEF Parts
<1>8. QED
  BY <1>7

LEMMA SameShifted == ASSUME NEW s \in Seq(Nat), NEW a PROVE Shifted(s, s, a, a)
BY DEF Shifted, Level

LEMMA ValuesTwins ==
  ASSUME NEW m \in MessageType, NEW n \in MessageType, NEW a \in Nat, NEW b \in Nat,
         MessageTwins(m, n, a, b), NEW kind, NEW c \in Nat, NEW d \in Nat, Moved(kind, a, b, c, d)
  PROVE  Shifted(Values(m, kind), Values(n, kind), c, d)
<1>6a. PICK p, q : Parts(p, m, kind) /\ Parts(q, n, kind)
  BY PartIs
<1>1. /\ p \in Seq(Seq(Nat)) /\ FlattenSeq(p) \in Seq(Nat) /\ DOMAIN m.leaves = 1..Len(p)
      /\ \A j \in 1..Len(p) : p[j] = IF m.leaves[j].kind = kind THEN <<m.leaves[j].v>> ELSE <<>>
      /\ Values(m, kind) = (IF kind = "id" /\ m.id # 0 THEN <<m.id>> ELSE <<>>) \o FlattenSeq(p)
  BY <1>6a DEF Parts
<1>2. /\ q \in Seq(Seq(Nat)) /\ FlattenSeq(q) \in Seq(Nat) /\ DOMAIN n.leaves = 1..Len(q)
      /\ \A j \in 1..Len(q) : q[j] = IF n.leaves[j].kind = kind THEN <<n.leaves[j].v>> ELSE <<>>
      /\ Values(n, kind) = (IF kind = "id" /\ n.id # 0 THEN <<n.id>> ELSE <<>>) \o FlattenSeq(q)
  BY <1>6a DEF Parts
<1>3. 1..Len(p) = 1..Len(q) /\ Len(p) \in Nat /\ Len(q) \in Nat
  <2>1. DOMAIN m.leaves = DOMAIN n.leaves
    BY DEF MessageTwins
  <2>2. Len(p) \in Nat /\ Len(q) \in Nat
    BY <1>1, <1>2
  <2>3. QED
    BY <1>1, <1>2, <2>1, <2>2, Zenon
<1>4. Len(p) = Len(q)
  BY <1>3
<1>5. ASSUME NEW j \in 1..Len(p)
      PROVE  Shifted(p[j], q[j], c, d)
  <2>1. PICK x, y : x = m.leaves[j] /\ y = n.leaves[j]
    OBVIOUS
  <2>2. LeafTwins(x, y, a, b)
    BY <1>1, <2>1 DEF MessageTwins
  <2>3. /\ p[j] = IF x.kind = kind THEN <<x.v>> ELSE <<>>
        /\ q[j] = IF y.kind = kind THEN <<y.v>> ELSE <<>>
    BY <1>1, <1>2, <1>4, <2>1
  <2>4. CASE x.kind # kind
    <3>1. p[j] = <<>> /\ q[j] = <<>>
      BY <2>2, <2>3, <2>4 DEF LeafTwins
    <3>2. QED
      BY <3>1 DEF Shifted
  <2>5. CASE x.kind = kind
    <3>1. p[j] = <<x.v>> /\ q[j] = <<y.v>>
      BY <2>2, <2>3, <2>5 DEF LeafTwins
    <3>2. Level(x.v, c, y.v, d)
      <4>1. CASE kind = "id"
        BY <2>2, <2>5, <4>1 DEF LeafTwins, Moved, Level
      <4>2. CASE kind = "uuid"
        BY <2>2, <2>5, <4>2 DEF LeafTwins, Moved
      <4>3. QED
        BY <4>1, <4>2 DEF Moved
    <3>3. Shifted(<<x.v>>, <<y.v>>, c, d)
      BY <3>2 DEF Shifted
    <3>4. QED
      BY <3>1, <3>3
  <2>6. QED
    BY <2>4, <2>5
<1>6. Shifted(FlattenSeq(p), FlattenSeq(q), c, d)
  BY <1>1, <1>2, <1>4, <1>5, FlattenShifted
<1>7. PICK own \in Seq(Nat) : /\ own = IF kind = "id" /\ m.id # 0 THEN <<m.id>> ELSE <<>>
                              /\ Shifted(own, own, c, d)
  <2>1. m.id \in Nat
    BY DEF MessageType
  <2>2. CASE kind = "id"
    <3>1. (IF kind = "id" /\ m.id # 0 THEN <<m.id>> ELSE <<>>) \in Seq(Nat) /\ c = 0 /\ d = 0
      BY <2>1, <2>2 DEF Moved
    <3>2. QED
      BY <3>1, SameShifted
  <2>3. CASE kind # "id"
    <3>1. (IF kind = "id" /\ m.id # 0 THEN <<m.id>> ELSE <<>>) = <<>> /\ <<>> \in Seq(Nat)
      BY <2>3
    <3>2. Shifted(<<>>, <<>>, c, d)
      BY DEF Shifted
    <3>3. QED
      BY <3>1, <3>2
  <2>4. QED
    BY <2>2, <2>3
<1>8. Values(m, kind) = own \o FlattenSeq(p) /\ Values(n, kind) = own \o FlattenSeq(q)
  BY <1>1, <1>2, <1>7 DEF MessageTwins
<1>9. QED
  BY <1>1, <1>2, <1>6, <1>7, <1>8, ConcatShifted

LEMMA WalkTwins ==
  ASSUME NEW s \in Seq(MessageType), NEW t \in Seq(MessageType), NEW a \in Nat, NEW b \in Nat,
         Twins(s, t, a, b), NEW kind, NEW c \in Nat, NEW d \in Nat, Moved(kind, a, b, c, d)
  PROVE  Shifted(Walk(s, kind), Walk(t, kind), c, d)
<1> DEFINE p == [i \in DOMAIN s |-> Values(s[i], kind)]
           q == [i \in DOMAIN t |-> Values(t[i], kind)]
<1>1. Len(s) = Len(t) /\ \A i \in 1..Len(s) : MessageTwins(s[i], t[i], a, b)
  BY DEF Twins
<1>2. /\ DOMAIN s = 1..Len(s) /\ DOMAIN t = 1..Len(s) /\ Len(s) \in Nat
      /\ \A i \in 1..Len(s) : s[i] \in MessageType /\ t[i] \in MessageType
  BY <1>1
<1>3. \A i \in 1..Len(s) : Values(s[i], kind) \in Seq(Nat) /\ Values(t[i], kind) \in Seq(Nat)
  BY <1>2, ValuesIs
<1>4. /\ p \in Seq(Seq(Nat)) /\ q \in Seq(Seq(Nat)) /\ Len(p) = Len(s) /\ Len(q) = Len(s)
      /\ \A i \in 1..Len(s) : p[i] = Values(s[i], kind) /\ q[i] = Values(t[i], kind)
  BY <1>2, <1>3
<1>5. ASSUME NEW i \in 1..Len(s)
      PROVE  Shifted(Values(s[i], kind), Values(t[i], kind), c, d)
  BY <1>1, <1>2, ValuesTwins
<1>6. Walk(s, kind) = FlattenSeq(p) /\ Walk(t, kind) = FlattenSeq(q)
  BY DEF Walk
<1> HIDE DEF p, q
<1>7. \A i \in 1..Len(p) : Shifted(p[i], q[i], c, d)
  BY <1>4, <1>5
<1>8. QED
  BY <1>4, <1>6, <1>7, FlattenShifted

LEMMA SameMessage ==
  ASSUME NEW m \in MessageType, NEW n \in MessageType,
         m.dir = n.dir, m.kind = n.kind, m.id = n.id, m.leaves = n.leaves
  PROVE  m = n
BY DEF MessageType

\* The normal form of a transcript does not depend on its run.
LEMMA TwinsNormalized ==
  ASSUME NEW s \in Seq(MessageType), NEW t \in Seq(MessageType), NEW a \in Nat, NEW b \in Nat,
         Twins(s, t, a, b)
  PROVE  Normalized(s) = Normalized(t)
<1>1. /\ DOMAIN s = 1..Len(s) /\ DOMAIN t = 1..Len(s) /\ Len(s) \in Nat
      /\ \A i \in 1..Len(s) : MessageTwins(s[i], t[i], a, b)
      /\ \A i \in 1..Len(s) : s[i] \in MessageType /\ t[i] \in MessageType
  BY DEF Twins
<1>2. /\ Shifted(Walk(s, "id"), Walk(t, "id"), 0, 0)
      /\ Shifted(Walk(s, "uuid"), Walk(t, "uuid"), a, b)
  <2>1. Moved("id", a, b, 0, 0) /\ Moved("uuid", a, b, a, b) /\ 0 \in Nat
    BY DEF Moved
  <2>2. QED
    BY <2>1, WalkTwins
<1>3. /\ Walk(s, "id") \in Seq(Nat) /\ Walk(t, "id") \in Seq(Nat)
      /\ Walk(s, "uuid") \in Seq(Nat) /\ Walk(t, "uuid") \in Seq(Nat)
  BY WalkIs
<1>4. ASSUME NEW v \in Nat, v \in Elems(Walk(s, "id"))
      PROVE  Number(Walk(s, "id"), v) = Number(Walk(t, "id"), v)
  <2>1. Level(v, 0, v, 0) /\ 0 \in Nat
    BY DEF Level
  <2>2. QED
    BY <1>2, <1>3, <1>4, <2>1, NumberShifted
<1>5. ASSUME NEW v \in Nat, NEW w \in Nat, v \in Elems(Walk(s, "uuid")), Level(v, a, w, b)
      PROVE  Number(Walk(s, "uuid"), v) = Number(Walk(t, "uuid"), w)
  BY <1>2, <1>3, <1>5, NumberShifted
<1>6. ASSUME NEW i \in 1..Len(s), NEW j \in DOMAIN s[i].leaves
      PROVE  Placeholder(s, s[i].leaves[j]) = Placeholder(t, t[i].leaves[j])
  <2>1. PICK x, y : x = s[i].leaves[j] /\ y = t[i].leaves[j]
    OBVIOUS
  <2>2. /\ x \in LeafType /\ y \in LeafType
    <3>1. /\ s[i].leaves \in Seq(LeafType) /\ t[i].leaves \in Seq(LeafType)
          /\ j \in DOMAIN t[i].leaves
      BY <1>1 DEF MessageTwins, MessageType
    <3>2. QED
      BY <2>1, <3>1
  <2>3. LeafTwins(x, y, a, b)
    BY <1>1, <2>1 DEF MessageTwins
  <2>4. x.kind \in {"text", "id", "stamp", "uuid"} /\ x.v \in Nat /\ y.v \in Nat
        /\ y.kind \in {"text", "id", "stamp", "uuid"}
    BY <2>2 DEF LeafType
  <2>5. CASE x.kind = "id"
    <3>1. y.v = x.v /\ y.kind = "id"
      BY <2>3, <2>5 DEF LeafTwins
    <3>2. x.v \in Elems(Walk(s, "id"))
      BY <1>1, <2>1, <2>5, WalkIs
    <3>3. Number(Walk(s, "id"), x.v) = Number(Walk(t, "id"), x.v)
      BY <1>4, <2>4, <3>2
    <3>4. QED
      BY <2>1, <2>5, <3>1, <3>3 DEF Placeholder
  <2>6. CASE x.kind = "uuid"
    <3>1. Level(x.v, a, y.v, b) /\ y.kind = "uuid"
      BY <2>3, <2>6 DEF LeafTwins
    <3>2. x.v \in Elems(Walk(s, "uuid"))
      BY <1>1, <2>1, <2>6, WalkIs
    <3>3. Number(Walk(s, "uuid"), x.v) = Number(Walk(t, "uuid"), y.v)
      BY <1>5, <2>4, <3>1, <3>2
    <3>4. QED
      BY <2>1, <2>6, <3>1, <3>3 DEF Placeholder
  <2>7. CASE x.kind = "stamp"
    <3>1. y.kind = "stamp"
      BY <2>3, <2>7 DEF LeafTwins
    <3>2. QED
      BY <2>1, <2>7, <3>1 DEF Placeholder
  <2>8. CASE x.kind = "text"
    <3>1. y.kind = "text" /\ x.v = y.v
      BY <2>3, <2>8 DEF LeafTwins
    <3>2. x = y
      BY <2>2, <2>8, <3>1 DEF LeafType
    <3>3. QED
      BY <2>1, <2>8, <3>1, <3>2 DEF Placeholder
  <2>9. QED
    BY <2>4, <2>5, <2>6, <2>7, <2>8
<1>7. PICK u, v : u = Normalized(s) /\ v = Normalized(t)
  OBVIOUS
<1>8. u \in Seq(MessageType) /\ v \in Seq(MessageType) /\ DOMAIN u = 1..Len(s) /\ DOMAIN v = 1..Len(s)
  BY <1>1, <1>7, NormalizedIs
<1>9. ASSUME NEW i \in 1..Len(s)
      PROVE  u[i] = v[i]
  <2>1. i \in DOMAIN s /\ i \in DOMAIN t
    BY <1>1
  <2>2. /\ u[i].dir = s[i].dir /\ u[i].kind = s[i].kind
        /\ u[i].id = IF s[i].id = 0 THEN 0 ELSE Number(Walk(s, "id"), s[i].id)
        /\ u[i].leaves = [j \in DOMAIN s[i].leaves |-> Placeholder(s, s[i].leaves[j])]
    BY <1>7, <2>1, NormalizedIs
  <2>3. /\ v[i].dir = t[i].dir /\ v[i].kind = t[i].kind
        /\ v[i].id = IF t[i].id = 0 THEN 0 ELSE Number(Walk(t, "id"), t[i].id)
        /\ v[i].leaves = [j \in DOMAIN t[i].leaves |-> Placeholder(t, t[i].leaves[j])]
    BY <1>7, <2>1, NormalizedIs
  <2>4. s[i].dir = t[i].dir /\ s[i].kind = t[i].kind /\ s[i].id = t[i].id
        /\ DOMAIN s[i].leaves = DOMAIN t[i].leaves
    BY <1>1 DEF MessageTwins
  <2>5. u[i].leaves = v[i].leaves
    BY <1>6, <2>2, <2>3, <2>4
  <2>6. u[i].id = v[i].id
    <3>1. CASE s[i].id = 0
      BY <2>2, <2>3, <2>4, <3>1
    <3>2. CASE s[i].id # 0
      <4>1. s[i].id \in Nat /\ s[i].id \in Elems(Walk(s, "id"))
        BY <1>1, <3>2, WalkIs DEF MessageType
      <4>2. Number(Walk(s, "id"), s[i].id) = Number(Walk(t, "id"), s[i].id)
        BY <1>4, <4>1
      <4>3. QED
        BY <2>2, <2>3, <2>4, <3>2, <4>2
    <3>3. QED
      BY <3>1, <3>2
  <2>7. u[i] \in MessageType /\ v[i] \in MessageType
    BY <1>8
  <2>8. u[i].dir = v[i].dir /\ u[i].kind = v[i].kind
    BY <2>2, <2>3, <2>4
  <2>9. QED
    BY <2>5, <2>6, <2>7, <2>8, SameMessage, Zenon
<1>10. QED
  BY <1>7, <1>8, <1>9, SameSequence

(* ------------------- what an unchanged server answers ------------------ *)

\* The ids that are asked for, and the answers to them in a quiet run.
Ask(m) == IF m.id = NoId THEN <<>> ELSE <<m.id>>
Asks(msgs) == FlattenSeq([i \in DOMAIN msgs |-> Ask(msgs[i])])
Tell(n, v, run) == [dir |-> "s2c", kind |-> "reply", id |-> n, leaves |-> Answer(v, run, n)]
Told(ids, v, run) == [k \in DOMAIN ids |-> Tell(ids[k], v, run)]

Ids == Nat \ {0}

LeavesTwins(s, t, a, b) ==
  DOMAIN s = DOMAIN t /\ \A j \in DOMAIN s : LeafTwins(s[j], t[j], a, b)

Joined(s, t, u) ==
  /\ Len(u) = Len(s) + Len(t) /\ \A k \in 1..Len(s) : u[k] = s[k]
  /\ \A k \in 1..Len(t) : u[Len(s) + k] = t[k]
LEMMA ConcatAre ==
  ASSUME NEW L, NEW s \in Seq(L), NEW t \in Seq(L), NEW u \in Seq(L), Joined(s, t, u)
  PROVE  s \o t = u
<1>6a. /\ Len(u) = Len(s) + Len(t) /\ \A k \in 1..Len(s) : u[k] = s[k]
      /\ \A k \in 1..Len(t) : u[Len(s) + k] = t[k]
  BY DEF Joined
<1>1. PICK w : w = s \o t
  OBVIOUS
<1>2. /\ w \in Seq(L) /\ Len(s) \in Nat /\ Len(t) \in Nat /\ Len(w) = Len(s) + Len(t)
      /\ \A n \in 1..Len(s) : w[n] = s[n]
      /\ \A k \in 1..Len(t) : w[Len(s) + k] = t[k]
  BY <1>1, ConcatIs
<1>3. ASSUME NEW n \in 1..Len(w)
      PROVE  w[n] = u[n]
  <2>1. CASE n \in 1..Len(s)
    BY <1>6a, <1>2, <2>1
  <2>2. CASE n \notin 1..Len(s)
    <3>1. PICK k \in 1..Len(t) : n = Len(s) + k
      <4>1. n - Len(s) \in 1..Len(t) /\ n = Len(s) + (n - Len(s))
        BY <1>2, <2>2
      <4>2. QED
        BY <4>1
    <3>2. QED
      BY <1>2, <1>6a, <3>1
  <2>3. QED
    BY <2>1, <2>2
<1>4. w = u
  BY <1>6a, <1>2, <1>3, SameSequence
<1>5. QED
  BY <1>1, <1>4

\* The sequences an answer is put together from.
LEMMA Puts ==
  ASSUME NEW L, NEW a \in L, NEW b \in L, NEW c \in L, NEW d \in L
  PROVE  /\ <<a>> \o <<>> = <<a>> /\ <<a>> \o <<b>> = <<a, b>>
         /\ <<a>> \o <<c, d>> = <<a, c, d>> /\ <<a, b>> \o <<>> = <<a, b>>
         /\ <<a, b>> \o <<c, d>> = <<a, b, c, d>>
<1>1. PICK z, p, q, r, s, t :
        z = <<>> /\ p = <<a>> /\ q = <<b>> /\ r = <<c, d>> /\ s = <<a, b>> /\ t = <<a, c, d>>
  OBVIOUS
<1>2. PICK u : u = <<a, b, c, d>>
  OBVIOUS
<1>3. /\ z \in Seq(L) /\ p \in Seq(L) /\ q \in Seq(L) /\ r \in Seq(L) /\ s \in Seq(L)
      /\ t \in Seq(L) /\ u \in Seq(L)
  BY <1>1, <1>2
<1>4. /\ Len(z) = 0 /\ Len(p) = 1 /\ Len(q) = 1 /\ Len(r) = 2 /\ Len(s) = 2 /\ Len(t) = 3
      /\ Len(u) = 4
  BY <1>1, <1>2
<1>5. /\ p[1] = a /\ q[1] = b /\ r[1] = c /\ r[2] = d /\ s[1] = a /\ s[2] = b
      /\ t[1] = a /\ t[2] = c /\ t[3] = d /\ u[1] = a /\ u[2] = b /\ u[3] = c /\ u[4] = d
  BY <1>1, <1>2
<1>6. /\ \A k \in 1..0 : FALSE
      /\ \A k \in 1..1 : k = 1
      /\ \A k \in 1..2 : k = 1 \/ k = 2
  OBVIOUS
<1>7. p \o z = p
  <2>1. Joined(p, z, p)
    BY <1>4, <1>5, <1>6 DEF Joined
  <2>2. QED
    BY <1>3, <2>1, ConcatAre
<1>8. p \o q = s
  <2>1. Joined(p, q, s)
    BY <1>4, <1>5, <1>6 DEF Joined
  <2>2. QED
    BY <1>3, <2>1, ConcatAre
<1>9. p \o r = t
  <2>1. Joined(p, r, t)
    BY <1>4, <1>5, <1>6 DEF Joined
  <2>2. QED
    BY <1>3, <2>1, ConcatAre
<1>10. s \o z = s
  <2>1. Joined(s, z, s)
    BY <1>4, <1>5, <1>6 DEF Joined
  <2>2. QED
    BY <1>3, <2>1, ConcatAre
<1>11. s \o r = u
  <2>1. Joined(s, r, u)
    BY <1>4, <1>5, <1>6 DEF Joined
  <2>2. QED
    BY <1>3, <2>1, ConcatAre
<1>12. QED
  BY <1>1, <1>2, <1>7, <1>8, <1>9, <1>10, <1>11

LEMMA AnswerTwins ==
  ASSUME nested \in BOOLEAN, volatile \in BOOLEAN, NEW v \in Nat, NEW r \in Nat, NEW q \in Nat,
         NEW n \in Nat
  PROVE  LeavesTwins(Answer(v, r, n), Answer(v, q, n), 10 * q, 10 * r)
<1>6a. PICK x, y : x = 10 * q /\ y = 10 * r
  OBVIOUS
<1>1. PICK a, b, c, d, e, f :
        /\ a = Leaf("text", v) /\ b = Leaf("id", 5)
        /\ c = Leaf("stamp", r) /\ d = Leaf("uuid", 10 * r + n)
        /\ e = Leaf("stamp", q) /\ f = Leaf("uuid", 10 * q + n)
  OBVIOUS
<1>2. /\ LeafTwins(a, a, x, y) /\ LeafTwins(b, b, x, y) /\ LeafTwins(c, e, x, y)
      /\ LeafTwins(d, f, x, y)
  <2>1. Level(10 * r + n, x, 10 * q + n, y)
    BY <1>6a DEF Level
  <2>2. QED
    BY <1>1, <2>1 DEF Leaf, LeafTwins
<1>3. /\ Answer(v, r, n) = <<a>> \o (IF nested THEN <<b>> ELSE <<>>)
                                 \o (IF volatile THEN <<c, d>> ELSE <<>>)
      /\ Answer(v, q, n) = <<a>> \o (IF nested THEN <<b>> ELSE <<>>)
                                 \o (IF volatile THEN <<e, f>> ELSE <<>>)
  BY <1>1 DEF Answer
<1>p. /\ <<a>> \o <<>> = <<a>> /\ <<a>> \o <<b>> = <<a, b>>
      /\ <<a>> \o <<c, d>> = <<a, c, d>> /\ <<a, b>> \o <<>> = <<a, b>>
      /\ <<a, b>> \o <<c, d>> = <<a, b, c, d>>
      /\ <<a>> \o <<e, f>> = <<a, e, f>> /\ <<a, b>> \o <<e, f>> = <<a, b, e, f>>
  <2>1. PICK L : L = {a, b, c, d, e, f}
    OBVIOUS
  <2>2. a \in L /\ b \in L /\ c \in L /\ d \in L /\ e \in L /\ f \in L
    BY <2>1
  <2>3. QED
    BY <2>2, Puts
<1>4. CASE nested /\ volatile
  <2>1. /\ Answer(v, r, n) = <<a>> \o <<b>> \o <<c, d>>
        /\ Answer(v, q, n) = <<a>> \o <<b>> \o <<e, f>>
    BY <1>3, <1>4, Zenon
  <2>2. /\ <<a>> \o <<b>> \o <<c, d>> = <<a, b, c, d>>
        /\ <<a>> \o <<b>> \o <<e, f>> = <<a, b, e, f>>
    BY <1>p
  <2>3. LeavesTwins(<<a, b, c, d>>, <<a, b, e, f>>, x, y)
    BY <1>2 DEF LeavesTwins
  <2>4. QED
    BY <1>6a, <2>1, <2>2, <2>3
<1>5. CASE nested /\ ~volatile
  <2>1. /\ Answer(v, r, n) = <<a>> \o <<b>> \o <<>>
        /\ Answer(v, q, n) = <<a>> \o <<b>> \o <<>>
    BY <1>3, <1>5, Zenon
  <2>2. <<a>> \o <<b>> \o <<>> = <<a, b>>
    BY <1>p
  <2>3. LeavesTwins(<<a, b>>, <<a, b>>, x, y)
    BY <1>2 DEF LeavesTwins
  <2>4. QED
    BY <1>6a, <2>1, <2>2, <2>3
<1>6. CASE ~nested /\ volatile
  <2>1. /\ Answer(v, r, n) = <<a>> \o <<>> \o <<c, d>>
        /\ Answer(v, q, n) = <<a>> \o <<>> \o <<e, f>>
    BY <1>3, <1>6, Zenon
  <2>2. /\ <<a>> \o <<>> \o <<c, d>> = <<a, c, d>>
        /\ <<a>> \o <<>> \o <<e, f>> = <<a, e, f>>
    BY <1>p
  <2>3. LeavesTwins(<<a, c, d>>, <<a, e, f>>, x, y)
    BY <1>2 DEF LeavesTwins
  <2>4. QED
    BY <1>6a, <2>1, <2>2, <2>3
<1>7. CASE ~nested /\ ~volatile
  <2>1. /\ Answer(v, r, n) = <<a>> \o <<>> \o <<>>
        /\ Answer(v, q, n) = <<a>> \o <<>> \o <<>>
    BY <1>3, <1>7, Zenon
  <2>2. <<a>> \o <<>> \o <<>> = <<a>>
    BY <1>p
  <2>3. LeavesTwins(<<a>>, <<a>>, x, y)
    BY <1>2 DEF LeavesTwins
  <2>4. QED
    BY <1>6a, <2>1, <2>2, <2>3
<1>8. QED
  BY <1>4, <1>5, <1>6, <1>7

\* The normal form of a quiet replay depends on the server's version only.
LEMMA ToldNormalized ==
  ASSUME nested \in BOOLEAN, volatile \in BOOLEAN, NEW ids \in Seq(Ids), NEW v \in Nat,
         NEW r \in Nat, NEW q \in Nat
  PROVE  Normalized(Told(ids, v, r)) = Normalized(Told(ids, v, q))
<1>1. /\ DOMAIN ids = 1..Len(ids) /\ Len(ids) \in Nat
      /\ \A k \in 1..Len(ids) : ids[k] \in Ids
  OBVIOUS
<1>2. ASSUME NEW n \in Ids, NEW run \in Nat
      PROVE  Tell(n, v, run) \in MessageType
  <2>1. n \in Nat
    BY DEF Ids
  <2>2. Answer(v, run, n) \in Seq(LeafType)
    BY <2>1, AnswerIs
  <2>3. QED
    BY <2>1, <2>2 DEF Tell, MessageType
<1>3. ASSUME NEW n \in Ids
      PROVE  MessageTwins(Tell(n, v, r), Tell(n, v, q), 10 * q, 10 * r)
  <2>1. n \in Nat
    BY DEF Ids
  <2>2. LeavesTwins(Answer(v, r, n), Answer(v, q, n), 10 * q, 10 * r)
    BY <2>1, AnswerTwins
  <2>3. QED
    BY <2>2 DEF Tell, MessageTwins, LeavesTwins
<1>4. PICK s, t : s = Told(ids, v, r) /\ t = Told(ids, v, q)
  OBVIOUS
<1>5. /\ \A k \in 1..Len(ids) : s[k] = Tell(ids[k], v, r) /\ t[k] = Tell(ids[k], v, q)
      /\ s \in Seq(MessageType) /\ t \in Seq(MessageType) /\ Len(s) = Len(ids) /\ Len(t) = Len(ids)
  <2>1. \A k \in 1..Len(ids) :
          Tell(ids[k], v, r) \in MessageType /\ Tell(ids[k], v, q) \in MessageType
    BY <1>1, <1>2
  <2>2. /\ s = [k \in 1..Len(ids) |-> Tell(ids[k], v, r)]
        /\ t = [k \in 1..Len(ids) |-> Tell(ids[k], v, q)]
    BY <1>1, <1>4 DEF Told
  <2>3. Len(ids) \in Nat
    BY <1>1
  <2>4. QED
    BY <2>1, <2>2, <2>3
<1>6. \A k \in 1..Len(ids) : MessageTwins(s[k], t[k], 10 * q, 10 * r)
  BY <1>1, <1>3, <1>5
<1>7. Twins(s, t, 10 * q, 10 * r) /\ 10 * q \in Nat /\ 10 * r \in Nat
  BY <1>5, <1>6 DEF Twins
<1>8. QED
  BY <1>4, <1>5, <1>7, TwinsNormalized

(* ------------------ what an update leaves to compare ------------------- *)

\* A message that is keyed is the response under its key.
LEMMA KeyedResponses ==
  ASSUME NEW msgs, Good(msgs)
  PROVE  /\ DOMAIN Responses(msgs) = {msgs[i].id : i \in Keyed(msgs)}
         /\ \A i \in Keyed(msgs) : Responses(msgs)[msgs[i].id] = msgs[i]
<1>1. DOMAIN msgs \subseteq Nat
  BY DEF Good
<1>2. \A i, j \in Keyed(msgs) : msgs[j].id = msgs[i].id => j = i
  BY DEF Keyed, Good, Distinct, NoId
<1>3. Keyed(msgs) \subseteq Nat
  BY <1>1 DEF Keyed
<1>4. LastKeyed(msgs) = Keyed(msgs)
  BY <1>2, <1>3 DEF LastKeyed
<1>5. DOMAIN Responses(msgs) = {msgs[i].id : i \in Keyed(msgs)}
  BY <1>4, ResponsesAre
<1>6. ASSUME NEW i \in Keyed(msgs)
      PROVE  Responses(msgs)[msgs[i].id] = msgs[i]
  <2>1. PICK j \in LastKeyed(msgs) :
          msgs[j].id = msgs[i].id /\ Responses(msgs)[msgs[i].id] = msgs[j]
    <3>1. PICK n : n = msgs[i].id
      OBVIOUS
    <3>2. n \in DOMAIN Responses(msgs)
      BY <1>5, <3>1
    <3>3. PICK j \in LastKeyed(msgs) : msgs[j].id = n /\ Responses(msgs)[n] = msgs[j]
      BY <3>2, ResponsesAre
    <3>4. QED
      BY <3>1, <3>3
  <2>2. j = i
    BY <1>2, <1>4, <2>1
  <2>3. QED
    BY <2>1, <2>2
<1>7. QED
  BY <1>5, <1>6

LEMMA NoChanges ==
  ASSUME NEW a, NEW b, Good(a), Good(b),
         \A i \in Keyed(a) : \E j \in Keyed(b) : a[i] = b[j],
         \A j \in Keyed(b) : \E i \in Keyed(a) : a[i] = b[j]
  PROVE  Changes(a, b) = {}
<1>a. PICK ra, rb : ra = Responses(a) /\ rb = Responses(b)
  OBVIOUS
<1>b. /\ DOMAIN ra = {a[i].id : i \in Keyed(a)} /\ \A i \in Keyed(a) : ra[a[i].id] = a[i]
      /\ DOMAIN rb = {b[i].id : i \in Keyed(b)} /\ \A i \in Keyed(b) : rb[b[i].id] = b[i]
  BY <1>a, KeyedResponses
<1>1. DOMAIN ra = DOMAIN rb
  BY <1>b
<1>2. ASSUME NEW n \in DOMAIN ra
      PROVE  ra[n] = rb[n]
  <2>1. PICK i \in Keyed(a) : n = a[i].id
    BY <1>b
  <2>2. PICK j \in Keyed(b) : a[i] = b[j]
    BY <2>1
  <2>3. ra[n] = a[i] /\ rb[n] = b[j]
    BY <1>b, <2>1, <2>2
  <2>4. QED
    BY <2>2, <2>3
<1>3. QED
  BY <1>a, <1>1, <1>2 DEF Changes

\* A merged file asks what its source asks and answers what was taken.
LEMMA MergedSettles ==
  ASSUME Good(source), Good(taken), \A i \in DOMAIN taken : taken[i].dir = "s2c"
  PROVE  C2S(Merged) = C2S(source) /\ Changes(Merged, Normalized(taken)) = {}
<1>1. PICK a, n : a = C2S(source) /\ n = Normalized(taken)
  OBVIOUS
<1>2. Good(a) /\ \A i \in DOMAIN a : a[i].dir = "c2s"
  BY <1>1, SentGood DEF C2S
<1>3. /\ Good(n) /\ DOMAIN n = DOMAIN taken /\ \A i \in DOMAIN n : n[i].dir = "s2c"
  BY <1>1, NormalizedGood, NormalizedIs DEF Good
<1>4. /\ a \in Seq(MessageType) /\ DOMAIN a = 1..Len(a)
      /\ n \in Seq(MessageType) /\ DOMAIN n = 1..Len(n)
  BY <1>2, <1>3 DEF Good
<1>5. PICK t : t = a \o n
  OBVIOUS
<1>6. Merged = t
  <2>1. Sent(n, "s2c") = n
    BY <1>3, <1>4, SentAll
  <2>2. QED
    BY <1>1, <1>5, <2>1 DEF Merged
<1>7. C2S(t) = a
  <2>1. \A i \in 1..Len(n) : n[i].dir # "c2s"
    BY <1>3, <1>4
  <2>2. QED
    BY <1>2, <1>4, <1>5, <2>1, SentConcat DEF C2S
<1>8. /\ DOMAIN t = 1..(Len(a) + Len(n)) /\ Len(a) \in Nat /\ Len(n) \in Nat
      /\ \A i \in 1..Len(a) : t[i] = a[i]
      /\ \A i \in 1..Len(n) : Len(a) + i \in DOMAIN t /\ t[Len(a) + i] = n[i]
  BY <1>4, <1>5
<1>9. ASSUME NEW i \in Keyed(t)
      PROVE  \E j \in Keyed(n) : t[i] = n[j]
  <2>1. i \in DOMAIN t /\ t[i].dir = "s2c" /\ t[i].id # 0
    BY DEF Keyed
  <2>2. i \notin 1..Len(a)
    BY <1>2, <1>4, <1>8, <2>1
  <2>3. PICK j \in 1..Len(n) : i = Len(a) + j
    <3>1. i - Len(a) \in 1..Len(n) /\ i = Len(a) + (i - Len(a))
      BY <1>8, <2>1, <2>2
    <3>2. QED
      BY <3>1
  <2>4. t[i] = n[j]
    BY <1>8, <2>3
  <2>5. QED
    BY <1>4, <2>1, <2>4 DEF Keyed
<1>10. ASSUME NEW j \in Keyed(n)
       PROVE  \E i \in Keyed(t) : t[i] = n[j]
  <2>1. j \in 1..Len(n) /\ n[j].dir = "s2c" /\ n[j].id # 0
    BY <1>4 DEF Keyed
  <2>2. Len(a) + j \in Keyed(t) /\ t[Len(a) + j] = n[j]
    BY <1>8, <2>1 DEF Keyed
  <2>3. QED
    BY <2>2
<1>11. Good(t)
  BY <1>6, MergedGood
<1>12. Changes(t, n) = {}
  BY <1>3, <1>9, <1>10, <1>11, NoChanges
<1>13. QED
  BY <1>1, <1>6, <1>7, <1>12

(* ---------------------- a quiet replay, step by step ------------------- *)

\* What was written is followed by what is to be written, and what it asks was
\* answered, except for what is awaited.
Awaits(w) == IF w = NoId THEN <<>> ELSE <<w>>
Telling(src, td, w, tk, v, run) ==
  \E done \in Seq(MessageType), got \in Seq(Ids) :
    /\ done \o td = C2S(src) /\ tk = Told(got, v, run)
    /\ got \o Awaits(w) = Asks(done)

QuietInv == noise \in 0..MaxNoise /\ (Quiet => out \in Seq(Answers))
ToldInv == (~Idle /\ Quiet) => Telling(source, todo, wanted, taken, version, ran)

\* The golden file matches what its source is answered.
Matched(new, src, v) ==
  \A run \in Nat : Changes(new, Normalized(Told(Asks(C2S(src)), v, run))) = {}
SettledInv ==
  settled # Nowhere =>
    /\ Good(settled.src) /\ settled.version \in Nat /\ golden # Absent
    /\ Quiet => Matched(golden, settled.src, settled.version)

SettleInv == KeepInv /\ QuietInv /\ ToldInv /\ SettledInv /\ UpdateSettles

\* Nothing here depends on what a step may change.
LEMMA SameTold ==
  ASSUME UNCHANGED <<nested, volatile>>
  PROVE  /\ \A ids, v, run : Told(ids, v, run)' = Told(ids, v, run)
         /\ \A src, td, w, tk, v, run :
              Telling(src, td, w, tk, v, run)' <=> Telling(src, td, w, tk, v, run)
         /\ \A new, src, v : Matched(new, src, v)' <=> Matched(new, src, v)
<1>1. \A v, run, n : Answer(v, run, n)' = Answer(v, run, n)
  BY DEF Answer
<1>2. \A n, v, run : Tell(n, v, run)' = Tell(n, v, run)
  BY <1>1 DEF Tell
<1>3. \A ids, v, run : Told(ids, v, run)' = Told(ids, v, run)
  BY <1>2 DEF Told
<1>4. QED
  BY <1>3 DEF Telling, Matched

LEMMA AsksAppend ==
  ASSUME NEW s \in Seq(MessageType), NEW m \in MessageType
  PROVE  Asks(s) \in Seq(Ids) /\ Asks(Append(s, m)) = Asks(s) \o Ask(m)
<1> DEFINE p == [i \in DOMAIN s |-> Ask(s[i])]
<1>1. ASSUME NEW x \in MessageType
      PROVE  Ask(x) \in Seq(Ids)
  <2>1. <<>> \in Seq(Ids)
    OBVIOUS
  <2>2. CASE x.id = NoId
    BY <2>1, <2>2 DEF Ask
  <2>3. CASE x.id # NoId
    <3>1. PICK n \in Ids : n = x.id
      BY <2>3 DEF Ids, NoId, MessageType
    <3>2. <<n>> \in Seq(Ids)
      OBVIOUS
    <3>3. QED
      BY <2>3, <3>1, <3>2 DEF Ask
  <2>4. QED
    BY <2>2, <2>3
<1>2. p \in Seq(Seq(Ids)) /\ Ask(m) \in Seq(Ids)
  <2>1. \A i \in DOMAIN s : s[i] \in MessageType
    OBVIOUS
  <2>2. \A i \in DOMAIN s : Ask(s[i]) \in Seq(Ids)
    BY <1>1, <2>1
  <2>3. DOMAIN s = 1..Len(s) /\ Len(s) \in Nat
    OBVIOUS
  <2>4. QED
    BY <1>1, <2>2, <2>3
<1>3. PICK t : t = Append(s, m)
  OBVIOUS
<1>4. /\ DOMAIN t = 1..(Len(s) + 1) /\ DOMAIN s = 1..Len(s) /\ Len(s) \in Nat
      /\ t[Len(s) + 1] = m /\ \A i \in 1..Len(s) : t[i] = s[i]
  BY <1>3
<1>5. [i \in DOMAIN t |-> Ask(t[i])] = Append(p, Ask(m))
  <2>1. Append(p, Ask(m)) = [i \in 1..(Len(s) + 1) |-> IF i = Len(s) + 1 THEN Ask(m) ELSE p[i]]
    BY <1>2, <1>4
  <2>2. \A i \in 1..(Len(s) + 1) : Ask(t[i]) = IF i = Len(s) + 1 THEN Ask(m) ELSE p[i]
    BY <1>4
  <2>3. QED
    BY <1>4, <2>1, <2>2
<1>6. Asks(t) = FlattenSeq(Append(p, Ask(m))) /\ Asks(s) = FlattenSeq(p)
  BY <1>5 DEF Asks
<1> HIDE DEF p
<1>7. QED
  BY <1>2, <1>3, <1>6, FlattenAppend

LEMMA AsksNothing == Asks(<<>>) = <<>> /\ \A v, run : Told(<<>>, v, run) = <<>>
<1>1. DOMAIN <<>> = {}
  OBVIOUS
<1>2. [i \in DOMAIN <<>> |-> Ask(<<>>[i])] = <<>> /\ \A v, run : Told(<<>>, v, run) = <<>>
  BY <1>1 DEF Told
<1>3. FlattenSeq(<<>>) = <<>>
  BY DEF FlattenSeq
<1>4. QED
  BY <1>2, <1>3 DEF Asks

LEMMA ToldAppend ==
  ASSUME NEW ids \in Seq(Ids), NEW n \in Ids, NEW v, NEW run
  PROVE  Told(Append(ids, n), v, run) = Append(Told(ids, v, run), Tell(n, v, run))
BY DEF Told

\* Nothing was written but answers, and nothing will be taken from another line.
LEMMA QuietRun ==
  ASSUME RegressionInv, QuietInv, RunStep \/ ServerStep
  PROVE  QuietInv' /\ (Quiet' => Quiet)
<1>1. UNCHANGED <<version, ran, volatile, nested>>
  BY DEF RunStep, ServerStep, worldVars, commandVars
<1>2. Answers' = Answers
  BY <1>1, SameAnswers
<1>3. noise \in Nat /\ noise <= MaxNoise /\ (Quiet => out \in Seq(Answers)) /\ MaxNoise \in Nat
  BY NoiseAssumption DEF QuietInv
<1>4. CASE ServerNoise
  <2>1. noise' = noise - 1 /\ noise > 0
    BY <1>4 DEF ServerNoise
  <2>2. noise' \in 0..MaxNoise /\ noise' # MaxNoise
    BY <1>3, <2>1
  <2>3. QED
    BY <2>2 DEF QuietInv, Quiet
<1>5. ASSUME noise' = noise, out \in Seq(Answers) => out' \in Seq(Answers)
      PROVE  QuietInv' /\ (Quiet' => Quiet)
  BY <1>2, <1>3, <1>5 DEF QuietInv, Quiet
<1>6. CASE out' = out /\ noise' = noise
  BY <1>5, <1>6
<1>7. CASE HasLine /\ out' = Tail(out) /\ noise' = noise
  <2>1. out \in Seq(Answers) => out' \in Seq(Answers)
    BY <1>7 DEF HasLine
  <2>2. QED
    BY <1>5, <1>7, <2>1
<1>8. CASE \E req \in asked : ServerReplies(req, Answer(version, ran, req.id))
  <2>1. PICK req \in asked : ServerReplies(req, Answer(version, ran, req.id))
    BY <1>8
  <2>2. req \in MessageType /\ req.id \in Nat \ {0}
    BY DEF RegressionInv, ServerInv, MessageType, NoId
  <2>3. Answer(version, ran, req.id) \in Seq(LeafType)
    BY <2>2, AnswerIs DEF RegressionInv, FilesInv
  <2>4. PICK line : line = Reply(req, Answer(version, ran, req.id))
    OBVIOUS
  <2>5. line \in Answers
    BY <2>2, <2>3, <2>4 DEF Reply, Answers
  <2>6. out' = Append(out, line) /\ noise' = noise
    BY <2>1, <2>4 DEF ServerReplies
  <2>7. out \in Seq(Answers) => out' \in Seq(Answers)
    BY <2>5, <2>6
  <2>8. QED
    BY <1>5, <2>6, <2>7
<1>9. QED
  BY <1>4, <1>6, <1>7, <1>8 DEF RunStep, ReplaySteps, Send, Written, SendFails, StartRaises, EndRaises,
     ReadOn, Match, ReadFails, TakeLine, ServerStep, ServerExits, serverVars

LEMMA TellingSends ==
  ASSUME RegressionInv, Telling(source, todo, wanted, taken, version, ran), Send
  PROVE  Telling(source, todo', wanted', taken', version, ran)
<1>1. PICK done \in Seq(MessageType), got \in Seq(Ids) :
        /\ done \o todo = C2S(source) /\ taken = Told(got, version, ran)
        /\ got \o Awaits(wanted) = Asks(done)
  BY DEF Telling
<1>2. todo # <<>> /\ wanted = NoId /\ todo \in Seq(MessageType)
  BY DEF Send, Sending, Over, RegressionInv, TodoInv, Good
<1>3. PICK m \in MessageType, t \in Seq(MessageType) : m = Head(todo) /\ t = Tail(todo)
  <2>1. Head(todo) \in MessageType /\ Tail(todo) \in Seq(MessageType)
    BY <1>2
  <2>2. QED
    BY <2>1
<1>4. wanted' = m.id /\ todo' = t /\ taken' = taken
  BY <1>3 DEF Send
<1>5. Append(done, m) \in Seq(MessageType) /\ Append(done, m) \o t = C2S(source)
  <2>1. Append(done, m) \o t = done \o todo
    BY <1>2, <1>3
  <2>2. QED
    BY <1>1, <2>1
<1>6. got \o Awaits(wanted') = Asks(Append(done, m))
  <2>1. got \o <<>> = got
    OBVIOUS
  <2>2. got = Asks(done)
    BY <1>1, <1>2, <2>1 DEF Awaits
  <2>3. Ask(m) = Awaits(wanted')
    BY <1>4 DEF Ask, Awaits
  <2>4. QED
    BY <2>2, <2>3, AsksAppend
<1>7. QED
  BY <1>1, <1>4, <1>5, <1>6 DEF Telling

LEMMA TellingMatches ==
  ASSUME RegressionInv, Telling(source, todo, wanted, taken, version, ran), Match,
         out \in Seq(Answers)
  PROVE  Telling(source, todo', wanted', taken', version, ran)
<1>1. PICK done \in Seq(MessageType), got \in Seq(Ids) :
        /\ done \o todo = C2S(source) /\ taken = Told(got, version, ran)
        /\ got \o Awaits(wanted) = Asks(done)
  BY DEF Telling
<1>2. PICK line \in Answers : line = Head(out) /\ line.id = wanted
  BY DEF Match, HasLine
<1>3. wanted \in Ids /\ wanted # NoId /\ Message(line) = Tell(wanted, version, ran)
  <2>1. line.kind = "reply" /\ line.id \in Nat \ {0} /\ line.body = Answer(version, ran, line.id)
    BY DEF Answers
  <2>2. QED
    BY <1>2, <2>1 DEF Ids, NoId, Message, Tell
<1>4. wanted' = NoId /\ todo' = todo /\ taken' = Append(taken, Tell(wanted, version, ran))
  BY <1>2, <1>3 DEF Match
<1>5. taken' = Told(Append(got, wanted), version, ran)
  BY <1>1, <1>3, <1>4, ToldAppend
<1>6. Append(got, wanted) \in Seq(Ids) /\ Append(got, wanted) \o <<>> = got \o <<wanted>>
  BY <1>3
<1>7. Append(got, wanted) \o Awaits(wanted') = Asks(done)
  BY <1>1, <1>3, <1>4, <1>6 DEF Awaits
<1>8. QED
  BY <1>1, <1>4, <1>5, <1>6, <1>7 DEF Telling

LEMMA ToldRun ==
  ASSUME RegressionInv, QuietInv, ToldInv, RunStep \/ ServerStep
  PROVE  ToldInv'
<1>1. SUFFICES ASSUME Quiet' PROVE ToldInv'
  BY DEF ToldInv
<1>2. ~Idle /\ UNCHANGED <<version, ran, volatile, nested, source>>
  BY DEF RunStep, ServerStep, worldVars, commandVars
<1>3. Quiet
  BY <1>1, QuietRun
<1>4. Telling(source, todo, wanted, taken, version, ran) /\ out \in Seq(Answers)
  BY <1>2, <1>3 DEF ToldInv, QuietInv
<1>5. SUFFICES Telling(source, todo', wanted', taken', version, ran)
  BY <1>2, SameTold DEF ToldInv
<1>6. CASE UNCHANGED <<todo, wanted, taken>>
  BY <1>4, <1>6
<1>7. CASE Send
  BY <1>4, <1>7, TellingSends
<1>8. CASE Match
  BY <1>4, <1>8, TellingMatches
<1>9. CASE ReadOn
  <2>1. HasLine /\ UNCHANGED <<todo, wanted>>
        /\ taken' = IF Head(out).id = NoId THEN Append(taken, Message(Head(out))) ELSE taken
    BY <1>9 DEF ReadOn
  <2>2. Head(out) \in Answers
    BY <1>4, <2>1 DEF HasLine
  <2>3. Head(out).id # NoId
    BY <2>2 DEF Answers, NoId
  <2>4. QED
    BY <1>4, <2>1, <2>3
<1>10. QED
  BY <1>6, <1>7, <1>8, <1>9 DEF RunStep, ReplaySteps, SendFails, ReadFails, StartRaises,
     EndRaises, ServerStep, replayVars

LEMMA TellingStarts ==
  ASSUME NEW src, Good(src), NEW v, NEW run
  PROVE  Telling(src, C2S(src), NoId, <<>>, v, run)
<1>1. C2S(src) \in Seq(MessageType)
  BY SentGood DEF C2S, Good
<1>2. <<>> \in Seq(MessageType) /\ <<>> \in Seq(Ids) /\ <<>> \o C2S(src) = C2S(src)
  BY <1>1
<1>3. <<>> \o Awaits(NoId) = Asks(<<>>)
  <2>1. <<>> \o <<>> = <<>>
    OBVIOUS
  <2>2. QED
    BY <2>1, AsksNothing DEF Awaits
<1>4. QED
  BY <1>2, <1>3, AsksNothing DEF Telling

\* A replay that begins and one that is over.
LEMMA QuietFresh ==
  ASSUME QuietInv, out' = <<>>, noise' = noise
  PROVE  QuietInv'
<1>1. <<>> \in Seq(Answers')
  OBVIOUS
<1>2. QED
  BY <1>1 DEF QuietInv

LEMMA FreshReplay ==
  ASSUME QuietInv, NEW src, Good(src), ReplayStarts(src), source' = src,
         UNCHANGED <<nested, volatile>>
  PROVE  QuietInv' /\ ToldInv'
<1>1. /\ todo' = C2S(source') /\ wanted' = NoId /\ taken' = <<>> /\ out' = <<>> /\ noise' = noise
  BY DEF ReplayStarts, Launched
<1>2. Telling(source', C2S(source'), NoId, <<>>, version', ran')
  BY TellingStarts
<1>3. QED
  BY <1>1, <1>2, QuietFresh, SameTold DEF ToldInv

LEMMA OverReplay ==
  ASSUME QuietInv, Ended
  PROVE  QuietInv' /\ ToldInv' /\ Idle' /\ noise' = noise
BY QuietFresh DEF Ended, Stopped, ToldInv, Idle

LEMMA SettledSame ==
  ASSUME SettledInv, UNCHANGED <<golden, settled, nested, volatile>>, Quiet' => Quiet
  PROVE  SettledInv'
BY SameTold DEF SettledInv

\* What a complete replay of a quiet server has taken.
LEMMA QuietTaken ==
  ASSUME RegressionInv, ToldInv, ~Idle, Quiet, todo = <<>>, wanted = NoId
  PROVE  \A run \in Nat :
           Normalized(Told(Asks(C2S(source)), version, run)) = Normalized(taken)
<1>1. PICK done \in Seq(MessageType), got \in Seq(Ids) :
        /\ done \o todo = C2S(source) /\ taken = Told(got, version, ran)
        /\ got \o Awaits(wanted) = Asks(done)
  BY DEF ToldInv, Telling
<1>2. done \o <<>> = done /\ got \o <<>> = got
  OBVIOUS
<1>3. done = C2S(source) /\ got = Asks(C2S(source))
  BY <1>1, <1>2 DEF Awaits
<1>4. nested \in BOOLEAN /\ volatile \in BOOLEAN /\ version \in Nat /\ ran \in Nat
  BY DEF RegressionInv, FilesInv
<1>5. \A run \in Nat : Normalized(Told(got, version, run)) = Normalized(Told(got, version, ran))
  BY <1>4, ToldNormalized
<1>6. QED
  BY <1>1, <1>3, <1>5

LEMMA NotAbsent == ASSUME NEW s, Good(s) PROVE s # Absent
<1>1. SUFFICES ASSUME s = Absent PROVE FALSE
  OBVIOUS
<1>2. 1 \in DOMAIN s /\ s[1].dir = "none"
  BY <1>1 DEF Absent
<1>3. s[1] \in MessageType
  BY <1>2 DEF Good
<1>4. QED
  BY <1>2, <1>3 DEF MessageType

LEMMA SettleRun ==
  ASSUME SettleInv, RunStep \/ ServerStep
  PROVE  QuietInv' /\ ToldInv' /\ SettledInv' /\ UpdateSettles'
<1>1. ~Idle' /\ UNCHANGED <<golden, settled, nested, volatile>>
  BY DEF RunStep, ServerStep, worldVars, filesVars, commandVars, Idle
<1>2. QuietInv' /\ ToldInv' /\ (Quiet' => Quiet)
  BY QuietRun, ToldRun DEF SettleInv, KeepInv
<1>3. SettledInv'
  BY <1>1, <1>2, SettledSame DEF SettleInv
<1>4. UpdateSettles'
  BY <1>1 DEF UpdateSettles
<1>5. QED
  BY <1>2, <1>3, <1>4

LEMMA SettleIdle ==
  ASSUME SettleInv, Snapshot \/ ServerChanges \/ SessionsRemoved
  PROVE  QuietInv' /\ ToldInv' /\ SettledInv' /\ UpdateSettles'
<1>1. /\ Idle /\ Idle' /\ out = <<>> /\ out' = out /\ noise' = noise
      /\ UNCHANGED <<nested, volatile, source, complete, exit>>
  BY DEF Snapshot, ServerChanges, SessionsRemoved, commandVars, worldVars, serverVars, Idle,
     SettleInv, KeepInv, RegressionInv, CommandInv
<1>2. QuietInv' /\ ToldInv' /\ (Quiet' => Quiet)
  BY <1>1, QuietFresh DEF SettleInv, ToldInv, Quiet
<1>3. SettledInv'
  <2>1. CASE Snapshot
    BY <2>1 DEF Snapshot, SettledInv
  <2>2. CASE ServerChanges \/ SessionsRemoved
    <3>1. UNCHANGED <<golden, settled>>
      BY <2>2 DEF ServerChanges, SessionsRemoved, filesVars, commandVars
    <3>2. QED
      BY <1>1, <1>2, <3>1, SettledSame DEF SettleInv
  <2>3. QED
    BY <2>1, <2>2
<1>4. UpdateSettles'
  <2>1. CASE Snapshot \/ ServerChanges
    BY <2>1 DEF Snapshot, ServerChanges, UpdateSettles
  <2>2. CASE SessionsRemoved
    <3>1. UNCHANGED <<last, version, settled>>
      BY <2>2 DEF SessionsRemoved, commandVars
    <3>2. QED
      BY <1>1, <3>1 DEF SettleInv, UpdateSettles, Quiet
  <2>3. QED
    BY <2>1, <2>2
<1>5. QED
  BY <1>2, <1>3, <1>4

LEMMA SettleStart ==
  ASSUME SettleInv, Verify \/ Update \/ Check \/ ReplayStrict
  PROVE  QuietInv' /\ ToldInv' /\ SettledInv' /\ UpdateSettles'
<1>1. PICK name, files :
        /\ Starts(name, files) /\ name # "idle"
        /\ \/ golden # Absent /\ \E src \in Sources : files = <<src>>
           \/ files = Append(replays, session)
           \/ files = <<session>>
  BY DEF Verify, Update, Check, ReplayStrict
<1>2. /\ UNCHANGED <<golden, settled, nested, volatile>> /\ ~Idle' /\ noise' = noise
      /\ source' = Head(files) /\ ReplayStarts(Head(files))
  BY <1>1 DEF Starts, ReplayStarts, Launched, worldVars, filesVars, Idle
<1>3. Good(Head(files))
  <2>1. CASE golden # Absent /\ \E src \in Sources : files = <<src>>
    BY <2>1, SourcesGood DEF SettleInv, KeepInv, RegressionInv
  <2>2. CASE files = Append(replays, session)
    <3>1. session \in Seq(MessageType) /\ replays \in Seq(Seq(MessageType))
      BY DEF SettleInv, KeepInv, RegressionInv, FilesInv, Good
    <3>2. Head(files) = session \/ (1 \in DOMAIN replays /\ Head(files) = replays[1])
      BY <2>2, <3>1
    <3>3. QED
      BY <3>2 DEF SettleInv, KeepInv, RegressionInv, FilesInv
  <2>3. CASE files = <<session>>
    BY <2>3 DEF SettleInv, KeepInv, RegressionInv, FilesInv
  <2>4. QED
    BY <1>1, <2>1, <2>2, <2>3
<1>4. QuietInv' /\ ToldInv'
  BY <1>2, <1>3, FreshReplay DEF SettleInv
<1>5. SettledInv'
  BY <1>2, SettledSame DEF SettleInv, Quiet
<1>6. UpdateSettles'
  BY <1>2 DEF UpdateSettles
<1>7. QED
  BY <1>4, <1>5, <1>6

\* A verify that passes settles its source; one that does not has replayed
\* another one, or another server.
LEMMA SettleVerify ==
  ASSUME SettleInv, VerifyJudged
  PROVE  QuietInv' /\ ToldInv' /\ SettledInv' /\ UpdateSettles'
<1>1. /\ ~Idle /\ cmd = "verify" /\ Good(source) /\ golden # Absent /\ version \in Nat /\ ran \in Nat
      /\ UNCHANGED <<golden, nested, volatile, version, source>> /\ Over
      /\ complete' = (reason = "none")
      /\ exit' = (IF Matches(golden, Normalized(taken)) THEN 0 ELSE 1)
      /\ settled' = IF exit' = 0 THEN Settled(golden) ELSE settled
  BY DEF VerifyJudged, Ready, Idle, SettleInv, KeepInv, RegressionInv, CommandInv, FilesInv,
     worldVars, filesVars
<1>2. QuietInv' /\ ToldInv' /\ (Quiet' => Quiet)
  BY OverReplay DEF VerifyJudged, SettleInv, Quiet
<1>3. Settled(golden) = [src |-> source, version |-> version]
  BY DEF Settled
<1>4. SettledInv'
  <2>1. CASE settled' = settled
    BY <1>1, <1>2, <2>1, SettledSame DEF SettleInv
  <2>2. CASE settled' # settled
    <3>1. /\ settled'.src = source /\ settled'.version = version
          /\ reason = "none" /\ Changes(golden, Normalized(taken)) = {}
      BY <1>1, <1>3, <2>2 DEF Matches
    <3>2. Quiet => Matched(golden, source, version)
      BY <1>1, <3>1, QuietTaken DEF Over, Matched, SettleInv, KeepInv
    <3>3. QED
      BY <1>1, <1>2, <3>1, <3>2, SameTold DEF SettledInv
  <2>3. QED
    BY <2>1, <2>2
<1>5. UpdateSettles'
  <2>1. SUFFICES ASSUME reason = "none", Quiet, settled = [src |-> source, version |-> version]
                 PROVE  exit' = 0
    BY <1>1, <1>2, <1>3 DEF UpdateSettles
  <2>2. settled # Nowhere
    <3>1. source # Absent
      BY <1>1, NotAbsent
    <3>2. QED
      BY <2>1, <3>1 DEF Nowhere
  <2>3. Matched(golden, source, version)
    BY <2>1, <2>2 DEF SettleInv, SettledInv
  <2>4. Normalized(Told(Asks(C2S(source)), version, ran)) = Normalized(taken)
    BY <1>1, <2>1, QuietTaken DEF Over, SettleInv, KeepInv
  <2>5. Changes(golden, Normalized(taken)) = {}
    BY <1>1, <2>3, <2>4 DEF Matched
  <2>6. QED
    BY <1>1, <2>1, <2>5 DEF Matches
<1>6. QED
  BY <1>2, <1>4, <1>5

LEMMA SettleUpdate ==
  ASSUME SettleInv, UpdateJudged
  PROVE  QuietInv' /\ ToldInv' /\ SettledInv' /\ UpdateSettles'
<1>1. /\ ~Idle /\ cmd = "update" /\ last' # "verify" /\ Good(source) /\ version \in Nat
      /\ UNCHANGED <<nested, volatile, version, source>> /\ Over
  BY DEF UpdateJudged, Ready, Idle, SettleInv, KeepInv, RegressionInv, CommandInv, FilesInv,
     worldVars
<1>2. QuietInv' /\ ToldInv' /\ (Quiet' => Quiet)
  BY OverReplay DEF UpdateJudged, SettleInv, Quiet
<1>3. UpdateSettles'
  BY <1>1 DEF UpdateSettles
<1>4. CASE UNCHANGED <<golden, settled>>
  BY <1>1, <1>2, <1>3, <1>4, SettledSame DEF SettleInv
<1>5. CASE ~UNCHANGED <<golden, settled>>
  <2>1. /\ reason = "none" /\ todo = <<>> /\ wanted = NoId
        /\ golden' = IF Changes(golden, Normalized(taken)) = {} THEN golden ELSE Merged
        /\ settled'.src = (IF source = golden THEN golden' ELSE source)
        /\ settled'.version = version
    BY <1>1, <1>5 DEF UpdateJudged, Over, Matches, Settled
  <2>2. Good(taken) /\ \A i \in DOMAIN taken : taken[i].dir = "s2c"
    BY DEF SettleInv, KeepInv, RegressionInv, TakenInv
  <2>3. Good(Merged) /\ C2S(Merged) = C2S(source) /\ Changes(Merged, Normalized(taken)) = {}
    BY <1>1, <2>2, MergedGood, MergedSettles
  <2>4. /\ Changes(golden', Normalized(taken)) = {} /\ C2S(settled'.src) = C2S(source)
        /\ Good(settled'.src)
    BY <1>1, <2>1, <2>3
  <2>5. golden' # Absent
    <3>1. golden # Absent
      BY <1>1 DEF SettleInv, KeepInv, SourceInv
    <3>2. Merged # Absent
      BY <2>3, NotAbsent
    <3>3. QED
      BY <2>1, <3>1, <3>2
  <2>6. Quiet => Matched(golden', settled'.src, version)
    BY <1>1, <2>1, <2>4, QuietTaken DEF Matched, SettleInv, KeepInv
  <2>7. SettledInv'
    BY <1>1, <1>2, <2>1, <2>4, <2>5, <2>6, SameTold DEF SettledInv
  <2>8. QED
    BY <1>2, <1>3, <2>7
<1>6. QED
  BY <1>4, <1>5

LEMMA SettleCheck ==
  ASSUME SettleInv, CheckJudged \/ ReplayJudged
  PROVE  QuietInv' /\ ToldInv' /\ SettledInv' /\ UpdateSettles'
<1>1. /\ ~Idle /\ UNCHANGED <<golden, settled, nested, volatile, last>> /\ last # "verify"
  BY DEF CheckJudged, ReplayJudged, Ready, worldVars, SettleInv, KeepInv, RegressionInv, CommandInv
<1>2. QuietInv' /\ ToldInv' /\ noise' = noise
  <2>1. CASE Ended
    BY <2>1, OverReplay DEF SettleInv
  <2>2. CASE ~Ended
    <3>1. /\ cmd = "check" /\ queue' = Tail(queue) /\ queue' # <<>>
          /\ source' = Head(queue') /\ ReplayStarts(source')
      BY <2>2 DEF CheckJudged, ReplayJudged
    <3>2. queue \in Seq(Seq(MessageType)) /\ \A i \in DOMAIN queue : Good(queue[i])
      BY <3>1 DEF SettleInv, KeepInv, RegressionInv, CommandInv
    <3>3. 2 \in DOMAIN queue /\ source' = queue[2]
      BY <3>1, <3>2
    <3>4. Good(source')
      BY <3>2, <3>3
    <3>5. noise' = noise
      BY <3>1 DEF ReplayStarts, Launched
    <3>6. QED
      BY <1>1, <3>1, <3>4, <3>5, FreshReplay DEF SettleInv
  <2>3. QED
    BY <2>1, <2>2
<1>3. SettledInv' /\ UpdateSettles'
  BY <1>1, <1>2, SettledSame DEF SettleInv, UpdateSettles, Quiet
<1>4. QED
  BY <1>2, <1>3

LEMMA SettleStarts == RegressionInit => SettleInv
<1>1. SUFFICES ASSUME RegressionInit PROVE SettleInv
  OBVIOUS
<1>2. /\ KeepInv /\ Idle /\ settled = Nowhere /\ last = "none" /\ out = <<>> /\ noise = MaxNoise
  BY <1>1, KeepStarts DEF RegressionInit, ReplayInit, NoServer, Idle
<1>3. QuietInv
  <2>1. <<>> \in Seq(Answers) /\ MaxNoise \in 0..MaxNoise
    BY NoiseAssumption
  <2>2. QED
    BY <1>2, <2>1 DEF QuietInv
<1>4. QED
  BY <1>2, <1>3 DEF SettleInv, ToldInv, SettledInv, UpdateSettles

LEMMA SettleStep == SettleInv /\ [RegressionNext]_regressionVars => SettleInv'
<1>1. SUFFICES ASSUME SettleInv, [RegressionNext]_regressionVars PROVE SettleInv'
  OBVIOUS
<1>2. KeepInv'
  BY <1>1, KeepStep DEF SettleInv
<1>3. SUFFICES QuietInv' /\ ToldInv' /\ SettledInv' /\ UpdateSettles'
  BY <1>2 DEF SettleInv
<1>4. CASE Snapshot \/ ServerChanges \/ SessionsRemoved
  BY <1>1, <1>4, SettleIdle
<1>5. CASE Verify \/ Update \/ Check \/ ReplayStrict
  BY <1>1, <1>5, SettleStart
<1>6. CASE RunStep \/ ServerStep
  BY <1>1, <1>6, SettleRun
<1>7. CASE Judged
  BY <1>1, <1>7, SettleVerify, SettleUpdate, SettleCheck DEF Judged
<1>8. CASE UNCHANGED regressionVars
  <2>1. UNCHANGED <<serverVars, replayVars, worldVars, filesVars, version, commandVars>>
    BY <1>8 DEF regressionVars
  <2>2. UNCHANGED <<noise, out, todo, wanted, taken, nested, volatile, golden, settled, version, ran,
                    source, cmd, last, complete, exit>>
    BY <2>1 DEF serverVars, replayVars, worldVars, filesVars, commandVars
  <2>3. QuietInv' /\ UpdateSettles'
    BY <1>1, <2>2, SameAnswers DEF SettleInv, QuietInv, UpdateSettles, Quiet, Idle
  <2>4. ToldInv' /\ SettledInv'
    BY <1>1, <2>2, SettledSame, SameTold DEF SettleInv, ToldInv, Quiet, Idle
  <2>5. QED
    BY <2>3, <2>4
<1>9. QED
  BY <1>1, <1>4, <1>5, <1>6, <1>7, <1>8 DEF RegressionNext

\* After verify --update, or a verify that passed, a verify of the same source
\* against the same server passes, whatever the session is like and however
\* often the two are run, as long as the server writes nothing but its answers
\* and nothing is cut short (cli.py, _run_verify_impl).
THEOREM SettlesCorrect == RegressionSpec => []UpdateSettles
<1>1. SettleInv => UpdateSettles
  BY DEF SettleInv
<1>2. QED
  BY SettleStarts, SettleStep, <1>1, PTL DEF RegressionSpec

(* ----------------- what a longer transcript numbers -------------------- *)

\* The place of a value is where it is and was not before.
LEMMA FirstUnique ==
  ASSUME NEW walk \in Seq(Nat), NEW v, NEW m \in 1..Len(walk), walk[m] = v,
         \A j \in 1..(m - 1) : walk[j] # v
  PROVE  FirstAt(walk, v) = m
<1>1. v \in Elems(walk) /\ v \in Nat
  BY DEF Elems
<1>2. PICK n : n = FirstAt(walk, v)
  OBVIOUS
<1>3. n \in 1..Len(walk) /\ walk[n] = v /\ \A j \in 1..(n - 1) : walk[j] # v
  BY <1>1, <1>2, FirstIs
<1>4. Len(walk) \in Nat
  OBVIOUS
<1>5. m < n => m \in 1..(n - 1)
  BY <1>3, <1>4
<1>6. n < m => n \in 1..(m - 1)
  BY <1>3, <1>4
<1>7. ~(m < n) /\ ~(n < m)
  BY <1>3, <1>5, <1>6
<1>8. QED
  BY <1>2, <1>3, <1>4, <1>7

\* The number of a value is that of the values up to it.
LEMMA NumberAt ==
  ASSUME NEW walk \in Seq(Nat), NEW m \in 1..Len(walk), NEW v, walk[m] = v,
         \A j \in 1..(m - 1) : walk[j] # v
  PROVE  Number(walk, v) = Normal(Cardinality({walk[i] : i \in 1..m}))
<1>1. FirstAt(walk, v) = m
  BY FirstUnique
<1>2. Number(walk, v) = Normal(Cardinality({walk[i] : i \in 1..FirstAt(walk, v)}))
  BY DEF Number, FirstAt
<1>3. QED
  BY <1>1, <1>2

FirstIn(walk, m, v, seen) ==
  /\ walk \in Seq(Nat) /\ m \in 1..Len(walk) /\ walk[m] = v
  /\ \A j \in 1..(m - 1) : walk[j] # v
  /\ {walk[i] : i \in 1..m} = seen
LEMMA SameNumber ==
  ASSUME NEW s, NEW m, NEW t, NEW n, NEW v, NEW seen, FirstIn(s, m, v, seen), FirstIn(t, n, v, seen)
  PROVE  Number(s, v) = Number(t, v)
<1>1. Number(s, v) = Normal(Cardinality({s[i] : i \in 1..m}))
  BY NumberAt DEF FirstIn
<1>2. Number(t, v) = Normal(Cardinality({t[i] : i \in 1..n}))
  BY NumberAt DEF FirstIn
<1>3. QED
  BY <1>1, <1>2 DEF FirstIn

\* The ids of the sessions that are plain, and those of their replays.
LEMMA PlainNumbers ==
  /\ \A v \in {1, 2, 5} : Number(<<1, 1, 5, 2, 2, 5>>, v) = Number(<<1, 5, 2, 5>>, v)
  /\ \A v \in {1, 2} : /\ Number(<<1, 1, 2, 2>>, v) = Number(<<1, 2>>, v)
                       /\ Number(<<1, 2, 1, 2>>, v) = Number(<<1, 2>>, v)
<1> DEFINE s == <<1, 1, 5, 2, 2, 5>>
           t == <<1, 5, 2, 5>>
           p == <<1, 1, 2, 2>>
           q == <<1, 2, 1, 2>>
           r == <<1, 2>>
<1>1. /\ s \in Seq(Nat) /\ Len(s) = 6 /\ s[1] = 1 /\ s[2] = 1 /\ s[3] = 5 /\ s[4] = 2
      /\ t \in Seq(Nat) /\ Len(t) = 4 /\ t[1] = 1 /\ t[2] = 5 /\ t[3] = 2
      /\ p \in Seq(Nat) /\ Len(p) = 4 /\ p[1] = 1 /\ p[2] = 1 /\ p[3] = 2
      /\ q \in Seq(Nat) /\ Len(q) = 4 /\ q[1] = 1 /\ q[2] = 2
      /\ r \in Seq(Nat) /\ Len(r) = 2 /\ r[1] = 1 /\ r[2] = 2
  OBVIOUS
<1> HIDE DEF s, t, p, q, r
<1>2. /\ 1..1 = {1} /\ 1..2 = {1, 2} /\ 1..3 = {1, 2, 3} /\ 1..4 = {1, 2, 3, 4}
      /\ 1..(1 - 1) = {} /\ 1..(2 - 1) = {1} /\ 1..(3 - 1) = {1, 2} /\ 1..(4 - 1) = {1, 2, 3}
  OBVIOUS
<1>3. /\ FirstIn(s, 1, 1, {1}) /\ FirstIn(t, 1, 1, {1}) /\ FirstIn(p, 1, 1, {1})
      /\ FirstIn(q, 1, 1, {1}) /\ FirstIn(r, 1, 1, {1})
  BY <1>1, <1>2 DEF FirstIn
<1>4. FirstIn(s, 3, 5, {1, 5}) /\ FirstIn(t, 2, 5, {1, 5})
  BY <1>1, <1>2 DEF FirstIn
<1>5. FirstIn(s, 4, 2, {1, 2, 5}) /\ FirstIn(t, 3, 2, {1, 2, 5})
  BY <1>1, <1>2 DEF FirstIn
<1>6. FirstIn(p, 3, 2, {1, 2}) /\ FirstIn(q, 2, 2, {1, 2}) /\ FirstIn(r, 2, 2, {1, 2})
  BY <1>1, <1>2 DEF FirstIn
<1>7. /\ Number(s, 1) = Number(t, 1) /\ Number(p, 1) = Number(r, 1) /\ Number(q, 1) = Number(r, 1)
      /\ Number(s, 5) = Number(t, 5) /\ Number(s, 2) = Number(t, 2)
      /\ Number(p, 2) = Number(r, 2) /\ Number(q, 2) = Number(r, 2)
  BY <1>3, <1>4, <1>5, <1>6, SameNumber
<1>8. QED
  BY <1>7 DEF s, t, p, q, r

(* ------------------ messages that are written down --------------------- *)

LeafValues(leaves, kind) ==
  FlattenSeq([i \in DOMAIN leaves |-> IF leaves[i].kind = kind THEN <<leaves[i].v>> ELSE <<>>])

LEMMA LeavesAppend ==
  ASSUME NEW s \in Seq(LeafType), NEW x \in LeafType, NEW kind
  PROVE  /\ LeafValues(<<>>, kind) = <<>> /\ LeafValues(s, kind) \in Seq(Nat)
         /\ x.kind = kind => LeafValues(Append(s, x), kind) = Append(LeafValues(s, kind), x.v)
         /\ x.kind # kind => LeafValues(Append(s, x), kind) = LeafValues(s, kind)
<1> DEFINE part(y) == IF y.kind = kind THEN <<y.v>> ELSE <<>>
           p == [i \in DOMAIN s |-> part(s[i])]
<1>1. ASSUME NEW y \in LeafType
      PROVE  part(y) \in Seq(Nat)
  BY DEF LeafType
<1>2. p \in Seq(Seq(Nat)) /\ part(x) \in Seq(Nat)
  <2>1. \A i \in DOMAIN s : s[i] \in LeafType
    OBVIOUS
  <2> HIDE DEF part
  <2>2. \A i \in DOMAIN s : part(s[i]) \in Seq(Nat)
    BY <1>1, <2>1
  <2>3. DOMAIN s = 1..Len(s) /\ Len(s) \in Nat
    OBVIOUS
  <2>4. QED
    BY <1>1, <2>2, <2>3
<1>3. PICK t : t = Append(s, x)
  OBVIOUS
<1>4. /\ DOMAIN t = 1..(Len(s) + 1) /\ DOMAIN s = 1..Len(s) /\ Len(s) \in Nat
      /\ t[Len(s) + 1] = x /\ \A i \in 1..Len(s) : t[i] = s[i]
  BY <1>3
<1>5. LeafValues(t, kind) = FlattenSeq(Append(p, part(x))) /\ LeafValues(s, kind) = FlattenSeq(p)
  <2>1. /\ LeafValues(t, kind) = FlattenSeq([i \in DOMAIN t |-> part(t[i])])
        /\ LeafValues(s, kind) = FlattenSeq(p)
    BY DEF LeafValues
  <2> HIDE DEF part
  <2>2. Append(p, part(x)) = [i \in 1..(Len(s) + 1) |-> IF i = Len(s) + 1 THEN part(x) ELSE p[i]]
    BY <1>2, <1>4
  <2>3. \A i \in 1..(Len(s) + 1) : part(t[i]) = IF i = Len(s) + 1 THEN part(x) ELSE p[i]
    BY <1>4
  <2>4. QED
    BY <1>4, <2>1, <2>2, <2>3
<1>6. LeafValues(<<>>, kind) = <<>>
  <2>1. [i \in DOMAIN <<>> |-> part(<<>>[i])] = <<>>
    OBVIOUS
  <2>2. FlattenSeq(<<>>) = <<>>
    BY DEF FlattenSeq
  <2>3. QED
    BY <2>1, <2>2 DEF LeafValues
<1>7. FlattenSeq(Append(p, part(x))) = FlattenSeq(p) \o part(x) /\ FlattenSeq(p) \in Seq(Nat)
  <2> HIDE DEF part, p
  <2>1. QED
    BY <1>2, FlattenAppend
<1>8. CASE x.kind = kind
  <2>1. FlattenSeq(p) \o <<x.v>> = Append(FlattenSeq(p), x.v)
    BY <1>7, <1>8 DEF LeafType
  <2>2. QED
    BY <1>3, <1>5, <1>6, <1>7, <1>8, <2>1
<1>9. CASE x.kind # kind
  <2>1. FlattenSeq(p) \o <<>> = FlattenSeq(p)
    BY <1>7
  <2>2. QED
    BY <1>3, <1>5, <1>6, <1>7, <1>9, <2>1
<1>10. QED
  BY <1>8, <1>9

LEMMA WalkAppend ==
  ASSUME NEW s \in Seq(MessageType), NEW m \in MessageType, NEW kind
  PROVE  /\ Values(m, kind) \in Seq(Nat) /\ Walk(s, kind) \in Seq(Nat) /\ Walk(<<>>, kind) = <<>>
         /\ Walk(Append(s, m), kind) = Walk(s, kind) \o Values(m, kind)
<1> DEFINE p == [i \in DOMAIN s |-> Values(s[i], kind)]
<1>1. p \in Seq(Seq(Nat)) /\ Values(m, kind) \in Seq(Nat)
  <2>1. \A i \in DOMAIN s : s[i] \in MessageType
    OBVIOUS
  <2>2. \A i \in DOMAIN s : Values(s[i], kind) \in Seq(Nat)
    BY <2>1, ValuesIs
  <2>3. DOMAIN s = 1..Len(s) /\ Len(s) \in Nat
    OBVIOUS
  <2>4. QED
    BY <2>2, <2>3, ValuesIs
<1>2. PICK t : t = Append(s, m)
  OBVIOUS
<1>3. /\ DOMAIN t = 1..(Len(s) + 1) /\ DOMAIN s = 1..Len(s) /\ Len(s) \in Nat
      /\ t[Len(s) + 1] = m /\ \A i \in 1..Len(s) : t[i] = s[i]
  BY <1>2
<1>4. [i \in DOMAIN t |-> Values(t[i], kind)] = Append(p, Values(m, kind))
  <2>1. Append(p, Values(m, kind))
          = [i \in 1..(Len(s) + 1) |-> IF i = Len(s) + 1 THEN Values(m, kind) ELSE p[i]]
    BY <1>1, <1>3
  <2>2. \A i \in 1..(Len(s) + 1) :
          Values(t[i], kind) = IF i = Len(s) + 1 THEN Values(m, kind) ELSE p[i]
    BY <1>3
  <2>3. QED
    BY <1>3, <2>1, <2>2
<1>5. Walk(t, kind) = FlattenSeq(Append(p, Values(m, kind))) /\ Walk(s, kind) = FlattenSeq(p)
  BY <1>4 DEF Walk
<1>6. Walk(<<>>, kind) = <<>>
  <2>1. [i \in DOMAIN <<>> |-> Values(<<>>[i], kind)] = <<>>
    OBVIOUS
  <2>2. FlattenSeq(<<>>) = <<>>
    BY DEF FlattenSeq
  <2>3. QED
    BY <2>1, <2>2 DEF Walk
<1> HIDE DEF p
<1>7. QED
  BY <1>1, <1>2, <1>5, <1>6, WalkIs, FlattenAppend

LEMMA SentAppend ==
  ASSUME NEW s \in Seq(MessageType), NEW m \in MessageType, NEW dir
  PROVE  /\ Sent(<<>>, dir) = <<>> /\ Sent(s, dir) \in Seq(MessageType)
         /\ Sent(Append(s, m), dir) = IF m.dir = dir THEN Append(Sent(s, dir), m) ELSE Sent(s, dir)
<1> DEFINE part(x) == IF x.dir = dir THEN <<x>> ELSE <<>>
           p == [i \in DOMAIN s |-> part(s[i])]
<1>1. ASSUME NEW x \in MessageType
      PROVE  part(x) \in Seq(MessageType)
  OBVIOUS
<1>2. p \in Seq(Seq(MessageType)) /\ part(m) \in Seq(MessageType)
  <2>1. \A i \in DOMAIN s : s[i] \in MessageType
    OBVIOUS
  <2>2. \A i \in DOMAIN s : part(s[i]) \in Seq(MessageType)
    BY <1>1, <2>1
  <2>3. DOMAIN s = 1..Len(s) /\ Len(s) \in Nat
    OBVIOUS
  <2> HIDE DEF part
  <2>4. QED
    BY <1>1, <2>2, <2>3
<1>3. PICK t : t = Append(s, m)
  OBVIOUS
<1>4. /\ DOMAIN t = 1..(Len(s) + 1) /\ DOMAIN s = 1..Len(s) /\ Len(s) \in Nat
      /\ t[Len(s) + 1] = m /\ \A i \in 1..Len(s) : t[i] = s[i]
  BY <1>3
<1>5. Sent(t, dir) = FlattenSeq(Append(p, part(m))) /\ Sent(s, dir) = FlattenSeq(p)
  <2>1. /\ Sent(t, dir) = FlattenSeq([i \in DOMAIN t |-> part(t[i])])
        /\ Sent(s, dir) = FlattenSeq(p)
    BY DEF Sent
  <2> HIDE DEF part
  <2>2. Append(p, part(m)) = [i \in 1..(Len(s) + 1) |-> IF i = Len(s) + 1 THEN part(m) ELSE p[i]]
    BY <1>2, <1>4
  <2>3. \A i \in 1..(Len(s) + 1) : part(t[i]) = IF i = Len(s) + 1 THEN part(m) ELSE p[i]
    BY <1>4
  <2>4. QED
    BY <1>4, <2>1, <2>2, <2>3
<1>6. Sent(<<>>, dir) = <<>>
  <2>1. [i \in DOMAIN <<>> |-> part(<<>>[i])] = <<>>
    OBVIOUS
  <2>2. FlattenSeq(<<>>) = <<>>
    BY DEF FlattenSeq
  <2>3. QED
    BY <2>1, <2>2 DEF Sent
<1> HIDE DEF p
<1>7. FlattenSeq(Append(p, part(m))) = FlattenSeq(p) \o part(m) /\ FlattenSeq(p) \in Seq(MessageType)
  <2> HIDE DEF part
  <2>1. QED
    BY <1>2, FlattenAppend
<1>8. CASE m.dir = dir
  <2>1. FlattenSeq(p) \o <<m>> = Append(FlattenSeq(p), m)
    BY <1>7
  <2>2. QED
    BY <1>3, <1>5, <1>6, <1>7, <1>8, <2>1
<1>9. CASE m.dir # dir
  <2>1. FlattenSeq(p) \o <<>> = FlattenSeq(p)
    BY <1>7
  <2>2. QED
    BY <1>3, <1>5, <1>6, <1>7, <1>9, <2>1
<1>10. QED
  BY <1>8, <1>9

(* ------------------ the walks over a plain session --------------------- *)

LEMMA Join11 ==
  ASSUME NEW L, NEW a \in L, NEW b \in L
  PROVE  <<a>> \o <<b>> = <<a, b>>
<1>1. PICK s, t, u : s = <<a>> /\ t = <<b>> /\ u = <<a, b>>
  OBVIOUS
<1>2. s \in Seq(L) /\ t \in Seq(L) /\ u \in Seq(L)
  BY <1>1
<1>3. /\ Len(s) = 1 /\ Len(t) = 1 /\ Len(u) = 2 /\ 1 + 1 = 2
      /\ 1..1 = {1} /\ 1..1 = {1}
  BY <1>1
<1>4. u[1] = s[1] /\ u[2] = t[1]
  BY <1>1
<1>5. Joined(s, t, u)
  BY <1>3, <1>4 DEF Joined
<1>6. QED
  BY <1>1, <1>2, <1>5, ConcatAre

LEMMA Join21 ==
  ASSUME NEW L, NEW a \in L, NEW b \in L, NEW c \in L
  PROVE  <<a, b>> \o <<c>> = <<a, b, c>>
<1>1. PICK s, t, u : s = <<a, b>> /\ t = <<c>> /\ u = <<a, b, c>>
  OBVIOUS
<1>2. s \in Seq(L) /\ t \in Seq(L) /\ u \in Seq(L)
  BY <1>1
<1>3. /\ Len(s) = 2 /\ Len(t) = 1 /\ Len(u) = 3 /\ 2 + 1 = 3
      /\ 1..2 = {1, 2} /\ 1..1 = {1}
  BY <1>1
<1>4. u[1] = s[1] /\ u[2] = s[2] /\ u[3] = t[1]
  BY <1>1
<1>5. Joined(s, t, u)
  BY <1>3, <1>4 DEF Joined
<1>6. QED
  BY <1>1, <1>2, <1>5, ConcatAre

LEMMA Join31 ==
  ASSUME NEW L, NEW a \in L, NEW b \in L, NEW c \in L, NEW d \in L
  PROVE  <<a, b, c>> \o <<d>> = <<a, b, c, d>>
<1>1. PICK s, t, u : s = <<a, b, c>> /\ t = <<d>> /\ u = <<a, b, c, d>>
  OBVIOUS
<1>2. s \in Seq(L) /\ t \in Seq(L) /\ u \in Seq(L)
  BY <1>1
<1>3. /\ Len(s) = 3 /\ Len(t) = 1 /\ Len(u) = 4 /\ 3 + 1 = 4
      /\ 1..3 = {1, 2, 3} /\ 1..1 = {1}
  BY <1>1
<1>4. u[1] = s[1] /\ u[2] = s[2] /\ u[3] = s[3] /\ u[4] = t[1]
  BY <1>1
<1>5. Joined(s, t, u)
  BY <1>3, <1>4 DEF Joined
<1>6. QED
  BY <1>1, <1>2, <1>5, ConcatAre

LEMMA Join12 ==
  ASSUME NEW L, NEW a \in L, NEW b \in L, NEW c \in L
  PROVE  <<a>> \o <<b, c>> = <<a, b, c>>
<1>1. PICK s, t, u : s = <<a>> /\ t = <<b, c>> /\ u = <<a, b, c>>
  OBVIOUS
<1>2. s \in Seq(L) /\ t \in Seq(L) /\ u \in Seq(L)
  BY <1>1
<1>3. /\ Len(s) = 1 /\ Len(t) = 2 /\ Len(u) = 3 /\ 1 + 1 = 2 /\ 1 + 2 = 3
      /\ 1..1 = {1} /\ 1..2 = {1, 2}
  BY <1>1
<1>4. u[1] = s[1] /\ u[2] = t[1] /\ u[3] = t[2]
  BY <1>1
<1>5. Joined(s, t, u)
  BY <1>3, <1>4 DEF Joined
<1>6. QED
  BY <1>1, <1>2, <1>5, ConcatAre

LEMMA Join22 ==
  ASSUME NEW L, NEW a \in L, NEW b \in L, NEW c \in L, NEW d \in L
  PROVE  <<a, b>> \o <<c, d>> = <<a, b, c, d>>
<1>1. PICK s, t, u : s = <<a, b>> /\ t = <<c, d>> /\ u = <<a, b, c, d>>
  OBVIOUS
<1>2. s \in Seq(L) /\ t \in Seq(L) /\ u \in Seq(L)
  BY <1>1
<1>3. /\ Len(s) = 2 /\ Len(t) = 2 /\ Len(u) = 4 /\ 2 + 1 = 3 /\ 2 + 2 = 4
      /\ 1..2 = {1, 2} /\ 1..2 = {1, 2}
  BY <1>1
<1>4. u[1] = s[1] /\ u[2] = s[2] /\ u[3] = t[1] /\ u[4] = t[2]
  BY <1>1
<1>5. Joined(s, t, u)
  BY <1>3, <1>4 DEF Joined
<1>6. QED
  BY <1>1, <1>2, <1>5, ConcatAre

LEMMA Join42 ==
  ASSUME NEW L, NEW a \in L, NEW b \in L, NEW c \in L
  PROVE  <<a, a, b, c>> \o <<c, b>> = <<a, a, b, c, c, b>>
<1>1. PICK s, t, u : s = <<a, a, b, c>> /\ t = <<c, b>> /\ u = <<a, a, b, c, c, b>>
  OBVIOUS
<1>2. s \in Seq(L) /\ t \in Seq(L) /\ u \in Seq(L)
  BY <1>1
<1>3. /\ Len(s) = 4 /\ Len(t) = 2 /\ Len(u) = 6 /\ 4 + 1 = 5 /\ 4 + 2 = 6
      /\ 1..4 = {1, 2, 3, 4} /\ 1..2 = {1, 2}
  BY <1>1
<1>4. u[1] = s[1] /\ u[2] = s[2] /\ u[3] = s[3] /\ u[4] = s[4] /\ u[5] = t[1] /\ u[6] = t[2]
  BY <1>1
<1>5. Joined(s, t, u)
  BY <1>3, <1>4 DEF Joined
<1>6. QED
  BY <1>1, <1>2, <1>5, ConcatAre

LEMMA NumberTuples ==
  /\ <<1>> \o <<1>> = <<1, 1>> /\ <<1, 1>> \o <<2>> = <<1, 1, 2>>
  /\ <<1, 1, 2>> \o <<2>> = <<1, 1, 2, 2>>
  /\ <<1>> \o <<2>> = <<1, 2>> /\ <<1, 2>> \o <<1>> = <<1, 2, 1>>
  /\ <<1, 2, 1>> \o <<2>> = <<1, 2, 1, 2>>
  /\ <<1>> \o <<1, 5>> = <<1, 1, 5>> /\ <<1, 1, 5>> \o <<2>> = <<1, 1, 5, 2>>
  /\ <<1, 1, 5, 2>> \o <<2, 5>> = <<1, 1, 5, 2, 2, 5>> /\ <<1, 5>> \o <<2, 5>> = <<1, 5, 2, 5>>
<1>1. PICK o \in Nat, t \in Nat, f \in Nat : o = 1 /\ t = 2 /\ f = 5
  OBVIOUS
<1>2. <<o>> \o <<o>> = <<o, o>> /\ <<o>> \o <<t>> = <<o, t>>
  BY Join11, Zenon
<1>3. <<o, o>> \o <<t>> = <<o, o, t>> /\ <<o, t>> \o <<o>> = <<o, t, o>>
  BY Join21, Zenon
<1>4. <<o, o, t>> \o <<t>> = <<o, o, t, t>> /\ <<o, t, o>> \o <<t>> = <<o, t, o, t>>
  BY Join31, Zenon
<1>5. <<o, o, f>> \o <<t>> = <<o, o, f, t>>
  BY Join31, Zenon
<1>6. <<o>> \o <<o, f>> = <<o, o, f>>
  BY Join12, Zenon
<1>7. <<o, f>> \o <<t, f>> = <<o, f, t, f>>
  BY Join22, Zenon
<1>8. <<o, o, f, t>> \o <<t, f>> = <<o, o, f, t, t, f>>
  BY Join42, Zenon
<1>9. QED
  BY <1>1, <1>2, <1>3, <1>4, <1>5, <1>6, <1>7, <1>8, Zenon

LEMMA AnswerAre ==
  ASSUME nested \in BOOLEAN, volatile \in BOOLEAN, NEW v, NEW r, NEW n,
         NEW a, NEW b, NEW c, NEW d,
         a = Leaf("text", v), b = Leaf("id", 5), c = Leaf("stamp", r), d = Leaf("uuid", 10 * r + n)
  PROVE  \/ nested /\ volatile /\ Answer(v, r, n) = <<a, b, c, d>>
         \/ nested /\ ~volatile /\ Answer(v, r, n) = <<a, b>>
         \/ ~nested /\ volatile /\ Answer(v, r, n) = <<a, c, d>>
         \/ ~nested /\ ~volatile /\ Answer(v, r, n) = <<a>>
<1>1. Answer(v, r, n) = <<a>> \o (IF nested THEN <<b>> ELSE <<>>)
                              \o (IF volatile THEN <<c, d>> ELSE <<>>)
  BY DEF Answer
<1>2. /\ <<a>> \o <<>> = <<a>> /\ <<a>> \o <<b>> = <<a, b>>
      /\ <<a>> \o <<c, d>> = <<a, c, d>> /\ <<a, b>> \o <<>> = <<a, b>>
      /\ <<a, b>> \o <<c, d>> = <<a, b, c, d>>
  <2>1. PICK L : L = {a, b, c, d}
    OBVIOUS
  <2>2. a \in L /\ b \in L /\ c \in L /\ d \in L
    BY <2>1
  <2>3. QED
    BY <2>2, Puts
<1>3. CASE nested /\ volatile
  <2>1. Answer(v, r, n) = <<a>> \o <<b>> \o <<c, d>>
    BY <1>1, <1>3, Zenon
  <2>2. QED
    BY <1>2, <1>3, <2>1, Zenon
<1>4. CASE nested /\ ~volatile
  <2>1. Answer(v, r, n) = <<a>> \o <<b>> \o <<>>
    BY <1>1, <1>4, Zenon
  <2>2. QED
    BY <1>2, <1>4, <2>1, Zenon
<1>5. CASE ~nested /\ volatile
  <2>1. Answer(v, r, n) = <<a>> \o <<>> \o <<c, d>>
    BY <1>1, <1>5, Zenon
  <2>2. QED
    BY <1>2, <1>5, <2>1, Zenon
<1>6. CASE ~nested /\ ~volatile
  <2>1. Answer(v, r, n) = <<a>> \o <<>> \o <<>>
    BY <1>1, <1>6, Zenon
  <2>2. QED
    BY <1>2, <1>6, <2>1, Zenon
<1>7. QED
  BY <1>3, <1>4, <1>5, <1>6

LEMMA RecordedValues ==
  ASSUME nested \in BOOLEAN, volatile \in BOOLEAN, NEW n \in Ids
  PROVE  /\ Values(Recorded(n), "id") = IF nested THEN <<n, 5>> ELSE <<n>>
         /\ Values(Recorded(n), "uuid") = IF volatile THEN <<n>> ELSE <<>>
<1>1. PICK a, b, c, d :
        /\ a = Leaf("text", 1) /\ b = Leaf("id", 5) /\ c = Leaf("stamp", 0) /\ d = Leaf("uuid", n)
  OBVIOUS
<1>2. /\ a \in LeafType /\ b \in LeafType /\ c \in LeafType /\ d \in LeafType
      /\ a.kind = "text" /\ b.kind = "id" /\ b.v = 5 /\ c.kind = "stamp" /\ d.kind = "uuid" /\ d.v = n
      /\ n \in Nat /\ n # 0
  BY <1>1 DEF Leaf, LeafType, Ids
<1>3. PICK z, p, q, r, s, t, u :
        z = <<>> /\ p = <<a>> /\ q = <<a, b>> /\ r = <<a, c>> /\ s = <<a, c, d>> /\ t = <<a, b, c>>
          /\ u = <<a, b, c, d>>
  OBVIOUS
<1>s. /\ z \in Seq(LeafType) /\ p \in Seq(LeafType) /\ q \in Seq(LeafType) /\ r \in Seq(LeafType)
      /\ t \in Seq(LeafType)
      /\ p = Append(z, a) /\ q = Append(p, b) /\ r = Append(p, c)
      /\ s = Append(r, d) /\ t = Append(q, c) /\ u = Append(t, d)
  BY <1>2, <1>3
<1>4. Append(<<>>, 5) = <<5>> /\ Append(<<>>, n) = <<n>>
  OBVIOUS
<1>5. ASSUME NEW kind
      PROVE  /\ LeafValues(z, kind) = <<>>
             /\ \A x \in LeafType, l \in Seq(LeafType) :
                  /\ x.kind = kind => LeafValues(Append(l, x), kind) = Append(LeafValues(l, kind), x.v)
                  /\ x.kind # kind => LeafValues(Append(l, x), kind) = LeafValues(l, kind)
  <2>1. LeafValues(<<>>, kind) = <<>>
    BY <1>2, <1>s, LeavesAppend
  <2>2. QED
    BY <1>3, <2>1, LeavesAppend
<1>i. /\ LeafValues(p, "id") = <<>> /\ LeafValues(q, "id") = <<5>>
      /\ LeafValues(s, "id") = <<>> /\ LeafValues(u, "id") = <<5>>
  <2>1. LeafValues(p, "id") = <<>>
    BY <1>2, <1>s, <1>5
  <2>2. LeafValues(q, "id") = <<5>> /\ LeafValues(r, "id") = <<>>
    <3>1. /\ LeafValues(q, "id") = Append(LeafValues(p, "id"), b.v)
          /\ LeafValues(r, "id") = LeafValues(p, "id")
      BY <1>2, <1>s, <1>5
    <3>2. QED
      BY <1>2, <1>4, <2>1, <3>1, Zenon
  <2>3. LeafValues(s, "id") = <<>> /\ LeafValues(t, "id") = <<5>>
    BY <1>2, <1>s, <1>5, <2>2
  <2>4. LeafValues(u, "id") = <<5>>
    BY <1>2, <1>s, <1>5, <2>3
  <2>5. QED
    BY <2>1, <2>2, <2>3, <2>4
<1>6. /\ LeafValues(p, "uuid") = <<>> /\ LeafValues(q, "uuid") = <<>>
      /\ LeafValues(s, "uuid") = <<n>> /\ LeafValues(u, "uuid") = <<n>>
  <2>1. LeafValues(p, "uuid") = <<>>
    BY <1>2, <1>s, <1>5
  <2>2. LeafValues(q, "uuid") = <<>> /\ LeafValues(r, "uuid") = <<>>
    BY <1>2, <1>s, <1>5, <2>1
  <2>3. LeafValues(s, "uuid") = <<n>> /\ LeafValues(t, "uuid") = <<>>
    <3>1. LeafValues(s, "uuid") = Append(LeafValues(r, "uuid"), d.v)
          /\ LeafValues(t, "uuid") = LeafValues(q, "uuid")
      BY <1>2, <1>s, <1>5
    <3>2. QED
      BY <1>2, <1>4, <2>2, <3>1, Zenon
  <2>4. LeafValues(u, "uuid") = <<n>>
    <3>1. LeafValues(u, "uuid") = Append(LeafValues(t, "uuid"), d.v)
      BY <1>2, <1>s, <1>5
    <3>2. QED
      BY <1>2, <1>4, <2>3, <3>1, Zenon
  <2>5. QED
    BY <2>1, <2>2, <2>3, <2>4
<1>7. /\ Values(Recorded(n), "id") = <<n>> \o LeafValues(Answer(1, 0, n), "id")
      /\ Values(Recorded(n), "uuid") = <<>> \o LeafValues(Answer(1, 0, n), "uuid")
  BY <1>2 DEF Values, LeafValues, Recorded
<1>8. \/ nested /\ volatile /\ Answer(1, 0, n) = u
      \/ nested /\ ~volatile /\ Answer(1, 0, n) = q
      \/ ~nested /\ volatile /\ Answer(1, 0, n) = s
      \/ ~nested /\ ~volatile /\ Answer(1, 0, n) = p
  <2>1. 10 * 0 + n = n
    BY <1>2
  <2>2. d = Leaf("uuid", 10 * 0 + n)
    BY <1>1, <2>1
  <2>3. \/ nested /\ volatile /\ Answer(1, 0, n) = <<a, b, c, d>>
        \/ nested /\ ~volatile /\ Answer(1, 0, n) = <<a, b>>
        \/ ~nested /\ volatile /\ Answer(1, 0, n) = <<a, c, d>>
        \/ ~nested /\ ~volatile /\ Answer(1, 0, n) = <<a>>
    BY <1>1, <2>2, AnswerAre
  <2>4. QED
    BY <1>3, <2>3
<1>9. /\ <<n>> \o <<5>> = <<n, 5>> /\ <<n>> \o <<>> = <<n>>
      /\ <<>> \o <<n>> = <<n>> /\ <<>> \o <<>> = <<>>
  <2>1. <<n>> \in Seq(Nat) /\ <<>> \in Seq(Nat) /\ 5 \in Nat /\ n \in Nat
    BY <1>2
  <2>2. <<n>> \o <<5>> = <<n, 5>>
    BY <2>1, Join11, Zenon
  <2>3. \A l \in Seq(Nat) : l \o <<>> = l /\ <<>> \o l = l
    OBVIOUS
  <2>4. QED
    BY <2>1, <2>2, <2>3, Zenon
<1>10. QED
  BY <1>i, <1>6, <1>7, <1>8, <1>9, Zenon


Lockstep == <<Request(1, <<>>), Recorded(1), Client("note", NoId), Request(2, <<>>), Recorded(2)>>
Pipelined == <<Request(1, <<>>), Request(2, <<>>), Recorded(1), Recorded(2)>>
RecordedInv == session \in Recordings(<<>>) \cup Recordings(<<Leaf("id", 6)>>)

\* Where the placeholders of a recording and of its replay agree.
LEMMA PlainSessions ==
  ASSUME RecordedInv, Plain
  PROVE  session = Lockstep \/ (~nested /\ session = Pipelined)
<1>1. /\ \A i \in DOMAIN session : ~(session[i].dir = "s2c" /\ session[i].kind = "request")
      /\ \A i \in DOMAIN session : (session[i].dir = "c2s" /\ session[i].kind = "request") =>
           \E j \in DOMAIN session : /\ session[j].dir = "s2c" /\ session[j].kind = "reply"
                                     /\ session[j].id = session[i].id
      /\ Head(session).leaves = <<>>
      /\ nested => ~(session[2].dir = "c2s" /\ session[2].kind = "request")
  BY DEF Plain
<1>2. \A i, j, k, l \in DOMAIN session :
        (/\ session[i].dir = "c2s" /\ session[i].kind = "request"
         /\ session[j].dir = "c2s" /\ session[j].kind = "request"
         /\ session[k].dir = "s2c" /\ session[k].kind = "reply" /\ session[k].id = session[i].id
         /\ session[l].dir = "s2c" /\ session[l].kind = "reply" /\ session[l].id = session[j].id
         /\ i < j) => k < l
  BY DEF Plain
<1>3. PICK leaves : session \in Recordings(leaves) /\ leaves \in {<<>>, <<Leaf("id", 6)>>}
  BY DEF RecordedInv
<1>4. PICK q1, q2, r1, r2, c, a, r :
        /\ q1 = Request(1, leaves) /\ q2 = Request(2, <<>>) /\ r1 = Recorded(1) /\ r2 = Recorded(2)
        /\ c = Client("note", NoId) /\ a = Client("answer", 2) /\ r = Asked(2)
  OBVIOUS
<1>5. /\ q1.dir = "c2s" /\ q1.kind = "request" /\ q1.id = 1 /\ q1.leaves = leaves
      /\ q2.dir = "c2s" /\ q2.kind = "request" /\ q2.id = 2
      /\ r1.dir = "s2c" /\ r1.kind = "reply" /\ r1.id = 1
      /\ r2.dir = "s2c" /\ r2.kind = "reply" /\ r2.id = 2
      /\ r.dir = "s2c" /\ r.kind = "request"
  BY <1>4 DEF Request, Recorded, Asked
<1>6. session \in {<<q1, r1, c, q2, r2>>, <<q1, q2, r1, r2>>, <<q1, q2, r2, r1>>,
                   <<q1, r1, q2>>, <<q1, r, r1, a>>}
  BY <1>3, <1>4 DEF Recordings
<1>7. Head(session) = q1
  BY <1>6
<1>8. leaves = <<>>
  BY <1>1, <1>5, <1>7
<1>9. session # <<q1, q2, r2, r1>>
  <2>1. SUFFICES ASSUME session = <<q1, q2, r2, r1>> PROVE FALSE
    OBVIOUS
  <2>2. /\ 1 \in DOMAIN session /\ 2 \in DOMAIN session /\ 3 \in DOMAIN session /\ 4 \in DOMAIN session
        /\ session[1] = q1 /\ session[2] = q2 /\ session[3] = r2 /\ session[4] = r1
    BY <2>1
  <2>3. 4 < 3
    BY <1>2, <1>5, <2>2
  <2>4. QED
    BY <2>3
<1>10. session # <<q1, r1, q2>>
  <2>1. SUFFICES ASSUME session = <<q1, r1, q2>> PROVE FALSE
    OBVIOUS
  <2>2. /\ DOMAIN session = {1, 2, 3}
        /\ session[1] = q1 /\ session[2] = r1 /\ session[3] = q2
    BY <2>1
  <2>3. PICK j \in DOMAIN session : session[j].dir = "s2c" /\ session[j].id = 2
    BY <1>1, <1>5, <2>2
  <2>4. QED
    BY <1>5, <2>2, <2>3
<1>11. session # <<q1, r, r1, a>>
  <2>1. SUFFICES ASSUME session = <<q1, r, r1, a>> PROVE FALSE
    OBVIOUS
  <2>2. 2 \in DOMAIN session /\ session[2] = r
    BY <2>1
  <2>3. QED
    BY <1>1, <1>5, <2>2
<1>12. session = <<q1, q2, r1, r2>> => ~nested
  <2>1. ASSUME session = <<q1, q2, r1, r2>> PROVE session[2] = q2
    BY <2>1
  <2>2. QED
    BY <1>1, <1>5, <2>1
<1>13. QED
  BY <1>4, <1>6, <1>8, <1>9, <1>10, <1>11, <1>12 DEF Lockstep, Pipelined

WalkedTwo(a, b, kind) ==
  Walk(<<a, b>>, kind) = Values(a, kind) \o Values(b, kind)
LEMMA WalkTwo ==
  ASSUME NEW a \in MessageType, NEW b \in MessageType, NEW kind
  PROVE  WalkedTwo(a, b, kind)
<1>1. PICK s, t : s = <<a>> /\ t = <<a, b>>
  OBVIOUS
<1>2. s \in Seq(MessageType) /\ t = Append(s, b)
  BY <1>1
<1>3. Walk(Append(s, b), kind) = Walk(s, kind) \o Values(b, kind)
  BY <1>2, WalkAppend
<1>4. Walk(<<a>>, kind) = Values(a, kind)
  <2>1. PICK z : z = <<>>
    OBVIOUS
  <2>2. z \in Seq(MessageType) /\ <<a>> = Append(z, a)
    BY <2>1
  <2>3. /\ Walk(Append(z, a), kind) = Walk(z, kind) \o Values(a, kind)
        /\ Walk(z, kind) = <<>> /\ Values(a, kind) \in Seq(Nat)
    BY <2>1, <2>2, WalkAppend
  <2>4. <<>> \o Values(a, kind) = Values(a, kind)
    BY <2>3
  <2>5. QED
    BY <2>2, <2>3, <2>4, Zenon
<1>5. QED
  BY <1>1, <1>2, <1>3, <1>4, Zenon DEF WalkedTwo

WalkedThree(a, b, c, kind) ==
  Walk(<<a, b, c>>, kind) = (Values(a, kind) \o Values(b, kind)) \o Values(c, kind)
LEMMA WalkThree ==
  ASSUME NEW a \in MessageType, NEW b \in MessageType, NEW c \in MessageType, NEW kind
  PROVE  WalkedThree(a, b, c, kind)
<1>1. PICK s, t : s = <<a, b>> /\ t = <<a, b, c>>
  OBVIOUS
<1>2. s \in Seq(MessageType) /\ t = Append(s, c)
  BY <1>1
<1>3. Walk(Append(s, c), kind) = Walk(s, kind) \o Values(c, kind)
  BY <1>2, WalkAppend
<1>4. Walk(<<a, b>>, kind) = Values(a, kind) \o Values(b, kind)
  BY WalkTwo DEF WalkedTwo
<1>5. QED
  BY <1>1, <1>2, <1>3, <1>4, Zenon DEF WalkedThree

WalkedFour(a, b, c, d, kind) ==
  Walk(<<a, b, c, d>>, kind)
    = ((Values(a, kind) \o Values(b, kind)) \o Values(c, kind)) \o Values(d, kind)
LEMMA WalkFour ==
  ASSUME NEW a \in MessageType, NEW b \in MessageType, NEW c \in MessageType, NEW d \in MessageType,
         NEW kind
  PROVE  WalkedFour(a, b, c, d, kind)
<1>1. PICK s, t : s = <<a, b, c>> /\ t = <<a, b, c, d>>
  OBVIOUS
<1>2. s \in Seq(MessageType) /\ t = Append(s, d)
  BY <1>1
<1>3. Walk(Append(s, d), kind) = Walk(s, kind) \o Values(d, kind)
  BY <1>2, WalkAppend
<1>4. Walk(<<a, b, c>>, kind) = (Values(a, kind) \o Values(b, kind)) \o Values(c, kind)
  <2>1. WalkedThree(a, b, c, kind)
    BY WalkThree
  <2>2. QED
    BY <2>1 DEF WalkedThree
<1>5. QED
  BY <1>1, <1>2, <1>3, <1>4, Zenon DEF WalkedFour

WalkedFive(a, b, c, d, e, kind) ==
  Walk(<<a, b, c, d, e>>, kind)
    = (((Values(a, kind) \o Values(b, kind)) \o Values(c, kind)) \o Values(d, kind)) \o Values(e, kind)
LEMMA WalkFive ==
  ASSUME NEW a \in MessageType, NEW b \in MessageType, NEW c \in MessageType, NEW d \in MessageType,
         NEW e \in MessageType, NEW kind
  PROVE  WalkedFive(a, b, c, d, e, kind)
<1>1. PICK s, t : s = <<a, b, c, d>> /\ t = <<a, b, c, d, e>>
  OBVIOUS
<1>2. s \in Seq(MessageType) /\ t = Append(s, e)
  BY <1>1
<1>3. Walk(Append(s, e), kind) = Walk(s, kind) \o Values(e, kind)
  BY <1>2, WalkAppend
<1>4. Walk(<<a, b, c, d>>, kind)
        = ((Values(a, kind) \o Values(b, kind)) \o Values(c, kind)) \o Values(d, kind)
  <2>1. WalkedFour(a, b, c, d, kind)
    BY WalkFour
  <2>2. QED
    BY <2>1 DEF WalkedFour
<1>5. QED
  BY <1>1, <1>2, <1>3, <1>4, Zenon DEF WalkedFive

LEMMA PlainMessages ==
  ASSUME nested \in BOOLEAN, volatile \in BOOLEAN
  PROVE  /\ Request(1, <<>>) \in MessageType /\ Request(2, <<>>) \in MessageType
         /\ Recorded(1) \in MessageType /\ Recorded(2) \in MessageType
         /\ Client("note", NoId) \in MessageType
<1>1. Answer(1, 0, 1) \in Seq(LeafType) /\ Answer(1, 0, 2) \in Seq(LeafType)
  BY AnswerIs
<1>2. <<>> \in Seq(LeafType)
  OBVIOUS
<1>3. QED
  BY <1>1, <1>2 DEF Request, Recorded, Client, NoId, MessageType

LEMMA PlainValues ==
  /\ Values(Request(1, <<>>), "id") = <<1>> /\ Values(Request(2, <<>>), "id") = <<2>>
  /\ Values(Client("note", NoId), "id") = <<>>
  /\ Values(Request(1, <<>>), "uuid") = <<>> /\ Values(Request(2, <<>>), "uuid") = <<>>
  /\ Values(Client("note", NoId), "uuid") = <<>>
<1>1. \A kind : LeafValues(<<>>, kind) = <<>>
  <2>1. <<>> \in Seq(LeafType) /\ Leaf("id", 5) \in LeafType
    BY DEF LeafType, Leaf
  <2>2. QED
    BY <2>1, LeavesAppend
<1>2. \A m, kind : Values(m, kind) = (IF kind = "id" /\ m.id # 0 THEN <<m.id>> ELSE <<>>)
                                        \o LeafValues(m.leaves, kind)
  BY DEF Values, LeafValues
<1>3. <<1>> \o <<>> = <<1>> /\ <<2>> \o <<>> = <<2>> /\ <<>> \o <<>> = <<>>
  OBVIOUS
<1>4. PICK p, q, c : p = Request(1, <<>>) /\ q = Request(2, <<>>) /\ c = Client("note", NoId)
  OBVIOUS
<1>i. /\ p.id = 1 /\ p.leaves = <<>> /\ q.id = 2 /\ q.leaves = <<>> /\ c.id = 0 /\ c.leaves = <<>>
  BY <1>4 DEF Request, Client, NoId
<1>5. /\ Values(p, "id") = <<1>> \o <<>> /\ Values(q, "id") = <<2>> \o <<>>
      /\ Values(c, "id") = <<>> \o <<>> /\ Values(p, "uuid") = <<>> \o <<>>
      /\ Values(q, "uuid") = <<>> \o <<>> /\ Values(c, "uuid") = <<>> \o <<>>
  <2>1. \A m : (m.leaves = <<>> /\ m.id # 0) => Values(m, "id") = <<m.id>> \o <<>>
    BY <1>1, <1>2
  <2>2. \A m : (m.leaves = <<>> /\ m.id = 0) => Values(m, "id") = <<>> \o <<>>
    BY <1>1, <1>2
  <2>3. \A m : m.leaves = <<>> => Values(m, "uuid") = <<>> \o <<>>
    BY <1>1, <1>2
  <2>4. Values(p, "id") = <<1>> \o <<>> /\ Values(q, "id") = <<2>> \o <<>>
    BY <1>i, <2>1
  <2>5. QED
    BY <1>i, <2>2, <2>3, <2>4
<1>6. QED
  BY <1>3, <1>4, <1>5, Zenon


\* What the normalizers see of a plain session and of its replay.
Replayed == <<Recorded(1), Recorded(2)>>
LEMMA PlainWalks ==
  ASSUME nested \in BOOLEAN, volatile \in BOOLEAN
  PROVE  /\ nested => /\ Walk(Lockstep, "id") = <<1, 1, 5, 2, 2, 5>>
                      /\ Walk(Replayed, "id") = <<1, 5, 2, 5>>
         /\ ~nested => /\ Walk(Lockstep, "id") = <<1, 1, 2, 2>>
                       /\ Walk(Pipelined, "id") = <<1, 2, 1, 2>>
                       /\ Walk(Replayed, "id") = <<1, 2>>
         /\ Walk(Lockstep, "uuid") = Walk(Replayed, "uuid")
         /\ Walk(Pipelined, "uuid") = Walk(Replayed, "uuid")
<1>1. PICK p, q, c, r, s :
        /\ p = Request(1, <<>>) /\ q = Request(2, <<>>) /\ c = Client("note", NoId)
        /\ r = Recorded(1) /\ s = Recorded(2)
  OBVIOUS
<1>2. /\ p \in MessageType /\ q \in MessageType /\ c \in MessageType /\ r \in MessageType
      /\ s \in MessageType
  BY <1>1, PlainMessages
<1>3. /\ Lockstep = <<p, r, c, q, s>> /\ Pipelined = <<p, q, r, s>> /\ Replayed = <<r, s>>
  BY <1>1 DEF Lockstep, Pipelined, Replayed
<1>4. ASSUME NEW kind
      PROVE  /\ Walk(Replayed, kind) = Values(r, kind) \o Values(s, kind)
             /\ Walk(Pipelined, kind)
                  = ((Values(p, kind) \o Values(q, kind)) \o Values(r, kind)) \o Values(s, kind)
             /\ Walk(Lockstep, kind)
                  = (((Values(p, kind) \o Values(r, kind)) \o Values(c, kind)) \o Values(q, kind))
                      \o Values(s, kind)
  <2>1. Walk(<<r, s>>, kind) = Values(r, kind) \o Values(s, kind)
    BY <1>2, WalkTwo DEF WalkedTwo
  <2>2. Walk(<<p, q, r, s>>, kind)
          = ((Values(p, kind) \o Values(q, kind)) \o Values(r, kind)) \o Values(s, kind)
    <3>1. WalkedFour(p, q, r, s, kind)
      BY <1>2, WalkFour
    <3>2. QED
      BY <3>1 DEF WalkedFour
  <2>3. Walk(<<p, r, c, q, s>>, kind)
          = (((Values(p, kind) \o Values(r, kind)) \o Values(c, kind)) \o Values(q, kind))
              \o Values(s, kind)
    <3>1. WalkedFive(p, r, c, q, s, kind)
      BY <1>2, WalkFive
    <3>2. QED
      BY <3>1 DEF WalkedFive
  <2>4. QED
    BY <1>3, <2>1, <2>2, <2>3, Zenon
<1>5. /\ Values(p, "id") = <<1>> /\ Values(q, "id") = <<2>> /\ Values(c, "id") = <<>>
      /\ Values(p, "uuid") = <<>> /\ Values(q, "uuid") = <<>> /\ Values(c, "uuid") = <<>>
  BY <1>1, PlainValues
<1>6. /\ nested => Values(r, "id") = <<1, 5>> /\ Values(s, "id") = <<2, 5>>
      /\ ~nested => Values(r, "id") = <<1>> /\ Values(s, "id") = <<2>>
  <2>1. 1 \in Ids /\ 2 \in Ids
    BY DEF Ids
  <2>2. QED
    BY <1>1, <2>1, RecordedValues
<1>7. /\ <<1, 1>> \o <<>> = <<1, 1>> /\ <<1, 1, 5>> \o <<>> = <<1, 1, 5>>
  <2>1. <<1, 1>> \in Seq(Nat) /\ <<1, 1, 5>> \in Seq(Nat)
    OBVIOUS
  <2>2. QED
    BY <2>1
<1>8. ASSUME nested
      PROVE  Walk(Lockstep, "id") = <<1, 1, 5, 2, 2, 5>> /\ Walk(Replayed, "id") = <<1, 5, 2, 5>>
  <2>1. Walk(Replayed, "id") = <<1, 5>> \o <<2, 5>>
    BY <1>4, <1>6, <1>8, Zenon
  <2>2. Walk(Lockstep, "id") = (((<<1>> \o <<1, 5>>) \o <<>>) \o <<2>>) \o <<2, 5>>
    BY <1>4, <1>5, <1>6, <1>8, Zenon
  <2>3. (((<<1>> \o <<1, 5>>) \o <<>>) \o <<2>>) \o <<2, 5>> = <<1, 1, 5, 2, 2, 5>>
    BY <1>7, NumberTuples, Zenon
  <2>4. <<1, 5>> \o <<2, 5>> = <<1, 5, 2, 5>>
    BY NumberTuples
  <2>5. Walk(Replayed, "id") = <<1, 5, 2, 5>> /\ Walk(Lockstep, "id") = <<1, 1, 5, 2, 2, 5>>
    BY <2>1, <2>2, <2>3, <2>4, Zenon
  <2>6. QED
    BY <2>5, Zenon
<1>9. ASSUME ~nested
      PROVE  /\ Walk(Lockstep, "id") = <<1, 1, 2, 2>> /\ Walk(Pipelined, "id") = <<1, 2, 1, 2>>
             /\ Walk(Replayed, "id") = <<1, 2>>
  <2>1. Walk(Replayed, "id") = <<1>> \o <<2>>
    BY <1>4, <1>6, <1>9, Zenon
  <2>2. Walk(Lockstep, "id") = (((<<1>> \o <<1>>) \o <<>>) \o <<2>>) \o <<2>>
    BY <1>4, <1>5, <1>6, <1>9, Zenon
  <2>3. Walk(Pipelined, "id") = ((<<1>> \o <<2>>) \o <<1>>) \o <<2>>
    BY <1>4, <1>5, <1>6, <1>9, Zenon
  <2>4. (((<<1>> \o <<1>>) \o <<>>) \o <<2>>) \o <<2>> = <<1, 1, 2, 2>>
    BY <1>7, NumberTuples, Zenon
  <2>5. ((<<1>> \o <<2>>) \o <<1>>) \o <<2>> = <<1, 2, 1, 2>> /\ <<1>> \o <<2>> = <<1, 2>>
    BY NumberTuples, Zenon
  <2>6. /\ Walk(Replayed, "id") = <<1, 2>> /\ Walk(Lockstep, "id") = <<1, 1, 2, 2>>
        /\ Walk(Pipelined, "id") = <<1, 2, 1, 2>>
    BY <2>1, <2>2, <2>3, <2>4, <2>5, Zenon
  <2>7. QED
    BY <2>6, Zenon
<1>10. /\ Walk(Lockstep, "uuid") = Walk(Replayed, "uuid")
       /\ Walk(Pipelined, "uuid") = Walk(Replayed, "uuid")
  <2>1. PICK u, v : u = Values(r, "uuid") /\ v = Values(s, "uuid")
    OBVIOUS
  <2>2. u \in Seq(Nat) /\ v \in Seq(Nat)
    BY <1>2, <2>1, ValuesIs
  <2>3. /\ Walk(Replayed, "uuid") = u \o v
        /\ Walk(Pipelined, "uuid") = ((<<>> \o <<>>) \o u) \o v
        /\ Walk(Lockstep, "uuid") = (((<<>> \o u) \o <<>>) \o <<>>) \o v
    BY <1>4, <1>5, <2>1, Zenon
  <2>4. <<>> \o <<>> = <<>> /\ <<>> \o u = u /\ u \o <<>> = u
    BY <2>2
  <2>5. QED
    BY <2>3, <2>4, Zenon
<1>11. QED
  BY <1>8, <1>9, <1>10


\* The values of the replay have the numbers they have in the session.
Agree(s, t) ==
  /\ \A v \in Elems(Walk(t, "id")) : Number(Walk(s, "id"), v) = Number(Walk(t, "id"), v)
  /\ Walk(s, "uuid") = Walk(t, "uuid")

LEMMA PlainAgrees ==
  ASSUME nested \in BOOLEAN, volatile \in BOOLEAN
  PROVE  Agree(Lockstep, Replayed) /\ (~nested => Agree(Pipelined, Replayed))
<1>1. Elems(<<1, 5, 2, 5>>) \subseteq {1, 2, 5} /\ Elems(<<1, 2>>) \subseteq {1, 2}
  <2>1. PICK s, t : s = <<1, 5, 2, 5>> /\ t = <<1, 2>>
    OBVIOUS
  <2>2. /\ Len(s) = 4 /\ s[1] = 1 /\ s[2] = 5 /\ s[3] = 2 /\ s[4] = 5 /\ 1..4 = {1, 2, 3, 4}
        /\ Len(t) = 2 /\ t[1] = 1 /\ t[2] = 2 /\ 1..2 = {1, 2}
    BY <2>1
  <2>3. Elems(s) \subseteq {1, 2, 5} /\ Elems(t) \subseteq {1, 2}
    BY <2>2 DEF Elems
  <2>4. QED
    BY <2>1, <2>3, Zenon
<1>2. Walk(Lockstep, "uuid") = Walk(Replayed, "uuid") /\ Walk(Pipelined, "uuid") = Walk(Replayed, "uuid")
  BY PlainWalks
<1>3. CASE nested
  <2>1. Walk(Lockstep, "id") = <<1, 1, 5, 2, 2, 5>> /\ Walk(Replayed, "id") = <<1, 5, 2, 5>>
    BY <1>3, PlainWalks
  <2>2. \A v \in Elems(<<1, 5, 2, 5>>) : Number(<<1, 1, 5, 2, 2, 5>>, v) = Number(<<1, 5, 2, 5>>, v)
    BY <1>1, PlainNumbers, Zenon
  <2>3. Agree(Lockstep, Replayed)
    BY <1>2, <2>1, <2>2, Zenon DEF Agree
  <2>4. QED
    BY <1>3, <2>3
<1>4. CASE ~nested
  <2>1. /\ Walk(Lockstep, "id") = <<1, 1, 2, 2>> /\ Walk(Pipelined, "id") = <<1, 2, 1, 2>>
        /\ Walk(Replayed, "id") = <<1, 2>>
    BY <1>4, PlainWalks
  <2>2. \A v \in Elems(<<1, 2>>) : /\ Number(<<1, 1, 2, 2>>, v) = Number(<<1, 2>>, v)
                                  /\ Number(<<1, 2, 1, 2>>, v) = Number(<<1, 2>>, v)
    BY <1>1, PlainNumbers, Zenon
  <2>3. Agree(Lockstep, Replayed) /\ Agree(Pipelined, Replayed)
    BY <1>2, <2>1, <2>2, Zenon DEF Agree
  <2>4. QED
    BY <2>3
<1>5. QED
  BY <1>3, <1>4

\* A message that the two have in common has one normal form.
LEMMA AgreeNormalized ==
  ASSUME NEW s \in Seq(MessageType), NEW t \in Seq(MessageType), Agree(s, t),
         NEW i \in DOMAIN s, NEW j \in DOMAIN t, s[i] = t[j]
  PROVE  Normalized(s)[i] = Normalized(t)[j]
<1>1. PICK m : m = t[j] /\ s[i] = m
  OBVIOUS
<1>2. m \in MessageType
  BY <1>1
<1>3. ASSUME NEW k \in DOMAIN m.leaves
      PROVE  Placeholder(s, m.leaves[k]) = Placeholder(t, m.leaves[k])
  <2>1. PICK x : x = m.leaves[k]
    OBVIOUS
  <2>2. x.kind = "id" => x.v \in Elems(Walk(t, "id"))
    BY <1>1, <2>1, WalkIs
  <2>3. x.kind = "id" => Number(Walk(s, "id"), x.v) = Number(Walk(t, "id"), x.v)
    BY <2>2 DEF Agree
  <2>4. Walk(s, "uuid") = Walk(t, "uuid")
    BY DEF Agree
  <2>5. Placeholder(s, x) = Placeholder(t, x)
    BY <2>3, <2>4 DEF Placeholder
  <2>6. QED
    BY <2>1, <2>5
<1>4. PICK u, v : u = Normalized(s)[i] /\ v = Normalized(t)[j]
  OBVIOUS
<1>5. u \in MessageType /\ v \in MessageType
  <2>1. /\ Normalized(s) \in Seq(MessageType) /\ i \in DOMAIN Normalized(s)
        /\ Normalized(t) \in Seq(MessageType) /\ j \in DOMAIN Normalized(t)
    BY NormalizedIs
  <2>2. QED
    BY <1>4, <2>1
<1>6. /\ u.dir = m.dir /\ u.kind = m.kind
      /\ u.id = IF m.id = 0 THEN 0 ELSE Number(Walk(s, "id"), m.id)
      /\ u.leaves = [k \in DOMAIN m.leaves |-> Placeholder(s, m.leaves[k])]
  BY <1>1, <1>4, NormalizedIs
<1>7. /\ v.dir = m.dir /\ v.kind = m.kind
      /\ v.id = IF m.id = 0 THEN 0 ELSE Number(Walk(t, "id"), m.id)
      /\ v.leaves = [k \in DOMAIN m.leaves |-> Placeholder(t, m.leaves[k])]
  BY <1>1, <1>4, NormalizedIs
<1>8. u.leaves = v.leaves
  BY <1>3, <1>6, <1>7
<1>9. u.id = v.id
  <2>1. m.id # 0 => m.id \in Elems(Walk(t, "id"))
    BY <1>1, WalkIs
  <2>2. m.id # 0 => Number(Walk(s, "id"), m.id) = Number(Walk(t, "id"), m.id)
    BY <2>1 DEF Agree
  <2>3. QED
    BY <1>6, <1>7, <2>2
<1>10. u.dir = v.dir /\ u.kind = v.kind
  BY <1>6, <1>7
<1>11. QED
  BY <1>4, <1>5, <1>8, <1>9, <1>10, SameMessage, Zenon

\* The snapshot of a plain session and its normalised replay do not differ.
LEMMA PlainUnchanged ==
  ASSUME nested \in BOOLEAN, volatile \in BOOLEAN, NEW s,
         s = Lockstep \/ (~nested /\ s = Pipelined)
  PROVE  Changes(Normalized(s), Normalized(Replayed)) = {}
<1>1. PICK p, q, c, r, t :
        /\ p = Request(1, <<>>) /\ q = Request(2, <<>>) /\ c = Client("note", NoId)
        /\ r = Recorded(1) /\ t = Recorded(2)
  OBVIOUS
<1>2. /\ p \in MessageType /\ p.dir = "c2s" /\ q \in MessageType /\ q.dir = "c2s"
      /\ c \in MessageType /\ c.dir = "c2s"
      /\ r \in MessageType /\ r.dir = "s2c" /\ r.id = 1 /\ r.kind = "reply" /\ r.leaves # <<>>
      /\ t \in MessageType /\ t.dir = "s2c" /\ t.id = 2 /\ t.kind = "reply" /\ t.leaves # <<>>
  <2>1. Answer(1, 0, 1) # <<>> /\ Answer(1, 0, 2) # <<>>
    BY AnswerIs
  <2>2. p.dir = "c2s" /\ q.dir = "c2s" /\ c.dir = "c2s"
    BY <1>1 DEF Request, Client
  <2>3. QED
    BY <1>1, <2>1, <2>2, PlainMessages DEF Recorded
<1>3. PICK b : b = Replayed /\ b = <<r, t>>
  BY <1>1 DEF Replayed
<1>4. s = <<p, r, c, q, t>> \/ s = <<p, q, r, t>>
  BY <1>1 DEF Lockstep, Pipelined
<1>5. Good(s)
  <2>1. <<>> \in Seq(LeafType) /\ s \in Recordings(<<>>)
    BY DEF Lockstep, Pipelined, Recordings
  <2>2. QED
    BY <2>1, RecordingsGood
<1>6. Good(b)
  BY <1>2, <1>3 DEF Good, Distinct, Proper, NoId
<1>7. Agree(s, b)
  BY <1>3, PlainAgrees
<1>8. \A i \in Keyed(s) : \E j \in Keyed(b) : s[i] = b[j]
  <2>1. Keyed(b) = {1, 2} /\ b[1] = r /\ b[2] = t
    BY <1>2, <1>3 DEF Keyed
  <2>2. \A i \in DOMAIN s : s[i] \in {p, q, c, r, t}
    BY <1>4
  <2>3. \A i \in Keyed(s) : s[i] \in {r, t}
    BY <1>2, <2>2 DEF Keyed
  <2>4. QED
    BY <2>1, <2>3
<1>9. \A j \in Keyed(b) : \E i \in Keyed(s) : s[i] = b[j]
  <2>1. Keyed(b) = {1, 2} /\ b[1] = r /\ b[2] = t
    BY <1>2, <1>3 DEF Keyed
  <2>2. \E i \in DOMAIN s : s[i] = r
    BY <1>4
  <2>3. \E i \in DOMAIN s : s[i] = t
    BY <1>4
  <2>4. QED
    BY <1>2, <2>1, <2>2, <2>3 DEF Keyed
<1>10. PICK u, v : u = Normalized(s) /\ v = Normalized(b)
  OBVIOUS
<1>11. Good(u) /\ Good(v)
  BY <1>5, <1>6, <1>10, NormalizedGood
<1>12. Keyed(u) = Keyed(s) /\ Keyed(v) = Keyed(b)
  <2>1. ASSUME NEW w, Good(w)
        PROVE  Keyed(Normalized(w)) = Keyed(w)
    <3>1. w \in Seq(MessageType)
      BY <2>1 DEF Good
    <3>2. /\ DOMAIN Normalized(w) = DOMAIN w
          /\ \A i \in DOMAIN w : /\ Normalized(w)[i].dir = w[i].dir
                                 /\ Normalized(w)[i].id = IF w[i].id = 0 THEN 0
                                                          ELSE Number(Walk(w, "id"), w[i].id)
      BY <3>1, NormalizedIs
    <3>3. \A i \in DOMAIN w : w[i].id # 0 => Number(Walk(w, "id"), w[i].id) # 0
      <4>1. \A i \in DOMAIN w : w[i].id # 0 => w[i].id \in Elems(Walk(w, "id"))
        BY <3>1, WalkIs
      <4>2. Walk(w, "id") \in Seq(Nat)
        BY <3>1, WalkIs
      <4>3. QED
        BY <4>1, <4>2, NumberIs
    <3>4. QED
      BY <3>2, <3>3 DEF Keyed
  <2>2. QED
    BY <1>5, <1>6, <1>10, <2>1
<1>13. ASSUME NEW i \in Keyed(s), NEW j \in Keyed(b), s[i] = b[j]
       PROVE  u[i] = v[j]
  <2>1. i \in DOMAIN s /\ j \in DOMAIN b /\ s \in Seq(MessageType) /\ b \in Seq(MessageType)
    BY <1>5, <1>6 DEF Keyed, Good
  <2>2. QED
    BY <1>7, <1>10, <1>13, <2>1, AgreeNormalized
<1>14. /\ \A i \in Keyed(u) : \E j \in Keyed(v) : u[i] = v[j]
       /\ \A j \in Keyed(v) : \E i \in Keyed(u) : u[i] = v[j]
  BY <1>8, <1>9, <1>12, <1>13
<1>15. Changes(u, v) = {}
  BY <1>11, <1>14, NoChanges
<1>16. QED
  BY <1>3, <1>10, <1>15

\* What is asked in them, and answered in a quiet replay.
LEMMA PlainTold ==
  ASSUME nested \in BOOLEAN, volatile \in BOOLEAN, NEW s, s = Lockstep \/ s = Pipelined
  PROVE  Told(Asks(C2S(s)), 1, 0) = Replayed
<1>1. PICK p, q, c, r, t :
        /\ p = Request(1, <<>>) /\ q = Request(2, <<>>) /\ c = Client("note", NoId)
        /\ r = Recorded(1) /\ t = Recorded(2)
  OBVIOUS
<1>2. /\ p \in MessageType /\ p.dir = "c2s" /\ p.id = 1 /\ q \in MessageType /\ q.dir = "c2s" /\ q.id = 2
      /\ c \in MessageType /\ c.dir = "c2s" /\ c.id = NoId
      /\ r \in MessageType /\ r.dir = "s2c" /\ t \in MessageType /\ t.dir = "s2c"
  <2>1. /\ p.dir = "c2s" /\ p.id = 1 /\ q.dir = "c2s" /\ q.id = 2 /\ c.dir = "c2s" /\ c.id = NoId
    BY <1>1 DEF Request, Client
  <2>2. r.dir = "s2c" /\ t.dir = "s2c"
    BY <1>1 DEF Recorded
  <2>3. QED
    BY <1>1, <2>1, <2>2, PlainMessages
<1>3. PICK z, s1, s2, s3, s4, s5, t2, t3, t4 :
        /\ z = <<>> /\ s1 = <<p>> /\ s2 = <<p, r>> /\ s3 = <<p, r, c>> /\ s4 = <<p, r, c, q>>
        /\ s5 = <<p, r, c, q, t>> /\ t2 = <<p, q>> /\ t3 = <<p, q, r>> /\ t4 = <<p, q, r, t>>
  OBVIOUS
<1>4. /\ z \in Seq(MessageType) /\ s1 \in Seq(MessageType) /\ s2 \in Seq(MessageType)
      /\ s3 \in Seq(MessageType) /\ s4 \in Seq(MessageType)
      /\ t2 \in Seq(MessageType) /\ t3 \in Seq(MessageType)
      /\ s1 = Append(z, p) /\ s2 = Append(s1, r) /\ s3 = Append(s2, c) /\ s4 = Append(s3, q)
      /\ s5 = Append(s4, t) /\ t2 = Append(s1, q) /\ t3 = Append(t2, r) /\ t4 = Append(t3, t)
  BY <1>2, <1>3
<1>5. PICK g, g1, g2, g3 :
        g = <<>> /\ g1 = <<p>> /\ g2 = <<p, c>> /\ g3 = <<p, c, q>>
  OBVIOUS
<1>6. /\ g \in Seq(MessageType) /\ g1 \in Seq(MessageType) /\ g2 \in Seq(MessageType)
      /\ g1 = Append(g, p) /\ g2 = Append(g1, c) /\ g3 = Append(g2, q) /\ t2 = Append(g1, q)
  BY <1>2, <1>3, <1>5
<1>7. /\ C2S(z) = <<>>
      /\ \A l \in Seq(MessageType), m \in MessageType :
           /\ m.dir = "c2s" => C2S(Append(l, m)) = Append(C2S(l), m)
           /\ m.dir # "c2s" => C2S(Append(l, m)) = C2S(l)
  <2>1. C2S(z) = <<>>
    BY <1>2, <1>3, <1>4, SentAppend DEF C2S
  <2>2. ASSUME NEW l \in Seq(MessageType), NEW m \in MessageType
        PROVE  C2S(Append(l, m)) = IF m.dir = "c2s" THEN Append(C2S(l), m) ELSE C2S(l)
    BY SentAppend DEF C2S
  <2>3. QED
    BY <2>1, <2>2
<1>8. C2S(s1) = g1
  BY <1>2, <1>3, <1>4, <1>5, <1>6, <1>7
<1>9. C2S(Append(s1, r)) = C2S(s1) /\ C2S(Append(t2, r)) = C2S(t2)
  BY <1>2, <1>4, <1>7
<1>a. C2S(Append(s4, t)) = C2S(s4) /\ C2S(Append(t3, t)) = C2S(t3)
  BY <1>2, <1>4, <1>7
<1>b. C2S(Append(s1, q)) = Append(C2S(s1), q) /\ C2S(Append(s3, q)) = Append(C2S(s3), q)
  BY <1>2, <1>4, <1>7
<1>c. C2S(Append(s2, c)) = Append(C2S(s2), c)
  BY <1>2, <1>4, <1>7
<1>10. C2S(s5) = g3
  BY <1>4, <1>6, <1>8, <1>9, <1>a, <1>b, <1>c
<1>11. C2S(t4) = t2
  BY <1>4, <1>6, <1>8, <1>9, <1>a, <1>b
<1>12. C2S(s) = g3 \/ C2S(s) = t2
  BY <1>1, <1>3, <1>10, <1>11 DEF Lockstep, Pipelined
<1>13. \A l \in Seq(MessageType), m \in MessageType : Asks(Append(l, m)) = Asks(l) \o Ask(m)
  BY AsksAppend
<1>14. Ask(p) = <<1>> /\ Ask(q) = <<2>> /\ Ask(c) = <<>>
  BY <1>2 DEF Ask, NoId
<1>15. /\ <<>> \o <<1>> = <<1>> /\ <<1>> \o <<>> = <<1>> /\ <<1>> \o <<2>> = <<1, 2>>
  BY NumberTuples
<1>16. Asks(g1) = <<1>>
  BY <1>2, <1>5, <1>6, <1>13, <1>14, <1>15, AsksNothing
<1>17. Asks(g2) = <<1>>
  BY <1>2, <1>6, <1>13, <1>14, <1>15, <1>16
<1>18. Asks(g3) = <<1, 2>> /\ Asks(t2) = <<1, 2>>
  BY <1>2, <1>6, <1>13, <1>14, <1>15, <1>16, <1>17
<1>19. Told(<<1, 2>>, 1, 0) = Replayed
  <2>1. Tell(1, 1, 0) = Recorded(1) /\ Tell(2, 1, 0) = Recorded(2)
    BY DEF Tell, Recorded
  <2>2. PICK l : l = <<1, 2>>
    OBVIOUS
  <2>3. DOMAIN l = {1, 2} /\ l[1] = 1 /\ l[2] = 2
    BY <2>2
  <2>4. Told(l, 1, 0) = [k \in {1, 2} |-> Tell(l[k], 1, 0)]
    BY <2>3 DEF Told
  <2>5. Replayed = [k \in {1, 2} |-> IF k = 1 THEN r ELSE t]
    BY <1>1 DEF Replayed
  <2>6. \A k \in {1, 2} : Tell(l[k], 1, 0) = IF k = 1 THEN r ELSE t
    BY <1>1, <2>1, <2>3
  <2>7. QED
    BY <2>2, <2>4, <2>5, <2>6
<1>20. QED
  BY <1>12, <1>18, <1>19


(* -------------------- a server that has not changed -------------------- *)

PassesInv == SettleInv /\ RecordedInv /\ UnchangedPasses

LEMMA SamePlain ==
  ASSUME UNCHANGED <<session, nested, volatile>>
  PROVE  (Plain' <=> Plain) /\ (RecordedInv => RecordedInv')
<1>1. Plain' <=> Plain
  BY DEF Plain
<1>2. \A v, run, n : Answer(v, run, n)' = Answer(v, run, n)
  BY DEF Answer
<1>3. \A n : Recorded(n)' = Recorded(n)
  BY <1>2 DEF Recorded
<1>4. \A leaves : Recordings(leaves)' = Recordings(leaves)
  BY <1>3 DEF Recordings
<1>5. QED
  BY <1>1, <1>4 DEF RecordedInv

\* The golden file is the snapshot of the session, which is what is replayed.
LEMMA PassesVerify ==
  ASSUME PassesInv, VerifyJudged
  PROVE  UnchangedPasses'
<1>1. /\ ~Idle /\ cmd = "verify" /\ Over
      /\ UNCHANGED <<golden, session, nested, volatile, version, source>> /\ noise' = noise
      /\ complete' = (reason = "none")
      /\ exit' = (IF Matches(golden, Normalized(taken)) THEN 0 ELSE 1)
  BY DEF VerifyJudged, Ready, Idle, Ended, Stopped, worldVars, filesVars
<1>2. Plain' <=> Plain
  BY <1>1, SamePlain
<1>3. SUFFICES ASSUME reason = "none", Quiet, version = 1, source = session, Plain,
                      golden = Normalized(session)
               PROVE  exit' = 0
  BY <1>1, <1>2 DEF UnchangedPasses, Unchanged, Quiet
<1>4. nested \in BOOLEAN /\ volatile \in BOOLEAN
  BY DEF PassesInv, SettleInv, KeepInv, RegressionInv, FilesInv
<1>5. session = Lockstep \/ (~nested /\ session = Pipelined)
  BY <1>3, PlainSessions DEF PassesInv
<1>6. Told(Asks(C2S(source)), version, 0) = Replayed
  BY <1>3, <1>4, <1>5, PlainTold
<1>7. Normalized(Told(Asks(C2S(source)), version, 0)) = Normalized(taken)
  BY <1>1, <1>3, QuietTaken DEF Over, PassesInv, SettleInv, KeepInv
<1>8. Changes(golden, Normalized(taken)) = {}
  BY <1>3, <1>4, <1>5, <1>6, <1>7, PlainUnchanged
<1>9. QED
  BY <1>1, <1>3, <1>8 DEF Matches

LEMMA PassesIdle ==
  ASSUME PassesInv, Snapshot \/ ServerChanges \/ SessionsRemoved
  PROVE  UnchangedPasses'
<1>1. UNCHANGED <<session, nested, volatile, noise>>
  BY DEF Snapshot, ServerChanges, SessionsRemoved, worldVars, serverVars
<1>2. Plain' <=> Plain
  BY <1>1, SamePlain
<1>3. CASE Snapshot \/ ServerChanges
  BY <1>3 DEF Snapshot, ServerChanges, UnchangedPasses
<1>4. CASE SessionsRemoved
  <2>1. UNCHANGED <<golden, version, cmd, complete, source, last, exit>>
    BY <1>4 DEF SessionsRemoved, commandVars
  <2>2. QED
    BY <1>1, <1>2, <2>1 DEF PassesInv, UnchangedPasses, Unchanged, Idle, Quiet
<1>5. QED
  BY <1>3, <1>4

LEMMA PassesStarts == RegressionInit => PassesInv
BY SettleStarts DEF RegressionInit, PassesInv, RecordedInv, UnchangedPasses

LEMMA PassesStep == PassesInv /\ [RegressionNext]_regressionVars => PassesInv'
<1>1. SUFFICES ASSUME PassesInv, [RegressionNext]_regressionVars PROVE PassesInv'
  OBVIOUS
<1>2. SettleInv'
  BY <1>1, SettleStep DEF PassesInv
<1>3. UNCHANGED <<session, nested, volatile>>
  BY <1>1 DEF RegressionNext, Snapshot, Verify, Update, Check, ReplayStrict, Starts, RunStep, Judged,
     VerifyJudged, UpdateJudged, CheckJudged, ReplayJudged, ServerStep, ServerChanges,
     SessionsRemoved, worldVars, regressionVars
<1>4. RecordedInv'
  BY <1>1, <1>3, SamePlain DEF PassesInv
<1>5. SUFFICES UnchangedPasses'
  BY <1>2, <1>4 DEF PassesInv
<1>6. CASE Snapshot \/ ServerChanges \/ SessionsRemoved
  BY <1>1, <1>6, PassesIdle
<1>7. CASE Verify \/ Update \/ Check \/ ReplayStrict
  <2>1. ~Idle'
    BY <1>7 DEF Verify, Update, Check, ReplayStrict, Starts, Idle
  <2>2. QED
    BY <2>1 DEF UnchangedPasses, Unchanged
<1>8. CASE RunStep \/ ServerStep
  <2>1. ~Idle'
    BY <1>8 DEF RunStep, ServerStep, commandVars, Idle
  <2>2. QED
    BY <2>1 DEF UnchangedPasses, Unchanged
<1>9. CASE VerifyJudged
  BY <1>1, <1>9, PassesVerify
<1>10. CASE UpdateJudged \/ CheckJudged \/ ReplayJudged
  <2>1. last' = last /\ last # "verify"
    BY <1>1, <1>10 DEF UpdateJudged, CheckJudged, ReplayJudged, Ready, Idle, PassesInv, SettleInv,
       KeepInv, RegressionInv, CommandInv
  <2>2. QED
    BY <2>1 DEF UnchangedPasses
<1>11. CASE UNCHANGED regressionVars
  <2>1. UNCHANGED <<serverVars, worldVars, filesVars, version, commandVars>>
    BY <1>11 DEF regressionVars
  <2>2. UNCHANGED <<noise, golden, version, cmd, complete, source, last, exit>>
    BY <2>1 DEF serverVars, filesVars, commandVars
  <2>3. Plain' <=> Plain
    BY <1>3, SamePlain
  <2>4. QED
    BY <1>1, <1>3, <2>2, <2>3 DEF PassesInv, UnchangedPasses, Unchanged, Idle, Quiet
<1>12. QED
  BY <1>1, <1>6, <1>7, <1>8, <1>9, <1>10, <1>11 DEF RegressionNext, Judged

\* A verify of the session against the server it was recorded from passes, if
\* the golden file is its snapshot, the session is one that the placeholders
\* fit, the replay is complete and the server writes nothing but its answers:
\* whatever the commands before it were (cli.py, _run_verify_impl).
THEOREM UnchangedCorrect == RegressionSpec => []UnchangedPasses
<1>1. PassesInv => UnchangedPasses
  BY DEF PassesInv
<1>2. QED
  BY PassesStarts, PassesStep, <1>1, PTL DEF RegressionSpec
=============================================================================
