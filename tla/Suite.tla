------------------------------- MODULE Suite --------------------------------
(* mcp-vcr test: SuiteRunner.list_suites finds the suites of a directory, and *)
(* run_suite and run_all_suites replay their transcripts, one after another,  *)
(* and report each to a callback, which may raise. Replaying and comparing    *)
(* one transcript is Regression's subject; here it has an outcome.            *)
EXTENDS Naturals, Sequences, FiniteSets, SequencesExt

CONSTANTS Dirs,        \* directories, in sorted order: 1..n
          Names,       \* names of suites, in sorted order: 1..n
          Transcripts, \* how many transcripts the suite in each directory has
          MaxEntries   \* suites named by the top-level manifest

NoSuite == 0
Invalid == 100      \* a suite.yaml that load_suite rejects
Broken == 0         \* for a directory: a path that is no string

ASSUME SuiteAssumption ==
  /\ Dirs \subseteq Nat /\ Names \subseteq Nat /\ IsFiniteSet(Dirs) /\ MaxEntries \in Nat
  /\ Broken \notin Dirs /\ Transcripts \in [Dirs -> Nat \ {0}]

VARIABLES
  named,     \* what suite.yaml says in each directory: a name, Invalid or NoSuite
  children,  \* the directories right below the one that is searched
  top,       \* manifest.yaml: the directories it names, with a hint or without
  all,       \* --all, or one suite by name
  pc,
  left,      \* manifests to run; the one with the first name is running
  pos,       \* transcripts of it that were taken up
  replay,    \* its replay file: "none", "known" (replay_path), "stray" (left)
  passed, failed, results,    \* of the suite
  totals,    \* of the suites before: passed, failed, suites failed
  verdicts,  \* what became of each transcript
  raised     \* a callback has raised

treeVars == <<named, children, top, all>>
countVars == <<passed, failed, results>>
suiteVars == <<treeVars, pc, left, pos, replay, countVars, totals, verdicts, raised>>

Entries == [dir : Dirs \cup {Broken}, hint : BOOLEAN]

SuiteInit ==
  /\ named \in [Dirs -> Names \cup {NoSuite, Invalid}]
  /\ children \in SUBSET Dirs
  /\ top \in SeqOf(Entries, MaxEntries)
  /\ all \in BOOLEAN
  /\ pc = "list" /\ left = {} /\ pos = 0 /\ replay = "none"
  /\ passed = 0 /\ failed = 0 /\ results = 0
  /\ totals = [passed |-> 0, failed |-> 0, suites |-> 0]
  /\ verdicts = <<>> /\ raised = FALSE

(* ----------------------------- list_suites ----------------------------- *)

Valid(d) == named[d] \in Names
Manifest(d, hint) == [name |-> named[d], dir |-> d, hint |-> hint]

\* A path that is no string raises where the loading of a suite is not yet
\* guarded: the rest of the manifest is not read, and a warning is printed.
Read == {i \in DOMAIN top : \A j \in 1..i : top[j].dir # Broken}

\* Of the entries that are read, those that load; the others are skipped.
Listed == {i \in Read : Valid(top[i].dir)}

BugScanned == {d \in children : Valid(d)}       \* loads a listed directory again
\* The directories that are not in loaded_dirs and load.
Scanned == {d \in children : Valid(d) /\ \A i \in Listed : top[i].dir # d}

\* discovered[name] = sm, for the entries in their order and then for the
\* directories in theirs: the last suite that is loaded under a name stays.
Discovered ==
  LET last == {i \in Listed : /\ \A j \in Listed : named[top[j].dir] = named[top[i].dir] => j <= i
                              /\ \A d \in Scanned : named[d] # named[top[i].dir]}
      scan == {d \in Scanned : \A e \in Scanned : named[e] = named[d] => e <= d}
  IN {Manifest(top[i].dir, top[i].hint) : i \in last} \cup {Manifest(d, FALSE) : d \in scan}

\* find_suite: by name, or else by the name of the directory.
Found == Discovered \cup {Manifest(d, FALSE) : d \in {e \in children : Valid(e)}}

ListSuites ==
  /\ pc = "list"
  /\ IF all THEN left' = Discovered ELSE \E m \in Found : left' = {m}
  /\ pc' = IF left' = {} THEN "done" ELSE "start"
  /\ UNCHANGED <<treeVars, pos, replay, countVars, totals, verdicts, raised>>

(* ------------------------------ run_suite ------------------------------ *)

\* The suites run in the order of their names.
Suite   == CHOOSE m \in left : \A o \in left : m.name <= o.name
Current == <<Suite.dir, pos>>
Total   == Transcripts[Suite.dir]

Counts(v) ==        \* one result
  /\ passed' = (IF v = "same" THEN passed + 1 ELSE passed)
  /\ failed' = (IF v = "same" THEN failed ELSE failed + 1)
  /\ results' = results + 1
Judged(v) == verdicts' = [c \in DOMAIN verdicts \cup {Current} |->
                            IF c = Current THEN v ELSE verdicts[c]]

BugStartSuite ==    \* the counts of the suite before are kept
  /\ pc = "start" /\ pc' = "next" /\ pos' = 0
  /\ UNCHANGED <<treeVars, left, replay, countVars, totals, verdicts, raised>>
StartSuite ==       \* on_suite_start
  /\ pc = "start" /\ pc' = "next" /\ pos' = 0
  /\ passed' = 0 /\ failed' = 0 /\ results' = 0
  /\ UNCHANGED <<treeVars, left, replay, totals, verdicts, raised>>

NextTranscript ==
  /\ pc = "next" /\ pos < Total /\ pos' = pos + 1 /\ pc' = "replay"
  /\ UNCHANGED <<treeVars, left, replay, countVars, totals, verdicts, raised>>

\* Outside the suite's directory, absent or invalid: it is not replayed.
NotReplayed ==
  /\ pc = "replay" /\ Counts("invalid") /\ Judged("invalid") /\ pc' = "report"
  /\ UNCHANGED <<treeVars, left, pos, replay, totals, raised>>

BugReplayRaises ==  \* the result is not counted
  /\ pc = "replay" /\ Judged("error") /\ pc' = "report"
  /\ replay' \in {replay, "stray"}
  /\ UNCHANGED <<treeVars, left, pos, countVars, totals, raised>>
\* run_replay raises, in the end because the replay it wrote is not valid; the
\* file is then unknown to the caller.
ReplayRaises ==
  /\ pc = "replay" /\ Counts("error") /\ Judged("error") /\ pc' = "report"
  /\ replay' \in {replay, "stray"}
  /\ UNCHANGED <<treeVars, left, pos, totals, raised>>

Replayed ==
  /\ pc = "replay" /\ replay' = "known" /\ pc' = "judge"
  /\ UNCHANGED <<treeVars, left, pos, countVars, totals, verdicts, raised>>

\* The replay is removed in the end; an error of that is passed over.
Unlinked == replay' \in {"none", "stray"}

\* The result of an incomplete replay is reported inside the try: if the callback
\* raises the transcript has a second result, which is reported again.
Incomplete ==
  /\ pc = "judge" /\ Judged("incomplete") /\ Unlinked
  /\ \/ Counts("incomplete") /\ pc' = "next" /\ UNCHANGED raised
     \/ /\ all /\ raised' = TRUE /\ pc' = "report"
        /\ failed' = failed + 2 /\ results' = results + 2 /\ UNCHANGED passed
  /\ UNCHANGED <<treeVars, left, pos, totals>>

Compared ==         \* run_diff may raise
  /\ pc = "judge" /\ Unlinked /\ pc' = "report"
  /\ \E v \in {"same", "changed", "error"} : Counts(v) /\ Judged(v)
  /\ UNCHANGED <<treeVars, left, pos, totals, raised>>

Reported ==
  /\ pc = "report" /\ pc' = "next"
  /\ UNCHANGED <<treeVars, left, pos, replay, countVars, totals, verdicts, raised>>

(* --------------------------- run_all_suites ---------------------------- *)

AddSuite(p, f) ==
  /\ totals' = [passed |-> totals.passed + p, failed |-> totals.failed + f,
                suites |-> totals.suites + (IF f > 0 THEN 1 ELSE 0)]
  /\ left' = left \ {Suite}
  /\ pc' = IF left' = {} THEN "done" ELSE "start"

SuiteOver ==
  /\ pc = "next" /\ pos = Total /\ AddSuite(passed, failed)
  /\ UNCHANGED <<treeVars, pos, replay, countVars, verdicts, raised>>

\* A callback that raises ends its suite: all its transcripts count as failed.
SuiteAborted ==
  /\ pc \in {"start", "report"} /\ all /\ raised' = TRUE /\ AddSuite(0, Total)
  /\ UNCHANGED <<treeVars, pos, replay, countVars, verdicts>>

SuiteNext ==
  \/ ListSuites \/ StartSuite \/ NextTranscript \/ NotReplayed \/ ReplayRaises
  \/ Replayed \/ Incomplete \/ Compared \/ Reported \/ SuiteOver \/ SuiteAborted

SuiteSpec == SuiteInit /\ [][SuiteNext]_suiteVars

(* ----------------------------- properties ------------------------------ *)

Done == pc = "done"
exit == IF totals.suites > 0 THEN 1 ELSE 0
Heeded == {i \in DOMAIN top : ~\E j \in DOMAIN top : j <= i /\ top[j].dir = Broken}
Reachable == {d \in children \cup {top[i].dir : i \in Heeded} : Valid(d)}

\* Exit code 0: every transcript of every suite that was found, or of the suite
\* that was asked for, has been replayed to its end and its answers are the
\* recorded ones. Whatever the exit code, no replay the runner knows of is left
\* without an attempt to remove it.
HonestExit ==
  LET same(m) == \A n \in 1..Transcripts[m.dir] :
                   <<m.dir, n>> \in DOMAIN verdicts /\ verdicts[<<m.dir, n>>] = "same"
  IN /\ (Done /\ exit = 0) => IF all THEN \A m \in Discovered : same(m)
                                       ELSE \E m \in Found : same(m)
     /\ Done => replay # "known"

\* Every result is counted as passed or as failed, and the counts are those of the
\* transcripts, unless a callback has raised; even then no more transcripts are
\* counted as passed than did.
CountsTrue ==
  LET same == {c \in DOMAIN verdicts : verdicts[c] = "same"} IN
  /\ results = passed + failed
  /\ Done => /\ totals.passed <= Cardinality(same)
             /\ ~raised => /\ totals.passed = Cardinality(same)
                           /\ totals.failed = Cardinality(DOMAIN verdicts \ same)

\* A suite that loads is only left out in favour of one with the same name,
\* whatever else the directory holds and the manifest up to a path that is no
\* string, which costs the entries behind it; and the hint of the manifest
\* survives the scan, unless the directory is named again or another suite has
\* its name. No other suite gets a hint.
SuitesFound ==
  /\ {m.name : m \in Discovered} = {named[d] : d \in Reachable}
  /\ \A i \in Heeded :
       (/\ top[i].hint /\ Valid(top[i].dir)
        /\ \A j \in Heeded \ {i} : top[j].dir # top[i].dir
        /\ \A d \in Reachable \ {top[i].dir} : named[d] # named[top[i].dir])
       => Manifest(top[i].dir, TRUE) \in Discovered
  /\ \A m \in Discovered : m.hint => \E i \in Heeded : top[i] = [dir |-> m.dir, hint |-> TRUE]
=============================================================================
