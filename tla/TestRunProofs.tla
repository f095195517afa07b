--------------------------- MODULE TestRunProofs ---------------------------
(***************************************************************************)
(* Proofs about TestRun, for every set of hosts and clients, every work    *)
(* file and any number of programs one after the other that die anywhere.  *)
(***************************************************************************)
EXTENDS TestRun, FiniteSetTheorems, FunctionTheorems, TLAPS

(* Sequences that are worked off from their head, and the sequence that a   *)
(* loop makes of a set.                                                     *)

LEMMA TailOf ==
    ASSUME NEW S, NEW s \in Seq(S), s # <<>>
    PROVE  /\ Head(s) \in S /\ Head(s) \in Range(s) /\ Tail(s) \in Seq(S)
           /\ Range(s) = {Head(s)} \union Range(Tail(s))
<1>1. /\ Head(s) \in S /\ Head(s) = s[1] /\ Tail(s) \in Seq(S) /\ Len(s) \in Nat \ {0}
      /\ Len(Tail(s)) = Len(s) - 1 /\ \A i \in 1 .. Len(s) - 1 : Tail(s)[i] = s[i + 1]
  OBVIOUS
<1>2. DOMAIN s = 1 .. Len(s) /\ DOMAIN Tail(s) = 1 .. Len(s) - 1
  BY <1>1
<1>3. ASSUME NEW i \in DOMAIN s PROVE s[i] \in {Head(s)} \union Range(Tail(s))
  <2>1. CASE i = 1
    BY <1>1, <2>1
  <2>2. CASE i # 1
    <3>1. i - 1 \in DOMAIN Tail(s) /\ Tail(s)[i - 1] = s[i]
      BY <1>1, <1>2, <2>2
    <3>. QED BY <3>1 DEF Range
  <2>. QED BY <2>1, <2>2
<1>4. ASSUME NEW i \in DOMAIN Tail(s) PROVE Tail(s)[i] \in Range(s)
  <2>1. i + 1 \in DOMAIN s /\ Tail(s)[i] = s[i + 1]
    BY <1>1, <1>2
  <2>. QED BY <2>1 DEF Range
<1>5. 1 \in DOMAIN s
  BY <1>1, <1>2
<1>. QED BY <1>1, <1>3, <1>4, <1>5 DEF Range

LEMMA EmptyRange == Range(<<>>) = {}
BY DEF Range

LEMMA SetToSeqOf ==
    ASSUME NEW S, IsFiniteSet(S)
    PROVE  SetToSeq(S) \in Seq(S) /\ Range(SetToSeq(S)) = S
<1>. DEFINE n == Cardinality(S)
            s == SetToSeq(S)
<1>1. n \in Nat /\ ExistsBijection(1 .. n, S)
  BY FS_CardinalityType
<1>2. \E f \in [1 .. n -> S] : IsInjective(f)
  BY <1>1 DEF ExistsBijection, Bijection, Injection
<1>3. s \in [1 .. n -> S] /\ IsInjective(s)
  BY <1>2 DEF SetToSeq
<1>4. s \in Injection(1 .. n, S)
  BY <1>3 DEF Injection
<1>5. IsFiniteSet(1 .. n) /\ Cardinality(1 .. n) = n
  <2>1. 1 \in Int /\ n \in Int /\ (IF 1 > n THEN 0 ELSE n - 1 + 1) = n
    BY <1>1
  <2>. HIDE DEF n
  <2>. QED BY <2>1, FS_Interval
<1>6. s \in Surjection(1 .. n, S)
  <2>. HIDE DEF s
  <2>. QED BY <1>4, <1>5, FS_Injection
<1>. HIDE DEF s, n
<1>7. s \in Seq(S) /\ DOMAIN s = 1 .. n
  BY <1>1, <1>3
<1>8. \A x \in S : \E i \in 1 .. n : s[i] = x
  BY <1>6 DEF Surjection
<1>9. \A i \in 1 .. n : s[i] \in S
  BY <1>3
<1>10. Range(s) = S
  BY <1>7, <1>8, <1>9 DEF Range
<1>. QED BY <1>7, <1>10 DEF s

(* As many things as there are names of them, one name for each. *)
Names(f, S, T) ==
    /\ \A x \in S : f[x] \in T
    /\ \A x \in S, y \in S : f[x] = f[y] => x = y
    /\ \A t \in T : \E x \in S : f[x] = t

LEMMA AsMany ==
    ASSUME NEW S, NEW T, IsFiniteSet(S), NEW f, Names(f, S, T)
    PROVE  IsFiniteSet(T) /\ Cardinality(T) = Cardinality(S)
<1>. DEFINE g == [x \in S |-> f[x]]
<1>1. g \in Bijection(S, T)
  <2>1. g \in [S -> T] /\ \A x \in S : g[x] = f[x]
    BY DEF Names
  <2>2. g \in Injection(S, T) /\ g \in Surjection(S, T)
    <3>. HIDE DEF g
    <3>. QED BY <2>1 DEF Injection, Surjection, IsInjective, Names
  <2>. HIDE DEF g
  <2>. QED BY <2>2 DEF Bijection
<1>. QED BY <1>1, FS_Bijection DEF ExistsBijection

(* A set made of the members of a finite one is no larger. *)
MadeOf(f, S, T) == \A t \in T : \E x \in S : f[x] = t

LEMMA NoMore ==
    ASSUME NEW S, NEW T, IsFiniteSet(S), NEW f, MadeOf(f, S, T)
    PROVE  IsFiniteSet(T) /\ Cardinality(T) <= Cardinality(S)
<1>. DEFINE R == {x \in S : f[x] \in T}
            g == [x \in R |-> f[x]]
<1>1. IsFiniteSet(R) /\ Cardinality(R) <= Cardinality(S)
  BY FS_Subset
<1>2. g \in Surjection(R, T)
  <2>1. g \in [R -> T] /\ \A x \in R : g[x] = f[x]
    OBVIOUS
  <2>2. \A t \in T : \E x \in R : g[x] = t
    BY DEF MadeOf
  <2>. HIDE DEF g, R
  <2>. QED BY <2>1, <2>2 DEF Surjection
<1>3. IsFiniteSet(T) /\ Cardinality(T) <= Cardinality(R)
  <2>. HIDE DEF g, R
  <2>. QED BY <1>1, <1>2, FS_Surjection
<1>4. Cardinality(R) \in Nat /\ Cardinality(T) \in Nat /\ Cardinality(S) \in Nat
  BY <1>1, <1>3, FS_CardinalityType
<1>. QED BY <1>1, <1>3, <1>4

-----------------------------------------------------------------------------
(* The inductive invariant.  From the first job on the logs are those of    *)
(* this program's clients; what is inside the directory of the test mirrors *)
(* them as far as they are copied; the results are read from that.          *)

NoError == died = ""

Stages == {"off", "open", "clear", "process", "logs", "jobs", "store", "copy", "parse", "report",
           "terminate"}

(* A program that is over and stopped with no exception. *)
Over   == pc \in {"terminate", "off"} /\ run > 0 /\ NoError
Tested == pc \in {"jobs", "store", "copy", "parse", "report"} \/ Over
Sorted == pc \in {"parse", "report"} \/ Over

StageOK ==
    /\ pc \in Stages /\ directory \in Directories /\ run \in 0 .. MaxRuns[directory]
    /\ jobs \in WorkFiles \union {<<>>}
    /\ pc \notin {"off", "terminate"} => NoError
    /\ pc # "off" => run > 0

MadeOK == /\ IsFiniteSet(made) /\ made \subseteq {"inside", "beside"} \X JobNames
          /\ IsFiniteSet(DOMAIN folders)
          /\ \A x \in DOMAIN folders : x = <<x[1], x[2]>> /\ x[1] \in made /\ x[1][2] = x[2].job

(* What is in a file was written by programs that have been started, and    *)
(* before the logs are sorted nothing in a job's directory by this one.     *)
Unsorted == pc \in {"open", "clear", "process", "logs", "jobs", "store"}

AgesOK ==
    /\ \A f \in DOMAIN logs : logs[f].runs \subseteq 1 .. run
    /\ \A x \in DOMAIN folders : /\ folders[x].runs \subseteq 1 .. run
                                 /\ Unsorted => run \notin folders[x].runs

RowOK(r) == r.files > 0 /\ Cardinality(r.rates) <= r.files
RowsOK   == \A j \in DOMAIN rows : RowOK(rows[j])

LogsOK ==
    /\ IsFiniteSet(DOMAIN logs)
    /\ Tested =>
          /\ using \in [Range(jobs) -> Clients] /\ DOMAIN state = Range(jobs)
          /\ \A f \in DOMAIN logs :
                /\ f.job \in Range(jobs) /\ f.host \in Hosts
                /\ \E c \in using[f.job] : f = Log(f.job, c)
                /\ logs[f].runs = {run}
          /\ \A j \in Range(jobs) :
                state[j] = "done" =>
                    \A c \in using[j] : Log(j, c) \in DOMAIN logs /\ logs[Log(j, c)].last = "rate"

(* What is inside the directory of the test is a copy of a log, or was left *)
(* there by an earlier program and by an rmtree that failed.                *)
IsMirrored(x) == x[2] \in DOMAIN logs /\ folders[x] = logs[x[2]]
IsLeft(x)     == ~cleared /\ run \notin folders[x].runs

MirrorOK ==
    Slash => /\ cleared => \A g \in Inside : \E j \in Range(jobs) : g = Folder(j)
             /\ \A x \in DOMAIN folders : x[1] \in Inside => IsMirrored(x) \/ IsLeft(x)

Copy(f)     == <<Folder(f.job), f>>
IsCopied(f) == Copy(f) \in DOMAIN folders /\ folders[Copy(f)] = logs[f]

FoldersOK ==
    /\ cleared \in BOOLEAN
    /\ pc \in {"process", "logs", "jobs", "store"} /\ cleared => Inside = {}
    /\ pc = "copy" \/ Sorted => MirrorOK
    /\ pc = "copy" =>
          /\ todo \in Seq(Range(jobs) \X Hosts)
          /\ \A f \in DOMAIN logs : <<f.job, f.host>> \in Range(todo) \/ IsCopied(f)
          /\ \A j \in Range(jobs) : Folder(j) \in made \/ \A h \in Hosts : <<j, h>> \in Range(todo)
    /\ Sorted => /\ \A f \in DOMAIN logs : IsCopied(f)
                 /\ \A j \in Range(jobs) : Folder(j) \in made

Statistics == [names |-> jobs, state |-> state, run |-> run]
StatisticsOK == pc \in {"copy", "parse", "report"} => pickled = Statistics

ResultsOK ==
    /\ pc = "parse" => todo \in Seq(Inside)
    /\ pc = "parse" /\ Slash =>
          \A j \in Range(jobs) :
              Folder(j) \in Range(todo) \/ (j \in DOMAIN rows /\ rows[j] = Row(Folder(j)))
    /\ (pc = "report" \/ Over) /\ Slash => \A j \in Range(jobs) : results[j] = Row(Folder(j))

TestInv == /\ StageOK /\ MadeOK /\ AgesOK /\ RowsOK /\ LogsOK /\ FoldersOK /\ StatisticsOK
           /\ ResultsOK /\ EvaluationCanBeRepeated

-----------------------------------------------------------------------------
(* The steps: what each does, apart from the names of the errors.            *)

Failing ==
    /\ pc # "off" /\ pc' \in {"off", "terminate"} /\ ~NoError'
    /\ died' \in {"ZeroDivisionError", "IOError"} => pc = "parse"
    /\ UNCHANGED <<run, directory, cleared, jobs, using, state, todo, rows, fileVars>>

Before ==
    \/ pc = "off" /\ pc' = "open" /\ jobs' = <<>> /\ run' = run + 1 /\ run < MaxRuns[directory]
       /\ rows' = NoRows /\ NoError' /\ cleared' = FALSE /\ UNCHANGED <<directory, fileVars>>
    \/ pc = "open" /\ pc' = "clear" /\ UNCHANGED <<run, directory, cleared, jobs, rows, died, fileVars>>
    \/ pc = "process" /\ pc' = "logs" /\ jobs' \in WorkFiles
       /\ UNCHANGED <<run, directory, cleared, rows, died, fileVars>>

Parsed ==
    /\ pc = "parse" /\ pc' = "parse" /\ todo # <<>> /\ ~DividesByZero(Head(todo))
    /\ rows' = Put(rows, Head(todo)[2], Row(Head(todo))) /\ todo' = Tail(todo)
    /\ UNCHANGED <<run, directory, cleared, jobs, using, state, died, fileVars>>

Written ==
    /\ pc = "parse" /\ pc' = "report" /\ todo = <<>> /\ results' = rows
    /\ UNCHANGED <<run, directory, cleared, jobs, using, state, rows, died>>
    /\ UNCHANGED <<logs, folders, made, pickled>>

LEMMA RaiseFails ==
    ASSUME NEW e \in {"LookupError", "AttributeError", "ZeroDivisionError", "IOError", "NameError"},
           Raise(e), UNCHANGED fileVars, pc # "off",
           e \in {"ZeroDivisionError", "IOError"} => pc = "parse"
    PROVE  Failing
<1>1. /\ pc' \in {"off", "terminate"} /\ died' = e
      /\ UNCHANGED <<run, directory, cleared, jobs, using, state, todo, rows>>
  BY DEF Raise
<1>2. ~NoError'
  BY <1>1, Zenon DEF NoError
<1>. QED BY <1>1, <1>2 DEF Failing

LEMMA EntersIs ==
    ASSUME NEW p \in {"jobs", "store", "copy", "parse", "report"}, Enter(NextStage(p))
    PROVE  /\ p = "jobs" => pc' = "store"
           /\ p = "store" => pc' = "copy" /\ todo' = SetToSeq(Range(jobs) \X Hosts)
           /\ p = "copy" => pc' = "parse" /\ todo' = SetToSeq(Inside)
           /\ p = "parse" => pc' = "report"
           /\ p = "report" => pc' = "terminate"
BY DEF Enter, NextStage

LEMMA Steps ==
    ASSUME [Next]_vars
    PROVE  \/ UNCHANGED vars
           \/ Failing \/ Before \/ Parsed \/ Written
           \/ clearTestFolder \/ clearHostsBandwidthLogs \/ (\E j \in Range(jobs) : TryJob(j))
           \/ JobsAreDone \/ StoreStatistics \/ logTestResults \/ AllIsCopied \/ WriteReport
           \/ Terminate \/ ResultsParser
<1>1. CASE StartProgram
  <2>1. /\ pc = "off" /\ pc' = "open" /\ jobs' = <<>> /\ run' = run + 1 /\ run < MaxRuns[directory]
        /\ rows' = NoRows /\ cleared' = FALSE /\ UNCHANGED <<directory, fileVars>>
    BY <1>1, Zenon DEF StartProgram
  <2>2. NoError'
    BY <1>1, Zenon DEF StartProgram, NoError
  <2>. QED BY <2>1, <2>2 DEF Before
<1>2. CASE OpenWorkFile
  BY <1>2, RaiseFails DEF OpenWorkFile, Before
<1>3. CASE ProcessJobs
  BY <1>3, RaiseFails DEF ProcessJobs, Before
<1>4. CASE logPerJobResults
  <2>1. CASE Raise("IOError") \/ Raise("AttributeError") \/ Raise("ZeroDivisionError")
    BY <1>4, <2>1, RaiseFails DEF logPerJobResults
  <2>2. CASE ~(Raise("IOError") \/ Raise("AttributeError") \/ Raise("ZeroDivisionError"))
    BY <1>4, <2>2 DEF logPerJobResults, Parsed
  <2>. QED BY <2>1, <2>2
<1>5. CASE WriteResults
  <2>1. CASE directory = "nested/"
    <3>1. Raise("IOError") /\ pc = "parse" /\ UNCHANGED fileVars
      BY <1>5, <2>1 DEF WriteResults, fileVars
    <3>. QED BY <3>1, RaiseFails
  <2>2. CASE directory # "nested/"
    <3>1. /\ pc = "parse" /\ todo = <<>> /\ results' = rows /\ Enter(NextStage(pc))
          /\ UNCHANGED <<run, directory, cleared, jobs, using, state, rows, died>>
          /\ UNCHANGED <<logs, folders, made, pickled>>
      BY <1>5, <2>2 DEF WriteResults
    <3>2. pc' = "report"
      BY <3>1, EntersIs
    <3>. QED BY <3>1, <3>2 DEF Written
  <2>. QED BY <2>1, <2>2
<1>6. CASE Die
  BY <1>6, RaiseFails DEF Die
<1>. QED BY <1>1, <1>2, <1>3, <1>4, <1>5, <1>6 DEF Next, Program

LEMMA StageStep ==
    ASSUME StageOK, [Next]_vars
    PROVE  StageOK' /\ directory' = directory
<1>e. died' = died => (NoError' <=> NoError)
  BY Zenon DEF NoError
<1>n. MaxRuns[directory] \in Nat
  BY TestRunAssumption DEF StageOK
<1>. USE DEF StageOK, Stages
<1>1. CASE UNCHANGED vars
  BY <1>e, <1>1 DEF vars, programVars
<1>2. CASE Failing
  BY <1>2 DEF Failing
<1>3. CASE Before
  BY <1>e, <1>n, <1>3 DEF Before
<1>4. CASE Parsed \/ Written
  BY <1>e, <1>4 DEF Parsed, Written
<1>5. CASE clearTestFolder \/ clearHostsBandwidthLogs
  BY <1>e, <1>5 DEF clearTestFolder, clearHostsBandwidthLogs
<1>6. CASE \E j \in Range(jobs) : TryJob(j)
  BY <1>e, <1>6 DEF TryJob
<1>7. CASE JobsAreDone
  <2>1. pc = "jobs" /\ Enter(NextStage(pc)) /\ UNCHANGED <<run, directory, jobs, died>>
    BY <1>7 DEF JobsAreDone
  <2>. QED BY <1>e, <2>1, EntersIs
<1>8. CASE StoreStatistics
  <2>1. pc = "store" /\ Enter(NextStage(pc)) /\ UNCHANGED <<run, directory, jobs, died>>
    BY <1>8 DEF StoreStatistics
  <2>. QED BY <1>e, <2>1, EntersIs
<1>9. CASE logTestResults
  BY <1>e, <1>9 DEF logTestResults
<1>10. CASE AllIsCopied
  <2>1. pc = "copy" /\ Enter(NextStage(pc)) /\ UNCHANGED <<run, directory, jobs, died>>
    BY <1>10 DEF AllIsCopied
  <2>. QED BY <1>e, <2>1, EntersIs
<1>11. CASE WriteReport
  <2>1. pc = "report" /\ Enter(NextStage(pc)) /\ UNCHANGED <<run, directory, jobs, died>>
    BY <1>11 DEF WriteReport
  <2>. QED BY <1>e, <2>1, EntersIs
<1>12. CASE Terminate
  BY <1>e, <1>12 DEF Terminate
<1>13. CASE ResultsParser
  BY <1>e, <1>13 DEF ResultsParser, programVars
<1>. QED BY <1>1, <1>2, <1>3, <1>4, <1>5, <1>6, <1>7, <1>8, <1>9, <1>10, <1>11, <1>12, <1>13, Steps

(* The stages from the first job to the end of the program, one after the   *)
(* other: whoever is past one was there.                                    *)
LEMMA StagesFollow ==
    ASSUME StageOK, [Next]_vars
    PROVE  /\ Tested' => Tested \/ clearHostsBandwidthLogs
           /\ Sorted' => Sorted \/ AllIsCopied
           /\ (pc' = "report" \/ Over') => pc = "report" \/ Over \/ Written
           /\ Tested' /\ Tested => UNCHANGED <<run, jobs, using>>
<1>e. died' = died => (NoError' <=> NoError)
  BY Zenon DEF NoError
<1>. USE DEF StageOK, Tested, Sorted, Over
<1>1. CASE UNCHANGED vars
  BY <1>e, <1>1 DEF vars, programVars
<1>2. CASE Failing
  BY <1>2 DEF Failing
<1>3. CASE Before
  BY <1>e, <1>3 DEF Before
<1>4. CASE Parsed \/ Written
  BY <1>e, <1>4 DEF Parsed, Written
<1>5. CASE clearTestFolder \/ clearHostsBandwidthLogs
  BY <1>e, <1>5 DEF clearTestFolder, clearHostsBandwidthLogs
<1>6. CASE \E j \in Range(jobs) : TryJob(j)
  BY <1>e, <1>6 DEF TryJob
<1>7. CASE JobsAreDone
  <2>1. pc = "jobs" /\ Enter(NextStage(pc)) /\ UNCHANGED <<run, directory, jobs, using, died>>
    BY <1>7 DEF JobsAreDone
  <2>. QED BY <1>e, <2>1, EntersIs
<1>8. CASE StoreStatistics
  <2>1. pc = "store" /\ Enter(NextStage(pc)) /\ UNCHANGED <<run, directory, jobs, using, died>>
    BY <1>8 DEF StoreStatistics
  <2>. QED BY <1>e, <2>1, EntersIs
<1>9. CASE logTestResults
  BY <1>e, <1>9 DEF logTestResults
<1>10. CASE AllIsCopied
  <2>1. pc = "copy" /\ Enter(NextStage(pc)) /\ UNCHANGED <<run, directory, jobs, using, died>>
    BY <1>10 DEF AllIsCopied
  <2>. QED BY <1>e, <1>10, <2>1, EntersIs
<1>11. CASE WriteReport
  <2>1. pc = "report" /\ Enter(NextStage(pc)) /\ UNCHANGED <<run, directory, jobs, using, died>>
    BY <1>11 DEF WriteReport
  <2>. QED BY <1>e, <2>1, EntersIs
<1>12. CASE Terminate
  BY <1>e, <1>12 DEF Terminate
<1>13. CASE ResultsParser
  BY <1>e, <1>13 DEF ResultsParser, programVars
<1>. QED BY <1>1, <1>2, <1>3, <1>4, <1>5, <1>6, <1>7, <1>8, <1>9, <1>10, <1>11, <1>12, <1>13, Steps

-----------------------------------------------------------------------------
(* The logs. *)

LEMMA JobsAreFew ==
    ASSUME StageOK
    PROVE  IsFiniteSet(Range(jobs)) /\ Range(jobs) \subseteq JobNames /\ \A j \in Range(jobs) : j \in Seq(Nat)
<1>1. jobs \in Seq(Seq(Nat))
  <2>1. <<>> \in Seq(Seq(Nat)) /\ WorkFiles \subseteq Seq(Seq(Nat))
    BY TestRunAssumption
  <2>. QED BY <2>1 DEF StageOK
<1>2. Len(jobs) \in Nat /\ DOMAIN jobs = 1 .. Len(jobs) /\ \A i \in DOMAIN jobs : jobs[i] \in Seq(Nat)
  BY <1>1
<1>3. IsFiniteSet(1 .. Len(jobs))
  BY <1>2, FS_Interval
<1>4. IsFiniteSet(Range(jobs))
  <2>1. MadeOf(jobs, 1 .. Len(jobs), Range(jobs))
    BY <1>2 DEF MadeOf, Range
  <2>. QED BY <1>3, <2>1, NoMore
<1>5. Range(jobs) \subseteq JobNames
  BY EmptyRange DEF StageOK, JobNames
<1>. QED BY <1>2, <1>4, <1>5 DEF Range

LEMMA LogNames ==
    /\ \A j, c : Log(j, c).job = j /\ Log(j, c).host = c.host
    /\ \A S \in Clients : \A c, d \in S : \A j : Log(j, c) = Log(j, d) => c = d
    /\ \A S \in Clients : IsFiniteSet(S) /\ \A c \in S : c.host \in Hosts
<1>1. ASSUME NEW S \in Clients, NEW c \in S, NEW d \in S, NEW j, Log(j, c) = Log(j, d)
      PROVE  c = d
  <2>1. c.host = d.host /\ c.port = d.port
    BY <1>1 DEF Log
  <2>2. c = [host |-> c.host, port |-> c.port] /\ d = [host |-> d.host, port |-> d.port]
    BY TestRunAssumption
  <2>. QED BY <2>1, <2>2
<1>. QED BY <1>1, TestRunAssumption DEF Log

LEMMA TryJobLogs ==
    ASSUME LogsOK, Tested, NEW j \in Range(jobs), TryJob(j)
    PROVE  /\ IsFiniteSet(DOMAIN logs') /\ DOMAIN logs \subseteq DOMAIN logs'
           /\ \A f \in DOMAIN logs' : \/ f \in DOMAIN logs /\ logs'[f] = logs[f]
                                      \/ /\ \E c \in using[j] : f = Log(j, c)
                                         /\ logs'[f].runs = {run}
           /\ \A f \in DOMAIN logs : f.job # j => logs'[f] = logs[f]
           /\ state'[j] = "done" =>
                 \A c \in using[j] : Log(j, c) \in DOMAIN logs' /\ logs'[Log(j, c)].last = "rate"
           /\ DOMAIN state' = DOMAIN state /\ \A i \in Range(jobs) : i # j => state'[i] = state[i]
           /\ state[j] = "running"
<1>1. PICK outcome \in [using[j] -> Results \union {"none"}] :
          LET opened == {c \in using[j] : outcome[c] # "none"}
              new    == [f \in {Log(j, c) : c \in opened} |->
                            Appended(f, outcome[CHOOSE c \in opened : Log(j, c) = f])]
          IN  /\ logs' = [f \in DOMAIN logs \union DOMAIN new |->
                              IF f \in DOMAIN new THEN new[f] ELSE logs[f]]
              /\ state' = [state EXCEPT ![j] =
                              CASE \A c \in using[j] : outcome[c] = "rate" -> "done"
                                [] tries[j] + 1 = Threshold                -> "failed"
                                [] OTHER                                   -> "running"]
  BY DEF TryJob
<1>. DEFINE opened == {c \in using[j] : outcome[c] # "none"}
            written == {Log(j, c) : c \in opened}
            new == [f \in written |-> Appended(f, outcome[CHOOSE c \in opened : Log(j, c) = f])]
<1>2. /\ logs' = [f \in DOMAIN logs \union written |-> IF f \in written THEN new[f] ELSE logs[f]]
      /\ DOMAIN new = written
  BY <1>1
<1>3. /\ DOMAIN logs' = DOMAIN logs \union written
      /\ \A f \in written : logs'[f] = new[f]
      /\ \A f \in DOMAIN logs \ written : logs'[f] = logs[f]
  <2>. HIDE DEF written, new
  <2>. QED BY <1>2
<1>4. using[j] \in Clients /\ IsFiniteSet(using[j]) /\ DOMAIN state = Range(jobs)
  BY LogNames DEF LogsOK
<1>5. IsFiniteSet(DOMAIN logs')
  <2>. DEFINE name == [c \in using[j] |-> Log(j, c)]
  <2>1. MadeOf(name, using[j], written)
    BY DEF MadeOf
  <2>2. IsFiniteSet(written)
    <3>. HIDE DEF name, written
    <3>. QED BY <1>4, <2>1, NoMore
  <2>3. IsFiniteSet(DOMAIN logs)
    BY DEF LogsOK
  <2>. HIDE DEF written
  <2>4. IsFiniteSet(DOMAIN logs \union written)
    BY <2>2, <2>3, FS_Union
  <2>. QED BY <1>3, <2>4
<1>6. ASSUME NEW f \in written
      PROVE  /\ (\E c \in using[j] : f = Log(j, c)) /\ f.job = j
             /\ logs'[f].runs = {run}
             /\ \E c \in opened : f = Log(j, c) /\ logs'[f].last = outcome[c]
  <2>. DEFINE c == CHOOSE d \in opened : Log(j, d) = f
  <2>1. c \in opened /\ Log(j, c) = f
    OBVIOUS
  <2>2. logs'[f] = Appended(f, outcome[c])
    BY <1>3
  <2>. HIDE DEF c
  <2>3. f \in DOMAIN logs => logs[f].runs = {run}
    BY DEF LogsOK
  <2>4. logs'[f].last = outcome[c] /\ logs'[f].runs = {run}
    <3>1. CASE f \in DOMAIN logs
      <4>1. logs'[f] = [logs[f] EXCEPT !.runs = @ \union {run}, !.last = outcome[c]]
        BY <2>2, <3>1 DEF Appended
      <4>. QED BY <2>3, <3>1, <4>1
    <3>2. CASE f \notin DOMAIN logs
      <4>1. logs'[f] = [runs |-> {run}, first |-> outcome[c], last |-> outcome[c]]
        BY <2>2, <3>2 DEF Appended
      <4>. QED BY <4>1
    <3>. QED BY <3>1, <3>2
  <2>. QED BY <2>1, <2>4, LogNames
<1>7. ASSUME state'[j] = "done", NEW c \in using[j]
      PROVE  Log(j, c) \in DOMAIN logs' /\ logs'[Log(j, c)].last = "rate"
  <2>1. \A d \in using[j] : outcome[d] = "rate"
    BY <1>1, <1>4, <1>7
  <2>2. Log(j, c) \in written
    BY <2>1
  <2>3. PICK d \in opened : logs'[Log(j, c)].last = outcome[d]
    BY <1>6, <2>2
  <2>4. outcome[d] = "rate"
    BY <2>1
  <2>. HIDE DEF written
  <2>. QED BY <1>3, <2>2, <2>3, <2>4
<1>8. DOMAIN state' = DOMAIN state /\ \A i \in Range(jobs) : i # j => state'[i] = state[i]
  BY <1>1, <1>4
<1>9. state[j] = "running"
  BY DEF TryJob
<1>. HIDE DEF written, new, opened
<1>. QED BY <1>3, <1>5, <1>6, <1>7, <1>8, <1>9

LEMMA LogsStep ==
    ASSUME StageOK, LogsOK, [Next]_vars
    PROVE  LogsOK'
<1>f. \A j, c : Log(j, c)' = Log(j, c)
  BY DEF Log
<1>s. /\ Tested' => Tested \/ clearHostsBandwidthLogs
      /\ Tested' /\ Tested => UNCHANGED <<run, jobs, using>>
  BY StagesFollow
<1>1. CASE clearHostsBandwidthLogs
  <2>1. /\ logs' = Without(logs, DOMAIN logs) /\ UNCHANGED <<run, jobs>>
        /\ using' \in [Range(jobs) -> Clients] /\ state' = [j \in Range(jobs) |-> "running"]
    BY <1>1 DEF clearHostsBandwidthLogs, LogsRemoved
  <2>2. DOMAIN logs' = {}
    BY <2>1 DEF Without
  <2>. QED BY <2>1, <2>2, FS_EmptySet DEF LogsOK
<1>2. CASE \E j \in Range(jobs) : TryJob(j)
  <2>1. PICK j \in Range(jobs) : TryJob(j)
    BY <1>2
  <2>2. pc = "jobs" /\ pc' = "jobs" /\ UNCHANGED <<run, jobs, using>>
    BY <2>1 DEF TryJob
  <2>3. Tested /\ Tested'
    BY <2>2 DEF Tested
  <2>. HIDE DEF Tested
  <2>4. /\ IsFiniteSet(DOMAIN logs') /\ DOMAIN logs \subseteq DOMAIN logs'
        /\ \A f \in DOMAIN logs' : \/ f \in DOMAIN logs /\ logs'[f] = logs[f]
                                   \/ /\ \E c \in using[j] : f = Log(j, c)
                                      /\ logs'[f].runs = {run}
        /\ \A f \in DOMAIN logs : f.job # j => logs'[f] = logs[f]
        /\ state'[j] = "done" =>
              \A c \in using[j] : Log(j, c) \in DOMAIN logs' /\ logs'[Log(j, c)].last = "rate"
        /\ DOMAIN state' = DOMAIN state /\ \A i \in Range(jobs) : i # j => state'[i] = state[i]
    BY <2>1, <2>3, TryJobLogs
  <2>5. \A f \in DOMAIN logs' : /\ f.job \in Range(jobs) /\ f.host \in Hosts
                                /\ \E c \in using[f.job] : f = Log(f.job, c)
                                /\ logs'[f].runs = {run}
    BY <2>3, <2>4, LogNames DEF LogsOK
  <2>6. ASSUME NEW i \in Range(jobs), state'[i] = "done", NEW c \in using[i]
        PROVE  Log(i, c) \in DOMAIN logs' /\ logs'[Log(i, c)].last = "rate"
    BY <2>3, <2>4, <2>6, LogNames DEF LogsOK
  <2>. QED BY <1>f, <2>2, <2>3, <2>4, <2>5, <2>6 DEF LogsOK
<1>3. CASE ~clearHostsBandwidthLogs /\ ~(\E j \in Range(jobs) : TryJob(j))
  <2>1. logs' = logs /\ (Tested => UNCHANGED state \/ ~Tested')
    BY <1>3, Steps DEF vars, programVars, fileVars, Failing, Before, Parsed, Written, clearTestFolder,
       JobsAreDone, StoreStatistics, logTestResults, AllIsCopied, WriteReport, Terminate, ResultsParser,
       Tested, Over
  <2>. QED BY <1>f, <1>s, <1>3, <2>1 DEF LogsOK
<1>. QED BY <1>1, <1>2, <1>3

-----------------------------------------------------------------------------
(* The directories of the jobs. *)

LEMMA FolderNames ==
    ASSUME NEW i, NEW j
    PROVE  /\ Folder(i) = Folder(j) => i = j
           /\ Folder(i) = <<Folder(i)[1], Folder(i)[2]>> /\ Folder(i)[2] = i
           /\ Folder(i)[1] = "inside" <=> Slash
           /\ Slash => Folder(i) = <<"inside", i>>
           /\ Folder(i)[1] \in {"inside", "beside"}
BY DEF Folder

LEMMA SameFolders ==
    ASSUME directory' = directory
    PROVE  Slash' = Slash /\ \A j : Folder(j)' = Folder(j)
BY DEF Slash, Folder

(* The new copies that one host's logs of one job make. *)
CopiesOf(j, h) == {<<Folder(j), f>> : f \in {g \in DOMAIN logs : g.host = h /\ g.job = j}}

Copying(j, h) ==
    /\ pc = "copy" /\ pc' = "copy" /\ j \in Range(jobs) /\ h \in Hosts
    /\ made' = made \union {Folder(j)}
    /\ folders' = [x \in DOMAIN folders \union CopiesOf(j, h) |->
                      IF x \in CopiesOf(j, h) THEN logs[x[2]] ELSE folders[x]]
    /\ todo' \in Seq(Range(jobs) \X Hosts) /\ Range(todo) = {<<j, h>>} \union Range(todo')
    /\ UNCHANGED <<run, directory, cleared, jobs, using, state, rows, died, logs, pickled, results>>

LEMMA CopyIs ==
    ASSUME StageOK, FoldersOK, logTestResults,
           NEW j, NEW h, Head(todo) = <<j, h>>
    PROVE  Copying(j, h)
<1>1. pc = "copy" /\ todo # <<>> /\ todo' = Tail(todo) /\ pc' = pc
      /\ UNCHANGED <<run, directory, cleared, jobs, using, state, rows, died, logs, pickled, results>>
  BY DEF logTestResults
<1>2. todo \in Seq(Range(jobs) \X Hosts)
  BY <1>1 DEF FoldersOK
<1>3. /\ Head(todo) \in Range(jobs) \X Hosts /\ Tail(todo) \in Seq(Range(jobs) \X Hosts)
      /\ Range(todo) = {Head(todo)} \union Range(Tail(todo))
  BY <1>1, <1>2, TailOf
<1>4. j \in Range(jobs) /\ h \in Hosts /\ Head(todo)[1] = j /\ Head(todo)[2] = h
  BY <1>3
<1>5. j \in Seq(Nat)
  BY <1>4, JobsAreFew
<1>6. \A f : IsLogOf(f, j) <=> f.job = j
  <2>1. IsPrefix(j, j)
    BY <1>5 DEF IsPrefix
  <2>. QED BY <2>1 DEF IsLogOf
<1>7. {<<Folder(j), f>> : f \in {g \in DOMAIN logs : g.host = h /\ IsLogOf(g, j)}} = CopiesOf(j, h)
  BY <1>6 DEF CopiesOf
<1>8. /\ made' = made \union {Folder(j)}
      /\ folders' = [x \in DOMAIN folders \union CopiesOf(j, h) |->
                        IF x \in CopiesOf(j, h) THEN logs[x[2]] ELSE folders[x]]
  <2>. DEFINE new == {<<Folder(j), f>> : f \in {g \in DOMAIN logs : g.host = h /\ IsLogOf(g, j)}}
  <2>1. /\ made' = made \union {Folder(j)}
        /\ folders' = [x \in DOMAIN folders \union new |-> IF x \in new THEN logs[x[2]] ELSE folders[x]]
    BY <1>4 DEF logTestResults
  <2>. HIDE DEF new
  <2>2. new = CopiesOf(j, h)
    BY <1>7 DEF new
  <2>. QED BY <2>1, <2>2
<1>. QED BY <1>1, <1>3, <1>4, <1>8 DEF Copying

LEMMA CopyOfOne ==
    ASSUME StageOK, FoldersOK, logTestResults
    PROVE  \E j, h : Copying(j, h)
<1>1. todo # <<>> /\ todo \in Seq(Range(jobs) \X Hosts)
  BY DEF logTestResults, FoldersOK
<1>2. Head(todo) \in Range(jobs) \X Hosts
  BY <1>1, TailOf
<1>3. PICK j, h : Head(todo) = <<j, h>>
  BY <1>2
<1>4. Copying(j, h)
  BY <1>3, CopyIs
<1>. QED BY <1>4

LEMMA MadeStep ==
    ASSUME StageOK, MadeOK, LogsOK, FoldersOK, [Next]_vars
    PROVE  MadeOK'
<1>1. CASE clearTestFolder
  <2>1. PICK dirs \in SUBSET Inside, copies \in SUBSET InsideCopies :
            /\ RemovedInPart(dirs, copies)
            /\ made' = made \ dirs /\ folders' = Without(folders, copies)
    BY <1>1 DEF clearTestFolder
  <2>2. DOMAIN folders' = DOMAIN folders \ copies
    BY <2>1 DEF Without
  <2>3. IsFiniteSet(made') /\ IsFiniteSet(DOMAIN folders')
    <3>1. IsFiniteSet(made) /\ IsFiniteSet(DOMAIN folders) /\ DOMAIN folders' \subseteq DOMAIN folders
          /\ made' \subseteq made
      BY <2>1, <2>2 DEF MadeOK
    <3>. QED BY <3>1, FS_Subset
  <2>4. ASSUME NEW x \in DOMAIN folders'
        PROVE  x = <<x[1], x[2]>> /\ x[1] \in made' /\ x[1][2] = x[2].job
    <3>1. x \in DOMAIN folders /\ x \notin copies /\ x[1] \in made
      BY <2>2 DEF MadeOK
    <3>2. x[1] \in dirs => x \in copies
      BY <2>1, <3>1 DEF FilesIn, RemovedInPart
    <3>. QED BY <2>1, <3>1, <3>2 DEF MadeOK
  <2>. QED BY <2>1, <2>3, <2>4 DEF MadeOK
<1>2. CASE logTestResults
  <2>1. PICK j, h : Copying(j, h)
    BY <1>2, CopyOfOne
  <2>2. /\ j \in Range(jobs) /\ made' = made \union {Folder(j)}
        /\ folders' = [x \in DOMAIN folders \union CopiesOf(j, h) |->
                          IF x \in CopiesOf(j, h) THEN logs[x[2]] ELSE folders[x]]
    BY <2>1 DEF Copying
  <2>3. DOMAIN folders' = DOMAIN folders \union CopiesOf(j, h)
    BY <2>2
  <2>4. Folder(j) \in {"inside", "beside"} \X JobNames
    BY <2>2, JobsAreFew, FolderNames
  <2>5. IsFiniteSet(CopiesOf(j, h))
    <3>. DEFINE copy == [f \in DOMAIN logs |-> <<Folder(j), f>>]
    <3>1. MadeOf(copy, DOMAIN logs, CopiesOf(j, h))
      BY DEF MadeOf, CopiesOf
    <3>2. IsFiniteSet(DOMAIN logs)
      BY DEF LogsOK
    <3>. HIDE DEF copy
    <3>. QED BY <3>1, <3>2, NoMore
  <2>6. IsFiniteSet(made) /\ IsFiniteSet(DOMAIN folders)
    BY DEF MadeOK
  <2>7. IsFiniteSet(DOMAIN folders')
    BY <2>3, <2>5, <2>6, FS_Union
  <2>8. IsFiniteSet(made')
    BY <2>2, <2>6, FS_AddElement
  <2>9. \A x \in CopiesOf(j, h) : x = <<x[1], x[2]>> /\ x[1] = Folder(j) /\ x[1][2] = x[2].job
    BY FolderNames DEF CopiesOf
  <2>. QED BY <2>2, <2>3, <2>4, <2>7, <2>8, <2>9 DEF MadeOK
<1>3. CASE ~clearTestFolder /\ ~logTestResults
  <2>1. made' = made /\ folders' = folders
    BY <1>3, Steps DEF vars, programVars, fileVars, Failing, Before, Parsed, Written,
       clearHostsBandwidthLogs, TryJob, JobsAreDone, StoreStatistics, AllIsCopied, WriteReport,
       Terminate, ResultsParser
  <2>. QED BY <2>1 DEF MadeOK
<1>. QED BY <1>1, <1>2, <1>3

LEMMA AgesStep ==
    ASSUME StageOK, LogsOK, FoldersOK, AgesOK, [Next]_vars
    PROVE  AgesOK'
<1>0. run \in Nat
  BY TestRunAssumption DEF StageOK
<1>1. CASE pc = "off" /\ Before
  <2>1. run' = run + 1 /\ pc' = "open" /\ logs' = logs /\ folders' = folders
    BY <1>1 DEF Before, fileVars
  <2>2. 1 .. run \subseteq 1 .. run' /\ run' \notin 1 .. run
    BY <1>0, <2>1
  <2>. QED BY <2>1, <2>2 DEF AgesOK, Unsorted
<1>2. CASE clearTestFolder
  <2>1. PICK copies \in SUBSET InsideCopies : folders' = Without(folders, copies)
    BY <1>2 DEF clearTestFolder
  <2>2. \A x \in DOMAIN folders' : x \in DOMAIN folders /\ folders'[x] = folders[x]
    BY <2>1 DEF Without
  <2>3. pc = "clear" /\ UNCHANGED <<run, logs>>
    BY <1>2 DEF clearTestFolder
  <2>. QED BY <2>2, <2>3 DEF AgesOK, Unsorted
<1>3. CASE clearHostsBandwidthLogs
  <2>1. pc = "logs" /\ logs' = Without(logs, DOMAIN logs) /\ UNCHANGED <<run, folders>>
    BY <1>3 DEF clearHostsBandwidthLogs, LogsRemoved
  <2>2. DOMAIN logs' = {}
    BY <2>1 DEF Without
  <2>. QED BY <2>1, <2>2 DEF AgesOK, Unsorted
<1>4. CASE \E j \in Range(jobs) : TryJob(j)
  <2>1. PICK j \in Range(jobs) : TryJob(j)
    BY <1>4
  <2>2. pc = "jobs" /\ UNCHANGED <<run, folders>>
    BY <2>1 DEF TryJob
  <2>3. Tested /\ run \in 1 .. run
    BY <1>0, <2>2 DEF Tested, StageOK
  <2>4. \A f \in DOMAIN logs' : \/ f \in DOMAIN logs /\ logs'[f] = logs[f]
                                \/ logs'[f].runs = {run}
    BY <2>1, <2>3, TryJobLogs
  <2>. QED BY <2>2, <2>3, <2>4 DEF AgesOK, Unsorted
<1>5. CASE logTestResults
  <2>1. PICK j, h : Copying(j, h)
    BY <1>5, CopyOfOne
  <2>2. /\ pc' = "copy" /\ UNCHANGED <<run, logs>>
        /\ folders' = [x \in DOMAIN folders \union CopiesOf(j, h) |->
                          IF x \in CopiesOf(j, h) THEN logs[x[2]] ELSE folders[x]]
    BY <2>1 DEF Copying
  <2>3. \A x \in CopiesOf(j, h) : x[2] \in DOMAIN logs
    BY DEF CopiesOf
  <2>4. \A x \in DOMAIN folders' : \/ x \in DOMAIN folders /\ folders'[x] = folders[x]
                                   \/ x[2] \in DOMAIN logs /\ folders'[x] = logs[x[2]]
    BY <2>2, <2>3
  <2>5. ~Unsorted'
    BY <2>2 DEF Unsorted
  <2>. QED BY <2>2, <2>4, <2>5 DEF AgesOK
<1>6. CASE ~(\/ (pc = "off" /\ Before) \/ clearTestFolder \/ clearHostsBandwidthLogs \/ logTestResults
             \/ \E j \in Range(jobs) : TryJob(j))
  <2>1. UNCHANGED <<run, logs, folders>> /\ (Unsorted' => Unsorted)
    BY <1>6, Steps, EntersIs DEF vars, programVars, fileVars, Failing, Before, Parsed, Written,
       JobsAreDone, StoreStatistics, AllIsCopied, WriteReport, Terminate, ResultsParser, Unsorted
  <2>. QED BY <2>1 DEF AgesOK
<1>. QED BY <1>1, <1>2, <1>3, <1>4, <1>5, <1>6

LEMMA RowIsOK ==
    ASSUME MadeOK, NEW f, ~DividesByZero(f)
    PROVE  RowOK(Row(f))
<1>. DEFINE T == {y \in FilesIn(f) : HasRate(folders[y])}
            R == {x[2] : x \in T}
            g == [x \in T |-> x[2]]
<1>1. IsFiniteSet(FilesIn(f)) /\ FilesIn(f) # {}
  <2>1. IsFiniteSet(DOMAIN folders) /\ FilesIn(f) \subseteq DOMAIN folders
    BY DEF MadeOK, FilesIn
  <2>. QED BY <2>1, FS_Subset DEF DividesByZero
<1>2. IsFiniteSet(T) /\ Cardinality(T) <= Cardinality(FilesIn(f))
  BY <1>1, FS_Subset
<1>3. IsFiniteSet(R) /\ Cardinality(R) <= Cardinality(T)
  <2>1. MadeOf(g, T, R)
    BY DEF MadeOf
  <2>. HIDE DEF g, T, R
  <2>. QED BY <1>2, <2>1, NoMore
<1>4. Cardinality(FilesIn(f)) \in Nat /\ Cardinality(T) \in Nat /\ Cardinality(R) \in Nat
  BY <1>1, <1>2, <1>3, FS_CardinalityType
<1>5. Cardinality(FilesIn(f)) # 0
  BY <1>1, FS_EmptySet
<1>6. Row(f).files = Cardinality(FilesIn(f)) /\ Row(f).rates = R
  BY DEF Row
<1>. HIDE DEF R, T
<1>. QED BY <1>2, <1>3, <1>4, <1>5, <1>6 DEF RowOK

LEMMA RowsStep ==
    ASSUME MadeOK, RowsOK, [Next]_vars
    PROVE  RowsOK'
<1>1. CASE Before
  <2>1. rows' = rows \/ DOMAIN rows' = {}
    BY <1>1 DEF Before, NoRows
  <2>. QED BY <2>1 DEF RowsOK, RowOK
<1>2. CASE Parsed
  <2>. DEFINE f == Head(todo)
  <2>1. rows' = Put(rows, f[2], Row(f)) /\ ~DividesByZero(f)
    BY <1>2 DEF Parsed
  <2>2. RowOK(Row(f))
    BY <2>1, RowIsOK
  <2>. HIDE DEF f
  <2>3. \A j \in DOMAIN rows' : rows'[j] = Row(f) \/ (j \in DOMAIN rows /\ rows'[j] = rows[j])
    BY <2>1 DEF Put
  <2>. QED BY <2>2, <2>3 DEF RowsOK, RowOK
<1>3. CASE ~Before /\ ~Parsed
  <2>1. rows' = rows
    BY <1>3, Steps DEF vars, programVars, Failing, Written, clearTestFolder,
       clearHostsBandwidthLogs, TryJob, JobsAreDone, StoreStatistics, logTestResults, AllIsCopied,
       WriteReport, Terminate, ResultsParser
  <2>. QED BY <2>1 DEF RowsOK, RowOK
<1>. QED BY <1>1, <1>2, <1>3

LEMMA SameFiles ==
    ASSUME UNCHANGED <<directory, made, folders>>
    PROVE  /\ Inside' = Inside /\ \A f : Row(f)' = Row(f)
           /\ logs' = logs => \A f : IsCopied(f)' = IsCopied(f)
           /\ UNCHANGED <<jobs, logs, run, cleared>> => MirrorOK' = MirrorOK
<1>1. Inside' = Inside /\ Slash' = Slash /\ \A j : Folder(j)' = Folder(j)
  BY SameFolders DEF Inside
<1>2. logs' = logs => \A f : IsCopied(f)' = IsCopied(f)
  BY <1>1 DEF IsCopied, Copy
<1>3. \A f : Row(f)' = Row(f)
  BY DEF Row, FilesIn, HasRate
<1>4. UNCHANGED <<jobs, logs, run, cleared>> => MirrorOK' = MirrorOK
  BY <1>1 DEF MirrorOK, IsMirrored, IsLeft
<1>. QED BY <1>1, <1>2, <1>3, <1>4

LEMMA MirrorGrows ==
    ASSUME MadeOK, MirrorOK, NEW j, NEW h, Copying(j, h)
    PROVE  MirrorOK' /\ \A f \in DOMAIN logs : IsCopied(f) \/ <<f.job, f.host>> = <<j, h>> => IsCopied(f)'
<1>1. Slash' = Slash /\ \A i : Folder(i)' = Folder(i)
  BY SameFolders DEF Copying
<1>2. /\ j \in Range(jobs) /\ made' = made \union {Folder(j)} /\ UNCHANGED <<jobs, logs, run, cleared>>
      /\ folders' = [x \in DOMAIN folders \union CopiesOf(j, h) |->
                        IF x \in CopiesOf(j, h) THEN logs[x[2]] ELSE folders[x]]
  BY DEF Copying
<1>3. /\ DOMAIN folders' = DOMAIN folders \union CopiesOf(j, h)
      /\ \A x \in CopiesOf(j, h) : folders'[x] = logs[x[2]]
      /\ \A x \in DOMAIN folders \ CopiesOf(j, h) : folders'[x] = folders[x]
  BY <1>2
<1>4. \A x \in CopiesOf(j, h) : x[2] \in DOMAIN logs
  BY DEF CopiesOf
<1>5. ASSUME NEW f \in DOMAIN logs, IsCopied(f) \/ <<f.job, f.host>> = <<j, h>>
      PROVE  IsCopied(f)'
  <2>1. Copy(f)[2] = f /\ (<<f.job, f.host>> = <<j, h>> => Copy(f) \in CopiesOf(j, h))
    BY DEF CopiesOf, Copy
  <2>2. Copy(f) \in CopiesOf(j, h) => folders'[Copy(f)] = logs[f]
    BY <1>3, <2>1
  <2>3. Copy(f)' = Copy(f)
    BY <1>1 DEF Copy
  <2>. QED BY <1>2, <1>3, <1>5, <2>1, <2>2, <2>3 DEF IsCopied
<1>6. MirrorOK'
  <2>. SUFFICES ASSUME Slash
                PROVE  /\ cleared => \A g \in Inside' : \E i \in Range(jobs) : g = Folder(i)
                       /\ \A x \in DOMAIN folders' : x[1] \in Inside' =>
                             \/ x[2] \in DOMAIN logs /\ folders'[x] = logs[x[2]]
                             \/ ~cleared /\ run \notin folders'[x].runs
    BY <1>1, <1>2 DEF MirrorOK, IsMirrored, IsLeft
  <2>1. \A g \in Inside' : g \in Inside \/ g = Folder(j)
    BY <1>2 DEF Inside
  <2>2. \A x \in DOMAIN folders : x[1] \in Inside' => x[1] \in Inside
    BY DEF MadeOK, Inside
  <2>. QED BY <1>2, <1>3, <1>4, <2>1, <2>2 DEF MirrorOK, IsMirrored, IsLeft
<1>. QED BY <1>5, <1>6

LEMMA FoldersStep ==
    ASSUME StageOK, MadeOK, AgesOK, LogsOK, FoldersOK, [Next]_vars
    PROVE  FoldersOK'
<1>0. StageOK' /\ directory' = directory
  BY StageStep
<1>s. Sorted' => Sorted \/ AllIsCopied
  BY StagesFollow
<1>n. \A j : Folder(j)' = Folder(j)
  BY <1>0, SameFolders
<1>1. CASE Failing
  BY <1>1 DEF Failing, FoldersOK, Sorted, Over
<1>2. CASE Before
  <2>1. Inside' = Inside
    BY <1>2, SameFiles DEF Before, fileVars
  <2>2. /\ pc' \in {"open", "clear"} \/ (pc = "process" /\ pc' = "logs")
        /\ cleared' = FALSE \/ cleared' = cleared
        /\ pc' = "logs" => cleared' = cleared
    BY <1>2 DEF Before
  <2>3. cleared' \in BOOLEAN
    <3>1. cleared \in BOOLEAN
      BY DEF FoldersOK
    <3>. QED BY <2>2, <3>1, Zenon
  <2>4. pc' = "logs" /\ cleared' => Inside' = {}
    BY <2>1, <2>2 DEF FoldersOK
  <2>5. pc' \notin {"copy", "jobs", "store", "process"} /\ ~Sorted'
    BY <2>2 DEF Sorted, Over
  <2>. QED BY <2>3, <2>4, <2>5 DEF FoldersOK
<1>3. CASE clearTestFolder
  <2>1. PICK dirs \in SUBSET Inside : made' = made \ dirs /\ cleared' = (dirs = Inside)
    BY <1>3 DEF clearTestFolder
  <2>2. pc' = "process" /\ cleared' \in BOOLEAN /\ (cleared' => Inside' = {})
    BY <1>3, <2>1 DEF clearTestFolder, Inside
  <2>. QED BY <2>1, <2>2 DEF FoldersOK, Sorted, Over
<1>4. CASE clearHostsBandwidthLogs \/ JobsAreDone \/ \E j \in Range(jobs) : TryJob(j)
  <2>1. /\ pc \in {"logs", "jobs"} /\ pc' \in {"jobs", "store"}
        /\ UNCHANGED <<directory, cleared, made, folders>>
    BY <1>4, EntersIs DEF clearHostsBandwidthLogs, JobsAreDone, TryJob, fileVars
  <2>2. Inside' = Inside
    BY <2>1, SameFiles
  <2>. QED BY <2>1, <2>2 DEF FoldersOK, Sorted, Over
<1>5. CASE StoreStatistics
  <2>1. /\ pc = "store" /\ Enter(NextStage(pc))
        /\ UNCHANGED <<run, directory, cleared, jobs, using, logs, folders, made>>
    BY <1>5 DEF StoreStatistics
  <2>2. pc' = "copy" /\ todo' = SetToSeq(Range(jobs) \X Hosts)
    BY <2>1, EntersIs
  <2>3. IsFiniteSet(Range(jobs) \X Hosts)
    BY JobsAreFew, FS_Product, TestRunAssumption
  <2>4. todo' \in Seq(Range(jobs) \X Hosts) /\ Range(todo') = Range(jobs) \X Hosts
    BY <2>2, <2>3, SetToSeqOf
  <2>5. cleared => Inside' = {}
    BY <2>1, SameFiles DEF FoldersOK
  <2>6. MirrorOK'
    <3>1. \A x \in DOMAIN folders : run \notin folders[x].runs
      BY <2>1 DEF AgesOK, Unsorted
    <3>2. \A x \in DOMAIN folders : x[1] \in made
      BY DEF MadeOK
    <3>. QED BY <2>1, <2>5, <3>1, <3>2 DEF MirrorOK, IsLeft, FoldersOK
  <2>7. \A f \in DOMAIN logs : <<f.job, f.host>> \in Range(todo')
    BY <2>1, <2>4 DEF LogsOK, Tested
  <2>8. \A j \in Range(jobs) : \A h \in Hosts : <<j, h>> \in Range(todo')
    BY <2>4
  <2>. QED BY <2>1, <2>2, <2>4, <2>6, <2>7, <2>8 DEF FoldersOK, Sorted, Over
<1>6. CASE logTestResults
  <2>1. PICK j, h : Copying(j, h)
    BY <1>6, CopyOfOne
  <2>2. /\ pc = "copy" /\ pc' = "copy" /\ made' = made \union {Folder(j)}
        /\ todo' \in Seq(Range(jobs) \X Hosts) /\ Range(todo) = {<<j, h>>} \union Range(todo')
        /\ jobs' = jobs /\ logs' = logs /\ cleared' = cleared
    BY <2>1 DEF Copying
  <2>3. MirrorOK /\ \A f \in DOMAIN logs : <<f.job, f.host>> \in Range(todo) \/ IsCopied(f)
    BY <2>2 DEF FoldersOK
  <2>4. /\ MirrorOK'
        /\ \A f \in DOMAIN logs : IsCopied(f) \/ <<f.job, f.host>> = <<j, h>> => IsCopied(f)'
    BY <2>1, <2>3, MirrorGrows
  <2>5. \A f \in DOMAIN logs : <<f.job, f.host>> \in Range(todo') \/ IsCopied(f)'
    BY <2>2, <2>3, <2>4
  <2>6. ASSUME NEW i \in Range(jobs)
        PROVE  Folder(i) \in made' \/ \A g \in Hosts : <<i, g>> \in Range(todo')
    <3>1. Folder(i) \in made \/ \A g \in Hosts : <<i, g>> \in Range(todo)
      BY <2>2 DEF FoldersOK
    <3>2. i = j \/ \A g : <<i, g>> # <<j, h>>
      OBVIOUS
    <3>. QED BY <2>2, <3>1, <3>2
  <2>. QED BY <1>n, <2>2, <2>4, <2>5, <2>6 DEF FoldersOK, Sorted, Over
<1>7. CASE AllIsCopied
  <2>1. /\ pc = "copy" /\ todo = <<>> /\ Enter(NextStage(pc))
        /\ UNCHANGED <<run, directory, cleared, jobs, logs, folders, made>>
    BY <1>7 DEF AllIsCopied, fileVars
  <2>2. pc' = "parse" /\ Range(todo) = {}
    BY <2>1, EntersIs, EmptyRange
  <2>3. MirrorOK' /\ \A f : IsCopied(f)' = IsCopied(f)
    BY <2>1, SameFiles DEF FoldersOK
  <2>4. \A j \in Range(jobs) : Folder(j) \in made
    BY <2>1, <2>2, TestRunAssumption DEF FoldersOK
  <2>5. \A f \in DOMAIN logs : IsCopied(f)
    BY <2>1, <2>2 DEF FoldersOK
  <2>. QED BY <1>n, <2>1, <2>2, <2>3, <2>4, <2>5 DEF FoldersOK
<1>8. CASE Parsed \/ Written \/ WriteReport \/ Terminate \/ ResultsParser
  <2>1. /\ pc' \in {"parse", "report", "terminate", "off"}
        /\ UNCHANGED <<run, directory, cleared, jobs, logs, folders, made>>
        /\ pc \in {"parse", "report", "terminate", "off"}
    BY <1>8, EntersIs DEF Parsed, Written, WriteReport, Terminate, ResultsParser, fileVars, programVars
  <2>2. MirrorOK' = MirrorOK /\ \A f : IsCopied(f)' = IsCopied(f)
    BY <2>1, SameFiles
  <2>3. Sorted' => Sorted
    BY <1>s, <2>1 DEF AllIsCopied
  <2>. QED BY <1>n, <2>1, <2>2, <2>3 DEF FoldersOK
<1>9. CASE UNCHANGED vars
  <2>1. UNCHANGED <<directory, cleared, jobs, logs, folders, made, pc, run, died, todo>>
    BY <1>9 DEF vars, programVars, fileVars
  <2>2. Inside' = Inside /\ MirrorOK' = MirrorOK /\ \A f : IsCopied(f)' = IsCopied(f)
    BY <2>1, SameFiles
  <2>3. Sorted' => Sorted \/ pc = "copy"
    BY <1>s DEF AllIsCopied
  <2>4. Sorted' => pc # "copy"
    BY <2>1 DEF Sorted, Over
  <2>. QED BY <1>n, <2>1, <2>2, <2>3, <2>4 DEF FoldersOK
<1>. QED BY <1>1, <1>2, <1>3, <1>4, <1>5, <1>6, <1>7, <1>8, <1>9, Steps

-----------------------------------------------------------------------------
(* The statistics and the results. *)

LEMMA StatisticsStep ==
    ASSUME StageOK, StatisticsOK, [Next]_vars
    PROVE  StatisticsOK'
<1>1. CASE StoreStatistics
  <2>1. pickled' = Statistics /\ UNCHANGED <<jobs, state, run>>
    BY <1>1 DEF StoreStatistics, Statistics
  <2>. QED BY <2>1 DEF StatisticsOK, Statistics
<1>2. CASE AllIsCopied \/ WriteReport
  <2>1. pc \in {"copy", "report"} /\ UNCHANGED <<jobs, state, run, pickled>>
    BY <1>2 DEF AllIsCopied, WriteReport, fileVars
  <2>. QED BY <2>1 DEF StatisticsOK, Statistics
<1>3. CASE JobsAreDone
  <2>1. pc' = "store"
    BY <1>3, EntersIs DEF JobsAreDone
  <2>. QED BY <2>1 DEF StatisticsOK
<1>4. CASE ~(StoreStatistics \/ AllIsCopied \/ WriteReport \/ JobsAreDone)
  <2>1. \/ pc' \notin {"copy", "parse", "report"}
        \/ pc \in {"copy", "parse", "report"} /\ UNCHANGED <<jobs, state, run, pickled>>
    BY <1>4, Steps DEF StageOK, Stages, vars, programVars, fileVars, Failing, Before, Parsed, Written,
       clearTestFolder, clearHostsBandwidthLogs, TryJob, logTestResults, Terminate, ResultsParser
  <2>. QED BY <2>1 DEF StatisticsOK, Statistics
<1>. QED BY <1>1, <1>2, <1>3, <1>4

LEMMA RepeatedStep ==
    ASSUME StageOK, StatisticsOK, FoldersOK, EvaluationCanBeRepeated, [Next]_vars
    PROVE  EvaluationCanBeRepeated'
<1>. DEFINE Bad == died \in {"ZeroDivisionError", "IOError"}
            Kept == pickled = Statistics /\ \A f \in DOMAIN logs : IsCopied(f)
<1>0. EvaluationCanBeRepeated <=> (Bad => Kept)
  BY DEF EvaluationCanBeRepeated, Statistics, IsCopied, Copy
<1>1. EvaluationCanBeRepeated' <=> (Bad' => Kept')
  BY DEF EvaluationCanBeRepeated, Statistics, IsCopied, Copy
<1>2. UNCHANGED <<directory, jobs, state, run, fileVars>> => Kept' = Kept
  BY SameFiles DEF fileVars, Statistics
<1>3. CASE Failing
  <2>1. UNCHANGED <<directory, jobs, state, run, fileVars>>
    BY <1>3 DEF Failing
  <2>2. Bad' => pc = "parse"
    BY <1>3 DEF Failing
  <2>3. pc = "parse" => Kept
    BY DEF StatisticsOK, FoldersOK, Sorted
  <2>. HIDE DEF Kept, Bad
  <2>. QED BY <1>1, <1>2, <2>1, <2>2, <2>3
<1>4. CASE ~Failing
  <2>1. Bad => ~NoError
    BY Zenon DEF NoError
  <2>2. Bad' => ~NoError'
    BY Zenon DEF NoError
  <2>3. Bad => pc \in {"off", "terminate"}
    BY <2>1 DEF StageOK
  <2>4. Bad' => Bad /\ died' = died
    <3>. SUFFICES ASSUME Bad' PROVE died' = died
      OBVIOUS
    <3>. QED BY <1>4, <2>2, Steps DEF vars, programVars, Before, Parsed, Written, clearTestFolder,
                clearHostsBandwidthLogs, TryJob, JobsAreDone, StoreStatistics, logTestResults,
                AllIsCopied, WriteReport, Terminate, ResultsParser
  <2>5. Bad' => pickled' = pickled /\ UNCHANGED <<directory, jobs, state, run, logs, folders, made>>
    <3>. SUFFICES ASSUME Bad', pc \in {"off", "terminate"}
                  PROVE  pickled' = pickled /\ UNCHANGED <<directory, jobs, state, run, logs, folders, made>>
      BY <2>3, <2>4
    <3>. QED BY <1>4, <2>2, Steps DEF vars, programVars, fileVars, Before, Parsed, Written, clearTestFolder,
                clearHostsBandwidthLogs, TryJob, JobsAreDone, StoreStatistics, logTestResults,
                AllIsCopied, WriteReport, Terminate, ResultsParser
  <2>6. Bad' => Kept' = Kept
    BY <2>5, SameFiles DEF Statistics
  <2>. HIDE DEF Kept, Bad
  <2>. QED BY <1>0, <1>1, <2>4, <2>6
<1>. QED BY <1>3, <1>4

LEMMA ResultsStep ==
    ASSUME StageOK, MadeOK, FoldersOK, ResultsOK, [Next]_vars
    PROVE  ResultsOK'
<1>0. StageOK' /\ directory' = directory /\ Slash' = Slash /\ \A j : Folder(j)' = Folder(j)
  BY StageStep, SameFolders
<1>s. (pc' = "report" \/ Over') => pc = "report" \/ Over \/ Written
  BY StagesFollow
<1>1. CASE AllIsCopied
  <2>1. /\ pc = "copy" /\ todo = <<>> /\ Enter(NextStage(pc))
        /\ UNCHANGED <<directory, jobs, logs, folders, made>>
    BY <1>1 DEF AllIsCopied, fileVars
  <2>2. pc' = "parse" /\ todo' = SetToSeq(Inside) /\ Range(todo) = {} /\ Inside' = Inside
    BY <2>1, EntersIs, EmptyRange, SameFiles
  <2>3. IsFiniteSet(Inside)
    <3>1. IsFiniteSet(made) /\ Inside \subseteq made
      BY DEF MadeOK, Inside
    <3>. QED BY <3>1, FS_Subset
  <2>4. todo' \in Seq(Inside) /\ Range(todo') = Inside
    BY <2>2, <2>3, SetToSeqOf
  <2>5. \A j \in Range(jobs) : Folder(j) \in made
    BY <2>1, <2>2, TestRunAssumption DEF FoldersOK
  <2>6. Slash => \A j \in Range(jobs) : Folder(j) \in Inside
    BY <2>5, FolderNames DEF Inside
  <2>. QED BY <1>0, <2>1, <2>2, <2>4, <2>6 DEF ResultsOK, Over
<1>2. CASE Parsed
  <2>. DEFINE f == Head(todo)
  <2>1. /\ pc = "parse" /\ pc' = "parse" /\ todo # <<>> /\ todo' = Tail(todo)
        /\ rows' = Put(rows, f[2], Row(f)) /\ UNCHANGED <<directory, jobs, made, folders>>
    BY <1>2 DEF Parsed, fileVars
  <2>2. /\ f \in Inside /\ todo' \in Seq(Inside) /\ Range(todo) = {f} \union Range(todo')
    BY <2>1, TailOf DEF ResultsOK
  <2>3. Inside' = Inside /\ \A g : Row(g)' = Row(g)
    BY <2>1, SameFiles
  <2>4. f = <<"inside", f[2]>>
    BY <2>2 DEF MadeOK, Inside
  <2>. HIDE DEF f
  <2>5. ASSUME Slash, NEW j \in Range(jobs)
        PROVE  Folder(j) \in Range(todo') \/ (j \in DOMAIN rows' /\ rows'[j] = Row(Folder(j)))
    <3>1. Folder(j) \in Range(todo) \/ (j \in DOMAIN rows /\ rows[j] = Row(Folder(j)))
      BY <2>1, <2>5 DEF ResultsOK
    <3>2. f[2] = j => f = Folder(j)
      BY <2>4, <2>5, FolderNames
    <3>3. Folder(j)[2] = j
      BY FolderNames
    <3>4. /\ DOMAIN rows' = DOMAIN rows \union {f[2]} /\ rows'[f[2]] = Row(f)
          /\ \A i \in DOMAIN rows : i # f[2] => rows'[i] = rows[i]
      BY <2>1 DEF Put
    <3>. QED BY <2>2, <3>1, <3>2, <3>3, <3>4
  <2>6. ~Over' /\ pc' # "report"
    BY <2>1 DEF Over
  <2>. QED BY <1>0, <2>1, <2>2, <2>3, <2>5, <2>6 DEF ResultsOK
<1>3. CASE Written
  <2>1. /\ pc = "parse" /\ pc' = "report" /\ todo = <<>> /\ results' = rows
        /\ UNCHANGED <<directory, jobs, made, folders>>
    BY <1>3 DEF Written
  <2>2. Range(todo) = {} /\ \A g : Row(g)' = Row(g)
    BY <2>1, EmptyRange, SameFiles
  <2>. QED BY <1>0, <2>1, <2>2 DEF ResultsOK
<1>4. CASE ResultsParser
  <2>1. /\ pc = "off" /\ pc' = "off" /\ Slash /\ UNCHANGED <<directory, jobs, made, folders, run, died>>
        /\ results' = [j \in {f[2] : f \in Inside} |-> Row(<<"inside", j>>)]
    BY <1>4 DEF ResultsParser, programVars, Slash
  <2>2. \A g : Row(g)' = Row(g)
    BY <2>1, SameFiles
  <2>3. ASSUME Over, NEW j \in Range(jobs)
        PROVE  results'[j] = Row(Folder(j))
    <3>1. Folder(j) \in made /\ Folder(j) = <<"inside", j>>
      BY <2>1, <2>3, FolderNames DEF FoldersOK, Sorted
    <3>2. Folder(j) \in Inside /\ Folder(j)[2] = j
      BY <3>1 DEF Inside
    <3>3. j \in {f[2] : f \in Inside}
      BY <3>2
    <3>. QED BY <2>1, <3>1, <3>3
  <2>4. Over' => Over
    BY <1>s, <2>1 DEF Written
  <2>. QED BY <1>0, <2>1, <2>2, <2>3, <2>4 DEF ResultsOK
<1>5. CASE WriteReport \/ Terminate \/ UNCHANGED vars
  <2>1. /\ UNCHANGED <<directory, jobs, made, folders, results>>
        /\ pc' \in {"terminate", "off"} \/ UNCHANGED <<pc, todo, rows, run, died>>
    BY <1>5, EntersIs DEF WriteReport, Terminate, vars, programVars, fileVars
  <2>2. Inside' = Inside /\ \A g : Row(g)' = Row(g)
    BY <2>1, SameFiles
  <2>3. pc' = "report" \/ Over' => pc = "report" \/ Over
    <3>1. ~Written \/ ~(pc' = "report" \/ Over')
      BY <1>5, EntersIs DEF WriteReport, Terminate, vars, programVars, Written
    <3>. QED BY <1>s, <3>1
  <2>. QED BY <1>0, <2>1, <2>2, <2>3 DEF ResultsOK
<1>6. CASE ~(AllIsCopied \/ Parsed \/ Written \/ ResultsParser \/ WriteReport \/ Terminate \/ UNCHANGED vars)
  <2>1. pc' \notin {"parse", "report"} /\ ~Over'
    BY <1>6, Steps, EntersIs DEF Failing, Before, clearTestFolder, clearHostsBandwidthLogs, TryJob,
       JobsAreDone, StoreStatistics, logTestResults, Over
  <2>. QED BY <2>1 DEF ResultsOK
<1>. QED BY <1>1, <1>2, <1>3, <1>4, <1>5, <1>6

-----------------------------------------------------------------------------
(* The invariant holds, and the properties follow from it. *)

LEMMA InitIsOK == Init => TestInv
<1>. SUFFICES ASSUME Init PROVE TestInv
  OBVIOUS
<1>1. /\ pc = "off" /\ run = 0 /\ directory \in Directories /\ jobs = <<>> /\ rows = NoRows
      /\ logs = [f \in {} |-> 0] /\ folders = [x \in {} |-> 0] /\ made = {} /\ cleared = FALSE
  BY Zenon DEF Init
<1>2. NoError
  BY Zenon DEF Init, NoError
<1>3. 0 \in 0 .. MaxRuns[directory]
  BY <1>1, TestRunAssumption
<1>4. StageOK
  BY <1>1, <1>2, <1>3 DEF StageOK, Stages
<1>5. MadeOK /\ AgesOK /\ RowsOK
  BY <1>1, FS_EmptySet DEF MadeOK, AgesOK, RowsOK, NoRows
<1>6. ~Tested /\ ~Sorted /\ ~Over
  BY <1>1 DEF Tested, Sorted, Over
<1>7. LogsOK
  BY <1>1, <1>6, FS_EmptySet DEF LogsOK
<1>8. FoldersOK /\ StatisticsOK /\ ResultsOK
  BY <1>1, <1>6 DEF FoldersOK, StatisticsOK, ResultsOK
<1>9. EvaluationCanBeRepeated
  BY <1>2, Zenon DEF EvaluationCanBeRepeated, NoError
<1>. QED BY <1>4, <1>5, <1>7, <1>8, <1>9 DEF TestInv

LEMMA TestInvIsOK == Spec => []TestInv
<1>1. TestInv /\ [Next]_vars => TestInv'
  BY StageStep, MadeStep, AgesStep, RowsStep, LogsStep, FoldersStep, StatisticsStep, ResultsStep, RepeatedStep
     DEF TestInv
<1>. QED BY InitIsOK, <1>1, PTL DEF Spec

(* What ended a program is one of the exceptions that the code raises. *)
DiedOK == died \in {"", "LookupError", "AttributeError", "ZeroDivisionError", "IOError", "NameError"}

LEMMA DiedIsOK == Spec => []DiedOK
<1>1. Init => DiedOK
  BY Zenon DEF Init, DiedOK
<1>2. DiedOK /\ [Next]_vars => DiedOK'
  <2>. SUFFICES ASSUME DiedOK, [Next]_vars PROVE DiedOK'
    OBVIOUS
  <2>1. CASE died' = died
    BY <2>1, Zenon DEF DiedOK
  <2>2. CASE StartProgram
    BY <2>2, Zenon DEF StartProgram, DiedOK
  <2>3. CASE \E e \in {"LookupError", "AttributeError", "ZeroDivisionError", "IOError", "NameError"} :
                Raise(e)
    <3>1. died' \in {"LookupError", "AttributeError", "ZeroDivisionError", "IOError", "NameError"}
      BY <2>3 DEF Raise
    <3>. QED BY <3>1, Zenon DEF DiedOK
  <2>4. \/ died' = died \/ StartProgram
        \/ \E e \in {"LookupError", "AttributeError", "ZeroDivisionError", "IOError", "NameError"} : Raise(e)
    BY DEF Next, Program, OpenWorkFile, clearTestFolder, ProcessJobs, clearHostsBandwidthLogs, TryJob,
       JobsAreDone, StoreStatistics, logTestResults, AllIsCopied, logPerJobResults, WriteResults,
       WriteReport, Terminate, Die, ResultsParser, vars, programVars
  <2>. QED BY <2>1, <2>2, <2>3, <2>4
<1>. QED BY <1>1, <1>2, PTL DEF Spec

LEMMA CopiedIsSorted ==
    ASSUME StageOK, Copied
    PROVE  Sorted
<1>1. pc \in {"parse", "report", "terminate"} /\ NoError
  BY Zenon DEF Copied, NoError
<1>. QED BY <1>1 DEF StageOK, Sorted, Over

(* The copies of logs in one directory, and the logs that are copied. *)
StoredIn(p, L) == {<<p, f>> : f \in L}
LogsIn(X) == {x[2] : x \in X}

LEMMA LogsInIs == \A p, L : LogsIn(StoredIn(p, L)) = L
<1>. SUFFICES ASSUME NEW p, NEW L PROVE LogsIn(StoredIn(p, L)) = L
  OBVIOUS
<1>1. \A x \in StoredIn(p, L) : x[2] \in L
  BY DEF StoredIn
<1>2. ASSUME NEW f \in L PROVE \E x \in StoredIn(p, L) : x[2] = f
  <2>1. <<p, f>> \in StoredIn(p, L) /\ <<p, f>>[2] = f
    BY DEF StoredIn
  <2>. QED BY <2>1
<1>. QED BY <1>1, <1>2 DEF LogsIn

(* What this program has written in a job's directory are the logs of the   *)
(* job, and when the directories of earlier tests are gone nothing else is. *)
Its(j) == {x \in FilesIn(Folder(j)) : run \in folders[x].runs}

LEMMA CopiesOfAJob ==
    ASSUME MadeOK, LogsOK, FoldersOK, Sorted, Slash, NEW j \in Range(jobs)
    PROVE  /\ Its(j) = StoredIn(Folder(j), {f \in DOMAIN logs : f.job = j})
           /\ \A x \in Its(j) : folders[x] = logs[x[2]]
           /\ cleared => Its(j) = FilesIn(Folder(j))
           /\ \A x \in FilesIn(Folder(j)) : x[2].job = j
<1>0. Tested
  BY DEF Sorted, Tested
<1>1. Folder(j) \in Inside
  BY FolderNames DEF FoldersOK, Inside
<1>2. \A f \in DOMAIN logs : run \in logs[f].runs
  BY <1>0 DEF LogsOK
<1>3. ASSUME NEW x \in FilesIn(Folder(j))
      PROVE  /\ x[2].job = j /\ x = <<Folder(j), x[2]>> /\ (IsMirrored(x) \/ IsLeft(x))
             /\ x \in DOMAIN folders
  <2>1. x \in DOMAIN folders /\ x[1] = Folder(j) /\ x = <<x[1], x[2]>> /\ x[1][2] = x[2].job
    BY DEF FilesIn, MadeOK
  <2>2. IsMirrored(x) \/ IsLeft(x)
    BY <1>1, <2>1 DEF FoldersOK, MirrorOK
  <2>. QED BY <2>1, <2>2, FolderNames
<1>4. ASSUME NEW x \in Its(j)
      PROVE  folders[x] = logs[x[2]] /\ x[2] \in DOMAIN logs
  BY <1>3 DEF Its, IsMirrored, IsLeft
<1>5. ASSUME cleared, NEW x \in FilesIn(Folder(j))
      PROVE  x \in Its(j)
  BY <1>2, <1>3, <1>5 DEF Its, IsMirrored, IsLeft
<1>6. ASSUME NEW f \in DOMAIN logs, f.job = j
      PROVE  <<Folder(j), f>> \in Its(j)
  BY <1>2, <1>6 DEF FoldersOK, IsCopied, Copy, FilesIn, Its
<1>7. Its(j) \subseteq FilesIn(Folder(j))
  BY DEF Its
<1>8. Its(j) = StoredIn(Folder(j), {f \in DOMAIN logs : f.job = j})
  <2>1. \A x \in Its(j) : x = <<Folder(j), x[2]>> /\ x[2].job = j /\ x[2] \in DOMAIN logs
    BY <1>3, <1>4, <1>7
  <2>. QED BY <1>6, <2>1 DEF StoredIn
<1>. QED BY <1>3, <1>4, <1>5, <1>7, <1>8

(* The files of a test are well formed, and each log is where the parser    *)
(* looks for it.                                                            *)
THEOREM LogsAreAlwaysSound == Spec => []LogsAreSound
<1>1. TestInv /\ DiedOK => TypeOK
  <2>. SUFFICES ASSUME TestInv, DiedOK PROVE TypeOK
    OBVIOUS
  <2>1. /\ pc \in Stages /\ run \in 0 .. MaxRuns[directory] /\ jobs \in WorkFiles \union {<<>>}
        /\ cleared \in BOOLEAN
    BY DEF TestInv, StageOK, FoldersOK
  <2>2. {x[1] : x \in DOMAIN folders} \subseteq made /\ made \subseteq {"inside", "beside"} \X JobNames
    BY DEF TestInv, MadeOK
  <2>3. \A j \in DOMAIN rows : rows[j].files > 0 /\ Cardinality(rows[j].rates) <= rows[j].files
    BY DEF TestInv, RowsOK, RowOK
  <2>. QED BY <2>1, <2>2, <2>3, Zenon DEF TypeOK, DiedOK, Stages
<1>2. TestInv => LogsAreSorted
  <2>. SUFFICES ASSUME TestInv, Copied, Slash, NEW j \in Range(jobs)
                PROVE  /\ {x[2] : x \in {y \in FilesIn(Folder(j)) : run \in folders[y].runs}} =
                                {f \in DOMAIN logs : f.job = j}
                       /\ \A x \in FilesIn(Folder(j)) : x[2].job = j
    BY DEF LogsAreSorted
  <2>1. Sorted
    BY CopiedIsSorted DEF TestInv
  <2>2. /\ Its(j) = StoredIn(Folder(j), {f \in DOMAIN logs : f.job = j})
        /\ \A x \in FilesIn(Folder(j)) : x[2].job = j
    BY <2>1, CopiesOfAJob DEF TestInv
  <2>3. LogsIn(Its(j)) = {f \in DOMAIN logs : f.job = j}
    BY <2>2, LogsInIs
  <2>. QED BY <2>2, <2>3 DEF LogsIn, Its
<1>. QED BY TestInvIsOK, DiedIsOK, <1>1, <1>2, PTL DEF LogsAreSound

(* Nothing of an earlier test is among the results. *)
THEOREM ResultsAreAlwaysOfThisTest == Spec => []ResultsAreOfThisTest
<1>1. TestInv => ResultsAreOfThisTest
  <2>. SUFFICES ASSUME TestInv PROVE ResultsAreOfThisTest
    OBVIOUS
  <2>1. pc = "jobs" => \A f \in DOMAIN logs : logs[f].runs = {run}
    BY DEF TestInv, LogsOK, Tested
  <2>2. ASSUME Copied, Slash
        PROVE  /\ \A j \in Range(jobs) : Folder(j) \in Inside
               /\ \A x \in DOMAIN folders :
                     x[1] \in Inside /\ x[2] \in DOMAIN logs => folders[x].runs = {run}
               /\ cleared =>
                     /\ Inside = {Folder(j) : j \in Range(jobs)}
                     /\ \A x \in DOMAIN folders : x[1] \in Inside => folders[x].runs = {run}
    <3>1. Sorted /\ Tested
      BY <2>2, CopiedIsSorted DEF TestInv, Sorted, Tested
    <3>2. /\ MirrorOK /\ \A f \in DOMAIN logs : IsCopied(f)
          /\ \A j \in Range(jobs) : Folder(j) \in made
      BY <3>1 DEF TestInv, FoldersOK
    <3>3. \A j \in Range(jobs) : Folder(j) \in Inside
      BY <2>2, <3>2, FolderNames DEF Inside
    <3>4. cleared => \A g \in Inside : \E j \in Range(jobs) : g = Folder(j)
      BY <2>2, <3>2 DEF MirrorOK
    <3>5. \A f \in DOMAIN logs : logs[f].runs = {run}
      BY <3>1 DEF TestInv, LogsOK
    <3>6. ASSUME NEW x \in DOMAIN folders, x[1] \in Inside, x[2] \in DOMAIN logs
          PROVE  folders[x].runs = {run}
      <4>1. x = <<x[1], x[2]>> /\ x[1] = <<x[1][1], x[1][2]>> /\ x[1][2] = x[2].job
        BY DEF TestInv, MadeOK
      <4>2. x = Copy(x[2])
        BY <2>2, <3>6, <4>1, FolderNames DEF Copy, Inside
      <4>. QED BY <3>2, <3>5, <3>6, <4>2 DEF IsCopied
    <3>7. cleared => \A x \in DOMAIN folders : x[1] \in Inside => folders[x].runs = {run}
      BY <2>2, <3>2, <3>5 DEF MirrorOK, IsMirrored, IsLeft
    <3>. QED BY <3>3, <3>4, <3>6, <3>7
  <2>. QED BY <2>1, <2>2 DEF ResultsAreOfThisTest
<1>. QED BY TestInvIsOK, <1>1, PTL

(* A job whose clients all succeeded has the rate of each of its logs. *)
LEMMA DoneIsMeasured ==
    ASSUME TestInv, Over, Slash, NEW j \in Range(jobs), state[j] = "done"
    PROVE  /\ {Log(j, c) : c \in using[j]} \subseteq results[j].rates
           /\ cleared => results[j] = [files |-> Cardinality(using[j]),
                                       rates |-> {Log(j, c) : c \in using[j]}]
<1>. DEFINE L == {Log(j, c) : c \in using[j]}
            F == Its(j)
<1>0. Sorted /\ Tested
  BY DEF Sorted, Tested
<1>1. results[j] = Row(Folder(j))
  BY DEF TestInv, ResultsOK
<1>2. {f \in DOMAIN logs : f.job = j} = L
  <2>1. \A c \in using[j] : Log(j, c) \in DOMAIN logs /\ Log(j, c).job = j
    BY <1>0, LogNames DEF TestInv, LogsOK
  <2>2. \A f \in DOMAIN logs : f.job = j => \E c \in using[j] : f = Log(j, c)
    BY <1>0 DEF TestInv, LogsOK
  <2>. QED BY <2>1, <2>2
<1>3. /\ F = StoredIn(Folder(j), L) /\ \A x \in F : folders[x] = logs[x[2]]
      /\ cleared => F = FilesIn(Folder(j))
  <2>. HIDE DEF L
  <2>. QED BY <1>0, <1>2, CopiesOfAJob DEF TestInv
<1>4. \A x \in F : HasRate(folders[x])
  <2>1. \A f \in L : logs[f].last = "rate"
    BY <1>0 DEF TestInv, LogsOK
  <2>2. \A x \in F : x[2] \in L
    <3>. HIDE DEF L, F
    <3>. QED BY <1>3 DEF StoredIn
  <2>. HIDE DEF L, F
  <2>. QED BY <1>3, <2>1, <2>2 DEF HasRate
<1>5. using[j] \in Clients /\ IsFiniteSet(using[j])
  BY <1>0, LogNames DEF TestInv, LogsOK
<1>6. Cardinality(F) = Cardinality(using[j])
  <2>. DEFINE copy == [c \in using[j] |-> <<Folder(j), Log(j, c)>>]
  <2>1. \A c \in using[j] : copy[c] = <<Folder(j), Log(j, c)>>
    OBVIOUS
  <2>2. \A c \in using[j], d \in using[j] : copy[c] = copy[d] => c = d
    <3>1. \A f, g : <<Folder(j), f>> = <<Folder(j), g>> => f = g
      OBVIOUS
    <3>. HIDE DEF copy
    <3>. QED BY <1>5, <2>1, <3>1, LogNames
  <2>3. /\ \A c \in using[j] : copy[c] \in F
        /\ \A x \in F : \E c \in using[j] : copy[c] = x
    <3>1. /\ \A c \in using[j] : <<Folder(j), Log(j, c)>> \in StoredIn(Folder(j), L)
          /\ \A x \in StoredIn(Folder(j), L) : \E c \in using[j] : <<Folder(j), Log(j, c)>> = x
      BY DEF StoredIn
    <3>. HIDE DEF copy, F, L
    <3>. QED BY <1>3, <2>1, <3>1
  <2>. HIDE DEF copy, F, L
  <2>4. Names(copy, using[j], F)
    BY <2>2, <2>3 DEF Names
  <2>. QED BY <1>5, <2>4, AsMany
<1>7. {x[2] : x \in {y \in F : HasRate(folders[y])}} = L
  <2>1. {y \in F : HasRate(folders[y])} = F
    <3>. HIDE DEF F
    <3>. QED BY <1>4
  <2>2. LogsIn(F) = L
    <3>. HIDE DEF F, L
    <3>. QED BY <1>3, LogsInIs
  <2>. HIDE DEF F, L
  <2>. QED BY <2>1, <2>2 DEF LogsIn
<1>8. Row(Folder(j)) = [files |-> Cardinality(FilesIn(Folder(j))),
                        rates |-> {x[2] : x \in {y \in FilesIn(Folder(j)) : HasRate(folders[y])}}]
  BY DEF Row
<1>9. F \subseteq FilesIn(Folder(j))
  BY DEF Its
<1>10. L \subseteq results[j].rates
  <2>1. results[j].rates = {x[2] : x \in {y \in FilesIn(Folder(j)) : HasRate(folders[y])}}
    BY <1>1, <1>8
  <2>. HIDE DEF F, L
  <2>. QED BY <1>7, <1>9, <2>1
<1>. HIDE DEF F
<1>. QED BY <1>1, <1>3, <1>6, <1>7, <1>8, <1>10

THEOREM DoneJobsAreAlwaysMeasured == Spec => []DoneJobsAreMeasured
<1>1. TestInv => DoneJobsAreMeasured
  <2>. SUFFICES ASSUME TestInv, pc = "off", run > 0, died = "", directory = "plain/",
                       NEW j \in Range(jobs), state[j] = "done"
                PROVE  /\ {Log(j, c) : c \in using[j]} \subseteq results[j].rates
                       /\ cleared => results[j] = [files |-> Cardinality(using[j]),
                                                   rates |-> {Log(j, c) : c \in using[j]}]
    BY Zenon DEF DoneJobsAreMeasured
  <2>1. Over
    BY Zenon DEF Over, NoError
  <2>2. Slash
    BY DEF Slash
  <2>. QED BY <2>1, <2>2, DoneIsMeasured
<1>. QED BY TestInvIsOK, <1>1, PTL

(* A program that dies while it evaluates the logs has stored what an       *)
(* evaluation by hand needs.                                                *)
THEOREM EvaluationsCanAlwaysBeRepeated == Spec => []EvaluationCanBeRepeated
<1>1. TestInv => EvaluationCanBeRepeated
  BY DEF TestInv
<1>. QED BY TestInvIsOK, <1>1, PTL

=============================================================================
