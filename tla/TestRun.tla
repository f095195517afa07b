------------------------------- MODULE TestRun -------------------------------
(***************************************************************************)
(* The files of a test: BandwidthShare.py's main program and what          *)
(* MapReduceScheduler.runTest does before and after its jobs run, with     *)
(* FileConstants, JSONParser, IperfResultsParser and ResultsParser.        *)
(* Clients leave their logs in /tmp/<host>/ and append to a log that is    *)
(* there; runTest sorts the logs into a directory for each job and reads   *)
(* the rates from their ends.  Files outlive a program, which may die at   *)
(* any step.  How the jobs are placed and retried is the matter of         *)
(* Scheduler and MapReduceJob.                                             *)
(***************************************************************************)
EXTENDS Naturals, Sequences, FiniteSets, SequencesExt

CONSTANTS
    Hosts,          \* hostList
    Clients,        \* what a job may use: sets of [host, port]
    WorkFiles,      \* the names of the jobs that work files admit, as sequences of names
    Threshold,      \* how often a job is tried (MapReduceJob._retryThreshold)
    Directories,    \* how the operator names the output directory: "plain/", "nested/", "plain"
    MaxRuns,        \* how many programs are run one after the other with each directory
    MaxLeft         \* bound on the logs that an rmtree that fails leaves

\* A job is named "job" and digits; a name is the sequence of the digits.
JobNames == UNION {Range(w) : w \in WorkFiles}

ASSUME TestRunAssumption ==
    /\ IsFiniteSet(Hosts) /\ Hosts # {}
    /\ \A S \in Clients : IsFiniteSet(S)
    /\ \A c \in UNION Clients : c = [host |-> c.host, port |-> c.port] /\ c.host \in Hosts
    /\ WorkFiles \subseteq Seq(Seq(Nat))
    /\ \A w \in WorkFiles : IsInjective(w) /\ \A i \in DOMAIN w : Len(w[i]) > 0
    /\ Threshold \in Nat \ {0}
    /\ Directories \subseteq {"plain/", "nested/", "plain"}
    /\ MaxRuns \in [Directories -> Nat \ {0}] /\ MaxLeft \in Nat

VARIABLES
    pc,         \* where the main program is
    run,        \* how many programs have been started
    directory,  \* arguments.outputDirectory
    jobs,       \* the names in the work queue, in its order
    using,      \* the clients of each job
    tries,      \* how often each job has been tried
    state,      \* "running", "done" or "failed" for each job
    todo,       \* what is left of the loop: jobs and hosts, or directories
    rows,       \* the results of logPerJobResults so far
    died,       \* what ended the program: "" or the exception
    cleared,    \* whether rmtree removed the directories of earlier jobs
    logs,       \* /tmp/<host>/: from a log to what is in it
    folders,    \* the directories of jobs: from a log's copy to what is in it
    made,       \* the directories of jobs that exist
    pickled,    \* PickledJobs.dat: the jobs and how they ended, NoFile
    results     \* the rows of Results...csv

programVars == <<pc, run, directory, jobs, using, tries, state, todo, rows, died, cleared>>
fileVars    == <<logs, folders, made, pickled, results>>
vars        == <<programVars, fileVars>>

NoFile   == [names |-> <<>>, state |-> <<>>, run |-> 0]
NoRows   == [j \in {} |-> 0]

Log(j, c)  == [job |-> j, host |-> c.host, port |-> c.port]
Slash      == directory # "plain"

\* Without a slash at its end the name of the directory runs into that of the job.
Folder(j)   == <<IF Slash THEN "inside" ELSE "beside", j>>
Inside      == {f \in made : f[1] = "inside"}
FilesIn(f) == {x \in DOMAIN folders : x[1] = f}

Init ==
    /\ pc = "off" /\ run = 0 /\ directory \in Directories
    /\ jobs = <<>> /\ using = <<>> /\ tries = <<>> /\ state = <<>> /\ todo = <<>>
    /\ rows = NoRows /\ died = "" /\ cleared = FALSE
    /\ logs = [f \in {} |-> 0] /\ folders = [x \in {} |-> 0] /\ made = {}
    /\ pickled = NoFile /\ results = NoRows

Without(f, S) == [x \in DOMAIN f \ S |-> f[x]]
Put(f, x, v) == [y \in DOMAIN f \union {x} |-> IF y = x THEN v ELSE f[y]]

-----------------------------------------------------------------------------
(* The main program, up to the jobs.                                       *)
StartProgram ==
    /\ pc = "off" /\ run < MaxRuns[directory]
    /\ run' = run + 1 /\ pc' = "open"
    /\ jobs' = <<>> /\ using' = <<>> /\ tries' = <<>> /\ state' = <<>> /\ todo' = <<>>
    /\ rows' = NoRows /\ died' = "" /\ cleared' = FALSE
    /\ UNCHANGED <<directory, fileVars>>

(* A LookupError is caught, and the program ends in good order.  Another   *)
(* exception ends the main thread only: the reducer manager runs on until  *)
(* the operator kills the program, and neither is terminated.              *)
Raise(e) ==
    /\ pc' = IF e = "LookupError" THEN "terminate" ELSE "off"
    /\ died' = e
    /\ UNCHANGED <<run, directory, cleared, jobs, using, tries, state, todo, rows>>

OpenWorkFile ==
    /\ pc = "open"
    /\ \/ pc' = "clear" /\ UNCHANGED <<run, directory, cleared, jobs, using, tries, state, todo, rows, died>>
       \/ Raise("LookupError")
    /\ UNCHANGED fileVars

(* rmtree and mkdir; what stands beside the directory stays.  An error is  *)
(* caught: rmtree stops at what it cannot remove, with one directory       *)
(* removed in part and others not at all, and mkdir finds the directory.   *)
(* Of the files in it, the results are written anew before they are read.  *)
InsideCopies == UNION {FilesIn(f) : f \in Inside}

RemovedInPart(dirs, copies) ==
    /\ Cardinality(InsideCopies \ copies) <= MaxLeft
    /\ \A f \in dirs : FilesIn(f) \subseteq copies
    /\ \A f, g \in Inside \ dirs :
          FilesIn(f) \intersect copies # {} /\ FilesIn(g) \intersect copies # {} => f = g

clearTestFolder ==
    /\ pc = "clear" /\ pc' = "process"
    /\ \E dirs \in SUBSET Inside, copies \in SUBSET InsideCopies :
          /\ RemovedInPart(dirs, copies)
          /\ made' = made \ dirs /\ folders' = Without(folders, copies)
          /\ cleared' = (dirs = Inside)
    /\ pickled' \in {pickled, NoFile}
    /\ results' = IF Slash THEN NoRows ELSE results
    /\ UNCHANGED <<run, directory, jobs, using, tries, state, todo, rows, died, logs>>

\* "len( self.workQueue ) == True" is true of one job.
ProcessJobs ==
    /\ pc = "process"
    /\ \E w \in WorkFiles :
          IF Len(w) = 1
          THEN Raise("LookupError")
          ELSE /\ jobs' = w /\ pc' = "logs"
               /\ UNCHANGED <<run, directory, cleared, using, tries, state, todo, rows, died>>
    /\ UNCHANGED fileVars

\* Faulty: only the .csv files are removed.
LogsKept == {}

LogsRemoved == DOMAIN logs

\* removeFiles, for every host; then the jobs get their hosts.
clearHostsBandwidthLogs ==
    /\ pc = "logs" /\ pc' = "jobs"
    /\ logs' = Without(logs, LogsRemoved)
    /\ using' \in [Range(jobs) -> Clients]
    /\ tries' = [j \in Range(jobs) |-> 0]
    /\ state' = [j \in Range(jobs) |-> "running"]
    /\ UNCHANGED <<run, directory, cleared, jobs, todo, rows, died, folders, made, pickled, results>>

-----------------------------------------------------------------------------
(* The jobs.  A client appends to its log what ends in a rate or not, or   *)
(* does not get as far as to open it.                                      *)
Results == {"rate", "other"}

Appended(f, r) ==
    IF f \in DOMAIN logs
    THEN [logs[f] EXCEPT !.runs = @ \union {run}, !.last = r]
    ELSE [runs |-> {run}, first |-> r, last |-> r]

\* A job has succeeded when all its clients have.
TryJob(j) ==
    /\ pc = "jobs" /\ state[j] = "running"
    /\ \E outcome \in [using[j] -> Results \union {"none"}] :
          LET opened == {c \in using[j] : outcome[c] # "none"}
              new    == [f \in {Log(j, c) : c \in opened} |->
                            Appended(f, outcome[CHOOSE c \in opened : Log(j, c) = f])]
          IN  /\ logs' = [f \in DOMAIN logs \union DOMAIN new |->
                              IF f \in DOMAIN new THEN new[f] ELSE logs[f]]
              /\ tries' = [tries EXCEPT ![j] = @ + 1]
              /\ state' = [state EXCEPT ![j] =
                              CASE \A c \in using[j] : outcome[c] = "rate" -> "done"
                                [] tries[j] + 1 = Threshold                -> "failed"
                                [] OTHER                                   -> "running"]
    /\ UNCHANGED <<pc, run, directory, cleared, jobs, using, todo, rows, died>>
    /\ UNCHANGED <<folders, made, pickled, results>>

-----------------------------------------------------------------------------
(* After the jobs: what is done in which order.                            *)
\* Faulty: the statistics are stored when everything else is done.
StoreLast(p) == CASE p = "jobs" -> "copy" [] p = "store" -> "report"
                  [] p = "copy" -> "parse" [] p = "parse" -> "store" [] p = "report" -> "terminate"

NextStage(p) == CASE p = "jobs" -> "store" [] p = "store" -> "copy"
                  [] p = "copy" -> "parse" [] p = "parse" -> "report" [] p = "report" -> "terminate"

Enter(p) ==
    /\ pc' = p
    /\ todo' = CASE p = "copy"  -> SetToSeq(Range(jobs) \X Hosts)
                 [] p = "parse" -> SetToSeq(Inside)
                 [] OTHER       -> <<>>

JobsAreDone ==
    /\ pc = "jobs" /\ \A j \in Range(jobs) : state[j] # "running"
    /\ Enter(NextStage(pc))
    /\ UNCHANGED <<run, directory, cleared, jobs, using, tries, state, rows, died, fileVars>>

\* storeJobStatInFile; the statistics are read again, and the first report is written.
StoreStatistics ==
    /\ pc = "store"
    /\ pickled' = [names |-> jobs, state |-> state, run |-> run]
    /\ Enter(NextStage(pc))
    /\ UNCHANGED <<run, directory, cleared, jobs, using, tries, state, rows, died, logs, folders, made, results>>

\* Faulty: job1 also gets the logs of job12.
NameIsFound(f, j) == IsPrefix(j, f.job)

\* find() finds the name of the job also where a longer one is; the digits up to the
\* P of "Port" are compared.
IsLogOf(f, j) == IsPrefix(j, f.job) /\ f.job = j

\* logTestResults: a directory for the job, and copyJobLogs from one host.
logTestResults ==
    /\ pc = "copy" /\ todo # <<>>
    /\ LET j     == Head(todo)[1]
           found == {f \in DOMAIN logs : f.host = Head(todo)[2] /\ IsLogOf(f, j)}
           new   == {<<Folder(j), f>> : f \in found}
       IN  /\ made' = made \union {Folder(j)}
           /\ folders' = [x \in DOMAIN folders \union new |-> IF x \in new THEN logs[x[2]] ELSE folders[x]]
    /\ todo' = Tail(todo)
    /\ UNCHANGED <<pc, run, directory, cleared, jobs, using, tries, state, rows, died>>
    /\ UNCHANGED <<logs, pickled, results>>

AllIsCopied ==
    /\ pc = "copy" /\ todo = <<>>
    /\ Enter(NextStage(pc))
    /\ UNCHANGED <<run, directory, cleared, jobs, using, tries, state, rows, died, fileVars>>

-----------------------------------------------------------------------------
(* logPerJobResults of IperfResultsParser.  The rate is read in the fourth *)
(* line from the end; a file where there is none is skipped, but counted.  *)
\* Faulty: the rate of the first client that wrote to the log is taken.
FirstOutput(log) == log.first = "rate"

HasRate(log) == log.last = "rate"

Row(f) ==
    [files |-> Cardinality(FilesIn(f)),
     rates |-> {x[2] : x \in {y \in FilesIn(f) : HasRate(folders[y])}}]

DividesByZero(f) == FilesIn(f) = {}

\* findJob returns None for a directory that is no job's, and None has no bytesToSend.
NoSuchJob(f) == f[2] \notin Range(pickled.names)

logPerJobResults ==
    /\ pc = "parse" /\ todo # <<>>
    /\ LET f == Head(todo)
       IN  IF pickled = NoFile THEN Raise("IOError")
           ELSE IF NoSuchJob(f) THEN Raise("AttributeError")
           ELSE IF DividesByZero(f) THEN Raise("ZeroDivisionError")
           ELSE /\ rows' = Put(rows, f[2], Row(f)) /\ todo' = Tail(todo)
                /\ UNCHANGED <<pc, run, directory, cleared, jobs, using, tries, state, died>>
    /\ UNCHANGED fileVars

\* The name of the report holds that of the directory: with a slash in it, it names a
\* directory that is not there.
WriteResults ==
    /\ pc = "parse" /\ todo = <<>>
    /\ IF directory = "nested/"
       THEN Raise("IOError") /\ UNCHANGED results
       ELSE /\ results' = rows /\ Enter(NextStage(pc))
            /\ UNCHANGED <<run, directory, cleared, jobs, using, tries, state, rows, died>>
    /\ UNCHANGED <<logs, folders, made, pickled>>

\* The second report.
WriteReport ==
    /\ pc = "report"
    /\ Enter(NextStage(pc))
    /\ UNCHANGED <<run, directory, cleared, jobs, using, tries, state, rows, died>>
    /\ UNCHANGED <<logs, folders, made, pickled, results>>

Terminate ==
    /\ pc = "terminate" /\ pc' = "off"
    /\ UNCHANGED <<run, directory, cleared, jobs, using, tries, state, todo, rows, died, fileVars>>

\* The program dies: a file cannot be written or removed (the loops that would try again
\* call time.sleep in modules that do not import time), or somebody kills it.
Die ==
    /\ pc # "off" /\ run < MaxRuns[directory]
    /\ Raise("NameError")
    /\ UNCHANGED fileVars

-----------------------------------------------------------------------------
(* ResultsParser.py, run by hand: logPerJobResults on an old directory.    *)
ResultsParser ==
    /\ pc = "off" /\ directory = "plain/" /\ pickled # NoFile
    /\ \A f \in Inside : ~NoSuchJob(f) /\ ~DividesByZero(f)
    /\ results' = [j \in {f[2] : f \in Inside} |-> Row(<<"inside", j>>)]
    /\ UNCHANGED <<programVars, logs, folders, made, pickled>>

Program == \/ OpenWorkFile \/ clearTestFolder \/ ProcessJobs \/ clearHostsBandwidthLogs
           \/ (\E j \in Range(jobs) : TryJob(j)) \/ JobsAreDone \/ StoreStatistics
           \/ logTestResults \/ AllIsCopied \/ logPerJobResults \/ WriteResults \/ WriteReport
           \/ Terminate

Next == StartProgram \/ Program \/ Die \/ ResultsParser

Spec == Init /\ [][Next]_vars

-----------------------------------------------------------------------------
(* Properties *)

Copied == pc \in {"parse", "report", "terminate"} /\ died = ""

TypeOK ==
    /\ pc \in {"off", "open", "clear", "process", "logs", "jobs", "store", "copy", "parse",
               "report", "terminate"}
    /\ run \in 0 .. MaxRuns[directory] /\ jobs \in WorkFiles \union {<<>>}
    /\ died \in {"", "LookupError", "AttributeError", "ZeroDivisionError", "IOError", "NameError"}
    /\ {x[1] : x \in DOMAIN folders} \subseteq made /\ cleared \in BOOLEAN
    /\ made \subseteq {"inside", "beside"} \X JobNames
    /\ \A j \in DOMAIN rows : rows[j].files > 0 /\ Cardinality(rows[j].rates) <= rows[j].files

\* Once the logs are sorted, the directory of a job holds, of what this program's clients
\* wrote, the job's logs from every host and no other, also of no job whose name goes on
\* where its own ends, whatever an rmtree that failed left there (copyJobLogs).
LogsAreSorted ==
    Copied /\ Slash =>
        \A j \in Range(jobs) :
            /\ {x[2] : x \in {y \in FilesIn(Folder(j)) : run \in folders[y].runs}} =
                    {f \in DOMAIN logs : f.job = j}
            /\ \A x \in FilesIn(Folder(j)) : x[2].job = j

\* The files of a test are well formed and each log is where the parser looks for it.
LogsAreSound == TypeOK /\ LogsAreSorted

\* The logs that clients write are of this test alone, though earlier programs may have
\* died at any step and left theirs, also at the start of a log that is appended to.  Every
\* log is copied over what was left in its place; and nothing else of an earlier test, not a
\* directory and not a log, is among the results, so that the parser knows the job of every
\* directory it finds, unless rmtree failed, which clearTestFolder only reports
\* (clearTestFolder, clearHostsBandwidthLogs, findJob).
ResultsAreOfThisTest ==
    /\ pc = "jobs" => \A f \in DOMAIN logs : logs[f].runs = {run}
    /\ Copied /\ Slash =>
          /\ \A j \in Range(jobs) : Folder(j) \in Inside
          /\ \A x \in DOMAIN folders :
                x[1] \in Inside /\ x[2] \in DOMAIN logs => folders[x].runs = {run}
          /\ cleared =>
                /\ Inside = {Folder(j) : j \in Range(jobs)}
                /\ \A x \in DOMAIN folders : x[1] \in Inside => folders[x].runs = {run}

\* In the results of a test that came to its end, every job whose clients all succeeded has
\* the rate of each of its logs, also when clients had failed before and the job was tried
\* again, and counts no other log unless rmtree left it there (logPerJobResults).
DoneJobsAreMeasured ==
    pc = "off" /\ run > 0 /\ died = "" /\ directory = "plain/" =>
        \A j \in Range(jobs) :
            LET its == {Log(j, c) : c \in using[j]}
            IN  state[j] = "done" =>
                    /\ its \subseteq results[j].rates
                    /\ cleared => results[j] = [files |-> Cardinality(using[j]), rates |-> its]

\* A program that dies while it evaluates the logs has stored what an evaluation by hand
\* needs: the statistics of the jobs, and every log in its place, as it was written, over
\* what an rmtree that failed left there (runTest, ResultsParser).
EvaluationCanBeRepeated ==
    died \in {"ZeroDivisionError", "IOError"} =>
        /\ pickled = [names |-> jobs, state |-> state, run |-> run]
        /\ \A f \in DOMAIN logs : /\ <<Folder(f.job), f>> \in DOMAIN folders
                                  /\ folders[<<Folder(f.job), f>>] = logs[f]
=============================================================================
