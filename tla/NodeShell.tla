------------------------------ MODULE NodeShell ------------------------------
(***************************************************************************)
(* The shell of a node, mininet/node.py: Node.startShell, cmd (sendCmd,    *)
(* monitor, waitOutput), mountPrivateDirs, terminate.  A node and its bash *)
(* speak through a pseudo-terminal: the node writes a command, bash its    *)
(* output and then its prompt, the sentinel chr( 127 ).  The node reads in *)
(* chunks that fall anywhere.  A command in the background also makes bash *)
(* print a job line and, by the printf that sendCmd appends, a marker: ^A, *)
(* the pid and a newline; the program goes on writing to the terminal.     *)
(***************************************************************************)
EXTENDS ErrRun, SequencesExt

CONSTANTS
    PrivateDirs,   \* the privateDirs of the node, a sequence
    Bound,         \* those given as a tuple: bound to a directory of the host machine
    MaxBytes,      \* what one read asks for (1024)
    PtySize,       \* what the terminal holds
    MaxOutput,     \* bound on what a command prints
    MaxNoise,      \* bound on what programs in the background print
    MaxCmds        \* bound on the calls of cmd

ASSUME ShellAssumption ==
    /\ PrivateDirs \in Seq(Range(PrivateDirs))
    /\ Bound \subseteq Range(PrivateDirs)
    /\ {MaxBytes, PtySize} \subseteq Nat \ {0}
    /\ {MaxOutput, MaxNoise, MaxCmds} \subseteq Nat

VARIABLES
    at,       \* what the node does: "new", "prompt", "send", "monitor", "marker", "idle"
    op,       \* the operation it is in: "start", "cmd" or "terminate"
    rest,     \* the commands the operation still sends
    shell,    \* Node.shell is set
    waiting,  \* Node.waiting
    lastPid,  \* Node.lastPid, 0 for None
    lastCmd,  \* Node.lastCmd
    data,     \* what monitor has read of a marker
    output,   \* what waitOutput has
    bash,     \* "off", "boot", "prompt" or "run"
    typed,    \* the commands in the terminal's input
    printing, \* what bash or the command still prints
    said,     \* how much of it was the command's own output
    pty,      \* what is in the terminal's output
    jobs,     \* the programs in the background, by the number of their command
    noise,    \* what they may still print
    made,     \* the directories that exist
    mounted,  \* those with something mounted on them
    sent      \* the commands sent so far

nodeVars == <<at, op, rest, shell, waiting, lastPid, lastCmd, data, output, sent>>
bashVars == <<bash, typed, printing, said, jobs, noise, made, mounted>>
shellVars == <<nodeVars, bashVars, pty>>
allVars  == <<shellVars, errVars>>

Sentinel == "127"
Ctrl_A   == "^A"
Kinds    == {"text", "job", Ctrl_A, "pid", Sentinel, "noise"}

\* A sequence of such tokens without those of some kinds.
Dropping(d, S) ==
    LET kept[i \in 0 .. Len(d)] ==
            IF i = 0 THEN <<>>
            ELSE IF d[i][1] \in S THEN kept[i - 1] ELSE Append(kept[i - 1], d[i])
    IN  kept[Len(d)]

-----------------------------------------------------------------------------
(* Commands.  A bound directory d has a mount point and a directory of the *)
(* host machine to be bound to it.                                         *)
Command(does, dir)    == [does |-> does, dir |-> dir, bg |-> FALSE]
Setup                 == Command("setup", <<>>)
Work(bg)              == [does |-> "work", dir |-> <<>>, bg |-> bg]
Point(d)              == <<"point", d>>
Source(d)             == <<"machine", d>>

\* Faulty: the mount point of a bound directory is taken to exist.
MountsWithoutPoint(d) ==
    IF d \in Bound
    THEN <<Command("mkdir", Source(d)), Command("mount", Point(d))>>
    ELSE <<Command("mkdir", Point(d)), Command("mount", Point(d))>>

MountsOf(d) ==
    IF d \in Bound
    THEN <<Command("mkdir", Source(d)), Command("mkdir", Point(d)), Command("mount", Point(d))>>
    ELSE <<Command("mkdir", Point(d)), Command("mount", Point(d))>>

mountPrivateDirs   == FlattenSeq([i \in DOMAIN PrivateDirs |-> MountsOf(PrivateDirs[i])])
unmountPrivateDirs == [i \in DOMAIN PrivateDirs |-> Command("umount", Point(PrivateDirs[i]))]

ShellInit ==
    /\ ErrInit
    /\ at = "new" /\ op = "start" /\ rest = <<>> /\ shell = FALSE /\ waiting = FALSE
    /\ lastPid = 0 /\ lastCmd = Setup /\ data = <<>> /\ output = <<>> /\ sent = 0
    /\ bash = "off" /\ typed = <<>> /\ printing = <<>> /\ said = 0 /\ pty = <<>>
    /\ jobs = {} /\ noise = MaxNoise /\ made = {} /\ mounted = {}

-----------------------------------------------------------------------------
(* bash.  At its start it may print that there is no job control, then the *)
(* prompt.                                                                 *)
Repeat(t, n) == [i \in 1 .. n |-> <<t, sent>>]

(* It takes a command, which prints, and prompts again.  The job line and  *)
(* the marker come before the prompt.                                      *)
BashReads ==
    /\ bash = "prompt" /\ typed # <<>>
    /\ LET c == Head(typed)
       IN  \E n \in 0 .. MaxOutput :
              /\ said' = IF c.bg THEN 0 ELSE n
              /\ printing' = (IF c.bg THEN <<<<"job", sent>>, <<Ctrl_A, sent>>, <<"pid", sent>>>>
                                      ELSE Repeat("text", n))
                             \o <<<<Sentinel, sent>>>>
              /\ jobs' = IF c.bg THEN jobs \union {sent} ELSE jobs
    /\ bash' = "run"
    /\ UNCHANGED <<nodeVars, typed, noise, made, mounted, pty>>

Done(c) ==
    /\ made' = IF c.does = "mkdir" THEN made \union {c.dir} ELSE made
    /\ mounted' = CASE c.does = "mount" /\ c.dir \in made
                         /\ (c.dir[2] \in Bound => Source(c.dir[2]) \in made)
                            -> mounted \union {c.dir[2]}
                    [] c.does = "umount" -> mounted \ {c.dir[2]}
                    [] OTHER -> mounted

(* What is printed goes to the terminal as it has room.  The prompt is     *)
(* printed when the command has done its work.                             *)
BashPrints ==
    /\ printing # <<>> /\ Len(pty) < PtySize
    /\ pty' = Append(pty, Head(printing))
    /\ printing' = Tail(printing)
    /\ IF Tail(printing) # <<>>
       THEN UNCHANGED <<bash, typed, made, mounted>>
       ELSE /\ bash' = "prompt"
            /\ IF typed # <<>> THEN Done(Head(typed)) /\ typed' = Tail(typed)
                               ELSE UNCHANGED <<typed, made, mounted>>
    /\ UNCHANGED <<nodeVars, said, jobs, noise>>

(* A program in the background prints at any time, but never in the middle *)
(* of the marker, which one printf writes.                                 *)
JobPrints ==
    /\ jobs # {} /\ noise > 0 /\ Len(pty) < PtySize
    /\ ~(printing # <<>> /\ Head(printing)[1] = "pid")
    /\ pty' = Append(pty, <<"noise", 0>>) /\ noise' = noise - 1
    /\ UNCHANGED <<nodeVars, bash, typed, printing, said, jobs, made, mounted>>

Bash == BashReads \/ BashPrints

-----------------------------------------------------------------------------
(* startShell starts bash and reads until the last thing read is a prompt. *)
StartShell ==
    /\ at = "new"
    /\ shell' = TRUE /\ bash' = "boot" /\ at' = "prompt"
    /\ \E n \in 0 .. 1 : printing' = Repeat("text", n) \o <<<<Sentinel, 0>>>>
    /\ UNCHANGED <<op, rest, waiting, lastPid, lastCmd, data, output, sent>>
    /\ UNCHANGED <<typed, said, jobs, noise, made, mounted, pty>>

(* read( 1024 ) *)
Chunk == IF Len(pty) <= MaxBytes THEN pty ELSE SubSeq(pty, 1, MaxBytes)
Read  == pty # <<>> /\ pty' = SubSeq(pty, Len(Chunk) + 1, Len(pty))

\* Faulty: whatever bash prints first is taken for the prompt.
AnyOutput(chunk) == TRUE

IsPrompt(chunk) == Last(chunk)[1] = Sentinel

WaitForPrompt ==
    /\ at = "prompt" /\ Read
    /\ IF IsPrompt(Chunk)
       THEN at' = "send" /\ rest' = <<Setup>> \o mountPrivateDirs
       ELSE UNCHANGED <<at, rest>>
    /\ UNCHANGED <<op, shell, waiting, lastPid, lastCmd, data, output, sent, bashVars>>

(* The caller: cmd, or terminate, which sends the umounts first. *)
cmd ==
    /\ at = "idle" /\ sent < Len(mountPrivateDirs) + 1 + MaxCmds
    /\ \E bg \in BOOLEAN : rest' = <<Work(bg)>>
    /\ op' = "cmd" /\ at' = "send"
    /\ UNCHANGED <<shell, waiting, lastPid, lastCmd, data, output, sent, bashVars, pty>>

terminate ==
    /\ at = "idle" /\ shell
    /\ rest' = unmountPrivateDirs
    /\ op' = "terminate" /\ at' = "send"
    /\ UNCHANGED <<shell, waiting, lastPid, lastCmd, data, output, sent, bashVars, pty>>

(* sendCmd writes the command and returns. *)
sendCmd ==
    /\ at = "send" /\ rest # <<>> /\ shell /\ ~waiting
    /\ typed' = Append(typed, Head(rest))
    /\ lastCmd' = Head(rest) /\ lastPid' = 0 /\ waiting' = TRUE
    /\ output' = <<>> /\ sent' = sent + 1
    /\ rest' = Tail(rest) /\ at' = "monitor"
    /\ UNCHANGED <<op, shell, data, bash, printing, said, jobs, noise, made, mounted, pty>>

(* A node without a shell ignores commands. *)
IgnoreCmd ==
    /\ at = "send" /\ rest # <<>> /\ ~shell
    /\ rest' = Tail(rest) /\ sent' = sent + 1
    /\ UNCHANGED <<at, op, shell, waiting, lastPid, lastCmd, data, output, bashVars, pty>>

-----------------------------------------------------------------------------
Has(d, t) == \E i \in DOMAIN d : d[i][1] = t

(* monitor: what was read without marker, job lines and sentinel.  The job *)
(* lines are only looked for in a chunk with a marker.                     *)
\* Faulty: a sentinel that is followed by other output stays in the answer.
StripAtEnd(d) ==
    Dropping(IF Last(d)[1] = Sentinel THEN Front(d) ELSE d,
             IF Has(d, Ctrl_A) THEN {Ctrl_A, "pid", "job"} ELSE {})

Strip(d) == Dropping(d, {Sentinel} \union (IF Has(d, Ctrl_A) THEN {Ctrl_A, "pid", "job"} ELSE {}))

\* Faulty: only a sentinel at the very end of the chunk is seen.
EndsInSentinel(d) == Last(d)[1] = Sentinel

HasSentinel(d) == Has(d, Sentinel)

\* Faulty: a marker is taken as it was read, whole or not.
MarkerAsRead(d) == TRUE

MarkerIsWhole(d) == Has(d, Ctrl_A) => Has(d, "pid")

monitor ==
    /\ at \in {"monitor", "marker"} /\ waiting /\ Read
    /\ LET d == data \o Chunk
       IN  IF MarkerIsWhole(d)
           THEN /\ lastPid' = IF Has(d, Ctrl_A) /\ Has(d, "pid")
                              THEN Dropping(d, Kinds \ {"pid"})[1][2]
                              ELSE lastPid
                /\ waiting' = ~HasSentinel(d)
                /\ output' = output \o Strip(d)
                /\ at' = "monitor" /\ data' = <<>>
           ELSE /\ at' = "marker" /\ data' = d
                /\ UNCHANGED <<lastPid, waiting, output>>
    /\ UNCHANGED <<op, rest, shell, lastCmd, sent, bashVars>>

(* waitOutput and cmd return. *)
waitOutput ==
    /\ at = "monitor" /\ ~waiting
    /\ at' = "send"
    /\ UNCHANGED <<op, rest, shell, waiting, lastPid, lastCmd, data, output, sent, bashVars, pty>>

Return ==
    /\ at = "send" /\ rest = <<>> /\ op \in {"start", "cmd"}
    /\ at' = "idle"
    /\ UNCHANGED <<op, rest, shell, waiting, lastPid, lastCmd, data, output, sent, bashVars, pty>>

(* terminate hangs up on bash and on what it runs. *)
Kill ==
    /\ at = "send" /\ rest = <<>> /\ op = "terminate"
    /\ shell' = FALSE /\ at' = "idle"
    /\ bash' = "off" /\ typed' = <<>> /\ printing' = <<>> /\ jobs' = {} /\ pty' = <<>>
    /\ UNCHANGED <<op, rest, waiting, lastPid, lastCmd, data, output, sent>>
    /\ UNCHANGED <<said, noise, made, mounted>>

-----------------------------------------------------------------------------
NodeStep == \/ StartShell \/ WaitForPrompt \/ sendCmd \/ IgnoreCmd \/ monitor
            \/ waitOutput \/ Return \/ Kill

(* One thread runs commands in the shell or, by pipes, beside it: it is    *)
(* in one call at a time.                                                  *)
CallShell   == (cmd \/ terminate) /\ call = "none" /\ UNCHANGED errVars
CallProgram == StartCall /\ at = "idle" /\ UNCHANGED shellVars
Thread      == \/ NodeStep /\ UNCHANGED errVars
               \/ Parent /\ UNCHANGED shellVars

ShellNext == \/ CallShell \/ CallProgram \/ Thread
             \/ (Bash \/ JobPrints) /\ UNCHANGED errVars
             \/ Child /\ UNCHANGED shellVars

ShellSpec     == ShellInit /\ [][ShellNext]_allVars
FairShellSpec == /\ ShellSpec /\ WF_allVars(Thread)
                 /\ WF_allVars(Bash /\ UNCHANGED errVars) /\ WF_allVars(Child /\ UNCHANGED shellVars)

-----------------------------------------------------------------------------
(* Properties *)

Tokens == Kinds \X (0 .. sent)

ShellTypeOK ==
    /\ at \in {"new", "prompt", "send", "monitor", "marker", "idle"}
    /\ op \in {"start", "cmd", "terminate"} /\ {shell, waiting} \subseteq BOOLEAN
    /\ bash \in {"off", "boot", "prompt", "run"}
    /\ Range(pty) \union Range(printing) \union Range(output) \union Range(data) \subseteq Tokens
    /\ Len(pty) <= PtySize /\ Len(typed) <= 1
    /\ lastPid \in jobs \union {0} \/ ~shell
    /\ mounted \subseteq Range(PrivateDirs) /\ noise \in 0 .. MaxNoise

\* Whenever the node may be given a command, bash waits for one and everything it printed for
\* the last one has been read: a sentinel, a marker or text left in the terminal would be taken
\* for the answer to the next command, and every later answer would be one command late
\* (startShell, sendCmd, monitor).
NodeAndBashInStep ==
    at \in {"send", "idle"} /\ shell =>
        /\ ~waiting /\ bash = "prompt" /\ typed = <<>> /\ printing = <<>>
        /\ \A t \in Range(pty) : t[1] = "noise"

\* cmd returns what that very command printed, all of it and nothing of an earlier one, with
\* neither sentinel nor marker, wherever the chunks began and ended; and after a command in
\* the background lastPid is its program, after another one it is None, although the marker
\* may arrive in pieces and among other output (monitor).
AnswersAreTheCommands ==
    at = "idle" /\ shell =>
        /\ lastPid = (IF lastCmd.bg THEN sent ELSE 0)
        /\ ~Has(output, Sentinel) /\ ~Has(output, Ctrl_A) /\ ~Has(output, "pid")
        /\ Dropping(output, Kinds \ {"text"}) = Repeat("text", said)

\* A node that can be used has its private directories mounted, and none is left mounted when
\* its shell is killed (mountPrivateDirs, unmountPrivateDirs, terminate).
PrivateDirsAreMounted ==
    at = "idle" => mounted = IF shell THEN Range(PrivateDirs) ELSE {}

\* A node that can be used is ready for a command: the two ends of the terminal agree, and
\* what commands rely on is mounted.
NodeIsReady == ShellTypeOK /\ ErrTypeOK /\ NodeAndBashInStep /\ PrivateDirsAreMounted

\* Every operation returns: in the shell, however the output is cut and however full the
\* terminal is; beside it, whatever the child writes to its pipes, unless errRun and its child
\* wait for each other.
EveryOperationReturns == (at # "idle" ~> at = "idle") /\ EveryCallReturns
=============================================================================
