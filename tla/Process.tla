------------------------------- MODULE Process --------------------------------
(***************************************************************************)
(* Child processes: the handles of the runtime library (start, poll, wait, *)
(* cancel, exit code, free) and the command the driver runs and waits for  *)
(* (src/src/runtime/process_runtime.c, src/src/driver/process.c; POSIX).   *)
(*                                                                         *)
(* The program makes one call at a time; children, and processes of others *)
(* that come by the same numbers, go on between the system calls of one.   *)
(***************************************************************************)
EXTENDS Integers, Sequences, SequencesExt

CONSTANTS
    Handles,        \* the children the program starts, each once
    Pids,           \* process numbers
    Plans,          \* child -> [args, cwd, out, err, env, path, run]: what a program starts
    ExitCodes,      \* what a child may return
    Foreign,        \* who owns the processes of others
    Alive           \* (see ChildProcess)

VARIABLES
    ignored,        \* SIGCHLD is ignored: the system collects the children itself
    procs,          \* pid -> [st, owner, told, end]: the system's table
    handle,         \* [st, pid, finished, code]: BaaRuntimeProcess
    request,        \* the plan of this program
    call,           \* the call under way: [op, h, at]
    answer,         \* [child, op, value]: the last to the program
    ended,          \* how each child ended
    files, fd, said \* what is in each child's files, where it writes next, what it wrote to them
vars == <<ignored, procs, handle, request, call, answer, ended, files, fd, said>>
output == <<files, fd, said>>

Exit(n) == [how |-> "exit", n |-> n]
Killed == [how |-> "signal", n |-> 15]
\* How a child may end: as it likes, told to, or before exec.
Endings == {Killed} \cup {Exit(n) : n \in ExitCodes \cup {126, 127}}

ASSUME ProcessAssumption ==
    /\ ExitCodes \subseteq 0 .. 255 /\ Foreign \notin Handles /\ Alive \notin Endings
    /\ \A r \in Plans : DOMAIN r \subseteq Handles

Nobody == [st |-> "free", owner |-> Foreign, told |-> {}, end |-> Alive]
Idle == [op |-> "none", h |-> Foreign, at |-> ""]
None == [child |-> Foreign, op |-> "none", value |-> 0]
Nothing == [f \in {"log", "err"} |-> <<>>]
Old == [f \in {"log", "err"} |-> <<"old", "old", "old">>]
NoCall == call = Idle

-----------------------------------------------------------------------------
(* Children, and other processes.                                          *)

\* What exec finds along the path: execve stops at the first that may not be
\* run, execvp goes on and remembers it.
Search(r) ==
    LET found == SelectSeq(r.path, LAMBDA d : d # "absent")
    IN  CASE found = <<>> -> 127
          [] found # <<>> /\ r.env -> IF Head(found) = "there" THEN 0 ELSE 126
          [] OTHER -> IF "there" \in ToSet(found) THEN 0 ELSE 126
ExecFailure(r) == IF r.run /\ Search(r) # 0 THEN 127 ELSE Search(r)

Opens(f) == f \in {"log", "err"}
\* A slip: the same file is opened twice.
Twice(r) == FALSE
SameFile(r) == r.out # "" /\ r.out = r.err
OutFails(r) == r.out = "bad"
SetupFailure(r) == CASE ~r.cwd \/ OutFails(r) \/ r.err = "bad" -> 127 [] OTHER -> ExecFailure(r)
Truncated(r) == {f \in {r.out} \cup (IF OutFails(r) THEN {} ELSE {r.err}) : r.cwd /\ Opens(f)}

\* A child that ends stays until it is collected, unless the system collects it.
Ends(p, e) ==
    /\ procs' = [procs EXCEPT ![p] = IF ignored \/ @.owner = Foreign THEN Nobody
                                     ELSE [@ EXCEPT !.st = "zombie", !.end = e]]
    /\ ended' = IF procs[p].owner = Foreign THEN ended ELSE [ended EXCEPT ![procs[p].owner] = e]

\* Between fork and exec.
ChildSetup(p) ==
    /\ procs[p].st = "setup"
    /\ \E h \in {procs[p].owner} : \E r \in {request[h]} :
          /\ files' = [files EXCEPT ![h] = [f \in DOMAIN @ |-> IF f \in Truncated(r) THEN <<>> ELSE @[f]]]
          /\ IF SetupFailure(r) # 0 THEN Ends(p, Exit(SetupFailure(r)))
             ELSE procs' = [procs EXCEPT ![p].st = "running"] /\ UNCHANGED ended
    /\ UNCHANGED <<ignored, handle, request, call, answer, fd, said>>

\* Standard output and standard error write each at its own place, at one and
\* the same when they are one open file.
ChildWrites(p, s) ==
    /\ procs[p].st = "running" /\ procs[p].owner # Foreign
    /\ \E h \in {procs[p].owner} : \E r \in {request[h]} : \E f \in {IF s = "out" THEN r.out ELSE r.err} :
          /\ Opens(f) /\ s \notin ToSet(said[h][f])
          /\ files' = [files EXCEPT ![h][f] =
                         [k \in DOMAIN @ \cup {fd[h][s]} |-> IF k = fd[h][s] THEN s ELSE @[k]]]
          /\ fd' = [fd EXCEPT ![h] = [t \in DOMAIN @ |-> IF t = s \/ SameFile(r) THEN @[t] + 1 ELSE @[t]]]
          /\ said' = [said EXCEPT ![h][f] = Append(@, s)]
    /\ UNCHANGED <<ignored, procs, handle, request, call, answer, ended>>

ChildExits(p) ==
    /\ procs[p].st = "running" /\ \E n \in ExitCodes : Ends(p, Exit(n))
    /\ UNCHANGED <<ignored, handle, request, call, answer, output>>
ToldChildEnds(p) ==
    /\ procs[p].told # {} /\ procs[p].st \in {"setup", "running"} /\ Ends(p, Killed)
    /\ UNCHANGED <<ignored, handle, request, call, answer, output>>
OtherStarts(p) ==
    /\ procs[p].st = "free" /\ procs' = [procs EXCEPT ![p].st = "running"]
    /\ UNCHANGED <<ignored, handle, request, call, answer, ended, output>>

-----------------------------------------------------------------------------
(* The library.                                                            *)

Say(op, h, v) == answer' = [child |-> h, op |-> op, value |-> v]
Return(v) == Say(call.op, call.h, v) /\ call' = Idle
Goto(at) == call' = [call EXCEPT !.at = at] /\ UNCHANGED answer

\* No handle: an argument that is no text, or no process.
StartFails(h, r) ==
    /\ NoCall /\ handle[h].st = "absent"
    /\ handle' = [handle EXCEPT ![h].st = IF r.run THEN "freed" ELSE "null"]
    /\ Say(IF r.run THEN "run" ELSE "start", h, -1)
    /\ UNCHANGED <<ignored, procs, request, call, ended, output>>

\* "undo": the handle itself could not be allocated.
Fork(h, r) ==
    /\ NoCall /\ handle[h].st = "absent" /\ r.args
    /\ \E p \in Pids :
          /\ procs[p].st = "free"
          /\ procs' = [procs EXCEPT ![p] = [Nobody EXCEPT !.st = "setup", !.owner = h]]
          /\ handle' = [handle EXCEPT ![h] = [st |-> "live", pid |-> p, finished |-> FALSE, code |-> -1]]
    /\ \/ r.run /\ call' = [op |-> "run", h |-> h, at |-> "wait"] /\ UNCHANGED answer
       \/ ~r.run /\ call' = [op |-> "start", h |-> h, at |-> "kill"] /\ UNCHANGED answer
       \/ ~r.run /\ Say("start", h, 0) /\ UNCHANGED call
    /\ UNCHANGED <<ignored, request, ended, output>>

Call(op, h) ==
    /\ NoCall /\ handle[h].st = "live"
    /\ call' = [op |-> op, h |-> h, at |-> IF op = "wait" THEN "wait" ELSE "try"]
    /\ UNCHANGED <<ignored, procs, handle, request, answer, ended, output>>

\* waitpid: TRUE if there is such a child.
Pid == handle[call.h].pid
IsChild == procs[Pid].st # "free" /\ procs[Pid].owner # Foreign
\* A slip: how the child ended is not asked.
JustCode(e) == e.n
ExitCode(e) == IF e.how = "exit" THEN e.n ELSE 128 + e.n

\* posix_collect, when it does not block: the answer, and the handle after it.
Result ==
    CASE handle[call.h].finished -> 1
      [] ~handle[call.h].finished /\ ~IsChild -> -1
      [] OTHER -> IF procs[Pid].st = "zombie" THEN 1 ELSE 0
Reaps == ~handle[call.h].finished /\ Result = 1
After == IF Reaps THEN [handle[call.h] EXCEPT !.finished = TRUE, !.code = ExitCode(procs[Pid].end)] ELSE handle[call.h]
Collect == procs' = IF Reaps THEN [procs EXCEPT ![Pid] = Nobody] ELSE procs

\* A slip: the process is signalled whether it has ended or not.
NeverOver == FALSE
Over == Result = 1

\* A slip: free does not cancel.
OnlyWait == "wait"
FreeGoesOn == IF Over THEN "wait" ELSE "kill"

\* free: poll; cancel, which polls again, and wait, if it runs; then the handle.
Released == [After EXCEPT !.st = "freed"]
Try ==
    /\ call.at \in {"try", "again"} /\ Collect
    /\ CASE call.op = "poll" -> Return(Result) /\ handle' = [handle EXCEPT ![call.h] = After]
         [] call.op = "code" -> Return(IF After.finished THEN After.code ELSE -1) /\ handle' = [handle EXCEPT ![call.h] = After]
         [] call.op = "cancel" -> /\ IF Over THEN Return(1) ELSE Goto("kill")
                                  /\ handle' = [handle EXCEPT ![call.h] = After]
         [] call.op = "free" /\ call.at = "try" ->
              IF Result = 0 THEN Goto("again") /\ UNCHANGED handle
              ELSE Return(0) /\ handle' = [handle EXCEPT ![call.h] = Released]
         [] call.op = "free" /\ call.at = "again" ->
              Goto(FreeGoesOn) /\ handle' = [handle EXCEPT ![call.h] = After]
    /\ UNCHANGED <<ignored, request, ended, output>>

Kill ==
    /\ call.at = "kill"
    /\ procs' = [procs EXCEPT ![Pid].told = IF procs[Pid].st = "free" THEN {} ELSE @ \cup {call.h}]
    /\ IF call.op = "cancel" THEN Return(IF procs[Pid].st = "free" THEN 0 ELSE 1) ELSE Goto("wait")
    /\ UNCHANGED <<ignored, handle, request, ended, output>>

\* Blocks while there is a child and it runs.
WaitReturns ==
    /\ call.at = "wait" /\ Result # 0 /\ Collect
    /\ CASE call.op \in {"wait", "run"} -> Return(IF Result = 1 THEN After.code ELSE -1)
         [] call.op = "free" -> Return(0)
         [] call.op = "start" -> Return(-1)
    /\ handle' = [handle EXCEPT ![call.h] = CASE call.op = "wait" -> After
                                              [] call.op = "start" -> [After EXCEPT !.st = "null"]
                                              [] OTHER -> Released]
    /\ UNCHANGED <<ignored, request, ended, output>>

-----------------------------------------------------------------------------
Init ==
    /\ ignored \in BOOLEAN
    /\ procs = [p \in Pids |-> Nobody]
    /\ handle = [h \in Handles |-> [st |-> "absent", pid |-> 0, finished |-> FALSE, code |-> -1]]
    /\ request \in Plans
    /\ call = Idle
    /\ answer = None
    /\ ended = [h \in Handles |-> Alive]
    /\ \E before \in {Nothing, Old} : files = [h \in Handles |-> before]
    /\ fd = [h \in Handles |-> [s \in {"out", "err"} |-> 1]]
    /\ said = [h \in Handles |-> Nothing]

Library == Try \/ Kill \/ WaitReturns
Next ==
    \/ \E h \in DOMAIN request : StartFails(h, request[h]) \/ Fork(h, request[h])
    \/ \E h \in Handles, op \in {"poll", "wait", "cancel", "code", "free"} : Call(op, h)
    \/ Library
    \/ \E p \in Pids : ChildSetup(p) \/ ChildExits(p) \/ ToldChildEnds(p) \/ OtherStarts(p)
    \/ \E p \in Pids, s \in {"out", "err"} : ChildWrites(p, s)

\* A call goes on, and a process told to end does in time.
Spec == Init /\ [][Next]_vars /\ WF_vars(Library) /\ \A p \in Pids : WF_vars(ToldChildEnds(p))

-----------------------------------------------------------------------------
(* Properties.                                                             *)

\* Whatever the order of calls and ends, each answer is true when it is given,
\* and a handle is released only after its child: unless the system collects
\* the children, when nothing can be known of them.
Promise == INSTANCE ChildProcess WITH
    Children <- Handles,
    Outcomes <- Endings,
    ended <- IF ignored THEN [h \in Handles |-> Alive] ELSE ended,
    answer <- IF ignored THEN None ELSE answer
AnswersAreTrue == Promise!Spec

\* Only the child of the handle is ever told to end, not a process that came by
\* its number; and a handle that is gone leaves no child, running or ended.
ChildrenAreOwned ==
    ~ignored => /\ \A p \in Pids : procs[p].told \subseteq {procs[p].owner}
                /\ \A h \in Handles : handle[h].st \in {"null", "freed"} => \A p \in Pids : procs[p].owner # h

\* What a child writes to its two outputs is in its files, alone and in order,
\* whatever was in them before: nothing is written over.
NothingWrittenOver ==
    \A h \in Handles, f \in {"log", "err"} : said[h][f] # <<>> => files[h][f] = said[h][f]

\* Only waiting depends on a child that was not told to end.
OnlyWaitBlocks == (~NoCall /\ call.op \notin {"wait", "run"}) ~> NoCall
=============================================================================
