----------------------------- MODULE Injection -----------------------------
(***************************************************************************)
(* How an injection starts (Injector.java, find_pid_of and main of         *)
(* inject.c): the application copies the inj binary out of its apk unless  *)
(* the copy it has is newer, looks for the target, and has su run inj,     *)
(* which looks for the target's pid in /proc and attaches to it.  Nobody   *)
(* waits for inj: each onResume of MainActivity starts another one.        *)
(*                                                                         *)
(* From the attach to the detach an injection is PtraceSession, which      *)
(* shows that it ends; here it is two steps.                               *)
(***************************************************************************)
EXTENDS Integers

CONSTANTS
    Pids,            \* process identifiers: numbers, as /proc lists them in order
    Sessions,        \* runs of su at one time (a bound)
    IsSystemServer,  \* whether the target is system_server
    MaxTime,         \* a bound on the clock, in units of a file's time stamp
    MaxInstalls,      \* a bound on the versions installed of the application
    MaxLife          \* a bound on the processes that have one pid

ASSUME InjectionAssumption ==
    /\ Pids \subseteq Nat \ {0}
    /\ IsSystemServer \in BOOLEAN
    /\ MaxTime \in Nat /\ MaxInstalls \in Nat /\ MaxLife \in Nat

VARIABLES
    proc,        \* the process of each pid, and how many the pid has had
    now,         \* the clock
    apk,         \* the version installed, and when it was
    file,        \* the copy of inj: the version it is from, time stamp, content, mode
    appPc,       \* where in startInjection the application is
    injPc,          \* where each su and its inj are
    cursor,      \* the last pid read by find_pid_of
    cmdline,     \* its buffer
    pid,         \* its result
    seen,        \* history: the process whose cmdline was read last
    steady,      \* history: pids that have been the target since the scan began
    copyFailed   \* history: no copy has succeeded since one failed

hostVars == <<now, apk, file, appPc, copyFailed>>
injVars == <<injPc, cursor, cmdline, pid, seen, steady>>
injectionVars == <<proc, hostVars, injVars>>

Names == {"none", "kernel", "other", "target"}
Processes == [name : Names, life : 0 .. MaxLife]
NoFile == [version |-> -1, time |-> -1, whole |-> FALSE, executable |-> FALSE]
NoProcess == [name |-> "none", life |-> 0]

InjectionTypeOK ==
    /\ proc \in [Pids -> Processes]
    /\ now \in 0 .. MaxTime
    /\ apk \in [version : 0 .. MaxInstalls, time : 0 .. now]
    /\ file \in [version : -1 .. apk.version, time : -1 .. now,
                whole : BOOLEAN, executable : BOOLEAN]
    /\ appPc \in {"idle", "transfer", "copy", "check", "root"}
    /\ injPc \in [Sessions -> {"unused", "chmod", "run", "scan", "attach", "attached"}]
    /\ cursor \in [Sessions -> Pids \cup {0}]
    /\ cmdline \in [Sessions -> Names \ {"kernel"}]
    /\ pid \in [Sessions -> Pids \cup {-1}]
    /\ \A s \in Sessions : (injPc[s] \in {"attach", "attached"}) = (pid[s] # -1)
    /\ seen \in [Sessions -> Processes]
    /\ steady \in [Sessions -> SUBSET Pids]
    /\ copyFailed \in BOOLEAN

InjectionInit ==
    /\ proc \in [Pids -> [name : Names, life : {0}]]
    /\ now = 0 /\ apk = [version |-> 0, time |-> 0]
    /\ file = NoFile /\ copyFailed = FALSE
    /\ appPc = "idle"
    /\ injPc = [s \in Sessions |-> "unused"]
    /\ cursor = [s \in Sessions |-> 0]
    /\ cmdline = [s \in Sessions |-> "none"]
    /\ pid = [s \in Sessions |-> -1]
    /\ seen = [s \in Sessions |-> NoProcess]
    /\ steady = [s \in Sessions |-> {}]

-----------------------------------------------------------------------------
(* The system around them.                                                 *)

\* A process starts: a kernel thread, which has an empty cmdline, or one with the
\* name of its parent, which it changes later.
Fork(p) ==
    /\ proc[p].name = "none" /\ proc[p].life < MaxLife
    /\ \E n \in {"kernel", "other"} : proc' = [proc EXCEPT ![p] = [name |-> n, life |-> @.life + 1]]
    /\ UNCHANGED <<hostVars, injVars>>

SetArgV0(p) ==
    /\ proc[p].name = "other"
    /\ proc' = [proc EXCEPT ![p].name = "target"]
    /\ UNCHANGED <<hostVars, injVars>>

Die(p) ==
    /\ proc[p].name # "none"
    /\ proc' = [proc EXCEPT ![p].name = "none"]
    /\ steady' = [s \in Sessions |-> steady[s] \ {p}]
    /\ UNCHANGED <<hostVars, injPc, cursor, cmdline, pid, seen>>

Tick ==
    /\ now < MaxTime
    /\ now' = now + 1
    /\ UNCHANGED <<proc, apk, file, appPc, copyFailed, injVars>>

\* The application is killed, maybe in the middle of the copy ...
AppDies ==
    /\ appPc # "idle"
    /\ appPc' = "idle"
    /\ copyFailed' = (copyFailed \/ appPc = "copy")
    /\ UNCHANGED <<proc, now, apk, file, injVars>>

\* ... as when another version of it is installed.  The files it keeps survive.
Install ==
    /\ appPc = "idle" /\ apk.version < MaxInstalls
    /\ apk' = [version |-> apk.version + 1, time |-> now]
    /\ UNCHANGED <<proc, now, file, appPc, copyFailed, injVars>>

-----------------------------------------------------------------------------
(* The application: startInjection, on the thread of onResume.             *)

StartInjection ==
    /\ appPc = "idle" /\ appPc' = "transfer"
    /\ UNCHANGED <<proc, now, apk, file, copyFailed, injVars>>

\* Mutant: a copy of the same age is kept.
NotOlder == file # NoFile /\ file.time >= apk.time

\* file.exists() && (file.lastModified() > data.lastModified())
Newer == file # NoFile /\ file.time > apk.time

\* The kernel refuses to open a running program for writing.
TextBusy == \E s \in Sessions : injPc[s] \in {"scan", "attach", "attached"}

TransferFiles ==
    /\ appPc = "transfer"
    /\ \/ /\ Newer
          /\ appPc' = "check"
          /\ UNCHANGED <<file, copyFailed>>
       \/ /\ ~ Newer /\ TextBusy
          /\ appPc' = "check" /\ copyFailed' = TRUE
          /\ UNCHANGED file
       \/ /\ ~ Newer /\ ~ TextBusy
          /\ appPc' = "copy"
          /\ file' = [file EXCEPT !.version = apk.version, !.time = now, !.whole = FALSE]
          /\ UNCHANGED copyFailed
    /\ UNCHANGED <<proc, now, apk, injVars>>

CopyWritten ==
    /\ appPc = "copy" /\ appPc' = "check"
    /\ file' = [file EXCEPT !.whole = TRUE, !.time = now]
    /\ copyFailed' = FALSE
    /\ UNCHANGED <<proc, now, apk, injVars>>

\* An IOException on the way is logged and what has been written stays.
CopyFails ==
    /\ appPc = "copy" /\ appPc' = "check"
    /\ copyFailed' = TRUE
    /\ UNCHANGED <<proc, now, apk, file, injVars>>

\* For a process that is not there it throws, and the activity does not catch it.
CheckProcessExist ==
    /\ appPc = "check"
    /\ appPc' = IF IsSystemServer \/ \E p \in Pids : proc[p].name = "target"
                THEN "root" ELSE "idle"
    /\ UNCHANGED <<proc, now, apk, file, copyFailed, injVars>>

\* The commands are written to su's input and not waited for.  su may be missing.
StartRoot(s) ==
    /\ appPc = "root" /\ injPc[s] = "unused"
    /\ appPc' = "idle"
    /\ injPc' \in {injPc, [injPc EXCEPT ![s] = "chmod"]}
    /\ UNCHANGED <<proc, now, apk, file, copyFailed, cursor, cmdline, pid, seen, steady>>

-----------------------------------------------------------------------------
(* su's shell, and inj.                                                    *)

\* Mutant: the pid found outlives the search.
EndsButPid(s) ==
    /\ injPc' = [injPc EXCEPT ![s] = "unused"]
    /\ cursor' = [cursor EXCEPT ![s] = 0]
    /\ cmdline' = [cmdline EXCEPT ![s] = "none"]
    /\ seen' = [seen EXCEPT ![s] = NoProcess]
    /\ steady' = [steady EXCEPT ![s] = {}]
    /\ UNCHANGED pid

\* inj is over, and with it the shell.
Ends(s) ==
    /\ injPc' = [injPc EXCEPT ![s] = "unused"]
    /\ cursor' = [cursor EXCEPT ![s] = 0]
    /\ cmdline' = [cmdline EXCEPT ![s] = "none"]
    /\ pid' = [pid EXCEPT ![s] = -1]
    /\ seen' = [seen EXCEPT ![s] = NoProcess]
    /\ steady' = [steady EXCEPT ![s] = {}]

Chmod(s) ==
    /\ injPc[s] = "chmod"
    /\ injPc' = [injPc EXCEPT ![s] = "run"]
    /\ file' = [file EXCEPT !.executable = file # NoFile]
    /\ UNCHANGED <<proc, now, apk, appPc, copyFailed, cursor, cmdline, pid, seen, steady>>

\* A file that is missing or cut off does not run.
Exec(s) ==
    /\ injPc[s] = "run"
    /\ IF file.executable /\ file.whole
       THEN /\ injPc' = [injPc EXCEPT ![s] = "scan"]
            /\ steady' = [steady EXCEPT ![s] = {p \in Pids : proc[p].name = "target"}]
            /\ UNCHANGED <<cursor, cmdline, pid, seen>>
       ELSE Ends(s)
    /\ UNCHANGED <<proc, hostVars>>

\* fgets leaves the buffer as it is when there is nothing to read: a kernel thread
\* is compared by the name read before it.
fgets(s, p) == IF proc[p].name = "kernel" THEN cmdline[s] ELSE proc[p].name

Found(s, p) ==
    /\ injPc' = [injPc EXCEPT ![s] = "attach"]
    /\ pid' = [pid EXCEPT ![s] = p]

\* Mutant: the scan goes on after a match, as long as there are processes.
ReadOn(s, p) ==
    /\ cmdline' = [cmdline EXCEPT ![s] = fgets(s, p)]
    /\ seen' = [seen EXCEPT ![s] = proc[p]]
    /\ cursor' = [cursor EXCEPT ![s] = p]
    /\ IF fgets(s, p) = "target" /\ \A q \in Pids : q > p => proc[q].name = "none"
       THEN Found(s, p) ELSE UNCHANGED <<injPc, pid>>

\* Mutant: an empty cmdline ends the scan.
ReadOrGiveUp(s, p) ==
    /\ cmdline' = [cmdline EXCEPT ![s] = fgets(s, p)]
    /\ seen' = [seen EXCEPT ![s] = proc[p]]
    /\ cursor' = [cursor EXCEPT ![s] = IF proc[p].name # "kernel" THEN p
                                       ELSE CHOOSE q \in Pids : \A r \in Pids : r <= q]
    /\ IF fgets(s, p) = "target" THEN Found(s, p) ELSE UNCHANGED <<injPc, pid>>

Read(s, p) ==
    /\ cmdline' = [cmdline EXCEPT ![s] = fgets(s, p)]
    /\ seen' = [seen EXCEPT ![s] = proc[p]]
    /\ cursor' = [cursor EXCEPT ![s] = p]
    /\ IF fgets(s, p) = "target" THEN Found(s, p) ELSE UNCHANGED <<injPc, pid>>

\* find_pid_of: the next process there is ...
FindPidOf(s) ==
    /\ injPc[s] = "scan"
    /\ \E p \in Pids :
        /\ p > cursor[s] /\ proc[p].name # "none"
        /\ \A q \in Pids : q > cursor[s] /\ q < p => proc[q].name = "none"
        /\ Read(s, p)
    /\ UNCHANGED <<proc, hostVars, steady>>

\* ... or none: it returns -1, to which nothing can be attached.
NotFound(s) ==
    /\ injPc[s] = "scan"
    /\ \A p \in Pids : p > cursor[s] => proc[p].name = "none"
    /\ Ends(s)
    /\ UNCHANGED <<proc, hostVars>>

\* ptrace_attach exits when there is no such process, when it is a kernel thread,
\* and when another inj is attached to it.
Attach(s) ==
    /\ injPc[s] = "attach"
    /\ IF proc[pid[s]].name \in {"none", "kernel"}
            \/ \E t \in Sessions : injPc[t] = "attached" /\ pid[t] = pid[s]
       THEN Ends(s)
       ELSE /\ injPc' = [injPc EXCEPT ![s] = "attached"]
            /\ UNCHANGED <<cursor, cmdline, pid, seen, steady>>
    /\ UNCHANGED <<proc, hostVars>>

Detach(s) ==
    /\ injPc[s] = "attached"
    /\ Ends(s)
    /\ UNCHANGED <<proc, hostVars>>

Inj(s) == Chmod(s) \/ Exec(s) \/ FindPidOf(s) \/ NotFound(s) \/ Attach(s) \/ Detach(s)

InjectionNext ==
    \/ \E p \in Pids : Fork(p) \/ SetArgV0(p) \/ Die(p)
    \/ Tick \/ AppDies \/ Install
    \/ StartInjection \/ TransferFiles \/ CopyWritten \/ CopyFails \/ CheckProcessExist
    \/ \E s \in Sessions : StartRoot(s) \/ Inj(s)

InjectionSpec == InjectionInit /\ [][InjectionNext]_injectionVars

-----------------------------------------------------------------------------
(* What must hold.                                                         *)

\* The process that inj is about to attach to, or has attached to, had the target's
\* name when its own cmdline was read, however many reads left the buffer as it was;
\* so unless the pid has gone to another process since, it is the target.
PidWasTarget ==
    \A s \in Sessions : injPc[s] \in {"attach", "attached"} =>
        /\ seen[s].name = "target"
        /\ proc[pid[s]].life = seen[s].life => proc[pid[s]].name \in {"target", "none"}

\* A target that is there all the time find_pid_of scans /proc is not missed,
\* whatever other processes come and go.
TargetNotMissed ==
    [][\A s \in Sessions : injPc[s] = "scan" /\ injPc'[s] = "unused" => steady[s] = {}]_injectionVars

\* When su is started, the copy of inj is whole and that of the apk installed, unless
\* a copy failed, was refused or was cut short, and none has succeeded since.
CopyCurrent ==
    appPc = "root" /\ ~ copyFailed => file.whole /\ file.version = apk.version

=============================================================================
