--------------------------- MODULE InjectionProofs ---------------------------
(***************************************************************************)
(* What the parts of an injection promise.  Injection: inj attaches to     *)
(* what was the target, does not miss it, and is the inj of the installed  *)
(* apk, for every set of pids and any number of su at one time.            *)
(* RemoteAddress: the addresses found are right, for every size of the     *)
(* address space and of the linker and whatever the target maps.  Loader:  *)
(* what becomes of the application's class loader chain, for every set of  *)
(* dexes, whatever they ship, and of class loaders.                        *)
(***************************************************************************)
EXTENDS Injection, RemoteAddress, Loader, TLAPS

-----------------------------------------------------------------------------
(* Injection.                                                               *)

ProcessInv == proc \in [Pids -> [name : Names, life : Nat]]

\* A search begins at the first process, and while it goes on the name in its buffer is
\* not the target's.
ScanInv ==
    /\ injPc \in [Sessions -> {"unused", "chmod", "run", "scan", "attach", "attached"}]
    /\ cursor \in [Sessions -> Int]
    /\ cmdline \in [Sessions -> Names] /\ pid \in [Sessions -> Pids \cup {-1}]
    /\ seen \in [Sessions -> [name : Names, life : Nat]]
    /\ steady \in [Sessions -> SUBSET Pids]
    /\ \A s \in Sessions : injPc[s] \in {"unused", "chmod", "run"} => cursor[s] = 0
    /\ \A s \in Sessions : injPc[s] \notin {"attach", "attached"} => cmdline[s] # "target"

\* The pid found was the target's, and if it still has the process it had then, that
\* process is the target, or has died.
PidInv ==
    \A s \in Sessions : injPc[s] \in {"attach", "attached"} =>
        /\ pid[s] \in Pids /\ seen[s].name = "target"
        /\ proc[pid[s]].life >= seen[s].life
        /\ proc[pid[s]].life = seen[s].life => proc[pid[s]].name \in {"target", "none"}

\* A target that has been there since the search began is still ahead of it.
AheadInv ==
    \A s \in Sessions : injPc[s] = "scan" =>
        \A p \in steady[s] : proc[p].name = "target" /\ p > cursor[s]

File == [version : Int, time : Int, whole : BOOLEAN, executable : BOOLEAN]

\* The copy of inj: one that is newer than the apk was taken from it, and it is whole
\* but while it is written, or after a failure.
CopyInv ==
    /\ now \in Nat
    /\ apk \in [version : Nat, time : Nat] /\ apk.time <= now
    /\ file \in File
    /\ file.time <= now /\ file.version <= apk.version
    /\ file.version < apk.version => file.time <= apk.time
    /\ appPc = "copy" => file.version = apk.version
    /\ ~ copyFailed /\ file.time >= 0 /\ appPc # "copy" => file.whole
    /\ appPc \in {"check", "root"} /\ ~ copyFailed => file.whole /\ file.version = apk.version

InjectionInv == ProcessInv /\ ScanInv /\ PidInv /\ AheadInv /\ CopyInv

-----------------------------------------------------------------------------

LEMMA InjectionInitInv == InjectionInit => InjectionInv
<1> SUFFICES ASSUME InjectionInit PROVE InjectionInv  OBVIOUS
<1> USE InjectionAssumption DEF InjectionInit
<1>1. ProcessInv  BY DEF ProcessInv
<1>2. ScanInv  BY DEF ScanInv, NoProcess, Names
<1>3. PidInv /\ AheadInv  BY DEF PidInv, AheadInv
<1>4. CopyInv  BY DEF CopyInv, NoFile, File
<1> QED  BY <1>1, <1>2, <1>3, <1>4 DEF InjectionInv

(* The host's part: the clock, the application and its copy of inj.        *)

\* Nothing the application does touches the search.
LEMMA HostKeepsSearch ==
    ASSUME InjectionInv, UNCHANGED <<proc, injVars>>
    PROVE  ProcessInv' /\ ScanInv' /\ PidInv' /\ AheadInv'
BY DEF InjectionInv, ProcessInv, ScanInv, PidInv, AheadInv, injVars

\* What writing and completing the copy make of the file.
LEMMA FileWritten ==
    ASSUME NEW f \in File, NEW v \in Int, NEW t \in Int
    PROVE  LET g == [f EXCEPT !.version = v, !.time = t, !.whole = FALSE]
           IN  g \in File /\ g.version = v /\ g.time = t
<1>1. [f EXCEPT !.version = v, !.time = t, !.whole = FALSE] \in File  BY DEF File
<1>2. [f EXCEPT !.version = v, !.time = t, !.whole = FALSE].version = v  BY DEF File
<1>3. [f EXCEPT !.version = v, !.time = t, !.whole = FALSE].time = t  BY DEF File
<1> QED  BY <1>1, <1>2, <1>3

LEMMA FileCompleted ==
    ASSUME NEW f \in File, NEW t \in Int, NEW g, g = [f EXCEPT !.whole = TRUE, !.time = t]
    PROVE  g \in File /\ g.version = f.version /\ g.time = t /\ g.whole
<1>1. [f EXCEPT !.whole = TRUE, !.time = t] \in File  BY DEF File
<1>2. [f EXCEPT !.whole = TRUE, !.time = t].version = f.version  BY DEF File
<1>3. [f EXCEPT !.whole = TRUE, !.time = t].time = t  BY DEF File
<1>4. [f EXCEPT !.whole = TRUE, !.time = t].whole  BY DEF File
<1> QED  BY <1>1, <1>2, <1>3, <1>4

LEMMA FileMadeExecutable ==
    ASSUME NEW f \in File, NEW b \in BOOLEAN
    PROVE  LET g == [f EXCEPT !.executable = b]
           IN  g \in File /\ g.version = f.version /\ g.time = f.time /\ g.whole = f.whole
<1>1. [f EXCEPT !.executable = b] \in File  BY DEF File
<1>2. [f EXCEPT !.executable = b].version = f.version  BY DEF File
<1>3. [f EXCEPT !.executable = b].time = f.time  BY DEF File
<1>4. [f EXCEPT !.executable = b].whole = f.whole  BY DEF File
<1> QED  BY <1>1, <1>2, <1>3, <1>4

LEMMA FileFields == ASSUME NEW f \in File PROVE f.version \in Int /\ f.time \in Int
BY DEF File

LEMMA TickKeeps == ASSUME InjectionInv, Tick PROVE InjectionInv'
<1>1. CopyInv'  BY FileFields DEF InjectionInv, CopyInv, Tick
<1> QED  BY <1>1, HostKeepsSearch DEF InjectionInv, Tick

LEMMA AppDiesKeeps == ASSUME InjectionInv, AppDies PROVE InjectionInv'
<1>1. CopyInv'  BY DEF InjectionInv, CopyInv, AppDies
<1> QED  BY <1>1, HostKeepsSearch DEF InjectionInv, AppDies

LEMMA InstallKeeps == ASSUME InjectionInv, Install PROVE InjectionInv'
<1>1. CopyInv'  BY FileFields DEF InjectionInv, CopyInv, Install
<1> QED  BY <1>1, HostKeepsSearch DEF InjectionInv, Install

LEMMA StartInjectionKeeps == ASSUME InjectionInv, StartInjection PROVE InjectionInv'
<1>1. CopyInv'  BY DEF InjectionInv, CopyInv, StartInjection
<1> QED  BY <1>1, HostKeepsSearch DEF InjectionInv, StartInjection

LEMMA TransferFilesKeeps == ASSUME InjectionInv, TransferFiles PROVE InjectionInv'
<1>1. /\ now \in Nat /\ apk \in [version : Nat, time : Nat] /\ apk.time <= now
      /\ file \in File /\ file.time <= now /\ file.version <= apk.version
      /\ file.version < apk.version => file.time <= apk.time
      /\ ~ copyFailed /\ file.time >= 0 /\ appPc # "copy" => file.whole
  BY DEF InjectionInv, CopyInv
<1>2. /\ file.version \in Int /\ file.time \in Int
      /\ apk.version \in Nat /\ apk.time \in Nat
  BY <1>1, FileFields
<1>3. /\ appPc = "transfer" /\ UNCHANGED <<now, apk>>
      /\ \/ Newer /\ appPc' = "check" /\ UNCHANGED <<file, copyFailed>>
         \/ appPc' = "check" /\ copyFailed' /\ UNCHANGED file
         \/ /\ appPc' = "copy"
            /\ file' = [file EXCEPT !.version = apk.version, !.time = now, !.whole = FALSE]
  BY DEF TransferFiles
<1>4. ASSUME Newer, appPc' = "check", UNCHANGED <<file, copyFailed>> PROVE CopyInv'
  <2>1. file.version = apk.version /\ file.time >= 0  BY <1>1, <1>2, <1>4 DEF Newer
  <2>2. ~ copyFailed => file.whole  BY <1>1, <1>3, <2>1
  <2> QED  BY <1>1, <1>3, <1>4, <2>1, <2>2 DEF CopyInv
<1>5. ASSUME appPc' = "check", copyFailed', UNCHANGED file PROVE CopyInv'
  BY <1>1, <1>3, <1>5 DEF CopyInv
<1>6. ASSUME appPc' = "copy",
             file' = [file EXCEPT !.version = apk.version, !.time = now, !.whole = FALSE]
      PROVE  CopyInv'
  <2>1. apk.version \in Int /\ now \in Int  BY <1>1, <1>2
  <2>2. file' \in File /\ file'.version = apk.version /\ file'.time = now
    <3>1. file \in File  BY <1>1
    <3> DEFINE g == [file EXCEPT !.version = apk.version, !.time = now, !.whole = FALSE]
    <3>2. g \in File  BY <2>1, <3>1, FileWritten
    <3>3. g.version = apk.version /\ g.time = now  BY <2>1, <3>1 DEF File
    <3>4. file' = g  BY <1>6
    <3> HIDE DEF g
    <3> QED  BY <3>2, <3>3, <3>4
  <2> QED  BY <1>1, <1>2, <1>3, <1>6, <2>2 DEF CopyInv
<1>7. CopyInv'  BY <1>3, <1>4, <1>5, <1>6
<1> QED  BY <1>7, HostKeepsSearch DEF InjectionInv, TransferFiles

LEMMA CopyWrittenKeeps == ASSUME InjectionInv, CopyWritten PROVE InjectionInv'
<1>1. /\ file \in File
      /\ now \in Nat /\ apk \in [version : Nat, time : Nat] /\ apk.time <= now
      /\ appPc = "copy" => file.version = apk.version
  BY DEF InjectionInv, CopyInv
<1>2. /\ appPc = "copy" /\ appPc' = "check" /\ copyFailed' = FALSE /\ UNCHANGED <<now, apk>>
      /\ file' = [file EXCEPT !.whole = TRUE, !.time = now]
  BY DEF CopyWritten
<1>3. now \in Int /\ apk.version \in Nat /\ apk.time \in Nat  BY <1>1
<1>4. /\ file' \in File /\ file'.version = file.version /\ file'.time = now /\ file'.whole
  BY <1>1, <1>2, <1>3, FileCompleted
<1>5. CopyInv'  BY <1>1, <1>2, <1>3, <1>4 DEF CopyInv
<1> QED  BY <1>5, HostKeepsSearch DEF InjectionInv, CopyWritten

LEMMA CopyFailsKeeps == ASSUME InjectionInv, CopyFails PROVE InjectionInv'
<1>1. CopyInv'  BY DEF InjectionInv, CopyInv, CopyFails
<1> QED  BY <1>1, HostKeepsSearch DEF InjectionInv, CopyFails

LEMMA CheckProcessExistKeeps == ASSUME InjectionInv, CheckProcessExist PROVE InjectionInv'
<1>1. CopyInv'  BY DEF InjectionInv, CopyInv, CheckProcessExist
<1> QED  BY <1>1, HostKeepsSearch DEF InjectionInv, CheckProcessExist

(* Processes come and go.                                                  *)

LEMMA ForkKeeps == ASSUME InjectionInv, NEW p \in Pids, Fork(p) PROVE InjectionInv'
<1> USE DEF InjectionInv, ProcessInv, Names, Fork, hostVars, injVars
<1>1. ProcessInv'  OBVIOUS
<1>2. ScanInv' /\ CopyInv'  BY DEF ScanInv, CopyInv
<1>3. PidInv'  BY DEF PidInv, ScanInv
<1>4. AheadInv'  BY DEF AheadInv, ScanInv
<1> QED  BY <1>1, <1>2, <1>3, <1>4

LEMMA SetArgV0Keeps == ASSUME InjectionInv, NEW p \in Pids, SetArgV0(p) PROVE InjectionInv'
<1> USE DEF InjectionInv, ProcessInv, Names, SetArgV0, hostVars, injVars
<1>1. ProcessInv'  OBVIOUS
<1>2. ScanInv' /\ CopyInv'  BY DEF ScanInv, CopyInv
<1>3. PidInv'  BY DEF PidInv, ScanInv
<1>4. AheadInv'  BY DEF AheadInv, ScanInv
<1> QED  BY <1>1, <1>2, <1>3, <1>4

LEMMA DieKeeps == ASSUME InjectionInv, NEW p \in Pids, Die(p) PROVE InjectionInv'
<1> USE DEF InjectionInv, ProcessInv, Names, Die, hostVars
<1>1. ProcessInv'  OBVIOUS
<1>2. ScanInv' /\ CopyInv'  BY DEF ScanInv, CopyInv
<1>3. PidInv'  BY DEF PidInv, ScanInv
<1>4. AheadInv'  BY DEF AheadInv, ScanInv
<1> QED  BY <1>1, <1>2, <1>3, <1>4

(* su's shell and inj.                                                     *)

\* inj being over, nothing is claimed of its search.
LEMMA EndsKeeps ==
    ASSUME InjectionInv, NEW s \in Sessions, Ends(s), UNCHANGED <<proc, hostVars>>
    PROVE  InjectionInv'
<1> USE DEF InjectionInv, Ends, hostVars
<1>1. ProcessInv' /\ CopyInv'  BY DEF ProcessInv, CopyInv
<1>2. ScanInv'  BY DEF ScanInv, NoProcess, Names
<1>3. PidInv' /\ AheadInv'  BY DEF PidInv, AheadInv, ScanInv
<1> QED  BY <1>1, <1>2, <1>3

LEMMA StartRootKeeps == ASSUME InjectionInv, NEW s \in Sessions, StartRoot(s) PROVE InjectionInv'
<1> USE DEF InjectionInv, StartRoot
<1>1. ProcessInv' /\ CopyInv'  BY DEF ProcessInv, CopyInv
<1>2. ScanInv'  BY DEF ScanInv
<1>3. PidInv' /\ AheadInv'  BY DEF PidInv, AheadInv, ScanInv
<1> QED  BY <1>1, <1>2, <1>3

LEMMA ChmodKeeps == ASSUME InjectionInv, NEW s \in Sessions, Chmod(s) PROVE InjectionInv'
<1> USE DEF InjectionInv
<1>1. /\ injPc[s] = "chmod" /\ injPc' = [injPc EXCEPT ![s] = "run"]
      /\ UNCHANGED <<proc, now, apk, appPc, copyFailed, cursor, cmdline, pid, seen, steady>>
      /\ file' = [file EXCEPT !.executable = file # NoFile]
  BY DEF Chmod
<1>2. ProcessInv'  BY <1>1 DEF ProcessInv
<1>3. ScanInv'  BY <1>1 DEF ScanInv
<1>4. PidInv' /\ AheadInv'  BY <1>1 DEF PidInv, AheadInv, ScanInv
<1>5. CopyInv'
  <2>1. file \in File /\ (file # NoFile) \in BOOLEAN  BY DEF CopyInv
  <2>2. /\ file' \in File /\ file'.version = file.version /\ file'.time = file.time
        /\ file'.whole = file.whole
    BY <1>1, <2>1, FileMadeExecutable
  <2> QED  BY <1>1, <2>2 DEF CopyInv
<1> QED  BY <1>2, <1>3, <1>4, <1>5

LEMMA ExecKeeps == ASSUME InjectionInv, NEW s \in Sessions, Exec(s) PROVE InjectionInv'
<1>1. CASE Ends(s)
  BY <1>1, EndsKeeps DEF Exec
<1>2. CASE ~ Ends(s)
  <2>1. /\ injPc[s] = "run" /\ injPc' = [injPc EXCEPT ![s] = "scan"]
        /\ steady' = [steady EXCEPT ![s] = {p \in Pids : proc[p].name = "target"}]
        /\ UNCHANGED <<cursor, cmdline, pid, seen, proc, hostVars>>
    BY <1>2 DEF Exec
  <2> USE DEF InjectionInv, hostVars
  <2>2. ProcessInv' /\ CopyInv'  BY <2>1 DEF ProcessInv, CopyInv
  <2>3. ScanInv'  BY <2>1 DEF ScanInv
  <2>4. PidInv'  BY <2>1 DEF PidInv, ScanInv
  <2>5. AheadInv'
    <3>1. \A p \in Pids : p > 0  BY InjectionAssumption
    <3>2. cursor[s] = 0  BY <2>1 DEF ScanInv
    <3> QED  BY <2>1, <3>1, <3>2 DEF AheadInv, ScanInv
  <2> QED  BY <2>2, <2>3, <2>4, <2>5
<1> QED  BY <1>1, <1>2

\* The next process: what is found has its own name in the buffer, as the name that a
\* kernel thread leaves there is not the target's.
LEMMA FindPidOfKeeps == ASSUME InjectionInv, NEW s \in Sessions, FindPidOf(s) PROVE InjectionInv'
<1> USE DEF InjectionInv, hostVars
<1>1. PICK p \in Pids :
        /\ p > cursor[s] /\ proc[p].name # "none"
        /\ \A q \in Pids : q > cursor[s] /\ q < p => proc[q].name = "none"
        /\ Read(s, p)
  BY DEF FindPidOf
<1>2. injPc[s] = "scan" /\ UNCHANGED <<proc, hostVars, steady>>
  BY DEF FindPidOf
<1>3. proc[p] \in [name : Names, life : Nat]  BY DEF ProcessInv
<1>4. /\ fgets(s, p) \in Names
      /\ fgets(s, p) = "target" => proc[p].name = "target"
  BY <1>2, <1>3 DEF fgets, ScanInv
<1> DEFINE name == fgets(s, p)
<1> HIDE DEF name
<1>5. /\ cmdline' = [cmdline EXCEPT ![s] = name]
      /\ seen' = [seen EXCEPT ![s] = proc[p]]
      /\ cursor' = [cursor EXCEPT ![s] = p]
      /\ IF name = "target" THEN /\ injPc' = [injPc EXCEPT ![s] = "attach"]
                                 /\ pid' = [pid EXCEPT ![s] = p]
                            ELSE UNCHANGED <<injPc, pid>>
  BY <1>1 DEF Read, Found, name
<1>6. name \in Names /\ (name = "target" => proc[p].name = "target")
  BY <1>4 DEF name
<1>7. p \in Nat  BY InjectionAssumption
<1>8. ProcessInv' /\ CopyInv'  BY <1>2 DEF ProcessInv, CopyInv
<1>9. ScanInv'  BY <1>2, <1>3, <1>5, <1>6, <1>7 DEF ScanInv
<1>10. PidInv'
  <2> SUFFICES ASSUME NEW t \in Sessions, injPc'[t] \in {"attach", "attached"}
               PROVE  /\ pid'[t] \in Pids /\ seen'[t].name = "target"
                      /\ proc[pid'[t]].life >= seen'[t].life
                      /\ proc[pid'[t]].life = seen'[t].life
                            => proc[pid'[t]].name \in {"target", "none"}
    BY <1>2 DEF PidInv
  <2>1. CASE t = s
    <3>1. name = "target" /\ pid'[s] = p /\ seen'[s] = proc[p]
      BY <1>2, <1>5, <2>1 DEF ScanInv
    <3> QED  BY <1>3, <1>6, <2>1, <3>1
  <2>2. CASE t # s
    BY <1>5, <2>2 DEF PidInv, ScanInv
  <2> QED  BY <2>1, <2>2
<1>11. AheadInv'
  <2> SUFFICES ASSUME NEW t \in Sessions, injPc'[t] = "scan", NEW q \in steady[t]
               PROVE  proc[q].name = "target" /\ q > cursor'[t]
    BY <1>2 DEF AheadInv
  <2>1. CASE t # s
    BY <1>5, <2>1 DEF AheadInv, ScanInv
  <2>2. CASE t = s
    <3>1. proc[q].name = "target" /\ q > cursor[s] /\ q \in Pids
      BY <1>2, <2>2 DEF AheadInv, ScanInv
    <3>2. name # "target"  BY <1>5, <2>2 DEF ScanInv
    <3>3. ~ (q < p)  BY <1>1, <3>1
    <3>4. q # p
      <4> SUFFICES ASSUME q = p PROVE FALSE  OBVIOUS
      <4>1. fgets(s, p) = "target"  BY <3>1 DEF fgets
      <4> QED  BY <3>2, <4>1 DEF name
    <3>5. q \in Nat  BY <3>1, InjectionAssumption
    <3>6. cursor'[s] = p  BY <1>5 DEF ScanInv
    <3> QED  BY <1>7, <2>2, <3>1, <3>3, <3>4, <3>5, <3>6
  <2> QED  BY <2>1, <2>2
<1> QED  BY <1>8, <1>9, <1>10, <1>11

LEMMA AttachKeeps == ASSUME InjectionInv, NEW s \in Sessions, Attach(s) PROVE InjectionInv'
<1>1. CASE Ends(s)
  BY <1>1, EndsKeeps DEF Attach
<1>2. CASE ~ Ends(s)
  <2>1. /\ injPc[s] = "attach" /\ injPc' = [injPc EXCEPT ![s] = "attached"]
        /\ UNCHANGED <<cursor, cmdline, pid, seen, steady, proc, hostVars>>
    BY <1>2 DEF Attach
  <2> USE DEF InjectionInv, hostVars
  <2>2. ProcessInv' /\ CopyInv'  BY <2>1 DEF ProcessInv, CopyInv
  <2>3. ScanInv'  BY <2>1 DEF ScanInv
  <2>4. PidInv' /\ AheadInv'  BY <2>1 DEF PidInv, AheadInv, ScanInv
  <2> QED  BY <2>2, <2>3, <2>4
<1> QED  BY <1>1, <1>2

LEMMA InjectionStepInv == InjectionInv /\ [InjectionNext]_injectionVars => InjectionInv'
<1> SUFFICES ASSUME InjectionInv, [InjectionNext]_injectionVars PROVE InjectionInv'  OBVIOUS
<1>1. ASSUME NEW p \in Pids, Fork(p) \/ SetArgV0(p) \/ Die(p) PROVE InjectionInv'
  BY <1>1, ForkKeeps, SetArgV0Keeps, DieKeeps
<1>2. CASE Tick \/ AppDies \/ Install \/ StartInjection \/ TransferFiles \/ CopyWritten
            \/ CopyFails \/ CheckProcessExist
  BY <1>2, TickKeeps, AppDiesKeeps, InstallKeeps, StartInjectionKeeps, TransferFilesKeeps,
     CopyWrittenKeeps, CopyFailsKeeps, CheckProcessExistKeeps
<1>3. ASSUME NEW s \in Sessions, StartRoot(s) \/ Inj(s) PROVE InjectionInv'
  <2>1. CASE NotFound(s) \/ Detach(s)
    BY <2>1, EndsKeeps DEF NotFound, Detach
  <2> QED
    BY <1>3, <2>1, StartRootKeeps, ChmodKeeps, ExecKeeps, FindPidOfKeeps, AttachKeeps DEF Inj
<1>4. CASE UNCHANGED injectionVars
  BY <1>4 DEF InjectionInv, ProcessInv, ScanInv, PidInv, AheadInv, CopyInv, injectionVars, hostVars, injVars
<1> QED  BY <1>1, <1>2, <1>3, <1>4 DEF InjectionNext

\* The inductive invariant holds.
LEMMA InjectionInvariance == InjectionSpec => []InjectionInv
BY InjectionInitInv, InjectionStepInv, PTL DEF InjectionSpec

-----------------------------------------------------------------------------

\* The process inj attaches to is the target, unless its pid has gone to another since.
THEOREM AttachesToTarget == InjectionSpec => []PidWasTarget
<1>1. InjectionInv => PidWasTarget  BY DEF InjectionInv, PidInv, PidWasTarget
<1> QED  BY <1>1, InjectionInvariance, PTL

\* The copy of inj that su runs is whole and that of the apk installed, unless copying
\* it has failed since it last succeeded.
THEOREM CopyIsCurrent == InjectionSpec => []CopyCurrent
<1>1. InjectionInv => CopyCurrent  BY DEF InjectionInv, CopyInv, CopyCurrent
<1> QED  BY <1>1, InjectionInvariance, PTL

\* A target that is there all the time its pid is looked for is found.
THEOREM TargetIsFound == InjectionSpec => TargetNotMissed
<1>1. ASSUME InjectionInv, InjectionNext, NEW s \in Sessions, injPc[s] = "scan", injPc'[s] = "unused"
      PROVE  steady[s] = {}
  <2>1. \A t \in Sessions : injPc[t] \in {"unused", "chmod", "run", "scan", "attach", "attached"}
    BY <1>1 DEF InjectionInv, ScanInv
  <2>2. NotFound(s)
    <3>1. \A t \in Sessions : Inj(t) => t = s
      BY <1>1, <2>1 DEF Inj, Chmod, Exec, FindPidOf, Read, Found, NotFound, Attach, Detach, Ends,
         InjectionInv, ScanInv
    <3>2. \E t \in Sessions : Inj(t)
      BY <1>1 DEF InjectionNext, Fork, SetArgV0, Die, Tick, AppDies, Install, StartInjection,
         TransferFiles, CopyWritten, CopyFails, CheckProcessExist, StartRoot, injVars, InjectionInv, ScanInv
    <3>3. Inj(s)  BY <3>1, <3>2
    <3> QED  BY <1>1, <3>3 DEF Inj, Chmod, Exec, FindPidOf, Read, Found, Attach, Detach, InjectionInv, ScanInv
  <2>3. \A p \in Pids : p > cursor[s] => proc[p].name = "none"  BY <2>2 DEF NotFound
  <2>4. \A p \in steady[s] : p \in Pids /\ p > cursor[s] /\ proc[p].name = "target"
    BY <1>1 DEF InjectionInv, AheadInv, ScanInv
  <2> QED  BY <2>3, <2>4
<1>2. InjectionInv /\ [InjectionNext]_injectionVars =>
        [\A s \in Sessions : injPc[s] = "scan" /\ injPc'[s] = "unused" => steady[s] = {}]_injectionVars
  BY <1>1
<1> QED  BY <1>2, InjectionInvariance, PTL DEF InjectionSpec, TargetNotMissed

(* The types, which bound what the invariant leaves unbounded.             *)

ProcBounds == proc \in [Pids -> Processes]

HostBounds ==
    /\ now <= MaxTime /\ apk.version <= MaxInstalls
    /\ file.version >= -1 /\ file.time >= -1
    /\ appPc \in {"idle", "transfer", "copy", "check", "root"}
    /\ copyFailed \in BOOLEAN

SearchBounds ==
    /\ cursor \in [Sessions -> Pids \cup {0}]
    /\ cmdline \in [Sessions -> Names \ {"kernel"}]
    /\ \A s \in Sessions : (injPc[s] \in {"attach", "attached"}) <=> (pid[s] # -1)
    /\ seen \in [Sessions -> Processes]

InjectionBounds == ProcBounds /\ HostBounds /\ SearchBounds

LEMMA FileTyped ==
    ASSUME NEW f \in File, NEW v \in Nat, NEW t \in Nat,
           f.version >= -1, f.version <= v, f.time >= -1, f.time <= t
    PROVE  f \in [version : -1 .. v, time : -1 .. t, whole : BOOLEAN, executable : BOOLEAN]
<1>1. f.version \in -1 .. v /\ f.time \in -1 .. t  BY FileFields
<1>2. PICK a \in Int, b \in Int, c \in BOOLEAN, d \in BOOLEAN :
        f = [version |-> a, time |-> b, whole |-> c, executable |-> d]
  BY DEF File
<1>3. a \in -1 .. v /\ b \in -1 .. t  BY <1>1, <1>2
<1> QED  BY <1>2, <1>3

LEMMA InjectionTyped == InjectionInv /\ InjectionBounds => InjectionTypeOK
<1> SUFFICES ASSUME InjectionInv, InjectionBounds PROVE InjectionTypeOK  OBVIOUS
<1> USE DEF InjectionInv, InjectionBounds
<1>1. now \in 0 .. MaxTime  BY InjectionAssumption DEF CopyInv, HostBounds
<1>2. apk \in [version : 0 .. MaxInstalls, time : 0 .. now]
  BY InjectionAssumption DEF CopyInv, HostBounds
<1>3. file \in [version : -1 .. apk.version, time : -1 .. now,
                whole : BOOLEAN, executable : BOOLEAN]
  <2>1. apk.version \in Nat /\ now \in Nat  BY DEF CopyInv
  <2> QED  BY <2>1, FileTyped DEF CopyInv, HostBounds
<1>4. \A s \in Sessions : (injPc[s] \in {"attach", "attached"}) = (pid[s] # -1)
  <2> SUFFICES ASSUME NEW s \in Sessions
               PROVE  (injPc[s] \in {"attach", "attached"}) = (pid[s] # -1)
    OBVIOUS
  <2>1. (injPc[s] \in {"attach", "attached"}) <=> (pid[s] # -1)  BY DEF SearchBounds
  <2> QED  BY ONLY <2>1
<1> QED
  BY <1>1, <1>2, <1>3, <1>4 DEF InjectionTypeOK, ProcBounds, HostBounds, SearchBounds, ScanInv

LEMMA InjectionInitBounds == InjectionInit => InjectionBounds
<1> SUFFICES ASSUME InjectionInit PROVE InjectionBounds  OBVIOUS
<1> USE InjectionAssumption DEF InjectionInit
<1>1. ProcBounds  BY DEF ProcBounds, Processes
<1>2. HostBounds
  <2>1. file.version = -1 /\ file.time = -1  BY DEF NoFile
  <2>2. now <= MaxTime /\ apk.version <= MaxInstalls  OBVIOUS
  <2>3. file.version >= -1 /\ file.time >= -1  BY ONLY <2>1
  <2> QED  BY <2>2, <2>3 DEF HostBounds
<1>3. SearchBounds  BY DEF SearchBounds, NoProcess, Processes, Names
<1> QED  BY <1>1, <1>2, <1>3 DEF InjectionBounds

LEMMA HostBoundsKept ==
    ASSUME InjectionInv, InjectionBounds,
           \/ Tick \/ AppDies \/ Install \/ StartInjection \/ TransferFiles \/ CopyWritten
           \/ CopyFails \/ CheckProcessExist
    PROVE  InjectionBounds'
<1> USE DEF InjectionInv, InjectionBounds
<1>0. /\ now \in Nat /\ apk \in [version : Nat, time : Nat] /\ file \in File
      /\ now <= MaxTime /\ apk.version <= MaxInstalls /\ apk.version \in Nat
      /\ MaxTime \in Nat /\ MaxInstalls \in Nat
      /\ file.version >= -1 /\ file.time >= -1 /\ file.version \in Int /\ file.time \in Int
      /\ copyFailed \in BOOLEAN
  BY InjectionAssumption, FileFields DEF CopyInv, HostBounds
<1>1. ProcBounds' /\ SearchBounds'
  <2>1. UNCHANGED <<proc, injVars>>
    BY DEF Tick, AppDies, Install, StartInjection, TransferFiles, CopyWritten, CopyFails,
       CheckProcessExist
  <2> QED  BY <2>1 DEF ProcBounds, SearchBounds, injVars
<1>2. HostBounds'
  <2>1. CASE Tick  BY <1>0, <2>1 DEF Tick, HostBounds
  <2>2. CASE AppDies  BY <1>0, <2>2 DEF AppDies, HostBounds
  <2>3. CASE Install  BY <1>0, <2>3 DEF Install, HostBounds
  <2>4. CASE StartInjection  BY <1>0, <2>4 DEF StartInjection, HostBounds
  <2>5. CASE CopyFails  BY <1>0, <2>5 DEF CopyFails, HostBounds
  <2>6. CASE CheckProcessExist  BY <1>0, <2>6 DEF CheckProcessExist, HostBounds
  <2>7. CASE TransferFiles
    <3>1. UNCHANGED <<now, apk>> /\ appPc' \in {"check", "copy"} /\ copyFailed' \in BOOLEAN
      BY <1>0, <2>7 DEF TransferFiles
    <3>2. CASE UNCHANGED file  BY <1>0, <3>1, <3>2 DEF HostBounds
    <3>3. CASE file' = [file EXCEPT !.version = apk.version, !.time = now, !.whole = FALSE]
      <4>0. file \in File /\ now \in Int /\ apk.version \in Int  BY <1>0
      <4> DEFINE g == [file EXCEPT !.version = apk.version, !.time = now, !.whole = FALSE]
      <4>10. g.version = apk.version /\ g.time = now  BY ONLY <4>0 DEF File
      <4>11. file' = g  BY <3>3
      <4> HIDE DEF g
      <4>1. file'.version = apk.version /\ file'.time = now  BY ONLY <4>10, <4>11
      <4>2. file'.version >= -1 /\ file'.time >= -1  BY <1>0, <4>1
      <4> QED  BY <1>0, <3>1, <4>2 DEF HostBounds
    <3> QED  BY <2>7, <3>2, <3>3 DEF TransferFiles
  <2>8. CASE CopyWritten
    <3>1. /\ UNCHANGED <<now, apk>> /\ appPc' = "check" /\ copyFailed' = FALSE
          /\ file' = [file EXCEPT !.whole = TRUE, !.time = now]
      BY <2>8 DEF CopyWritten
    <3>2. file'.version = file.version /\ file'.time = now
      <4>1. file \in File /\ now \in Int  BY <1>0
      <4> DEFINE g == [file EXCEPT !.whole = TRUE, !.time = now]
      <4>2. g.version = file.version /\ g.time = now  BY ONLY <4>1 DEF File
      <4>3. file' = g  BY <3>1
      <4> HIDE DEF g
      <4> QED  BY ONLY <4>2, <4>3
    <3>3. file'.version >= -1 /\ file'.time >= -1  BY <1>0, <3>2
    <3> QED  BY <1>0, <3>1, <3>3 DEF HostBounds
  <2> QED  BY <2>1, <2>2, <2>3, <2>4, <2>5, <2>6, <2>7, <2>8
<1> QED  BY <1>1, <1>2

LEMMA ProcBoundsKept ==
    ASSUME InjectionInv, InjectionBounds, NEW p \in Pids, Fork(p) \/ SetArgV0(p) \/ Die(p)
    PROVE  InjectionBounds'
<1> USE DEF InjectionInv, InjectionBounds
<1>1. HostBounds' /\ SearchBounds'
  <2>1. UNCHANGED <<hostVars, injPc, cursor, cmdline, pid, seen>>
    BY DEF Fork, SetArgV0, Die, injVars
  <2> QED  BY <2>1 DEF HostBounds, SearchBounds, hostVars
<1>2. proc[p] \in Processes /\ proc[p].life \in Nat /\ proc[p].life <= MaxLife
      /\ proc \in [Pids -> Processes] /\ MaxLife \in Nat
  BY InjectionAssumption DEF ProcBounds, Processes
<1>3. CASE Fork(p)
  <2>1. PICK n \in {"kernel", "other"} :
          proc' = [proc EXCEPT ![p] = [name |-> n, life |-> proc[p].life + 1]]
    BY <1>3 DEF Fork
  <2>2. proc[p].life + 1 \in 0 .. MaxLife  BY <1>2, <1>3 DEF Fork
  <2>3. [name |-> n, life |-> proc[p].life + 1] \in Processes  BY <2>2 DEF Processes, Names
  <2> QED  BY <1>1, <1>2, <2>1, <2>3 DEF ProcBounds
<1>4. CASE SetArgV0(p) \/ Die(p)
  <2>1. PICK n \in {"target", "none"} : proc' = [proc EXCEPT ![p].name = n]
    BY <1>4 DEF SetArgV0, Die
  <2>2. [proc[p] EXCEPT !.name = n] \in Processes  BY <1>2 DEF Processes, Names
  <2> QED  BY <1>1, <1>2, <2>1, <2>2 DEF ProcBounds
<1> QED  BY <1>3, <1>4

LEMMA EndsBounds ==
    ASSUME InjectionInv, InjectionBounds, NEW s \in Sessions, Ends(s), UNCHANGED <<proc, hostVars>>
    PROVE  InjectionBounds'
<1> USE DEF InjectionInv, InjectionBounds, hostVars, Ends
<1>1. ProcBounds' /\ HostBounds'  BY DEF ProcBounds, HostBounds
<1>2. SearchBounds'
  <2>1. NoProcess \in Processes /\ "none" \in Names \ {"kernel"}
    BY InjectionAssumption DEF NoProcess, Processes, Names
  <2> QED  BY <2>1 DEF SearchBounds, ScanInv
<1> QED  BY <1>1, <1>2

LEMMA SearchBoundsKept ==
    ASSUME InjectionInv, InjectionBounds, NEW s \in Sessions, StartRoot(s) \/ Inj(s)
    PROVE  InjectionBounds'
<1> USE DEF InjectionInv, InjectionBounds
<1>1. CASE StartRoot(s)
  <2>1. ProcBounds' /\ HostBounds'  BY <1>1 DEF StartRoot, ProcBounds, HostBounds
  <2>2. SearchBounds'  BY <1>1 DEF StartRoot, SearchBounds, ScanInv
  <2> QED  BY <2>1, <2>2
<1>2. CASE Chmod(s)
  <2>0. /\ injPc[s] = "chmod" /\ injPc' = [injPc EXCEPT ![s] = "run"]
        /\ UNCHANGED <<proc, now, apk, appPc, copyFailed, cursor, cmdline, pid, seen, steady>>
        /\ file' = [file EXCEPT !.executable = file # NoFile]
    BY <1>2 DEF Chmod
  <2>1. file \in File /\ (file # NoFile) \in BOOLEAN  BY DEF CopyInv
  <2>2. file'.version = file.version /\ file'.time = file.time
    BY <2>0, <2>1, FileMadeExecutable
  <2>3. ProcBounds' /\ HostBounds'  BY <2>0, <2>2 DEF ProcBounds, HostBounds
  <2>4. SearchBounds'  BY <2>0 DEF SearchBounds, ScanInv
  <2> QED  BY <2>3, <2>4
<1>3. CASE Ends(s) /\ UNCHANGED <<proc, hostVars>>  BY <1>3, EndsBounds
<1>4. CASE FindPidOf(s)
  <2>1. PICK p \in Pids : Read(s, p)  BY <1>4 DEF FindPidOf
  <2>2. ProcBounds' /\ HostBounds'  BY <1>4 DEF FindPidOf, hostVars, ProcBounds, HostBounds
  <2>3. fgets(s, p) \in Names \ {"kernel"} /\ proc[p] \in Processes
    BY DEF fgets, ProcBounds, Processes, SearchBounds
  <2>4. p # -1 /\ injPc[s] = "scan"  BY <1>4, InjectionAssumption DEF FindPidOf
  <2>5. cursor' \in [Sessions -> Pids \cup {0}] /\ cmdline' \in [Sessions -> Names \ {"kernel"}]
        /\ seen' \in [Sessions -> Processes]
    BY <2>1, <2>3 DEF Read, SearchBounds
  <2>6. \A t \in Sessions : (injPc'[t] \in {"attach", "attached"}) <=> (pid'[t] # -1)
    BY <2>1, <2>4 DEF Read, Found, SearchBounds, ScanInv
  <2> QED  BY <2>2, <2>5, <2>6 DEF SearchBounds
<1>5. CASE UNCHANGED <<proc, hostVars, cursor, cmdline, pid, seen>> /\ injPc[s] = "run"
           /\ injPc' = [injPc EXCEPT ![s] = "scan"]
  BY <1>5 DEF hostVars, ProcBounds, HostBounds, SearchBounds, ScanInv
<1>6. CASE UNCHANGED <<proc, hostVars, cursor, cmdline, pid, seen>> /\ injPc[s] = "attach"
           /\ injPc' = [injPc EXCEPT ![s] = "attached"]
  BY <1>6 DEF hostVars, ProcBounds, HostBounds, SearchBounds, ScanInv
<1> QED
  <2>1. CASE Exec(s)  BY <1>3, <1>5, <2>1 DEF Exec
  <2>2. CASE Attach(s)  BY <1>3, <1>6, <2>2 DEF Attach
  <2>3. CASE NotFound(s) \/ Detach(s)  BY <1>3, <2>3 DEF NotFound, Detach
  <2> QED  BY <1>1, <1>2, <1>4, <2>1, <2>2, <2>3 DEF Inj

LEMMA InjectionBoundsKept ==
    InjectionInv /\ InjectionBounds /\ [InjectionNext]_injectionVars => InjectionBounds'
<1>1. InjectionBounds /\ UNCHANGED injectionVars => InjectionBounds'
  BY DEF InjectionBounds, ProcBounds, HostBounds, SearchBounds, injectionVars, hostVars, injVars
<1> QED  BY <1>1, HostBoundsKept, ProcBoundsKept, SearchBoundsKept DEF InjectionNext

-----------------------------------------------------------------------------
(* RemoteAddress.                                                           *)

LinkerIn(maps) == {m \in maps : m.file = "linker"}

Distinct(maps) == \A m, n \in maps : m.start = n.start => m = n

\* No two mappings are in one place, and each process has its linker in one place, whatever else it has mapped.
MapInv ==
    /\ mapped \in [Whose -> SUBSET [start : Addr, file : Files]]
    /\ \E b \in Bases : mapped["self"] = Linker(b)
    /\ mapped["target"] # {} => \E b \in Bases : LinkerIn(mapped["target"]) = Linker(b)
    /\ Distinct(mapped["self"]) /\ Distinct(mapped["target"])

\* Reading, either the linker is still ahead or its base has been found.
ReadSoFar(w) ==
    mapped[w] # {} =>
        \/ addr = BaseIn(w) /\ from = AddressSpace
        \/ from \in Nat /\ from <= BaseIn(w)

ReadInv ==
    /\ reading \in Whose \cup {"none", "done"}
    /\ reading \in Whose => looking \in Functions /\ ReadSoFar(reading)
    /\ reading = "target" => local_handle = BaseIn("self")

RemoteInv == MapInv /\ ReadInv /\ RemoteAddressRight

-----------------------------------------------------------------------------

\* The linker's mappings tell its base.
LEMMA LinkerTellsBase ==
    ASSUME NEW maps, NEW b \in Bases, LinkerIn(maps) = Linker(b)
    PROVE  (CHOOSE c \in Bases : Linker(c) \subseteq maps) = b
<1> USE RemoteAssumption DEF Bases, Addr
<1>1. Linker(b) \subseteq maps  BY DEF LinkerIn
<1>2. ASSUME NEW c \in Bases, Linker(c) \subseteq maps PROVE c = b
  <2>1. Linker(c) \subseteq Linker(b)
    <3>1. \A m \in Linker(c) : m.file = "linker"  BY DEF Linker
    <3> QED  BY <1>2, <3>1 DEF LinkerIn
  <2>2. \A k \in 0 .. (Segments - 1) : \E j \in 0 .. (Segments - 1) : c + k = b + j
    <3> SUFFICES ASSUME NEW k \in 0 .. (Segments - 1)
                 PROVE  \E j \in 0 .. (Segments - 1) : c + k = b + j
      OBVIOUS
    <3>1. [start |-> c + k, file |-> "linker"] \in Linker(b)  BY <2>1 DEF Linker
    <3>2. PICK j \in 0 .. (Segments - 1) :
            [start |-> c + k, file |-> "linker"] = [start |-> b + j, file |-> "linker"]
      BY <3>1 DEF Linker
    <3> QED  BY <3>2
  <2>3. PICK i \in 0 .. (Segments - 1) : c + 0 = b + i  BY <2>2
  <2>4. PICK j \in 0 .. (Segments - 1) : c + (Segments - 1) = b + j  BY <2>2
  <2> QED  BY <2>3, <2>4
<1> QED  BY <1>1, <1>2

\* So it is there, at its base and above, and nowhere else.
LEMMA LinkerFound ==
    ASSUME MapInv, NEW w \in Whose, mapped[w] # {}
    PROVE  BaseIn(w) \in Bases /\ LinkerIn(mapped[w]) = Linker(BaseIn(w))
<1>1. PICK b \in Bases : LinkerIn(mapped[w]) = Linker(b)
  <2>1. CASE w = "target"  BY <2>1 DEF MapInv
  <2>2. CASE w = "self"
    <3>1. PICK b \in Bases : mapped["self"] = Linker(b)  BY DEF MapInv
    <3>2. LinkerIn(Linker(b)) = Linker(b)  BY DEF LinkerIn, Linker
    <3> QED  BY <2>2, <3>1, <3>2
  <2> QED  BY <2>1, <2>2 DEF Whose
<1> QED  BY <1>1, LinkerTellsBase DEF BaseIn

\* What is mapped and unmapped beside the linker leaves its base alone.
LEMMA BaseStays ==
    ASSUME MapInv, NEW w \in Whose, mapped'[w] # {}, mapped[w] # {},
           LinkerIn(mapped'[w]) = LinkerIn(mapped[w])
    PROVE  BaseIn(w)' = BaseIn(w)
BY LinkerFound, LinkerTellsBase DEF BaseIn

LEMMA RemoteInitInv == RemoteInit => RemoteInv
<1> SUFFICES ASSUME RemoteInit PROVE RemoteInv  OBVIOUS
<1> USE RemoteAssumption
<1>1. PICK b \in [Whose -> Bases] : mapped = [w \in Whose |-> Linker(b[w])]
  BY DEF RemoteInit
<1>2. \A c \in Bases : /\ Linker(c) \subseteq [start : Addr, file : Files]
                       /\ LinkerIn(Linker(c)) = Linker(c)
                       /\ Distinct(Linker(c))
  BY DEF Linker, LinkerIn, Bases, Addr, Files, Distinct
<1>3. MapInv  BY <1>1, <1>2 DEF MapInv, Whose
<1>4. ReadInv /\ RemoteAddressRight
  BY DEF RemoteInit, ReadInv, RemoteAddressRight, Whose
<1> QED  BY <1>3, <1>4 DEF RemoteInv

\* The target's other threads and its death: the linker's place and what has been read
\* of it stay true.
LEMMA TargetKeeps ==
    ASSUME RemoteInv, mapped' \in [Whose -> SUBSET [start : Addr, file : Files]],
           mapped'["self"] = mapped["self"], Distinct(mapped'["target"]),
           \/ mapped'["target"] = {}
           \/ mapped["target"] # {} /\ LinkerIn(mapped'["target"]) = LinkerIn(mapped["target"]),
           UNCHANGED <<ldl, looking, reading, from, addr, local_handle>>
    PROVE  RemoteInv'
<1> USE DEF RemoteInv
<1>1. MapInv'  BY DEF MapInv, Whose
<1>2. BaseIn("self")' = BaseIn("self")  BY DEF BaseIn
<1>3. mapped'["target"] # {} => BaseIn("target")' = BaseIn("target")
  BY BaseStays DEF Whose
<1>4. ReadInv'
  BY <1>2, <1>3 DEF ReadInv, ReadSoFar, Whose
<1>5. RemoteAddressRight'
  BY <1>3 DEF RemoteAddressRight
<1> QED  BY <1>1, <1>4, <1>5

LEMMA OtherThreadMapsKeeps == ASSUME RemoteInv, NEW a \in Addr, OtherThreadMaps(a) PROVE RemoteInv'
<1> DEFINE m == [start |-> a, file |-> "other"]
<1>1. m \in [start : Addr, file : Files] /\ m.file # "linker"  BY DEF Files
<1> HIDE DEF m
<1>2. /\ mapped["target"] # {}
      /\ \A n \in mapped["target"] : n.start # m.start
      /\ mapped' = [mapped EXCEPT !["target"] = @ \cup {m}]
      /\ UNCHANGED <<ldl, looking, reading, from, addr, local_handle>>
  BY DEF OtherThreadMaps, Starts, m
<1>3. /\ mapped' \in [Whose -> SUBSET [start : Addr, file : Files]]
      /\ mapped'["self"] = mapped["self"] /\ mapped'["target"] = mapped["target"] \cup {m}
  BY <1>1, <1>2 DEF RemoteInv, MapInv, Whose
<1>4. LinkerIn(mapped'["target"]) = LinkerIn(mapped["target"])
  BY <1>1, <1>3 DEF LinkerIn
<1>5. Distinct(mapped'["target"])
  BY <1>2, <1>3 DEF RemoteInv, MapInv, Distinct
<1> QED  BY <1>2, <1>3, <1>4, <1>5, TargetKeeps

LEMMA OtherThreadUnmapsKeeps ==
    ASSUME RemoteInv, NEW m \in mapped["target"], OtherThreadUnmaps(m) PROVE RemoteInv'
<1>1. /\ mapped["target"] # {} /\ m.file # "linker"
      /\ mapped' = [mapped EXCEPT !["target"] = @ \ {m}]
      /\ UNCHANGED <<ldl, looking, reading, from, addr, local_handle>>
  BY DEF OtherThreadUnmaps
<1>2. /\ mapped' \in [Whose -> SUBSET [start : Addr, file : Files]]
      /\ mapped'["self"] = mapped["self"] /\ mapped'["target"] = mapped["target"] \ {m}
  BY <1>1 DEF RemoteInv, MapInv, Whose
<1>3. LinkerIn(mapped'["target"]) = LinkerIn(mapped["target"])
  BY <1>1, <1>2 DEF LinkerIn
<1>4. Distinct(mapped'["target"])
  BY <1>2 DEF RemoteInv, MapInv, Distinct
<1> QED  BY <1>1, <1>2, <1>3, <1>4, TargetKeeps

LEMMA TargetIsKilledKeeps == ASSUME RemoteInv, TargetIsKilled PROVE RemoteInv'
<1>1. /\ mapped' = [mapped EXCEPT !["target"] = {}]
      /\ UNCHANGED <<ldl, looking, reading, from, addr, local_handle>>
  BY DEF TargetIsKilled
<1>2. /\ mapped' \in [Whose -> SUBSET [start : Addr, file : Files]]
      /\ mapped'["self"] = mapped["self"] /\ mapped'["target"] = {}
  BY <1>1 DEF RemoteInv, MapInv, Whose
<1>3. Distinct(mapped'["target"])  BY <1>2 DEF Distinct
<1> QED  BY <1>1, <1>2, <1>3, TargetKeeps

LEMMA get_remote_addrKeeps == ASSUME RemoteInv, NEW f \in Functions, get_remote_addr(f) PROVE RemoteInv'
<1> USE DEF RemoteInv, get_remote_addr
<1>1. MapInv' /\ RemoteAddressRight'  BY DEF MapInv, RemoteAddressRight, BaseIn
<1>2. mapped["self"] # {} => BaseIn("self") \in Nat
  BY LinkerFound DEF Bases, Addr, Whose
<1>3. ReadInv'  BY <1>2 DEF ReadInv, ReadSoFar, BaseIn, Whose
<1> QED  BY <1>1, <1>3

\* A line of the linker that is read first of all that are ahead is its base.
LEMMA fgetsLineKeeps == ASSUME RemoteInv, fgetsLine PROVE RemoteInv'
<1> USE DEF RemoteInv
<1>1. PICK m \in Ahead : Line(m) /\ ReadLine(m)  BY DEF fgetsLine
<1>2. reading \in Whose /\ UNCHANGED <<mapped, ldl, looking, reading, local_handle>>
  BY DEF fgetsLine
<1>3. m \in mapped[reading] /\ m.start >= from /\ m.start \in Addr
  BY <1>1, <1>2 DEF Ahead, MapInv
<1> DEFINE base == BaseIn(reading)
<1>4. base \in Bases /\ LinkerIn(mapped[reading]) = Linker(base)
  BY <1>2, <1>3, LinkerFound
<1> HIDE DEF base
<1>5. base \in Nat /\ base > Fixed /\ base + Segments <= AddressSpace /\ AddressSpace \in Nat
      /\ Fixed \in Nat /\ Segments \in Nat /\ Segments > 0
  BY <1>4, RemoteAssumption DEF Bases, Addr
<1>6. m.start \in Nat /\ m.start < AddressSpace
  BY <1>3, RemoteAssumption DEF Addr
<1>7. from \in Nat /\ from <= base
  BY <1>2, <1>3, <1>5, <1>6 DEF ReadInv, ReadSoFar, base
<1>8. CASE IsModule(m)
  <2>1. m \in Linker(base)  BY <1>3, <1>4, <1>8 DEF LinkerIn, IsModule
  <2>2. m.start >= base  BY <1>5, <2>1 DEF Linker
  <2>3. [start |-> base, file |-> "linker"] \in Linker(base)
    <3>1. 0 \in 0 .. (Segments - 1) /\ base + 0 = base  BY <1>5
    <3> QED  BY <3>1 DEF Linker
  <2>4. [start |-> base, file |-> "linker"] \in Ahead
    BY <1>4, <1>7, <2>3 DEF Ahead, LinkerIn
  <2>5. m.start <= base  BY <1>1, <2>4 DEF Line
  <2>6. m.start = base /\ m.start # Fixed  BY <1>5, <1>6, <2>2, <2>5
  <2>7. addr' = base /\ from' = AddressSpace  BY <1>1, <1>8, <2>6 DEF ReadLine, BaseOf
  <2>8. BaseIn(reading)' = base  BY <1>2 DEF BaseIn, base
  <2> QED
    BY <1>2, <2>7, <2>8 DEF MapInv, ReadInv, ReadSoFar, RemoteAddressRight, BaseIn
<1>9. CASE ~ IsModule(m)
  <2>1. from' = m.start + 1 /\ addr' = addr  BY <1>1, <1>9 DEF ReadLine
  <2>2. m.start < base
    <3>1. [start |-> base, file |-> "linker"] \in Linker(base)
      <4>1. 0 \in 0 .. (Segments - 1) /\ base + 0 = base  BY <1>5
      <4> QED  BY <4>1 DEF Linker
    <3>2. [start |-> base, file |-> "linker"] \in Ahead
      BY <1>4, <1>7, <3>1 DEF Ahead, LinkerIn
    <3>3. m.start <= base  BY <1>1, <3>2 DEF Line
    <3>4. m.start # base
      <4>1. [start |-> base, file |-> "linker"] \in mapped[reading]
        BY <1>4, <3>1 DEF LinkerIn
      <4>2. Distinct(mapped[reading])  BY <1>2 DEF MapInv, Whose
      <4> QED  BY <1>3, <1>9, <4>1, <4>2 DEF IsModule, Distinct
    <3> QED  BY <1>5, <1>6, <3>3, <3>4
  <2>3. BaseIn(reading)' = base  BY <1>2 DEF BaseIn, base
  <2>4. ReadSoFar(reading)'
    BY <1>2, <1>5, <1>6, <2>1, <2>2, <2>3 DEF ReadSoFar
  <2> QED
    BY <1>2, <2>4 DEF MapInv, ReadInv, RemoteAddressRight, BaseIn
<1> QED  BY <1>8, <1>9

\* With nothing left to read, the base has been found.
LEMMA AllRead ==
    ASSUME RemoteInv, reading \in Whose, Ahead = {}, mapped[reading] # {}
    PROVE  addr = BaseIn(reading)
<1> DEFINE base == BaseIn(reading)
<1>1. base \in Bases /\ LinkerIn(mapped[reading]) = Linker(base)
  BY LinkerFound DEF RemoteInv
<1>2. base \in Nat /\ [start |-> base, file |-> "linker"] \in Linker(base)
  <2>1. 0 \in 0 .. (Segments - 1) /\ base \in Nat  BY <1>1, RemoteAssumption DEF Bases, Addr
  <2>2. base + 0 = base  BY <2>1
  <2> QED  BY <2>1, <2>2 DEF Linker
<1>3. [start |-> base, file |-> "linker"] \in mapped[reading]  BY <1>1, <1>2 DEF LinkerIn
<1> HIDE DEF base
<1>4. ~ (from \in Nat /\ from <= base)  BY <1>2, <1>3 DEF Ahead
<1> QED  BY <1>4 DEF RemoteInv, ReadInv, ReadSoFar, base

LEMMA SelfIsMapped == ASSUME RemoteInv PROVE mapped["self"] # {}
<1>1. PICK b \in Bases : mapped["self"] = Linker(b)  BY DEF RemoteInv, MapInv
<1>2. 0 \in 0 .. (Segments - 1)  BY RemoteAssumption
<1> QED  BY <1>1, <1>2 DEF Linker

LEMMA get_module_baseKeeps == ASSUME RemoteInv, get_module_base PROVE RemoteInv'
<1> USE DEF RemoteInv
<1>1. /\ reading = "self" /\ Ahead = {} /\ local_handle' = addr
      /\ reading' = "target" /\ from' = 0 /\ addr' = 0 /\ UNCHANGED <<mapped, ldl, looking>>
  BY DEF get_module_base
<1>2. addr = BaseIn("self")  BY <1>1, AllRead, SelfIsMapped DEF Whose
<1>3. MapInv' /\ RemoteAddressRight'
  BY <1>1 DEF MapInv, RemoteAddressRight, BaseIn
<1>4. mapped["target"] # {} => BaseIn("target") \in Nat
  BY LinkerFound DEF Bases, Addr, Whose
<1>5. ReadInv'
  BY <1>1, <1>2, <1>4 DEF ReadInv, ReadSoFar, BaseIn, Whose
<1> QED  BY <1>3, <1>5

\* The difference of the bases takes the function to the target's linker.
LEMMA RemoteAddrKeeps == ASSUME RemoteInv, RemoteAddr PROVE RemoteInv'
<1> USE DEF RemoteInv
<1>1. /\ reading = "target" /\ Ahead = {} /\ ldl' = [ldl EXCEPT ![looking] = Moved(looking)]
      /\ looking' = NoFunction /\ reading' = "none" /\ mapped' = mapped
  BY DEF RemoteAddr
<1>2. looking \in Functions /\ local_handle = BaseIn("self")
  BY <1>1 DEF ReadInv, Whose
<1>3. ASSUME mapped["target"] # {} PROVE Moved(looking) = BaseIn("target") + Offset[looking]
  <2> DEFINE t == BaseIn("target")
             s == BaseIn("self")
             o == Offset[looking]
  <2>1. addr = t  BY <1>1, <1>3, AllRead DEF Whose
  <2>2. t \in Bases /\ s \in Bases  BY <1>3, SelfIsMapped, LinkerFound DEF Whose
  <2>3. o \in 0 .. (Segments - 1)  BY <1>2, RemoteAssumption
  <2>4. Moved(looking) = (s + o + t - s) % AddressSpace
    BY <1>2, <2>1 DEF Moved, local_addr
  <2> HIDE DEF t, s, o
  <2>5. /\ t \in Nat /\ s \in Nat /\ o \in Nat /\ AddressSpace \in Nat
        /\ t + o < AddressSpace
    BY <2>2, <2>3, RemoteAssumption DEF Bases, Addr
  <2>6. s + o + t - s = t + o  BY <2>5
  <2>7. (t + o) % AddressSpace = t + o  BY <2>5
  <2> QED  BY <2>4, <2>6, <2>7 DEF t, o
<1>4. \A f \in Functions : f # looking => ldl'[f] = ldl[f]
  BY <1>1
<1>5. \A f \in Functions : ldl'[f] # -1 /\ mapped["target"] # {} =>
          ldl'[f] = BaseIn("target") + Offset[f]
  <2> TAKE f \in Functions
  <2>1. CASE f # looking  BY <1>4, <2>1 DEF RemoteAddressRight
  <2>2. CASE f = looking /\ looking \in DOMAIN ldl
    BY <1>1, <1>3, <2>2
  <2>3. CASE f = looking /\ looking \notin DOMAIN ldl
    BY <1>1, <2>3 DEF RemoteAddressRight
  <2> QED  BY <2>1, <2>2, <2>3
<1>6. MapInv' /\ ReadInv'
  BY <1>1 DEF MapInv, ReadInv, Whose
<1>7. RemoteAddressRight'
  BY <1>1, <1>5 DEF RemoteAddressRight, BaseIn
<1> QED  BY <1>6, <1>7

-----------------------------------------------------------------------------

LEMMA RemoteStutterKeeps == ASSUME RemoteInv, UNCHANGED remoteVars PROVE RemoteInv'
BY DEF remoteVars, RemoteInv, MapInv, ReadInv, ReadSoFar, RemoteAddressRight, BaseIn

LEMMA RemoteStepInv == RemoteInv /\ [RemoteNext]_remoteVars => RemoteInv'
<1> SUFFICES ASSUME RemoteInv, [RemoteNext]_remoteVars PROVE RemoteInv'  OBVIOUS
<1>1. CASE \E a \in Addr : OtherThreadMaps(a)  BY <1>1, OtherThreadMapsKeeps
<1>2. CASE \E m \in mapped["target"] : OtherThreadUnmaps(m)  BY <1>2, OtherThreadUnmapsKeeps
<1>3. CASE TargetIsKilled  BY <1>3, TargetIsKilledKeeps
<1>4. CASE \E f \in Functions : get_remote_addr(f)  BY <1>4, get_remote_addrKeeps
<1>5. CASE fgetsLine  BY <1>5, fgetsLineKeeps
<1>6. CASE get_module_base  BY <1>6, get_module_baseKeeps
<1>7. CASE RemoteAddr  BY <1>7, RemoteAddrKeeps
<1>8. CASE UNCHANGED remoteVars  BY <1>8, RemoteStutterKeeps
<1> QED  BY <1>1, <1>2, <1>3, <1>4, <1>5, <1>6, <1>7, <1>8 DEF RemoteNext

LEMMA RemoteInvariance == RemoteSpec => []RemoteInv
BY RemoteInitInv, RemoteStepInv, PTL DEF RemoteSpec

\* The addresses at which inj makes the target call are those of the target's own linker
\* (get_remote_addr, get_module_base).
THEOREM RemoteAddressIsRight == RemoteSpec => []RemoteAddressRight
<1>1. RemoteInv => RemoteAddressRight  BY DEF RemoteInv
<1> QED  BY <1>1, RemoteInvariance, PTL

\* The types, given the invariant.
RemoteBounds ==
    /\ ldl \in [Functions -> Addr \cup {-1}]
    /\ looking \in Functions \cup {NoFunction}
    /\ from \in 0 .. AddressSpace /\ addr \in Addr /\ local_handle \in Addr

LEMMA RemoteTyped == RemoteInv /\ RemoteBounds => RemoteTypeOK
BY DEF RemoteInv, MapInv, ReadInv, RemoteBounds, RemoteTypeOK, Whose

LEMMA RemoteInitBounds == RemoteInit => RemoteBounds
BY RemoteAssumption DEF RemoteInit, RemoteBounds, Addr

LEMMA RemoteBoundsKept == RemoteInv /\ RemoteBounds /\ [RemoteNext]_remoteVars => RemoteBounds'
<1> SUFFICES ASSUME RemoteInv, RemoteBounds, [RemoteNext]_remoteVars PROVE RemoteBounds'  OBVIOUS
<1> USE DEF RemoteBounds
<1>0. AddressSpace \in Nat /\ AddressSpace > 0 /\ 0 \in Addr /\ 0 \in 0 .. AddressSpace
  BY RemoteAssumption DEF Addr
<1>1. CASE UNCHANGED <<ldl, looking, from, addr, local_handle>>  BY <1>1
<1>2. ASSUME NEW f \in Functions, get_remote_addr(f) PROVE RemoteBounds'
  BY <1>0, <1>2 DEF get_remote_addr
<1>3. CASE fgetsLine
  <2>1. PICK m \in Ahead : ReadLine(m)  BY <1>3 DEF fgetsLine
  <2>2. m.start \in Addr  BY <1>3, <2>1 DEF Ahead, fgetsLine, RemoteInv, MapInv
  <2>3. addr' \in Addr  BY <1>0, <2>1, <2>2 DEF ReadLine, BaseOf
  <2>4. from' \in 0 .. AddressSpace  BY <1>0, <2>1, <2>2 DEF ReadLine, Addr
  <2> QED  BY <1>3, <2>3, <2>4 DEF fgetsLine
<1>4. CASE get_module_base  BY <1>0, <1>4 DEF get_module_base
<1>5. CASE RemoteAddr
  <2>1. /\ ldl' = [ldl EXCEPT ![looking] = Moved(looking)] /\ looking' = NoFunction
        /\ from' = 0 /\ addr' = 0 /\ local_handle' = 0
    BY <1>5 DEF RemoteAddr
  <2>2. looking \in Functions  BY <1>5 DEF RemoteAddr, RemoteInv, ReadInv, Whose
  <2>3. local_addr(looking) \in Int
    <3>1. \E b \in Bases : mapped["self"] = Linker(b)  BY DEF RemoteInv, MapInv
    <3>2. mapped["self"] # {}  BY SelfIsMapped
    <3>3. BaseIn("self") \in Bases  BY <3>2, LinkerFound DEF RemoteInv, Whose
    <3>4. Offset[looking] \in Int  BY <2>2, RemoteAssumption
    <3> QED  BY <3>3, <3>4 DEF local_addr, Bases, Addr
  <2>4. Moved(looking) \in Addr
    <3>1. PICK n \in Int : n = local_addr(looking) + addr - local_handle
      BY <2>3 DEF Addr
    <3>2. n % AddressSpace \in 0 .. (AddressSpace - 1)  BY <1>0, <3>1, Z3
    <3> QED  BY <3>1, <3>2 DEF Moved, Addr
  <2> QED  BY <1>0, <2>1, <2>4
<1>6. \/ UNCHANGED <<ldl, looking, from, addr, local_handle>>
      \/ (\E f \in Functions : get_remote_addr(f)) \/ fgetsLine \/ get_module_base \/ RemoteAddr
  BY DEF RemoteNext, remoteVars, OtherThreadMaps, OtherThreadUnmaps, TargetIsKilled
<1> QED  BY <1>1, <1>2, <1>3, <1>4, <1>5, <1>6

-----------------------------------------------------------------------------
(* Loader.                                                                  *)

\* Where invoke has found no proxy in the chain and has not inserted one yet.
Making == {"create", "loadProxy", "getConstructor", "newProxy", "changeParent"}

\* Where it has the loader of the proxy in the chain (and needs it to be one).
Using == {"inserted", "loadTarget", "getMethod", "call"}

\* Nobody else changes the chain, so invoke finds it as GetParent left it.
MakingInv == pc \in Making => parent = "boot"

\* The proxy about to be inserted has the application's own parent.
ProxyInv ==
    pc = "changeParent" => /\ proxyParent[dexClassLoader] = "boot"
                           /\ returned = Thrown => threw

UsingInv ==
    /\ pc \in Using /\ ~ threw => parent = dexClassLoader
    /\ pc = "inserted" => dexClassLoader \in Loaders

LoaderInv == TypeOK /\ MakingInv /\ ProxyInv /\ UsingInv /\ OneProxy

-----------------------------------------------------------------------------

\* An object is no null.
LEMMA ObjectNotThrown == Object # Thrown
<1>1. Object.value # Thrown.value  BY DEF Object, Thrown
<1> QED  BY <1>1

\* As catchException's sense is inverted, no result of a JNI call makes invoke give up.
LEMMA NeverGivenUp == ASSUME NEW r \in {Object, Thrown} PROVE ~ GivenUp(r)
<1>1. CASE r = Object
  <2>1. r.value # "null"  BY <1>1 DEF Object
  <2> QED  BY <2>1 DEF GivenUp
<1>2. CASE r = Thrown
  <2>1. r.exception  BY <1>2, Zenon DEF Thrown
  <2> QED  BY <2>1 DEF GivenUp, catchException
<1> QED  BY <1>1, <1>2

\* So each step of insertClassLoaderProxy goes on.
LEMMA ObtainGoesOn ==
    ASSUME NEW p, NEW q, NEW r \in {Object, Thrown}, Obtain(p, q, r)
    PROVE  /\ pc = p /\ pc' = q /\ returned' = r
           /\ UNCHANGED <<result, parent, loaderDex, dexPath, dexClassLoader>>
BY NeverGivenUp DEF Obtain, Step

LEMMA LoaderInitInv == Init => LoaderInv
BY NullAssumption DEF Init, LoaderInv, TypeOK, MakingInv, ProxyInv, UsingInv, OneProxy,
                      Parents, Pc, Making, Using

\* The state is well formed after every step, and each step keeps the rest.
LEMMA LoaderStepInv == LoaderInv /\ [Next]_vars => LoaderInv'
<1> USE NullAssumption
<1> SUFFICES ASSUME LoaderInv, [Next]_vars PROVE LoaderInv'
  OBVIOUS
<1> USE DEF LoaderInv, TypeOK, MakingInv, ProxyInv, UsingInv, OneProxy, Parents, Pc, Making, Using
<1>1. ASSUME NEW d \in Dexes, Invoke(d) PROVE LoaderInv'
  BY <1>1 DEF Invoke, Step, chainVars
<1>2. CASE NoClassLoader
  BY <1>2 DEF NoClassLoader, Fail, Step, chainVars
<1>3. CASE GetParent
  BY <1>3 DEF GetParent, Fail, Step, chainVars
<1>4. CASE CreateDexClassLoader
  BY <1>4 DEF CreateDexClassLoader, Step, chainVars
<1>5. CASE CreateFails
  BY <1>5 DEF CreateFails, Fail, Step, chainVars
<1>6. CASE LoadProxyClass
  <2>1. PICK r \in {Object, Thrown} : Obtain("loadProxy", "getConstructor", r)
    BY <1>6, Zenon DEF LoadProxyClass
  <2>2. UNCHANGED <<proxyParent, threw>>  BY <1>6 DEF LoadProxyClass
  <2> QED  BY <2>1, <2>2, ObtainGoesOn
<1>7. CASE GetConstructor
  <2>1. PICK r \in {Object, Thrown} : Obtain("getConstructor", "newProxy", r)
    BY <1>7, Zenon DEF GetConstructor
  <2>2. UNCHANGED <<proxyParent, threw>>  BY <1>7 DEF GetConstructor
  <2> QED  BY <2>1, <2>2, ObtainGoesOn
<1>8. CASE NewProxy
  <2>1. PICK r \in {Object, Thrown} : /\ Obtain("newProxy", "changeParent", r)
                                      /\ threw' = (threw \/ r = Thrown)
    BY <1>8, Zenon DEF NewProxy
  <2>2. proxyParent' = [proxyParent EXCEPT ![dexClassLoader] = parent]
    BY <1>8 DEF NewProxy
  <2>3. /\ pc = "newProxy" /\ pc' = "changeParent" /\ returned' = r
        /\ UNCHANGED <<result, parent, loaderDex, dexPath, dexClassLoader>>
    BY <2>1, ObtainGoesOn
  <2>4. threw' \in BOOLEAN /\ (returned' = Thrown => threw')
    BY <2>1, <2>3, Zenon
  <2> QED  BY <2>2, <2>3, <2>4
<1>9. CASE ChangeClassLoaderParent
  BY <1>9, ObjectNotThrown DEF ChangeClassLoaderParent, Step
<1>10. CASE Inserted
  BY <1>10 DEF Inserted, Step, chainVars
<1>11. CASE Fault
  BY <1>11 DEF Fault, chainVars
<1>12. CASE LoadTargetClass
  BY <1>12 DEF LoadTargetClass, Fail, Step, chainVars
<1>13. CASE GetStaticMethodID
  BY <1>13 DEF GetStaticMethodID, Fail, Step, chainVars
<1>14. CASE CallTarget
  BY <1>14 DEF CallTarget, Step, chainVars
<1>15. CASE Return
  BY <1>15 DEF Return, Step, chainVars
<1>16. CASE UNCHANGED vars
  BY <1>16 DEF vars, chainVars
<1> QED
  BY <1>1, <1>2, <1>3, <1>4, <1>5, <1>6, <1>7, <1>8, <1>9, <1>10, <1>11, <1>12, <1>13, <1>14,
     <1>15, <1>16 DEF Next

\* The inductive invariant holds.
LEMMA LoaderInvariance == Spec => []LoaderInv
BY LoaderInitInv, LoaderStepInv, PTL DEF Spec

-----------------------------------------------------------------------------

\* Type correctness of the chain and of invoke's locals.
THEOREM LoaderTypeCorrect == Spec => []TypeOK
<1>1. LoaderInv => TypeOK  BY DEF LoaderInv
<1> QED  BY <1>1, LoaderInvariance, PTL

\* However often invoke is called, the application and the injected code see the
\* same classes, through one proxy with the application's own parent behind it.
THEOREM ChainIsSound == Spec => []ChainSound
<1>1. LoaderInv => ChainSound
  BY DEF LoaderInv, UsingInv, Using, ChainSound, OneProxy, TargetSeenByApplication
<1> QED  BY <1>1, LoaderInvariance, PTL

\* The chain is changed once at most, and is cut only if a constructor threw.
THEOREM ChainIsKept == Spec => ChainKept
<1>1. LoaderInv /\ [Next]_vars => [parent = "boot" /\ (parent' = "null" => threw)]_parent
  <2> SUFFICES ASSUME LoaderInv, Next, parent' # parent
               PROVE  parent = "boot" /\ (parent' = "null" => threw)
    BY DEF vars, chainVars
  <2>1. \A p, q, r : Obtain(p, q, r) => UNCHANGED parent
    BY DEF Obtain
  <2>2. ChangeClassLoaderParent
    BY <2>1 DEF Next, Invoke, NoClassLoader, GetParent, CreateDexClassLoader, CreateFails,
       LoadProxyClass, GetConstructor, NewProxy, Inserted, Fault, LoadTargetClass,
       GetStaticMethodID, CallTarget, Return, chainVars
  <2> QED
    BY <2>2, NullAssumption DEF ChangeClassLoaderParent, Step, LoaderInv, TypeOK, MakingInv,
       Making, ProxyInv
<1> QED  BY <1>1, LoaderInvariance, PTL DEF Spec, ChainKept
=============================================================================
