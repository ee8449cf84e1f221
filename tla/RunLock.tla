------------------------------- MODULE RunLock -------------------------------
(***************************************************************************)
(* _RunLock of src/simulator.py: the lock file that keeps two live bots    *)
(* apart.  A process creates the file with O_CREAT|O_EXCL and then writes  *)
(* its pid into it; when the file exists it reads the pid, asks the kernel *)
(* whether that process runs, and removes the file if it does not.  Every  *)
(* system call is a step of its own, and a process may die between any two.*)
(***************************************************************************)
EXTENDS FiniteSets, Naturals

CONSTANTS
  Proc,            \* bot processes
  Pid,             \* process ids of the operating system
  NoPid,           \* no process id: an empty file, a pid not read
  Absent,          \* the lock file does not exist
  Foreign,         \* process ids that programs other than the bot may take
  MaxRaces         \* bound of the model: no bot is started after so many races

ASSUME LockAssumption ==
  /\ IsFiniteSet(Proc) /\ MaxRaces \in Nat
  /\ NoPid \notin Pid /\ Foreign \subseteq Pid
  /\ Absent \notin [by : Proc, pid : Pid \cup {NoPid}]

VARIABLES
  pc,         \* where a process is in __enter__, the bot or __exit__
  pid,        \* os.getpid(), NoPid while the process does not exist
  seen,       \* existing_pid
  lockFile,   \* the file: who created it and the pid it holds
  foreign,    \* pids in use by other programs
  contended,  \* history: some other bot lived since the start
  outdated,   \* history: starts whose file is gone that they read the pid of
  races       \* history: files removed by a start that had read another one

lockVars == <<pc, pid, seen, lockFile, foreign, contended, outdated, races>>
history == <<contended, outdated, races>>

Starting == {"open", "read", "probe", "unlink", "write"}

LockTypeOK ==
  /\ pc \in [Proc -> {"off", "in", "refused"} \cup Starting]
  /\ pid \in [Proc -> Pid \cup {NoPid}]
  /\ seen \in [Proc -> Pid \cup {NoPid}]
  /\ lockFile \in {Absent} \cup [by : Proc, pid : Pid \cup {NoPid}]
  /\ foreign \subseteq Foreign
  /\ contended \in [Proc -> BOOLEAN] /\ outdated \subseteq Proc /\ races \in Nat

Alive(p) == pc[p] # "off"

\* _pid_running: os.kill(k, 0) finds a process, of the bot or not.
PidRunning(k) == k \in foreign \/ \E p \in Proc : Alive(p) /\ pid[p] = k

\* _read_lock_pid: None for a missing file and for one without a number.
ReadLockPid == IF lockFile = Absent THEN NoPid ELSE lockFile.pid

LockInit ==
  /\ pc = [p \in Proc |-> "off"] /\ pid = [p \in Proc |-> NoPid]
  /\ seen = [p \in Proc |-> NoPid] /\ lockFile = Absent
  /\ foreign = {} /\ contended = [p \in Proc |-> FALSE]
  /\ outdated = {} /\ races = 0

\* The operating system starts a bot under a pid nobody has.  Process ids
\* are used again; in a container a restarted bot mostly gets the same one.
Start(p) ==
  /\ pc[p] = "off" /\ races < MaxRaces
  /\ \E k \in {i \in Pid : ~PidRunning(i)} :
       pid' = [pid EXCEPT ![p] = k]
  /\ pc' = [pc EXCEPT ![p] = "open"]
  /\ contended' = [q \in Proc |->
       IF q = p THEN \E r \in Proc : Alive(r) ELSE contended[q] \/ Alive(q)]
  /\ UNCHANGED <<seen, lockFile, foreign, outdated, races>>

Goto(p, to) == pc' = [pc EXCEPT ![p] = to]

\* The name is unlinked: what other starts have read of the file is outdated.
Removes(p) ==
  /\ lockFile' = Absent
  /\ outdated' = {q \in Proc \ {p} : pc[q] \in {"probe", "unlink"}}

\* os.open(O_CREAT | O_EXCL | O_WRONLY)
Open(p) ==
  /\ pc[p] = "open"
  /\ IF lockFile = Absent
     THEN lockFile' = [by |-> p, pid |-> NoPid] /\ Goto(p, "write")
     ELSE Goto(p, "read") /\ UNCHANGED lockFile
  /\ UNCHANGED <<pid, seen, foreign, history>>

\* FileExistsError: no pid can be read, so another bot appears to be running.
Read(p) ==
  /\ pc[p] = "read"
  /\ seen' = [seen EXCEPT ![p] = ReadLockPid]
  /\ Goto(p, IF ReadLockPid = NoPid THEN "refused" ELSE "probe")
  /\ UNCHANGED <<pid, lockFile, foreign, history>>

\* Mutant: a file whose process is dead refuses the start like any other.
ProbeNever(p) ==
  /\ pc[p] = "probe" /\ Goto(p, "refused")
  /\ outdated' = outdated \ {p}
  /\ UNCHANGED <<pid, seen, lockFile, foreign, contended, races>>

Probe(p) ==
  /\ pc[p] = "probe"
  /\ IF PidRunning(seen[p])
     THEN Goto(p, "refused") /\ outdated' = outdated \ {p}
     ELSE Goto(p, "unlink") /\ UNCHANGED outdated
  /\ UNCHANGED <<pid, seen, lockFile, foreign, contended, races>>

\* Mutant: the stale file is left in place.
UnlinkNothing(p) ==
  /\ pc[p] = "unlink" /\ Goto(p, "open")
  /\ outdated' = outdated \ {p}
  /\ UNCHANGED <<pid, seen, lockFile, foreign, contended, races>>

\* path.unlink() removes whatever file has the name by now, then `continue`.
Unlink(p) ==
  /\ pc[p] = "unlink"
  /\ Removes(p) /\ Goto(p, "open")
  /\ races' = IF p \in outdated /\ lockFile # Absent THEN races + 1 ELSE races
  /\ UNCHANGED <<pid, seen, foreign, contended>>

\* The pid goes to the file this process created, which may be unlinked.
Write(p) ==
  /\ pc[p] = "write"
  /\ lockFile' = IF lockFile # Absent /\ lockFile.by = p
                 THEN [lockFile EXCEPT !.pid = pid[p]] ELSE lockFile
  /\ Goto(p, "in")
  /\ UNCHANGED <<pid, seen, foreign, history>>

\* __exit__ of an owner unlinks the name, and the process ends.
Exit(p) ==
  /\ pc[p] = "in"
  /\ Removes(p)
  /\ Goto(p, "off") /\ pid' = [pid EXCEPT ![p] = NoPid]
  /\ seen' = [seen EXCEPT ![p] = NoPid]
  /\ UNCHANGED <<foreign, contended, races>>

\* Mutant: __exit__ without the _owned test: a refused process unlinks the file.
LeaveUnlinks(p) ==
  /\ pc[p] = "refused"
  /\ Removes(p)
  /\ Goto(p, "off") /\ pid' = [pid EXCEPT ![p] = NoPid]
  /\ seen' = [seen EXCEPT ![p] = NoPid]
  /\ UNCHANGED <<foreign, contended, races>>

\* SystemExit before the lock was owned: __exit__ is not run.
Leave(p) ==
  /\ pc[p] = "refused"
  /\ Goto(p, "off") /\ pid' = [pid EXCEPT ![p] = NoPid]
  /\ seen' = [seen EXCEPT ![p] = NoPid]
  /\ UNCHANGED <<lockFile, foreign, history>>

\* The process is killed; the file stays as it is.
Crash(p) ==
  /\ Alive(p)
  /\ Goto(p, "off") /\ pid' = [pid EXCEPT ![p] = NoPid]
  /\ seen' = [seen EXCEPT ![p] = NoPid]
  /\ outdated' = outdated \ {p}
  /\ UNCHANGED <<lockFile, foreign, contended, races>>

\* Other programs come and go.
OtherProgram ==
  /\ foreign' \in SUBSET {k \in Foreign : \A p \in Proc : pid[p] # k}
  /\ UNCHANGED <<pc, pid, seen, lockFile, history>>

Advance(p) == Open(p) \/ Read(p) \/ Probe(p) \/ Unlink(p) \/ Write(p)

LockNext ==
  \/ \E p \in Proc : Start(p) \/ Advance(p) \/ Exit(p) \/ Leave(p) \/ Crash(p)
  \/ OtherProgram

\* The operating system schedules a process that can run.  Nothing obliges a
\* bot to exit or to crash.
Fairness == \A p \in Proc : WF_lockVars(Advance(p)) /\ WF_lockVars(Leave(p))

LockSpec == LockInit /\ [][LockNext]_lockVars /\ Fairness

-----------------------------------------------------------------------------
(***************************************************************************)
(* Properties                                                              *)
(***************************************************************************)

\* However starts overlap, bots trade side by side only after races: a start
\* that read the pid of a dead bot's file removed the file another start had put
\* in its place.  Each race costs at most one more bot: a bot whose file is gone
\* unlinks its successor's when it exits, and the number stays.  Depends on
\* O_EXCL, on the probe, and on who may unlink.
MutualExclusion == Cardinality({p \in Proc : pc[p] = "in"}) <= 1 + races

\* A start is refused only if another bot has run since it was made, or if the
\* file cannot be told from a live one: it holds no pid, or one in use again.
\* In particular the file of a dead bot refuses nobody.
RefusalJustified ==
  [][\A p \in Proc : pc[p] # "refused" /\ pc'[p] = "refused"
       => contended[p] \/ ReadLockPid \in {NoPid, pid[p]} \cup foreign]_lockVars

\* The `while True` of __enter__ ends: a stale file is removed for good, and
\* the start gets the lock, is refused, or dies.  Only bots that are started
\* (and killed) for ever can keep it turning.
StartDecides ==
  \/ \A p \in Proc : pc[p] = "open" ~> pc[p] \in {"in", "refused", "off"}
  \/ []<><<\E q \in Proc : Start(q)>>_lockVars
=============================================================================
