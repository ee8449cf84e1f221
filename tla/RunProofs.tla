------------------------------ MODULE RunProofs ------------------------------
(***************************************************************************)
(* What PaperArbSimulator.run relies on: the lock it takes and, under it,  *)
(* the prefetches of its loop.                                             *)
(*                                                                         *)
(* However starts, exits and crashes interleave, and whatever pids bots are *)
(* given, bots trade side by side only after races of two starts for the   *)
(* file of a dead bot, one more bot for each race.  MutualExclusion is not *)
(* inductive: the bots that count are the Strays, whose lock file has been *)
(* removed under them.  Only a start whose reading is outdated can make    *)
(* one, because a start that is not removes the file it has probed, whose  *)
(* creator is dead (ProbedIsDead).                                         *)
(*                                                                         *)
(* The pipelines hand books only to entries they cover or belong to, for   *)
(* any set of pairs and specs, and as long as some pair is near, the pair  *)
(* pipeline keeps no answer older than the last scan.  HotIsFresh is       *)
(* inductive once the fetches are well typed and no answer is dated ahead. *)
(***************************************************************************)
EXTENDS RunLock, Prefetch, FiniteSetTheorems, TLAPS

-----------------------------------------------------------------------------
(* The lock.                                                               *)

Holds(p) == pc[p] \in {"write", "in"}

\* Bots whose lock file is gone or another bot's.
Strays == {p \in Proc : Holds(p) /\ (lockFile = Absent \/ lockFile.by # p)}

\* The file of a bot that still has it holds no pid, then its own.
OwnPid ==
  lockFile # Absent =>
    /\ pc[lockFile.by] = "write" => lockFile.pid = NoPid
    /\ pc[lockFile.by] = "in" => lockFile.pid = pid[lockFile.by]

\* A start whose reading is not outdated has read the pid that is in the file,
\* and once it has probed it, the file's creator does not hold the lock.
ProbedIsDead ==
  \A p \in Proc \ outdated :
    pc[p] \in {"probe", "unlink"} =>
      /\ lockFile # Absent /\ lockFile.pid # NoPid /\ seen[p] = lockFile.pid
      /\ pc[p] = "unlink" => ~Holds(lockFile.by)

StraysCounted == Cardinality(Strays) <= races

LockInv == LockTypeOK /\ OwnPid /\ ProbedIsDead /\ StraysCounted

\* Before any process is started there is no lock and nobody holds it.
LEMMA LockInitInv == LockInit => LockInv
<1> SUFFICES ASSUME LockInit PROVE LockInv
  OBVIOUS
<1>1. LockTypeOK /\ OwnPid /\ ProbedIsDead
  BY DEF LockInit, LockTypeOK, OwnPid, ProbedIsDead
<1>2. Strays = {}
  BY DEF LockInit, Strays, Holds
<1> QED
  BY <1>1, <1>2, FS_EmptySet DEF LockInv, StraysCounted, LockInit

LEMMA LockTypeStep == LockTypeOK /\ [LockNext]_lockVars => LockTypeOK'
<1> SUFFICES ASSUME LockTypeOK, [LockNext]_lockVars PROVE LockTypeOK'
  OBVIOUS
<1> USE DEF LockTypeOK, Starting
<1>1. ASSUME NEW p \in Proc, Start(p) PROVE LockTypeOK'
  <2>1. contended' \in [Proc -> BOOLEAN]
    <3>1. contended' = [q \in Proc |->
            IF q = p THEN \E r \in Proc : Alive(r) ELSE contended[q] \/ Alive(q)]
      BY <1>1 DEF Start
    <3>2. \A q \in Proc : Alive(q) \in BOOLEAN /\ contended[q] \in BOOLEAN
      BY DEF Alive
    <3> QED BY <3>1, <3>2, Zenon
  <2>2. /\ \E k \in Pid : pid' = [pid EXCEPT ![p] = k]
        /\ pc' = [pc EXCEPT ![p] = "open"] /\ UNCHANGED <<seen, lockFile, foreign, outdated, races>>
    BY <1>1 DEF Start
  <2>3. pc' \in [Proc -> {"off", "in", "refused"} \cup Starting]
        /\ pid' \in [Proc -> Pid \cup {NoPid}]
    BY <2>2
  <2> QED BY <2>1, <2>2, <2>3
<1>2. ASSUME NEW p \in Proc, Advance(p) PROVE LockTypeOK'
  <2>1. CASE Open(p)
    BY <2>1 DEF Open, Goto, history
  <2>2. CASE Read(p)
    BY <2>2 DEF Read, Goto, ReadLockPid, history
  <2>3. CASE Probe(p)
    BY <2>3 DEF Probe, Goto
  <2>4. CASE Unlink(p)
    BY <2>4 DEF Unlink, Goto, Removes
  <2>5. CASE Write(p)
    BY <2>5 DEF Write, Goto, history
  <2> QED BY <1>2, <2>1, <2>2, <2>3, <2>4, <2>5 DEF Advance
<1>3. ASSUME NEW p \in Proc, Exit(p) \/ Leave(p) \/ Crash(p) PROVE LockTypeOK'
  BY <1>3 DEF Exit, Leave, Crash, Goto, Removes, history
<1>4. CASE OtherProgram
  BY <1>4 DEF OtherProgram, history
<1>5. CASE UNCHANGED lockVars
  BY <1>5 DEF lockVars
<1> QED BY <1>1, <1>2, <1>3, <1>4, <1>5 DEF LockNext

\* One more element is at most one more.
LEMMA AddOne ==
  ASSUME NEW S, IsFiniteSet(S), NEW x
  PROVE  /\ IsFiniteSet(S \cup {x}) /\ Cardinality(S) \in Nat
         /\ Cardinality(S \cup {x}) \in Nat /\ Cardinality(S \cup {x}) <= Cardinality(S) + 1
<1>1. Cardinality(S) \in Nat
  BY FS_CardinalityType
<1>2. /\ IsFiniteSet(S \cup {x})
      /\ Cardinality(S \cup {x}) = IF x \in S THEN Cardinality(S) ELSE Cardinality(S) + 1
  BY FS_AddElement
<1> QED
  BY <1>1, <1>2

\* No strays are made where the new ones are among the old.
LEMMA StraysShrink ==
  ASSUME LockInv, LockTypeOK', Strays' \subseteq Strays, races' = races
  PROVE  StraysCounted'
<1>1. IsFiniteSet(Strays)
  BY LockAssumption, FS_Subset DEF Strays
<1> QED
  BY <1>1, FS_Subset, FS_CardinalityType DEF LockInv, StraysCounted, LockTypeOK

\* Every step keeps the invariant.
LEMMA LockNextInv == LockInv /\ [LockNext]_lockVars => LockInv'
<1> SUFFICES ASSUME LockInv, [LockNext]_lockVars PROVE LockInv'
  OBVIOUS
<1> USE LockAssumption
<1>t. LockTypeOK /\ LockTypeOK'
  BY LockTypeStep DEF LockInv
<1> USE DEF LockTypeOK, Holds
<1>1. ASSUME NEW p \in Proc, Start(p) PROVE LockInv'
  <2>1. /\ \A q \in Proc \ {p} : pid'[q] = pid[q]
        /\ pc' = [pc EXCEPT ![p] = "open"] /\ pc[p] = "off"
        /\ UNCHANGED <<seen, lockFile, outdated, races>>
    BY <1>1, <1>t DEF Start
  <2>2. OwnPid' /\ ProbedIsDead'
    BY <2>1, <1>t DEF LockInv, OwnPid, ProbedIsDead
  <2>3. Strays' \subseteq Strays
    BY <2>1, <1>t DEF Strays
  <2> QED
    BY <1>t, <2>1, <2>2, <2>3, StraysShrink DEF LockInv
<1>2. ASSUME NEW p \in Proc, Open(p) PROVE LockInv'
  <2>1. CASE lockFile = Absent
    <3>1. /\ lockFile' = [by |-> p, pid |-> NoPid] /\ pc' = [pc EXCEPT ![p] = "write"]
          /\ pc[p] = "open" /\ UNCHANGED <<pid, seen, outdated, races>>
      BY <1>2, <2>1 DEF Open, Goto, history
    <3>2. OwnPid' /\ ProbedIsDead'
      BY <2>1, <3>1, <1>t DEF LockInv, OwnPid, ProbedIsDead
    <3>3. Strays' \subseteq Strays
      BY <2>1, <3>1, <1>t DEF Strays
    <3> QED
      BY <1>t, <3>1, <3>2, <3>3, StraysShrink DEF LockInv
  <2>2. CASE lockFile # Absent
    <3>1. /\ pc' = [pc EXCEPT ![p] = "read"] /\ pc[p] = "open"
          /\ UNCHANGED <<lockFile, pid, seen, outdated, races>>
      BY <1>2, <2>2 DEF Open, Goto, history
    <3>2. OwnPid' /\ ProbedIsDead'
      BY <3>1, <1>t DEF LockInv, OwnPid, ProbedIsDead
    <3>3. Strays' \subseteq Strays
      BY <3>1, <1>t DEF Strays
    <3> QED
      BY <1>t, <3>1, <3>2, <3>3, StraysShrink DEF LockInv
  <2> QED
    BY <2>1, <2>2
<1>3. ASSUME NEW p \in Proc, Read(p) PROVE LockInv'
  <2>1. /\ pc[p] = "read" /\ UNCHANGED <<lockFile, pid, outdated, races>>
        /\ pc' = [pc EXCEPT ![p] = IF ReadLockPid = NoPid THEN "refused" ELSE "probe"]
        /\ seen' = [seen EXCEPT ![p] = ReadLockPid]
    BY <1>3 DEF Read, Goto, history
  <2>2. OwnPid' /\ ProbedIsDead'
    BY <2>1, <1>t DEF LockInv, OwnPid, ProbedIsDead, ReadLockPid
  <2>3. Strays' \subseteq Strays
    BY <2>1, <1>t DEF Strays
  <2> QED
    BY <1>t, <2>1, <2>2, <2>3, StraysShrink DEF LockInv
<1>4. ASSUME NEW p \in Proc, Probe(p) PROVE LockInv'
  <2>1. pc[p] = "probe" /\ UNCHANGED <<lockFile, pid, seen, races>>
    BY <1>4 DEF Probe
  <2>2. CASE PidRunning(seen[p])
    <3>1. pc' = [pc EXCEPT ![p] = "refused"] /\ outdated' = outdated \ {p}
      BY <1>4, <2>2 DEF Probe, Goto
    <3>2. OwnPid' /\ ProbedIsDead'
      BY <2>1, <3>1, <1>t DEF LockInv, OwnPid, ProbedIsDead
    <3>3. Strays' \subseteq Strays
      BY <2>1, <3>1, <1>t DEF Strays
    <3> QED
      BY <1>t, <2>1, <3>2, <3>3, StraysShrink DEF LockInv
  <2>3. CASE ~PidRunning(seen[p])
    <3>1. pc' = [pc EXCEPT ![p] = "unlink"] /\ outdated' = outdated
      BY <1>4, <2>3 DEF Probe, Goto
    <3>2. p \notin outdated => ~Holds(lockFile.by)
      <4> SUFFICES ASSUME p \notin outdated, Holds(lockFile.by) PROVE FALSE
        OBVIOUS
      <4>1. lockFile # Absent /\ lockFile.pid # NoPid /\ seen[p] = lockFile.pid
        BY <2>1 DEF LockInv, ProbedIsDead
      <4>2. pc[lockFile.by] = "in" /\ lockFile.pid = pid[lockFile.by] /\ lockFile.by \in Proc
        BY <4>1, <1>t DEF LockInv, OwnPid
      <4> QED
        BY <2>3, <4>1, <4>2 DEF PidRunning, Alive
    <3>3. OwnPid' /\ ProbedIsDead'
      BY <2>1, <3>1, <3>2, <1>t DEF LockInv, OwnPid, ProbedIsDead
    <3>4. Strays' \subseteq Strays
      BY <2>1, <3>1, <1>t DEF Strays
    <3> QED
      BY <1>t, <2>1, <3>3, <3>4, StraysShrink DEF LockInv
  <2> QED
    BY <2>2, <2>3
<1>5. ASSUME NEW p \in Proc, Unlink(p) PROVE LockInv'
  <2>1. /\ pc[p] = "unlink" /\ pc' = [pc EXCEPT ![p] = "open"]
        /\ lockFile' = Absent /\ UNCHANGED <<pid, seen>>
        /\ outdated' = {q \in Proc \ {p} : pc[q] \in {"probe", "unlink"}}
        /\ races' = IF p \in outdated /\ lockFile # Absent THEN races + 1 ELSE races
    BY <1>5 DEF Unlink, Removes, Goto
  <2>2. OwnPid' /\ ProbedIsDead'
    BY <2>1, <1>t DEF OwnPid, ProbedIsDead
  <2>3. CASE p \in outdated /\ lockFile # Absent
    <3>1. Strays' \subseteq Strays \cup {lockFile.by}
      BY <2>1, <1>t DEF Strays
    <3>2. IsFiniteSet(Strays)
      BY FS_Subset DEF Strays
    <3>3. /\ IsFiniteSet(Strays \cup {lockFile.by})
          /\ Cardinality(Strays \cup {lockFile.by}) <= Cardinality(Strays) + 1
      BY <3>2, AddOne
    <3>4. Cardinality(Strays') <= Cardinality(Strays) + 1
      BY <3>1, <3>2, <3>3, FS_Subset, FS_CardinalityType
    <3>5. Cardinality(Strays') \in Nat /\ Cardinality(Strays) \in Nat
      BY <3>1, <3>2, <3>3, FS_Subset, FS_CardinalityType
    <3>6. StraysCounted'
      BY <2>1, <2>3, <3>4, <3>5, <1>t DEF LockInv, StraysCounted
    <3> QED
      BY <1>t, <2>2, <3>6 DEF LockInv
  <2>4. CASE ~(p \in outdated /\ lockFile # Absent)
    <3>1. lockFile = Absent \/ ~Holds(lockFile.by)
      BY <2>1, <2>4 DEF LockInv, ProbedIsDead
    <3>2. Strays' \subseteq Strays
      BY <2>1, <3>1, <1>t DEF Strays
    <3> QED
      BY <1>t, <2>1, <2>2, <2>4, <3>2, StraysShrink DEF LockInv
  <2> QED
    BY <2>3, <2>4
<1>6. ASSUME NEW p \in Proc, Write(p) PROVE LockInv'
  <2>1. /\ pc[p] = "write" /\ pc' = [pc EXCEPT ![p] = "in"]
        /\ lockFile' = IF lockFile # Absent /\ lockFile.by = p
                       THEN [lockFile EXCEPT !.pid = pid[p]] ELSE lockFile
        /\ UNCHANGED <<pid, seen, outdated, races>>
    BY <1>6 DEF Write, Goto, history
  <2>2. lockFile' # Absent <=> lockFile # Absent
    BY <2>1, <1>t
  <2>3. lockFile # Absent => lockFile'.by = lockFile.by
    BY <2>1, <1>t
  <2>4. OwnPid' /\ ProbedIsDead'
    <3>1. CASE lockFile # Absent /\ lockFile.by = p
      <4>1. lockFile.pid = NoPid /\ lockFile'.pid = pid[p] /\ lockFile'.by = p
        BY <2>1, <3>1, <1>t DEF LockInv, OwnPid
      <4>2. \A q \in Proc \ outdated : pc[q] \notin {"probe", "unlink"}
        BY <4>1 DEF LockInv, ProbedIsDead
      <4> QED
        BY <2>1, <4>1, <4>2, <1>t DEF OwnPid, ProbedIsDead
    <3>2. CASE ~(lockFile # Absent /\ lockFile.by = p)
      BY <2>1, <3>2, <1>t DEF LockInv, OwnPid, ProbedIsDead
    <3> QED
      BY <3>1, <3>2
  <2>5. Strays' \subseteq Strays
    BY <2>1, <2>2, <2>3, <1>t DEF Strays
  <2> QED
    BY <1>t, <2>1, <2>4, <2>5, StraysShrink DEF LockInv
<1>7. ASSUME NEW p \in Proc, Exit(p) PROVE LockInv'
  <2>1. /\ pc[p] = "in" /\ pc' = [pc EXCEPT ![p] = "off"]
        /\ lockFile' = Absent /\ races' = races
        /\ outdated' = {q \in Proc \ {p} : pc[q] \in {"probe", "unlink"}}
    BY <1>7 DEF Exit, Removes, Goto
  <2>2. OwnPid' /\ ProbedIsDead'
    BY <2>1, <1>t DEF OwnPid, ProbedIsDead
  <2>3. IsFiniteSet(Strays)
    BY FS_Subset DEF Strays
  <2>4. CASE p \in Strays /\ lockFile # Absent
    <3>1. Strays' \subseteq (Strays \ {p}) \cup {lockFile.by}
      BY <2>1, <1>t DEF Strays
    <3> DEFINE Others == Strays \ {p}
    <3>2. IsFiniteSet(Others) /\ Cardinality(Others) = Cardinality(Strays) - 1
      BY <2>3, <2>4, FS_RemoveElement
    <3> HIDE DEF Others
    <3>3. /\ IsFiniteSet(Others \cup {lockFile.by}) /\ Cardinality(Others) \in Nat
          /\ Cardinality(Others \cup {lockFile.by}) <= Cardinality(Others) + 1
      BY <3>2, AddOne
    <3> USE DEF Others
    <3>4. /\ Cardinality(Strays') <= Cardinality(Strays)
          /\ Cardinality(Strays') \in Nat /\ Cardinality(Strays) \in Nat
      <4>1. Strays' \subseteq Others \cup {lockFile.by}
        BY <3>1
      <4> HIDE DEF Others
      <4> QED
        BY <2>3, <3>2, <3>3, <4>1, FS_Subset, FS_CardinalityType
    <3>5. StraysCounted'
      BY <2>1, <3>4, <1>t DEF LockInv, StraysCounted
    <3> QED
      BY <1>t, <2>2, <3>5 DEF LockInv
  <2>5. CASE ~(p \in Strays /\ lockFile # Absent)
    <3>1. Strays' \subseteq Strays
      BY <2>1, <2>5, <1>t DEF Strays
    <3> QED
      BY <1>t, <2>1, <2>2, <3>1, StraysShrink DEF LockInv
  <2> QED
    BY <2>4, <2>5
<1>8. ASSUME NEW p \in Proc, Leave(p) \/ Crash(p) PROVE LockInv'
  <2>1. /\ pc' = [pc EXCEPT ![p] = "off"] /\ UNCHANGED <<lockFile, races>>
        /\ pid' = [pid EXCEPT ![p] = NoPid] /\ seen' = [seen EXCEPT ![p] = NoPid]
        /\ outdated' \in {outdated, outdated \ {p}}
    BY <1>8 DEF Leave, Crash, Goto, history
  <2>2. OwnPid' /\ ProbedIsDead'
    BY <2>1, <1>t DEF LockInv, OwnPid, ProbedIsDead
  <2>3. Strays' \subseteq Strays
    BY <2>1, <1>t DEF Strays
  <2> QED
    BY <1>t, <2>1, <2>2, <2>3, StraysShrink DEF LockInv
<1>9. CASE OtherProgram \/ UNCHANGED lockVars
  <2>1. UNCHANGED <<pc, pid, seen, lockFile, outdated, races>>
    BY <1>9 DEF OtherProgram, lockVars, history
  <2>2. OwnPid' /\ ProbedIsDead' /\ Strays' = Strays
    BY <2>1 DEF LockInv, OwnPid, ProbedIsDead, Strays
  <2> QED
    BY <1>t, <2>1, <2>2 DEF LockInv, StraysCounted
<1> QED
  BY <1>1, <1>2, <1>3, <1>4, <1>5, <1>6, <1>7, <1>8, <1>9 DEF LockNext, Advance

\* However starts, exits and crashes of any number of bots interleave, there is
\* at most one bot more trading than there were races for a dead bot's file
\* (src/simulator.py, _RunLock).
THEOREM OneBot == LockSpec => []MutualExclusion
<1>1. LockInv => MutualExclusion
  <2> SUFFICES ASSUME LockInv PROVE MutualExclusion
    OBVIOUS
  <2> DEFINE In == {p \in Proc : pc[p] = "in"}
  <2>1. IsFiniteSet(Strays)
    BY LockAssumption, FS_Subset DEF Strays
  <2>2. In \subseteq Strays \cup {lockFile.by}
    BY DEF LockInv, Strays, Holds
  <2>3. /\ IsFiniteSet(Strays \cup {lockFile.by})
        /\ Cardinality(Strays \cup {lockFile.by}) <= Cardinality(Strays) + 1
    BY <2>1, AddOne
  <2> HIDE DEF In
  <2>4. /\ Cardinality(In) <= Cardinality(Strays) + 1
        /\ Cardinality(In) \in Nat /\ Cardinality(Strays) \in Nat
    BY <2>1, <2>2, <2>3, FS_Subset, FS_CardinalityType
  <2> QED
    BY <2>4 DEF LockInv, LockTypeOK, StraysCounted, MutualExclusion, In
<1> QED
  BY LockInitInv, LockNextInv, <1>1, PTL DEF LockSpec

-----------------------------------------------------------------------------
(* What a single start sees.                                               *)

\* A start that no other bot has met is alone.
Alone == \A p, q \in Proc : pc[p] # "off" /\ ~contended[p] /\ q # p => pc[q] = "off"

\* Alone, it probes the pid that is in the file.
ProbesFile == \A p \in Proc : pc[p] = "probe" /\ ~contended[p] => seen[p] = ReadLockPid

LEMMA AloneInit == LockInit => LockTypeOK /\ Alone /\ ProbesFile
BY DEF LockInit, LockTypeOK, Alone, ProbesFile, Starting

LEMMA AloneStep == LockTypeOK /\ Alone /\ ProbesFile /\ [LockNext]_lockVars => Alone' /\ ProbesFile'
<1> SUFFICES ASSUME LockTypeOK, Alone, ProbesFile, [LockNext]_lockVars PROVE Alone' /\ ProbesFile'
  OBVIOUS
<1> USE DEF LockTypeOK, Starting, Alone, ProbesFile
<1>1. ASSUME NEW p \in Proc, Start(p) PROVE Alone' /\ ProbesFile'
  <2>1. /\ pc' = [pc EXCEPT ![p] = "open"] /\ pc[p] = "off" /\ UNCHANGED <<seen, lockFile>>
        /\ contended' = [q \in Proc |->
             IF q = p THEN \E r \in Proc : Alive(r) ELSE contended[q] \/ Alive(q)]
    BY <1>1 DEF Start
  <2>2. \A q \in Proc : pc'[q] = IF q = p THEN "open" ELSE pc[q]
    BY <2>1
  <2>3. ~contended'[p] => \A q \in Proc : pc[q] = "off"
    BY <2>1 DEF Alive
  <2>4. \A q \in Proc : q # p /\ pc[q] # "off" => contended'[q]
    BY <2>1 DEF Alive
  <2>5. Alone'
    BY <2>2, <2>3, <2>4
  <2>6. ProbesFile'
    BY <2>1, <2>2, <2>4 DEF ReadLockPid
  <2> QED BY <2>5, <2>6
<1>2. ASSUME NEW p \in Proc, Advance(p) PROVE Alone' /\ ProbesFile'
  <2>1. CASE Open(p)
    BY <2>1 DEF Open, Goto, history
  <2>2. CASE Read(p)
    BY <2>2 DEF Read, Goto, ReadLockPid, history
  <2>3. CASE Probe(p)
    BY <2>3 DEF Probe, Goto, ReadLockPid
  <2>4. CASE Unlink(p)
    BY <2>4 DEF Unlink, Goto, Removes
  <2>5. CASE Write(p)
    BY <2>5 DEF Write, Goto, history
  <2> QED BY <1>2, <2>1, <2>2, <2>3, <2>4, <2>5 DEF Advance
<1>3. ASSUME NEW p \in Proc, Exit(p) \/ Leave(p) \/ Crash(p) PROVE Alone' /\ ProbesFile'
  <2>1. CASE Exit(p)
    BY <2>1 DEF Exit, Goto, Removes
  <2>2. CASE Leave(p) \/ Crash(p)
    BY <2>2 DEF Leave, Crash, Goto, ReadLockPid, history
  <2> QED BY <1>3, <2>1, <2>2
<1>4. CASE OtherProgram \/ UNCHANGED lockVars
  BY <1>4 DEF OtherProgram, lockVars, ReadLockPid, history
<1> QED BY <1>1, <1>2, <1>3, <1>4 DEF LockNext

\* Whether or not starts overlap: a start is refused only by another bot, by a
\* file without a pid, or by a pid in use again (__enter__).
THEOREM RefusalsJustified == LockSpec => RefusalJustified
<1> DEFINE Why(p) == contended[p] \/ ReadLockPid \in {NoPid, pid[p]} \cup foreign
<1>1. LockTypeOK /\ Alone /\ ProbesFile /\ [LockNext]_lockVars
        => [\A p \in Proc : pc[p] # "refused" /\ pc'[p] = "refused" => Why(p)]_lockVars
  <2> SUFFICES ASSUME LockTypeOK, Alone, ProbesFile, LockNext,
                      NEW p \in Proc, pc[p] # "refused", pc'[p] = "refused"
               PROVE  Why(p)
    OBVIOUS
  <2>1. ASSUME NEW q \in Proc, Read(q) PROVE Why(p)
    BY <2>1 DEF Read, Goto, LockTypeOK
  <2>2. ASSUME NEW q \in Proc, Probe(q) PROVE Why(p)
    <3>1. q = p /\ pc[p] = "probe" /\ PidRunning(seen[p])
      BY <2>2 DEF Probe, Goto, LockTypeOK
    <3>2. CASE contended[p]
      BY <3>2
    <3>3. CASE ~contended[p]
      <4>1. seen[p] = ReadLockPid /\ \A r \in Proc : Alive(r) => r = p
        BY <3>1, <3>3 DEF ProbesFile, Alone, Alive
      <4> QED BY <3>1, <4>1 DEF PidRunning
    <3> QED BY <3>2, <3>3 DEF LockTypeOK
  <2>3. ASSUME NEW q \in Proc,
               Start(q) \/ Open(q) \/ Unlink(q) \/ Write(q) \/ Exit(q) \/ Leave(q) \/ Crash(q)
        PROVE  Why(p)
    BY <2>3 DEF Start, Open, Unlink, Write, Exit, Leave, Crash, Goto, LockTypeOK
  <2>4. CASE OtherProgram
    BY <2>4 DEF OtherProgram
  <2> QED BY <2>1, <2>2, <2>3, <2>4 DEF LockNext, Advance
<1> QED BY <1>1, AloneInit, LockTypeStep, AloneStep, PTL DEF LockSpec, RefusalJustified

\* The state of the lock protocol is well typed, also when starts overlap.
THEOREM LockTyped == LockSpec => []LockTypeOK
<1>1. LockInit => LockTypeOK
  BY AloneInit
<1> QED BY <1>1, LockTypeStep, PTL DEF LockSpec

-----------------------------------------------------------------------------
(* The pipelines.                                                          *)

FetchesTyped ==
  /\ round \in Nat
  /\ hot \subseteq Token
  /\ pairFetch \in [state : {"none", "pending", "done"}, key : SUBSET Token,
                    books : SUBSET Token, at : Nat]
  /\ nlegFetch \in [state : {"none", "pending", "done"}, key : NLeg \cup {NoName},
                    books : SUBSET Token, at : Nat]
  /\ entry \in [Name -> [state : {"idle", "asking", "holding", "confirmed"},
                         rest : SUBSET Token, at : Nat]]

\* An N-leg request is for a spec, and its answer holds books of that spec.
AnswerOfSpec ==
  /\ nlegFetch.state = "pending" => nlegFetch.key \in NLeg
  /\ nlegFetch.key \in NLeg => nlegFetch.books \subseteq Legs[nlegFetch.key]

Inv == FetchesTyped /\ AnswerOfSpec /\ HotIsFresh /\ HeldCoversPair /\ HeldIsOfSpec

\* Nothing is near, fetched or entered at first.
LEMMA InitInv == Init => Inv
  BY ConstantsAssumption
     DEF Init, Inv, FetchesTyped, AnswerOfSpec, HotIsFresh, HeldCoversPair, HeldIsOfSpec,
         NoFetch, Idle, Name

\* The entries a scan leaves behind are well typed, a pair's holds its legs and
\* an N-leg's only its own.
LEMMA ScanEntries ==
  ASSUME Inv, NEW near \in SUBSET Pair, NEW pairs \in SUBSET near,
         NEW n \in NLeg \cup {NoName}, NEW ready \in BOOLEAN, Scan(near, pairs, n, ready)
  PROVE  /\ entry' \in [Name -> [state : {"idle", "asking", "holding", "confirmed"},
                                 rest : SUBSET Token, at : Nat]]
         /\ HeldCoversPair' /\ HeldIsOfSpec'
<1> DEFINE E == [state : {"idle", "asking", "holding", "confirmed"},
                 rest : SUBSET Token, at : Nat]
<1> DEFINE spawnN == {m \in {n} \cap NLeg : ready} \ Inflight
<1> DEFINE spawnP == pairs \ Inflight
<1>1. entry' = [m \in Name |-> IF m \in spawnP THEN SpawnedPair(m)
                               ELSE IF m \in spawnN THEN SpawnedNLeg(m) ELSE entry[m]]
  BY DEF Scan
<1>2. spawnP \subseteq Pair /\ spawnN \subseteq NLeg /\ Pair \cap NLeg = {}
  BY ConstantsAssumption
<1>3. \A m \in Pair : /\ SpawnedPair(m) \in E
                      /\ SpawnedPair(m).state = "holding" =>
                           Legs[m] \subseteq SpawnedPair(m).rest
  BY DEF SpawnedPair, Spawned, Covered, Cached, Inv, FetchesTyped
<1>4. \A m \in NLeg : /\ SpawnedNLeg(m) \in E
                      /\ SpawnedNLeg(m).rest \subseteq Legs[m]
  BY DEF SpawnedNLeg, Spawned, Consumed, Cached, Inv, FetchesTyped, AnswerOfSpec
<1> HIDE DEF spawnN, spawnP, E
<1>5. entry \in [Name -> E]
  BY DEF Inv, FetchesTyped, E
<1>6. entry' \in [Name -> E]
  BY <1>1, <1>2, <1>3, <1>4, <1>5 DEF Name
<1>7. HeldCoversPair'
  BY <1>1, <1>2, <1>3, <1>5 DEF Inv, HeldCoversPair, Name
<1>8. HeldIsOfSpec'
  BY <1>1, <1>2, <1>4, <1>5 DEF Inv, HeldIsOfSpec, Name
<1> QED
  BY <1>6, <1>7, <1>8 DEF E

\* Every step keeps the invariant.
LEMMA NextInv == Inv /\ [Next]_vars => Inv'
<1> SUFFICES ASSUME Inv, [Next]_vars PROVE Inv'
  OBVIOUS
<1> USE DEF FetchesTyped, AnswerOfSpec, HotIsFresh, HeldCoversPair, HeldIsOfSpec
<1>1. ASSUME NEW near \in SUBSET Pair, NEW pairs \in SUBSET near,
             NEW n \in NLeg \cup {NoName}, NEW ready \in BOOLEAN, Scan(near, pairs, n, ready)
      PROVE  Inv'
  <2>1. round' = round + 1 /\ hot' = UNION {Legs[p] : p \in near}
    BY <1>1 DEF Scan
  <2>2. hot' \subseteq Token
    <3>1. \A p \in near : Legs[p] \subseteq Token
      BY ConstantsAssumption DEF Name
    <3> QED BY <2>1, <3>1
  <2>3. pairFetch' = LaunchPair(hot')
    BY <1>1 DEF Scan
  <2>4. /\ pairFetch' \in [state : {"none", "pending", "done"}, key : SUBSET Token,
                           books : SUBSET Token, at : Nat]
        /\ hot' # {} => pairFetch'.key = hot' /\ pairFetch'.state = "pending"
    BY <2>2, <2>3 DEF Inv, LaunchPair, Launch
  <2>5. nlegFetch' = nlegFetch \/ (nlegFetch' = Launch(nlegFetch, n) /\ n \in NLeg)
    <3> DEFINE I == Inflight \cup ({m \in {n} \cap NLeg : ready} \ Inflight)
    <3>1. nlegFetch' = LaunchNLeg(n, I)
      BY <1>1 DEF Scan
    <3> HIDE DEF I
    <3> QED
      BY <3>1 DEF LaunchNLeg
  <2>6. /\ nlegFetch' \in [state : {"none", "pending", "done"}, key : NLeg \cup {NoName},
                           books : SUBSET Token, at : Nat]
        /\ AnswerOfSpec'
    <3>1. CASE nlegFetch' = nlegFetch
      BY <3>1 DEF Inv
    <3>2. CASE nlegFetch' # nlegFetch
      <4>1. /\ n \in NLeg
            /\ nlegFetch' = [state |-> "pending", key |-> n, books |-> {}, at |-> 0]
        BY <2>5, <3>2 DEF Launch
      <4> QED
        BY <4>1
    <3> QED
      BY <3>1, <3>2
  <2>7. HotIsFresh'
    BY <2>4
  <2>8. round' \in Nat
    BY <2>1 DEF Inv
  <2>9. /\ entry' \in [Name -> [state : {"idle", "asking", "holding", "confirmed"},
                                 rest : SUBSET Token, at : Nat]]
        /\ HeldCoversPair' /\ HeldIsOfSpec'
    BY <1>1, ScanEntries
  <2> QED
    BY <2>2, <2>4, <2>6, <2>7, <2>8, <2>9 DEF Inv
<1>2. CASE AnswerPair
  <2>1. PICK books \in SUBSET pairFetch.key : pairFetch' = Answered(pairFetch, books)
    BY <1>2 DEF AnswerPair
  <2>2. /\ pairFetch' \in [state : {"none", "pending", "done"}, key : SUBSET Token,
                           books : SUBSET Token, at : Nat]
        /\ pairFetch'.key = pairFetch.key /\ pairFetch'.at = round
    BY <2>1 DEF Answered, Inv
  <2>3. UNCHANGED <<round, hot, best, nlegFetch, entry>>
    BY <1>2 DEF AnswerPair
  <2>4. HotIsFresh'
    BY <2>2, <2>3 DEF Inv
  <2> QED
    BY <2>2, <2>3, <2>4 DEF Inv
<1>3. CASE AnswerNLeg
  <2>1. PICK books \in SUBSET Legs[nlegFetch.key] : nlegFetch' = Answered(nlegFetch, books)
    BY <1>3 DEF AnswerNLeg
  <2>2. nlegFetch.key \in NLeg
    BY <1>3 DEF AnswerNLeg, Inv
  <2>3. Legs[nlegFetch.key] \subseteq Token
    BY <2>2, ConstantsAssumption DEF Name
  <2>4. /\ nlegFetch' \in [state : {"none", "pending", "done"}, key : NLeg \cup {NoName},
                           books : SUBSET Token, at : Nat]
        /\ AnswerOfSpec'
    BY <2>1, <2>2, <2>3 DEF Answered, Inv
  <2>5. UNCHANGED <<round, hot, best, pairFetch, entry>>
    BY <1>3 DEF AnswerNLeg
  <2> QED
    BY <2>4, <2>5 DEF Inv
<1>4. ASSUME NEW m \in Name, Confirm(m) PROVE Inv'
  <2>1. CASE entry[m].state = "asking"
    <3>1. PICK rest \in SUBSET Legs[m] : entry' = [entry EXCEPT ![m] =
            [@ EXCEPT !.state = "confirmed", !.rest = rest, !.at = round]]
      BY <1>4, <2>1 DEF Confirm
    <3>2. Legs[m] \subseteq Token
      BY ConstantsAssumption DEF Name
    <3>3. /\ entry'[m] = [entry[m] EXCEPT !.state = "confirmed", !.rest = rest, !.at = round]
          /\ \A o \in Name \ {m} : entry'[o] = entry[o]
          /\ DOMAIN entry' = Name
          /\ entry' = [o \in Name |-> entry'[o]]
      BY <3>1 DEF Inv
    <3>4. entry' \in [Name -> [state : {"idle", "asking", "holding", "confirmed"},
                               rest : SUBSET Token, at : Nat]]
      <4>1. rest \in SUBSET Token /\ round \in Nat
        BY <3>2 DEF Inv
      <4>2. /\ DOMAIN entry = Name
            /\ \A o \in Name :
                 entry[o] \in [state : {"idle", "asking", "holding", "confirmed"},
                               rest : SUBSET Token, at : Nat]
        BY DEF Inv
      <4>3. entry'[m] \in [state : {"idle", "asking", "holding", "confirmed"},
                           rest : SUBSET Token, at : Nat]
        BY <3>3, <4>1, <4>2
      <4> QED BY <3>3, <4>2, <4>3
    <3>5. entry'[m].state = "confirmed" /\ entry'[m].rest \subseteq Legs[m]
      BY <3>3 DEF Inv
    <3>6. HeldCoversPair' /\ HeldIsOfSpec'
      BY <3>3, <3>5 DEF Inv, Name
    <3>7. UNCHANGED <<round, hot, best, pairFetch, nlegFetch>>
      BY <1>4 DEF Confirm
    <3> QED
      BY <3>4, <3>6, <3>7 DEF Inv
  <2>2. CASE entry[m].state # "asking"
    <3>1. entry' = [entry EXCEPT ![m].state = "confirmed"] /\ entry[m].state = "holding"
      BY <1>4, <2>2 DEF Confirm
    <3>2. entry' \in [Name -> [state : {"idle", "asking", "holding", "confirmed"},
                               rest : SUBSET Token, at : Nat]]
      BY <3>1 DEF Inv
    <3>3. HeldCoversPair' /\ HeldIsOfSpec'
      BY <3>1 DEF Inv, Name
    <3>4. UNCHANGED <<round, hot, best, pairFetch, nlegFetch>>
      BY <1>4 DEF Confirm
    <3> QED
      BY <3>2, <3>3, <3>4 DEF Inv
  <2> QED
    BY <2>1, <2>2
<1>5. ASSUME NEW m \in Name, End(m) PROVE Inv'
  BY <1>5 DEF End, Idle, Inv, Name
<1>6. CASE UNCHANGED vars
  BY <1>6 DEF vars, Inv
<1> QED
  BY <1>1, <1>2, <1>3, <1>4, <1>5, <1>6 DEF Next

\* As long as some pair is near, the pair pipeline is about the near pairs and
\* keeps no answer from before the last scan (src/simulator.py, run loop).
THEOREM PairPipelineFresh == Spec => []HotIsFresh
<1>1. Inv => HotIsFresh
  BY DEF Inv
<1> QED
  BY InitInv, NextInv, <1>1, PTL DEF Spec

\* A pair entry holds prefetched books only if they cover its legs (_pair_covered).
THEOREM CoverageChecked == Spec => []HeldCoversPair
<1>1. Inv => HeldCoversPair
  BY DEF Inv
<1> QED
  BY InitInv, NextInv, <1>1, PTL DEF Spec

\* An N-leg entry never rechecks against books fetched for another spec
\* (_consume_n_leg_speculative_books).
THEOREM SpecsKeptApart == Spec => []HeldIsOfSpec
<1>1. Inv => HeldIsOfSpec
  BY DEF Inv
<1> QED
  BY InitInv, NextInv, <1>1, PTL DEF Spec

\* Only a scan without any near pair lets a later pair entry consume an answer
\* from before the last wait.
THEOREM StaleNeedsCold == Spec => StaleOnlyAfterCold
<1> DEFINE A == \A p \in Pair : entry[p].state = "idle" /\ entry'[p].state = "holding"
                                /\ entry'[p].at < round => hot = {}
<1>1. Inv /\ [Next]_vars => A \/ UNCHANGED vars
  <2> SUFFICES ASSUME Inv, [Next]_vars, NEW p \in Pair,
                      entry[p].state = "idle", entry'[p].state = "holding",
                      entry'[p].at < round, hot # {}
               PROVE  FALSE
    BY DEF A
  <2>1. ASSUME NEW near \in SUBSET Pair, NEW pairs \in SUBSET near,
               NEW n \in NLeg \cup {NoName}, NEW ready \in BOOLEAN,
               Scan(near, pairs, n, ready)
        PROVE  entry'[p] = SpawnedPair(p)
    <3>1. entry'[p] \in {SpawnedPair(p), entry[p]}
      BY <2>1, ConstantsAssumption DEF Scan, Name
    <3> QED
      BY <3>1
  <2>2. SpawnedPair(p).state = "holding" => SpawnedPair(p).at = round
    BY DEF SpawnedPair, Spawned, Covered, Cached, Inv, HotIsFresh
  <2>3. ASSUME NEW m \in Name, Confirm(m) PROVE FALSE
    BY <2>3 DEF Confirm, Inv, FetchesTyped, Name
  <2>4. ASSUME NEW m \in Name, End(m) PROVE FALSE
    BY <2>4 DEF End, Idle, Inv, FetchesTyped, Name
  <2>5. round \in Nat
    BY DEF Inv, FetchesTyped
  <2> QED
    BY <2>1, <2>2, <2>3, <2>4, <2>5 DEF Next, AnswerPair, AnswerNLeg, vars
<1> QED
  BY InitInv, NextInv, <1>1, PTL DEF Spec, StaleOnlyAfterCold
=============================================================================
