----------------------------- MODULE DaemonProofs -----------------------------
(***************************************************************************)
(* Proofs about Daemon, for every set of terminals and process ids, every  *)
(* set of faults and every bound.                                          *)
(***************************************************************************)
EXTENDS Daemon, FiniteSetTheorems, TLAPS

-----------------------------------------------------------------------------
(* Type correctness *)

\* The initial state is well-typed.
LEMMA TypeInit == Init => TypeOK
<1> SUFFICES ASSUME Init PROVE TypeOK
  OBVIOUS
<1>1. fresh \in BOOLEAN /\ term = {}
  BY DEF Init
<1>6. faults \in 0 .. MaxFaults
  BY FaultAssumption DEF Init
<1>2. sup \in [Pids -> Stages]  BY DEF Init, Stages
<1>3. at \in [Callers -> Points] /\ seen \in [Callers -> Pids \cup {Placeholder, NoFile}]
  BY DEF Init, Points
<1>4. \A c \in Callers : at[c] = "idle"  BY DEF Init
<1>5. QED  BY <1>1, <1>2, <1>3, <1>4, <1>6 DEF Init, TypeOK

\* The command of a terminal starts.
LEMMA TypeStart == ASSUME TypeOK, NEW c \in Callers, Start(c) PROVE TypeOK'
  BY DEF Start, TypeOK, Stages, Points, Goto, Return, Placeholder, NoFile

\* The pidfile is read.
LEMMA TypeRead == ASSUME TypeOK, NEW c \in Callers, Read(c) PROVE TypeOK'
  BY DEF Read, TypeOK, Stages, Points, Goto, Return, Placeholder, NoFile

\* A pid is judged.
LEMMA TypeJudgePid == ASSUME TypeOK, NEW c \in Callers, JudgePid(c) PROVE TypeOK'
  BY DEF JudgePid, TypeOK, Stages, Points, Goto, Return, Alive, Placeholder, NoFile

\* A placeholder is judged.
LEMMA TypeJudgePlaceholder == ASSUME TypeOK, NEW c \in Callers, JudgePlaceholder(c) PROVE TypeOK'
  BY DEF JudgePlaceholder, TypeOK, Stages, Points, Goto, Return, Placeholder, NoFile

\* Debris is removed.
LEMMA TypeUnlink == ASSUME TypeOK, NEW c \in Callers, Unlink(c) PROVE TypeOK'
  BY DEF Unlink, TypeOK, Stages, Points, Goto, Return, Placeholder, NoFile

\* The pidfile is reserved.
LEMMA TypeReserve == ASSUME TypeOK, NEW c \in Callers, Reserve(c) PROVE TypeOK'
<1>1. CASE pidfile = NoFile
  BY <1>1 DEF Reserve, TypeOK, Points, Goto
<1>2. CASE pidfile # NoFile
  BY <1>2 DEF Reserve, TypeOK, Points, Goto, Return
<1>3. QED  BY <1>1, <1>2

\* A supervisor is forked.
LEMMA TypeSpawn == ASSUME TypeOK, NEW c \in Callers, NEW p \in Pids, Spawn(c, p) PROVE TypeOK'
<1>1. p \in Pids /\ sup[p] = "unused"
  BY DEF Spawn, NextPid, Unused
<1>2. sup' \in [Pids -> Stages] /\ \A q \in Pids : q # p => sup'[q] = sup[q]
  BY DEF Spawn, TypeOK, Stages, Become
<1>3. at' \in [Callers -> Points] /\ seen' \in [Callers -> Pids \cup {Placeholder, NoFile}]
  BY DEF Spawn, TypeOK, Points, Goto, Return
<1>4. term' \subseteq {q \in Pids : sup'[q] \in {"supervising", "leaving"}}
  BY <1>1, <1>2 DEF Spawn, TypeOK
<1>5. QED  BY <1>2, <1>3, <1>4 DEF Spawn, TypeOK, Goto, Return

\* The fork fails.
LEMMA TypeSpawnFails == ASSUME TypeOK, NEW c \in Callers, SpawnFails(c) PROVE TypeOK'
  BY FaultAssumption DEF SpawnFails, TypeOK, Stages, Points, Goto, Return, Commit, Placeholder, NoFile

\* A stop starts.
LEMMA TypeStop == ASSUME TypeOK, NEW c \in Callers, Stop(c) PROVE TypeOK'
  BY DEF Stop, TypeOK, Stages, Points, Goto, Return, Placeholder, NoFile

\* The stop reads the pidfile.
LEMMA TypeStopReads == ASSUME TypeOK, NEW c \in Callers, StopReads(c) PROVE TypeOK'
  BY PidAssumption DEF StopReads, TypeOK, Stages, Points, Goto, Return, Placeholder, NoFile

\* The stop sends its signal.
LEMMA TypeStopKills == ASSUME TypeOK, NEW c \in Callers, StopKills(c) PROVE TypeOK'
  BY DEF StopKills, TypeOK, Stages, Points, Goto, Return, Become, Alive, Placeholder, NoFile

\* The stop finds no process.
LEMMA TypeStopFindsNone == ASSUME TypeOK, NEW c \in Callers, StopFindsNone(c) PROVE TypeOK'
  BY DEF StopFindsNone, TypeOK, Stages, Points, Goto, Return, Alive, Placeholder, NoFile

\* The stop removes a stale pidfile.
LEMMA TypeStopUnlinks == ASSUME TypeOK, NEW c \in Callers, StopUnlinks(c) PROVE TypeOK'
  BY DEF StopUnlinks, TypeOK, Stages, Points, Goto, Return, Placeholder, NoFile

\* The stop returns.
LEMMA TypeStopReturns == ASSUME TypeOK, NEW c \in Callers, StopReturns(c) PROVE TypeOK'
  BY DEF StopReturns, TypeOK, Stages, Points, Goto, Return, Placeholder, NoFile

\* A command is killed.
LEMMA TypeKillCaller == ASSUME TypeOK, NEW c \in Callers, KillCaller(c) PROVE TypeOK'
  BY FaultAssumption DEF KillCaller, TypeOK, Stages, Points, Goto, Return, Commit, Placeholder, NoFile

\* The supervisor writes its pid.
LEMMA TypeWritePid == ASSUME TypeOK, NEW p \in Pids, WritePid(p) PROVE TypeOK'
  BY PidAssumption DEF WritePid, TypeOK, Stages, Points, Become, Placeholder, NoFile

\* The supervisor handles SIGTERM from now on.
LEMMA TypeInstallHandler == ASSUME TypeOK, NEW p \in Pids, InstallHandler(p) PROVE TypeOK'
  BY DEF InstallHandler, TypeOK, Stages, Points, Become, Placeholder, NoFile

\* The supervisor handles a SIGTERM.
LEMMA TypeOnTerm == ASSUME TypeOK, NEW p \in Pids, OnTerm(p) PROVE TypeOK'
  BY DEF OnTerm, TypeOK, Stages, Points, Become, Placeholder, NoFile

\* The supervisor exits.
LEMMA TypeExit == ASSUME TypeOK, NEW p \in Pids, Exit(p) PROVE TypeOK'
  BY DEF Exit, TypeOK, Stages, Points, Become, Placeholder, NoFile

\* The supervisor finds its token expired.
LEMMA TypeExpire == ASSUME TypeOK, NEW p \in Pids, Expire(p) PROVE TypeOK'
  BY FaultAssumption DEF Expire, TypeOK, Stages, Points, Become, Commit, Placeholder, NoFile

\* A supervisor is killed.
LEMMA TypeKillSupervisor == ASSUME TypeOK, NEW p \in Pids, KillSupervisor(p) PROVE TypeOK'
  BY FaultAssumption DEF KillSupervisor, TypeOK, Stages, Points, Become, Commit, Alive, Placeholder, NoFile

\* The pidfile grows old.
LEMMA TypeAge == ASSUME TypeOK, Age PROVE TypeOK'
  BY DEF Age, TypeOK, Stages, Points, Placeholder, NoFile

\* Every step keeps the types.
LEMMA TypeNext == TypeOK /\ [Next]_vars => TypeOK'
<1> SUFFICES ASSUME TypeOK, [Next]_vars PROVE TypeOK'
  OBVIOUS
<1>1. \A c \in Callers : Start(c) => TypeOK'
  BY TypeStart
<1>2. \A c \in Callers : Read(c) => TypeOK'
  BY TypeRead
<1>3. \A c \in Callers : JudgePid(c) => TypeOK'
  BY TypeJudgePid
<1>4. \A c \in Callers : JudgePlaceholder(c) => TypeOK'
  BY TypeJudgePlaceholder
<1>5. \A c \in Callers : Unlink(c) => TypeOK'
  BY TypeUnlink
<1>6. \A c \in Callers : Reserve(c) => TypeOK'
  BY TypeReserve
<1>7. \A c \in Callers, p \in Pids : Spawn(c, p) => TypeOK'
  BY TypeSpawn
<1>8. \A c \in Callers : SpawnFails(c) => TypeOK'
  BY TypeSpawnFails
<1>9. \A c \in Callers : Stop(c) => TypeOK'
  BY TypeStop
<1>10. \A c \in Callers : StopReads(c) => TypeOK'
  BY TypeStopReads
<1>11. \A c \in Callers : StopKills(c) => TypeOK'
  BY TypeStopKills
<1>12. \A c \in Callers : StopFindsNone(c) => TypeOK'
  BY TypeStopFindsNone
<1>13. \A c \in Callers : StopUnlinks(c) => TypeOK'
  BY TypeStopUnlinks
<1>14. \A c \in Callers : StopReturns(c) => TypeOK'
  BY TypeStopReturns
<1>15. \A c \in Callers : KillCaller(c) => TypeOK'
  BY TypeKillCaller
<1>16. \A p \in Pids : WritePid(p) => TypeOK'
  BY TypeWritePid
<1>17. \A p \in Pids : InstallHandler(p) => TypeOK'
  BY TypeInstallHandler
<1>18. \A p \in Pids : OnTerm(p) => TypeOK'
  BY TypeOnTerm
<1>19. \A p \in Pids : Exit(p) => TypeOK'
  BY TypeExit
<1>20. \A p \in Pids : Expire(p) => TypeOK'
  BY TypeExpire
<1>21. \A p \in Pids : KillSupervisor(p) => TypeOK'
  BY TypeKillSupervisor
<1>22. Age => TypeOK'
  BY TypeAge
<1>23. (UNCHANGED vars) => TypeOK'
  BY DEF TypeOK, vars
<1>24. QED
  BY <1>1, <1>2, <1>3, <1>4, <1>5, <1>6, <1>7, <1>8, <1>9, <1>10, <1>11, <1>12, <1>13, <1>14, <1>15, <1>16, <1>17, <1>18, <1>19, <1>20, <1>21, <1>22, <1>23 DEF Next, StartStep, StopStep, SupStep

\* Type correctness of Daemon: what a command has read and where a signal is
\* pending, for all values of the constants.
THEOREM TypeCorrect == Spec => []TypeOK
  BY TypeInit, TypeNext, PTL DEF Spec

-----------------------------------------------------------------------------
(* Who owns the pidfile *)

\* The reservation of a start that is about to fork is its own.
SpawnReserved ==
    \A c \in Callers : at[c] = "spawn" =>
        /\ pidfile = Placeholder /\ fresh
        /\ \A d \in Callers : at[d] = "spawn" => d = c
        /\ \A p \in Pids : sup[p] # "forked"

\* So is the one of a supervisor that has not written its pid yet.
ForkReserved ==
    \A p \in Pids : sup[p] = "forked" =>
        /\ pidfile = Placeholder /\ fresh
        /\ \A q \in Pids : sup[q] = "forked" => q = p

\* From then on the pidfile has its pid.
NamedOwns == \A p \in Pids : sup[p] \in {"named", "supervising"} => pidfile = p

\* A pid that has been seen is not used again, so who removes a pidfile for
\* the pid of a dead process never meets it alive.
PidsUsed ==
    /\ \A p \in Pids : pidfile = p => sup[p] # "unused"
    /\ \A c \in Callers, p \in Pids : seen[c] = p => sup[p] # "unused"
DebrisDead ==
    \A c \in Callers, p \in Pids :
        at[c] \in {"unlink", "stop_unlink"} /\ seen[c] = p => sup[p] = "gone"

OwnInv == SpawnReserved /\ ForkReserved /\ NamedOwns /\ PidsUsed /\ DebrisDead

\* In the initial state nobody has started anything.
LEMMA OwnInit == Init => OwnInv
  BY PidAssumption DEF Init, OwnInv, SpawnReserved, ForkReserved, NamedOwns, PidsUsed, DebrisDead

\* The command of a terminal starts.
LEMMA OwnStart == ASSUME TypeOK, OwnInv, NEW c \in Callers, Start(c) PROVE OwnInv'
  BY PidAssumption DEF Start, TypeOK, OwnInv, SpawnReserved, ForkReserved, NamedOwns, PidsUsed, DebrisDead, Goto, Return, Placeholder, NoFile

\* The pidfile is read.
LEMMA OwnRead == ASSUME TypeOK, OwnInv, NEW c \in Callers, Read(c) PROVE OwnInv'
  BY PidAssumption DEF Read, TypeOK, OwnInv, SpawnReserved, ForkReserved, NamedOwns, PidsUsed, DebrisDead, Goto, Return, Placeholder, NoFile

\* A pid is judged.
LEMMA OwnJudgePid == ASSUME TypeOK, OwnInv, NEW c \in Callers, JudgePid(c) PROVE OwnInv'
  BY PidAssumption DEF JudgePid, TypeOK, OwnInv, SpawnReserved, ForkReserved, NamedOwns, PidsUsed, DebrisDead, Goto, Return, Alive, Stages, Placeholder, NoFile

\* A placeholder is judged.
LEMMA OwnJudgePlaceholder == ASSUME TypeOK, OwnInv, NEW c \in Callers, JudgePlaceholder(c) PROVE OwnInv'
  BY PidAssumption DEF JudgePlaceholder, TypeOK, OwnInv, SpawnReserved, ForkReserved, NamedOwns, PidsUsed, DebrisDead, Goto, Return, Placeholder, NoFile

\* Debris is removed.
LEMMA OwnUnlink == ASSUME TypeOK, OwnInv, Races = {}, NEW c \in Callers, Unlink(c) PROVE OwnInv'
  BY PidAssumption DEF Unlink, TypeOK, OwnInv, SpawnReserved, ForkReserved, NamedOwns, PidsUsed, DebrisDead, Goto, Return, RaceOr, Unchanged, Placeholder, NoFile

\* The pidfile is reserved.
LEMMA OwnReserve == ASSUME TypeOK, OwnInv, NEW c \in Callers, Reserve(c) PROVE OwnInv'
  BY PidAssumption DEF Reserve, TypeOK, OwnInv, SpawnReserved, ForkReserved, NamedOwns, PidsUsed, DebrisDead, Goto, Return, Placeholder, NoFile

\* A supervisor is forked.
LEMMA OwnSpawn == ASSUME TypeOK, OwnInv, NEW c \in Callers, NEW p \in Pids, Spawn(c, p) PROVE OwnInv'
<1>1. p \in Pids /\ sup[p] = "unused"
  BY DEF Spawn, NextPid, Unused
<1>2. sup'[p] = "forked" /\ \A q \in Pids : q # p => sup'[q] = sup[q]
  BY <1>1 DEF Spawn, TypeOK, Become
<1>3. /\ at'[c] = "idle" /\ seen'[c] = NoFile
      /\ \A d \in Callers : d # c => at'[d] = at[d] /\ seen'[d] = seen[d]
  BY DEF Spawn, TypeOK, Goto, Return
<1>4. /\ at[c] = "spawn" /\ pidfile' = pidfile /\ fresh' = fresh
      /\ pidfile = Placeholder /\ fresh
      /\ \A d \in Callers : at[d] = "spawn" => d = c
      /\ \A q \in Pids : sup[q] # "forked"
  BY DEF Spawn, OwnInv, SpawnReserved
<1>5. SpawnReserved' /\ ForkReserved'
  BY <1>2, <1>3, <1>4 DEF SpawnReserved, ForkReserved
<1>6. NamedOwns'
  BY <1>2, <1>4 DEF OwnInv, NamedOwns
<1>7. PidsUsed' /\ DebrisDead'
  BY <1>1, <1>2, <1>3, <1>4, PidAssumption DEF OwnInv, PidsUsed, DebrisDead
<1>8. QED  BY <1>5, <1>6, <1>7 DEF OwnInv

\* The fork fails.
LEMMA OwnSpawnFails == ASSUME TypeOK, OwnInv, NEW c \in Callers, SpawnFails(c) PROVE OwnInv'
  BY PidAssumption DEF SpawnFails, TypeOK, OwnInv, SpawnReserved, ForkReserved, NamedOwns, PidsUsed, DebrisDead, Goto, Return, Placeholder, NoFile

\* A stop starts.
LEMMA OwnStop == ASSUME TypeOK, OwnInv, NEW c \in Callers, Stop(c) PROVE OwnInv'
  BY PidAssumption DEF Stop, TypeOK, OwnInv, SpawnReserved, ForkReserved, NamedOwns, PidsUsed, DebrisDead, Goto, Return, Placeholder, NoFile

\* The stop reads the pidfile.
LEMMA OwnStopReads == ASSUME TypeOK, OwnInv, NEW c \in Callers, StopReads(c) PROVE OwnInv'
  BY PidAssumption DEF StopReads, TypeOK, OwnInv, SpawnReserved, ForkReserved, NamedOwns, PidsUsed, DebrisDead, Goto, Return, Placeholder, NoFile

\* The stop sends its signal.
LEMMA OwnStopKills == ASSUME TypeOK, OwnInv, NEW c \in Callers, StopKills(c) PROVE OwnInv'
  BY PidAssumption DEF StopKills, TypeOK, OwnInv, SpawnReserved, ForkReserved, NamedOwns, PidsUsed, DebrisDead, Goto, Return, Become, Alive, Placeholder, NoFile

\* The stop finds no process.
LEMMA OwnStopFindsNone == ASSUME TypeOK, OwnInv, NEW c \in Callers, StopFindsNone(c) PROVE OwnInv'
  BY PidAssumption DEF StopFindsNone, TypeOK, OwnInv, SpawnReserved, ForkReserved, NamedOwns, PidsUsed, DebrisDead, Goto, Return, Alive, Stages, Placeholder, NoFile

\* The stop removes a stale pidfile.
LEMMA OwnStopUnlinks == ASSUME TypeOK, OwnInv, Races = {}, NEW c \in Callers, StopUnlinks(c) PROVE OwnInv'
  BY PidAssumption DEF StopUnlinks, TypeOK, OwnInv, SpawnReserved, ForkReserved, NamedOwns, PidsUsed, DebrisDead, Goto, Return, RaceOr, Unchanged, Placeholder, NoFile

\* The stop returns.
LEMMA OwnStopReturns == ASSUME TypeOK, OwnInv, NEW c \in Callers, StopReturns(c) PROVE OwnInv'
  BY PidAssumption DEF StopReturns, TypeOK, OwnInv, SpawnReserved, ForkReserved, NamedOwns, PidsUsed, DebrisDead, Goto, Return, Placeholder, NoFile

\* A command is killed.
LEMMA OwnKillCaller == ASSUME TypeOK, OwnInv, NEW c \in Callers, KillCaller(c) PROVE OwnInv'
  BY PidAssumption DEF KillCaller, TypeOK, OwnInv, SpawnReserved, ForkReserved, NamedOwns, PidsUsed, DebrisDead, Goto, Return, Placeholder, NoFile

\* The supervisor writes its pid.
LEMMA OwnWritePid == ASSUME TypeOK, OwnInv, NEW p \in Pids, WritePid(p) PROVE OwnInv'
  BY PidAssumption DEF WritePid, TypeOK, OwnInv, SpawnReserved, ForkReserved, NamedOwns, PidsUsed, DebrisDead, Become, Placeholder, NoFile

\* The supervisor handles SIGTERM from now on.
LEMMA OwnInstallHandler == ASSUME TypeOK, OwnInv, NEW p \in Pids, InstallHandler(p) PROVE OwnInv'
  BY PidAssumption DEF InstallHandler, TypeOK, OwnInv, SpawnReserved, ForkReserved, NamedOwns, PidsUsed, DebrisDead, Become, Placeholder, NoFile

\* The supervisor handles a SIGTERM.
LEMMA OwnOnTerm == ASSUME TypeOK, OwnInv, Races = {}, NEW p \in Pids, OnTerm(p) PROVE OwnInv'
  BY PidAssumption DEF OnTerm, TypeOK, OwnInv, SpawnReserved, ForkReserved, NamedOwns, PidsUsed, DebrisDead, Become, RaceOr, Unchanged, Placeholder, NoFile

\* The supervisor exits.
LEMMA OwnExit == ASSUME TypeOK, OwnInv, NEW p \in Pids, Exit(p) PROVE OwnInv'
  BY PidAssumption DEF Exit, TypeOK, OwnInv, SpawnReserved, ForkReserved, NamedOwns, PidsUsed, DebrisDead, Become, Placeholder, NoFile

\* The supervisor finds its token expired.
LEMMA OwnExpire == ASSUME TypeOK, OwnInv, NEW p \in Pids, Expire(p) PROVE OwnInv'
  BY PidAssumption DEF Expire, TypeOK, OwnInv, SpawnReserved, ForkReserved, NamedOwns, PidsUsed, DebrisDead, Become, Placeholder, NoFile

\* A supervisor is killed.
LEMMA OwnKillSupervisor == ASSUME TypeOK, OwnInv, NEW p \in Pids, KillSupervisor(p) PROVE OwnInv'
  BY PidAssumption DEF KillSupervisor, TypeOK, OwnInv, SpawnReserved, ForkReserved, NamedOwns, PidsUsed, DebrisDead, Become, Alive, Placeholder, NoFile

\* The pidfile grows old.
LEMMA OwnAge == ASSUME TypeOK, OwnInv, Races = {}, Age PROVE OwnInv'
  BY PidAssumption DEF Age, TypeOK, OwnInv, SpawnReserved, ForkReserved, NamedOwns, PidsUsed, DebrisDead, Placeholder, NoFile

\* When no unlink hits a pidfile that was written after it was looked at, and
\* nothing takes more than a minute, every step keeps the owners.
LEMMA OwnNext == ASSUME Races = {}, TypeOK, OwnInv, [Next]_vars PROVE OwnInv'
<1>1. \A c \in Callers : Start(c) => OwnInv'
  BY OwnStart
<1>2. \A c \in Callers : Read(c) => OwnInv'
  BY OwnRead
<1>3. \A c \in Callers : JudgePid(c) => OwnInv'
  BY OwnJudgePid
<1>4. \A c \in Callers : JudgePlaceholder(c) => OwnInv'
  BY OwnJudgePlaceholder
<1>5. \A c \in Callers : Unlink(c) => OwnInv'
  BY OwnUnlink
<1>6. \A c \in Callers : Reserve(c) => OwnInv'
  BY OwnReserve
<1>7. \A c \in Callers, p \in Pids : Spawn(c, p) => OwnInv'
  BY OwnSpawn
<1>8. \A c \in Callers : SpawnFails(c) => OwnInv'
  BY OwnSpawnFails
<1>9. \A c \in Callers : Stop(c) => OwnInv'
  BY OwnStop
<1>10. \A c \in Callers : StopReads(c) => OwnInv'
  BY OwnStopReads
<1>11. \A c \in Callers : StopKills(c) => OwnInv'
  BY OwnStopKills
<1>12. \A c \in Callers : StopFindsNone(c) => OwnInv'
  BY OwnStopFindsNone
<1>13. \A c \in Callers : StopUnlinks(c) => OwnInv'
  BY OwnStopUnlinks
<1>14. \A c \in Callers : StopReturns(c) => OwnInv'
  BY OwnStopReturns
<1>15. \A c \in Callers : KillCaller(c) => OwnInv'
  BY OwnKillCaller
<1>16. \A p \in Pids : WritePid(p) => OwnInv'
  BY OwnWritePid
<1>17. \A p \in Pids : InstallHandler(p) => OwnInv'
  BY OwnInstallHandler
<1>18. \A p \in Pids : OnTerm(p) => OwnInv'
  BY OwnOnTerm
<1>19. \A p \in Pids : Exit(p) => OwnInv'
  BY OwnExit
<1>20. \A p \in Pids : Expire(p) => OwnInv'
  BY OwnExpire
<1>21. \A p \in Pids : KillSupervisor(p) => OwnInv'
  BY OwnKillSupervisor
<1>22. Age => OwnInv'
  BY OwnAge
<1>23. (UNCHANGED vars) => OwnInv'
  BY DEF OwnInv, SpawnReserved, ForkReserved, NamedOwns, PidsUsed, DebrisDead, vars
<1>24. QED
  BY <1>1, <1>2, <1>3, <1>4, <1>5, <1>6, <1>7, <1>8, <1>9, <1>10, <1>11, <1>12, <1>13, <1>14, <1>15, <1>16, <1>17, <1>18, <1>19, <1>20, <1>21, <1>22, <1>23 DEF Next, StartStep, StopStep, SupStep

\* A set whose members are all the same has at most one of them.
LEMMA AtMostOne ==
  ASSUME NEW T, \A x, y \in T : x = y
  PROVE  Cardinality(T) = (IF T = {} THEN 0 ELSE 1)
<1>1. CASE T = {}
  BY <1>1, FS_EmptySet
<1>2. CASE T # {}
  <2>1. PICK x : T = {x}  BY <1>2
  <2>2. QED  BY <1>2, <2>1, FS_Singleton
<1>3. QED  BY <1>1, <1>2

\* What the owners of the pidfile have to do with the properties.
LEMMA OwnersNamed == ASSUME OwnInv PROVE PidfileNamesSupervisor
  BY DEF OwnInv, SpawnReserved, ForkReserved, NamedOwns, PidfileNamesSupervisor, Starting

LEMMA OwnerAlone == ASSUME OwnInv PROVE OneSupervisor
<1>1. \A c, d \in Starting : c = d
  BY DEF OwnInv, SpawnReserved, Starting
<1>2. \A p, q \in Supervisors : p = q
  BY PidAssumption DEF OwnInv, ForkReserved, NamedOwns, Supervisors
<1>3. Starting = {} \/ Supervisors = {}
  BY PidAssumption DEF OwnInv, SpawnReserved, NamedOwns, Starting, Supervisors
<1>4. QED  BY <1>1, <1>2, <1>3, AtMostOne DEF OneSupervisor

\* Without the races a supervisor that runs, and a start on its way, have the
\* pidfile to themselves.
THEOREM PidfileOwned == Races = {} => (Spec => []PidfileNamesSupervisor)
<1> SUFFICES ASSUME Races = {} PROVE Spec => []PidfileNamesSupervisor
  OBVIOUS
<1>1. TypeOK /\ OwnInv /\ [Next]_vars => (TypeOK /\ OwnInv)'
  BY TypeNext, OwnNext
<1>2. QED  BY TypeInit, OwnInit, <1>1, OwnersNamed, PTL DEF Spec

\* Without the races there is never a second supervisor or start.
THEOREM SupervisorAlone == Races = {} => (Spec => []OneSupervisor)
<1> SUFFICES ASSUME Races = {} PROVE Spec => []OneSupervisor
  OBVIOUS
<1>1. TypeOK /\ OwnInv /\ [Next]_vars => (TypeOK /\ OwnInv)'
  BY TypeNext, OwnNext
<1>2. QED  BY TypeInit, OwnInit, <1>1, OwnerAlone, PTL DEF Spec
=============================================================================
