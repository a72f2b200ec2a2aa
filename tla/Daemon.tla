-------------------------------- MODULE Daemon --------------------------------
(***************************************************************************)
(* The pidfile of the client daemon on one machine: `orbit join --daemon`, *)
(* `orbit stop` and the detached supervisors (src/mvp_orbit/cli/main.py).  *)
(*                                                                         *)
(* Nothing locks the pidfile.  Every program point at which one of the     *)
(* commands looks at it or changes it is an action, so commands and        *)
(* supervisors interleave as processes do.  What a supervisor supervises   *)
(* is not modelled here, only that it goes on until a signal or the expiry *)
(* of its token ends it.  `fresh` is the age of the pidfile's last write   *)
(* compared with the minute after which a placeholder is debris.           *)
(***************************************************************************)
EXTENDS Naturals, FiniteSets

CONSTANTS
    Callers,     \* terminals in which somebody runs join --daemon or stop
    Pids,        \* process ids of supervisors, each used once
    Races,       \* which of the races below may happen
    Faults,      \* which of the faults below may happen
    MaxFaults    \* bound on the number of faults of one behaviour

AllRaces ==
    {"stale_unlink",  \* an unlink hits a pidfile written after it was looked at
     "slow_start"}    \* a command takes longer than a placeholder counts as fresh

AllFaults ==
    {"kill",         \* a process is killed, or dies with the machine
     "no_process",   \* the supervisor cannot be spawned
     "expiry"}       \* the supervisor finds its token expired

Placeholder == "starting"
NoFile      == "none"

ASSUME PidAssumption == NoFile \notin Pids /\ Placeholder \notin Pids
ASSUME FaultAssumption == MaxFaults \in Nat

VARIABLES
    pidfile,    \* content of the pidfile, or NoFile
    fresh,      \* the pidfile was written less than a minute ago
    sup,        \* where a supervisor is
    term,       \* supervisors whose handler has still to see a SIGTERM
    at,         \* where the command of a terminal is
    seen,       \* what that command read from the pidfile
    faults      \* number of faults so far

vars == <<pidfile, fresh, sup, term, at, seen, faults>>

\* A supervisor is forked; "named" once the pidfile has its pid, "supervising"
\* once it handles SIGTERM, "leaving" once it has removed the pidfile.
Stages  == {"unused", "forked", "named", "supervising", "leaving", "gone"}
Points  == {"idle", "read", "judge", "unlink", "reserve", "spawn",
            "stop_read", "stop_kill", "stop_unlink", "stop_wait"}

Alive(p) == sup[p] \in {"forked", "named", "supervising", "leaving"}

Commit(f) ==
    /\ f \in Faults
    /\ faults < MaxFaults
    /\ faults' = faults + 1

\* A command goes to a point with what it knows of the pidfile, or returns.
Goto(c, point, content) ==
    /\ at' = [at EXCEPT ![c] = point]
    /\ seen' = [seen EXCEPT ![c] = content]
Return(c) == Goto(c, "idle", NoFile)
Become(p, stage) == sup' = [sup EXCEPT ![p] = stage]

-----------------------------------------------------------------------------
(* join --daemon: _daemonize_and_supervise *)

\* pid_path.exists()
Start(c) ==
    /\ at[c] = "idle"
    /\ Goto(c, IF pidfile = NoFile THEN "reserve" ELSE "read", NoFile)
    /\ UNCHANGED <<pidfile, fresh, sup, term, faults>>

\* pid_path.read_text() raises when the file is gone by now.
Read(c) ==
    /\ at[c] = "read"
    /\ Goto(c, IF pidfile = NoFile THEN "idle" ELSE "judge", pidfile)
    /\ UNCHANGED <<pidfile, fresh, sup, term, faults>>

\* Mutant: the pid is taken for a dead one without asking.
JudgePidDead(c) ==
    /\ at[c] = "judge"
    /\ seen[c] \in Pids
    /\ Goto(c, "unlink", seen[c])
    /\ UNCHANGED <<pidfile, fresh, sup, term, faults>>
\* os.kill(existing, 0)
JudgePid(c) ==
    /\ at[c] = "judge"
    /\ seen[c] \in Pids
    /\ IF Alive(seen[c]) THEN Return(c) ELSE Goto(c, "unlink", seen[c])
    /\ UNCHANGED <<pidfile, fresh, sup, term, faults>>

\* Mutant: a placeholder is always somebody's.
IsDebrisNever == FALSE
\* A placeholder older than a minute; the age is that of the file as it is now.
IsDebris == pidfile # NoFile /\ ~fresh

JudgePlaceholder(c) ==
    /\ at[c] = "judge"
    /\ seen[c] = Placeholder
    /\ IF IsDebris THEN Goto(c, "unlink", Placeholder) ELSE Return(c)
    /\ UNCHANGED <<pidfile, fresh, sup, term, faults>>

\* The pidfile is still the one that the command or signal is about.
Unchanged(content) ==
    \/ pidfile = NoFile
    \/ pidfile = content /\ (content = Placeholder => ~fresh)

RaceOr(content) == "stale_unlink" \in Races \/ Unchanged(content)

\* pid_path.unlink(missing_ok=True)
Unlink(c) ==
    /\ at[c] = "unlink"
    /\ RaceOr(seen[c])
    /\ pidfile' = NoFile
    /\ Goto(c, "reserve", NoFile)
    /\ UNCHANGED <<fresh, sup, term, faults>>

\* Mutant: the pidfile is written, whoever has it.
ReserveAnyway(c) ==
    /\ at[c] = "reserve"
    /\ pidfile' = Placeholder
    /\ fresh' = TRUE
    /\ Goto(c, "spawn", NoFile)
    /\ UNCHANGED <<sup, term, faults>>
\* os.open with O_CREAT | O_EXCL, and the placeholder; FileExistsError refuses.
Reserve(c) ==
    /\ at[c] = "reserve"
    /\ IF pidfile = NoFile
         THEN /\ pidfile' = Placeholder
              /\ fresh' = TRUE
              /\ Goto(c, "spawn", NoFile)
         ELSE /\ Return(c)
              /\ UNCHANGED <<pidfile, fresh>>
    /\ UNCHANGED <<sup, term, faults>>

\* Which pid the system picks makes no difference.
Unused  == {p \in Pids : sup[p] = "unused"}
NextPid == CHOOSE p \in Unused : TRUE

Spawn(c, p) ==
    /\ at[c] = "spawn"
    /\ Unused # {} /\ p = NextPid
    /\ Become(p, "forked")
    /\ Return(c)
    /\ UNCHANGED <<pidfile, fresh, term, faults>>

SpawnFails(c) ==
    /\ at[c] = "spawn"
    /\ Commit("no_process")
    /\ pidfile' = NoFile
    /\ Return(c)
    /\ UNCHANGED <<fresh, sup, term>>

-----------------------------------------------------------------------------
(* The supervisor: cmd_daemon_supervise *)

\* write_text overwrites whatever is there.
WritePid(p) ==
    /\ sup[p] = "forked"
    /\ pidfile' = p
    /\ fresh' = TRUE
    /\ Become(p, "named")
    /\ UNCHANGED <<term, at, seen, faults>>

InstallHandler(p) ==
    /\ sup[p] = "named"
    /\ Become(p, "supervising")
    /\ UNCHANGED <<pidfile, fresh, term, at, seen, faults>>

\* Mutant: on_term without os._exit.
OnTermGoesOn(p) ==
    /\ p \in term
    /\ sup[p] \in {"supervising", "leaving"}
    /\ RaceOr(p)
    /\ pidfile' = NoFile
    /\ term' = term \ {p}
    /\ UNCHANGED <<fresh, sup, at, seen, faults>>
\* on_term removes the pidfile, whoever wrote it, also when the supervisor is
\* about to exit anyway.
OnTerm(p) ==
    /\ p \in term
    /\ sup[p] \in {"supervising", "leaving"}
    /\ RaceOr(p)
    /\ pidfile' = NoFile
    /\ term' = term \ {p}
    /\ Become(p, "leaving")
    /\ UNCHANGED <<fresh, at, seen, faults>>

\* The loop ends, and finally: removes the pidfile.
Expire(p) ==
    /\ sup[p] = "supervising"
    /\ Commit("expiry")
    /\ pidfile' = NoFile
    /\ Become(p, "leaving")
    /\ UNCHANGED <<fresh, term, at, seen>>

Exit(p) ==
    /\ sup[p] = "leaving"
    /\ Become(p, "gone")
    /\ term' = term \ {p}
    /\ UNCHANGED <<pidfile, fresh, at, seen, faults>>

-----------------------------------------------------------------------------
(* stop: cmd_stop *)

\* Without a pidfile there is nothing to stop, and nothing changes.
Stop(c) ==
    /\ at[c] = "idle"
    /\ pidfile # NoFile
    /\ Goto(c, "stop_read", NoFile)
    /\ UNCHANGED <<pidfile, fresh, sup, term, faults>>

\* Mutant: whatever the pidfile holds is killed.
StopReadsAny(c) ==
    /\ at[c] = "stop_read"
    /\ IF pidfile # NoFile THEN Goto(c, "stop_kill", pidfile) ELSE Return(c)
    /\ UNCHANGED <<pidfile, fresh, sup, term, faults>>
\* int(content) raises for a placeholder, read_text for a file that is gone.
StopReads(c) ==
    /\ at[c] = "stop_read"
    /\ IF pidfile \in Pids THEN Goto(c, "stop_kill", pidfile) ELSE Return(c)
    /\ UNCHANGED <<pidfile, fresh, sup, term, faults>>

\* SIGTERM ends a process that has no handler for it yet.
StopKills(c) ==
    /\ at[c] = "stop_kill"
    /\ Alive(seen[c])
    /\ IF sup[seen[c]] \in {"supervising", "leaving"}
         THEN term' = term \cup {seen[c]} /\ UNCHANGED sup
         ELSE Become(seen[c], "gone") /\ UNCHANGED term
    /\ Goto(c, "stop_wait", NoFile)
    /\ UNCHANGED <<pidfile, fresh, faults>>

\* ProcessLookupError
StopFindsNone(c) ==
    /\ at[c] = "stop_kill"
    /\ ~Alive(seen[c])
    /\ Goto(c, "stop_unlink", seen[c])
    /\ UNCHANGED <<pidfile, fresh, sup, term, faults>>

StopUnlinks(c) ==
    /\ at[c] = "stop_unlink"
    /\ RaceOr(seen[c])
    /\ pidfile' = NoFile
    /\ Return(c)
    /\ UNCHANGED <<fresh, sup, term, faults>>

\* The supervisor is gone, or ten seconds have passed.
StopReturns(c) ==
    /\ at[c] = "stop_wait"
    /\ Return(c)
    /\ UNCHANGED <<pidfile, fresh, sup, term, faults>>

-----------------------------------------------------------------------------
(* Time and faults *)

\* Within a minute a command judges what it has read, and a start gets from its
\* reservation to the supervisor's pid - unless one of them is slow.
Age ==
    /\ pidfile # NoFile /\ fresh
    /\ \/ "slow_start" \in Races
       \/ /\ \A c \in Callers : at[c] # "spawn" /\ (at[c] = "judge" => seen[c] = pidfile)
          /\ \A p \in Pids : sup[p] # "forked"
    /\ fresh' = FALSE
    /\ UNCHANGED <<pidfile, sup, term, at, seen, faults>>

\* kill -9, or the machine goes down: the pidfile stays as it is.
KillSupervisor(p) ==
    /\ Alive(p)
    /\ Commit("kill")
    /\ Become(p, "gone")
    /\ term' = term \ {p}
    /\ UNCHANGED <<pidfile, fresh, at, seen>>

\* The same where opening the daemon's log raises between reservation and spawn.
KillCaller(c) ==
    /\ at[c] # "idle"
    /\ Commit("kill")
    /\ Return(c)
    /\ UNCHANGED <<pidfile, fresh, sup, term>>

-----------------------------------------------------------------------------
Init ==
    /\ pidfile = NoFile
    /\ fresh = FALSE
    /\ sup = [p \in Pids |-> "unused"]
    /\ term = {}
    /\ at = [c \in Callers |-> "idle"]
    /\ seen = [c \in Callers |-> NoFile]
    /\ faults = 0

StartStep(c) ==
    \/ Read(c) \/ JudgePid(c) \/ JudgePlaceholder(c)
    \/ Unlink(c) \/ Reserve(c) \/ \E p \in Pids : Spawn(c, p)

StopStep(c) ==
    StopReads(c) \/ StopKills(c) \/ StopFindsNone(c) \/ StopUnlinks(c) \/ StopReturns(c)

SupStep(p) == WritePid(p) \/ InstallHandler(p) \/ OnTerm(p) \/ Exit(p)

Next ==
    \/ \E c \in Callers :
          \/ Start(c) \/ StartStep(c) \/ SpawnFails(c)
          \/ Stop(c) \/ StopStep(c) \/ KillCaller(c)
    \/ \E p \in Pids : SupStep(p) \/ Expire(p) \/ KillSupervisor(p)
    \/ Age

Spec == Init /\ [][Next]_vars

\* Processes run and time passes; nobody has to start or stop a daemon.
FairSpec ==
    /\ Spec
    /\ \A c \in Callers : WF_vars(StartStep(c)) /\ WF_vars(StopStep(c))
    /\ \A p \in Pids : WF_vars(SupStep(p))
    /\ WF_vars(Age)

-----------------------------------------------------------------------------
(* Properties *)

\* Type invariant: what was read from a pidfile was a pid or the placeholder,
\* and only a supervisor with a handler has a signal pending.
TypeOK ==
    /\ pidfile \in Pids \cup {Placeholder, NoFile}
    /\ fresh \in BOOLEAN
    /\ sup \in [Pids -> Stages]
    /\ term \subseteq {p \in Pids : sup[p] \in {"supervising", "leaving"}}
    /\ at \in [Callers -> Points]
    /\ seen \in [Callers -> Pids \cup {Placeholder, NoFile}]
    /\ \A c \in Callers :
          /\ at[c] \in {"judge", "unlink"} => seen[c] # NoFile
          /\ at[c] \in {"stop_kill", "stop_unlink"} => seen[c] \in Pids
    /\ faults \in 0 .. MaxFaults

Starting    == {c \in Callers : at[c] = "spawn"}
Supervisors == {p \in Pids : sup[p] \in {"forked", "named", "supervising"}}

\* The pidfile that the exclusive open reserves protects one start and then
\* one supervisor: however joins, stops and dying supervisors interleave, at
\* most one terminal is about to fork or one supervisor is up, not both.
OneSupervisor == Cardinality(Starting) + Cardinality(Supervisors) <= 1

\* Nobody takes the pidfile away from a supervisor or from a start: stop and
\* status find a supervisor by it as long as it runs.
PidfileNamesSupervisor ==
    /\ \A p \in Pids :
          /\ sup[p] = "forked" => pidfile = Placeholder
          /\ sup[p] \in {"named", "supervising"} => pidfile = p
    /\ Starting # {} => pidfile = Placeholder

\* A pidfile that no supervisor and no start stands behind, left by whatever
\* died at whatever moment, does not lock the machine out: if somebody runs
\* join --daemon again and again, it goes away.
Debris == pidfile # NoFile /\ Starting = {} /\ \A p \in Pids : ~Alive(p)
DebrisClears ==
    (\E c \in Callers : []<><<Start(c)>>_vars) => (Debris ~> pidfile = NoFile)

\* Every supervisor that stop has sent its signal to exits.
StopEnds == \A p \in Pids : p \in term ~> sup[p] = "gone"
=============================================================================
