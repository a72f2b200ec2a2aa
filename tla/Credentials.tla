------------------------------ MODULE Credentials ------------------------------
(***************************************************************************)
(* The credentials that a machine saves, and the processes that replace    *)
(* and use them: the renewal thread, the commands join, renew and leave,   *)
(* the running client and its supervisor (src/mvp_orbit/config.py,         *)
(* client/main.py and cli/main.py).                                        *)
(*                                                                         *)
(* All of them save by one temporary file next to the configuration.  A    *)
(* file that is open stays open when it is renamed, so `file` says where   *)
(* by now the file is that a writer has opened.  Of the configuration only *)
(* identity and token matter; of the hub, whether it accepts a token.      *)
(***************************************************************************)
EXTENDS Naturals, FiniteSets

CONSTANTS
    Users,       \* terminals of the machine
    Aliases,     \* identities somebody may join under
    Thread,      \* the renewal thread
    Checks,      \* renewals tried in the time between "due" and expiry
    MaxTokens,   \* bound on the number of tokens that the hub mints
    Faults,      \* which of the faults below may happen, each of them once
    MaxFaults    \* bound on the number of faults of one behaviour

AllFaults ==
    {"overlap",     \* a save begins while another one is under way, or it puts
                    \* back what another one has replaced since it was read
     "lost_reply",  \* a renewal, or its answer, gets lost
     "kill",        \* a command is killed
     "network"}     \* the client gives its stream up

ASSUME ThreadAssumption == Thread \notin Users
ASSUME AliasAssumption == Aliases # {} /\ Aliases \cap {"nobody", "garbled", "none"} = {}
ASSUME BoundAssumption ==
    MaxTokens \in Nat \ {0} /\ MaxFaults \in Nat /\ Checks \in Nat /\ Faults \subseteq AllFaults

Writers == Users \cup {Thread}
Tokens  == 1 .. MaxTokens
NoToken == 0

VARIABLES
    minted,     \* number of tokens that the hub has minted
    owner,      \* the alias a token was minted for
    revoked,    \* tokens that the hub has revoked
    age,        \* whether a token is "young", "due" for renewal or "expired"
    tried,      \* how often the thread has tried to renew a token
    config,     \* the configuration file
    tmp,        \* the temporary file, or NoFile
    file,       \* where the file is by now that a writer has opened
    at,         \* where a writer is
    old,        \* the token that a writer has read
    save,       \* the configuration that a writer is going to save
    client,     \* where the client and its supervisor are
    use,        \* the token of the running client
    setup,      \* supervised or not, configuration at the default path or not
    faults      \* the faults that have happened

hubVars    == <<minted, owner, revoked>>
timeVars   == <<age, tried>>
fileVars   == <<config, tmp, file>>
writerVars == <<at, old, save>>
clientVars == <<client, use>>
vars == <<hubVars, timeVars, fileVars, writerVars, clientVars, setup, faults>>

\* What load_config makes of a file.  One that is empty or missing has the
\* defaults; one with the end of a longer one behind it does not parse.
Content(a, t) == [alias |-> a, token |-> t]
Empty    == Content("nobody", NoToken)
Garbled  == Content("garbled", NoToken)
NoFile   == Content("none", NoToken)
Contents == {Empty} \cup [alias : Aliases, token : 0 .. minted]

\* The hub accepts a token, and the machine thinks it does.
Live(t)    == t \in 1 .. minted /\ t \notin revoked /\ age[t] # "expired"
Current(t) == t # NoToken /\ age[t] # "expired"

Commit(f) ==
    /\ f \in Faults \ faults
    /\ Cardinality(faults) < MaxFaults
    /\ faults' = faults \cup {f}

\* The hub mints a token, with all its days to come.  The bound on tokens lets
\* a renewal begin only if it can end.
Room == minted + Cardinality({w \in Writers : at[w] = "renew"}) < MaxTokens
Mint(a) ==
    /\ minted < MaxTokens
    /\ minted' = minted + 1
    /\ owner' = [owner EXCEPT ![minted + 1] = a]
    /\ UNCHANGED revoked

Goto(w, point) == at' = [at EXCEPT ![w] = point]
\* Mutant: what has been read stays behind for the next command.
FinishKeeps(w) == Goto(w, "idle") /\ UNCHANGED <<old, save>>
\* A command or a renewal ends, by its return or by an exception.
Finish(w) ==
    /\ Goto(w, "idle")
    /\ old' = [old EXCEPT ![w] = NoToken]
    /\ save' = [save EXCEPT ![w] = Empty]
WillSave(w, content) ==
    /\ Goto(w, "open")
    /\ save' = [save EXCEPT ![w] = content]
    /\ UNCHANGED old

-----------------------------------------------------------------------------
(* save_config *)

Saving == {w \in Writers : at[w] \in {"flush", "replace"}}

\* What a writer saves again is no longer what is saved.
Resaves(w)  == save[w].token = old[w] /\ old[w] # NoToken
Outdated(w) == Resaves(w) /\ save[w] # config

\* write_text opens the file, which truncates it, ...
OpenTmp(w) ==
    /\ at[w] = "open"
    /\ IF Saving = {} /\ ~Outdated(w) THEN UNCHANGED faults ELSE Commit("overlap")
    /\ tmp' = Empty
    /\ file' = [file EXCEPT ![w] = "tmp"]
    /\ Goto(w, "flush")
    /\ UNCHANGED <<hubVars, timeVars, config, old, save, clientVars, setup>>

\* What is in a file after a writer has written its text: if somebody else
\* wrote a longer one in between, the end of that one is still there.
Written(before, content) ==
    IF before = Empty THEN {content} ELSE {content, Garbled}

\* ... and writes and closes it, wherever it is by now.
Flush(w) ==
    /\ at[w] = "flush"
    /\ \/ file[w] = "tmp" /\ tmp' \in Written(tmp, save[w]) /\ UNCHANGED config
       \/ file[w] = "config" /\ config' \in Written(config, save[w]) /\ UNCHANGED tmp
       \/ file[w] = "gone" /\ UNCHANGED <<config, tmp>>
    /\ file' = [file EXCEPT ![w] = "closed"]
    /\ Goto(w, "replace")
    /\ UNCHANGED <<hubVars, timeVars, old, save, clientVars, setup, faults>>

Renamed == [tmp |-> "config", config |-> "gone", gone |-> "gone", closed |-> "closed"]

\* os.replace, which raises when somebody else has renamed the file.
Replace(w) ==
    /\ at[w] = "replace"
    /\ IF tmp = NoFile
         THEN UNCHANGED fileVars
         ELSE /\ config' = tmp
              /\ tmp' = NoFile
              /\ file' = [v \in Writers |-> Renamed[file[v]]]
    /\ Finish(w)
    /\ UNCHANGED <<hubVars, timeVars, clientVars, setup, faults>>

-----------------------------------------------------------------------------
(* _renew_if_needed, by the thread when the token is due, by `renew` at any   *)
(* time                                                                       *)

Up == client # "ended"

RenewLoads(w) ==
    /\ at[w] = "idle"
    /\ Current(config.token)
    /\ w = Thread => Up /\ age[config.token] = "due"
    /\ Live(config.token) => Room
    /\ old' = [old EXCEPT ![w] = config.token]
    /\ Goto(w, "renew")
    /\ IF w = Thread /\ tried[config.token] < Checks
         THEN tried' = [tried EXCEPT ![config.token] = @ + 1]
         ELSE UNCHANGED tried
    /\ UNCHANGED <<hubVars, age, fileVars, save, clientVars, setup, faults>>

\* POST /api/members/renew, and the second load.
HubRenews(w) ==
    /\ at[w] = "renew"
    /\ Live(old[w])
    /\ Mint(owner[old[w]])
    /\ save' = [save EXCEPT ![w].token = minted + 1]
    /\ Goto(w, "compare")
    /\ UNCHANGED <<timeVars, fileVars, old, clientVars, setup, faults>>

RenewRefused(w) ==
    /\ at[w] = "renew"
    /\ ~Live(old[w])
    /\ Finish(w)
    /\ UNCHANGED <<hubVars, timeVars, fileVars, clientVars, setup, faults>>

RenewLost(w) ==
    /\ at[w] = "renew"
    /\ Commit("lost_reply")
    /\ \/ UNCHANGED hubVars
       \/ Live(old[w]) /\ Mint(owner[old[w]])
    /\ Finish(w)
    /\ UNCHANGED <<timeVars, fileVars, clientVars, setup>>

\* Mutant: without the comparison.
SameCredentialsAlways(w) == config # Garbled
\* The saved credentials are still those that have been renewed.
SameCredentials(w) == config.token = old[w]

RenewCompares(w) ==
    /\ at[w] = "compare"
    /\ IF SameCredentials(w)
         THEN WillSave(w, [config EXCEPT !.token = save[w].token])
         ELSE Finish(w)
    /\ UNCHANGED <<hubVars, timeVars, fileVars, clientVars, setup, faults>>

-----------------------------------------------------------------------------
(* cmd_leave and cmd_join *)

LeaveLoads(u) ==
    /\ at[u] = "idle"
    /\ Current(config.token)
    /\ old' = [old EXCEPT ![u] = config.token]
    /\ Goto(u, "leave")
    /\ UNCHANGED <<hubVars, timeVars, fileVars, save, clientVars, setup, faults>>

\* The hub revokes every token of the alias.
HubEvicts(u) ==
    /\ at[u] = "leave"
    /\ IF Live(old[u])
         THEN /\ revoked' = revoked \cup {t \in 1 .. minted : owner[t] = owner[old[u]]}
              /\ Goto(u, "left")
              /\ UNCHANGED <<old, save>>
         ELSE Finish(u) /\ UNCHANGED revoked
    /\ UNCHANGED <<minted, owner, timeVars, fileVars, clientVars, setup, faults>>

\* The token is dropped locally, from what is saved by now.
DropToken(u) ==
    /\ at[u] = "left"
    /\ IF config = Garbled THEN Finish(u)
       ELSE WillSave(u, [config EXCEPT !.token = NoToken])
    /\ UNCHANGED <<hubVars, timeVars, fileVars, clientVars, setup, faults>>

\* A join that is approved saves the new identity with its token.
Join(u, a) ==
    /\ at[u] = "idle"
    /\ config # Garbled
    /\ Room /\ Mint(a)
    /\ WillSave(u, Content(a, minted + 1))
    /\ UNCHANGED <<timeVars, fileVars, clientVars, setup, faults>>

\* A join of somebody who is enrolled, with another command that refreshes the
\* environment: the loaded configuration is saved again, without a comparison.
JoinEnrolled(u) ==
    /\ at[u] = "idle"
    /\ Current(config.token)
    /\ Goto(u, "open")
    /\ old' = [old EXCEPT ![u] = config.token]
    /\ save' = [save EXCEPT ![u] = config]
    /\ UNCHANGED <<hubVars, timeVars, fileVars, clientVars, setup, faults>>

KillCommand(u) ==
    /\ at[u] # "idle"
    /\ Commit("kill")
    /\ file' = [file EXCEPT ![u] = "closed"]
    /\ Finish(u)
    /\ UNCHANGED <<hubVars, timeVars, config, tmp, clientVars, setup>>

\* The renewal thread ends with its process.
ThreadDies ==
    /\ at[Thread] # "idle" /\ ~Up
    /\ file' = [file EXCEPT ![Thread] = "closed"]
    /\ Finish(Thread)
    /\ UNCHANGED <<hubVars, timeVars, config, tmp, clientVars, setup, faults>>

-----------------------------------------------------------------------------
(* The client and its supervisor *)

\* A token and an expiry in the future.
MayStart == Current(config.token)

\* cmd_daemon_supervise reads the configuration; what does not parse it reads
\* again ten seconds later.
Supervise ==
    /\ client = "supervisor"
    /\ config # Garbled
    /\ IF MayStart
         THEN client' = "running" /\ use' = config.token
         ELSE client' = "ended" /\ UNCHANGED use
    /\ UNCHANGED <<hubVars, timeVars, fileVars, writerVars, setup, faults>>

\* The client's exit: a supervisor goes on, a client in the foreground is gone.
Exits == client' = (IF setup.supervised THEN "supervisor" ELSE "ended")

\* The hub answers 401 to a reconnect.
Rejected ==
    /\ client = "running"
    /\ ~Live(use)
    /\ client' = "rejected"
    /\ UNCHANGED <<hubVars, timeVars, fileVars, writerVars, use, setup, faults>>

\* Mutant: no swap to a renewed token.
RenewedNever == NoToken
\* _load_renewed_credentials looks at the default path, wherever the renewed
\* token was saved.
Renewed == IF setup.default THEN config.token ELSE NoToken

SwapOrExit ==
    /\ client = "rejected"
    /\ IF Current(Renewed) /\ Renewed # use
         THEN client' = "running" /\ use' = Renewed
         ELSE Exits /\ UNCHANGED use
    /\ UNCHANGED <<hubVars, timeVars, fileVars, writerVars, setup, faults>>

\* StreamFailureLimitError
GivesUp ==
    /\ client = "running"
    /\ Commit("network")
    /\ Exits
    /\ UNCHANGED <<hubVars, timeVars, fileVars, writerVars, use, setup>>

-----------------------------------------------------------------------------
(* Time: every token lives for seven days, so they age in the order in which  *)
(* they were minted                                                           *)

\* What the hub has minted is saved long before.
BecomeDue(t) ==
    /\ t <= minted /\ age[t] = "young"
    /\ \A s \in 1 .. t - 1 : age[s] # "young"
    /\ \A w \in Writers : save[w].token # t
    /\ age' = [age EXCEPT ![t] = "due"]
    /\ UNCHANGED <<hubVars, tried, fileVars, writerVars, clientVars, setup, faults>>

\* Between the threshold and the expiry lie three days, and a renewal is tried
\* every six hours: the thread of a client has tried at least Checks times, and
\* neither a renewal of its nor a save takes days.
Expire(t) ==
    /\ t <= minted /\ age[t] = "due"
    /\ \A s \in 1 .. t - 1 : age[s] = "expired"
    /\ (t = config.token /\ Up) => tried[t] = Checks
    /\ at[Thread] = "idle" /\ Saving = {}
    /\ age' = [age EXCEPT ![t] = "expired"]
    /\ UNCHANGED <<hubVars, tried, fileVars, writerVars, clientVars, setup, faults>>

-----------------------------------------------------------------------------
\* Which of the identities a machine has joined under makes no difference.
First == CHOOSE a \in Aliases : TRUE

Init ==
    /\ minted = 1
    /\ owner = [t \in Tokens |-> First]
    /\ config = Content(First, 1)
    /\ revoked = {}
    /\ age = [t \in Tokens |-> "young"]
    /\ tried = [t \in Tokens |-> 0]
    /\ tmp = NoFile
    /\ file = [w \in Writers |-> "closed"]
    /\ at = [w \in Writers |-> "idle"]
    /\ old = [w \in Writers |-> NoToken]
    /\ save = [w \in Writers |-> Empty]
    /\ setup \in [supervised : BOOLEAN, default : BOOLEAN]
    /\ client = "running" /\ use = 1
    /\ faults = {}

Next ==
    \/ \E w \in Writers :
          \/ RenewLoads(w) \/ HubRenews(w) \/ RenewRefused(w) \/ RenewLost(w)
          \/ RenewCompares(w) \/ OpenTmp(w) \/ Flush(w) \/ Replace(w)
    \/ \E u \in Users :
          \/ LeaveLoads(u) \/ HubEvicts(u) \/ DropToken(u)
          \/ JoinEnrolled(u) \/ (\E a \in Aliases : Join(u, a)) \/ KillCommand(u)
    \/ ThreadDies \/ Supervise \/ Rejected \/ SwapOrExit \/ GivesUp
    \/ \E t \in Tokens : BecomeDue(t) \/ Expire(t)

Spec == Init /\ [][Next]_vars

-----------------------------------------------------------------------------
(* Properties *)

\* Type invariant: a writer has a token to save when it has got one, has a file
\* open exactly while it writes, and keeps nothing from one command to the next.
TypeOK ==
    /\ minted \in Tokens
    /\ owner \in [Tokens -> Aliases]
    /\ revoked \subseteq 1 .. minted
    /\ age \in [Tokens -> {"young", "due", "expired"}]
    /\ tried \in [Tokens -> 0 .. Checks]
    /\ config \in Contents \cup {Garbled}
    /\ tmp \in Contents \cup {Garbled, NoFile}
    /\ file \in [Writers -> {"closed", "tmp", "config", "gone"}]
    /\ at \in [Writers -> {"idle", "renew", "compare", "leave", "left", "open", "flush", "replace"}]
    /\ old \in [Writers -> 0 .. minted]
    /\ save \in [Writers -> [alias : Aliases \cup {"nobody"}, token : 0 .. minted]]
    /\ \A w \in Writers :
          /\ IF at[w] = "compare" THEN save[w].token # NoToken ELSE save[w] \in Contents
          /\ at[w] = "idle" => old[w] = NoToken /\ save[w] = Empty
          /\ at[w] \in {"renew", "compare", "leave"} => old[w] # NoToken
          /\ file[w] # "closed" <=> at[w] = "flush"
    /\ client \in {"supervisor", "running", "rejected", "ended"}
    /\ use \in 1 .. minted
    /\ setup \in [supervised : BOOLEAN, default : BOOLEAN]
    /\ faults \subseteq AllFaults

\* However renewals, joins and leaves interleave, and however often they write
\* over each other's file: a configuration never pairs the identity of one
\* enrolment with the token of another.
CredentialsMatch ==
    \A c \in {config, tmp} : c.token # NoToken => owner[c.token] = c.alias

\* A machine that is not made to leave stays enrolled as long as its client
\* runs, whatever gets lost or killed: the client ends for an eviction, for
\* saves that overlapped or put an old token back - or in the foreground, where
\* nobody restarts it when its stream is given up, and where it does not find
\* what it has renewed in a configuration at another path.
EndsForAReason ==
    client = "ended" =>
        \/ revoked # {} \/ "overlap" \in faults
        \/ ~setup.supervised /\ ("network" \in faults \/ ~setup.default)
=============================================================================
