# A TLA+ verification of mvp-orbit

mvp-orbit lets a member of a channel run commands, open shells and move files
on the machine of another member. Paths below are relative to the repository.
Every definition of the models is a translation of the source; `PROJECT.json`
maps each one to the lines it stands for.

## 1. Inventory

| Part | Code | State it keeps | Operations |
| --- | --- | --- | --- |
| Hub store: commands | `hub/store.py` | `commands`, `command_events` | create, claim, cancel, started/output/exit events, reap |
| Hub store: shells | `hub/store.py` | `shell_sessions`, `shell_stream_events` | create, claim, stdin, resize, close, output/exit events, reap |
| Hub store: files | `hub/store.py` | `file_transfers`, `file_events` | push, pull, started, result, reap |
| Hub store: clients | `hub/store.py` | `clients`, `client_control_events` | register, heartbeat, reconcile, append and list control events |
| Hub store: membership | `hub/store.py` | `channels`, `channel_members`, `member_tokens`, `join_requests` | join, approve, reject, poll, renew, leave, remove, change role, prune |
| Hub app | `hub/app.py` | one generator per open stream | HTTP endpoints, client stream, record streams, reaper and cleanup loops |
| Store wake-up | `hub/store.py` | update version, set of waiters | read the version, wait, notify |
| Client service | `client/service.py` | work in progress, last event id, connection | consume loop, heartbeat thread, reconcile, workers, give-up |
| Client runtime | `client/runtime.py` | subprocesses, ptys | run a command, a shell, write or read a file |
| Client main | `client/main.py` | the token and the service in use | start, swap to a renewed token and a new service |
| CLI initiator | `cli/main.py` | last event id of what it follows | exec, shell, push, pull, follow with resume |
| CLI joiner | `cli/main.py` | pending request | join, poll, renew, leave, transfer admin |
| CLI daemon | `cli/main.py` | pid file, child process | detach, supervise, stop, status, doctor |
| Config | `config.py` | the config file | load, save |
| Logging, ids, models | `core/` | none | formatting, id generation, validation |

How they interact. An initiator (CLI) posts work to the hub; the hub writes the
record and a control event for the executing client in one transaction and
wakes its event stream; the client's consume loop starts a worker thread; the
worker claims the record, runs it and posts events about it; the hub appends
them to the record's log, which the initiator reads as another stream until the
record is terminal. The reaper and the reconcile of a reconnecting client
resolve work that nobody will report on.

Hard behaviours: worker threads, consume loop and heartbeat thread of a client
are concurrent; every request can be lost, its answer can be lost, and a request
whose sender timed out can still be handled; streams break and resume by
`Last-Event-ID`; clients crash and restart while programs they started run on; a
client whose token is refused goes on with a renewed one and a new
`ClientService`, beside the threads of the old one; a reaper, reconciles,
cancels and exit reports race for one record; members are evicted while their
work runs.

What makes each part correct:

- commands, shells, files: a record is resolved exactly once, with one terminal
  event; it is executed at most once and only if claimed; terminal is final;
  whoever waits for it is answered in the end.
- client stream: what is still to be done is never skipped, cancels always
  arrive.
- record streams: everything appended before the end is delivered, in order,
  once; no wake-up is lost.
- reconcile: it resolves exactly the work that the client's `ClientService` no
  longer has, never the work that it executes.
- membership: a channel with members has an admin; only members hold tokens
  that work; a join is admitted by a member or because the channel is empty.
- daemon: one supervisor per pidfile; what a dying one leaves behind goes away.
- credentials: a saved identity has a token of its own; a machine stays enrolled
  as long as its client runs.

## 2. Plan

Order: what the system is for comes first (commands), then who may use it
(membership), then how results come back (streams), then the simpler work
(files), then shells, then the processes around a client.

| Step | Module | State of it |
| --- | --- | --- |
| 1 | `CommandLife`: the promise about a command | done, refined by `Commands` |
| 2 | `Commands`: hub tables, client streams, client process, workers, network, faults | done, proved about |
| 3 | `Membership`: joins, tokens, roles, client rows, pruning | done, proved about |
| 4 | `Streams`: generator, wake-up and follower of one record's log | done, proved about |
| 5 | `TransferPromise`, `Files`: transfers without a claim, one report, replay | done, refined and proved about |
| 6 | `ShellPromise`, `Shells`: claim, input queue, resize, close, pty loop, exit or close report; the shell part of reconcile and reaper | done, refined and proved about |
| 7 | `Daemon`: pidfile, supervisor, start and stop | done, proved about |
| 8 | `Credentials`: shared temporary file, renewal, join, leave, the client's use of its token | done, proved about |
| 9 | `ClientLoop`: failure streak, unusable-stream flag, give-up limit | open |
| 10 | Eviction composed with commands: `Membership`'s evictions delete control events and rows under `Commands` | open |
| 11 | Proofs: every invariant, action property and refinement that a run checks | done |

Abstract specifications: `CommandLife`, `ShellPromise` and `TransferPromise`.
Each run asks one question of one module; a component has a safety run with
every fault and, where its promise of an end holds under fewer faults only, a
second one with those.

## 3. Modules and how they correspond to the code

### Commands, CommandLife, MCCommands

Every store method runs under the store's lock in one SQLite transaction, so a
handler is one action: `Create`, `CancelQueued`, `CancelRunning`, `GrantClaim`,
`RefuseClaim`, `HandleReport` (command.started, stdout, stderr),
`HandleExit`, `HandleReconcile`, `Heartbeat`, `Reap`. Requests of worker threads
are members of `net`: a thread puts one there and waits; the hub handles it or
the environment loses it (`GiveUp`), and then the thread sees an exception.
`waiting` is FALSE in a request whose sender has given up, and the hub may still
handle such a request. `Poll` is one turn of `_client_stream`, with the filter of
`get_live_client_control_events`. `Connect`, `ReconcileFails`, `DispatchStart`,
`DispatchCancel`, `StreamBreaks` are the consume loop; `cancels` is the key set
of `_command_cancels`, from which the reconcile lists the active work.
`ClaimFails` to `ExitFails` are the steps of `_run_command` and
`handle_command`, one per place where the thread talks to the hub or to the
operating system. `proc` and `runs` are the programs, which outlive the client.

`Crash` is the death of the process. `Swap` is the loop of `client.main`: a
reconnect is refused, and the process builds a new `ClientService`, which starts
with no work and `Last-Event-ID` 0. The old service's HTTP client is closed, so a
thread of it that posts gets an exception and ends; one that has nothing to post
goes on, about to start its program or waiting for it. It becomes a `stray`
thread: no reconcile lists it, no cancel reaches it and nothing that it would
report arrives (`StraySpawns`, `StrayEnds`). `Files` and `Shells` have the same
step with what it means there.

Abstracted: argv, output text and exit codes; time (a claim timeout and an
offline limit are the facts `overdue` and `lastSeen = "stale"`); lease fields.

### Membership, MCMembership

Authentication (`require_member`) and the store call of the handler are two
critical sections in the code; `Authenticate` puts a call into `calls`, the
handler's action takes it out, and `Refuse` is every answer that changes
nothing. Approve and reject check the channel only, so a call of somebody who
has been evicted in between still decides: the model has that. `tokens` holds
for whom some token works, which is all that the code asks of a token. Two races
that break promises of the docs can be switched off by `Races`, so that the rest
is checked with and without them. `quiet` stands for the comparison of three
timestamps in `cleanup_empty_channels`: whatever the code takes as activity
removes the channel from `quiet`. `Register` inserts the client row of any
client id under a token of the channel, for the hub never compares the id with
the token's alias; the client of a machine that has joined anew under another
alias does just that. `JoinAgain` is one more request to join than the bound on
`Requests` keeps: nobody decides it, but the cleanup counts it as activity.
`Init` is an empty hub, or a hub that has just migrated a database from before
roles and bound tokens.

### Streams

`ReadVersion`, `SendEvents`, `FindNoEvents`, `CheckRecord`, `StartWait`,
`Wake`, `KeepAlive` are the program points of the generator `_record_stream`
between which other threads run. `AppendEvent` is a committed append and
`Notify` the `_notify_update` after it: `owed` counts commits that are not
announced yet. Of the update version a generator only uses whether it moved
since it was read, so `changed[f]` replaces the number. The rest is
`_follow_stream` with its callers. One follower is checked: followers neither
write what another reads nor wait for each other, and the wake-ups that other
waiters cause are `OtherChange`.

### Files, TransferPromise, MCFiles

`Dispatch` starts the thread of the next file event, `Handle` is the hub's
share, `BeginWrite` and `EndWrite` are the two moments of `write_bytes`,
`FailWork` every exception that the handlers turn into a failed result, `Lose`
and `HandleUnanswered` the POST that fails, which ends the thread. `control`
has the file events only; nothing filters them. After `Crash` and `Restart` the
client reads all of them again. So does the new service after `Swap`, while
`strays` of the old one may still be writing: two threads that write one path at
once leave it whole or torn. `TransferPromise` is what the two ends may rely
on: a transfer is resolved once, with one result and for good, and a push as
succeeded only if it was written to its end. It allows that a file is
written after the reaper resolved its record, for the code does that.

### Shells, ShellPromise, MCShells

One action per handler of the store and per step of `_run_shell` and
`handle_shell_session` at which another thread, the hub or the shell can come
between. `ctlVars` are the session's `ShellControl`: the queue of inputs, the
pending resize and the close flag that the consume loop sets and the pty loop
takes. `pty`, `proc` and `written` are what the operating system has: the
terminal, the shell and what arrived in it. Input is a number per `typed`
event, so that order, gaps and repetitions show; `cut` has the inputs of which
`os.write` took a part only, whose rest is dropped. After the shell's end the
thread drains the pty: it reads and posts output until there is none, and looks
neither at a close nor at a bound (`DrainOutput`, `Drained`). `abandoned` are the
ptys that nobody will close: where `Popen` raises after `openpty`, and where
shell.started cannot be posted. `stray` is the loop of a swapped service and
`left` the input that was queued for it. `ShellPromise` is what a member may rely
on: input written in order and once and none left out, though of any input a part
may be missing; one shell; one end.

### Daemon, MCDaemon

`Start` to `Spawn` are the steps of `_daemonize_and_supervise` between which
another terminal can act: read the pidfile, judge what it says, unlink debris,
reserve by an exclusive open, fork. `WritePid`, `InstallHandler`, `OnTerm`,
`Exit` are the supervisor, `StopReads` to `StopReturns` are `cmd_stop`. A
process id is used once. `fresh` is whether the pidfile is younger than the 60
seconds that a placeholder is given. `Races` has the one race of the
code that breaks its promise, between reading a stale pidfile and unlinking it.

### Credentials, MCCredentials

`OpenTmp`, `Flush`, `Replace` are `save_config`: open and truncate, write,
rename. `file` follows a file that is open through a rename, so a writer may
write into what has become the configuration. `RenewLoads` to `RenewCompares`
are `_renew_if_needed`, `LeaveLoads` to `DropToken` are `cmd_leave`, `Join` is
the end of `cmd_join`, `JoinEnrolled` its early save of the configuration that
an enrolled machine has loaded, without a comparison; renewals are made by the
thread when they are due and by `renew` (or a `join` that finds saved
credentials) at any time. `Supervise`, `Rejected`, `SwapOrExit`, `GivesUp` are
the supervisor and `client.main`. `setup` is how the machine was set up:
supervised or in the foreground, with the configuration at the default path or
elsewhere. The fault `overlap` is a save while another one writes, or a
`JoinEnrolled` save of what has been replaced since it was loaded. A token is
young, due for renewal (less than three days left) or expired; tokens live
equally long, so they age in the order they were minted. The client belongs to
one process: a second one in another terminal is left out.

## 4. Runs

| Run | Bounds | Shows |
| --- | --- | --- |
| `faulty` | 1 command, 1 client, 3 faults of any of the 9 kinds, up to 3 control events and 2 outputs | `LogInOrder` (one start, output after it, one exit), `NothingSkipped`, and that `Commands` implements `CommandLife` (at most one run, of claimed work only, one resolution) |
| `calm` | 2 commands, 1 client, 2 faults of five kinds, up to 2 events and 2 control events | `ReconcileSparesWork`, `ExitIsLast`, `RunningIsHeld` |
| `live` | 1 command, 3 faults of the same five kinds | `EveryCommandResolves`, `CancelResolves` |
| `lost_lease` | 1 command, 1 fault | the answer to a claim is lost: `EveryClaimResolves` fails |
| `roles` | 1 channel, 3 aliases, 2 requests, 2 calls in flight, both races | `ChannelHasAdmin`, `TokensExplained`, `DecisionIsFinal`, `ApprovalAdmitsOnce` |
| `recovery` | 2 channels, 2 aliases, 1 request, 1 call in flight, late polls | `RowsHaveMembers`, `ChannelRecovers` |
| `follow` | 4 events, 3 faults, 2 failures until a follower gives up | `NoLostWakeup`, `PrintedInOrder`, `NeverOrphaned`, `FollowerReturns` |
| `files` | a push and a pull of one path, 2 faults of any of the 6 kinds | that `Files` implements `TransferPromise`, `OncePerService`, `OnlyFaultsOrphan` |
| `shells_faulty` | 1 session, 2 inputs, 3 control events, 3 faults of any of the 11 kinds | `ShellHungUp`, and that `Shells` implements `ShellPromise` |
| `shells` | the same, 2 faults of eight kinds | `ResolvedIsOver`, `RunningIsHeld`, `CloseResolves`, `InputArrives` |
| `daemon` | 2 terminals, 3 supervisors, 2 faults, no race | `OneSupervisor`, `PidfileNamesSupervisor`, `DebrisClears`, `StopEnds` |
| `credentials` | 1 terminal, the renewal thread, 2 identities, 3 tokens, 1 fault of any of the 4 kinds, every setup | `CredentialsMatch`, `EndsForAReason` |

Every passing run of a module also checks its type invariant once.

Why the bounds are enough. No two commands share a row, a worker or a program;
they meet in a client's control log, its set of active work, and a pass of the
reaper or a reconcile. So one command with many faults finds the races for a
record, and two commands with two faults those over the shared lists: a swap
that meets work takes two, for the stream breaks before the reconnect is
refused. That a reconcile stays with its own client's work is proved for any
number of clients (`ReconcileSpares`) and not run. Three faults make the longest
story the code defends against: a lost request, a crash and a late request. A
cancel needs one more control event and a repeated cancel another. In `roles`
three aliases make two admins and somebody to be admitted; two calls in flight
make every race of two handlers, and requests are used once, so two of them are
enough for a request that is decided while another is polled. In `follow` the
code's limit of six failures is two: the count matters only in that it is reset
and compared. Four events are output before and after the exit event with two
resumptions between. Sessions share nothing but the client's log and list of
work, which `calm` checks for commands; two inputs show order and gaps. In
`daemon` two terminals make every race of starts and stops, and three
supervisors one that dies, one that follows and one that must not be there. In
`credentials` three tokens are an old one, its renewal and that of a join in
between; a fourth begins the same story again.

`live`, `shells` and `calm` have the kinds of faults the code is written for and
not those that break its promise: crash, swap, disconnect, lost_request and
lost_reply, in `shells` also spawn_error, pty_full and short_write. They are told
apart in `Faults`; `faulty` and `shells_faulty` have them all, for what holds in
spite of all of them. `recovery` is without `late_register`, `daemon` without
`stale_unlink`; section 7 says what these break.

In `recovery` one request is enough for `ChannelRecovers`, because `JoinAgain`
makes the channel active as often as anybody likes, and the property has as its
premise that this stops (section 5).

Commands, transfers and sessions may end in a state with nothing left to do, and
nobody has to start an ended client or daemon again, so these runs do not look
for deadlocks; `Membership` and `Streams` have none, for
somebody can always join or be authenticated, and other records always change.

## 5. Fairness

Weak fairness of what threads and timers do whenever they can:

- the hub handles a request (`uvicorn` runs the handlers), a generator goes on,
  the reaper and cleanup loops run periodically (`app.py:130-185`);
- clocks advance: timeouts pass, and a dead client becomes stale;
- a client that runs reconnects (`run_forever` loops with a bounded back-off)
  and reads its stream; workers go on and repeat their exit report
  (`_post_terminal_event` loops until it is shut down);
- a program ends no later than `timeout_sec`. `CancelResolves` does without
  this; `EveryCommandResolves` has it as its premise;
- a keepalive timer fires;
- the thread of a session goes on: it starts its shell, takes what is queued,
  notices a close and reports the end until the hub has it. `CloseResolves` and
  `InputArrives` have `DrainsEnd` as their premise: no program that the shell left
  behind writes to the pty for ever, for the drain after the shell's end does not
  look at a close (`runtime.py:207-215`);
- `ChannelRecovers` has as its premise that at some time people stop asking to
  join the channel, for every request counts as activity (`store.py:1364-1369`);
- a command that has been started goes on to its end, a supervisor that has got
  a signal handles it, and a placeholder grows old. `DebrisClears` has as its
  premise that somebody starts the daemon again and again.

None for: initiators (creating, cancelling, typing, joining, deciding, starting
or stopping a daemon), `Restart` (no one has to restart a client), `Heartbeat`,
faults, and the threads that a swap leaves behind (nothing makes such a thread
go on or end). No strong fairness is used: each of these steps, once it is
possible, stays so until it or a fault is taken, and faults are finite.
`credentials` is a safety run and has no fairness; that the renewal thread tries
in time is a guard of `Expire` (two tries in the three days before the expiry;
the code makes twelve).

## 6. Proofs

The eight proof modules hold for all constants: every number of commands,
clients, channels, aliases, requests, followers, transfers, paths, sessions,
terminals, supervisors and tokens, every set
of faults or races, every bound. They assume what the modules assume of their
constants (the named `ASSUME`s); a theorem that needs the absence of a fault or
race has it as a hypothesis of its statement.

Commands. `TypeOK` is not inductive. `TypeInv` adds that events in flight are
in the control log (their command is known) and that a worker that reports has
an outcome. Each action has a lemma, and `TypeNext` combines them.

- `TerminalFinal`: `RecordStep` lists all that can happen to a record in one
  step: nothing, created, claimed, reported on, or a set of open records
  resolved. `RecordSteps` shows that every action is one of these; a resolved
  record has no step that changes it.
- `OneExit`: `ExitOnce` is inductive relative to `TypeInv`, by the same list:
  only a resolution appends an exit, and it makes the record terminal.
- `LogOrdered`: that output follows its start in the log needs to know what the
  reports on their way say (`OrderOf`): a command that no worker has spawned has
  no report on its way or logged, a start is on its way at most once and then
  not logged, output is on its way only after the start was logged, and a worker
  that executes has its start logged or on its way. `LogStep` lists what a step
  does to reports and log. The theorem holds with late requests, for a worker
  whose report failed posts nothing but its exit.
- `AtMostOneRun`: `RunOnce` needs `RunInv`: a worker that holds a claim or
  executes is one of a started record, a started record is no longer queued
  (so no second claim is granted), and a worker between claim and spawn has
  run nothing. `WorkStarted` is what a lost or late claim could break.
- `LifeImplemented`: `LifeStep` maps every step to one of `CommandLife` or a
  stutter, with `started` for `claimed` and the count of exit events for `exits`.

Delivery (`DeliveryProofs`, about `Commands`) follows a control event from the
hub's log to the worker, and the worker's requests back.

- `WorkerInv` and `OneReconcile`: a thread waits on one request, of the kind
  its stage sends, and stays in `cancels` until it ends; a client waits on one
  reconcile. They need that the log names a client's own, created commands
  (`LogShape`), or a second thread could be started for somebody else's command.
- `NothingIsSkipped`, under every fault. `NothingSkipped` speaks of the state;
  inductive is that whatever lies behind `Last-Event-ID` was taken by the client,
  and behind the cursor of an open stream is in flight otherwise, for the start
  of each queued
  command and the cancel of each executing one (`StartsTaken`, `CancelsTaken`),
  and that these are in the log (`Logged`). Taking the oldest event in flight
  first is what keeps it true.
- `ReconcileSpares`, when no request is handled after its sender gave up
  (`NoLateRequests`): what a reconcile fails is not executed, or only by a
  thread that outlived a swap. `OnTime` says that then every reconcile is one
  somebody waits for, so it is handled before the next event is dispatched, and
  `ListCovers` that its list has every worker of the client's present service.
- `ExitLast`, when also no heartbeat fails (`NoOutages`): a client with a worker
  is not stale (`Fresh`), so neither reconcile nor reaper resolves a record that
  is worked on (`WorksOnRunning`), and the worker's exit request comes after the
  answer to its last report.
- `RunningHeld`, without late requests, lost claim answers and lost reconciles:
  `RunningIsHeld` is inductive with the invariants above. A claim that is
  granted finds its worker waiting (`GrantedStep`); a worker leaves a running
  record only when its exit report is answered, which resolves it, or when its
  process dies or swaps its service, and then the client is down and lists
  nothing (`LeavingStep`); the connection that follows puts a reconcile on its
  way that does not list the command, and handling it resolves the record
  (`UnheldStep`). Without any one of the three hypotheses TLC finds a
  counterexample (a lost reconcile needs a crash or a swap before it, so two
  faults).

Membership.

- `AdminAlways`: `ChannelHasAdmin` alone is not inductive: approving a request
  in a channel without members would create a channel with a plain member.
  `RequestsHaveMembers` excludes it: requests die with their channel.
- `TokensAlwaysExplained`, and from it with `NoNewUnbound` and
  `RequestsHaveMembers`, `NothingLeft`.
- `DecisionsFinal` and `AdmissionNeedsApproval` are action properties whose
  step lemmas use type correctness only.
- `RowsInChannels`, when a token lives from its check to the row (no
  `late_register`), and with late polls: the row goes to a channel whose token
  works then, which has members because one without members has no tokens left
  (`ChannelLeavesNothing`), whatever the client id is; and only the deletion of a
  channel, which takes its rows along, leaves it without members.

Streams.

- `TypeInv` adds that whoever has not given up has failures left. `LogGrows`
  says once what every step makes of the log - it grows, events stay where they
  are, a growth is owed a notification - and the other proofs cite it.
- `WakeupsArrive`: `NoLostWakeup` speaks of waiting generators only;
  `NoticeDue` says at each of the three places before the wait what has moved
  the version since it was read. Reading the version before the events is what
  makes it inductive.
- `FallbackWorks`: a closed stream or a fetch means a resolved record
  (`EndsResolved`), and no step takes the end back.
- `PrintsInOrder`: what is on the wire continues what the follower has got, up
  to the generator's cursor (`Continues`), and only a follower that is done has
  got a terminal event (`PrintsOn`).

Files.

- `TypeCorrect` needs to know that a worker waits for one request only: every
  transfer is in the log once (`OnceInLog`), and one that has a worker lies
  behind `lastId` (`Dispatched`), so a service does not dispatch it again. The
  same facts give `OnceForService`.
- `RecordStep` lists what can happen to a transfer in one step; `ResolvedFinal`
  and `OneResult` follow from it.
- `SuccessLanded`: a success on the network or about to be sent already means
  that the file has landed (`SuccessOnItsWay`).
- `PromiseKept`: `RecordsPromise` maps the steps of `RecordStep`, `LandedStep`
  those that complete a file. That nothing lands while its record is queued
  needs `Announced`: a worker past its file.started finds the record out of the
  queue.

Shells.

- `TypeCorrect` needs that what is under way fits where the thread is.
- `PromiseKept`: the steps are mapped to `ShellPromise` as in Commands. That
  input arrives in order and once needs to know that the log holds a session's
  start before its inputs (`StartFirst`) and these in order (`InputsInOrder`),
  and that what is queued continues what is written (`QueueFollows`), up to the
  client's place in the log, while the thread serves the session; and for the loop
  of a swapped service that what it has left does too. What a short write drops is
  in `cut` on both sides of the mapping.
- `HungUpAlways`, `ResolvedOver`, `RunningHeld` name for each place of the
  thread what the pty, the record and the list of active sessions are there.
  `HungUpAlways` names every pty that stays open without a thread of the present
  service: loops of a swapped one and `abandoned`. The other two speak of the
  threads of the present service and have the faults they cannot bear in their
  statement.

Daemon.

- `PidfileOwned` and `SupervisorAlone`, for runs without the race: `OwnInv`
  says that a start that has reserved the pidfile, or the supervisor it has
  forked, is the only one, that what a judge has found stale is stale still,
  and that a supervisor before `WritePid` stands behind the placeholder.

Credentials.

- `PairsMatch`: `CredentialsMatch` needs `SaveMatches`, the same of what a
  writer is going to save, and that what the hub has minted for a renewal is
  for the owner of the old token. The comparison with the saved token makes the
  two meet. No property of the temporary file is needed: whoever's text is
  renamed, it is somebody's.
- `StaysEnrolled`, when the thread tries twice or more before a token expires
  (`RetriesSuffice`; the code tries twelve times). `EndsForAReason` follows from
  `Enrolled`: as long as nobody is evicted, no two writers overlap and none puts
  an old token back, the saved token is valid and the thread has failed to renew
  it at most as often as an answer was lost. It needs that a young token has not
  been tried (`TriedWhenDue`), that what is saved is a new token or what is
  saved already (`SavesNew`, `SavesAgain`) and whole (`SavesWhole`), that a
  token under renewal does not expire (`ThreadInTime`) and that a client once
  refused keeps no token that works (`RefusedForGood`). With `Checks = 1` TLC
  shows a lost answer ending the client.

Out of the prover's reach, and only model-checked: all liveness, which needs
fairness and `ENABLED` - `EveryCommandResolves` and `CancelResolves`,
`ChannelRecovers`, `FollowerReturns`, `OnlyFaultsOrphan`, `CloseResolves` and
`InputArrives`, `DebrisClears` and `StopEnds`. Every other property of a passing
run is stated by a theorem. The theorems `TerminalFinal`, `OneExit`,
`AtMostOneRun`, `ResolvedFinal`, `OneResult`, `SuccessLanded` and `NothingLeft`
state facts that no run checks by itself, because a refinement or a stronger
property of a run covers them.

## 7. Where the code and its words differ

`lost_lease` has a run: SKILL.md:140 wants every claimed command to reach a
terminal status. If the answer to a granted claim is lost, `_run_command`
catches only `ValueError`; the thread dies with its key in `_command_cancels`,
every reconcile lists the command as active, heartbeats keep the reaper away,
and the record stays running as long as the client lives. A shell session whose
claim answer is lost stays running in the same way.

The others were met while modelling. Where the name of a fault or race is given,
adding it to the constants of the named run shows the difference.

Hub and client:

- A reconcile that timed out at the client and is handled after the next claim
  fails work that runs (tests/test_review_fixes.py:214 says such work is
  untouched): `calm` with `late_request`, `ReconcileSparesWork`.
- service.py:558-559 wants the reconcile to tell the hub which work this client
  is really executing. The one after a credential swap (client/main.py:66-90)
  lists the new service's work, which is none: the hub fails the commands and
  sessions that threads of the old service go on executing, while their programs
  run on. `ReconcileSparesWork` excepts these threads (`stray`); without the
  exception it fails in `calm`, after a break and a swap.
- README.md:221 says a removal revokes the alias's tokens. An approved request
  that is polled after the removal mints a new one (store.py:409, `late_poll`);
  `TokensExplained` therefore counts approved requests.
- cli/main.py:798 says nothing is lost. Output and exit that are committed
  between the generator's query for events and its query for the record
  (app.py:231) are not sent; the follower falls back to the record and prints
  no output.
- store.py:1226-1229 says the reaper fails running work of a client that is
  gone. It does not look at file transfers, so one whose client dies after
  file.started stays running; `OnlyFaultsOrphan` excepts it.
- When heartbeats fail for longer than the offline limit, the reaper marks a
  session `client_lost` whose shell runs on, and a later close of it does
  nothing: `shells` with `outage`, `ResolvedIsOver`.
- `openpty`, `Popen` and `on_started` come before the `try` of
  `handle_shell_session` (runtime.py:157-171): if `Popen` raises, both ends of the
  pty stay open; if shell.started cannot be posted, the pty and the shell stay
  (`abandoned`, excepted in `ShellHungUp`).
- The result of `os.write` to the pty is ignored (runtime.py:180): of an input
  it took a part of, the rest is dropped, and the next input follows (`cut`).
- After the shell's end its output is drained until there is none
  (runtime.py:207-215), without a look at the close: a background job that keeps
  the pty and writes on holds a closed session open. `CloseResolves` and
  `InputArrives` fail without their premise `DrainsEnd`.
- The loop of a shell that a swap left behind stops only when it has something
  to post or its shell ends: until then the pty stays open, though the hub has
  resolved the session (excepted in `ShellHungUp`).
- `late_register`: a stream request that passed the token check before the last
  member left inserts a client row for the deleted channel (app.py:361); cleanup
  goes through `channel_members` and never finds it, and the alias stays taken
  in every other channel (README.md:279 says stale client records go).
  `RowsHaveMembers` fails in `recovery` when `Races` has it.
- The hub does not compare the client id of a stream or of events with the alias
  of the token (app.py:359-375, store.py:508-526). After a rejoin under another
  alias the running client goes on under its old id, and its row stays when that
  alias is removed: rows of a channel are not always rows of its members, which
  is why `RowsHaveMembers` says less.
- Whoever asks to join a channel counts as activity of it, even if nobody is
  left who could decide (store.py:1364-1369): requests that come in for ever
  keep a dead channel for ever. `ChannelRecovers` fails without its premise.
- One alias joins two channels before either machine connects: both pass the
  check of store.py:335, and the second machine's stream is refused for good.
- A restarted or swapped client whose one reconcile is lost keeps the reaper
  away from what the dead process left running (`lost_reconcile` in `Faults`).
- An accepted connection resets the failures of a follower (cli/main.py:815), so
  with endless accepted and silent connections it never gives up.
- A restarted client gets the file.push events of finished pushes again and
  writes the files again; so does the process after a swap, where threads of the
  old service may be writing the same file at that moment. A push reported as
  succeeded has been written to its end, but such a second writer may tear the
  file again.

Daemon and credentials:

- cli/main.py:1137-1138 says the exclusive open keeps two `join --daemon` from
  both spawning a supervisor. Two that read the same stale pidfile can: the
  second unlinks the reservation that the first has made after its own unlink
  (`daemon` with `Races = {"stale_unlink"}`, `OneSupervisor`).
- The supervisor's own unlinks do not look whose pidfile it is; the pidfile's
  name has the alias, so a rejoin under another one allows a second supervisor.
- After a reboot another process may have the number in the pidfile: a start is
  refused, or a stop signals a stranger.
- If the log cannot be opened after the reservation, the placeholder stays until
  it is old.
- config.py:73-75 says a reader never sees a half-written file. All writers
  share one temporary name: one may rename what another has just truncated, or
  write on into what has been renamed. The configuration is then empty or does
  not parse; a supervisor ends, or reads it again every ten seconds for ever
  (`"overlap" \in faults` in `EndsForAReason`).
- The comparison and the save of a renewal are two steps (main.py:374-379): a
  leave in between is written over and its revoked token comes back. The daemon
  then restarts its client with it until it expires. The early save of a `join` by
  somebody who is enrolled (main.py:437-439) compares nothing at all: what was
  renewed or saved since it loaded is replaced by what it has loaded (counted as
  `overlap` in `EndsForAReason`).
- `_load_renewed_credentials` loads the default path, whatever `--config` says
  (README.md:219), and compares tokens, not identities: after a rejoin the
  running client goes on under its old name with the new one's token.

## 8. Not modelled, and why

The client's failure streak, its status file and the unusable-stream flag (the
give-up they lead to is a fault of `Credentials`), the environment refresh and
the back-off of the supervisor: no step of another actor depends on their
values. Deleting a record while a client works on it, and the restart of control
sequence numbers after an eviction: `Membership` and `Commands` are not
composed, for their product is out of TLC's reach. That an open stream is not
checked again after an eviction until it reconnects is left out with it.
Argument parsing, printing, the landing page, logging and id generation hold no
state that the properties speak of.
The batch form of `apply_client_events` is one event per request, for the
client of this repository never sends more.
