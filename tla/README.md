# Verification of pipeferry

pipeferry joins a Unix-domain socket in WSL to a Windows named pipe. On Linux
`pipeferry unix-listen` accepts connections and starts one bridge process for
each of them; the bridge process, `pipeferry.exe npipe-connect`, runs on
Windows and copies its standard streams to and from the pipe. This directory
holds TLA+ models of the parts that run concurrently, keep state outside a
process or have rules of their own for what they write, the TLC configurations
that check them on small instances, and proofs of what holds for every size.

Paths below are relative to the repository (`src/`).

## Inventory

| Part | State it keeps | Operations | Met by |
|---|---|---|---|
| stream copy, `internal/streamcopy` | results channel, `sync.Once` of closeAll, two goroutines, a timer | `Duplex`, `copyDirection`, `IsNormalError` | exec bridge, named pipe client |
| exec bridge, `internal/execbridge` | child process, its three pipes, childCtx, wait goroutine, stderr goroutine | `Serve` with its callback `closeAll` and its stderr goroutine, `expectedExit` | one goroutine per connection of unix-listen |
| unix-listen, `internal/cli/unix_linux.go` | listener, semaphore, wait group, signal context, exit code | `runUnixListen`, `finishConnections` | systemd, clients |
| socket path, `internal/unixsocket` | the socket's name, the lock file's name, the lock | `Listen`, `Cleanup`, `Inspect` | unix-listen, status, service |
| status, `internal/cli/unix_linux.go` | none | `runStatus` | socket path |
| named pipe client, `internal/namedpipe`, `cli/npipe.go` | pipe, standard streams, dial context | `Run`, `NormalizePath`, `--check` | exec bridge (other end) |
| service manager, `cli/service_linux.go` | unit file, systemd's view of it, socket and lock files | install, status, uninstall | systemd, socket path |
| unit rendering and quoting, `cli/service_linux.go` | none (pure), the unit's text | `renderServiceUnit`, `quoteSystemdArgument`, `readUnitSocketName`, the validations | service manager, systemd |
| doctor, `cli/doctor.go` | the checks made, one process at a time with its pipes | six checks, `limitedWriter` | child executable, SSH agent behind it |
| dispatch and exit codes, `cli/run.go`, `errors.go`, `cmd/` | none | `Run`, `run`, `exitCode` | all commands |
| child executable resolution, `cli/executable_*.go` | none | `resolveChildExecutable`, `resolveServiceChild` | unix-listen, service, doctor |
| logging, build info | none | formatting | all |
| install and uninstall scripts | installed files | shell and PowerShell | user |

How the parts interact:

- `runUnixListen` takes a slot of the semaphore, accepts, adds to the wait group
  and starts a goroutine which calls `execbridge.Serve`, gives back the slot and
  leaves the wait group. A second goroutine closes the listener when the signal
  context is done. It is the only user of `unixsocket.Listen`/`Cleanup`.
- `Serve` starts the child and calls `streamcopy.Duplex` with the connection on
  the left, the child's stdout and stdin on the right, and a callback `closeAll`
  which cancels the child's context, closes the connection and the child's
  stdin. It then waits for the child, and kills it after five seconds.
- `npipe-connect` calls the same `Duplex`, with its standard streams on the left
  and the pipe on the right.
- Two processes meet at a socket path only through the file system: the name of
  the socket, the name of `path.lock`, and the lock on the inode behind it.
- The service commands meet the listener through systemd, and through
  `unixsocket.Inspect` and the files the listener leaves.

- `service install` renders the unit file; systemd reads its `ExecStart` line and
  expands it, and `service status` and `uninstall` read the socket's name back
  from a comment line of the same file.
- `doctor` starts the child that `unix-listen` would start, with `--check` and,
  when asked, with one request of the SSH agent protocol on its standard streams.

What is hard, and the properties that make each part correct:

- *stream copy*. Two goroutines, a cancellation and a timer race for two
  selects. Results must be the true account of a direction, a nil error must
  mean both directions ended well, closeAll must run once and in time, the call
  must return, and no goroutine may stay behind.
- *exec bridge*. The child may exit, close its streams, or leave a process that
  inherited them; the client may half-close, close, or stop reading; the caller
  may cancel; and closeAll itself kills the child. No response may be cut short
  by the shutdown, nothing may be left behind, the error must name a real cause.
- *unix-listen*. Slots and wait-group counts must match the goroutines on every
  path of the loop; the limit must hold; an exit must be clean, also the one after
  an accept error; a signal must end the process; a queued client must be served.
- *socket path*. Starts, stops, crashes and probes interleave at single system
  calls. One manager at a time, no file of others removed, a serving socket kept,
  nothing left by a stop, a start never turned away without a cause.
- *service manager*. Several steps, each able to fail, on three copies of the
  same fact (file, systemd, socket), with a restart loop running beside it.
- *named pipe client*. The dial races with its deadline; closeAll closes two
  handles one after the other, and neither need interrupt what it meets as the
  Unix side would. The exit code must say how far the command came, a success
  must be a clean one, an ended stream must end the process.
- *unit file*. Three readers of one text with three sets of rules. An argument
  must come back as it was given, a name must not leave its directory.
- *doctor*. Each process may stall, die or leave another behind on any of a dozen
  ways through the exchange. None may stay unreaped, nor anyone at the pipe that a
  check waits for; the verdict must be about everything asked for, and the command
  must end.

## Modules

| Module | Models | Used by |
|---|---|---|
| `Duplex` | `streamcopy.Duplex`, the two peers being the environment | `MCDuplex`, instanced by `ExecBridge` |
| `Connection` | the contract of `execbridge.Serve` as the listener may rely on it | refined by `ExecBridge`, part of `UnixListen` |
| `ExecBridge` | `execbridge.Serve` with its client, its child and a process the child leaves | checked directly |
| `UnixListen` | `runUnixListen`, `finishConnections`, one goroutine per connection | `MCUnixListen` |
| `UnixSocket` | `Listen`, `Close`, `Cleanup`, `Inspect`, one system call at a time | `MCUnixSocket` |
| `ServiceManager` | `service install` and `uninstall`, systemd, the listener it restarts, a rival listener | `MCServiceManager` |
| `NamedPipe` | `npipe-connect`: `namedpipe.Run` and the command around it | checked directly, instances `Duplex` |
| `UnitFile` | what install accepts, resolves and writes, and what is read from it | `MCUnitFile` |
| `Doctor` | `runDoctor`, its checks and their processes | checked directly |
| `Cli` | exit codes, `exitCode`, which system has which command | `NamedPipe`, `Doctor`, `UnitFile` |
| `DuplexProofs`, `ExecBridgeProofs`, `NamedPipeProofs`, `UnixListenProofs`, `UnixSocketProofs`, `ServiceManagerProofs`, `DoctorProofs`, `UnitFileProofs` | theorems about the modules they are named after | |

`MC…` modules hold the definitions a configuration needs and nothing else. A
definition commented as *variant* is a version of the definition below it with
one mistake; no specification uses it. It shows that a property can fail.

### Duplex

A payload is a number of chunks, because the code never looks into one. A
direction `l2r` or `r2l` has a `source` (how much was sent, how it ends), a
`sink` (open, broken pipe, other error), and a `copier`, the goroutine in
`copyDirection`: it reads a chunk, writes it, and on an error sends one entry on
`results`. An error is "nil", "normal" (non-nil, accepted by `IsNormalError`) or
"failure". The coordinator's `pc` is the select it is at; `received` holds the
entries it took or made up. `closeOnce` is the callback through `sync.Once`. What
the callback interrupts is a pair of constants, since it is the caller's code, and so
is which closed handles may answer with an error `IsNormalError` does not know
(`OddReads`, `OddWrites`): those of a Unix connection, a pipe or a file never do,
those of the Windows pipe library do.
The `Result` is `ResultErr`, `ResultReason` and `ResultBytes` of the two entries.

### ExecBridge

Instances `Duplex` on its own variables, so each action of Duplex is a step of
`Serve`'s call, and the client and the child replace the environment. `serve` is
the position in `Serve` outside that call, `child` and `exit` the process,
`heir` a process that inherited the child's standard streams, `scan` the stderr
goroutine, `err` the class of `Result.Err`. `StartChecks` and `Start` are the two
halves of `command.Start`, which looks at the context and then forks. `WaitReaps`
is `command.Wait`, which closes the child's stdout on our side; it comes after
`Duplex` has returned, as in the code. `KillDelivered` is the SIGKILL that
`CommandContext` sends. `ClientCloses` follows Linux: a Unix stream closed with
unread bytes is reset.

### UnixListen

`main` is the position of `runUnixListen` (acquire, accept, finish, unwind,
cleanup, exit), `slots` the length of the semaphore channel, `wg` the wait
group, `phase` a client's way from the backlog to the last `defer` of its
goroutine. A call of `Serve` takes the steps of `Connection`, instanced per client
(`Session`), so the listener is checked against everything that contract allows, and
`ExecBridge` is shown to keep it. `Accept` may fail at any time and for any reason
(`AcceptFails`), which ends the listener unless it is stopping anyway: nothing in the
code prevents that, so no property does more than say what holds after it. The
kernel's backlog is a queue.
`Ends` is the end of the process: the kernel closes what it held and resets the
queued connections, children live on.

### UnixSocket

Each start of a listener is a process that runs once. `path` is what the socket's
name means, `lockPath` the inode that `path.lock` names, `holder` the process
that locked an inode, `fd` the inode a process has open. Between any two system
calls another process may run, be killed, or probe. This distinction of names
and inodes is what makes the removal of the lock file delicate. `Refuse` stands
for the returns before the first system call that anyone else could see: a mode
that lets others in, a directory that is not private, a lock file that does not
open. `Dial` of a live socket may fail, as it does when the backlog is full
(`DialsFail`). `Put` is another program that puts a regular file, another user's
socket or a live socket of its own at the path, at any moment at which nobody answers
there; `looked` records which listeners have looked at such a file since it came.

### ServiceManager

`unit` is the unit file, `loaded` what systemd has read, `ran` what the running
listener was started with: three copies of one fact. `pc` is the next step of a
command or its exit code. A systemctl call may fail before or after systemd has
acted (`Calls`). The listener takes lock and path in two steps; it may die at any
time, and `AutoRestart` is `Restart=on-failure`. `Reboot` is `wsl --shutdown`:
the runtime directory is empty afterwards. `disable --now` of a unit whose file
is gone may succeed without stopping anything, which is what
`runSystemctlAllowMissing` accepts. Each of the looks and removals of
`removeOwnedServiceFiles` may fail, and so may its dial of a live socket, which it
then removes as stale (`DialsFail`).

### NamedPipe

Instances `Duplex` like `ExecBridge`; stdin is the left source, stdout the left
sink, the pipe the right of both. `run` is the position in `Run` outside the
copy, `deadline` the timer of the dial, which goes on beside everything that
follows, `dialErr` and `err` classes of errors. closeAll is two steps: `Coordinating`
closes the pipe with the step of Duplex that calls it, `CloseStdin` closes stdin,
and Duplex's second select comes after both. What closing stdin does to a Read in
progress depends on what stdin is, so `stdinClose` is chosen once: it interrupts
the Read (a file with deadlines), ignores it, or waits for it. Stdout is never
closed. The pipe's own error for a closed handle is odd in the sense of `Duplex`.

### UnitFile

A text is a sequence of symbols, one per character, except that the keys of the
unit file, the words `pipeferry`, `pipeferry.exe` and those of the command line that
install adds are one symbol each; `Characters` are the letters that no rule mentions.
`quoteSystemdArgument`, `renderServiceUnit`, `validateSocketName` and
`readUnitSocketName` are operators of the same names; a key of a line is found by its
position (`Keys`, `Value`). `Words`, `Expanded` and `ExecStart` are systemd's rules for
quotes, C escapes and specifiers, as its manual gives them; `Loaded` is its refusal of
an executable whose path has a quote or a backslash. Whatever goes through a
text symbol by symbol, `strings.ReplaceAll` and `strings.Join` as much as systemd, is
a `Fold` of a function of the state and the next symbol. The behaviour is that
of an install: validate, resolve the executables (which may bring back any path),
validate again and render, then a reader. Somebody may edit the file first.

### Doctor

`checks` are the checks made so far, the current one being the next of `Planned`;
`at` is the position within it. There is one process at a time: `proc`, `exit`,
`open` and `heir` (which of its pipes it has open, and which a process it left),
`deadline` (the check's context), `sent` (of its answer), `noise` and `kept` (its
stderr and what `limitedWriter` passes on). The pipe that a goroutine of `os/exec`
drains is called the output: stderr in the agent's check, stdout and stderr, which
are one pipe, in the child's. Wait waits for its end (`OutputEnded`) and for nothing
else of an heir. `draining` is that goroutine, which stops at the first Write that
reports less than it was given (`Reports`). `GiveUp` and `AgentEnds` with
`at = "failed"` are the Kill and Wait of each of the four error returns.

## Runs

| Run | Shows | Bounds |
|---|---|---|
| `duplex` | results are the truth, byte counts of an error-free return are exact and never too high otherwise, closeAll once and in time, the call returns, no goroutine stays once both sources are closed | `MaxChunks` = 1 |
| `exec` | the same with real peers, plus: nothing is left behind, a response is not cut short, every error has its cause, a cancelled call ends, an ended stream ends the call; `Serve` implements `Connection` | `MaxChunks` = 1 |
| `listen` | slots and wait group match the goroutines, the limit, exit 0 leaves no session and no child, every exit but a kill leaves neither socket nor lock, a signal ends the process, a queued client is served if sessions end | 3 clients, 2 slots |
| `socket` | who manages the path holds its lock alone, a serving socket is kept, a file of others is kept by everyone who has looked at it, nothing is left by a stop, "already running" has a cause | 3 starts, 2 probes, five kinds of initial path, three kinds of file that others put there later, as often as they like |
| `service` | a success that ran alone means what it says, whatever was left half done before; a second try after a failed uninstall does too; a unit is replaced only with `--force`; a registered service comes back after a death and a reboot | 2 commands, 2 configurations with a socket each, 1 fault, one rival |
| `npipe` | exit codes tell how far the command came, a success is a clean transfer, `Duplex` is driven by its rules, an ended stream ends the process unless stdin cannot be closed | `MaxChunks` = 1 |
| `doctor` | every process is reaped by the end of its check, and nobody then has the output pipe that Wait drains; the verdict covers everything asked for; stderr is kept up to the limit and drained beyond it; the command ends unless a process left behind or `cmd.exe` keeps it | `KeepCap` = 1, `NoiseCap` = 3 |
| `unit` | every argument comes back from the unit file, the socket's name too, unless systemd refuses pipeferry's own path, and an edited file leads nowhere else | one character, 4 absolute paths; names and arguments of up to 3 symbols of 10, 2 behind the socket's prefix, pairs of arguments of 1 |

The bounds are small and chosen so that the cases happen. One chunk per
direction tells "nothing", "in the goroutine's hands" and "written" apart, and a
second chunk repeats these. Two slots and a third client make the semaphore full
with a client waiting. Three
starts are what it takes to have two listeners at work on two lock files, and two
probes to have one meet another. `DialsFail` is FALSE where a counterexample must not
owe itself to a full backlog (`socket_live_removed`, `service_socket_removed`). A service that exists at
the beginning and two commands give three in a row. `MaxFaults` bounds deaths
and reboots together. Three symbols are enough for an escape of an escape, a
specifier after a quote and `..` with something beside it; the quoting works
symbol by symbol and looks ahead at most two. A `NoiseCap` above `KeepCap` lets a
write end below, at and across the limit. Where the system may come to rest
(everything returned, all clients gone) deadlock is not checked.

### Where the code and its documents differ

Each of these is a run in which the named property, taken from a document, is
violated.

- `exec_cancel_open`: when the context is done before the child is started,
  `Serve` returns and nobody closes the connection.
- `socket_lock_race`: `Cleanup` unlocks and then removes the lock file by name.
  With a third start two listeners hold "the" lock, on different inodes. What does
  hold in `socket` is `ManagersHoldLock`, one manager for each inode, and
  `ServingSocketKept`, which therefore has the hypothesis that all managers hold the
  file that bears the name.
- `socket_live_removed`: a start whose dial another program's live socket answers
  gives up with "already running", and its `Cleanup` removes that socket.
- `service_socket_removed`: an `uninstall` that overlaps an `install` removes the
  socket of the listener just started, which goes on running without one.

More are visible in the models and are not runs of their own:

- README.md:101 and docs/requirements/260720-pipeferry-requirements.md:31-33 say that
  a regular file, a directory or another user's socket is never removed. The code
  looks before it removes, and removes by name: a file that comes to the path between
  `Lstat` (133) and `Remove` (151) of `prepareSocketPath`, between those of
  `removeOwnedSocket` (189, 202), or before the listener's `Close`, which unlinks its
  path by name (165, 172), is removed. `OthersFilesKept` says that these windows are
  the only ones: whoever has looked at such a file leaves it alone.
- Any error of `Accept` ends the listener and cuts its connections short
  (unix_linux.go:120), a passing lack of descriptors included.
- A client that closes with unread bytes resets the connection. `IsNormalError`
  does not accept ECONNRESET, so a plain close is logged as a failure
  (`ClientCloses` of `ExecBridge`; README.md:197 counts it as normal).
- A client that closes while the child takes no input is not noticed, since the
  only goroutine reading the connection is blocked in its write: `Serve` then ends
  only with a cancellation (`CancelEnds`) or when the child acts.
- `Inspect` tests the lock by taking it. A start at that moment exits with 7, though
  no other listener exists; `AlreadyHasCause` admits a probe as the cause. Two probes may
  take each other for a listener in the same way.
- `install` accepts any listener that answers at the path. With one started by
  hand there it may report success while its own service never serves;
  `InstallHolds` excepts a rival.
- Two overlapping installs may replace a different unit without `--force`:
  `ForceNeeded` excepts commands that overlap. An uninstall that is tried again
  after the unit file has gone leaves the files of a killed listener in place, since
  it no longer knows their name; `RetryHolds` promises nothing about them.
- The pipe library reports an operation on a closed pipe by an error of its own.
  An ordinary end of stdin may so become exit code 6; the converse, a failed
  transfer with exit code 0, is excluded (`SuccessIsClean`). When closing stdin waits
  for a Read nobody answers, `npipe-connect` does not end; `EndNoticed` names that
  as its one exception.
- An error of `pipe.Close` after a successful `--check` is none of the three named
  errors, so it ends with the code of wrong usage.
- A child argument that begins with `%t/pipeferry/` has its `%t` expanded, though an
  argument is to be kept as it is (`Runtime` in `ArgvSaved`;
  docs/requirements/systemd-user-services.md:144).
- `doctor --connect-timeout` does not bound `cmd.exe`, nor a child that leaves a
  process with its stdout or its stderr behind (`Ends`). One that it leaves with stdin
  or stdout alone outlives the agent's check, and `doctor` itself
  (`NothingLeftBehind` is about the pipe that Wait drains).
- With `--ssh-agent` the exit of the agent's child has no part in the verdict, which
  rests on its answer; that of the child's own check is known by its record only, its
  process having been replaced (`VerdictSound`).
- `doctor --json` whose output cannot be written ends with 1 whatever the checks said
  (`Report`), where README.md:140-141 gives 9 for any failure.
- `install` accepts a pipeferry whose own path has a quote or a backslash. systemd
  refuses such a path, so the service never starts (`ArgvSaved`); the path of the
  child is an argument to systemd and may have both.

## Fairness

- Go runs every runnable goroutine and fires its timers: weak fairness of the
  coordinator, of the main goroutine, of each connection's goroutine, and of the
  copying except for a `Write` that the peer would have to take.
- The kernel delivers SIGKILL and ends a pipe when its last holder is gone.
- `UnixListen` assumes of `Serve` that a cancelled call closes its connection and
  that a child is killed then. `ExecBridge` shows that such a call ends
  (`CancelEnds`).
- systemd restarts a failed service, and a listener that is started gets on.
- A dial ends once its deadline has passed (go-winio honours the context), and the
  goroutine of `npipe-connect` and its copies run, except for a `Write` to a stdout
  that nobody reads. `doctor` runs, its timers fire, SIGKILL ends a process.
- Nothing is assumed of clients, children and users. `QueuedIsServed` therefore
  has the hypothesis `SessionsEnd`; without it a client that never leaves keeps
  its slot.

## Proofs

`TypeOK` of each module that has a proof module, and `ImplementsDuplex` of
`ExecBridge`, are proved for every size and are therefore properties of no run, but
for `TypeOK` of `UnitFile`, which says more than types.

The theorems hold for every value of the constants that satisfies the module's
`ASSUME`. Each proof module defines an inductive invariant `IInv` (`UInv` in `UnitFileProofs`)
and shows that it holds initially, that each action preserves it, and that it
implies the properties.

- `DuplexProofs`: `TypeCorrect`, `ResultsAreTruthful`, `CloseAllRunsOnce`,
  `NilErrorIsClean`, for any `MaxChunks` and any closeAll. The types carry
  themselves, thanks to the guard on the channel's room. For the rest `IInv`
  joins them with `ResultsTruthful` and `CloseAllOnce`: that no direction is
  accounted for twice is kept because whoever has an entry in the channel or in
  `received` is done, which is part of an entry being truthful. `CleanReturn` is
  then a fact about states: an error-free return holds two genuine entries, they
  are truthful, and of different directions.
  `CountsAreNeverTooHigh` needs one lemma more, that an entry made up on a
  cancellation or the timer claims nothing, so that overwriting a true count by it
  lowers it.
- `ExecBridgeProofs`: `RefinesDuplex`, `TypeCorrect`, `LeavesNothingBehind`,
  `KeepsItsContract`, `ResponsesAreComplete`, `ErrorsHaveCauses`, for any number of chunks. The
  refinement comes first, because it carries Duplex's theorems over: each client's
  and child's action is a step of Duplex's environment or none, and the close in
  `command.Wait` is allowed since Duplex has returned. It needs `Ends` (the child's pipes
  end in order, and a reset comes only with the client's close). Then `Shut` (what is closed at each
  position of `Serve`), `Progress` and `Errors` are kept together; they give types,
  `NothingLeftBehind` and the refinement of `Connection` (`ImplementsConnection`): the
  contract's `Reap` asks for a closed connection, which `Shut` provides once Duplex
  has returned. `Causes` follows an error back to the source, the sink or
  the cancellation it came from, `Response` and `ErrCauses` draw the conclusion.
- `NamedPipeProofs`: `TypeCorrect`, `RefinesDuplex`, `ExitCodesHaveCauses`,
  `SuccessesAreClean`, for any number of chunks and every behaviour of a closed
  stdin. `RunOK` ties pipe, dial error and position together, `Progress` and `Errors`
  tie the class of the error to the result of Duplex, `NeverCanceled` says that
  the context given to Duplex is never done, and `Delivered` that an entry with a
  nil error has seen the end of its source.
- `UnixListenProofs`: `TypeCorrect`, `SlotsAreMatched`, `LimitIsKept` and
  `ExitIsClean`, for any finite set of clients and any limit. The steps of a connection
  are those of `Connection`, which `KeepsItsContract` shows `Serve` to take. Slots and wait group are cardinalities of
  sets of clients, so the proof needs lemmas on what one client more or less does
  to them. `IInv` adds `SessionsMatch` (what a goroutine's phase says about its
  session, so that a slot is given back only after the child is reaped),
  `OkMeansIdle` (exit code 0 is decided with nothing counted, and nothing is
  accepted afterwards) and `FilesMatch` (cleanup has run before the process exits
  other than by a kill).
- `UnixSocketProofs`: `TypeCorrect`, `LockIsExclusive` (`ManagersHoldLock`),
  `OthersFilesAreKept`, `ServingSocketIsKept`, `AlreadyIsTrue` and `NothingIsLeft`
  (`NoResidue`), for any number of starts and probes. `IInv` adds
  `HoldersBusy` (a lock is held only by a listener at work or a probe about to give
  it back, so a free one is free), `LockersReady` (who is about to lock has the
  file open), `OthersUntouched` (a listener that has looked at somebody else's file is
  on its way out, past every removal) and `ServingListens` (who serves accepts
  connections, so others do not take its path). Whoever removes a socket manages the path,
  and by the lock it is the owner. `NothingIsLeft` has an invariant of its own,
  `Residue`: each name has an owner that is still to remove it, or that was killed or
  turned away before it could. It needs nothing of the lock, so the race about the
  lock file leaves no litter.
- `ServiceManagerProofs`: `TypeCorrect`, `ForceIsNeeded`, `InstallsHold`,
  `UninstallsHold` and `RetriesHold`, for any commands, configurations, paths and
  number of faults. `IInv` adds `OverlapKnown` (commands
  that run together are marked) and `WriterHasLooked` (an install on its own that
  is about to write has found no unit or its own). The second needs the first: only
  a command that runs at the same time could change the unit file in between.
  What success means needs a second invariant, `CInv`. `Installing` and `Uninstalling`
  say of a command that runs alone what it has reached at each of its steps, in the
  form in which the listener's deaths, its restarts and a rival cannot undo it: after
  `restart`, for instance, the process was started with the new unit, or there is none
  and systemd is about to start one. A reboot needs no such care, since it ends every
  command. `NothingLeft` is for the second try: as long as no
  commands have overlapped, a unit file that is missing was removed after its service
  was switched off. `GoalKnown` tells the steps of install from those of uninstall,
  and `RivalKnown` keeps a rival that was never started from having a socket.
- `DoctorProofs`: `TypeCorrect`, `NothingStays`, `StderrIsBounded`, `VerdictsAreSound`,
  for every limit and every amount of stderr. `Where` says which position belongs to
  which check, `Clean` that a process exists at the positions between a start and
  a Wait and nowhere else, and that the output pipe is drained as long as anyone has it
  open (`PipesOK`): the end of the draining, which Wait waits for, is then the end of
  its writers. For the verdict, `ChecksTrue` says that each recorded
  success is justified by the state it left behind (`Justified`: the system, the
  code of the process, the answer), and claims nothing of a process
  that a later check has replaced.

- `UnitFileProofs`: `TypesHold`, `ArgumentsComeBack` (`ArgvSaved`) and `NamesAreKnown`
  (`NameKnown`), for any characters and for names, paths and arguments of any length.
  `UInv` is the easy part: what was let through before it is used (`Accepted`,
  `Checked`), that the child begins with an absolute path (`Resolved`), and that the
  file is the rendered one until it is edited (`AsRendered`). The rest are facts about
  all texts. They need induction, and the library states it for an operator
  `P(_)`; here it is a fact about a set (`SeqSets`: a set of sequences that has the
  empty one, and each member with one more symbol, has all), which follows from the
  least member of a set of numbers (`WFMin`). By it, `Fold` has the solution that
  its recursive definition describes and a symbol more is a step more (`FoldAppend`);
  a substitution goes through two texts one after the other (`ReplacedConcat`), so
  the three of `quoteSystemdArgument` together write each symbol in its own way
  (`BodyAppend`); systemd's reader, within quotes, makes of what was written for a
  symbol that symbol (`ReadMark`), of an argument a word (`ReadWritten`), and of a line
  the list of its arguments with `%` still doubled, which the expansion undoes
  (`WordsBack`). Between the file and its lines stands that no value brings a line
  end with it: the rendered text has exactly three (`Ends`), each key is found once,
  and its line ends where its value does (`KeysFound`).

Every invariant, action property and refinement that a run checks and the code keeps
is proved as well. Only model-checked, because the prover has no rules for fairness
and ENABLED, are the liveness properties: `Terminates`, `NoLeak`, `CancelEnds`,
`EndNoticed` (of `ExecBridge` and of `NamedPipe`), `SignalExits`, `QueuedIsServed`,
`ComesBack` and `Ends`.

## Not modelled

- the end-to-end bridge, the two copies in series. Each half is checked against
  every environment: the child of `ExecBridge` writes, closes and dies as it likes,
  and so do the holders of the standard streams in `NamedPipe`. `npipe-connect` is
  one such child and `Serve` one such holder, so every property of the halves holds
  of the pair. What is not stated is a property of both at once, such as a request
  arriving at the pipe server;
- `service status`: it reads and prints; the name it reads is in `UnitFile`, its
  `Inspect` is the probe of `UnixSocket`. `requireSystemdUser` reads three facts about
  the system and fails or does not, before anything has changed;
- flag parsing of `unix-listen` and of the service commands, `ResolvePath`, printed
  forms, logging and build information: no state. Of a missing directory that
  `ensurePrivateDirectory` creates only the refusals are kept;
- install scripts: downloads and file copies;
- in `ServiceManager` a unit file is only which configuration it is, its text being
  `UnitFile`'s; `MaxConnections` across several listeners; the kernel's backlog as a
  number.

To check everything by hand:

    tlc -workers 2 -config MCDuplex.cfg MCDuplex
    tlc -workers 2 -config ExecBridge.cfg ExecBridge
    tlc -workers 2 -config MCUnixListen.cfg MCUnixListen
    tlc -workers 2 -config MCUnixSocket.cfg MCUnixSocket
    tlc -workers 2 -config MCServiceManager.cfg MCServiceManager
    tlc -workers 2 -config NamedPipe.cfg NamedPipe
    tlc -workers 2 -config Doctor.cfg Doctor
    tlc -workers 2 -config MCUnitFile.cfg MCUnitFile
    tlapm DuplexProofs.tla
    tlapm ExecBridgeProofs.tla
    tlapm NamedPipeProofs.tla
    tlapm UnixListenProofs.tla
    tlapm UnixSocketProofs.tla
    tlapm ServiceManagerProofs.tla
    tlapm DoctorProofs.tla
    tlapm UnitFileProofs.tla
