# Magus in TLA+

A verification development of **Magus**, the package-build cluster of the MidnightBSD mports tree
(`src/Tools/magus`, `src/Tools/lib/Magus`). Machines take jobs from a shared PostgreSQL database, run each
job in a forked worker inside a chroot, write a verdict and upload a package. The rest of the repository
describes thousands of ports and the make text that builds one of them; Magus is the part with
concurrent processes, shared state and failures, so it is the part modelled here.

## The system

| Part | State | Operations | Talks to |
| --- | --- | --- | --- |
| Database (`schema.sql`) | `ports.status`, `port_phase_results`, `depends`, `locks` | single statements, AutoCommit | everybody |
| Slave daemon (`slave/magus.pl`), one per machine | `%Children`, `$Children`, `@DeadChildren`, `%WorkerIDs`, signal dispositions | `main`, `start_child`, `process_dead_children`, `get_current_run`, `kill_children`, the SIGCHLD handler | database; forks and reaps workers |
| Lock (`Lock.pm`) | rows (port, phase, machine), unique (port, phase) | `get_ready_lock`, `_get_lock`, delete | database |
| Port (`Port.pm`) | a row of `ports` and its closures | readiness queries, `_set_result`, `reset`, `*_depends_closure` | database |
| Worker (`App/Slave/Worker.pm`), one process per lock, with an inner child for make | place in the phase | `run`, `run_phase`, `run_make_phase`, `insert_results`, `run_scan_phase`, uploads, SIGINT handlers | database, package store, chroot |
| Administrator (`delete_lock.cgi`, `reset_port.cgi`) | none | delete a lock, reset a port | database |
| Index and runs (`Index.pm`, `Run.pm`, `update_cluster.pl`) | a run, its ports and dependencies | `sync`, `latest`, `is_empty` | database |
| Chroot (`Chroot.pm`) | a reference tree and its checksum; per worker a root with markers and mounts | `new`, `_clean`, `delete`, `mark_dirty` | daemon, worker, file system |
| PortTest, OutcomeRules | a make log | run make and judge its log | worker |
| bless (`bless/magus-bless.cxx`) | `index.db`, `runs.blessed` | select the ports to publish, list them with their dependencies, mark the run | database, package store |
| distcheck (`distcheck/distcheck.cxx`) | the directory of files to give away | copy what may be given away, list what may not | database, file system |
| web pages | none of their own | read the tables of a run | database |

`PROJECT.json` lists every part, the ones that are not modelled too, with the reason.

What is hard in this code:

- nothing larger than one statement is atomic, and the interesting operations take several: select a ready
  port and insert its lock; write a build's verdict in two tables; reset a port;
- readiness is looked at once, and only for direct dependencies, before a build that takes hours and
  installs a whole closure;
- a worker dies in many ways (exception, lost connection, signal, power), and the daemon knows only an exit
  code, which is 0 for most of them;
- the daemon shares its books with a signal handler that runs between any two of its operations;
- administrators delete locks and reset ports whenever they like;
- a chroot is reused for years across kills, power failures and new bootstrap tarballs, and three small files and
  the mounts are all that tells in which state it is;
- a run is released by programs that ask the tables several times, over hours, while the cluster changes them.

What makes it correct: one worker per port and phase; what is built stands on what is built; the two records
of a verdict agree; no lock and no phase is left behind for ever; a daemon that is told to stop leaves nothing
running behind the locks it clears; in the end every port has a verdict. A build starts in a whole and unused copy
of the current bootstrap. The index of a blessed run hangs together, and no file is given away that may not be.

## Modules

| Module | Models | Extends |
| --- | --- | --- |
| `MagusDepends` | the depends table and the three closures of `Port.pm` | |
| `MagusDB` | the tables, readiness (`ready_ports` and the queries of `Port.pm`), the statements that write | `MagusDepends` |
| `MagusSlave` | the daemon: claim, fork, bury, stop, crash, restart | `MagusDB` |
| `MagusWorker` | the worker and its inner child | `MagusDB` |
| `Magus` | the cluster: daemons, workers, administrator; the properties | `MagusSlave`, `MagusWorker` |
| `BuildQueue` | what the cluster promises: an abstract queue of jobs | |
| `MagusInv` | the inductive invariants | `Magus` |
| `MagusProofs`, `MagusDependProofs`, `MagusTableProofs` | theorems about the cluster: types, locks and stops; dependencies; the rows of the tables | `MagusInv`, each other |
| `MagusQueueProofs` | that the cluster implements `BuildQueue` | `MagusProofs` |
| `MagusRuns` | the end of a run: `is_empty` and `refresh_completed_runs` beside the cluster | `Magus` |
| `DependsWalk` | the recursive walks of `Port.pm` step by step, against the closures | instance of `MagusDepends` |
| `WalkProofs` | that they return the closures | `DependsWalk` |
| `MagusTables` | what the release tools read, with `BuildQueue` as their environment | instance of `BuildQueue` |
| `MagusBless`, `MagusDistcheck` | the two release tools | `MagusTables` |
| `MagusRelease` | their composition with the cluster, and its properties | both |
| `MagusReleaseProofs` | theorems about it | `MagusRelease` |
| `MagusChroot` | the chroots of one machine (cpdup variant) | |
| `MagusChrootProofs` | theorems about them | `MagusChroot` |
| `MagusSignals` | one daemon down to its signals, and its move to a new run | |
| `SignalsProofs` | theorems about it | `MagusSignals` |
| `MCMagus`, `MCRuns`, `MCSignals`, `MCRelease`, `MCWalk` | instances for TLC | |

### The cluster

*Data.* `status` is `ports.status`, `phase` is `port_phase_results.status`, `pkg` the package files on the
server, `locks` and `job` the rows of `locks`. A member of `Jobs` is the id of a lock row together with the
worker forked for it, because the daemon forks exactly one worker per row; an id is reused once nothing refers
to it, so `Jobs` bounds the rows alive at a time and not the length of a behaviour. The dependency types the
code tells apart are `fetch` and `test`; `build` stands for the rest.

*The daemon* is at a place `at[m]`: `top` (dead children first), `fill` (a slot is free), `insert` (a port has
been selected), `fork` (the lock is there), `forked` (the worker runs and is not yet in `%Children`), `asleep`
(no slot is free; nothing but a signal ends this) and `overslept` (the signal came before the sleep),
`reset`/`resetStatus`/`unlock` (burying one worker), `told` (a signal to stop has come and `$Children` was not 0),
`kill` (the workers have their SIGINT, `waitpid` is polled), the sweep of `kill_children`, `down`. SIGTERM is taken
between any two of these. In `forked` it does not see the worker (`Counted`), since only SIGCHLD is blocked there: the worker is
neither killed nor waited for and goes on without a daemon. Between `told` and `kill` the SIGCHLD handler may still
reap; if it reaps the last worker, `waitpid` has none to return and the loop never ends (`WaitForever`). `cand` is the selected port, `cur` the lock in hand, `lost` the worker ids
lost to failed forks. Selection and insertion are two actions since they are two statements, and insertion is
refused when the row exists (`InsertDuplicate`). A failed statement may or may not have been committed: both
cases are in `DaemonLostDB` and `DaemonLostInsert`.

*The worker* is at a place `pc[j]`: `start`, `prep`, `inject`, `make` (the inner child runs), `record` (the
inner child has written `ports.status` and not yet the phase row), `made`, `upload`, `uploadDist`, `done`;
`except`/`exceptRecord` write the verdict `internal`; `intReset`/`intResetStatus` are the SIGINT handler. It
ends as `dead0` or `dead6` by its exit code, or as `orphan` when the lock row is all that is left of it.

*Faults* are named (`exception`, `fork`, `db`, `kill`, `crash`, `term`, `termFork` for a SIGTERM between a fork and
its record, `wakeup` for a lost one, `reset`, `unlock`) and a constant says which may happen, so that every property is stated with the faults it survives.

*Init* is a run as `Magus::Index->sync` leaves it: ports are untested, or skipped in all phases, or failed for
want of a dependency.

### One daemon and its signals

`MagusSignals` refines what `MagusSlave` takes in one step: that a worker has exited. `proc` is the state of
each worker process (running, or exited and not reaped), `pending` a SIGCHLD that waits for its handler, `chld`
the disposition of the signal. Perl runs a handler between two operations, so `Reap` comes before the next
operation whenever a signal is pending and not blocked (`Step`); an exit under the default disposition leaves no
signal; `sleep` is interrupted only by a signal that arrives while it sleeps (`Pause` may come after the
signal). `get_current_run` is followed step by step, with the window in which SIGCHLD has its default action
and the `exec` that starts the daemon anew. Statements may fail at any time. `Faults` says what else happens: a
new run (`newrun`), a fork that fails and takes a worker id with it (`fork`, counted in `leaked`), a statement that is
committed although its answer is lost (`commit`).

### What the cluster promises, and who relies on it

`BuildQueue` has three variables, `status`, `pkg` and `taken`: a job is taken if nobody has it (`Take`), the
worker that has taken a build reports a verdict and delivers a package (`Report`, `Deliver`), a job is dropped
(`Drop`), and a verdict may be withdrawn at any time (`Withdraw`, which leaves the package). `Magus` implements it
with `taken` mapped to the rows of `locks` (`ImplementsQueue`): every step of a daemon, a worker, a fault or an
administrator is one of these or changes nothing that is visible. The sense of it is what it excludes: a verdict
or a package that changes without the build lock, and two changes in one step.

The release tools read exactly these tables. `MagusTables` takes `BuildQueue` as their environment instead of the
daemons and workers, which is sound because of that refinement, and lets the cluster do whatever the queue
allows between two steps of a tool. The verdicts are merged to the ones the tools tell apart, and only the build
jobs are kept.

*magus-bless* is at a place `bat`: `idle`, `create` (the old index is gone), `row` (the loop over the ports),
`depends` (a package row is inserted), `lists`, `commit`, `mark`, and `noIndex` when there is nothing to publish.
`packages` and `depends` are the rows of the transaction, `disk` what a reader of `index.db` finds, `omitted` what was reported
as left out, `skipped` the ports reported as skipped because the query for their dependencies threw (they stay in
`packages`), `c2` whether the second connection is open. It may fail anywhere and be started again.

*distcheck* copies (`copy`), one row of its first query at a time, then lists (`listed`). `Normal` is
`normalize_distfile_name` as a function from names to paths, with `Outside` for what `safe_relative_path` refuses;
`Base` the last part of a path. `Find` is a set, since the order of a directory walk is any order. The licenses
that restrict a port count as `restricted`.

Neither tool reads what the other writes, so a behaviour has one of them (`tool`), any number of times.

### Chroots

`MagusChroot` follows one machine over any number of starts, builds and failures. A tree is a version of the
bootstrap tarball, `Nothing`, or `Mixed` for everything that is not a whole unpacked tarball (half deleted, half
copied, or used by a build). The steps are the ones of `_create_reference_dir` and `_init_cpdup`; `rmtree` and
`cpdup` are two steps each, so that they can be interrupted, and since they take the files of a directory in any
order the marker files and `.checksum` may be there or not at that moment. `_clean` goes on only when nothing is
mounted any more; `delete` does not look, so some of the mounts may stay, the tree around them is gone in part, and the root
is synced again over what is left (`Delete`, `SyncDone`). A command fails (`die`), a process is
killed between two statements (`kill`; `killMarker` for the moment between the unlink of `.clean` and the creation of
`.dirty`, at `Chroot.pm:143` and `817`), the machine goes down with its mounts (`crash`), the tarball
is replaced between two starts (`replace`). After a new run the ports tree is replaced, so the loopbacks are
empty (`Stop`). `assert_workdir_empty` needs no action: in a whole tree the work directory is empty. `.dead` is
never written by anybody and is left out.

### Walks and runs

`DependsWalk` has the stack of loops of the recursive walks and the hash they fill. The hash is keyed by what a
port prints as (`pkgname`), which is a variable of the initial state together with the table and the kind of
walk. `MagusRuns` adds `update_cluster.pl` to the cluster: `CountLocks` and `AskReady` are the two statements of
`is_empty`.

### Abstractions

- `inject_depends` and the loop of `reset` over the phase rows are one step each: a worker that writes one of these
  rows in the middle of that loop is not exercised.
- Which of the ready ports is taken is any choice; the ORDER BY of the queries is left out.
- Events, logs, time stamps and distfiles are left out; an upload of distfiles changes nothing that is read here.
- A package file has no version: one left by an earlier build of the port counts as its package.
- The inner child ends together with its worker, except that it may be killed or lose the database alone; one that
  outlives its killed worker and still writes a verdict is left out (`Killed`).
- A second SIGTERM or SIGINT to the daemon during `kill_children`, and a SIGINT before the worker has installed its
  handler, are left out. So is a daemon that dies of an exception that is not about the database (`magus.pl:165`) and leaves
  its workers: a worker without its daemon comes from `forked` and from `term_two` here.
- In `MagusChroot` a daemon stops when its workers are idle (`Stop`), or the machine goes down; a worker that outlives its daemon and
  uses its root while the next daemon prepares one is left out.
- A tarball is only replaced by one that was never there before (`Replace`). Putting an older one back after an `rmtree` that was
  interrupted and left its `.checksum` would pass the test at `Chroot.pm:190` with a tree that is not whole.
- `cpdup`, `rmtree`, `mount` and `umount` are modelled from how `Chroot.pm` uses them.
- The order of `@DeadChildren` is left out: it is a set.

## What TLC checks

| Run | Instance | Shows |
| --- | --- | --- |
| `locks` | 2 machines, 1 port, 4 phases, 3 rows; exceptions, failed forks, crashes | `TypeOK`; `MutualExclusion`; `BuildRowAgrees`: outside a build `ports.status` and its phase row agree; `RunningIsLocked`: no phase stays `running` without a lock; `ImplementsQueue`: the refinement of `BuildQueue` |
| `single` | 1 machine with 2 workers, a port and its dependency, 3 rows; exceptions, failing statements, lost wakeups | `DependencyClosed`: a built port has its closure built; `DependsStable`: nothing injected into a build is rebuilt or withdrawn under it; `ReadyInstallable`: injection never finds that a port was scheduled too early |
| `term` | 2 machines with 1 worker each, 1 port; SIGTERM at any point, between a fork and its record too, resets by hand | `ToldAreDead`: locks are cleared only when whoever was told to stop is dead; `ChildrenExclude`: workers that have a daemon never share a job, whatever strays are left; `StopsWhenTold`: a daemon told to stop does, unless its last worker was reaped before it waits (liveness) |
| `settles` | 1 machine, a port and its dependency; killed workers, crashes, locks deleted by hand, lost wakeups | `SettlesAfterFaults`: once the faults stop, every port gets a verdict or has a failed dependency, or a daemon sleeps for ever because it lost the wakeup of its worker (liveness) |
| `signals` | 5 locks, 3 workers; failing statements and forks, lost answers, new runs | `TypeOK`; `LocksPassedOn`: a lock is handed on from `start_child` to `%Children` to `@DeadChildren` to its deletion, and forgotten only by a new start or by the `start_child` that died with it; `IdForEverySlot`: ids run out only by failed forks; `ReloadsIdle` |
| `release` | 2 ports, one needing the other, 4 distfiles (2 restricted, 1 tagged, 1 leading outside), any cluster steps; failures anywhere | `TypeOK`; `BlessedAccounted`: what is blessed is in a committed index or was reported; `DependsListed` and `DependsComplete`: the dependencies in the index lead to its packages, and none is missing but those of ports reported as skipped; `AuditCatches`: distcheck lists what its first query let through |
| `chroot` | 2 workers, 2 tarballs; failing commands, kills, crashes, new tarballs | `TypeOK`; `ReadyIsReference`: a worker is given a whole copy of the current bootstrap; `CleanIsWhole`: no interruption leaves a modified root that passes for a clean one; `SyncUnmounted`: cpdup never runs over the ports tree, and over another mount only in a root that `delete` has just emptied |
| `walk` | every table over 3 ports with at most one type per pair, 3 ways to print them, 4 kinds of walk | `WalkIsClosure`: the walks return the closures (and never more, when two ports print alike); `WalkEnds` (liveness) |

Each property has a mutant in `PROJECT.json`, a plausible mistake in the code under which TLC finds it violated
with the same bounds, so none holds for want of the interesting case.

Four runs show where the code does not do what it, or a comment in it, says:

| Run | Property violated | What happens |
| --- | --- | --- |
| `term_two` | `KidsDeadBeforeSweep` | `kill_children` waits for one child, not for all, before it clears the locks (`magus.pl:386`) |
| `lost_wakeup` | `CorpsesBuried` | a worker that exits just before `sleep` wakes nobody (`magus.pl:201`) |
| `empty_run` | `EmptyIsSettled` | a new run whose first fetch has not been tried has no build lock and no port ready to build, and is marked complete (`Run.pm:73`) |
| `restricted_copied` | `RestrictedStay` | the join of distcheck's first query lets both files of a port through that restricts two (`distcheck.cxx:206`) |

More was seen on the way. Each of these is a small change of a configuration away:

- `ReadyInstallable` fails in `MagusSingle.cfg` with the fault `kill`: a worker killed between its verdict and its
  upload leaves a passed port without a package (`Worker.pm:87`). A scan may start in the same window.
- `RunningIsLocked` fails in `MagusLocks.cfg` with the fault `db`: the inner child exits with 0 after a failed
  statement, and a fetch stays `running` (`Worker.pm:295`).
- A port may be locked, and tested again, after another machine tested it between the select and the insert
  (`Lock.pm:75`); the insert only sees that nobody has the lock.
- `MutualExclusion` and `KidsDeadBeforeSweep` fail in `MagusTerm.cfg`, with one worker per machine: a SIGTERM between the fork and the
  record of the child (`magus.pl:224`) finds `$Children` at 0, clears the lock of the worker just forked, and another
  machine takes the job while that worker is at it. Without the fault `termFork` both hold there.
- `at[m] \in Killing ~> at[m] = "down"` fails in `MagusTerm.cfg`: a worker reaped by the handler after the test at `magus.pl:374`
  leaves the `waitpid` loop (`magus.pl:386`) without a child to return, and it polls for ever.
- `SettlesAfterFaults` without its last disjunct fails in `MagusSettles.cfg`: a single lost wakeup (`magus.pl:201`) ends the
  work of a machine with one worker.
- A query for dependencies that throws is reported as "Skipping port", and the port is published all the same, without
  dependencies (`magus-bless.cxx:208`): `DependsComplete` without `skipped` fails in `ReleaseRuns.cfg`.
- `delete` leaves what it could not unmount, and cpdup then runs over it (`Chroot.pm:794`); the root is whole afterwards, if cpdup succeeds.
- `LocksKnown` fails in `SignalsRuns.cfg`: the move to a new run discards a worker that has just been reaped, and its
  lock stays (`magus.pl:348`). It fails for two more reasons: after a failed fork, and after an insert whose answer was lost, nobody knows
  of the lock (`magus.pl:194`, `148`). An exit while SIGCHLD has its default action (`magus.pl:316`) keeps the daemon from
  ever moving to the new run.
- `SyncUnmounted` fails in `ChrootRuns.cfg` with the fault `killMarker`, a process killed between the two statements of
  `mark_dirty` (`Chroot.pm:817`) or of `_init_cpdup` (`Chroot.pm:143`), and then, as the bootstrap tarball is replaced, `ReadyIsReference` and
  `CleanIsWhole` too.
- `fetch_depends_closure` follows dependencies of every type below a fetch dependency, `ready_fetch_ports` looks at the direct
  ones only: a port may be ready to fetch whose injection finds an unbuilt dependency and dies (`Port.pm:278`,
  `Worker.pm:142`).
- A root whose mounts failed half way (the ports tree is there, `/usr/src` or `/dev` is not) is taken for a ready one by the
  next worker (`Chroot.pm:133`).
- A second execution of magus-bless unlinks the index first (`magus-bless.cxx:405`); if it fails, the run stays
  blessed and has no index.

### Bounds

- *Jobs*: rows alive at the same time. Two machines with one worker each need two, and a third allows a row
  left behind by a crash, a failed fork or an unknown commit. `HasRoom` lets a daemon claim only while an id is
  free; it names this bound.
- *Slots*: one worker suffices where the machines compete, two where workers of one daemon do.
- *Ports and Depends*: one port shows every conflict over a job; a port and its dependency show every conflict
  between readiness, builds and verdicts. Longer chains and arbitrary graphs are what the theorems are for.
- *Verdicts* is `pass` and `fail` in `settles`; in the other passing runs it is `pass`, since only a passed port
  has uploads and dependents at work, and the verdict `internal` comes from the fault `exception`. The theorems
  cover every verdict.
- *Release*: two ports and one dependency between them have every order of publishing, and the cluster changes
  either between any two steps; the number of changes is not bounded. Two restricted files of one port are what the join of distcheck multiplies.
- *Chroots*: two worker ids, of which the daemon itself uses one at its start; two tarballs make one replacement. The
  number of starts, builds and failures is not bounded.
- *Walks*: three ports have chains, diamonds with the port itself, and circles of two and of three.
- *Kids*: two more locks than there are workers, so that a slot is filled again beside a lock nobody knows of.
- `SignalsRuns` and `SignalsWakeup` do not check deadlock: a daemon whose wakeup was lost sleeps for ever, which
  is what `lost_wakeup` is about.
- `WalkAll` does not check deadlock: a walk that has returned is over.
- *Symmetry* over rows and machines is used in runs of safety properties only.

### Fairness

`Magus`: weak fairness for each daemon and each process that can take a step. A worker waits for nothing without a time
limit (given that `MakeTimeout` is set, which arms the watchdog of `PortTest.pm`). `main` does, in the `sleep` of `magus.pl:201`:
`Wake` is enabled only when a worker has exited, so fairness gives the code no more than that signal. Whether the
signal comes too early is the fault `wakeup`; after it (`overslept`) only the exit of a further worker ends the sleep, and nothing is
assumed to. The endless `waitpid` loop is a step that changes nothing, and no fairness gets a daemon out of it. Both are `Stuck`, the
exception the liveness properties name. Weak fairness is assumed too for the restart of a daemon, which `start-magus.sh` does in
a loop. The removal of an orphaned lock is weakly fair too: no code does it, an operator with `delete_lock.cgi`
does, and without that assumption a crashed machine blocks its jobs for ever. Faults have no fairness.

`MagusSignals`: weak fairness for the daemon, the handler and the exit of every worker; strong fairness for
`Loop` and `Process`, whose statements fail again and again only if the database never answers. No fairness is
given to `Wake` from a sleep no signal interrupts, which is the point.

`DependsWalk`: weak fairness of `Next`; a walk is one sequential process that waits for nothing but its queries.

## What is proved

All theorems hold for any values of the constants that satisfy the named assumptions (`DependsAssumption`,
`MagusAssumption`, `SignalsAssumption`, `RunDependsAssumption`, `DistfilesAssumption`, `ChrootAssumption`,
`WalkAssumption`), which say only that the constants have the right kind.

**`TypeCorrect`** (`MagusProofs`): `Spec => []TypeOK`, under all faults. The invariant `TypeInv` adds that what a
process is about to use it has (`RefsOK`) and that the lock a daemon handles is its own and stays as it found it
(`CurOK`). Steps of workers are proved once to stay within a frame, `WorkerFrame`, which the later proofs use.

**`WorkersExclude`** (`MagusProofs`): `MutualExclusion` for any number of machines and workers, under every
fault but SIGTERM and locks deleted by hand (`LocksRespected`). `MutualExclusion` is not inductive; `LockInv` is:
whoever is alive, about to be forked or abandoned has a row (`RowsKept`), rows are unique per port and phase
(`UniqueRows`), and nothing of `kill_children` happens (`NeverTold`). Both excluded faults really break it:
TLC finds two workers on one job when a daemon with two workers is told to stop (the state of `term_two` leads
there) and when the lock of a living worker is deleted by hand.

**`KidsAreDead`** and **`WorkersExcludeStopped`** (`MagusProofs`): `ToldAreDead` and `ChildrenExclude` with SIGTERM at
any point, between a fork and its record too, for any number of machines with at most one worker each and every fault but
locks deleted by hand (`OneWorker`). `kill_children` waits for one child, which is all of them if there is one; the
proof is why there is one. `StopInv` says of each job (`JobOK`) that a worker with a daemon has its row, that a lock
without a worker is about to get it, and that who has been told to stop is alive and waited for; that a
machine has one such worker alive at most (`OneAlive`, by counting `%Children` against `Slots`); and that a daemon which kills
has one child left at most, one which sweeps or is down has none, and one which has just forked has no other
(`NoneLeft`). Nothing is said of a worker that lost its daemon in the window of `magus.pl:224`: it may be alive, and it may share a job with
a worker of another machine. With two workers even the workers told to stop may outlive the sweep (`term_two`).

**`BuiltIsClosed`** and **`BuildIsStable`** (`MagusDependProofs`): `DependencyClosed` and `DependsStable` on one
machine (`OneMachine`) with any number of workers and any dependency graph, if ports are not reset by hand
either (`PortsRespected`). The argument is `DependInv`: call a port *held* while somebody may still write its
status (a build lock, or a worker that lost the database and has not been reset for good), and *solid* if it is
built and not held. Whatever is built or held has only solid dependencies (`BuiltOnSolid`); a port selected for a
build still has when its lock is inserted (`CandSolid`), because the only daemon is the one that selected it; and
a dead worker keeps its row until its port has been reset (`DeadOK`). The closure follows because the built
ports are then closed under dependencies, with no induction over the walk. With two machines `CandSolid`
fails: the other one may have selected the dependency before it was built, and locks it again afterwards.

**`RunningRowsLocked`** and **`BuildRowsAgree`** (`MagusTableProofs`): `RunningIsLocked` and `BuildRowAgrees` for any
cluster whose workers get their statements through (`StatementsHold`: no lost database, no killed worker, and
`LocksRespected`), the second one if ports are not reset by hand either. A worker writes its own phase row and, for a
build, the status of its own port (`WorkerOwnWrites`), so unique rows keep workers off each other's records.
`RunningInv` says that a running phase has a lock whose worker has yet to write its verdict (`RunningOwed`); every way to
the end of a job passes a write. `RowsInv` says that a build between its two statements writes the
same verdict twice, and that one past its last write has rows that agree (`WritesAgree`). TLC refutes both properties on
the instance of `locks` with any of the faults `db`, `kill` and `unlock`, and `BuildRowAgrees` with `reset` and `term` as well, since
a reset is two statements itself and takes no lock.

**`ReadyCanInstall`** (`MagusTableProofs`): `ReadyInstallable` on one machine, if ports are not reset by hand and no
worker is killed between its verdict and its upload (`UploadsHold`). `PackInv` adds packages to `DependInv`: a solid
port has its package (`SolidPackaged`), because one job at a time holds a port (`OneHolder`) and lets go of it only
when the package is up, the verdict is a bad one (`Uploaded`, `InternalFirst`), or the port was reset (`ResetFirst`).

**`ClusterIsQueue`** (`MagusQueueProofs`): `Spec => ImplementsQueue` under `LocksRespected`, so for any cluster on
which no daemon is told to stop and no lock is deleted by hand. Besides `LockInv` it takes `QueueInv`: only a
build is at the places where a verdict is recorded or a package uploaded (`BuildUploads`), and its row is in
`locks` there. With rows unique, taking and deleting one of them is a `Take` and a `Drop`. This theorem is what
makes `BuildQueue` a fair stand-in for the cluster in `MagusRelease`; a sweep by a daemon that is told to stop, which the
theorem leaves out, writes `untested` and deletes rows only, and both are steps of the queue too, but a worker that survives it
(`term_two`) may then report without its lock.

**`ReleaseTypes`, `IndexIsClosed`, `IndexIsComplete`, `BlessedIsAccounted`, `RestrictedIsListed`**
(`MagusReleaseProofs`): the properties of the run `release` for any ports, dependencies and files. `ReleaseInv`
relates what a tool holds to the tables *at the start of its work*, up to the ports in `changed`: what is still to
do, in the index or reported are together the ports that were publishable (`SnapshotKept`); a dependency row was
publishable on both ends when it was read, so its ends are in that set or in `changed` (`DependsKept`,
`DependsLoaded`, which leaves out the ports reported as skipped); a copied file is still below the destination (`CopiesKept`).

**`ReadyIsWhole`, `CleanRootsAreWhole`, `SyncsUnmounted`, `ChrootTypes`** (`MagusChrootProofs`): for any number of
workers and tarballs, if no process is killed between two marker statements (`MarkersWhole`). `ChrootInv` says that
the reference tree is whole whenever its checksum is the current one and that it is rebuilt by the daemon only,
before it forks (`ReferenceOK`, which needs that a replaced tarball is a new one), and for each root (`RootOK`) that one with the ports tree mounted
has a marker, and is whole if that marker is `.clean` (`Marked`), and that one without markers which has anything else
mounted has no checksum either: `delete` has been at it (`Emptied`). So the order in which `_init_cpdup` mounts last and
`_clean` unmounts first is what makes interrupted syncs harmless: the markers alone would not do.

**`SignalsTypes`, `EverySlotHasId`, `TreeIsIdle`, `LocksAreHandedOn`, `NoLockForgotten`** (`SignalsProofs`):
`IdForEverySlot`, `ReloadsIdle` and `LocksPassedOn` for any number of workers and locks, failed forks, lost answers and new runs included; and `LocksKnown` as long
as none of these happens (`Faults = {}`), each of which breaks it. `SignalsInv` says that every worker id is free, counted, being forked or gone
with a failed fork (`BooksBalance`),
where SIGCHLD is blocked or ignored (`SignalMask`), that a lock in hand belongs to no recorded worker
(`LockAtHand`) and that `%Children` has exactly the processes there are (`ChildrenExist`).

**`WalkReturnsClosure`** (`WalkProofs`): `WalkIsClosure` for every table, every set of ports and every way to
print them. No induction over the table or over the recursion is needed. `WalkInv` says that nothing outside the closure is found
or waits in a loop (`StaysInside`), and that no row of the port asked or of a port found is lost: its
target is in the hash, or some loop still has it (`NoRowLost`). So when no loop is left the ports found are closed
under the rows that count, and the closure is the least such set. Namesakes matter in this last step only: a
key in the hash need not be the port the row leads to.

The inductive invariants were checked by TLC on the instances of the runs before they were proved.

Only model-checked: the liveness properties `StopsWhenTold`, `SettlesAfterFaults` and `WalkEnds`, since fairness and
ENABLED are out of the proof system's reach.

## Not modelled

The make text of `Mk/`, its shell scripts, the maintainers' tools and the ports themselves (sequential, or data);
the web pages that only read; the ftp helper, which prints commands from a table that is no longer there; the contents of scans and
of make logs; ZFS datasets and memory disks of chroots; the checkout and indexing of a new run; options,
configuration and logs. See `PROJECT.json` for the reason of each.

Most lines of this repository that look like a program are not one of its own: the C and C++ files below the
ports are patches and sources of other people's software that a port applies to it, half a million lines that
nothing here runs. The repository's own C++ is bless and distcheck (both modelled) and the ftp helper; its other logic is
the Perl of Magus, and make and shell text.

## Plan

Done: the cluster and its signals, the queue it implements, the release tools, the chroots, the walks, the end of
a run, and their theorems.

Next, in this order:

1. The implementation of `BuildQueue`, and `RunningIsLocked`, for daemons that are told to stop, from `StopInv`.
2. A second signal during `kill_children`, and a daemon that dies alone (`magus.pl:165`): workers without a daemon beside
   a daemon started anew, in `MagusSlave` and in `MagusChroot`.
3. The loop of `reset` row by row.
4. Packages that remember their build, so that a scan or a test of an outdated package can be told.
5. The ZFS variant of the chroot: snapshots and rollback, with the baseline refreshed at every start.
6. `dead_run` and `delete_run` beside a cluster at work, with `MagusRuns`.
