# A verification project for ReopenStep

TLA+ models of the parts of ReopenStep in which steps of several programs, or of
one program and its failing environment, can come in an order that nobody wrote
a test for. The modules are translated from the sources under `src/`;
`PROJECT.json` maps each definition to the lines it stands for.

Check a run with `tlc -config farm_safety.cfg MCBuildFarm.tla`, a proof with
`tlapm FarmProofs.tla`.

## 1. The system: an inventory

ReopenStep rebuilds OPENSTEP 4.2 installation media. A Python tool
(`rebuild.py`, `reopenstep`, `reopenstep_tool/`) composes and verifies images; a
Chameleon-based loader (BootE, `tools/chameleon/`) boots them; a farm of OPENSTEP
machines (`guest/farm`) compiles packages; a driver, a server and a framework
(`glide/rhapsody`) give 3dfx boards to Rhapsody programs; ReopenStep Workbench
(`apps/`) is a window in front of the Python tool.

| Component | State it keeps | Operations | Hard behaviour | What makes it correct | Model |
|---|---|---|---|---|---|
| Native build farm, `guest/farm` | the controller's job list and worker registry; the property list that holds both on disk; each worker's position in its loop | submitBuild, cancelJob, registerWorker, heartbeat, nextJobForWorker, finishJob, the 15 s reaper, start from disk | late results, heartbeats missed while make runs, worker deaths, controller restarts | one retry per job; complete means built; the file agrees with memory; jobs of dead workers come back | `BuildFarm` |
| Voodoo2 driver, server and Glide client, `glide/rhapsody` | the server's board table with owners, its mutex, the client's cache of mappings | probe, discovery, open, map, close, task death | the request loop and the cleanup thread; a client that dies while it is served | one process per board; no board lost with its owner; every call returns | `V2Server` |
| Workbench command runner, `apps/ReopenStepWorkbench` | running, exited and end-of-output flags, exit status, the window's status and button | run, cancel, read completed, task terminated | two notifications in either order; a launch that raises; a child that keeps the pipe | one report per command, last, with the task's status | `CommandRunner` |
| BootE handoff, `tools/chameleon/overlay/i386/libsaio/openstep_boot.c` | the configuration area, the driver records, the staging areas, the live boot information | system table, driver tables, table edits, sarld, link, publish | files missing or too large; a table area and a link area that fill up; fixed addresses | records tile the link area; tables stay whole and in their arena; the loader survives | `BootHandoff` |
| UFS image writers, `reopenstep_tool/ufs.py`, called by `cdis` and `patch4` | a working copy beside the output, the output | overlay, replace file, insert tree, replace tree | a tool that fails half-way, a process that is killed, two builds with one output | the output is the old image or a complete, verified new one | `ImageWriter`, `NextUFS` |
| QEMU boot tests, `boote_test.py`, `darwin_installer_test.py` | the QEMU process, the stage reached, the report, `latest.json` | start, capture, await, send keys, close | timeouts, QEMU that exits or hangs, two tests at once | no QEMU left behind; a report says what happened | `QemuHarness` |
| NeXT disk label, `nextlabel.py`, `nextlabel.c` | four label copies on a disc | checksum, parse, normalize, set root, update, patch; BootE's reader | 16-bit sums, two implementations that must agree | an updated label is valid to both readers and leads to the file system | `NextLabel` |
| Media assembly, `hybrid.py`, `disk.py`, `iso.py` | a disc under construction, the output | extract a UFS, wrap one in an El Torito image, master a hard disk | image builders that move files, a template of any shape, an earlier output | the label of a finished disc leads to a file system | `DiscAssembly` |
| Rebuild pipeline, `rebuild.py` | the work directory, the cached download, the output | stage, merge ten kinds of layers, build, overlay the label, validate | an interrupted download in the cache, a builder that fails or renames, a second run | the image is what the command line asked for, and usable | `RebuildImage` |
| Installation Composer, `composer.py`; Glide references and drivers, `glide.py` | sources, the reviewed recipe, temporary directories, outputs | plan, build, prepare a reference, stage a driver | sources edited under the command, two commands with one output, kills | a directory appears whole, once, and holds what was checked | `Publishers` |
| Media vault and recipes, `cli.py`, `manifest.py`, `profile.py`, `recipe.py`, `util.py` | the vault's files, `manifest.local.json`, a recipe | adopt, inventory, recipe | two adoptions at once, a copy killed half-way, files edited | what was adopted verifies, a recipe names what was compared | `MediaVault` |
| Image readers: UFS, `rdrufs.py`, `rhapsody.py` | the extracted tree; the probe's report | find the file system, read inodes, blocks and directories, extract, probe | holes, indirect blocks, rotated groups, two readers of one image | an extracted tree is the directory that was asked for | `UfsReader` |
| BootE source preparation, `bootstrap.sh`, `patch_source.py` | the clone, the work tree | clone, fetch, reset, checkout, some sixty edits | rerun after a kill, offline, edited by a user | every edit once, whatever was there | `SourcePatches` |
| Image readers: archives and disks (BigTar, El Torito, FAT, packages, floppies) | none across calls | parse and extract | truncated input | | not modelled |
| Patching of media, `cdis.py`, `patch4.py` and the like | none across calls | call the image writers, edit byte strings | | | not modelled |
| Guest scripts, `guest/`; boot media scripts, `tools/` | files of the guest or of a build directory | install, compile, call image tools | | | not modelled |
| Command line, configuration, emulators; Workbench windows | none across calls | parse arguments, start programs | | | not modelled |

How they interact: the operator's `rsfarm` and the workers call the controller
through Distributed Objects; the driver registers boards that the server
enumerates, the client calls the server by Mach messages and the kernel tells
the server of deaths; the Workbench starts the Python tool as a process and
hears of its end by notifications; `rebuild.py` and the assembly of media put a
label on a disc that BootE's C code reads; the vault's records go into the
recipes; BootE reads the images the Python tool writes, and the boot tests run
BootE in QEMU. The label's writer and its two readers are composed in
`DiscAssembly`; the other links between the host commands pass files, and every
other interaction is inside a model.

## 2. The plan

Order: by how much can go wrong in an order that a test does not reach.

1. `BuildFarm` (concurrent, persistent, timed), with the abstract
   `SliceLifecycle`, runs and proofs. Done.
2. `V2Server` (two threads, dying clients), runs and proofs. Done.
3. `CommandRunner` (callbacks), runs and proofs. Done.
4. `BootHandoff` (the loader's tables and link area), runs and proofs. Done.
5. `ImageWriter` over `NextUFS` (copies, failing tools, killed writers), run.
   Done.
6. `QemuHarness` (a process that hangs or exits), run. Done.

7. The host commands, one module each, composed in `HostTools` and checked in one
   run: `RebuildImage`, `Publishers`, `MediaVault`, `UfsReader`, `NextLabel` with
   `DiscAssembly`, `SourcePatches`. Done.
8. Proofs about the publishing commands, the vault and the boot tests. Done.
9. Proofs about the image writers (`ImageProofs`), the rebuild, the labels,
   the source preparation and the UFS reader (`HostProofs`), with the induction
   they need (`DataInduction`). Done.

Left:

10. The readers of archives, if one of them comes to keep state.

## 3. The modules

### The build farm

`BuildFarm` has the controller (`RSFarmController.m`), any number of workers
(`RSFarmWorker.m`) and the operator's two commands that change state
(`rsfarm.m`). The controller serves calls and its timer on one run loop, so each
call or callback is one action with everything it does, the final `save`
included. A worker is a program counter through its `main` loop: register,
heartbeat, poll, build, report; `assigned` and `outcome` are its locals. Time is
one bit per worker, `beat`: the last heartbeat is recent, or older than the 45 s
of `reapWorkers:`. It turns old while the worker is dead or disconnected, and,
when `SlowBuilds` allows, while it sits in a make. A worker's death and the
controller's restart may fall between any two steps; a restart reloads `disk`
and breaks the connections.

Job IDs are pairs (snapshot-target, architecture), because the code leaves the
project out of them, and need not be unique. A job keeps its project, and a worker
is handed both: it makes in the project's directory and reports by ID alone. A specification may name an
architecture that does not exist: as in the code, the slices before it are
appended and the call fails before `save`.

`SliceLifecycle` is what the farm promises of a slice: it waits, is out, or is
closed, and the one spare attempt is spent once. `FarmProperties` maps the job
list to it.

Abstracted: the content of results and logs, capabilities (workers advertise
all four architectures), the names' syntax check. `save` always succeeds. The
commands that only read are left out.

### The Voodoo2 boards

`V2Server` has the kernel driver's registration (`Voodoo2.m`), the server's two
threads (`V2Server.c`, `V2Server_main.m`) and the client library
(`macosxglide.m`). The request loop serves one message in the steps at which
another thread or a death can come between: receive and check the index, lock
and check the owner, map, record, reply. The cleanup thread takes a
notification and releases under the mutex. `mapped` is the kernel's own record
of which process has which board in its address space; it loses a process's
entries when that process dies. `notices` and `messages` are Mach queues,
`known` the clients whose port the server holds.

Assumed of Mach: a client's port name is not given to another task while the
dead client's notification is pending. Not modelled: PCI configuration reads
and writes, the reset flag (it is only logged), the stubs that do nothing.

### The command runner

`CommandRunner` has `RSCommandRunner.m` and the four methods of
`RSWorkbenchController.m` that start, cancel and hear of commands. Their methods
run on the application's run loop, one action each. The task and one child
that may inherit the pipe are processes of their own; `unread` counts blocks in
the pipe, and a read takes one or more. A launch may raise. Not modelled: the
panels that build arguments, and `dealloc`, which runs at exit.

### The handoff of BootE

`BootHandoff` has `prepareOpenStepBootStruct` and what it calls
(`openstep_boot.c`): the preserved kernel, the system's table, one step for each
driver's table, the edits, sarld, one step for each driver that is linked,
and the publication at `0x11000`. Every file may be missing, too large or refused,
and sarld may answer anything the code tests for. Addresses and limits are
those of the source; `OPENSTEP_DRIVER_LIMIT` is a constant, so that the limit is
reached with few drivers. `overwritten` is a history of the writes that hit
the running loader, whose place is that of `patch_source.py`.

A table is its length and whether it was cut; Mach-O headers are their extent.
`stage` says which file the staging area holds, because a read that fails with
a negative result passes the code's unsigned test and sarld is then called for
the previous file's bytes. Not modelled: the text of the tables beyond the edits
that change a length, the Rhapsody path, the video mode fields.

### The image writers

`ImageWriter` has the four programs of `ufs.py` that change an image,
`overlay_bigtar`, `replace_file`, `insert_tree` and `replace_tree`: choose, copy, one
step for each member or node, verify, rename. Each writer is a process; another
may publish between any two of its steps, nextufs may fail or write something
else without an error, and the writer may be killed and started again. `NextUFS`
is nextufs itself, which is not in the repository: an image is names that
point to inodes, and each subcommand yields the images it may leave, none if it
refuses. `read` is a history of the images a writer was asked to work on.

`PathAssumption` and `ImageAssumption` say what the constants are: paths come with
their directories before them, an image is a tree of names over inodes, a
hard link names a path, a node's place in the target tree is computed from its
path relative to the source root, so a directory keeps its entries and two
nodes never get one place (`ufs.py:308`), and trees are taken from images that are
nobody's output (sources are installation media, opened for reading).

`ImageProperties` says what each program means without nextufs: for every path
of the result, which member, node or old file it comes from and which other
names it shares.

### The boot tests

`QemuHarness` has `QemuMonitor`, `_capture`, `_await_terms` and the two drivers
`run_qemu_test` and `run_installer_test`, which differ in their plan: a sequence of
stages, each with its terms, what finding and missing it means, and the
commands that follow. QEMU is a process that shows screens, serves its
monitor's pipe late or never, hangs, exits, and dies of a signal; a hung one
may ignore the first. Time is a bound on screenshots in a stage, and waits that
may end before QEMU does. `shown` is a history of what the guest really showed.
The operator may interrupt the tool at any step. Within the `try` the `finally`
clause still closes QEMU and publishes the report that is there; before the `try`
(once `Popen` is under way) and within the clause nothing catches a
KeyboardInterrupt, `close` included: the tool ends as `aborted`, and QEMU stays if
it was not gone. `QemuIsGone` says that this is the only way to leave one.

Assumed: the operating system ends a killed QEMU within the last wait, and
writing the small report files succeeds; a stage waits for at least one term.
Not modelled: two tests with one output directory.

### The host commands

The tools below share no file while they run, so `HostTools` composes them by
interleaving nothing: a behaviour is one of one tool, with every other tool's
state unchanged. It holds the properties that speak of a tool's result; those
of the publishing commands and of the vault are in `PublisherProperties` and
`VaultProperties`, which the proofs extend.

`RebuildImage` is `main` of `rebuild.py`: resolve the boot image, get the Y2K image
(from the cache if anything is there under its name), stage, merge the layers in
the code's order, write the manifest, have an external builder make the image,
overlay the label, validate. A tree is a function from paths, sequences of names,
to files, folders and symlinks to directories, and `copy_tree` does with them what
`os.walk` and `shutil.copy2` do: a file whose path is a directory of the stage goes
inside that directory, symlinks to directories are not copied, and a directory over
a file, a file that lands on a directory once more, a link that dangles, or
a protected file under another end the run with an exception (`Raises`). What a builder
makes of the stage is given by `Layouts`, a block for every name of the root. The
cache and the output outlive a run, and the command is run again.

`Publishers` has `package plan`, `package build`, the two reference commands and the
driver command: check, bill of materials, take each item, compress, describe and
rename. `edit_source` may fall between any two of these; `made` keeps with each
directory whether its sources were edited meanwhile.

`MediaVault` has `media adopt` (check, copy, fill, read the overrides, write the one
temporary file, replace), the comparison of `media inventory`, and `image recipe`,
which compares and then writes. `kept` and `overlapped` are histories.

`UfsReader` is the reader of native UFS1 file systems: where a superblock may be,
the group of an inode and the rotation of its tables, twelve direct blocks and one
table, directories with free records, resolving of links, and the extraction of
a tree, which may be killed and started again; beside it the probe that calls an
image bootable. An image is given by its inodes, blocks and directory entries,
so that an error in an index reads another file's data. How newfs and the
kernel lay a file system out is stated beside it (`IsVolume`): the place of an
inode by group, block and rest, the blocks and the table a file has, a record in a
directory for every file. It is written without the reader's arithmetic: by the
remainders that an inode's number leaves and the bytes at each block, not by
division. `ReaderAssumption` says that every image is laid out like that and that a request
names an image and a path without `.` and `..`; TLC evaluates it on the
images of `MCVolumes`.

`NextLabel` has the label as the words that programs use, the checksum as `nextlabel.py`
computes it (one sum, carries folded at the end) and as `nextlabel.c` does (folded
at every word), and what each reader accepts; `newNeXTBVRef` is BootE's search for a
label, which tries four sectors and takes the first copy that names the sector it is in. `DiscAssembly` has `extract-ufs`, `wrap_ufs`
and `master_ufs_disk`, over image builders that place files where they like.

`SourcePatches` has `bootstrap.sh` and every edit of `patch_source.py`. A text is a
sequence of marks, one for each thing an edit looks for or brings; an edit that
does not find its text exactly once ends the run, as the code's `SystemExit` does.
The pinned texts of Chameleon are fetched and not in the repository: which marks they
have is a constant, and the instance builds them from the marks of the edits.

Three more assumptions name what the programs rely on: a label template has a field for
the porch and layers come in sequences (`RebuildAssumption`); a disc, its file
systems and the places a builder uses are no larger than a label can say, which
is what `write_be24` and `struct.pack` refuse, the copies of a label lie side by side and
before the file system, and a label file of full size is words (`AssemblyAssumption`); the files that are patched are tracked, `vers.h` is not
(`SourceAssumption`).

Left out of them: the progress log, digests in `rebuild.py`'s manifest and
`--keep-work`; the text of the info file and sizes in kilobytes; extractors that
fail on a whole image; reports that only print (`inspect_native_boot`,
`mastering_gap`, `label_candidates`); two preparations of one work tree, and a git
that was killed and left its lock.

## 4. What is checked

| Run | Instance | Shows |
|---|---|---|
| `farm_safety` | 2 workers that may crash, 1 controller restart, slow makes, resubmission, two projects under one ID, 2 jobs | retry budget, honest completion, a file that is never behind what was granted, refinement of `SliceLifecycle` |
| `farm_timely` | 1 reliable and 1 crashing worker, makes under 45 s, 2 jobs | one builder per slice, dead workers lose jobs, queued jobs settle |
| `farm_heartbeat` | as `farm_safety`, two snapshots, workers that do not crash, no restart | finding: a live worker is marked offline while it builds |
| `farm_orphan` | as `farm_timely` | finding: a job whose worker restarts within 45 s stays running for ever |
| `v2_boards` | 2 clients that may die, 2 boards | exclusive mapping, no lost board, a client library whose caches and counts are current, every call returns |
| `runner_reports` | 2 commands, 2 blocks of output, a child that ends | one report per command, the last thing shown: the task is over, its status is the one reported, and all output has been read |
| `boot_handoff` | 4 driver words, one of them invalid; tables of 4 and 24 KB in an area of 52 KB; 2 records | tables cut only at the end, records that tile, boot information that outlives the reads, a boot that always goes on |
| `boot_loader` | the same | finding: sarld's saved stack pointer lies in the loader |
| `image_writers` | 3 archives, 2 base images with and without hard links, then replace file, insert tree or replace tree; all faults | the output changes in one step to what was asked; the order never makes nextufs refuse; what was read back is right in the published image under all its names, and verification stops nothing else |
| `qemu_tests` | the matrix of 3 cases, the Darwin plan of 5 stages; 2 screenshots in a stage, interrupts at every step | no QEMU left unless the start or the closing is interrupted, honest reports and status, an end in every case |
| `host_tools` | one of seven commands; its instance is described below | what each reports as done is what was asked for; what it leaves under a final name is whole |
| `runner_cancel` | the same as `runner_reports`, a child that may stay | finding: Cancel does not free the runner |

Why these bounds are enough. Every rule of the farm concerns one job and the
workers that hold it or its ID: two jobs give two with one ID, two of one
submission, and a rejected prefix; a retry needs a first and a second holder,
so two workers; a restart may fall between any two steps, and a second one would
reload what the first loaded and saved. With two
boards and two clients a request for a free board, one's own board and another's
board can all meet a release. Two commands show the second one's reuse of
everything the first left. The system's table and two drivers' can fill the area,
the last one cut, the edits meet a full area, and the second record reaches the
limit; the smaller kernel leaves room for links, the larger one ends where sarld's heap
begins. The
archives of `image_writers` bring a path once, twice, and through links that are
replaced later, and its second writer reads the file the first one publishes.
Two screenshots are the first one, which is always taken, and one after a wait;
five stages and three cases are those of the sources.

The instance of `host_tools`. Rebuild: 25 command lines, which bring every kind of
layer over the same paths, a protected file, a boot image that a layer
replaces, a file where a directory is and a directory where a file is, symlinks to
directories and one that dangles, directories under the names of the boot image and of
the manifest, a label at its last offset, one beyond it, and places in the image that
do and do not fit 16 bits; two runs. Publishers: two commands with the same output
and one edit of any source; each source changes, vanishes or becomes unfit in
some behaviour. Vault: two adopters, three adoptions, a kill and an edit: the
third adoption rereads what the first two recorded, and reuses what a kill left.
Reader: file systems in which every kind of node, the twelfth, the thirteenth and the
last block the table holds, a hole in the table and in the data, a free record, two
groups and a second file system occur; a block holds two units of data. Discs:
templates with either root, with and without a second partition, a wrong
sector size, bases at the ends of 24 bits, copies in sector 0 and only elsewhere; file
places on both sides of 16 bits. Sources: every edit, on texts that have what the edits look
for, with two troubles, so that a run
that was killed is followed by one on an edited tree.

Fairness. Farm: the reaper's timer fires, time passes, a live worker goes on
with its loop and its makes end, a worker that does not crash is started;
nothing is assumed of the operator, of crashes or of restarts. Boards: the two
server threads run, the cleanup thread wins the mutex if it becomes free again
and again (strong fairness: a `pthread` mutex is granted to a thread that keeps
waiting), and the client does nothing in particular. Runner: the run loop
delivers notifications, and a task ends by itself or by the signal; a child ends
unless `Lingering`.

Boot: the loader is the only program running, so it goes on (weak fairness of
`Next`). Boot tests: the test goes on and a killed process ends; QEMU promises
nothing. The image writers have no liveness property: a writer that was killed
need not be started again. Neither has `host_tools`: a command that was
killed is run again by nobody but its user.

Deadlock checking is off in `boot_handoff`, `boot_loader`, `image_writers`,
`qemu_tests` and `host_tools` (programs that end), in `v2_boards` (all clients may be dead) and in the
two `runner` runs (`MaxRuns` commands may be over).

## 5. What is proved

For all values of the constants that satisfy the module's named assumption
(`FarmAssumption`, `BoardAssumption`, `RunnerAssumption`, `BootAssumption`,
`QemuAssumption`, `PublisherAssumption`, `VaultAssumption`, `PathAssumption`,
`ImageAssumption`, `RebuildAssumption`, `ReaderAssumption`, `AssemblyAssumption`,
`SourceAssumption`): sets and
bounds have their types, "none" values are not members, a suite's plans decide, a
driver is made of at least its two programs, no medium is what a broken copy
leaves, and what section 3 says of images, labels and texts.

Induction. The models compute over sequences by recursive functions: what an
archive makes of a path, what layers leave of a tree, what a label's words sum up
to, what sixty edits make of a text. The library's induction theorems take the
predicate as an operator, which the provers cannot instantiate; `DataInduction` states the
principle for a set of numbers instead (a number is in `S` whenever all smaller ones
are, so all are), so that a proof defines the set of the numbers for which its claim holds
and cites the lemma. A recursive function of a definition is a `CHOOSE`; that there is
one that satisfies its equation is the lemma `Recursion`.

`FarmProofs`: `FarmInvariantHolds`, and from it `FarmTypeOK`, `RetriedOnlyOnce`,
`QueueIsDurable` and `CompletionIsEarned`. The limit of two hand-outs is not
inductive: `RetryBudget` adds what a job may still do in each state (a queued job
has been out at most as often as it was retried), and `DurableQueue` is needed
with it because a restart replaces the job list by the file. `CompleteWasBuilt`
needs more, as a success lands on the first job with its ID, whichever it is:
`BuilderInvariant` says that a success that is still on its way is in `built` and
that what a worker holds is still listed, since a restart forgets only jobs that
nobody was given; `CompletionsAreMakes` then says that a complete job was built
under its ID as one of the jobs listed under it. If these are of one project,
it was built itself.
`SlicesHaveOneBuilder` has a premise, `Orderly`, since `farm_heartbeat` shows what
slow makes do: makes report within 45 s, the controller is not restarted, no job ID comes twice.
Then a worker in its loop is never silent, so what it holds is running under its
name or cancelled, never queued (`HoldersKeepSlices`).

In the same module, `FarmImplementsLifecycle`: the refinement that `farm_safety` checks
on two jobs, for every instance. Each call has a lemma that names the abstract step
it is; a restart is `Forgotten` because of `DurableQueue`, the reaper is `GivenUp`
of several slices at once, and everything else leaves the slices alone.

`V2Proofs`: `BoardInvariantHolds`, and from it `BoardsAreExclusive`,
`DeathsAreNoticed` and `LibrariesStayCurrent`. Exclusive mapping follows only because the server's table and
the kernel's map agree about live clients except for the one board being
recorded (`OwnerIsMapped`), because nothing releases a board between the owner
check and the record (`LockInvariant`), and because a client that dies while it
is served is known, so its death is announced (`KnownInvariant`). What a library
remembers needs `LibraryInvariant` besides: no request is served before discovery
is over, so no count grows old.

`RunnerProofs`: `RunnerInvariantHolds`, and from it `ReportsMatchRuns` and
`ReportsAreTrue`, which covers the order of the report and its status. The invariant says that the runner observes exactly the ends
it has not seen, and that what it has seen is a fact.

`BootProofs`: `BootInvariantHolds`, and from it `DriversTile`, `CutEndsTheTables`,
`HandoffConsistent` and `BootInfoSurvives`, for every list of drivers and all sizes. `TablesHold` is needed
because a cut table is last only as the area is full from then on, which ends
the loop; `LinksHold` because the records are a prefix of the list only as long as
the cursor is one ahead of them, and the kernel's extent ends with the last
record only because linking ends for good with the first driver that fails.

`QemuProofs`: `QemuInvariantHolds`, and from it `QemuTypeOK`, `NoQemuIsLeft`, `PassesWereShown`,
`ReportsDoAgree` and `SuitesAreJudged`. That a pass was shown needs `Seen`: the one
screenshot that may be under way was asked for in this stage, so what it shows was
on the screen in this stage's time; and the terms that are on the screen when a
stage begins count for it. `Judged` says that the status is that of the cases
that are over, which the last case completes.

`ImageProofs`: `OutputsAreWhole`, `WrongOnesAreUnread`, `RefusedOnlyIfUnfit`, `NothingIsRefused`
and `VerifyingIsHonest`. The rename alone gives only that a file changes in one step; that it
changes to what was asked needs the state of the working copy after every
single call. `Underway` is that: the copy is the meaning of the members or nodes done so far, where
inodes correspond to origins one to one, so that two names are one file exactly
if their origins are equal. For an archive the induction is over its members
(`Origin` is a recursive function over them); for a tree the removals are a
suffix of the old listing and the insertions a prefix of the new one, and a walk
that meets directories first keeps every entry's directory there.
For `WrongOnesAreUnread` the same state says besides that what comes from the old image is
exactly as it was (`Shows`, `KeptRight`), so that anything wrong is new or was wrong
before; a file that was read back shares its inode with its other names, which are then
right as well (`TwinsAgree`).
Refusals need more: `Steady`, that nobody publishes to an image between the moment a
writer looks at it and the moment it copies it (`replace_tree` lists the old tree
before `copy2`: with a publication between the two the code really may be refused; in `image_writers` no
behaviour is like that, because the image a second writer takes is only published
once), and `Fits`, that what is put in fits: an archive brings directories before
what is in them and targets before links and does not put a file in a
directory's way, and a tree has no symlinks, which nextufs cannot extract. Without `Fits`
it still is proved that a refusal means a job that does not fit. `NamedOnce` excludes
archives that bring a verified file twice, of which section 6 speaks.

`HostProofs` has the host commands, whose theorems are about `HostTools`'s `Spec`, or, for the
publishing commands and the vault, about their own; `EachToolAlone` projects the one on the other.

Publishing: `PublisherInvariantHolds`, and from it `DirectoriesAreChecked` and
`DirectoriesAppearOnce`. The invariant is `Works`: what a command has taken is
what it checked, and what it checked is what the sources hold, for as long
as nobody edited them since (`edits` is its clock); an edit makes the premise false
and so keeps it. That a directory appears once is the guard of the rename;
that it is complete is that nothing is left in the list when it is described.

The vault: `VaultInvariantHolds`, and from it `TheVaultIsHonest`. An adoption that
runs alone carries the overrides it read through three steps; `Relies` says that
they agree with the vault for every id kept, so that writing them back loses
nothing, and that the temporary file it will rename is its own. A killed adoption
leaves that file behind, which the next one writes over before it renames it.

The rebuild: `RebuiltIsUsable` and `RebuiltFromSources`. `UsableInv` follows the output through the
builder, which may leave an older one, to the label, which is placed by what
`find_iso_file_extent` saw in this very output. `MadeInv` says at every step that
the staged tree is what the sources merged so far make (`MadeOf`: all their directories, and every
file where it lands, from the last source that puts one there), and that the layers
still to be merged are the others in the order of their ranks; patches and overlays are sequences of
any length. A merge that does not raise keeps that, because where a file lands depends on the
directories of earlier sources only, and no directory ever comes where a file is.

The labels: `ChecksumsAgree` and `LabelsLeadSomewhere`. The writer's fold and the reader's carry
are both congruent to the sum modulo 65535 and both are zero only if the sum is; that gives equality
for every label whose block words are zero. `LabelInv` says through `wrap` and `disk` that the
template is whole, that the image is an ISO whose files have places that a label
can say, and how far the label is; the arithmetic of bases and sizes that share a
word is in lemmas of its own. BootE's search finds the label just when a copy is in
sector 0, since all copies name that block: a copy elsewhere is refused, and since copies do not
overlap no part of one is taken for a label.

The sources: `EditsFindTheirPlaces` and `PreparedAsTheFirst`. `PrepareInv` says that, at any point of any
run, the work tree is where a first run that nobody disturbed was after as many patches:
reset and checkout put back every tracked file, and `vers.h`, which is not tracked, is
written and never read. The theorems have a hypothesis about a first run: that it
finds the place of every edit (`PatchesApply`), that its result is patched (`FirstIsPatched`). These speak
of texts alone, not of behaviours; `host_tools` checks them for the texts of its instance, because its
behaviours include a first run. For the real pinned texts, which the repository does not have, they are premises.

The reader: `TreesAreExtracted`, `OnlyHardOnesFail` and `CandidatesHavePaths`, from `ReaderAssumption`: for
every geometry, any number of groups, files of any size and trees of any depth. First the
operators: an inode that newfs placed is the one that is read (`InodeIsRead`), the addresses are
those of the file's blocks (`BlocksAreFound`) and the bytes are the file's (`ContentIsRead`), or the file is
`Hard`; by induction over a path what it is resolved to is a file that has the path
(`ResolvedIsThere`). Then the walk, with `ReadInv`: what is on the host is in the tree, what is in the
tree is on the host or below a path that is still to be done, and, if nothing in the file
system is hard, every path that is to be done can be resolved. The second part needs that a
directory on the way down is the one that the walk has just listed, and so that no
two names read alike. An extraction that was killed starts only over an empty output.

Only model-checked: every liveness property (out of the prover's reach) with the fairness of section 4, and the
properties of the runs that expect a violation.

## 6. Where the code and its documents disagree

* `guest/farm/README.md`: workers "heartbeat every five seconds". The only thread
  of a worker blocks in `RSRunJob`, so a make of more than 45 s gets its worker
  marked offline and its slice built twice (`farm_heartbeat`).
* The same file: the controller "retries an infrastructure failure once". A worker
  that crashes and is back within 45 s keeps its old job listed as running, and
  nothing ever takes it away (`farm_orphan`).
* `RSWorkbenchController.m`: "A command is already running. Cancel it before
  starting another." Cancelling signals the task only; if a descendant holds the
  pipe the runner stays busy (`runner_cancel`).
* `docs/boot-reverse-engineering.md:314`: the first loader "overwrote its own
  executing loader", so BootE was moved to `0x52000`. The place where each call
  of sarld parks the stack pointer, `0x5fff0`, was not: it lies in the image
  that now reaches from `0x52000` to `0x9a784` (`boot_loader`).

Met on the way, and not claimed anywhere in the documents; the properties are stated
so that they say what the code does there:

* `jobID` leaves the project out, the make does not (`RSFarmController.m:71`,
  `RSFarmWorker.m:10`): with two projects listed under one ID, a success of one
  completes the other, which nobody built (`CompleteWasBuilt` has the premise that an
  ID is of one project);
* an archive that brings a verified file twice is refused although the copy is
  right (`ufs.py:139` reads the first member);
* an interrupt while `close` waits for a QEMU that hangs is not caught: no signal
  is sent any more, QEMU stays, and `latest.json` is not written, though the report
  may be (`boote_test.py:102`; `QemuIsGone` has this end, `aborted`, apart);
* an exception in one case of the matrix leaves an earlier `matrix-latest.json` in
  place (`boote_test.py:332`);
* an object that cannot be read is linked from the bytes of the one before it
  (`openstep_boot.c:432`); with a full table area the published tables end at
  `0x204fc` (`openstep_boot.c:716`);
* a download that breaks off leaves a partial file in the cache, which the next run
  takes for the whole one (`rebuild.py:422`; `RebuiltAsAsked` allows it files less);
* a layer may overwrite the boot image and the wrapped UFS, which were staged before
  it (`rebuild.py:611`); validation comes when the output has its final name; the
  label is overlaid without a new checksum;
* two adoptions at once may lose one of the digests or fail in the rename
  (`util.py:24`; `VaultIsHonest` is about adoptions that do not overlap);
* the Composer checks its digest before it reads the payload for the archive, and
  the glide commands hash their source after they read it (`composer.py:292`;
  `PublishedAsChecked` is about sources nobody edits meanwhile);
* `wrap_ufs` renews the checksum only if the label has its porch where it looks for
  it (`hybrid.py`; `WrappedLabelLeads` says when); a template whose root is partition b
  passes the verification of `master_ufs_disk` though that partition is empty;
* a template whose sectors are not a multiple of 512 bytes, or larger than the field,
  leads the tools and not BootE (`nextlabel.c:74`);
* hdiutil may add a suffix to the output's name: an image that an earlier run left
  under the name itself then stays and gets the new label, with the new developer's
  size (`hybrid.py:144`);
* all copies of a label carry block 0 (`disk.py:60`), so BootE takes none but the one in
  sector 0; a disc whose copies are elsewhere, as in `tests/test_core.py:265`, is mastered and
  verified but has no label for BootE (`MasteredLabelLeads` says so);
* a file whose path is a directory of the stage lands inside it, without a word; a directory
  over a file and a dangling link end in a traceback; symlinks to directories are
  left out of the image (`rebuild.py:200`; `RebuiltAsAsked` says where a file lands); if the base
  has a directory under the boot image's name, the builder is told to boot a directory;
* `rdrufs` reads a file's last block whole and so fails at the end of an image, fails on a
  hole where the table would be, and leaves a partial tree that makes it refuse
  to run again; the probe's second reader replaces what the first one found;
* two names that are not UTF-8 may read alike; the reader then takes the first for both
  (`rdrufs.py:301`; `TreeIsExtracted` has the premise, `OnlyHardTreesFail` the premise that no
  two names on the way to the tree are alike);
* the record of the prepared commit stays from an earlier run if a later one
  fails (`bootstrap.sh`).

## 7. Not modelled

* Readers of archives and disks (`bigtar`, `packages`, `iso`, `fat`, `floppy`): functions of one
  input file, byte formats throughout. `ImageWriter` and `DiscAssembly` take what they
  promise of their callers.
* Patching of media (`cdis`, `patch4` and the like): straight-line callers of the image writers,
  which are modelled, and edits of byte strings of a fixed length.
* Guest scripts and boot media scripts: run by hand, once; what they call is outside
  the repository.
* Command line, configuration, emulators and Workbench windows: argument
  handling and calls of other programs, no state of their own.
