# NSBoot: TLA+ models, model checking and proofs

NSBoot boots diskless workstations over iSCSI. This directory holds TLA+ models
of the parts of it that run concurrently and share state, and of three parts of
the boot firmware (iPXE) that its stations depend on; the TLC runs that check
them; and TLAPS proofs of their main safety properties.

## 1. The system

| Part | Code | State | Operations |
|---|---|---|---|
| request handler | `bin/nsbctl.lua`, `GetPage` | none of its own: each request starts a fresh Lua VM (`lua_code_cache off`) and reloads the configuration | `getmebootargs`, super-mode requests, registry requests, pages |
| boot pipeline | `bin/nsbctl.lua` 422–641 | targets and LUNs in tgtd, qemu-nbd processes, children, lock files, ZFS snapshots | `tgtstop`, `nbdFree`, `zfsmount`, `mkChild`, `nbdConnect`, `LunAdd` |
| super mode | `bin/nsbctl.lua` 715–782 | `supper` and `img[i].commit`, background `qemu-img commit` | `supper=true`, `disableUncommit`, `disableCommit`, `disableCommitPoint` |
| command channel | `bin/server.lua`, `bin/client.lua` | socket file, kernel queue | one command per run of the client |
| configuration store | `SaveToFile`, `LoadFromFile` | `nsboot.json` | load, whole-file save |
| registry, DHCP export | `GetMy`, `ApplyMy`, `DeleteMachine`, `ExportDHCP` | `cfg.wks`, `dhcpd.conf` | add, change, delete, export |
| service monitor | `monit`, `scCheck` | none | restart services |
| init script | `test/etc/init.d/nsbootd` | pid file | start, stop, restart |
| iPXE SAN device | `src/ipxe/src/core/sanboot.c` | paths of a device, its active path, the command under way | open, reopen, read and write in fragments, reset, registration |
| iPXE retry timers | `src/ipxe/src/net/retry.c` | list of running timers | start, stop, expiry with back-off |
| iPXE allocator | `src/ipxe/src/core/malloc.c` | free list, statistics | `malloc`, `realloc`, `free`, DMA allocations, discarding of caches |
| rest of iPXE | `src/ipxe` | vendored, unchanged | – |

A station asks for its boot arguments. The handler stops what the last boot left
behind, takes a ZFS snapshot, makes a copy-on-write child per image, and starts
`client.lua`, which passes a `qemu-nbd` command to nsbootd. It then exports the
nbd devices as LUNs and answers. In super mode the child lies over the live base
image and is kept, under a lock file, until it is committed or given up. On the
station, iPXE reaches the LUN as a SAN device, whose commands and reconnections
are timed by its retry timers.

What makes this hard: handlers of several nginx workers interleave; nothing is
locked; `nbd.add` and `img.commit` return before their effect; commands fail
silently; a station may be reset, and a worker killed, at any moment.

`PROJECT.json` lists every component and, with its line, every hazard.

## 2. Modules

| Module | Models |
|---|---|
| `NsbootDaemon` | `server.lua` and `client.lua`, one action per system call |
| `NsbootDaemonProofs` | proofs about it |
| `BootServer` | boot pipeline and super mode, with the programs and stations around them |
| `BootServerProofs` | proofs about it, in every interleaving and with one worker |
| `BootDeviceProofs`, `BootSerialProofs` | proofs about it when, besides, programs are prompt |
| `CommandChannel` | abstract: commands that are refused, run once, or lost |
| `Registry` | `nsboot.json`, `dhcpd.conf`, and the requests that rewrite them |
| `RegistryProofs` | proofs about it |
| `SanDevice` | iPXE's SAN devices |
| `SanDeviceProofs` | proofs about them |
| `RetryTimer` | iPXE's retransmission timers |
| `RetryTimerProofs` | proofs about them |
| `Heap`, `Malloc` | abstract heap, and iPXE's allocator, which implements it |
| `MallocProofs` | proofs about the allocator |
| `MC...` | instances for TLC |

**NsbootDaemon.** `spc` is the place in the main loop and `StartServerSocket`,
`path` the socket file, `backlog` the kernel's queue of the current socket,
`orphans` the clients left on a socket that `os.remove` unlinked. `behind` is a
history variable: the clients that did not find the daemon idle when they saw the
socket file, or that another client has overtaken since. `Kill` is a client that dies between connect and send. A full
queue makes `connect` fail; this is an assumption about the socket library.

**BootServer.** `h[p]` is the handler of worker `p`: its place, station, image,
the devices `search_nbd` gave it, and the configuration it loaded. `child`,
`delta`, `lock` are the files of a disk, `snap` its snapshot, `base` what is wrong
with a base image, `qst`/`qdev` the qemu-nbd of a child, `queue` the commands under
way in the channel, `com` the background commit, `tgt`/`lun`/`blank` tgtd, `cfg` the
saved super-mode settings, `st`/`smode` the stations. Contents are abstracted to
marks: written in normal mode, in super mode, or given up by the user.

Abstractions that matter:

- The channel is a set of commands, each run once or lost. `NsbootDaemon` shows
  why that is what it delivers: it implements `CommandChannel`
  (`ImplementsChannel`), in which a command is refused, or queued and then run
  once or lost.
- With `Prompt` TRUE, nsbootd and qemu-nbd finish before the next command of a
  handler. FALSE lets them lag or lose commands.
- `lsofkill` with `img.del`, and the disconnects of one `nbdFree`, are one action.
- Requests that only rewrite the configuration are one action.
- A commit request answers when `qemu-img commit` has started; its worker waits for it
  only when the Lua state of the request closes the `io.popen` handle (`CommitWait`).
- `tgtstart` calls `tgt.rules` after `tgt.new`; access rules are not part of the state.
- All services are up (`monit`, `scCheck`). Slots are the enabled images; the
  super-mode requests need the three slots that the page creates.
- tgtd, qemu-nbd, qemu-img, ZFS and the stations are external: modelled from how
  the handlers use them.

**Registry.** `file` and `dhcp` are the two files, each of which can be torn;
`h[p]` is the request of worker `p`: its place, what it still has to do (a request
that finds no file first saves the default configuration), and its copy of the
table. `form` is the form a browser holds between `GetMy` and `ApplyMy`. `mixed`,
`saved` and `deleted` are history variables: whether requests have overlapped, what
requests have saved in their entries, and which machines were deleted since the last export. Loading,
changing, truncating and writing are separate actions. When two workers write
at once, either the whole text of the second is left, or a mixture that does not
decode. A table entry is nil, empty or a machine with its target id and its `enable` and
`supper` flags. The page names machines by target id and the handlers use that as an
index; in the shipped `cfg.lua` the ids are 1, 2, 2, so the two can differ (`Shipped`).
For a disabled machine `ExportDHCP` leaves out the beginning of the host block and
writes its end all the same: `dhcp.strays`.

**SanDevice.** `alloc_sandev` chooses one path or two. `pc` and the loop variables
in `dev` are the C stack of the call under way; calls nest (`sandev_rw` →
`sandev_command` → `sandev_reopen`). The events that `step()` delivers are actions
of their own: a session opens its window, is lost, answers, a descriptor
completes, the timer expires. A late answer belongs to a command already closed
and finds its interface unplugged. `assert` stops at the place `asserted`. The
loops of `sandev_restart` and of the opening of paths have no step of another
activity in them and are written in closed form: all opened paths go behind the
closed ones, and the first `n` closed paths, in order, behind the opened ones (`n` is
less than their number when `xfer_open_uri` fails for the next).

**RetryTimer.** Ticks count modulo `Word`. `retry_poll` handles at most one expiry;
`expiring` is the timer whose callback is running, and until it returns (`Return`)
the owners may start and stop any timers in any order, the expiring one
included. `waited`, `rush` and `rushed` are history variables: the ticks
really passed since the start, whether a timer was started without delay in this tick
(`start_timer_nodelay`), and how many of the ticks waited had such a start. `refs` counts
the references that `retry.c` holds to the owner of a timer.

**Malloc.** `free_blocks` is the free list, `blk` what each owner holds, `req` the
allocation under way; each pass of the search in `alloc_memblock` is an action,
so that caches are discarded between passes. Sizes are computed modulo `Word`. The
loop of `free_memblock` is in closed form (`Release`): the freed block takes the place
between its neighbours and swallows those it touches. `Spliced` is what `list_add` and
`list_del` do to the list.
`odd` is a history variable: a block was placed at an offset that is no multiple of the
smallest block.
`Heap` is the promise: disjoint sets of cells, taken from a pool and given back.

Names that begin with `Bad` are faulty variants; replacing the definition that
follows by one of them must make a property fail.

## 3. Runs

| Run | Instance | Shows |
|---|---|---|
| `daemon` | 3 clients, queue 2, one may die | `AtMostOnce`, `OnlyOverlapsDropped`, `DroppedNeverRun`, `IdleNotRefused`, `IdleServed`, `ImplementsChannel`; if nobody dies, `AcceptsAgain`, `Settled` |
| `boot_serial` | 2 stations, 1 super, 1 file image, 2 devices, 1 worker, `Prompt`, crashes | `OwnDisk`, `RestartRestores`, `NoUnauthorizedChanges`, `DeviceFound`, `NormalOffBase`, `SuperKept`, `SnapshotIsNew`, `AnswerHasDisks` |
| `boot_async` | 1 station with zvol and iso, 1 disabled station, 1 device, 1 worker, late and lost commands, fair | `RestartRestores`, `NoUnauthorizedChanges`, `HandlersEnd` |
| `boot_race` | 2 stations, 2 workers, no super mode, fair | `HangsOnlyOnLun` |
| `registry` | 2 workers, 1 browser, 3 ids, 2 shipped machines with one target id, 3 requests, 1 crash | without overlaps `ConfirmedKept`, `NoHoles`, `DhcpFollows`; always `TornIsFinal` |
| `san` | 1 or 2 paths, 1 retry, reads and writes of up to 3 blocks, 2 per command | `TypeOK`, `ActiveIsOpen`, `AllClosed`, `RwComplete`; with 1 path `CommandHasPath`, `CallsEnd` |
| `malloc` | 10 units from an odd address, blocks of 2, words of 4 bits, 3 owners, offsets of 2 and -1 | `TypeOK`, `CheckBlocks`, `LeaksNeedOffset`, `NullOnlyWhenFull`, `ImplementsHeap`, `AllocEnds` |
| `retry_timers` | 2 timers, counter modulo 6, timeouts of 0 to 3 ticks, 2 polls per tick | `TypeOK`, `ListExact`, `OnTime`, `Expires` |

Four runs look for a violation and find it (section 4).

Bounds. Two stations are the fewest that can take each other's device, two
workers the fewest that interleave, two images the fewest that can be mixed up,
one device the fewest at which the search fails. Three clients with a queue of
two give one served, one waiting and one refused. Two workers and three
requests give every overlap of two, and one more to notice the damage; with three
ids one can be missing between two others. A request of three blocks
with two per command has a full fragment and a short one, and one retry is the fewest that can be used
up. The heap loses its first and its last unit, holds three blocks, and its sizes
include two that overflow, one of them only with the header. Two timers are the fewest in
which a callback can stop another; the tick counter wraps round within two
timeouts, and the largest timeout overflows when it is doubled. `boot_async` has no
crashes; the theorem `SlowCommands` covers them.

Deadlock checking is off where the system may stop: in `daemon` all clients end
and the daemon waits in `accept`; in `registry` the requests are used up; in `san`
a failed assertion ends the firmware.

Fairness. Daemon: the daemon and every started client, since they are processes
that run until they block. `FairSpec` of `BootServer`: each worker's handler,
nsbootd/qemu-nbd as a group, and the commits as a group. No fairness makes anybody
send a request, write, reset, crash or lose a command. iPXE is a single thread that
runs its processes in turn: `Malloc` and `SanDevice` assume that a call under way
goes on. `SanDevice` also assumes that a running timer expires in the end (what
`RetryTimer` shows, as `Expires`), and nothing of the target: one that is silent
in login, or while it describes its disk, keeps `sandev_reopen` for ever, because no
timer runs there, and `CallsEnd` makes that exception (`Silent`); `RetryTimer` assumes that `retry_poll` is run
and that time passes, and, for `OnTime`, that it is polled at least once per timer
in each tick. `Expires` is claimed for runs in which not every tick sees a timer
started without delay: such timers enter the list in front and are due at once.

Limits seen while modelling and not claimed by any document: with `Prompt` FALSE,
`SnapshotIsNew` fails (a late qemu-nbd keeps the old snapshot busy), and so does
`AnswerHasDisks` (`lun.add` finds no device, or one of size 0). With two
exported images on one station, `OwnDisk` fails when a running commit makes the
qemu-nbd of image 1 fail, because image 2 is then given the same device.
`boot_async` therefore leaves the first two out and has one exported disk. A disabled
station that asks for its boot arguments keeps its worker in `LunAdd` for ever, the
exception in `HandlersEnd`; so would a station whose target id is of two digits or
belongs to another station, as in the shipped `cfg.lua`. What the
passing runs with `Prompt` show is conditional on it: the code does not wait for
nsbootd or qemu-nbd, apart from its half-second sleeps.

## 4. Where code and documents disagree

| Run | Document | What happens |
|---|---|---|
| `restart_race` | `README.md:7` "Just restart your computer and the system state will return." | two workers get the same nbd device |
| `unauthorized_retry` | `README.md:5` "no unauthorized changes" | an abandoned super-mode handler replaces the child of the retry |
| `commit_cut` | `nsbctl.lua:753` "Commited : " | a boot through another worker kills the running commit |
| `heap_wear` | `malloc.c:338`, `:354` "which can happen only at the very end [start] of the heap" | after an offset that is no multiple of the smallest block, cells in the middle are lost too |

`boot_serial` checks the first two properties with one worker and prompt programs
(`Prompt`), where both hold. One worker alone is not enough for the first: with
two stations, one worker and `Prompt` FALSE, `RestartRestores` fails as well,
because a qemu-nbd of an earlier boot opens its device after `search_nbd` has
given it to the next station. On the same instance `NoUnauthorizedChanges` fails too,
when that qemu-nbd shows a super-mode child to a station that is not in super mode.
`boot_async` has late commands but one exported disk only, so it does not meet this
case, and the theorem `SlowCommands` (section 5) says that with one disk nothing of
the kind can happen.

Other disagreements met while modelling, for which no run is kept:

- `nsbctl.lua:23` allows target ids up to 500, but the pattern of `tgt.used` (`:75`)
  takes one digit, so that with ten targets `LunAdd` does not find its own.
- Changes given up with "update disks?", "no" (`nsbctl.lua:1222`, `:728`) come back
  when super mode is switched on again.
- Registry requests that overlap lose changes already confirmed
  (`nsbctl.lua:855`, `:857`). The properties of `registry` are therefore about
  requests that do not overlap (`~mixed`).
- `ExportDHCP` writes the options and the closing brace of a disabled machine
  (`nsbctl.lua:408`–`411`) without its host line; dhcpd rejects such a file.
- A row of the page, or a form, older than the file makes `ApplyMy` replace whatever
  machine has that index by then; with the shipped ids, the row of the third
  machine opens the form of the second, and a new machine is given the index of the third.
- With two SAN paths, a path closed as a spare, and the active one lost before the
  loop of `sandev_reopen` looks again, `assert ( sanpath != NULL )` (`sanboot.c:450`)
  fails. `CommandHasPath` is therefore about one path,
  which is what NSBoot's boot arguments ask for.

## 5. Proofs

`NsbootDaemonProofs`, for every set of clients and every queue length, from
`ClientsAssumption`: `Typing`, `NoDoubleRun`, `IdleNeverDropped`, `DroppedIsLost`,
`IdleAccepts`, `Implementation`. None of the properties is inductive alone.
`IInv` adds that a client is in one place at a time (`Places`), what its place says
of its progress (`Progress`), what the daemon knows where (`ServerState`), that
only the head of an accepting daemon's queue can have found it idle (`Overlaps`), and
that the daemon is still idle for a client that saw it idle and has not been overtaken
(`Expected`).
`Implementation` shows with it that every step of the daemon or of a client is a
step of `CommandChannel` or leaves it unchanged.

`BootServerProofs`, for every number of stations, images, devices and workers,
with late and lost commands and crashes, from `BootAssumption`:

- `Typing`: among others, a busy handler has a station and every LUN a device.

With one worker (`OneWorker`), and still with late and lost commands, crashes and any
number of stations and images:

- `WorkKept` (`SuperKept`). `StoredInv` says of the files that a running qemu-nbd or
  commit has a child (`Backed`, `OverLive`), that only exported images of enabled
  stations have one (`HasChild`), that without a child there is no data (`Empty`), and
  of the handler that the super-mode settings are still the ones it has loaded
  (`Loaded`) and that it creates a child only where there is none (`Creating`).
- `OwnDiskIsEnough`: as long as `OwnDisk` holds, so do `NoUnauthorizedChanges`,
  `NormalOffBase` and `RestartRestores`. With one worker, then, only a mix-up of devices can
  break these three promises; children, locks, commits and the configuration cannot. `CleanInv`
  says what is in which child: one over the live image holds nothing
  written in normal mode (`LiveClean`), because only super-mode images of a booted
  station have one (`Booted`); and of the handler, that its station is not running
  (`Asleep`) and that the images it has passed have an empty child over a snapshot (`Made`).
- `SlowCommands`: with one disk to boot from (`OneDisk`), beside any number of disabled
  stations and ISO images, `OwnDisk`, `RestartRestores`, `NoUnauthorizedChanges` and
  `NormalOffBase` hold.
  Section 4 says why one disk is needed.

`RegistryProofs`, for every number of ids, workers, browsers, requests and crashes,
from the assumption on the bounds:

- `Typing`; among others, a request that holds a copy has something left to do.
- `Finality` (`TornIsFinal`), directly from the actions.
- `Holeless` (`NoHoles`). Inductive with `Ordered`: at most one request is under
  way; the copy it has loaded has no hole, and the file, when readable, has none;
  every id that a form or a request carries is reached from the start of the table,
  in the file and in the copy, so that filling it leaves no hole. That
  `NewId` returns such an id is a lemma of its own (`NewIdReached`).
- `Confirmed` (`ConfirmedKept`). Inductive with `Kept`: a readable file is what
  requests have saved, and the copy of the request under way differs from that in
  the request's own entry only.

- `DhcpKept` (`DhcpFollows`). Inductive with `Followed`: between the `SaveToFile` and
  the `ExportDHCP` of a request, `dhcpd.conf` is behind by what that request has saved,
  which is the copy it is about to export; the super-mode requests, which do not export,
  change no host.

`BootDeviceProofs` and `BootSerialProofs`, from `BootAssumption` and the hypothesis
`Serial`: one worker, programs that finish before the handler goes on (`Prompt`), and
at most one image that is exported through a device (the others are ISO images).
Stations, devices and target ids are arbitrary, and the worker may be killed
between any two steps. The hypothesis is about the installation, not about the
state: `boot_serial` is an instance of it. Each part is needed; sections 3 and 4 say
what goes wrong with two workers, with late programs, and with two exported images.

- `OwnDisks` (`OwnDisk`). The inductive invariant `DeviceInv` says who may be on which
  device: no two qemu-nbd share one (`OneEach`); the device of a LUN is that of the
  qemu-nbd of its owner (`Luns`); a command under way has a device of its own
  (`Commands`); and at each place of the handler what it knows of the station's devices:
  none is left behind `nbdFree` (`Freed`), what `search_nbd` returned is still free
  (`Chosen`), and between `nbdConnect` and `LunAdd` it is reserved (`Asked`).
- `Restored` (`RestartRestores`), `Unchanged` (`NoUnauthorizedChanges`) and `OffBase`
  (`NormalOffBase`), from
  `OwnDisks` and `OwnDiskIsEnough`.
- `NewSnapshot` (`SnapshotIsNew`). `SnapInv` joins `DeviceInv` and `StoredInv`, which
  together leave no qemu-nbd and no commit on a child over the snapshot when zfsmount
  destroys it (`NotBusy`), and adds that the snapshot is gone when the new one is made
  (`Unmounted`).
- `DevicesLast` (`DeviceFound`), with one device per slot of every station
  (`EnoughDevs`), by counting: every device in use belongs to one disk, and the disk
  that is searched for has none.

`RetryTimerProofs`, for every set of timers, every width of the counter and every
range of timeouts, from `RetryAssumption` (timeouts fit in the counter):

- `Typing` (`TypeOK`) and `Exact` (`ListExact`), by the inductive invariant `ListInv`, from
  what `list_add` and `list_del` do to a list without repetitions.
- `SmoothingStops`: what `retry.c:45` says of the smoothed timeout ("the theoretical
  minimum that the algorithm in stop_timer() can adjust the timeout back down to is
  seven ticks"). No run checks it.
- `Punctual` (`OnTime`), when `retry_poll` runs in each tick at least as often as there
  are timers (`OftenPolled`). A tick in which a timer is started without delay excuses
  one tick of lateness, of every timer that runs.
  `TimeInv` adds that the counter shows the time really passed, modulo its width
  (`Clock`), and that the polls left in this tick suffice for the timers that are
  late (`Enough`).

`SanDeviceProofs`, for every number of paths and retries and every length of commands
and calls, from `SanAssumption`: `Listed` (`TypeOK`: among others, each path is in one of
the two lists, once), `ActiveOpen` (`ActiveIsOpen`), `FreeHolds` (`AllClosed`), `IssuedOnPath`
(`CommandHasPath`) and `AllMoved` (`RwComplete`), all from one inductive invariant,
`SanInv`. It adds what is true of sessions (`Sessions`: only an opened path has a
process, and only the active one has commands), where a call may be at which stage (`Calls`), that a device
that is not registered is shut down (`ShutDown`), that a single path never closes with
the status of a spare one (`OnePath`), and that the fragments before the current one
have been moved, and the current one exactly when its command ended well
(`Progress`).

`MallocProofs`, for every heap, every size of the smallest block and of the word, and any
number of owners, from `MallocAssumption` (among others, the heap lies in the address
space, and an alignment is no larger than the smallest block or a multiple of it):

- `Typing` (`TypeOK`), `BlocksChecked` (`CheckBlocks`), `NullMeansFull` (`NullOnlyWhenFull`),
  and `NeverTwice`, which no run names: no cell is in two blocks, or in a block
  and on the free list. The inductive invariant is `HeapInv`: the free list is sorted
  and merged and its blocks are large enough (`Whole`), blocks in use lie in the heap
  and share no cell with each other or with the list, the request under way is
  for an owner that holds none, and the statistics count the cells in use. What a cut and
  a release do to the list is in the lemmas `Cutting`, `Joining` and `Releasing`; what
  they do to the set of free cells in `CutCells` and `ReleaseCells`.
- `LeaksBounded` (`LeaksNeedOffset`), for every set of offsets. `EndsInv` adds to
  `HeapInv` that blocks in use, and the inner ends of free ones, lie on multiples of the
  smallest block, so that a remainder too small to keep can only be at an end of the
  heap; it is inductive together with `odd`.
- `Implementation` (`ImplementsHeap`), with no hypothesis on the offsets: leaked cells
  leave the pool, and no cell ever enters two blocks.

Every inductive invariant has also been checked with TLC on the instance of its run.

Only model-checked:

- everything with liveness (`IdleServed`, `AcceptsAgain`, `Settled`, `HandlersEnd`,
  `HangsOnlyOnLun`, `AllocEnds`, `Expires`, `CallsEnd`), which is beyond the prover;
- `AnswerHasDisks`.

Every other safety property of a passing run is stated by a theorem.

## 6. Not modelled

- Web pages (presentation), `PowerON` (sends a packet), the debug route `testzone`,
  and functions nothing calls (`rmChild`, `zfsdemount`, `ImgCommit`).
- `monit` and `scCheck`: they keep no state, and what they restart is outside the
  repository. The init script: its state is a pid file, and it starts and stops the
  daemon modelled by `NsbootDaemon`.
- Most of iPXE. It is vendored, unchanged, and more than half a million lines, most of
  them drivers, cryptography and platform code without state shared between
  activities. Modelled are the three parts that every network boot runs through
  and that carry concurrent state of their own. TCP, iSCSI login, DHCP and TFTP
  appear only as what a SAN device sees of a session and as owners of timers.
  The share of the repository's lines that the models cover is small for this
  reason; of `nsbctl.lua`, `server.lua` and `client.lua` what changes state is covered.

## 7. Plan

1. `ServiceMonitor` and `InitScript`, against what `README.md:43` promises.
2. `BootServer`: restart of the server (lock files vanish), `lsofkill` and
   `img.del` apart; an abstract specification of a disk that it refines.
3. Contents of a base image: snapshots during a commit, two super stations.
4. The sequence numbers and login phases of iSCSI, under `SanDevice`.
5. Proofs: `OwnDisk` with several exported images and commits that do not overlap a boot.
