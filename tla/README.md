# Farewell Party OS in TLA+

The repository builds a small operating system from the Linux kernel and
BusyBox: six shell scripts in `src/soal1/` build a kernel, a single-user and a
multi-user initramfs and a bootable ISO, archive them and boot them in QEMU.
This directory holds TLA+ models of the scripts, of the guest they boot and of
the stateful parts of the BusyBox 1.37.0 the guest consists of, the TLC
configurations that check them, and TLAPS proofs about them.

## Inventory

The repository's own code is the six scripts; the rest is BusyBox as
downloaded, a kernel configuration and the images built from them. From BusyBox
the models take the programs that keep state over time and share it with
others.

| part | state it keeps | operations | what is hard about it |
|---|---|---|---|
| `kernel.sh` | `linux-6.1.1*`, `osboot/bzImage` | fetch, unpack, configure, compile, publish | what an interrupted download, unpacking or copy leaves is taken for the real thing by the next run |
| `single.sh` | `busybox-1.37.0*`, its `.config`, `rootfs_single/`, `osboot/single.gz` | fetch, unpack, configure, build, fill the tree, pack, clean up | `.config` is wrong for a while; a pipeline whose failure is not noticed; root-owned leftovers |
| `multi.sh` | `rootfs_multi/`, `osboot/multi.gz` | as `single.sh`, but with the BusyBox `single.sh` left | shares BusyBox with `single.sh`; writes into the tree after root owns it; the order of chown and chmod |
| `iso.sh` | `iso_build/`, `osboot/farewell.iso` | check, copy, grub-mkrescue, clean up | checks that its inputs exist, not that they are complete or stay as they are |
| `backup.sh` | the zip archives, `osboot/` | check, zip, remove one by one | removes later what it archived earlier; all four files or none |
| `qemu.sh` | none | boots one of the images, or the ISO | the console of the guest differs between the modes |
| `login` | the attempt, a counter, the terminal's attributes, an alarm | ask, look up, check, start the shell, time out | a signal handler at any step; it is process 1 and nobody restarts it |
| `adduser`, `passwd`, `deluser` over `update_passwd` | `/etc/passwd`, `shadow`, `group`, each with `FILE+` and `FILE-` | read, lock, back up, write, rename, for each of up to four files | several calls make one command; two commands at once; a kill leaves the lock |
| `syslogd -C`, `logread` | a ring of bytes in shared memory, two semaphores | log, print once, follow | a ring that wraps; a reader that looked before it locked; kills inside the lock |
| `runsv`, `sv` | `struct svdir`, the status file, two FIFOs, a self-pipe, the pipe to the log service | start, restart, stop, kill, pause, exit; sv's commands | SIGCHLD and commands in any order; sv reads an old status; the order of ending |
| `udhcpc`, `udhcpd` | the client's state and timers; the table of leases and its file | discover, offer, request, acknowledge, renew, rebind, decline, release, restart | lost and late packets, clocks, crashes between an answer and the file |

The scripts do not call each other. They interact through files of the shared
working directory: the BusyBox tree and its `.config` (`single.sh`, `multi.sh`),
`osboot/` (all of them). `qemu.sh` hands a file of `osboot/` to a guest, whose
`/init` becomes `login`, which becomes the user's shell. From that shell the
user can run the rest: the images contain `passwd`, `syslogd`, `runsv`,
`udhcpc` and `udhcpd` but start none of them. `login` reads the account files that
`passwd` writes; `logread` and `syslogd` share memory; `sv` and `runsv` share
FIFOs and a status file; `udhcpc` and `udhcpd` share a network.

What makes each part correct:

* kernel, single, multi: what is announced with "Done!" is there, complete and
  from this run; an image holds a statically linked BusyBox and all parts of the
  tree; a rerun works whatever an earlier run left; nothing is left over.
* iso: a finished ISO holds a complete kernel and two good images.
* backup: nothing is removed that is not archived, and only complete sets are
  archived; what is committed survives whatever runs beside it.
* login: a shell belongs to the account whose name and password were just given;
  three attempts; the terminal echoes again however it ends; it does not wait
  forever.
* the multi-user image: who may enter and write which directory.
* accounts: a change is made to the file as it is, can be undone from `FILE-`,
  and never leaves a user without a password; a new id is new; a lock left
  behind stops nobody forever.
* logging: what is printed is what was logged, whole and in order; readers do
  not keep the writer out, nor the writer the readers.
* services: one process of a service at a time, never a signal to a stranger; the
  status file is true; what was asked for last comes about; no child is missed.
* DHCP: whoever uses an address has the lease for it, so no two clients use the
  same one; an address found in use stays reserved; a client gets an address.

The hazards of each of these, with their lines, are in `PROJECT.json`.

## Modules

```
Workspace            the files the scripts share, "set -e", loops, writing a file
  Sources            fetch and unpack            (kernel.sh, single.sh)
  RootfsSteps        fill, pack and remove a tree (single.sh, multi.sh)
  KernelScript  SingleScript  MultiScript  IsoScript  BackupScript
    BuildPipeline    all five scripts in several terminals; the properties
      MCBuildPipeline, BuildPipelineProofs, DeliveryProofs
ArtifactStore        what the pipeline promises about osboot/ and the archives
Login                login.c and the libbb functions it calls
MultiHomes           the directories of the multi-user image
  Guest              boot, login, session, logout; the properties
    MCGuest, GuestProofs
Accounts             adduser, passwd, deluser and update_passwd; the properties
  MCAccounts, AccountsProofs
Syslog               the ring, syslogd and logread; the properties
  MCSyslog, SyslogProofs, LogreadProofs
Runsv                runsv.c
  Services           runsv with its programs, sv and init; the properties
    MCServices, ServicesProofs
DhcpNet              the segment: packets, addresses, what is in use
  DhcpClient         dhcpc.c
  DhcpServer         dhcpd.c, leases, the lease file
    Dhcp             both, and time; the properties
      MCDhcp, DhcpProofs
```

**Workspace.** `sources` and `config` are the downloaded packages and the
`CONFIG_STATIC` line of BusyBox; `rootfs`, `isoDir` the build directories;
`osboot`, `isoParts`, `archives` the products. `isoParts` is what the ISO
contains. `job[t]` is the script of terminal `t`: a label for the command it is
at, the index of its loop, `MISSING` of `backup.sh`, and why it stopped. One
action is one command. A command that takes time to write a file is two actions
(`Pack`, `PackEnd`; `Fetch`, `FetchEnd`; ...): the first creates or truncates
the file, the second completes it, and between them other scripts see, and an
interruption leaves, a partial file. `Interrupt` is a failing command, `Ctrl-C`
or a full disk at any step: `set -e` ends the script there. A file of `osboot/`
carries the number of the run that wrote it, whether it is complete, and for an
image how BusyBox was linked and what was in the tree when it was packed.

**RootfsSteps.** `Denied` is the permission check a non-root user fails after
`sudo chown -R root:root`. `PackBroken` is `cpio` or `find` failing inside the
pipeline: without `pipefail` the script goes on. `Install` takes the link mode
from `.config` at that moment, because `make install` depends on the busybox
binary, which is relinked if `.config` has changed.

**BuildPipeline.** `Init` is a directory with the scripts only, or the directory
as it is committed (BusyBox built, kernel and images in `osboot/`). `Compatible`
says which scripts may overlap: none (`OneAtATime`), `kernel.sh` beside the
image scripts (`KernelAside`), or any (`Anything`).

**ArtifactStore.** The abstract store: a file is rewritten, a complete set is
copied to the vault, a file is dropped only if its version is in the vault.
`ImplementsStore` says that the scripts implement it with
`store <- osboot, vault <- archives`.

**Login.** `phase` is the place in `login_main`; each place where the process
waits for the user, or where the alarm could make a difference, is a phase.
`Alarm` is `alarm_handler`, enabled at every one of them until `alarm(0)`.
Names and passwords are sets of values; a password stands for its hash. What
cannot happen in these images is left out, as the head of the module says.
`Ctrl-C` has no effect on process 1: it has no controlling terminal.

**MultiHomes.** `Commands` is the sequence of `chown` and `chmod` of `multi.sh`;
`RunCommand` executes one. `CanEnter` and `CanWrite` are the permission check of
the guest's kernel, for a user who is alone in its group.

**Guest.** `Boot(m)` is `qemu.sh m`, `EndQemu` the end of QEMU; process 1 that
exits makes the kernel panic and stay so (`CONFIG_PANIC_TIMEOUT=0`), so after
`exited` only `EndQemu` is possible. `UserTypes` needs the serial console. The
model has no bound on the number of boots: a boot starts from a fresh copy of
the image.

**Accounts.** `file`, `plus` and `backup` are `FILE`, `FILE+` and `FILE-` of the
three files; a file is a function from names to entries. A command is a record
in `proc`: which of its calls of `update_passwd` it is in, and where in it
(`look` before the call, then `open`, `create`, `link`, `write`). `Open` reads
the old file *before* `Create` obtains `FILE+`, as the code does, and `Rename`
writes what `Open` read. `Create` has `Tries` attempts. `LinkFails` is the
unlink or link of `FILE-` that fails: the code warns and goes on, and `warned`
remembers for which file until it is replaced. `Kill` leaves `FILE+` behind, and
perhaps no `FILE-`; `WriteFails` removes `FILE+`. `Return` says how a command
goes on after a call: `adduser` runs `addgroup` and then `passwd`, `passwd`
writes `shadow` and then "x" or the hash into `passwd`, by what the first call
has changed. `together` remembers that two commands have overlapped.

**Syslog.** A byte of `data` is 0 or the number of its message, so that a torn
message can be told from a whole one. `Copy` is one round of the `again:` loop,
with both branches at the end of the ring; `Oldest` is logread's search for the
first complete message. `sem` is the pair of semaphores: the readers' counter
is undone when a reader ends (`Interrupt`), the writer's is not (`Kill`). The
tail is read in `Begin`, before the lock is there. A new syslogd clears the ring
without the lock, size and tail with it, and that takes a while: from `Restart`
to `Started` the `ring` is "clearing", and a logread that is inside during any
part of it is "torn". What a torn pass prints, or reads beyond, is anything
(`ReadTorn`): it ends, or goes on from any place if it follows. `lag` counts what
has been written since a reader looked, and is full for one that has lived
through a clearing.

**Runsv, Services.** `svd`, `status`, `fifo`, `wstat`, `logpipe` are runsv's; the
functions `StopService`, `StartService`, `ctrl` are operators from a `World`
(the three things they change) to a `World`, so that calls nest as in C. `pc` is
the place in the main loop, one action for each part: `StartDue`, `Poll`,
`Reap` (once for each dead child), `Control` (one letter of each FIFO is read)
and `Obey` (it is carried out, `update_status` included), `Term`. Between
`Control` and `Obey` the letter is no longer in the FIFO and the status file is
still the old one. The calls within `Obey` are one step, and so are reading the
status and writing the FIFO in sv.
`Services` adds the programs, which may end whenever they like (`Exits`), and
`control`, which is `sv`: it reads the status file and sends nothing if that
shows what it would ask for (`Needless`). `hasty` remembers that a command was
given while an earlier one was not yet obeyed, `forgot` the `./finish` that was
running when "kill" made runsv count the service as down.

**DHCP.** A tick is three seconds, and a packet that is not lost arrives within
one. `DhcpNet` has the packets of each client and their order; `xid` tells
whether a packet has the number the client uses now. In `DhcpClient` an action
is one case of the main loop of `udhcpc_main`: a timeout in a state, a packet, a
signal. `DhcpServer` handles one packet per action; `find_free_or_expired_nip`
is `Found`, with ARP (`InUse`, to which a client that is cut off does not
answer) and conflict leases. `Writes` are the outcomes of `write_leases`: the
file may not open, or is truncated and then gets any part of the leases, since
nobody looks at what `write` returns; `unsaved` are the clients whose present
lease is not in the file then. `Terminate` and `Crash` start the server again
from its file, `Crash` also in the middle of a write, and `CrashInAck` between
an ACK and the end of `write_leases`; the `unsaved` become `lost`, until they
are sent an ACK again. A renewal that cannot be sent goes on at once as one
without an answer (`Unrenewed`). `Dhcp` composes them; `Tick` lets the time go
by when everything that is due is done. `strangers` are addresses taken by hosts
that did not ask, `cut` the clients whose packets are lost.

The MC modules give values to the constants. `MCGuest`, `MCServices`,
`MCAccounts`, `MCSyslog` and `MCDhcp` also state some claims that do not hold;
see the end of *Runs*.

## Runs

TLC checks these with no error:

| run | instance | shows |
|---|---|---|
| `clean` | 2 terminals, root, `kernel.sh` beside the image scripts, 5 runs, no fault | every order of five scripts delivers: `IsoBootable`, `NoSpuriousFailure`, `NoLeftovers`, `DoneMeansDelivered` |
| `faulty` | 1 terminal, 4 runs, 2 faults anywhere | `BackupInv` (with `TypeOK` and `NothingLost`), `RerunUnblocked`, `CopiesDelivered`, `ImplementsStore` |
| `anarchy` | 2 terminals, anything overlaps, two of `backup.sh` too, not root, 3 runs, 1 fault | `CommittedKept` |
| `guest` | 5 accounts, an unknown name, a wrong password | `Inv` (the inductive invariant of the proofs: a shell is earned, three tries, the echo comes back, one shell per boot), `HomesAreOwn`, `AskingEnds` |
| `services` | 4 processes, 2 commands or signals, every mix of `./finish` and log service | `OwnChild`, `NeverTwo`, `StatusTells`, `ExitsClean`, `Obeyed`; `ExitHappens`, `UpRuns`, `DownStays` |
| `accounts` | 2 processes, users, ids and passwords, 2 tries, 2 commands, 1 kill, full disk or failing link | `OneWriter`, `BackupIsPrevious` always; `UidsUnique`, `UpdatesKept`, `NeverLockedOut`, `PasswdWorks` for commands one after the other; `Ends` |
| `syslog` | a ring of 5 bytes, messages of 2 and 3, 3 messages, 1 end of syslogd, a logread and a follower that come and go without bound | `Apart`, `WholeMessages`, `PrintsAll`, `FollowsInOrder`; `Logged`, `CatchesUp` |
| `dhcp` | 2 clients, one with `-a`, 2 addresses, leases of 23 ticks, 2 events | `HeldIsLeased`, `ReservedStays`; `GetsAddress` |

Each of them, except `anarchy` and `clean`, also checks the types. An *event*
of DHCP is a signal, a crash, a start, a write of the leases on a signal or by
the clock, one that fails or is cut, a renewal that cannot be sent, a cut of the
network or a host that takes an address.

Some properties have an exception that the code needs:

* `CommittedKept` is about the files that were there from the beginning. A file
  that a script finishes between `zip` and `rm` is lost (`lost_update`).
* `ExitsClean` excepts a program that could not be executed, which ends by
  itself, and a `./finish` that runs when "kill" comes: runsv counts that as
  down without a signal to it and does not wait for it.
* `Obeyed` is about commands given when the one before has been carried out.
* `BackupIsPrevious` excepts a file for which update_passwd has warned that it
  cannot make the copy.
* `Apart` and `WholeMessages` except the pass of a logread under which a new
  syslogd clears the ring; `Logged` excepts readers that overlap again and
  again.
* `HeldIsLeased` and `ReservedStays` except a client that is `lost`: udhcpd was
  started again from a file that lacked its lease, and has sent it no ACK since.

That the code needs them is shown by the table of statements that do not hold,
below.

TLC finds these violated. Each is a claim of the repository that the code does
not keep:

| run | violated | how |
|---|---|---|
| `lost_update` | `NothingLost` | a script finishes a file between `zip` and `rm` of `backup.sh` |
| `access_matrix` | `MatrixGranted` | `henn` cannot enter `/home/hann`, which the comments of `multi.sh` grant |
| `accounts_overlap` | `UpdatesKeptTogether` | a command that waited for `FILE+` writes back what it had read before it waited |
| `dhcp_restart` | `ReservedThroughRestart` | two declined addresses; after a restart of udhcpd only one is still reserved |

The pairs show which assumption a property needs: `NothingLost` holds as long as
`backup.sh` runs alone (`faulty`) and fails otherwise (`lost_update`);
`UpdatesKept` and `UpdatesKeptTogether` are the same formula for commands one
after the other and at once; `ReservedStays` excepts the restarts that
`ReservedThroughRestart` is about.

More statements do not hold. They are not runs of their own, but a change of a
configuration shows each of them:

| property | in | why it fails |
|---|---|---|
| `IsoBootable` | `faulty.cfg` | a copy of the kernel or an image is cut off, `iso.sh` finds the file and uses it; or `single.sh` stops between `make defconfig` and `sed`, and `multi.sh` relinks BusyBox dynamically |
| `DoneMeansDelivered` | `faulty.cfg` | `cpio` fails in the pipeline, `gzip` does not, "Done!" is printed |
| `NoSpuriousFailure` | `faulty.cfg` | half a tarball is never downloaded again, half a tree never unpacked again |
| `NoSpuriousFailure` | `clean.cfg` with `AsRoot = FALSE` | `multi.sh` writes `etc/profile` into a tree it has given to root |
| `UidsUnique` without `~together` | `accounts.cfg` | two `adduser` at once choose the same free id |
| `AlwaysBackedUp` | `accounts.cfg` | the link of `FILE-` fails, update_passwd warns and renames `FILE+` all the same |
| `PromptReachesUser` | `guest.cfg` | `grub.cfg` has no `console=ttyS0`: the ISO's prompt is on a screen QEMU does not show |
| `LastCommandWins` | `services.cfg` | sv compares its command with a status file that an earlier command has not reached yet, be it in the FIFO or just read |
| `ExitLeavesNone` | `services.cfg` | "kill" during `./finish`, then "exit": runsv exits and `./finish` runs on, although sv's usage says "If they exit, runsv exits too" |
| `FinishToldOfRun` | `services.cfg` | runsv puts the status of the log service where `./finish` looks for that of `./run` |
| `StartsForReal` | `services.cfg` | with the pipe to the log service closed, a service that is started ends before it becomes `./run` |
| `OldestPrinted` | `syslog.cfg` | what is logged between reading the tail and the lock hides messages that are still in the ring |
| `NeverTorn` | `syslog.cfg` | syslogd is started again while a logread copies, and clears the ring under it |
| `LoggedAnyway` | `syslog.cfg` | a logread that comes again and again and a follower overlap, so that one of them is always inside, and semop lets no writer in |
| `NeverLost` | `dhcp.cfg` | udhcpd ends after an ACK, before its lease is in the file: "we lose some leases on restart" |
| `AlwaysHeeds` | `dhcp.cfg` | a client declines an address whose lease udhcpd has lost by then: the decline is ignored |

### Bounds

The bounds are `MaxRuns`, `MaxFaults`, `MaxCommands`, `MaxMessages`, `MaxKills`
and `MaxEvents`, each a guard of the actions it counts, and they are guards of
the environment only: what a program does by itself is never cut short.

* Scripts: a script reads only what the scripts before it left, and five runs
  are enough for a full cycle: single, multi, kernel, iso and backup from an
  empty directory. From the committed state, three reach a backup after a
  rebuild and four a rebuild after a backup, so `faulty` can do both with two
  faults. Two terminals suffice for the overlaps, since the conflicts are
  between two scripts. In `anarchy` three runs build the missing ISO, archive
  the committed files, and do anything else beside that, a second `backup.sh`
  included. The symmetry of `clean` and `anarchy` is over terminals, and no run
  of the scripts checks liveness.
* Guest: none on boots; `EMPTY_USERNAME_COUNT` is 3 instead of 10, which
  shortens the countdown and changes nothing else.
* Services: two commands are the least with which one can overtake the other,
  and four processes leave a free one when both services have a killed process
  not yet waited for. runsv itself and the programs run on without a bound.
* Accounts: two commands give every overlap of two of them, with one of up to
  four calls; with two tries a command both waits and gives up. `MCInit` fixes
  which of the interchangeable names, ids and passwords the files start with,
  and `MCNext` that whoever asks for a password wants the other one.
* Syslog: with five bytes and messages of two and three bytes, a message fits,
  ends at the end, and wraps around; three messages lap a reader, by exactly the
  size of the ring too. Readers come and go without a bound.
* DHCP: a lease of 23 ticks is long enough that a client renews, gives up, is
  bound again for half of what is left, and rebinds (10 ticks is the limit,
  three packets each). Two events let a client go away and come back, a server
  crash while a client is cut off, or a host take an address and the server end;
  `dhcp_restart` needs the third for its second address.

### Fairness

* Scripts: none is assumed. They are straight lines with loops over fixed lists,
  so that they end says nothing about them.
* Login: it goes on when it waits for nobody, and an alarm that is set rings.
  Nothing is assumed of the user.
* runsv: it runs when it can; a program that has been told to end, `./finish`,
  and a log service at the end of its input do end. `./run` may run forever, and
  stopped programs (`sv pause`) are excepted in the properties.
* Accounts: a command that runs goes on, the user at the prompt of `passwd`
  included.
* Syslog: semop is strongly fair, since the kernel tries the waiting operations
  each time a semaphore changes; copying and printing are weakly fair. Nothing
  is assumed of readers coming and going. semop wants both semaphores to be 0 at
  one moment, so readers that overlap without end keep syslogd out under any
  fairness: `Logged` is about the rest.
* DHCP: time goes by (`Tick`), a client does what is due and takes what arrives,
  the server takes what arrives. Cuts, signals, crashes and strangers are not
  fair.

Deadlock is checked for `guest` and `access_matrix`. In the others the system may
stop: when its bounds are used up and nobody has anything to do.

## Proofs

TLAPS checks the eight proof modules from nothing. Each theorem holds for every
value of the constants that the named assumptions of the modules allow
(`ConstantsAssumption`, `LoginAssumption`, `AccountsAssumption`,
`RunsvAssumption`, `AccountsConstants`, `NoEntryIsNone`, `SyslogConstants`,
`DhcpConstants`, `ClientConstants`, `ServerConstants`, `LeaseConstants`); TLC
evaluates them in the runs. An assumption that only one theorem needs is an
assumption of that theorem.

`BuildPipelineProofs`:

* `TypeCorrect`: `Spec => []TypeOK`. Each script has a lemma about its steps; the
  interesting part is `JobOK`, that the index of a loop stays inside its list.
* `BackupLosesNothing`: if nothing may run beside `backup.sh`
  (`BackupRunsAlone`), `Spec => []NothingLost`. `NothingLost` is not inductive:
  that the file about to be removed is archived depends on how far the loop is.
  `BackupInv` adds that `backup.sh` is alone (`Alone`), that while it removes,
  one archive agrees with `osboot/` on the files still to come (`Covered`), and
  that the files it has checked exist unless `MISSING` is set (`Checked`).
* `PipelineImplementsStore`: under the same assumption, `Spec =>
  ImplementsStore`. Writing a file is `Rewrite`, `BackupZip` is `Snapshot` (all
  four exist, by `Checked`), a removal is `Drop` (by `Covered`), every other step
  leaves the store alone. `lost_update` shows that the assumption is needed.
* `CommittedIsKept`: `Spec => []CommittedKept` with no assumption about what runs
  beside `backup.sh`. A file that a script writes has the number of its run, and
  none has the number 0, so one with 0 is still as it was when `zip` read it;
  the archive that a removing `backup.sh` has made (`Archived`) holds every such
  file that is still to come, whoever else writes or removes in the meantime.

`DeliveryProofs`: the promises of the four build scripts, for any number of
terminals and runs. The theorems assume `Separate`: the only script that may run
beside another is `kernel.sh`, beside one that builds an image, as in the run
`clean`. There are two invariants.

* `IInv` holds with any number of faults. It says what an image script has put
  into its tree when it is at each label (`Made`), that the files `iso.sh` has
  looked for are still there and the ones it has copied are still the ones in
  `osboot/` (`IsoFine`), and that the kernel file is the one this run is writing
  (`KernelFine`). From it `RerunsAreFree` (as root, a rerun is never blocked by
  what an earlier one left) and `CopiesAreDelivered` (`kernel.sh` and `iso.sh`
  that say they are done have delivered).
* `Clean` also needs root and no faults (`Undisturbed`). Whatever is incomplete,
  a source, the configuration of BusyBox, a file of `osboot/`, a tree or
  `iso_build/`, is being completed by the script it belongs to (`Tidy`); each
  script finds what it counts on (`OnTrack`); and one that has failed has a
  reason in what it was given (`Reasonable`). From it `IsoBoots`,
  `NoScriptFails`, `NothingIsLeft` and `DoneIsDelivered`. The violated runs
  above show that these do not hold with faults or beside other scripts.

`GuestProofs`: `GuestTypeCorrect`, `ShellsAreEarned`, `BootIsBounded` and
`EchoComesBack`, all from `LoginIsSafe`, and `HomesStayOwn`. The invariant `Inv`
says that `pw` is nobody or the account typed in this attempt (`Looked`), which
keeps an unknown name from using the account of an earlier attempt; that the
console is silent only while a password is read (`Silent`); and that `count` is
the number of passwords refused, one less than checked while one is being
refused (`Counted`). Type correctness needs `Counted`: the two counters are
bounded only because login exits. `HomesStayOwn` is about `HomesAreOwn`: who
stands in which directory and who has written to which home. Its invariant
`HInv` says what the first `k` of the `chown` and `chmod` of `multi.sh` have
set, one line for each `k`, and that a multi-user guest runs only when all of
them are done.

`ServicesProofs`: `ServicesTypeCorrect`, `SignalsOwnChild`, `OneProcessAtATime`,
`StatusFileIsTrue` and `ExitLeavesNothing`, all from `RunsvInvariant`, and
`CommandsAreObeyed`, from that and `OInv`. The first invariant is about the
`World` that the operators of `Runsv` change, so that each operator has one
lemma: every pid runsv keeps is a child nobody has reaped, the two services do
not share one, a process that nobody has told to end is one runsv knows or one
that it forgot, a service that is down has no pid, `./finish` runs only after
its `./run`, and what `update_status` wrote agrees with `svd`. `OInv` follows
what was asked for last until runsv wants it, if every command was given when
the one before had been carried out: the FIFO and the letter just read hold that
command or what is left of a restart, or they have been obeyed (`Obedient`), and
a SIGTERM is not slept over (`Noticed`). That sv sends nothing when the status
shows what it would ask for (`Needless`) is harmless only because the status
file is true, so the first invariant is needed again.

`AccountsProofs`: two invariants. `IInv` holds whatever overlaps and is killed:
only the creator of `FILE+` renames it (`OneWriter`), at the rename `FILE-`
holds what `FILE` does unless its making has failed (`Linked`), and a command
that runs alone has read what is still there (`Alone`). From it
`AccountsTypeCorrect`, `PlusIsALock`, `BackupsArePrevious` and `NoChangeLost`.
`IInv2` adds what commands carry from one call to the next if they run one after
the other (`Ready`): the id `adduser` has chosen is still free, and `passwd`
writes "x" into `passwd` only when `shadow` has the new word. From it
`UidsStayUnique`, `PasswdTakesEffect` and `NobodyLockedOut`.

`SyslogProofs`: `ReadersApart`, from `SyslogInvariant`, for any ring, any messages
and any finite set of readers. The semaphores are counted: the readers' one is
the number of readers inside, which is why the undo at the end of a reader
matters; and the ring ends with a whole message whenever a reader may enter one
that is not being cleared. A reader is torn only by a new syslogd, so nothing is
said of its pass.

`LogreadProofs`: what is printed, also for any ring, messages and readers:
`MessagesAreWhole`, `EverythingIsPrinted`, `FollowersGoOn` and `SyslogTypes`.
They rest on the first invariant and on `RingPlaced`, whose invariant `LInv`
says where every message lies. There are numbers `B[m]`, the distance from the
start of message `m` to the tail, such that

* `B[m] - B[m + 1]` is the length of `m`, and `B` of the message after the
  newest is 0, or minus what syslogd still has to copy (`Sums`);
* the byte at distance `d` is one of the message that `d` falls into, or 0 if
  that is a NUL or nothing has been written there (`Laid`);
* a follower that is not lapped stands `lag` bytes before the tail, and if it
  has printed something, between two messages, behind the last it printed
  (`Follows`).

This holds unless a syslogd was killed in the ring (`Sane`); then the writer's
semaphore keeps readers out until the ring is removed. A round of `again:` adds
to all distances what it has copied, so the wrap at the end of the ring is in
one lemma (`Moved`). `WhatIsRead` goes through a copy of the last `n` bytes from
left to right: at each place it has printed the messages that start before that
place, after possibly one torn text, and there is none if the copy starts
between two messages (`Edge`). A first pass starts behind a NUL, so it does; and
between there and the tail no NUL is left out if the tail it had read is still
true, so nothing complete is missing (`BehindNUL`).

`Texts` and `Bytes` are recursive functions, and the general induction theorems
cannot be instantiated here. `UpTo` is induction about a set instead, and
follows from the smallest element of a set of numbers; with `Repeated`, that a
step can be taken `n` times, it shows that these functions exist and what their
values are.

`DhcpProofs`: `DhcpTypeCorrect` holds for any times. `UsedIsLeased` and
`ReservedIsKept`, from `DhcpInvariant`, assume that a lease is not shorter than
thirty seconds (`Lease >= Thirty`), because the client takes a shorter one for
thirty seconds. The invariant relates what is on its way to what both sides
know: an ACK or a decline that can still arrive is covered by the table of
leases, and so is what the client believes of its time, by the table in memory
for every client that is not `lost` and by the one on the disk for every one
that is not `unsaved` either. So a new start from whatever a failed or cut write
has left loses no more than the leases of the `unsaved`.

Every invariant and every other safety property that a run finds to hold is
proved. Only model-checked is liveness (`AskingEnds`, `Ends`, `Logged`,
`CatchesUp`, `ExitHappens`, `UpRuns`, `DownStays`, `GetsAddress`): it rests on
fairness, which is about `ENABLED` and beyond the prover.

## Not modelled

* What an interruption leaves half done by `rm -rf`, `mkdir`, `cp` into
  `iso_build/` or `zip`, which are one step each: the build directories are
  removed first by the next run, and `zip` renames its temporary file at the
  end.
* Compiling: `make` succeeds in a complete tree and fails in a partial one.
* Names of archives (two backups within a second would share one), downloads
  that bring wrong contents, and the sizes of files.
* `make_profile` of `multi.sh`, which is never called.
* `login`: type-ahead, utmp, syslog and the message of the day.
* Sticky bits and files below the homes; `umask` is taken as 022.
* Accounts: `passwd -l`, `-u` and `-d`, `gshadow`, members of groups, making and
  copying homes.
* `syslogd`: log files, remote logging, marks, the format of a line; that a
  shared memory segment lives on while a logread is attached to one that was
  removed (every logread ends then).
* `runsv`: the `control/` scripts, the letters that only send a signal, and
  status files that cannot be written.
* DHCP: a lease file that is cut within a lease, static leases, BOOTP, INFORM,
  options, relays, the scripts that are called.
* The rest of BusyBox: `init`, `getty`, `start-stop-daemon`, `runsvdir`, the
  shells, the file, archive and text tools, mail, web and other network
  programs. They either keep no state between steps, or are interpreters whose
  state is the input; tests reach them better than a model. `src/` holds all of
  them, 316,000 lines, so the models cover a small share of its lines: all of
  the repository's own code, and the programs that several processes, a crash or
  a network make hard.

## Plan

Done are the modules, runs and theorems above. What would come next:

1. `Guest` booting what `BuildPipeline` delivers, so that `IsoBootable` becomes a
   precondition of `Boot`, and `login` reading the files of `Accounts`.
2. `runsvdir`, which starts and watches several `runsv`, and
   `start-stop-daemon`.
3. Theorems about what comes before liveness: that each step of a command on the
   accounts and of a pass of `logread` brings its end nearer.
