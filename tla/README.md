# Caimán OS: a TLA+ verification project

Caimán OS is a hyper-converged platform: a KVM virtual machine monitor
(`vmm/`), an HTTP API that runs virtual machines as processes of a node
(`api/`), and services around them (live migration, a distributed resource
scheduler, networking, snapshots and backups). This directory holds TLA+
models of its parts, TLC configurations that check them on small instances,
and TLAPS proofs that hold for every size. `PROJECT.json` is the index: which
definition models which lines, which run checks what, which hazards of the
code the properties are for.

## 1. Inventory of the system

| Component | State it keeps | Operations | Hard behaviour |
|---|---|---|---|
| **VM lifecycle** (`api/src/main.rs`, `vm/runner.rs`, `vm/state.rs`) | one `state.json` for each VM, child processes | create, start, stop, force-stop, delete, get/list (reconcile), reapers | handlers and reapers interleave without any lock; non-atomic saves; crash of the API; pids recycled |
| **virtio-blk and virtqueue** (`vmm/src/virtio/{blk,queue}.rs`, `kvm/vcpu.rs`) | rings in guest RAM, `BlkState` behind a mutex, two eventfds, image file | MMIO reads and writes on vCPU threads, the dataplane thread | lost wake-ups and interrupts, u16 wrap, I/O errors, malformed chains, driver reset |
| **virtio-net** (`virtio/{net,tap}.rs`) | two virtqueues, interrupt registers, TAP | polling dataplane, MMIO on vCPU threads | chains that leak, missing TX interrupt, acknowledge against completion |
| **console bridge** (`vm/runner.rs`) | ring buffer and broadcast channel for each VM, pseudo-terminal | PTY reader and writer, socket clients | backlog against live output, lagging clients |
| **serial port** (`vmm/src/device/serial.rs`, `main.rs`), PCI stub | 16550A registers behind a mutex, an eventfd | port I/O on vCPU threads, the serial-stdin thread | a receive register that is overwritten, an interrupt register written from two sides |
| guest memory, loader, vCPU set-up (`vmm/src/kvm`) | guest RAM mapping | boot | parsing and ioctls |
| **live migration** (`livemig/`) | job phase, TCP stream, dirty log of the VMM | setup, pre-copy passes, pause, final copy, switchover, cleanup | guest writes during the copy, failures in the blackout, ignored refusals |
| DRS (`drs/`) | last cluster snapshot, affinity rules | monitor, plan, execute, scheduler extender | plans from stale snapshots, moves judged one by one |
| **CNI plugin** (`cni/`) | `allocations.json`, taps and bridge of the host | ADD, DEL | processes race on an unlocked file; a file that does not parse counts as empty |
| bts (`bts/`) | none: `main.rs` answers with empty lists | | code of snapshots, backups and templates is not part of the build |
| **caiman_net** (`kernel/caiman_net`) | hash table of VM contexts, references to XDP programs | netlink VM_ADD, VM_DEL, XDP_ATTACH, XDP_DETACH | one program slot shared by all VMs of an uplink, colliding numbers, failing attach |
| **micro-segmentation** (`microseg/`) | policies, pinned BPF policy map | added, modified, deleted; three lookups for a frame | stale entries, map emptied while frames are judged, restarts |
| bridge (`bridge/`), import (`api/src/import`) | staging files | acquire over SSH, qcow2 to raw | truncation, cluster lookup |
| storage, gpu, auth, demo | in-memory maps, sysfs | CRUD | little: one lock each |
| collectors, CLI, MCP, web UIs, scripts, musl | none of their own, or third party | | |

How they meet: the API starts one `caiman-vmm` for each VM and afterwards
knows it only by the pid in `state.json`; the CNI plugin is called by the API
before the first save; DRS calls the `livemig` binary; `livemig` talks to the
VMM's control socket, to the destination's TCP port 7777 and to both APIs; the
VMM tells `caiman_net` about its TAP over netlink; `caiman-microseg` and
`caiman_net` put XDP programs on the same uplink; the API holds the master of
the terminal whose slave is the VMM's stdin and stdout; the UI polls the API,
and those GETs are what reconciles records.

What makes each component correct, in one line:

- VM lifecycle: never two VMMs of one VM; a record tells the truth eventually;
  every child is waited for, by the task that is to record its end.
- virtio-blk: ordered, exactly-once service; no request and no interrupt is
  lost; no descriptor in two hands.
- live migration: the VM runs on at most one node and never on neither; what
  the guest wrote while it was copied has arrived; the migration ends.
- virtio-net: each direction is a lossy FIFO; a received frame is noticed;
  chains come back.
- serial console: a typed byte is noticed and keeps its place; a client sees
  what was printed without gaps.
- CNI: no address is given to two VMs; a VM keeps its own.
- caiman_net and micro-segmentation: the map is what the policies say, nothing
  passes that nobody allows; VMs that come and go do not take the program off;
  no reference leaks.

## 2. Modules

| Module | Role |
|---|---|
| `VirtioBlk` | virtqueue, MMIO registers, dataplane thread, rule-abiding driver |
| `BlkService` | abstract disk: served in order, exactly once |
| `VirtioBlkReset` | extends `VirtioBlk` with a driver that is reloaded |
| `VirtioBlkProofs` | remainders, inductive invariant of `VirtioBlk` and its theorems |
| `VmLifecycle` | handlers, reapers, `state.json` files, processes, crashes |
| `VmLifecycleProofs` | invariants of `VmLifecycle` and their theorems |
| `LiveMigration` | source, stream, destination and writing guest of a pre-copy migration |
| `LiveMigrationProofs` | inductive invariant of `LiveMigration` and its theorems |
| `BlkServiceProofs` | `VirtioBlk` implements `BlkService` |
| `VirtioNet` | both queues, registers, polling dataplane, a driver that stops and wakes |
| `VirtioNetProofs` | inductive invariant of `VirtioNet`; both directions implement `LossyFifo` |
| `LossyFifo` | abstract link: in order, at most once, possibly cut; used by `VirtioNet` and `Serial` |
| `Cni` | caiman-cni processes, allocation file, the API's create, start, delete |
| `CniProofs` | inductive invariant of `Cni` and its theorems |
| `Microseg` | policy loop, policy map, XDP program |
| `CaimanNet` | contexts of the kernel module, XDP slots, VMMs |
| `Datapath` | composes `Microseg` and `CaimanNet` on one uplink |
| `DatapathProofs` | inductive invariant of `Datapath` and the theorems of its parts |
| `Serial` | 16550A, serial-stdin, terminal, guest driver |
| `ConsoleBridge` | reader, ring buffer, broadcast, clients |
| `Console` | composes `Serial` and `ConsoleBridge` at the terminal |
| `ConsoleProofs` | inductive invariant of `Console`; input implements `LossyFifo` |
| `MC*` | instances for TLC |

### VirtioBlk

State: guest RAM (`avail_idx`, `avail_ring`, `desc`, `buffers`, `used_mem`,
`used_ring`), the fields of `BlkState` behind its mutex (`ready`,
`last_avail_idx`, `used_idx`, `irq_status`), the two eventfds (`kickfd`,
`irqfd`), whether every vCPU got its clone of `kickfd` (`cloned`; a kick without
one goes to an eventfd nobody reads), the dataplane thread (`dp` is its program point, `head` its local
variable), the image file (`disk`) and the driver (`drv`, `isr`, `last_used`,
`free`).

The grain of the steps is the code's: every MMIO access is one critical
section of `handle_mmio_read`/`handle_mmio_write`, hence one action with guard
`MutexFree`; the dataplane is cut wherever it takes or drops the mutex, and
`add_used` is cut between the used element and `used.idx`, because the guest
reads both without the mutex. The file operation (`DoRequest`) happens with no
lock held. `file.read_at` and `file.write_at` may fail at any time. The thread
opens the image itself, after the guest has started: if that fails it ends with
a warning (`OpenFails`, `dp = "dead"`) and the device answers nothing more, which
`EventuallyCollected` names as its exception.

Ring indices are counts since the queue was set up, and everything the code
stores, compares or turns into a slot is taken modulo `IdxMod` (65536 in the
code), so the wrap is in the model and the counts are only used to state
properties.

The guest driver is external: it follows virtio 1.x (publish before notify;
read status, acknowledge, then collect). A request is "good", "short" (a chain
of one descriptor), "badHeader" (a header outside guest memory) or "badBuffer"
(data outside guest memory: a read is then answered S_OK and delivers nothing,
because the result of `write_slice` is ignored).

A data buffer is a single value: partial transfers (`read_at`, `write_at`
returning fewer bytes) and the length put in the used element are left out.

### VmLifecycle

A task is one handler in flight, or the reaper it leaves behind. `rec` is the
copy of `VmState` the handler loaded, which it later saves as a whole:
this read-modify-write without a lock is what the properties are about. Steps
are system calls: load, `kill(pid, 0)`, spawn, the truncation and the write of
`fs::write`, `remove_dir_all`, `waitpid`. `SaveWrites` lets two overlapping
saves leave a file that does not parse. `proc` are the host's processes; a
signalled process ends later, a dead child is a zombie (which `kill(pid, 0)`
and `/proc/pid` still see) until its parent waits for it. `Crash` kills the
API: all tasks are gone and the VMMs live on in their own sessions.

`stop_vm` may find that it cannot signal the process (`SignalFails`) and bails
before it saves. `child.wait()` does not fail in the model: it returns an error
only for a child that was not spawned or is waited for elsewhere, and
`ReapersMatchChildren` says there is none.

`Discipline` is what the clients promise. `"any"`: nothing; the passing run and
the proofs use no other promise. `"observe"`: one request at a time for a VM, and
start or delete only when the API shows `powerState` "Stopped", which is what the
UI's buttons amount to; `vm_two_vmms` shows that this is not enough. The code
enforces neither.

### LiveMigration

`pc` is where `run_migration` is, `batch` the pages of the dirty log it has yet
to send, `out` and `back` the two directions of the stream, `dst` where
`receive_migration` is. Contents are versions: the guest stores a rising clock in
the pages it writes, so the last version of a page is the only one equal to
`mem`; `since` is the clock when dirty tracking began. Each command on the
control socket, each message and each end of a pass is one action. Faults: the
destination's API (`PrepareFails`), the control socket before or after the
command was carried out (`CtrlFails`, `PauseAnswerLost`), a VMM that answers
`ok = false`, which `send_ctrl` ignores (`Refused`), a connection that breaks
(bytes already sent may or may not arrive after that), and silence: a VMM that
does not answer (`PeerSilent`, `pc = "hung"`) or a connection that is half open
(`link = "half"`). Nothing in livemig has a timeout; a half-open connection is
noticed only if there is something to send and the kernel gives up
(`StreamTimesOut`, which is not fair).

livemig is scaffolding in this repository: `receive_migration` is not called
yet, the VMM has no control socket and the API no `/api/migrate` routes. The
model takes those as livemig uses them: the dirty log hands out contents, is
cleared in one step, and holds the pages written since `EnableDirtyTracking`,
nothing more. The destination reads pages and registers and drops them (a TODO
in `coord.rs`); `arrived` and `vcpu` are ghosts that say what it has read.
`dst = "running"` stands for "DONE taken, RUNNING answered".

### VirtioNet

A ring is the sequence of the heads in it (slots and indices are `VirtioBlk`'s
subject). `dp` is the program point of `dataplane_loop`: drain the transmit
queue with the mutex held, then take at most one frame from the TAP, look for
a receive chain, fill it, `add_used`, `irq_status`, and write the irqfd after
the mutex is dropped. A receive chain has room, room for a part of the frame,
or no descriptor for the header; the last kind is taken off the ring and not
returned, which is the leak `OneOwner` makes an exception for. A transmission is
completed with no interrupt at all: `stopped` is a driver that found no free
chain, and it only looks again when a frame is received (run `net_tx`). If the TAP cannot be opened the thread ends (`"dead"`). Left out:
the queues' set-up (the code polls them whatever `ready` says), features and
MAC. Both directions are shown to implement `LossyFifo`.

### Cni

A step is a system call on `allocations.json`: read, truncate, write. A file
truncated by one process and read by another does not parse, and
`load_allocations` takes that for "no allocations"; a failed write is ignored; a
process may fail or be killed at any point. Nothing keeps two processes apart,
and they overlap freely in the model. `behind` are the processes that hold a map
loaded before another one saved. The ghost `spoiled` is set when an allocation is
lost, or may be: one of those saves, a load meets a torn file, or a save fails or
is cut short. Processes that overlap otherwise spoil nothing. `AllocatedOnce` is
about the file and holds even when spoiled; `UniqueAddress` and `StableAddress`
are about the records of the API and hold until then (afterwards TLC reaches two
records with one address).

An ADD that fails still prints a CNI result (`Report`): the entry of the file,
or 10.100.0.2 when there is none, which another VM may have. The API does not
read it; it takes `CAIMAN_IP_CONFIG` from the standard error (`Answer`). `cni_del`
has no caller in the repository: `Delete` leaves the allocation in place and DEL
comes from outside, so the pool runs out. Clients do not delete a VM while they
start it. The TAP that caiman-cni makes has another name than the one the VMM
opens (first against last eight characters of the id), so it matters only in that
it may fail.

### Microseg, CaimanNet, Datapath

`Microseg`: the loop takes an event, writes the entries of a policy one by one,
on a deletion clears the map and compiles every policy again. Map operations
fail; when the watcher's task ends (`WatcherEnds`) the channel closes and the
loop returns once it is empty (`LoopEnds`), which ends the daemon; the daemon
crashes (`Crash`) or is started again after its end (`Resume`), with the pinned
map, an empty `HashMap` and the list of objects there are (`Relist`). A frame is
judged in up to three lookups and a default, each a step of its own. An identity
is the label set itself (the code hashes it). `Known` are the policies the loop
has, `old` those replaced or lost since the map was last cleared, `InForce` both.
A frame collects in `grants` what was known while it was judged, and is `stale` if
`old` was not empty then. What the model makes visible: a port rule without a
protocol compiles to a key no lookup asks for; ports of IPv6 are not parsed;
nothing in the repository fills `identity_map`. `Deleted(name)` is taken to name
the object as `namespace/name`.

`CaimanNet`: netlink runs one handler at a time, so a handler is one step with
all its failures. Contexts are a sequence, newest first, which is what
`ctx_find` sees. `vm_num` is a hash modulo 256 for most ids, so VMs collide;
a killed VMM leaves its context behind. The MAC of a context is made from
`vm_num` by the VMM and says no more than `vm_id`. A successful `dev_xdp_attach`
takes over the reference that `bpf_prog_get` returned, and the device puts it
when its program comes off; `caiman_net` puts `ctx->xdp_prog` besides
(`Detached`), so `refs` may fall below the number of devices that run a program,
and below 0. XDP_ATTACH and XDP_DETACH come from outside: the VMM has functions
for them that nothing calls.

`Datapath`: one uplink runs one program. `caiman-microseg` attaches its program
at its start; VM_DEL detaches from the same uplink if the context has a program.
`Enforced` is about that: only an XDP_ATTACH of someone voids it, and that it does
is the code's behaviour. `DefaultDeny` has that exception and the one for entries
left of replaced or lost policies; `ExplicitAllow` is the claim of the
documentation without the second, and `datapath_stale` refutes it.

### Serial, ConsoleBridge, Console

`Serial`: a port access is one critical section of the mutex, hence one step.
The driver is Linux' 8250 without a FIFO (the device ignores FCR): interrupt
handler, start and stop of transmission, and the polled path of kernel messages,
which clears IER, sends and restores it. serial-stdin stores a byte, sets LSR_DR
and IIR without looking at IER, and writes the irqfd `Pulses` times. One vCPU at
a time is in the driver. `held` is output waiting for a newline or 64 bytes,
although a comment says "we flush instantly"; exit(0) at port 0x604 drops it.
The API never sets the terminal to raw mode, which `vmm/src/main.rs:141` relies
on: `Type` echoes and hands input on by lines, and ^D or an error ends the
serial-stdin thread for good (`StdinEnds`), after which input stays in the
terminal. Bytes are numbered in each direction; their values do not matter.

`ConsoleBridge`: the reader appends to the ring buffer and then broadcasts; a
client subscribes, then copies the ring buffer, then receives. `lagged` is a
ghost for a client that the channel skipped ahead. A keystroke goes from socket
to terminal in one step: one channel and one thread keep the order.

## 3. Runs

| Run | Instance | Result |
|---|---|---|
| `blk` | queue of 2, indices modulo 4, 4 posts, 1 sector, read, write, read into a bad buffer, short chain, bad header | passes: types, `NoLostKick`, `NoLostIrq`, `Ownership`, refinement of `BlkService`, `EventuallyCollected` |
| `blk_reset` | one read at a time, reload of the driver | **violation** of `OnlyPostedServed` |
| `vm_any` | 2 VMs, 2 pids, 2 tasks, 3 requests, 1 fault of any kind, undisciplined clients | passes: types, `ReapersMatchChildren`, `StatusHeals` |
| `vm_two_vmms` | 1 VM, 2 pids, 3 tasks, 4 requests, "observe" | **violation** of `SingleVmm` |
| `migration` | 2 pages, 3 guest writes, 2 faults of any kind | passes: types, `OneSideRuns`, `WritesArrive`, `NeverNowhere`, `EndsUnlessSilent` |
| `migration_blackout` | 1 page, 2 writes, 1 broken connection | **violation** of `BlackoutEnds` |
| `net` | a receive chain of each layout, 2 transmit chains, 2 frames each way | passes: types, `NoLostRxIrq`, `OneOwner`, `RxIsFifo`, `TxIsFifo` (refinements of `LossyFifo`), `EventuallyServed` |
| `net_tx` | as above, without received frames | **violation** of `TxNotified` |
| `cni` | 3 VMs, 2 processes, pool of 2 addresses, 5 runs of caiman-cni, 1 fault | passes: types, `UniqueAddress`, `AllocatedOnce`, `StableAddress` |
| `datapath` | 2 objects, 3 overlapping policies, 4 frames, 2 VMs with one number on one uplink, 4 inputs of any kind | passes: types, `MapExplained`, `MapExact`, `Enforced`, `DefaultDeny`, `NoReferenceLeaks`, `EventuallyKnown` |
| `datapath_stale` | the same policies and frames, 2 changes | **violation** of `ExplicitAllow` |
| `console` | 1 client, 2 bytes each way, room for 1 byte in `output`, ring buffer of 2, channel of 1 chunk, 1 interrupt for a byte | passes: types, `NoLostInput`, `NoGap`, `InputIsFifo` (refinement of `LossyFifo`), `EventuallyRead`, `EventuallyShown` |

Bounds. With a queue of 2 and indices modulo 4, four posts take both rings
around twice and the indices through their wrap; a completion, a
chain in the device and one being submitted already fill the queue, and the
proofs cover every other size. For the lifecycle, two tasks are a reaper
asleep or at work beside a handler, or two handlers; with two VMs and two pids a
VMM can take the pid that the record of another VM still names, and a new VMM of
the same VM can start while the old one is still a zombie. For the migration, three writes can hit a page before,
during and after the first pass, and two faults combine a refusal or a silence
with a failure in the blackout. For the network card two frames are enough for one to
arrive between the status and the interrupt of another, and two transmit chains
for the driver to run out and reuse one. A pool of two addresses for three VMs
runs out; five runs are three ADDs with a restart or a DEL each in between. On
the uplink `MaxInputs` bounds changes, faults, starts and commands together, so
that each kind can fill the run or mix with the others: four are an object added, modified and
deleted with a failure in between, or two VMs that come and go around an attach.
On the console, two typed bytes let one overwrite the other, two bytes sent
overfill `output`, a channel of one chunk makes a client lag at the second, and one
interrupt for a byte is harder on the code than its four. Deadlock is not checked: a driver may stop posting, an
operator may stop asking, a migration ends.

No run uses symmetry: those that could also check liveness.

Fairness. `VirtioBlk!FairSpec`: the dataplane is a thread of its own that
blocks only on its eventfd and a mutex held for a few instructions; the guest
handles a pending interrupt and finishes a submission it began; it need not
begin one. `VmLifecycle!FairSpec`: the tokio runtime schedules every task,
signalled processes end, zombies without a parent are collected, and each VM
is asked for again and again, as the UI's polling does (strongly fair, because the
runtime has a task for every request and `Tasks` is only a bound). Guests may run
for ever, and no request but GET is ever obliged to come. `LiveMigration!FairSpec`:
both processes are scheduled and the end of a connection that was closed or reset
is read; the guest need not write, nothing need fail, and silence need not end.
`VirtioNet!FairSpec`: the polling thread and the handler are scheduled; the
handler's two register accesses get strong fairness, because the thread takes
the mutex again and again but drops it every 100 us. `Datapath!FairSpec`: the policy loop
runs, and a daemon that has ended is started again by its DaemonSet; nobody has to
change anything. `Console!FairSpec`: serial-stdin, reader
and client tasks are scheduled and a driver that began goes on; nobody has to
type, print, connect or leave, and serial-stdin need not end.

### What the violations mean

- `vm_two_vmms`: the reaper and `reconcile` save a record without looking
  whether it is still about their process. The shortest behaviour: the VMM
  exits; the reaper has waited and not yet saved, a GET reconciles the record
  to "Stopped"; the client starts the VM; the reaper then overwrites the new
  record with `pid = None`; the client sees "Stopped" and starts it again.
- `blk_reset`: `REG_STATUS = 0` is only stored. After a reload the driver's
  `avail.idx` is 0 and the device's `last_avail_idx` is not, so
  `last_avail_idx != avail.idx` and the device serves slots nobody filled.
- `migration_blackout`: the stream breaks, `run_migration` pauses the guest, the
  next `send_page` fails and `?` ends the process. `ResumeVcpus` exists and is
  never sent. (After DONE was sent the source may not resume by itself: the
  mutant of `OneSideRuns` shows why.)
- `net_tx`: the driver sends until it has no free chain and stops its queue. The
  dataplane sends the frames and returns the chains, with neither `irq_status` nor
  irqfd; as long as no frame is received the driver is not told. `queue.rs:103`
  says of `add_used` "notify guest".
- `datapath_stale`: an ALLOW policy is modified into one that does not cover the
  frame. The loop compiles the new version over the map and takes nothing off it,
  so the frame still passes, until some policy is deleted.

### What the models reach besides

States the models reach where a comment or a document of the repository says
otherwise, and no run states it:

- a reaper's save after DELETE brings the directory of the VM back
  (`create_dir_all`; same cause as `vm_two_vmms`), and a state.json torn by a crash
  or by two saves stays so;
- while the host has given the pid of a dead VMM to another process, `reconcile`
  leaves the record Active (`CHANGELOG.md:121` "auto-mark STOPPED if caiman-vmm
  process dies"; the exception in `StatusHeals`);
- pages the guest does not write after `EnableDirtyTracking` are sent in no pass
  (`livemig/src/main.rs:14` "Copy all RAM to destination"; the premise in
  `WritesArrive`);
- a silent VMM or destination holds the iterative phase for ever (`main.rs:59`
  "Max seconds to spend in iterative phase"; the exception in `EndsUnlessSilent`);
- two ADDs that overlap give both VMs one address, and the CNI result of an ADD
  without an address names 10.100.0.2 (`Cni`);
- where policies overlap the one compiled last has the entry, whatever the
  priorities (`microsegpolicy_crd.yaml:29` "Lower number = higher priority";
  `MapExact` says "of one of them");
- VM_DEL of a VM whose number collides frees the newest context of that number,
  which may be that of the other VM (`main.c:36` "one entry per VM");
- detach puts a reference the device has already put (`NoReferenceLeaks` bounds
  the references from above only);
- a typed character waits for the end of its line (`vmm/src/main.rs:141` "provides
  the PTY in raw mode already"; `Type`).

## 4. Proofs

Everything below holds for every value of the constants that satisfies the
modules' ASSUMEs.

**VirtioBlkProofs.** `Spec => []TypeOK`, `[]NoLostKick`, `[]NoLostIrq`,
`[]Ownership`. None of the last three is inductive. The invariant `IInv`
adds:
- `Order`: last_used ≤ used_mem = used_idx ≤ last_avail_idx ≤ avail_idx (with
  the one chain the device holds in between);
- `Counting`: free descriptors, plus those between `last_used` and `avail_idx`,
  plus the one being filled, are exactly the queue size. It bounds both windows
  by `QueueSize`, and that is what keeps two live counts from sharing a slot;
- `Distinct`: ownership stated pointwise on counts, which each action changes
  at one count only;
- `IrqChain`: why an uncollected completion has an interrupt under way at each
  program point of the dataplane and of the handler.

That counts less than a queue size apart have different slots, also across the
wrap, is the arithmetic of remainders at the head of the module (`ModUnique`,
`ModInjective`, `ModMod`), and needs that the queue size
divides the index range: virtio demands it of the driver, and
`QueueAssumption` states it.

**BlkServiceProofs.** `Spec => ImplementsService`: the device with its rings,
registers and threads implements `BlkService`, for every set of requests and for
read-only disks. On top of `IInv` it needs that buffers hold nothing before
their chain is answered (`BuffersIdle`), or a short chain would return an old
answer, and that a chain about to be published holds a request (`FilledIn`).
The queue of the abstract disk is written as `Todo`, its answers as `Answer`;
one lemma for each abstract action says what a step must do to them, and one for
each action of `VirtioBlk` shows which it is: `Publish` posts, `DoRequest` and
`ShortChain` serve, `BadHeader` swallows, `Collect` collects, and everything
else, `NextAvail` and both halves of `add_used` included, is a stutter.

**VmLifecycleProofs.** `Spec => []TypeOK` and `[]ReapersMatchChildren` for every
discipline, "any" included, and for any number of VMs, pids, tasks, requests and
faults of every kind. Types need `HandleType`: a handler that saves an Active
record holds the pid it spawned. `ReapersMatchChildren` is inductive with `Held`,
which says at which program points a handler can hold a child. The argument goes
over what can happen to a child: `Spawn` takes a pid that nobody holds, because
held ones are not free; a save hands it to the reaper, or drops it when it fails,
and then it is no child any more; `Wait` frees pid and task together; a crash
takes all tasks and all children at once. Neither `SingleVmm` nor what a record
says of the process can be proved: `vm_two_vmms` refutes the first for clients
the UI makes, and the handlers' lock-free saves the second.

**LiveMigrationProofs.** `Spec => []TypeOK`, `[]OneSideRuns`,
`[]NeverNowhere`, `[]WritesArrive`, for any set of pages and any number of writes
and faults. The invariant adds `NoDoneWhileRunning` (while the guest of the source
runs and nothing was refused, `run_migration` is before the blackout or has
failed, and no DONE is in the stream) and `RunningBelieved` (a RUNNING on its way
means that the destination took DONE, and only after it does the source clean
up). `WritesArrive` rests on a second invariant, `DInv`. Its heart is `Covered`:
as long as the connection stands and no command was refused, every page written
since tracking began (`Written`) is in the dirty log, or waits in the batch in its
present version, or was *last* sent in it (`Delivered`), and the final pass
empties the log while nobody writes. A guest that writes a page moves it to the
first case, with a clock that is ahead of all versions (`ClockAhead`); a page that
is taken out of the log moves to the second, and one that is sent to the third,
which needs that a batch holds a page once (`BatchOfPass`). `SentBeforeDone`
carries the conclusion over DONE, because a connection that breaks or goes silent
then voids `Covered` but not what was sent; `DoneIsLast` and `OneVcpuState` say
that nothing follows that could change it.

**CniProofs.** `Spec => []TypeOK`, `[]AllocatedOnce`, `[]UniqueAddress` and the
action property `StableAddress`, for every pool, set of VMs and of processes,
and any number of requests and failures. `IInv` is `TypeOK`, `Roles` (which
process works for which VM), `AllocatedOnce`, and `~spoiled => Books`: the file,
and the map of every process that is going to save and is not behind, agree with
the records of the API and with the answers on their way (`BookOK`), and such a
map differs from the file in the entry of its own VM only (`SaveOK`).
`AllocatedOnce` needs no such premise: a map is loaded whole, from a file that
gives each address once or from one that counts as empty, and gets an address
that is not in it. Uniqueness of the records is not inductive alone: it has to
hold of what is going to be written, and an answer not yet in a record has to be
in the file. That `NextFree` is free rests on the least element of a set of
numbers (`LeastNatural`).

**VirtioNetProofs.** `Spec => []TypeOK`, `[]NoLostRxIrq`, `[]OneOwner`, and the
refinements `Spec => RxIsFifo` and `Spec => TxIsFifo`, for any sets of chains,
layouts and number of frames. `IInv` states ownership with the four places of a
chain (free, avail, used, in the dataplane's hand) as parameters (`Owned`), so
that one lemma for each way a chain moves serves both queues, and adds
`HandTyped` (a chain is in hand only between taking and returning it) and
`FrameHeld` (`rx_buf` holds a frame exactly from `recv` to `add_used`). The links
of the refinements are sequences joined from TAP, `rx_buf` and rings; that the
driver reuses a chain does not change a frame in flight is where `OneOwner` is
needed: a buffer written is not in a ring.

**DatapathProofs.** `Spec => []TypeOK`, `[]MapExplained`, `[]MapExact`,
`[]Enforced`, `[]DefaultDeny`, `[]NoReferenceLeaks`, for any policies, frames, VMs
and programs, with `Names` and `Uplinks` finite (a `HashMap` and the devices of a
node; counting needs it). `IInv` adds:
- `CurTodo`, `CurWritten`, `KnownWritten`: what `compile_policy` and
  `recompile_all` have yet to write is all that can be missing. `MapExact`
  speaks of the times between two events only and is not inductive without
  them; that nothing else is in the map then is `MapExplained` with `old` empty;
- `Granted`: a frame inside the program has been granted every policy that the
  loop came to know since it entered, and is marked `stale` when the map may hold
  more. With `MapExplained` it makes any of its three lookups answerable by some
  policy, which is `DefaultDeny`;
- `ProgArmed`: a context has a program only where an XDP_ATTACH was carried out,
  which is why VM_DEL leaves the uplink's program alone otherwise.
`NoReferenceLeaks` compares, program by program, the references a step takes and
puts with the set of devices that run it before and after.

**ConsoleProofs.** `Spec => []TypeOK`, `[]NoLostInput`, `[]NoGap` and the
refinement `Spec => InputIsFifo`, for any number of clients, bytes and
connections and any sizes of the buffers. For the port, `IInv` adds `Enabling`
(the receive interrupt is enabled from Open on, except while a kernel message is
written, which puts back what it found) and `Indicating` (a byte not read is
indicated whenever the driver is about to look at IIR). For the bridge it
numbers the bytes: `RingShape` (ring buffer and chunk end with the byte read
last, and the ring buffer lacks bytes only when it is full), `ChanShape` (chunks
follow each other) and `NextFits`: the chunk a client receives next begins at
most one byte after the last it has. Accepting before copying the ring buffer,
and appending before broadcasting, are what makes `NextFits` hold when a client
goes live.

**Assumptions.** Besides those named above they say that sizes and bounds are
numbers, that requests, frames and policies have their forms, that no policy
names the identity of unknown addresses (0, which `compile_policy` never
computes for a set of labels), that the two queues' chains are told apart, and
that names for "nothing" differ from the values they stand beside. TLC evaluates
each of them in the runs.

**Only model-checked.** Liveness (`EventuallyCollected`, `StatusHeals`,
`EndsUnlessSilent`, `EventuallyServed`, `EventuallyKnown`, `EventuallyRead`,
`EventuallyShown`), which needs fairness; the violations. Every invariant, action
property and refinement of a passing run is proved.

## 5. Not modelled, and the plan

Not modelled, and why:

- DRS: `collect_k8s_nodes` returns an empty list, so a snapshot holds at most the
  local node, `balance_score` is 0 and no plan is ever made.
- bts: `main.rs` serves `/health` and empty lists; routes, snapshots, backups and
  templates are not declared as modules and use a `crate::state` that does not
  exist.
- Disk import (`bridge/`, `api/src/import`), loader, collectors, CLI, MCP, web
  interfaces: conversion of files, parsing, reading and rendering.
- Storage daemon, demo mode, tokens: a map behind one lock.
- GPU daemon: wrappers around sysfs and vendor tools.
- `musl-1.2.5/`: a third-party C library kept for static builds, unchanged. It is
  nearly all of the repository's C code and no part of the program's own logic.
- Inside modelled parts: short reads and writes of the image file, `T_FLUSH`
  without fsync, a shared disk after a failed clone, network devices that go away
  under a context, statistics and audit events.

Next:

1. A state.json that is written by renaming, with the reapers comparing pids: the
   same module with those two changes should satisfy `SingleVmm` for observing
   clients.
2. `Cni` composed with `VmLifecycle`'s create and delete.
3. `write_at` that writes a part of a request, with sectors as sequences.
