# Verification of the STM32F4 task kernel

A TLA+ development kept beside the firmware: a small preemptive kernel for the
STM32F411 (`kernel/`), its heap (`library/malloc.c`), a shell over a USB serial
port (`shell/`, `usb/`), and a FAT file system on a serial flash (`fat32/`,
`w25q/`). It says what is modelled, what TLC checks on small instances, and what
TLAPS proves for every value of the constants.

## 1. Inventory

| Component | Source | State | Operations | Hard part | What makes it correct |
|---|---|---|---|---|---|
| Task kernel | `kernel/Src/process.c`, `task.c` | `task[]`, `ready_queue`, `sleep_queue`, `active_task` | `create`, `ready`, `sleep`, `kill`, `PendSV_Handler` | every instruction between `cpsie` and `cpsid` can be interrupted; masking does not nest | no task lost or queued twice; there is always a task to dispatch; no two tasks share a slot or a stack (the code keeps none of the four in every case: sections 2 and 5) |
| Clock | `kernel/Src/clkhandler.c`, `clkinit.c` | `sys_time`, `preempt` | `TIM2_Handler` | wrap of the 32 bit time | sleepers wake on time, never early |
| Task lists | `kernel/Src/queue.c` | `first`, `last` of a queue, one `next` per task | `queue_push`, `queue_pushsort`, `queue_pop` | `next` is not cleared; `ready()` pushes with interrupts enabled | the pointers behave as sequences; a ready task can be reached |
| Semaphores | `kernel/Src/queue.c` | `value`, `waitq` | `sem_wait`, `sem_signal` | called from threads and from handlers | tokens are neither lost nor duplicated; every waiter is let in |
| `kill` of another task | `process.c`, `shell.c` | the same | loops that search a queue | runs with interrupts enabled | the victim is unlinked before its slot is free |
| Supervisor calls | `kernel/Src/syscall.c`, `system/intr.S` | none of its own | `svccall_handler` | kernel calls inside a handler cannot block | as above |
| Heap | `library/malloc.c` | `memlist`, a header per block | `malloc`, `free` | splitting, coalescing, double free, failure | blocks partition the heap; the free list is exact |
| Panic, GPIO | `system/panic.c`, `gpio/` | `sem_gpio` | `panic`, `hw_*_pin` | panic takes semaphores | panic stops the system |
| Receive ring | `usb/cdc/usb_cdc_api.c` | `UART_CDC_RxHead/RxTail/RxBuf` | `cdc_loopback`, `usb_available`, `usb_getc`, `readBytes` | handler against thread without masking | bytes arrive once and in order |
| USB device | `usb/Src/usbd_core.c`, `usbd_stm32f4_otgfs.c`, `usb/cdc/usb_cdc_api.c` | control transfer and device state, the FIFOs of the peripheral | `usbd_poll`: reset, completed, received | order of pending events; transfers the host cuts short or gives up; bus reset; two endpoints in one FIFO | the host gets the whole answer to its request; every transfer ends; both sides agree on the configuration; the console keeps receiving |
| Mass storage | `usb/msc/msc.c` | `bot` | `bot_rx`, `bot_tx`, `msc_control` | no caller in this build | not modelled |
| Serial flash | `w25q/Src/w25qxxx.c`, `fat32/Src/disk.c` | the chip, one block buffer | `SPI_Flash_Write` | erase before write, block by block; power loss | bytes outside the range written stay; an array of sectors |
| FAT file system | `fat32/Src/fat_*.c` | the FAT buffer, the directory, open files | open, create, read, write, close, remove, format | order of the writes, the one FAT buffer, a full directory, power loss | clusters and names belong to one file; nothing is lost |
| File commands | `shell/Src/shell.c`, `library/elf.c` | handles | `cat`, `cat >`, `touch`, `rm`, `run`, `format` | handles kept, loops until the end of a file | files hold what was written; every handle comes back; the prompt comes back |
| SD, SPI, ELF, C library, boot | see `PROJECT.json` | | | unused, pure functions or pure I/O | |

How they interact: threads call the kernel directly or through `svc`; the timer and
`PendSV` preempt them; `PendSV_Handler` is the only place that changes
`active_task`; `malloc` and the pins are guarded by semaphores of the kernel, which
`create`, `kill` and `panic` use in their turn; the USB interrupt fills the ring
that the shell empties; the shell starts programs (`elf_execve`, `run`, `run &`) that
come back through supervisor calls; its commands use the file system, which reads and writes sectors
of the serial flash and waits for each.

The hazards found in reading the code are in `PROJECT.json` (`hazards`), each with
its line and the properties that watch it.

## 2. Modules

| Module | Models |
|---|---|
| `Kernel` | the kernel from the moment `nullp()` starts: table, queues, clock, semaphores, create, exit, supervisor calls, panic |
| `KernelKill` | `Kernel` with `kill(pid)` of another task |
| `KernelProofs` | theorems about `Kernel`: the types, the boot, and that there is a task to dispatch until a list is torn |
| `KernelQueueProofs` | theorems about its queues, semaphores and sleepers, and the types of `KernelKill` |
| `TaskLists` | what the task lists promise: sequences |
| `TaskQueue` | `queue.c`: the pointers of the lists, used by the handlers, `sleep`, the semaphores, `ready`, `killer` |
| `TaskQueueProofs` | theorems about `TaskQueue`, the last of which is that it implements `TaskLists` |
| `TaskQueueReady` | `TaskQueue` with the `ready()` of a thread divided at its stores |
| `Allocator` | what the heap promises: who owns each unit |
| `Heap` | `malloc.c`: the list, its headers, `getmem`, `freemem`, `malloc`, `free` |
| `HeapProofs` | theorems about `Heap`, the last of which is that it implements `Allocator` |
| `RxFifo` | what the receive ring promises: a bounded queue |
| `RxRing` | the ring, its handler and its readers |
| `RxRingProofs` | that it implements `RxFifo` |
| `UsbDevice` | the control endpoint and the bulk pair of the console, from the peripheral up to the CDC callbacks |
| `UsbDeviceProofs` | theorems about the control endpoint |
| `Disk` | what the medium promises: sectors replaced whole and in order; what a failure may take |
| `SpiFlash` | the driver of the serial flash, command by command |
| `SpiFlashProofs` | that it implements `Disk` |
| `Fat` | the FAT16 structures on it, as operators |
| `ShellFiles` | the open files, the commands of the shell, power failures |
| `FilesProofs` | theorems about `ShellFiles`: that it implements `Disk`, the FAT buffer, the handles, the boot sector, and that no cluster is in two files |
| `MCKernel`, `MCKernelKill`, `MCTaskQueue`, `MCHeap`, `MCRxRing`, `MCUsbDevice`, `MCShellFiles` | for TLC |

`KernelKill`, `TaskQueueReady` and the modules of proofs extend the module they are about (`KernelQueueProofs` extends
`KernelProofs` and `KernelKill`, and `FilesProofs` extends `SpiFlashProofs` too); `ShellFiles` extends `Fat`, which
extends `SpiFlash`. `TaskQueue`, `Heap`, `RxRing` and `SpiFlash` each implement an abstract module.

### Kernel

A thread step is the code between two points where an interrupt can be taken;
`pc[t]` says where the thread of `t` is between steps. What decides the grain:

- `irq_restore` and `SYS_EXIT` execute `cpsie` whatever was saved, so the masked part of
  `create` and `kill` ends at the first `sem_wait` inside `malloc` or `free`. `create` is
  therefore `CreateBegin` (newpid, then wait for the heap), `CreateAlloc` (getmem, signal)
  and `CreateFill`; `kill` of the caller is `ExitBegin` to `ExitPend`.
- No interrupt priority is set, so handlers do not nest: `PendSV_Handler`, `TIM2_Handler`
  and a supervisor call are one action each. Of two pending ones PendSV comes first.
- `sleep` requests the switch after `irq_restore`: `Sleep` and `SleepPend` are two actions
  and a tick may come between.
- `ready` of a thread masks nothing: the store to `state` and the test of `first` (`ReadyTest`), then
  either the store to `first` (`ReadyFirst`) or the load of `last` and the store to its `next` (`ReadyLoad`, `ReadyLink`), then
  the store to `last` (`ReadyLast`) are actions of their own, with ticks and switches between them. `ready` inside a
  supervisor call or `TIM2_Handler` is not divided.

The lists are sequences here. A store of `ready` fits one only if no interrupt has changed the list since the load it
was computed from, and between the stores to `first` (or `next`) and `last` a handler that pushes would link behind the wrong
task (`TornPush`). In these cases the run ends with the fault `torn`: every invariant of `Kernel` is about the steps up to there.
What becomes of the list is the subject of `TaskQueueReady`, which has the pointers, and of finding 2.

Threads are told apart by what they run (`prog`): `nullp`, `blink` (sleeps, toggles a
pin), `usr` (creates the shell and returns), `shell` and `cmd` (a program of the shell in
a task of its own). `elf` marks loaded programs, which use supervisor calls. `plan` is
what a program has yet to create. `uart_usb` is never initialised and stays 0, so a call of
`printf` queues the caller and wakes it again: the action `Puts`.

`stk` follows the stack of a task: `kill` frees the stack its caller still runs on, and
until the task is gone another `create` may be given that memory (`reused`); to dispatch
such a task is a fault. `fault` names the first step no C program survives: a NULL
`active_task`, a slot in front of the table, a slot filled by two creators, a task linked twice, a torn list, the
header in front of address 0. A run of the model stops
there, and no property says that it is never reached, but `NoNullActive`. `due` is the tick, not reduced modulo the word, that ends a sleep; `param` in the
code is its low word.

Bounds of the model: `MaxTicks` stops the clock (the remaining sleepers are then not
started), `ticked` allows one tick between the two halves of `sleep` (two ticks are 32776
cycles apart), delays are at least 2 as they are for every caller in the repository: with
`sleep(1)` a tick in that window wakes the task while it still runs, and it is queued
twice.

`HeapEnter`, `HeapLeave` are the calls of `elf_execve`; its `malloc` may fail (`HeapFails`), keeps the semaphore, and the
`free` behind it waits (`NoMemFree`): for ever, unless a supervisor call that runs past the semaphore hands it the token
(`NullFree`). `leaked` counts the tokens that failing mallocs kept.

Left out: priorities and messages (fields nobody reads), `getpid`, the call `XINU_KILL` (`kill` inside the supervisor call
handler, `syscall.c:338`), the calls of
`svccall_handler` that only forward to libraries, the contents of contexts and stacks.

### KernelKill

`kill` of another task from the shell or a background command: the `free` of its stack and, for a loaded program, of its
image, the switch on its state, and the loops that look for it. `free` leaves interrupts enabled, so the loops are divided
at each load and store of a queue that something can come between: `queue_peek` (`KillPeek`), the test of the loop
(`KillTest`), `queue_pop` (`KillPop`, `KillNextLoad`, `KillStore`, `KillEmptied`), `queue_push` (`KillPush`, `KillFirst` or `KillLoad` and
`KillLink`, `KillLast`) and the store to `state` (`KillFree`). `looks`, `tmp` and `nxt` are the locals. A step that no longer
fits the list ends the run with `torn`, as in `Kernel`; a pop of an empty queue, whose answer the loop does not test, with
`null_pop`. Freeing the stack of a slot that was never used, or was freed before, may
free memory that belongs to another task by now; that is one of the outcomes of
`KillFreeStack`.

### TaskQueue, TaskQueueReady

`Kernel` has the lists as sequences; `TaskQueue` has them as the code does, `mem.first[q]`, `mem.last[q]`,
`mem.next[t]`, with no `next` ever cleared. What surrounds them is reduced to what moves tasks: `create` is part of
`Ready`, a time slice may end with any tick, there is one semaphore. `Lists` maps the lists to the sequences of
`TaskLists` by following `next` (`Items`); a step of the code must be a step of that module, so a task that is lost,
linked twice or out of order is found, and so is a list that never ends (`Items` is then longer than there are tasks).
`LastIsLast` says what the next push relies on.

`TaskQueueReady` replaces `Ready` by five steps, the loads and stores of `queue_push` that a handler can see, in the
order of `kernel.list`. A store of a handler through a NULL `last` ends the run there.

### Heap

Memory is counted in units of 8 bytes (`sizeof(struct memblk)`), to which every length is
rounded; a unit is named by its address, and the fields of the `memblk` there are
`mnext[x]`, `mlength[x]`. `Take` is `getmem` from the first node that fits, `Insert` is
the second half of `freemem`. `Malloc`, `MallocFails` (the semaphore stays taken),
`MallocNothing`, `Free`, `FreeFails` are the outcomes of the two calls. `Write` is a caller
that writes into its block, at worst what looks like a header. `Free` is called with
blocks in use and with blocks freed before whose memory nobody owns, which is what a
second `kill` of a slot does.

Lengths are counted modulo `Word` (2^32). A request so long that `roundmb` takes it to 0
while `length` is not 0 would be given a node that stays on the list; `LengthAssumption`
excludes it. The heap of the shipped image starts on a multiple of 8 (0x200028d0), the linker
script only promises 4; with a remainder of 4 a leftover could be too small for its
header.

A call is one action: threads are kept apart by `sem_malloc` (`TokenConserved` of
`Kernel`). A supervisor call that enters while a thread is inside is the exception, and
is not modelled here.

### RxRing

`cdc_loopback` is one action, a packet of up to `DataSize` bytes; a reader takes one step
per load or store of a shared variable. `main` reads until `usb_getc` answers something
other than 0 (which NO_DATA does), then the shell reads lines, `BufLen` bytes at a time.
`lastRxError` is an uninitialised local: without an overflow its value is a
nondeterministic choice; the listing in the repository shows the overflow code.

### UsbDevice

One action per event that `evt_poll` finds, with the callback it makes: a reset in its two
halves (`PollReset`, `PollEnumerated`), completed IN packets (`PollTx0`, `PollTx1`), entries of
the receive FIFO (`PollSetup`, `PollOut0`, `PollOut1`, `PollCompleted`), in the order in which
`evt_poll` looks for them. `usbd_process_eprx` is split as its `switch` is: `Begin` reads a
request, `Process` answers it, `PollOut0` is what the other states do with a packet.

The rest is the peripheral and the host, modelled as the driver relies on them: a SETUP packet
is always taken, makes endpoint 0 answer NAK and ends a STALL; a packet received is followed by
a completion entry, and until `evt_poll` has found that entry the endpoint takes no other;
the transmit FIFO sends its oldest bytes first, as many as `DIEPTSIZ` says. The host makes
any request of `Request` one after the other, may go to the status stage early, give a
transfer up at any point, reset the bus, type and read the console. A unit of data carries the
request it answers and its place in the answer, so a stale or a missing one is seen.

Lengths count units of half an endpoint 0 packet. Left out: SET_FEATURE and CLEAR_FEATURE
of an endpoint, `device_cfg`, the room in the transmit FIFO of endpoint 0 (64 bytes for packets
of 8, flushed at each SETUP), completion callbacks (none is ever registered), suspend and
wake-up (events without a handler). Excluded by guards, each listed as a hazard or here: packets
typed while the configuration changes; a configuration set again; console output without
a configured host, where `lib_putc` spins for ever; a host that gives up, or cuts an answer short,
and asks again before the device has handled the events that are pending; and, by the
choice of `Request`, a write longer than the request buffer, whose data may be taken in between by
a late "SETUP completed".

### SpiFlash

A cell stands for the bytes of half a sector, or for one entry of a FAT or directory sector: what the code writes and
tests as a whole. `todo` holds the sector writes the file system has asked for. One write is `WriteBegin` (read the
block, look for anything but FF in the sector), then, when something is in the way, `SPI_Flash_Erase_Sector`, which keeps the block with
the new sector in `src`, and one `SPI_Flash_Write_Page` for each page. Programming clears bits only (`Programmed`) and wraps
within the page (`PageAddr`). The power may fail between any two commands (`FlashLoss`).

`Stored` is the array of `Disk` the driver implements: the chip, except that cells erased and not programmed yet count as
programmed. A write takes effect when its block is erased, or its first page sent. A failure may take cells of one block.

### Fat

Operators on `v = [buf |-> the FAT buffer, todo |-> the writes asked]`, one for each function of the library that the
commands reach. The disk functions always answer 1, so a call cannot fail half way; it is the list of the writes it makes, and reads
see the writes before it (`SectorAfter`). Kept: that the FAT is written when the buffer is purged or
another sector is loaded, and the directory at once; the search for a blank cluster from entry 0; erased directory entries, which count as space
but do not end the search; a full root directory, which the library extends through cluster 0 as if it
were a chain.

### ShellFiles

Each call a command makes (`fopen`, `fgetc`, `fputs`, `fclose`, `remove`, `fl_format`) is one action; the next one waits until
the flash has made its writes. `PowerLoss` may come before any flash command: RAM is forgotten and `main` mounts the
disk again, or gives up (`up`). History variables say what the files should hold (`told`), which files a failure may
have damaged (`risk`), what it interrupted (`lostIn`: a format, or a creation that has changed the FAT and not
written it yet, `FatPending`) and the names given to `rm` (`kept`), which never closes its handle.

`told` follows what the library says its functions do: `cat >` leaves the new text and no more (`fl_fopen`, "its
content is erased", `fat_filelib.c:710`), `rm` removes (`fat_filelib.c:1411`). The code does neither: `FILE_ERASE`, which mode `w`
sets, is never read, and `rm` holds the file open while it calls `fl_remove`. `stale` is the set of files for which the two differ;
of those, `FilesSurvive` and `ReadsBack` ask only that the content begins with what was written last, and the run `files_erase` shows that the rest is not
gone (section 5); after `rm` nothing is gone.

`Load` is `elf_execve`: the file is read and closed; or there is no memory for it or for its segment, then it is closed but the
`free` behind it never returns (`drop`, then `spin`); or a second segment is to be loaded, and `while (1)` is reached with the
file open. A thread in `spin` never comes back to the prompt.

Left out: commands in the background; subdirectories (`mkdir` is commented out); `_write_sectors` beyond the first
sector (a line has 64 characters); clusters that the table has and the volume has not; `ls`, `dump`, `cd`, which read only.

## 3. Runs

| Run | Instance | Shows |
|---|---|---|
| `kernel_core` | 5 tasks, time slice of 1 tick, delays 2 and 3, 6 ticks; the shell and loaded programs create tasks, supervisor calls of all kinds, the ones that fail included | `NullReady`, `NoNullActive`, `OnOneQueue`, `QueueMatchesState`, `NoOversleep`, `TokenConserved` and `WakeNotEarly` over boot, sleep, semaphores, create, `ready`, exit and supervisor calls, up to the first fault (1.0 million states) |
| `kernel_live` | 4 tasks, one delay, background commands that create tasks too, calls that sleep, toggle pins and allocate | `RunnableRuns`, `SleeperWakes`, `TokenGranted` under `FairSpec`, or a fault |
| `kernel_kill` | 4 tasks, one kill of task 1 or 2, loaded programs that create tasks and exhaust the heap | `FoundIsUnlinked`, up to a torn list (0.7 million states) |
| `queue` | 4 tasks, delays 2 and 3, 5 ticks | refinement of `TaskLists`, `LastIsLast` |
| `heap` | 7 units, requests of 2 and 3 units and one that wraps to nothing | the structure of the list, double free, refinement of `Allocator` |
| `rx` | ring of 4, packets of up to 4, buffer of 3 | refinement of `RxFifo`, `BytesAreTaken` |
| `usb` | packets of 2 units, a buffer of 4, eleven requests: answers that end in a full packet or not, longer and shorter than asked for, writes of two packets, both configurations | `AnswersAreWhole`, `KnownIsServed`, `ConfiguredIsActive`, `TransferEnds` |
| `files` | 7 blocks of 2 sectors of 2 cells; one file of two clusters to start with; three names, one text of two values, three commands, two power failures, two handles | refinement of `Disk`; the file system: `NoCrossLink`, `NoLostCluster`, `FilesSurvive`, `ReadsBack`, `FatBufferCoherent`, `StillBoots`; the commands: `HandlesAccounted`, and `CommandEnds`: a command that neither reads a damaged file nor fails to load a program comes back to the prompt (0.5 million states) |
| `kernel_kill_free`, `queue_ready`, `usb_console`, `files_erase` | the last: `files` without failures | what a comment of the code says and the code does not do (section 5) |

Why the bounds are enough. Five slots hold the null task, blink, usr, the shell and one
command, or a second one when usr has gone, so a slot is reused while its last owner is
still on its way out; a slice of one tick lets every step be followed by a switch.
Three sleepers never coexist in the programs of the repository, two with different delays
do. `MaxStacks` is 5 in `kernel_core` and 4 in `kernel_live` (create fails more often). Two programs that create at a
time are enough for both to claim one slot: in `kernel_core` the shell and a loaded program through the supervisor call, with the
table and the heap full or not; in `kernel_live` the shell and a background command. Six ticks let a sleeper that was linked behind a later
one oversleep. One kill at a time: with two, `FoundIsUnlinked` is false of the code, since the
second may free a slot that the first has freed and `create` has given to another task. Seven units give three blocks with free neighbours on both
sides, which is all that `freemem` looks at. A ring of four wraps within one packet, and a
packet is longer than the room there ever is, as 64 is against 63. Four units are two full
packets of endpoint 0, so first, middle, last and empty packet all occur. In `queue` three tasks sleep with different
times, so one is linked before, between and behind others, and every list takes up tasks with a stale `next`.
In `files` a block holds two sectors, the FAT ends in a block with the directory behind it, and a directory of two slots is full after one more
file and is extended for the third: a block of one sector would let no failure touch a neighbour. Two handles are used up by two `rm`, and the third
command meets that; three commands are create, overwrite or remove, and read. The text fills a sector: it is longer than what `touch` left,
whose entry is then written again, and shorter than the file of two clusters, whose tail it leaves. The second failure
meets a disk that the first one left in the middle of something.

Fairness. `WF(PendSV_Handler \/ TornPush)`: a pending exception is taken as soon as interrupts are
enabled, and no masked region is a loop. `SF(TIM2_Handler)`: the timer reloads itself and
its flag stays pending while another handler runs. `SF(Finish(t))`, the steps that finish a
call once begun, those of `ready` included: a task that is dispatched again and again gets a slice of 10 ticks, longer than the few
instructions between two steps. Nothing is assumed of the steps that begin a
call. For the ring `WF(Reader)`, which is what `RunnableRuns` gives; nobody has to press
the button. For the files `ShellRuns`, weak fairness of the steps of
the shell's thread (written with its ENABLED condition spelled out), which is again `RunnableRuns`, and `WF(FlashWrites)`: the chip ends
every command. For USB `WF(evt_poll)`, the interrupt is level-triggered and masked only for a while;
`SF(PollRx)` and `SF(PollTx0)`: as long as an event is pending the interrupt is taken again before any
thread runs, and each call starts at endpoint 0, so console output cannot put off the
control endpoint for ever; `WF(HostGoesOn)` and `WF(HostReads)`: the host finishes what it began and reads
what the console sends.

## 4. What is proved

For every value of the constants that meets the assumptions of the modules: any number of tasks, any slice, any set of
delays, any heap, any ring, any set of control requests, any geometry of the flash and of the file system, any set of
files and texts. A theorem that needs more names it as an assumption of its
own; each of these holds in the instance of the run that checks the same property.

| Assumption | Says | Why |
|---|---|---|
| `ClockAssumption` | no delay of one tick; `sys_time` does not wrap | every caller in the repository sleeps longer; 2^32 ticks are 17 days or more. Without it a task is linked twice, or a sleeper wakes early (section 5) |
| `DelayAssumption` | no delay of one tick | as above; in `TaskQueue`, whose clock stops before it wraps |
| `LayoutAssumption` | the boot sector shares no erase block with a FAT, and the chip has the clusters of the table | 8 reserved sectors are 4096 bytes, one block (`fat_format.c:150`); the W25Q128 has room for the 15870 clusters of 62 FAT sectors. The first is what `BoardStillBoots` stands on |
| `MarkAssumption` | the mark of a free FAT entry looks like no other | 0 against 0xFFFF, the media entry and clusters from 2 on |
| `EndAssumption` | no cluster number looks like a mark of the FAT | the last of 15870 clusters is far below FFF8; the cell of which half was programmed twice (`Garbled`) is no number |
| `EntryAssumption` | the entry of a file looks like no blank, deleted or erased one | it begins with a letter of its name |
| `StartAssumption` | the chip has been formatted and holds files | any disk whose boot sector, FAT entries and directory entries have their form; it may hold crossed or broken chains |
| `SoundStartAssumption` | on the disk at the start no cluster and no name is referred to twice, and nothing refers to a free cluster | that is what the library itself leaves behind (`LinksHold`); only the theorems on chains cite it, the others hold for the damaged disks of `StartAssumption` too |
| `WholeStartAssumption` | on the disk at the start every cluster in use is a file's, unless its root directory was extended | as `SoundStartAssumption`, by `NoLostClusterHolds` |
| `WritesFit` | a write of the host fits in the request buffer | the class requests this device knows are 7 bytes at most. With a longer one that is given up, a completion entry left in the FIFO enables endpoint 0 while the next SETUP waits behind it: its data is taken for a request |

### Kernel

`PendSV_Handler` does not check what `queue_pop` returns. `KernelProofs` shows when it need not: `NeverNullActive` says that
`active_task` never becomes NULL, and `NullAlwaysReady` that the null task can be dispatched, in every run up to
its first fault. The fault that matters here is `torn`: an interrupt that falls between two stores of `ready()` may empty
the queue or cut off the null task, and behind that nothing is claimed (finding 2). The proof goes through the stages of `ready()`
one by one. `NoNullActive` alone is not inductive: the queue can
only be empty if the null task is not on it, so `NullReady` is the strengthening; it is
kept because the null task never blocks, waits or exits, which in turn holds because, while it
still calls `create`, nothing else uses the heap. That is `BootAlone` (`BootIsAlone`), the inductive core:
until the plan of the null task is empty only blink runs, which never touches
`sem_malloc`, at most two stacks are held (`MaxStacks > 2`), and nobody has claimed slot 0. With the types (`TypeCorrect`) they are `IInv`.

`KernelQueueProofs`: `QueueMatchesStateHolds`, `OnOneQueueHolds` and `NoOversleepHolds` come from
`QueueInv`: no queue repeats a task and no two semaphores share a waiter (`QueuesDistinct`), the state names the
queue, the active task is `CURR` or has just given up the processor (`ActiveState`, `SleepWindow`: between the push of `sleep` and its request of
PendSV the caller stands on the sleep queue and still runs), and the sleep queue is sorted by `due`. The last is
what lets `TIM2_Handler` look at the head only. Sorted insertion and the pops are the lemmas on sequences.

Anybody may create. That two creators may be given one slot is not excluded, and a run in which both fill it ends in
the fault `slot_taken`; what the queues need is less. `MadeInv` says it of the tasks between the end of `create` and the store of
`ready()` that links the new one: the slot such a task holds is suspended, or marked and on no queue, and no other task
in one of these stages holds it, because `create` fills a free slot only. So a push never meets a task that is
linked, and the exception in `QueueMatchesState` (`Unlinked`) is exactly a task in these stages. `QueueStep` states that `QueueInv` and `MadeInv` are kept together.

`TokenConservedHolds` comes from `TokenInv`, with the part of `MadeInv` that says that a slot that is free or suspended is not
inside a section (`create` resets its `pc`). The proof counts: `sem_wait` of a thread, `sem_wait` of a supervisor call that
runs past it, `sem_signal` that hands the token on, each change `Holders` and `Overrun` by one task (`TokenTaken` and the lemmas
behind it); a malloc that fails turns a holder, or the token itself, into one of `leaked`. `WakeNotEarlyHolds` needs the types and `MaxTicks < Word` only.

Of `KernelKill` the types are proved (`KillTypeCorrect`): `KillInv` adds to them that, between a pop and the push behind it, `tmp` is a task. `FoundIsUnlinked` is
only model-checked, for one kill at a time; with two it is false, and with one a proof would have to carry `QueueInv` through
lists of which a task is missing while `kill` holds it.

### Task lists

`ListsImplemented`: the pointers of `TaskQueue` implement the sequences of `TaskLists`. `Chain(m, q, s)` says that `first[q]` and `next`
link the tasks of `s`, none twice, that the last `next` is null, and where `last[q]` points; `Linked(m, L)` says it for the three lists
and that no task is on two. There is a lemma for each function of `queue.c`: `LinkedPush`, `LinkedPop`, `LinkedPushsort`
(whose loop stops where `StopsAt` says, `StopIsThere`), and `ExpiredMoves` for the loop of `TIM2_Handler`. `WalkFinds` closes the circle: `Items`, which follows
the pointers, finds the sequence that they link. The three recursive functions involved are unfolded with a least
counterexample.

None of this is inductive alone: pushing a task that is still on a list ties a cycle. `QueueInv` adds that the state
of a task tells its list (`Placed`), that the running task is on none of them except between the push of `sleep` and PendSV, when its
time is two ticks away (`Running`), that the sleepers are sorted, and that one task at most holds the semaphore (`Section`), or its value
would pass 1. Each action is then one lemma, which gives the step of `TaskLists` too. `LastIsLastHolds`, `QueueTypeCorrect` and
`ReadyIsQueuedHolds` follow; the last is the invariant that `queue_ready` refutes when `ready()` can be interrupted.

### Heap

The inductive invariant `IInv` is `HeapTypeOK /\ Partition /\ FreeList /\ Header
/\ TotalIsFree`. From it come the five invariants of the run `heap`, `FreeAgainIsHarmless` (a
pointer into free memory is inside one node, so the walk of `freemem` stops at that node or
behind it and finds an overlap) and `HeapImplementsAllocator`: initial states map to initial
states, and each action to `Grab`, `Refuse`, `Release` or a stutter. `Refuse` needs that
neighbours are always joined, or a long enough free run could be cut in two.

### Receive ring

`RingImplementsFifo`: `RxRing` implements `RxFifo`. The mapping counts the bytes between tail and head, starting at
`Wrap(tail + 1)`; the lemmas reduce the remainders of the code to one subtraction so that they say when two slots are the
same. `RingInv` adds to the types that the reader, once it has seen a byte, still has one when it reads the tail: only
the reader takes bytes, the handler only adds.

### USB control endpoint

`UsbTypeCorrect` holds for any set of requests. `AnswersAreWholeHolds`, `KnownIsServedHolds` and
`ConfiguredIsActiveHolds` come from `UsbInv`. While the bus is up, host, peripheral and device are in one of eight stages of a
transfer (`Protocol`): none; cut short by the host; a request the device has not seen (`Fresh`: the SETUP is entry `k` of the FIFO, what
is before it belongs to the transfer before, what is behind it to this one); refused; its data being taken; confirmed;
the answer being sent; the status stage. Each says what is in both FIFOs, which events are pending, and
in which state `usbd_process_eprx` is. None of the three properties is inductive without it:
an event left over from one transfer is harmless only because the state it finds ignores it. `UsbInvStep` is the proof by events.

### Serial flash

`FlashImplementsDisk`: `SpiFlash` implements `Disk`. `FlashSpec` puts the driver under any caller that waits for the writes it has
asked for, with the power failing between any two commands; page, sector, block and chip have any size, as long as
a block is a whole number of sectors. `FlashInv` is the type of what lies on the chip and is under way, and, while a block is being
programmed, that every cell in flight is erased and of one block, and that there is something left of `src`. So a program
command writes what it is given, since it clears bits only, it never wraps within its page (`PageAddr`), and a failure loses cells of one block.
The lemmas on quotients and remainders say when two addresses share a page, a sector, a block. The theorems take what a
cell may hold as a parameter, so that `FilesProofs` can use them for the driver under the shell.

### File system

`FilesInvHolds` is the induction; `FilesTypesHold`, `FatBufferStaysCoherent`, `HandlesAreAccounted`, `BoardStillBoots` and
`FilesImplementDisk` follow from it. `FilesInv` has one part for each thing that must agree with another:

- `DiskOK`: what lies on the chip, and what is asked for, has the form its sector calls for. An entry of a FAT is a mark or a
  cluster, never 0 or 1; a slot of the root directory is a mark or an entry. Without it a chain could lead to a sector that
  is not there, and a write to another's.
- `BufferOK`: the FAT buffer holds a sector of the first FAT, and, when it is not dirty, equals what that sector will be once the
  writes under way are made (`Final`). `FatBufferCoherent` speaks of the moments in which none is; it is not inductive because a call
  loads, changes and purges the buffer between two of them.
- `BootOK`: outside a format every write goes behind the reserved sectors, so the block erased for it is never the first.
- `CmdOK`, `HandlesOK`: where each command may be, and that the handles are those of `kept` and the one of the command.

Each function of `Fat` and of `ShellFiles` has a lemma that it turns a good view (`GoodView`: a good buffer, good writes, and the two
agreeing) into a good view: loading and purging the buffer, walking and extending a chain, the directory, open, read, write, close,
remove, format. `AfterApplied` connects them with the driver: a write that has been made may be dropped from the list without changing
what the disk will be. The walks along chains are recursive functions; that they exist and stay within the table is
`Recursion` and `WalkIs`, by the induction described below.

`NoCrossLinkHolds`: no cluster is in two files and no name in two entries, unless a power failure took a change of the FAT that
had not been written, or struck a format. Chains are not mentioned by the invariant it rests on. `Sound(E, D)`
says of a table and a directory that no cluster is referred to twice, by the first cluster of an entry or by a link, that nothing
refers to a free cluster, and that no name is entered twice. From that `Chained` and `ChainsApart` derive that the walks from two
entries never meet: the first cluster they share would be referred to from both. The induction is along the walk and so for chains
of any length. `LinkInv` then has to say of which table it speaks:

- `Ending` is what the disk holds once the buffer and every write under way are on it. It is `Sound` between any two calls, and
  this is what creating a file keeps: the blank cluster it takes is marked at once, so nothing refers to it but the new entry.
- A failure drops the tail of the writes, and the buffer. So `LinkInv` says in which order they come: if the FAT
  is changed at all, the change is still in RAM or the last of the writes is one of the FAT (`Ordered`), and a
  failure before then counts as an interrupted creation. If nothing of the FAT is pending, the directory is written
  once at most (`Single`), and what is on the chip already is `Sound` by itself.

A change of a table or of a directory is taken apart into changes of one cell (`OneCell`, `Referred`): marking a free cluster as the
end of a chain, linking an entry to a used cluster nobody refers to, freeing one that nobody refers to, entering a name.
Each of these keeps `Sound` (`EndSound`, `LinkSound`, `FreeSound`, `EnterSound` and those behind them); the lemmas for the functions of `Fat` and `ShellFiles` say which of them a call
makes and in which order (`Keeps`, `Beside`, `Grown`, `Entered`, `Lasting`).

`NoLostClusterHolds`: without a failure every cluster in use is on the walk from some entry, until the root directory was
extended. That is reachability, which a step would have to follow along every walk; and "each used cluster is referred to", which a
step can keep, is not enough, since a ring of clusters refers to itself. `Owned(E, D, X)` says it of sets: into every set of used
clusters, except those of `X`, a file or a cluster outside it leads. A ring, or any other group of lost clusters, is a set into
which nobody leads. Marking a blank cluster makes `X` that cluster, entering the file or freeing the cluster makes it empty again, and
extending a chain adds its new cluster to the sets (`MarkOwned`, `EnterOwned`, `FreeOwned`, `GrowOwned`; `ChangeOwned` when an entry
gets its length). At rest the clusters in use that no walk reaches would be such a set: a cluster that leads into it is used, so it is
on a walk, and the walk goes on (`OwnedDisk`). For that a walk must not stop before its chain does. `ChainIn` takes as many steps
as the table has entries, and by `ChainDistinct`, the pigeonhole theorem and `ChainEnds` no chain of a sound table is longer.

Writing this down corrected the model. `Interrupted` used to tell a creation by `told`: the name was that of no file. A failure that takes a
directory entry leaves `told` as it was; creating the same name again and failing a second time then
counted as nothing interrupted, although the new entry had a cluster the FAT still called blank, and the next file got the same one. The property,
as it was stated, is false with two failures and a root directory of more than one block (the instance of `files` is too small to show
it; one with `BlockSize = 2`, `RESERVED = 1`, `ROOT_SECTORS = 2` does). `Interrupted` now asks what is pending
(`FatPending`); as proved, this holds for any number of failures.

Two more changes of the model came out of these proofs. A chain of a damaged disk may hold a link of 0: the walk of the model ended
there, while in the code only freeing and extending a chain stop at it, and reading goes on at cluster 2
(`fat_table.c`, "Why is '..' labelled with cluster 0"); `Walk` now does the same. And the layout needed
`LayoutAssumption` in full: with a FAT in the first block a failure takes the boot sector.

### Only model-checked

Liveness (`RunnableRuns`, `SleeperWakes`, `TokenGranted`, `BytesAreTaken`, `TransferEnds`, `CommandEnds`) and the findings,
which TLAPS does not treat; `FoundIsUnlinked` of `KernelKill`; and of `ShellFiles` two properties, `FilesSurvive` and `ReadsBack`.
They relate the contents of the data sectors, cell by cell, to the history variables `told` and `risk`, through each
prefix of the writes of a call and each block that a failure may tear; the geometry of one cluster, the length of a file and the number of
clusters of its chain enter together. No induction for them was found that is much shorter than the model.

The library's induction theorems take an operator and cannot be used. Where an induction is needed, it is either a least
counterexample (`queue_pushsort` in `KernelProofs`) or `IntervalInduction` of `FilesProofs`, which states induction up to N of a set
and has it from the pigeonhole theorem of the library: without the conclusion the successor would map a finite set injectively
into a smaller one. `LeastElement`, `GreatestElement` and `Recursion` (a function defined by recursion exists) follow.

`BootAlone`, `IInv`, `QueueInv`, `MadeInv`, `TokenInv`, `KillInv`, `RingInv`, `UsbInv`, `FlashInv`, `FilesInv`, `LinkInv` and `QueueTypeOK` are proved and not part of a run.

## 5. Findings

1. `kernel_kill_free`: `ready()` marks queued tasks `PR_CURR`; `kill` of one frees its slot
   and leaves it on the ready queue.
2. `queue_ready`: `ready()` of a thread pushes with interrupts enabled; a tick between the test of `first` and the store to it
   wakes a task that the store drops from the queue, or leaves the null task unreachable.
3. `usb_console`: a console byte that completes between the data and the completion entry of
   a packet received makes `ep_read` drop that entry; the console receives nothing more until
   it is configured again.
4. `files_erase`: `FILE_ERASE`, which mode `w` sets (`fat_filelib.c:735`), is never tested: `cat >` over a longer file keeps the tail of
   the old one, though its content "is erased and the file is treated as a new empty file" (`fat_filelib.c:710`).

Met while modelling, without a run of their own:

- Two creators get the same slot: `irq_restore` and the semaphores enable interrupts whatever the mask was, so the masked region in
  which `create` chose it ends inside `malloc`. The run `kernel_core` reaches this (fault `slot_taken`).
- With a full table `newpid` answers -1 and `create` writes in front of it (fault `bad_slot`).
- A task on its way out runs on a stack that `kill` has freed, and that another `create` may be given and clear (fault `stack`).
- `malloc` that fails keeps its semaphore (`malloc.c:174`): `run` of a program that does not fit never returns.
- Two kills at once may free a slot that is in use again.
- Near the wrap of `sys_time` a sleeper wakes at the next tick (`clkhandler.c:23` compares unsigned).
- `panic()` masks interrupts and is preempted all the same: the pins it drives take a semaphore.
- `rm` calls `remove` while it holds the file open itself (`shell.c:337`); `fl_remove` ("Remove a file from the filesystem",
  `fat_filelib.c:1411`) then removes nothing, and the handle stays; after three of them no file opens.
- In a full root directory each new name loses a cluster (`fat_write.c:236`).
- A power loss while a file is created may leave its directory entry with a cluster still marked blank, which the next file gets too;
  `cat` of a file whose chain is shorter than its length never ends.

## 6. Plan

In this order; the first group is done.

1. `Kernel`, `KernelKill`, `Heap`, `Allocator`, `RxRing`, `RxFifo`, `UsbDevice`, with the theorems
   above: done.
2. `TaskQueue` and `TaskQueueReady`; `SpiFlash` and `Disk`; `Fat` and `ShellFiles`: done.
3. Proofs: the queues and semaphores of `Kernel`, the types of `KernelKill`, `RxRing` implements `RxFifo`, the safety invariants of `UsbDevice`,
   `TaskQueue` implements `TaskLists`, `SpiFlash` implements `Disk`; the types, the FAT buffer, the handles, the boot sector and
   the disjoint chains and the lost clusters of `ShellFiles`: done. Left: the contents of files, and
   `FoundIsUnlinked` for one kill at a time.
4. `getmem` step by step, with a supervisor call that enters it.
5. Background commands on the file system, which needs the library statement by statement.
6. Last, as nothing calls it: the bulk only transport of `msc.c`.

Not modelled, and why: `XINU_KILL`, which runs `kill` inside the supervisor call handler, where its waits cannot block: `KernelKill` would
have to be repeated for it with other steps, and only loaded programs are offered that call (`sys_kill`); the set-up of the USB peripheral, SPI, flash controller, boot code and pins are
registers; the SD driver has no caller; the C library, printf and the vendor headers are pure
or third party; of the FAT library what no command reaches (FAT32, subdirectories, seek, writes of several sectors,
the encoding of long names) is left out; the ELF loader is data apart from its calls of the heap and of the file system.
