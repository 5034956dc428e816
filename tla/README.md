# bec_boot: verification of the SD-card boot loader

TLA+ models of `bec_boot`, the boot loader of a remote terminal unit (STM32F4,
RT-Thread, SD card), the TLC configurations that check them on small instances,
and proofs that TLAPS checks for every instance. The program's own code is
`src/bec_boot/applications`; the rest of the tree is RT-Thread, the ST drivers
and generated files, of which the models take in what the applications rest on.

## 1. The system

```
 PC --- serial line --- console ring --- ymodem receiver --- ymodem_ota ---+
                              |                                            v
                            shell --- copy, rm, file_contrast --- DFS / FatFs --- SD card
                              |                                            ^
 main: mount -- Enter? -- check -- release -- backups -- jump -------------+
                                      |
                               FAL partition -- flash driver -- on-chip flash
```

A package (`.rbl`) is a 96-byte header and the image, each under a CRC-32.
Three live on the card: the OTA package the application or `ymodem_ota` stores,
the backup of what runs, and the version before it.

| component | state | operations | hard behaviours |
|---|---|---|---|
| Boot sequence: `main.c`, `rtu_boot.c` | three files, application flash, static buffer | check, release, update of the backups, jump, `rbl` | power loss at any step, an SD or flash operation that fails halfway, files left open by an early return, `rbl` run by the shell beside it |
| SD file helpers: `bsp_sd.c` over DFS v1 and FatFs | vnode table, descriptor table, FIL objects, directory | open, read with six tries, write, close with six tries, `copy_file`, `file_contrast`, remove | a retry through a descriptor that is still open or remembers its error, a full card, a failed close; two threads that open, close and unlink under two locks, neither of which guards the counts |
| SD mounting: `bsp_sd_mount` | device, file system | wait, mount, format and mount again | formats on any mount failure; endless retry |
| Directory removal: `delete_directory`, `gather_file_fetch`, `rtu_dir_delete` | directory tree | recursive removal, in a thread | removal beside other users |
| Firmware download: `ymodem_ota.c`, `ymodem.c` | stage, error count, bytes left, file | handshake, data, EOT and batch end; write with three tries | damaged, lost, repeated and late packets and answers, full card |
| YMODEM commands: `ry_sy.c` and the sender of `ymodem.c` | | `ry`, `sy` | waits for ever for an answer |
| Flash partitions: FAL | partition table | read, write, erase with bounds; the command `fal` | offsets at the end of a partition, sums that wrap |
| Flash driver: `drv_flash_f4.c` | flash words, sectors | read, program by word, half word, byte with read-back, erase | sectors of unequal size, partial programming |
| Serial receive path: `serial.c`, `drv_usart.c`, the readers in `shell.c`, `ymodem.c`, `rtu_boot.c` | ring of 64 bytes, a semaphore for the shell and one for a session, the callback of the device | interrupt puts and signals, threads get, sessions take the callback over | the oldest byte is overwritten under a reader; a byte between the look at the ring and the wait; two readers of one ring |
| SD host, MMC core: `drv_sdio.c` | command in progress, request queue | send command, transfer | timeouts; the card goes away |
| Output expander: `drv_ex_gpio.c` | cached output word | set, refresh | cache and device apart |
| CRC: `crc32.c` | | incremental CRC-32 | |
| Shell (finsh), kernel, HAL, packaging tool | | | third-party, generated, or a binary |

Interactions. `main` (priority 10) runs the boot sequence and ends, by a jump or
because Enter was pressed; the shell thread (priority 20) runs one command at a
time, and runs beside `main` whenever that sleeps or waits for the card. Both
call the file helpers, and `rbl` calls the release with the static buffer of
the boot sequence. The interrupt of the console fills the ring and signals the
receiver through a semaphore. The card and the flash are all that survives a
reset.

What makes each correct:

- boot sequence: the firmware that starts is whole, an update happens entirely
  or not at all however power fails, it happens in the end, no package is lost
  before the flash holds it, and the backups stay usable;
- file helpers: tables that agree, no descriptor lost but where the code forgets
  it, a copy reported as made is exact, no false "equal", every command ends; and
  two threads disturb each other on the files they share at most;
- download: what is stored is what was sent, in order and once; as many units
  as announced; sender and receiver agree on success; the receiver returns;
- flash: an erase touches the sectors of its range and no others, a write is
  what is read back, nothing outside the partition changes;
- serial: what is read is in the order in which it arrived, a reader does not
  sleep while a byte is there for it, and a session's reads return.

## 2. Modules

| module | models | state, and what it is in the code |
|---|---|---|
| `RtuBoot` | the boot sequence, call by call | `file`: the packages; `app`: the application area; `at`, `ph`, `n`, `good`: the call of `main`, its phase, chunks done and chunks right (the CRC of the read-back); `open`: files an early return left open; `released`, `installed`, `previous`: history |
| `AtomicUpdate` | what an update promises | `target`: the firmware of the next start; `running` |
| `SdFile` | the file helpers, over DFS and FatFs | `disk`, `room`: contents and free space; `vnode`: the reference counts of the hash table of `dfs_file.c`; `desc`: the descriptor table, with the FIL object a descriptor has or lacks, its offset, its sticky error and whether the directory entry is behind; `cmd`, `pc`, `fd`, `buf`, `rtry`, `wtry`: the command |
| `Ymodem` | receiver, callbacks, line and sender | `rpc`, `stage`, `tries`, `errors`: the receiver; `left`, `packet`, `wtry`, `file`: `ymodem_on_data`; `spc`, `sfile`, `sseq`, `resent`: the PC; `toRcv`, `toSnd`: the line |
| `DfsThreads` | `open`, `close`, `unlink` of DFS by two threads | `fds`: the descriptor table; `vnodes`, `ref`: the hash table and the counts; `fmLock`, `fdLock`: the owners of `dfs_fm.lock` and `fdlock`; `at`, `path`, `slot`, `reg`: a thread in its call, `reg` the count it has loaded; `hold`: what its caller has open; `shared`, `raced` (files of which two opens or closes have overlapped), `after` (descriptors that reached a vnode since a thread's test): history |
| `Flash` | `rb_fw_release` and the command `fal` over FAL partitions, the flash driver and the HAL | `mem`: the cells; `call`, `ph`, `done`, `last`: the FAL call in progress and the result of the last; `rel`, `pos`, `pkg`: the release above it |
| `SerialRx` | interrupt, ring, semaphores and readers of the console | `reg`: the data register; `buffer`, `put`, `get`, `full`: `rx_fifo`; `rxInd`: whose `rx_indicate`; `sem`; `main`, `op`, `st`, `left`: the readers; `last`, `took`, `drops`: history |
| `RtuBootProofs`, `SdFileProofs`, `YmodemProofs`, `DfsThreadsProofs`, `FlashProofs`, `SerialRxProofs` | theorems about the modules they are named after | |
| `DfsUnlinkProofs` | further theorems about `DfsThreads`, on top of `DfsThreadsProofs` | |
| `MCRtuBoot`, `MCSdFile`, `MCYmodem`, `MCDfsThreads`, `MCFlash`, `MCSerialRx` | instances for TLC | |

`RtuBoot`. One action per call of `rtu_boot_startup` and, inside a release or a
copy, one per chunk, so that a power loss (`Crash`) falls between any two chunks
and in the middle of one. `Check` is `sd_check_firmware_validity`: -1 for a file
that is absent, 0 or 1 for what header, body CRC and `algo2` say, and it leaves
the file open when it returns early. `Remove` is refused for an open file
(`dfs_file_unlink`), and an open of it ends in an assertion of `dfs_elm.c`.
`ReleaseOpen`, `ReleaseErase`, `ReleaseChunk`, `ReleaseVerify` are
`rb_fw_release`; each may fail where an SD or flash operation may. `CopyOpen`,
`CopyChunk`, `CopyClose` are `copy_file` as the boot sequence sees it. Contents
of a package are abstract: whole, torn, refused for its `algo2`, or good.
`FindCard`, `Mount`, `Format` are `bsp_sd_mount` with its loop; `Rbl`,
`RblCheckBack`, `RblCheckLast`, `RblJump` are the shell command `rbl`, which uses
the actions of the release when the boot sequence has ended.

`SdFile`. One action per call of DFS. What a second open of an open file does (a
descriptor without FIL object), what FatFs remembers of an error, what a lost
FIL object means for the directory entry, and the short count of a full card are
in `OpenOk`, `ReadOnce`, `CloseTo`, `CopyWrite`.

`DfsThreads`. A step is what no other thread can divide: a load or a store of a
count, a piece of work under a lock, or a call of FatFs, which has a lock of its
own. `FindVnode` and `CountUp` are `dfs_file_open`, which for a file that is open
already releases the lock before it looks at the count (its second unlock is
refused, as the thread is not the owner). Every later look at the count is a step:
`ElmOpen` and `FirstOpen` the two of an open, `OpenFailed` and `Undo` the decrement
and the test of one that fails, `CloseVnode`, `ElmClose`, `SoleClose` and `LastClose`
the four of `dfs_file_close` around `f_close`, `Release` and `CountDown` those of
`fdt_fd_release`. A vnode that is freed while a descriptor or another thread has it
becomes `"freed"`, and the model ends where a thread uses it. `On(p)` is what the count of `p` counts, the descriptors that have
its vnode; `Reached(p)` adds those whose vnode was freed while their callers held them.

`Flash`. One action per sector of an erase and per unit (word, half word, byte)
of a write; each may fail, and a power loss may leave one half done. `GetSector`
is the chain of comparisons of the driver over a scaled-down table with sectors
of unequal size, and `Modulus` the width in which FAL adds offset and size. The
release above reads chunks, writes them, and compares the CRC of what it read
back; `Fal` is any call the operator may type.

`SerialRx`. A step of a thread is one section with interrupts disabled. The
interrupt runs between two of them and finishes before a thread goes on; the
shell does not run while `main` polls.

`Ymodem`. A step of the receiver is one code or packet read and answered; a
write of `ymodem_on_data` is a step of its own, once per try. Packets carry
`Width` units, the last padded; the header carries the size unless `SizeSent` is
false. The seven CANs of an abort are one. The end of `ymodem_ota` (file kept
and reset, or file deleted) is in `FinPacket` and `Fail`. The sender is the usual
YMODEM program: it repeats on NAK and on its own timeout, goes on on ACK, and gives
up a packet after `MaxResend` repetitions.

## 3. Runs

| run | instance | shows |
|---|---|---|
| `boot_crash` | 3 packages (1 refused), 3 chunks, 2 power losses, no I/O failure, every initial backup | only whole images start; a half-written flash is always covered by an installable package; once installed, the backup is what runs; the package is deleted only when the flash holds it; the sequence implements `AtomicUpdate`; the package is started in the end |
| `boot_fault` | 3 packages (1 refused, 1 that no release can flash), 2 chunks, 2 failures, 1 power loss, `ymodem_ota` and `rbl` | a boot that wrote the flash starts only what it released whole, and so do `rbl back` and `rbl last`; refused packages never reach the backups; the sequence and `rbl` end, and a card that stops failing is not formatted for ever |
| `boot_last` (violation) | 2 packages | `last.rbl` is not the previous version |
| `boot_delete` (violation) | 1 refused package | it is not deleted: its check left it open |
| `sd` | 3 paths, a card with 3 free chunks, failing opens, reads, writes and closes, torn writes, 3 failures, a reset, a file copied onto itself | vnode and descriptor tables agree; exactly the descriptors the error paths forget stay open; a fresh copy reported as made is exact, or a prefix after a failed read; no false "equal"; every command ends, at worst in the assertion handler |
| `sd_full` (violation) | 1 free chunk, no failure | `copy_file` on a full card trips an assertion |
| `ymodem_damage` | 2 files of 5 units, packets of 2, 4 damaged packets, 3 failed writes | what is stored is what was sent, in order and once; data packets are retried |
| `ymodem_late` | 1 file of 3 units, 2 damaged or lost messages or answers, 2 early timeouts, 3 torn writes, a card that may fill up | as many units as announced; the sender is right about success; the receiver returns |
| `ymodem_answer` (violation) | 1 lost ACK | a packet is stored twice, the end of the file lost, success reported |
| `dfs_threads` | `main` and `tshell`, 2 files, 3 descriptors, 5 calls, opens and closes that may fail | descriptors stay exclusive; a file used by one thread at a time keeps an exact count and meets no assertion; `unlink` takes a file from a descriptor that reached it before the test only if opens or closes of the file had overlapped and freed its vnode; every call ends, unless the two have shared a file |
| `flash` | 2 partitions, sectors of unequal size, packages of several sizes, calls of `fal`, 1 failure, 1 power loss | a call that returned its size did all of it and nothing else; a release that returned 1 left the whole package, one that failed had a failure; the boot loader keeps its cells |
| `serial` | ring of 3, 6 bytes, reads of 3 | the ring holds the latest bytes in order, each byte is taken, held or overwritten once; nobody sleeps on a byte; reads end |

Bounds. Two failures or power losses are enough for one to hit the recovery
from another; `boot_crash` also starts from every combination of backups on
the card. Three chunks give a first, a middle and a last one.
`sd` and `sd_full` bound the card at a few chunks because a copy treats every
chunk alike; three paths allow a chain of copies. `MaxErrors` is 2 where the
code has 5 and `HsTries` 2 where it has 1000: a count is only compared with
its limit. Two files of a batch suffice, as the second begins where the first did.
`late` bounds timeouts that a message on its way would have met; timeouts with
nothing on the way are not bounded. Five calls let one thread's close and the
other's open of a file fall between two further uses of it: in the state space of
`dfs_threads` lost updates, freed vnodes in use, a closer without FIL object,
an unlink of a file opened since the test and one of a file whose holder's vnode was
freed all occur (checked by stating their absence, which TLC refutes). A ring of 3 holds two bytes, and six overrun it more than once.

`CHECK_DEADLOCK FALSE` in the `ymodem` runs: a transfer that is over stops; the
device resets or the shell goes on. In `dfs_threads` and `serial` the bounded
calls or bytes run out, and a thread of `dfs_threads` may stop in the assertion
handler.

Fairness. `boot_*`: weak fairness of the main thread alone, which no thread of
higher priority starves and whose SD and flash operations time out; nothing is
assumed of resets or deliveries; a card that fails only finitely often is the
bound `MaxFault`. `sd`: weak fairness of the command
that runs. `ymodem_late`: weak fairness of the receiver, whose waits all have
timeouts, and of the PC that reads an answer; none of the sender's timeouts. The
transfer ends only because the sender gives up in the end: after a lost ACK of
the header, receiver and sender otherwise repeat NAK and header for ever, each
repeated header clearing the error count. `dfs_threads`: strong fairness of the
steps of each thread, since `rt_mutex_release` hands a mutex to the thread that
waits longest or with the highest priority, and both threads sleep while they use
the card. `flash`: weak fairness of the driver and the release, whose HAL calls
time out. `serial`: weak fairness of the interrupt and of the call the shell is
in, strong of the end of the wait for Enter, which is a clock; nothing of
the bytes that arrive.

Every property of a passing run has a mutant of the code, listed in
`PROJECT.json`, that violates it.

## 4. Proofs

Every safety property that a passing run checks is also a theorem that TLAPS proves
for every value of the constants, some of them under a named assumption. Each has an
inductive invariant that is shown action by action. No theorem depends on fairness.

### The boot sequence: `RtuBootProofs`

About every set of packages, every number of chunks, every bound on failures and
power losses.

| theorem | states | assumes |
|---|---|---|
| `TypeCorrect` | `TypeOK` | |
| `JumpsCorrect` | whatever fails, a boot that wrote the flash jumps only into the whole image it released last | |
| `BackupsStayUsable` | whatever fails, no step stores a refused package as backup | |
| `WholeImageCorrect`, `RecoverableCorrect`, `BackupCorrect`, `OtaKeptCorrect` | the invariants and the action property of `boot_crash` | `CrashOnly` |
| `UpdateAtomicCorrect` | `RtuBoot` implements `AtomicUpdate` | `CrashOnly` |

`CrashOnly` is `MaxFault = 0`, `NoPart = {}` and `ShellUsed = FALSE`: no SD or flash
operation fails, every valid package can be flashed, packages come from the
application. Power losses are not bounded by it. Without `NoPart = {}` the
properties are false (section 5).

The argument. `TypeInv` adds to `TypeOK` that a call is inside a phase only where
such a call is made, and that a release inside a phase works on a whole package
(`PhaseOK`); without it, the tables that name the source of a release would be
applied outside their domain. `ReleasedInv` says, for every label, what the outcome
of the last release tells of the flash: nothing before a release, failed on the way
to the backups, whole on the way to the jump. It is needed because `JumpsToReleased`
speaks of the jump only, and holds there because of what the labels before it
promised. `UsableInv` says that what is about to be copied to a backup passed a
check that refuses the `algo2` field. `CrashInv` is the invariant of the sequence
without failures: no fallback label is reached, all chunks done are right, the OTA
package is good while the flash is being written and while the backups are renewed,
the flash holds it from the end of the release, and the backup holds it before it is
removed. Each is shown by one step per action. The refinement maps `target` to the
OTA package if it is installable and to the flash otherwise: storing a package is
the commit point, and the release, the copies and the remove of the package are
stutters, by `CrashInv`.

### Files on the card: `SdFileProofs`

About every card, set of commands, size of the descriptor table and bound on
failures and resets. `SdFileAssumption` asks only that chunks of real files are none
of the marks of the model (torn, end of file, error).

| theorem | states | assumes |
|---|---|---|
| `TypeCorrect` | `TypeOK` | |
| `VnodesCorrect` | a vnode counts the descriptors on its path, and FatFs has no file open twice | |
| `ReturnsCorrect` | a command that has ended has closed what it opened, but for what the code is known to forget | |
| `ContrastCorrect` | `file_contrast` reports equal only what is equal | |
| `FreshCopyCorrect` | a fresh copy reported as made is exact, or after a failed read a prefix | |

The argument. `Core` says what a command has in its hands at each of its calls:
`TablesOK` ties counts, descriptors and FIL objects to one another, `Pending` (in
`FdsOK`) names the descriptors that the calls still to come will close, and
`CommandOK` says which command can be where. Without `Pending` the end of a command
says nothing of the descriptors it opened ten calls earlier. `ContrastOK` says that
the two files agree up to the offset that both readers have reached, and `CopyOK`
that the destination is the first n chunks of the source, that the next write goes
to its end, and that no other descriptor has a FIL object on it; the last part is
what lets a write be resumed behind a close and a reopen. A file is changed only
through its one FIL object, so a reader's file is not changed under it.

### The download: `YmodemProofs`

About every size of file and packet, every batch, card and number of errors.

| theorem | states | assumes |
|---|---|---|
| `TypeCorrect` | `TypeOK` | |
| `SizeCorrect` | no more units are written than the headers announced | |
| `PrefixCorrect` | what is stored is a prefix of what was sent | `Calm` |
| `LengthCorrect` | success means as many units as announced, or as the card takes | `Calm` |
| `WholeCorrect` | success means all of it | `Calm`, `Room >= Size * Batch` |
| `SenderCorrect` | the sender ends with success only if the receiver did | `Calm` |
| `RetriesCorrect` | a transfer fails only after `RYM_MAX_ERRORS` damaged packets, a damaged header or last packet, or three failed writes | `Calm`, `Patient` |

`Calm` is `MaxLate = 0`, `~LoseCodes`, `SizeSent` and `~Tears`: packets are damaged
and lost in any number, but no answer is; neither side gives up waiting for a
message that is under way; the header has the size; a write is whole or fails. The
run `ymodem_damage` satisfies it. It is not a convenience: with one lost answer the
prefix is false (`ymodem_answer`), a header without a size stores nothing, and a
torn write is repeated behind what it left. `Patient` asks the sender to repeat a
packet as often as the receiver asks for it, which is `MaxResend >= MaxErrors`, and
at least once; an impatient sender ends the transfer first.

The argument. `SizeCorrect` holds on any line. Its invariant, `SizeInv`, orders the
headers and EOTs under way by the file they belong to: the receiver begins at most
one file for each the sender sends, as no header overtakes the EOT of the file
before it, so that the units left and those written stay below the sum announced
(but for those torn writes repeated). Under `Calm` the invariant is `Turns`: at most
one message or answer is under way, and it belongs to the packet at which both stand
(`CalmInductive`). It names the stages of a transfer (greeting, sending, writing,
accepted, ending, closing, failed), and in each says what `left`, the packet, the
sender's number and the stored file have to do with each other. `FileIsPrefix` alone
is not inductive: it does not tell which packet arrives next.

### Two threads in DFS: `DfsThreadsProofs`, `DfsUnlinkProofs`

About every set of threads and files, every size of the descriptor table and every
number of calls.

| theorem | states |
|---|---|
| `TypeCorrect` | `TypeOK` |
| `DescriptorsCorrect` | no thread gets or releases another's descriptor |
| `UnsharedCorrect` | a file one thread uses keeps an exact count and meets no assertion |
| `LocksCorrect` | no thread waits for a lock while it has one, nor keeps one when its call has ended |
| `CountsCorrect` | a file of which no two opens or closes have overlapped has an exact count between them, however many threads have it open, and no holder has lost its vnode |
| `UnlinkCorrect` | `unlink` takes a file from a descriptor that reached it before the test only if opens or closes of the file had overlapped and freed its vnode |

The argument. `LockInv` gives mutual exclusion on the two locks and says where a
thread that has one may be; `LocksCorrect` follows, the part of `CallsEnd` that is a
safety property. `DescInv` makes descriptors exclusive, as a slot is chosen and
marked under `fdLock`. `NodeInv` ties a descriptor to a vnode in the hash or to a
freed one. For `UnsharedSafe` the count is wrong in the middle of every call, so
`CountInv` says by how much at each place, for a file that only one thread uses;
`UseInv` says that such a file is used through one descriptor and that a caller does
not open what it has open, without which the two halves of a count would belong to
different descriptors.

`UnlinkCorrect` needs more than `UnsharedSafe` gives, as the file may be open in both
threads. Its subject is a file that is not `raced`. `OneCaller` says that one thread
at a time opens or closes it, and `CountedInv` that its count is then exact at every
place of that call but between the two halves of `Undo`. So its vnode is freed only
under its last descriptor, none is left without a vnode, and the test of `unlink`
sees every holder; `OnSafe`, in `NodeInv`, carries what the test saw to the removal,
the descriptors that reached the vnode since being in `after`. `CountsCorrect` is the
part of `CountedInv` a caller can see.

### The flash: `FlashProofs`

About every layout of sectors, partition table and package.

| theorem | states | assumes |
|---|---|---|
| `TypeCorrect` | `TypeOK` | `NoWrap` |
| `DoneCorrect` | a call that returned its size did all of it | `NoWrap` |
| `OthersCorrect` | no step changes a cell outside the partition called for | `NoWrap` |
| `StaysCorrect` | a write clears bits of its range only, an erase sets bits only in the sectors its range meets | `NoWrap` |
| `ReleaseCorrect` | a release that returned 1 left the whole package | |
| `FailsCorrect` | a release of a package that fits fails only after a failure | |
| `ReleaseStaysCorrect` | while a release runs, no cell outside `app` changes | |

`NoWrap` says that the operator types no address and size whose sum exceeds 32 bits:
`fal_partition_erase` and `fal_partition_write` add them without a test, and such a
call does leave its partition (section 5). The release needs no such assumption,
whatever the operator typed before. `Shape` holds without `NoWrap`; `CallInv` ties
`done` to the cells already erased or written by the call; `RelInv` ties the
position of the release to the cells that hold its package already; `FaultInv` says
that, as long as nothing has failed, the cells ahead of the release are erased, so
that no read-back can differ.

### The receive path: `SerialRxProofs`

About every size of the ring, every number of bytes and of sessions.

| theorem | states |
|---|---|
| `TypeCorrect` | `TypeOK` |
| `BytesInOrder` | the ring holds the latest bytes in order, each byte is taken, held or overwritten once |
| `WakeupNeverLost` | nobody sleeps on a byte |

`RingInv` describes the ring between its two indices, which are equal only when it
is empty, and numbers the bytes in it; `WakeInv` says that the callback belongs to
the thread that reads, and that this thread, between its look at the ring and its
wait, finds its semaphore released if the ring holds a byte.

### Model-checked only

- The liveness properties `UpdateCompletes`, `BootEnds`, `CommandEnds`,
  `TransferEnds`, `CallsEnd`, `ReleaseEnds`, `ReadsEnd`: fairness and ENABLED are
  out of the prover's reach.
- `LengthOnSuccess` and `SenderIsRight` of a download on a line that loses answers
  or whose two sides are late: `ymodem_late` checks them on its instance, the proofs
  assume `Calm`.
- That the assumptions of the proofs can be met: TLC evaluates those on constants in
  every run, `boot_crash` satisfies `CrashOnly`, `ymodem_damage` `Calm` and
  `Patient`, and `flash` `NoWrap`.

## 5. Differences between code and text

Shown by the violation runs and listed in `PROJECT.json` with the lines quoted:
`last.rbl` (`boot_last`), the refused package that stays (`boot_delete`), the
assertion on a full card (`sd_full`), the repeated packet (`ymodem_answer`).

Met while modelling and part of the models, without a run of their own:

- A package that cannot be flashed makes the boot delete it and release the
  backup; if power fails while that is being written, the next boot finds no
  package and jumps into the half-written image, as `rb_jump_to_app` looks at two
  words only. `StartsWholeImage` fails in `boot_crash` as soon as `NoPart` has an
  element.
- `fal erase` with a negative offset passes the bounds of `fal_partition_erase`, whose
  sum wraps, and erases the last sector of the boot loader; the calls of `flash`
  stay below the wrap.
- The third failed write of `copy_file` returns with the destination open
  (`bsp_sd.c:140`) if the card was full: the file stays busy until the next reset.
- The counts of open files are updated by a load and a store under two different
  locks (`dfs_file.c:159`, `dfs.c:362`), so that two threads on one file can lose an
  update; two descriptors closed at once both see the other and neither closes
  the file; and the last closer without FIL object stops in an assertion that
  keeps the lock of the table (`dfs_elm.c:491`). `UnsharedSafe` shows that nothing of
  this reaches a file only one thread uses.
- `unlink` tests and removes in two steps; an open that reaches
  the vnode in between loses its file, and so does a caller whose vnode overlapping
  opens or closes of the file have freed, whom the test does not see. `UnlinkSafe`
  says that nobody else does.
- `copy_file` takes a failed read for the end of the file and returns 0
  (`bsp_sd.c:131`), against its comment (`bsp_sd.c:105`).
- The six tries of `file_read` use one descriptor, and FatFs refuses all but the
  first: the error stays in the FIL object.
- A backup with the unsupported `algo2` stops every boot that installs a
  package: the check in `rb_fw_update` leaves it open, and the copy onto it trips
  an assertion. `BackupsStayUsable` shows that the code never makes one.
- A damaged header or last packet ends a transfer at once, whereas data packets
  are asked for again.
- From a sender whose header has no size, `ymodem_ota` stores an empty file and
  reports success; so it does with an incomplete file when the card is full.
- `ymodem_ota` passes `RT_TICK_PER_SECOND` for a number of seconds, and the
  handshake sends C every three seconds, not every second (`ymodem.c:211`).

## 6. Not modelled

- `rbl` typed while the boot sequence still runs (both then use the static buffer
  `cmprs_buf`), and a jump while the shell is in a command. The tables and the
  console the two threads share are in `DfsThreads` and `SerialRx`.
- CRC collisions: a checksum tells whole from torn.
- A package that names the boot loader's own partition, which `rb_fw_release` would
  flash like any other (`NoPart` stands for packages that are not flashed).
- `ymodem`: a damaged first byte of a packet (its bytes then count as codes); a
  short packet with another behind it, which needs a late message (`MaxLate` and
  `"short"` exclude each other); the reset of the PC's own session; a failed
  final close.
- `SdFile`: directories, rename, stat, seek. `DfsThreads`: failing allocations, reads
  and writes of two threads on one descriptor table (they take no lock of DFS), a
  caller that opens a file it has open (that is in `SdFile`).
- `Flash`: the block and character devices of `fal_rtt.c`, reads with bounds.
- `SerialRx`: output, DMA, an overrun in the hardware (such a byte never gets a
  number).
- Directory removal, `ry` and `sy`, SD host, expander, shell, kernel, HAL beyond the
  flash, packaging tool: not part of the update path, third-party, or a binary.

## 7. Plan

1. `LengthOnSuccess` and `SenderIsRight` for every line, not only a calm one: `SizeInv` orders
   headers and EOTs already; what is missing is the same for the answers on their
   way back.
2. `rbl` beside the boot sequence, with the release and the check split at the calls
   that block.
3. The sender of `ymodem.c` against the receiver.
