# BojanOS: specifications and proofs

BojanOS is a 64-bit kernel written from scratch: one kernel thread runs a shell
over an in-memory file system, and two interrupts (the timer and the keyboard)
come in between its steps. This directory holds TLA+ modules that model the
parts of it where something can go wrong, the TLC configurations that check
them on small instances, and proofs for TLAPS of the properties that hold for
every instance.

## 1. The system

| Component | Source | State | Operations |
|---|---|---|---|
| Kernel heap | `kheap.c` | `used`, `total` | `kheap_init`, `kmalloc`, `kzalloc`, `krealloc`, `kfree` (empty: nothing is ever given back) |
| File system | `vfs.c` | the tree of vnodes (parent pointers, child arrays, file buffers), `vfs_cwd`, `vfs_pwd` | resolve, create, write, append, truncate, remove, remove recursively, update the name of the working directory |
| File commands | `cmds.c` | none of their own | cd, mkdir, touch, rm, rmdir, cp, mv, tee |
| Keyboard driver | `keyboard.c` | the ring `buf`, `buf_head`, `buf_tail`; `shift_down`, `ctrl_down` | `keyboard_irq`, `keyboard_get`, `keyboard_init` |
| Interrupts | `idt.c`, `isr.S`, `pic.c` | the 8259's requests, masks and service bits, the interrupt flag | gates, dispatch, end of interrupt, masks |
| Timer | `timer.c` | `ticks` | tick, uptime, `sleep_ms` |
| Shell, line execution | `shell.c` | the line (cut up in place), two pipe buffers, redirections, `last_exit` | `shell_exec_line`, `exec_pipeline`, `run_segment`, `apply_redirs` |
| Shell, tokenizer | `shell.c` | its line | words, quotes, `$?`, `~`, redirections |
| Shell, line editing | `shell.c` | line, history | `sh_readline` |
| Text commands | `cmds.c` | none | head, tail, wc, grep, sort, uniq, diff, find, seq, factor, cal, printf, test, ... |
| Boot information | `multiboot.c` | `total_mem_kb` | `boot_parse`: three parsers of the boot loader's memory map |
| Clock | `rtc.c` | the CMOS registers | `rtc_read` |
| Screen, serial port | `vga.c`, `serial.c` | cursor, cells | put a character |
| Kernel entry | `kernel.c` | | the order of initialisation, `selftest` |
| CD loader | `cdboot.S` | the e820 entries and their count at 0x5000 | asks the BIOS for the memory map, loads the kernel |
| Strings, tables, boot code, image tools | `string.c`, `gdt.c`, `misc.S`, `boot.S`, `mkiso.py`, linker scripts | | |

How they interact. `kmain` initialises everything and calls the shell. The shell
gets characters from the ring buffer, which the keyboard interrupt fills, and
halts while it is empty; any interrupt, the timer's included, ends the halt. A
line is cut into segments, pipelines and words; a command is a function call
that reads through `sh_getc` (a file, a pipe buffer or the keyboard) and prints
through `out_raw` (a file, a pipe buffer or the screen). Stages of a pipeline run
one after the other. Everything allocates from the one heap, and no handler
touches anything but the ring, the modifiers and the tick counter.

What is hard here:

- the ring buffer shared by an interrupt handler and the thread, without locks:
  lost wakeups, overflow, an index moved between read and update; modifiers
  whose presses and releases must stay paired while keys are dropped;
- interrupts that must all be acknowledged, in the right order, for ever;
- a heap that only shrinks, so that every allocation may fail half-way through a
  command, and failures that some callers do not look at;
- a tree held twice, by parent pointers and by child arrays, changed by commands
  that name the same node by different paths, from a working directory that may
  have been removed;
- a command line rewritten in place by three nested scans, two pipe buffers that
  alternate, and redirections that may fail after half of them were done;
- words cut out of that line in its own buffer, behind what is still to be read;
- a history that shifts under the index the cursor keys move, and a line that is
  edited by printing backspaces on a screen that wraps and scrolls;
- a clock of several registers that goes on while they are read, and a sleep
  whose target is computed in wrapping arithmetic and whose wakeups may come
  between its test and its `hlt`;
- the size of memory, on which the heap rests, told by four kinds of loader in
  three formats.

What makes each component correct: blocks that are disjoint and lie in memory
(heap); both views of the tree in agreement, names distinct, buffers large
enough, and each command removing, creating and writing what it is for and
nothing else (file system and commands); each key once and in order, no code
and no modifier stuck, no caller asleep beside a key (keyboard); every command
of a line run with the right input, output and status, and nothing left behind
for the next line (shell); words that mean what was typed (tokenizer); a
screen that shows the line Enter will execute, and a history that gives back what
was entered (line editing); sleeps that are long enough and end, times that the
clock once showed (timer and clock); a heap in memory the machine has (boot
information); and output that matches what a text command promises (text commands).

## 2. Modules

| Module | Models | State and actions |
|---|---|---|
| `KHeapOps` | the arithmetic of `kheap.c` | `AlignUp` is `align_up`, `Fits` the test of `kmalloc` |
| `KHeap` | `kheap.c` | `total`, `used`, and `blocks`, every block handed out; one action per function |
| `Boot` | `boot_parse` and its parsers in `multiboot.c`, and the memory query of `cdboot.S`, over `KHeap` | `info`, the machine's memory, what the loader reports of it and what lies where a Multiboot 1 map is looked for, and the state of `KHeap`; `kmain` is the initial state, the heap's actions follow |
| `Vfs` | `vfs.c` | operators on a file system `f` = [`node`, `used`]: a node is an index into `f.node`, an operation yields the new file system and what the function returns. It uses `KHeapOps` for the heap each vnode, array and buffer takes |
| `FileCmds` | the commands of `cmds.c` that change files, and redirections | `fs`, `cwd`, `pwd`, the status, and the last command for the properties; a whole command is one action, since nothing runs between its steps that touches files |
| `BoundedQueue` | nothing: it is what the ring promises | a queue of at most `Capacity` keys |
| `Keyboard` | `keyboard.c`, the dispatch of `idt.c` and `pic.c`, around them keyboard, 8042, 8259 and PIT | `keyboard_get` is five steps (`Call`, `Check`, `Hlt`, `Read`, `Advance`), a handler two (its body; the end of interrupt and `iretq`), with interrupts off between them as the gates are interrupt gates |
| `Shell` | the execution of a line in `shell.c` | one action per segment, stage and decision; `typed`, `ran` and `screen` are what the user typed, what ran and what was shown |
| `Tokenizer` | `tokenize` and `expand_tilde` of `shell.c`, on characters in their buffer | `mem`, the read and write positions `p` and `out`; one action per turn of its two loops. `Shell` has the same function on whole tokens, for lines of several commands |
| `Vga` | `vga.c` without colours | operators on a screen: cells and cursor |
| `Readline` | `sh_readline`, and the history and loop of `shell_run`, over `Vga` | `buf`, `screen`, `history`, `hist_pos`; one action per kind of key. `entered`, `depth`, `recalled` and `intact` are history variables |
| `Clock` | `timer.c`, `rtc.c`, `sleep` and `date` of `cmds.c` | the tick count, the CMOS clock and its update bit, the thread in `sleep_ms` (test, `hlt`, wake) or `rtc_read` (wait, six registers, seconds again) |
| `TextCmds` | `split_lines`, `head`, `tail`, `sort`, `uniq`, `diff` of `cmds.c` | a text, the command that ran on it and what it printed |
| `KHeap_proofs`, `Keyboard_proofs`, `FileCmds_proofs`, `Shell_proofs`, `Tokenizer_proofs`, `Readline_proofs`, `Cmds_proofs` | the modules they are named for (`KHeap_proofs`: `Boot` too; `Cmds_proofs`: `Clock` and `TextCmds`) | theorems |
| `NatInduct` | nothing | induction for functions defined by recursion |
| `MC*` | | instances for TLC |

Abstractions, all of data. A path is its components with a flag for a leading and
a trailing slash; names are shorter than `VFS_NAME_MAX`, paths than the
1024-byte buffers, depths less than 64, and the empty word is not typed. A line
is a sequence of tokens; a separator that the code overwrites with a NUL is the
token NUL, and the character `tokenize` swallows is `Swallow`. In `Shell` a
command is what it reads, prints and returns, files have fixed names, and the
heap does not run out (in `FileCmds` it does). In `FileCmds` a redirected command is any
output and any status, 0 or not, and changes no file itself; its input may be a file
that is not there. `rm -r` runs turn by turn, with the calls under way on a stack. In `Boot`
the memory that a Multiboot 1 map is looked for in reads as any finite sequence of
entries; that the walk over it may not end is not modelled. Sizes near 2^64, where
`align_up` would wrap, are not asked for by any caller. The ring's indices are plain `int`s,
without `volatile`, and C does not oblige the compiler to read them again after a
`hlt`; the kernel image in the repository, built with `-O2`, does, and that is what
`Check` models.

`Tokenizer` takes a tab for a blank, names are shorter than the 255 characters that are
copied, and a word with `~` finds the memory for its copy. `Readline` leaves out the
branches for Ctrl-C and Ctrl-D inside `sh_readline`, which cannot be reached:
`sh_getc` has turned both into -1, which ends the shell (`EndOfInput`). Its characters
are those that take a cell of the screen (`Glyphs`), newline, tab and backspace: no key
gives a carriage return and no command prints one. In `Clock` the
CMOS clock is the environment: its update bit is up for a while before all
registers change at once, it holds a date when the kernel starts, and a call of
`rtc_read` takes less than a minute. The tick
count stays at its bound while interrupts go on, far below the wrap at 2^64 ms. In
`TextCmds` options come before the file name, as the code wants them, and the heap has room.

`vfs_init` makes eight directories and four files; `InitFs` makes two and one with
the same two helpers, so that the instances stay small.

Definitions whose comment says "mistaken" and that nothing uses are plausible
bugs of the definition they stand before. Each property below is violated when
one of them takes that definition's place: they show what the properties notice.

## 3. Runs

| Run | Checks | Result |
|---|---|---|
| `MCBoot.cfg` (run KHeap) | `TypeOK`, `Disjoint`, `InHeap`, `HeapInRam`, `HeapInMachine` | hold |
| `MCFileCmds.cfg` | `TypeOK`, `TreeInv`, `BuffersFit`, `PathsResolve`, `PwdFresh`; `RemovalExact`, `ListingStable`, `WritesHitTarget`, `FailureContained`, `MvKeepsContent` | hold |
| `MCKeyboard.cfg` | `TypeOK`, `NothingLostOrRepeated`, `NoStrandedCode`, `NoStuckModifier`; `ImplementsQueue`; `DevicesDrain`, `WaitingCallReturns` | hold |
| `MCShell.cfg` | `TypeOK`, `PromptOnConsole`, `PipeFlow`, `ScreenShows`, `ExitIsLast`, `EveryCommandRuns`, `LineEnds` | hold |
| `MCReadline.cfg` | `TypeOK`, `RecallsEntered`, `ScreenShowsLine` | hold |
| `MCTokenizer.cfg` | `UnreadIntact`, `WordsAsTyped` | hold |
| `MCClock.cfg` | `SleepLongEnough`, `ReadIsATime`; `SleepEnds` | hold |
| `MCTextCmds.cfg` | `SortOrders`, `DiffEdits`, `HeadTailCut` | hold |
| `MCMvLosesNothing.cfg` | `MvLosesNothing` (host_test.c:221) | violated |
| `MCSemicolonSeparates.cfg` | `SemicolonSeparates` (README.md:58) | violated |
| `MCConditionalExecution.cfg` | `ConditionalExecution` (README.md:59) | violated |
| `MCStatusExpands.cfg` | `StatusExpands` (README.md:60) | violated |

Bounds, and why they are enough:

- `MCBoot.cfg` scales 16 MB to 16 and a kilobyte to 2; memory ends on either side of
  every comparison of `boot_parse` and `kheap_init`, with and without a hole and a
  region above 2^32, each map as the CD loader, Multiboot 1 (with and without its
  two fields, and with and without a map), Multiboot 2 and an unknown loader report it.
  Where the Multiboot 1 map is looked for there is nothing, or entries that do not count
  for each of the reasons there are, or entries that look like memory. 2^64 is 256. Requests are a multiple of
  the alignment, one more, one less and small. The state graph is finite because
  the heap is.
- `MCFileCmds.cfg`: the heap itself is the bound. After boot three or four more
  objects fit, so that each command is also run where its first, second or third
  allocation fails. A child array starts with two places and a file buffer with
  two bytes, so that both double. The paths reach the root, the home directory, a
  file, a node to make, a node below it, the parent, a trailing slash and `~`
  after a component. The input of a redirection is a file that is there after some
  commands and not after others. `rc` and `last` are written and never read by commands, and
  are left out of the view.
- `MCKeyboard.cfg`: a ring for two keys and four presses or releases of the two
  shift keys, Ctrl, `d` and the up arrow (two bytes, the first 0xE0): enough to
  overflow the ring, to release a modifier while it is full, and to go once round.
- `MCShell.cfg`: two lines, each of up to three stages, with thirteen kinds of stage
  (commands that print, copy, fail, do not exist, redirect, redirect badly). Every
  kind runs alone and on the left of a pipe; stages that succeed, fail or are not
  found meet every other separator, with and without a blank. A pipe holds two
  bytes and `echo` prints three. With two lines, what the first leaves behind meets
  the second. The system stops after them, so deadlock is not checked there.
- `MCReadline.cfg`: a screen of two rows of three cells, lines of up to two
  characters, a history of two and four lines entered, so that the history shifts
  twice; commands that leave the prompt in the middle of a row, so that a line wraps
  and scrolls after two characters. The shell ends with Ctrl-D, so deadlock is not
  checked; nor is it for `Tokenizer` and `TextCmds`, which stop when they are done.
- `MCTokenizer.cfg`: every segment of up to five characters out of ten, one of each
  kind `tokenize` tells apart, and both a one-digit and a two-digit status: any
  order of quotes, `$?`, redirections and `~` in two words. Two words are the
  most there is room for, so that the limit is met.
- `MCClock.cfg`: times a second before every carry, in the four modes of register B,
  two updates (one in the middle of a round of reads, one in the round that
  follows); a second is two ticks, and a sleep is asked for -1 to 2 seconds.
- `MCTextCmds.cfg`: all texts of up to three lines out of six (empty, equal as numbers
  but not as text, negative, ten behind a blank) and some of four, with and without a newline at
  the end; the table of `diff` wraps at 4, so that it does. The second file of `diff`
  always ends in a newline: what `diff` looks at are lines.

What the violated runs show. `mv f f` deletes the file, and `mv` with a full
heap loses the content, because `cmd_cp` reports success (cmds.c:510, 518). In
`a;b`, `b` never runs, because the NUL that ends `a` is taken for the end of the line
(shell.c:362). In `false && b`, `b` runs: the operator that follows a command
decides about that command (shell.c:431). After a status of 127, `a$?b` loses its
`b`, and `$?` at the end of a line overwrites the NUL, so that reading and writing go
on out of the segment (shell.c:274); `UnreadIntact` is therefore stated, and proved,
for a status of at most two digits.

What the passing properties have to say of the code, where it may surprise:

- `mkdir a/` makes a child named "/" in the existing directory `a`, and `mkdir ..`
  one named "..", which no path leads to (`vfs_resolve_parent`, vfs.c:96);
  `PathsResolve` is about the other names.
- `mv f f/../a` (with `f` a file) copies `f` to `a`: `vfs_resolve` goes from a file
  to its parent by "..", so that a path may run through the file that is moved. What `cp`
  and `mv` write to is therefore said by the path they are given (`Destination`), not
  by where the source is.
- `HeapInMachine`: no loader's memory map is understood. The CD loader asks for one with the
  interrupt of the disk service, 0x13 for 0x15 (cdboot.S:21), which refuses, so that it
  finds no entries although README.md:10 lists the map among what it does. With
  Multiboot 1, length and address of the map are taken from `mb[22]` and `mb[23]`, where
  other fields are (multiboot.c:45); what lies there is walked, and must not happen to
  look like memory that ends above 16 MB (`NoneTaken`). With Multiboot 2, the reserved
  word, which is 0, is taken for the size of the information (multiboot.c:67), so that no
  tag is read. The amount of memory is the sum of `lower` and `upper`, with Multiboot 1
  (`Told`), or else 32 MB, whatever the machine has; then the property needs those 32 MB.
- `FailureContained`: a redirection opens its output before anything else, so `false > f`
  returns 1 and `f` is empty, and `rev < nothing > f` leaves the message in `f`. Other
  commands that fail change no file, and after `>>` the old content is still there. (A file
  named `~`, once `/root` is gone, is made, and then not found: vfs.c:96.)
- `HeadTailCut`: `tail -n 3` prints two lines of a text that ends in a newline.
- `ReadIsATime` leaves out the hours `rtc_read` does not convert (BCD in 24-hour mode from
  ten on, noon, midnight and the afternoon in twelve-hour mode): `HourReadable`.
- `DiffEdits` holds below 2^16 lines; beyond, the `uint16_t` table wraps, and files that
  differ may be called identical.
- `SortOrders` takes options from before the file name. In `sort f -r` the option is
  ignored, and so the self test that runs it (kernel.c:72) does not find what it expects.
- `ScreenShowsLine` is about lines that did not lose a backspace at the left edge:
  `vga_putchar` does not go back to the row above, so that erasing over a row's end
  leaves the screen behind the line.

## 4. Fairness

`Keyboard` assumes weak fairness of the devices (a byte waiting goes to the port, the
PIT ticks), of the handlers, which run to their end, and of the delivery of the
timer interrupt, and strong fairness of the delivery of IRQ 1 and of the steps of
`keyboard_get`: both are disabled again and again by timer interrupts, but a
tick comes every 10 ms and its handler takes microseconds, so neither waits for
ever. Nothing is assumed of the user, nor of when the shell calls
`keyboard_get`. `Shell` assumes weak fairness of `shell_exec_line`: the kernel has
one thread.
`Clock` assumes weak fairness of the tick and of the thread in `sleep_ms`: a tick
between the test and the `hlt` is lost on the sleeper, and the next one is what wakes
it. Other interrupts, updates of the clock and what the user asks for are not assumed.
The other modules have no liveness properties.

## 5. Theorems

`KHeap_proofs` proves, for every alignment, layout, set of memory sizes and set of
requests allowed by `KHeapAssumption`, that `TypeOK`, `Disjoint`, `InHeap` and
`HeapInRam` are invariants. `Disjoint` is not inductive: nothing in it relates the
next block to the earlier ones. `HeapInv` adds that every block lies below `used`, where
the next one starts, and that `used` is within `total`; `AlignUpType` (rounding
never goes below the request) and `HeapTotalBound` (what `kheap_init` computes) are
the lemmas it rests on. The same holds of the heap after any boot loader
(`BootedHeapSafe`), since nothing changes the amount of memory after `boot_parse`.
`HeapIsMemory` proves `HeapInMachine` for every memory map, every report of a loader
and everything that may lie where the Multiboot 1 map is looked for (`Infos`, which may not
be finite and whose sequences may have any length). Entries none of which ends above 16 MB
leave the amount as it was (`NothingTold`, for which the greatest of the ends has to exist:
`Greatest`); hence the CD loader and Multiboot 2 leave the default (`OthersTellNothing`),
Multiboot 1 its two words or the default (`Mb1Tells`), and the heap ends in the region it
begins in or at the default (`ToldOrDefault`, `HeapEnds`).
Assumed are what Multiboot says of upper memory, that it ends at the first hole above
1 MB at the latest, and of the reserved word of Multiboot 2, that it is 0
(`LoaderAssumption`), and constants in the order they have in the
code (`BootAssumption`: a kilobyte is at most 16 MB, the default at most `HEAP_MAX`).

`Keyboard_proofs` proves, for every ring of at least two places, every keymap, set
of keys and number of events, that `TypeOK`, `NothingLostOrRepeated` and
`NoStrandedCode` are invariants and that the ring implements `BoundedQueue`
(`RingImplementsQueue`: the initial state maps to the initial state, every step to a
step or a stutter). The argument is that `keyboard_irq` moves only `buf_head` and
`keyboard_get` only `buf_tail`: a push appends to the keys between them
(`PushAppends`) and never reaches the slot at `buf_tail`, so the key read before
`buf_tail` moves is still the first one when it does (`AdvanceTakes`). `KbInv` adds to
the properties that interrupts stay off while a handler runs and that the port is
full exactly while IRQ 1 is requested or its handler has not read it.
`NoModifierStuck` proves `NoStuckModifier`, which is about the drained keyboard only;
`ModInv` extends it to the codes on their way (`Pending`): the last of a modifier's
codes among them agrees with whether it is held, and the flag does when there is
none (`AppendLast`, `AppendOther`, `HandleFirst`).

`FileCmds_proofs` proves, for every heap, every first capacity, every set of paths and
contents, all properties of `FileCmds`: five invariants and five properties of steps. The
constants are assumed to be what their comments say (`VfsAssumption`,
`FileCmdsAssumption`), the heap to have room for the root and `/root`
(`FileCmds`' `BootAssumption`; what else `vfs_init` makes may fail), and the five names
the code itself gives to be strings (`NamesAssumption`, which the prover cannot find out).
The inductive invariant `IInv` is that the file system is well formed (`FsOK`: typed, a
tree, buffers large enough), the working directory one of its directories, `pwd` the
path `vfs_pwd` builds for it (`PwdOf`), and no name on that path one that means
something else (`Plain`: the working directory was reached by `cd`, and `vfs_resolve`
takes ".", ".." and "~" for no child's name). None of these is inductive alone: that a
child array is extended by a fresh name needs `child_of` to have searched it, which needs
the tree; that the working directory stays a directory, and the prompt true, needs nodes
to keep their type, name and parent and never to be freed. `Keeps(f, g)` says all of
that, is transitive, and is what the first part shows of each operation: `PutKeeps`
(writing; `GrowLargeEnough` says that the doubling loop ends with a buffer that is large
enough), `CreateKeeps`, `UnlinkKeeps`, `RmRecursiveKeeps`; `ResolveType` and `PwdOfType`
show that the walks down and up the tree end at nodes, and `PathResolves` that walking
up and then down again leads back, which is `PathsResolve`.

The properties of steps follow from one statement about each command, `StepIs(R, w)`: it
takes the nodes of R (none, one, or a subtree) out of the lists of their parents, keeps the
order of every list, makes new nodes at most at their ends, and writes at most the one
file w, which its destination resolves to. `Edits` is that relation between two file systems, and it
composes (`EditsTrans`), so that `cp`, `mv`, `tee`, `rm` and a redirection are sequences of
edits by the creation of a node, by writing and by the removals (`CpIs`, `MvIs`,
`RmIs`, `RedirectIs`, `TeeIs`). `StepEdits` is the statement for every step of `Next`. From it come
`ListsKeepOrder`, `WritesReachOneFile`, `FailuresAreContained` and `RemovalsAreExact`; the
last, `MovesKeepContent`, needs of `mv` besides that the copy was made before the source
was removed and is another node (`MvContent`). It was in these proofs that `mv f f/../a`
turned up: two of the properties, as first stated, were false of it, while the paths of the
run did not reach it. They were restated, and the run has that path now.

That `rm -r` takes exactly the subtree is a proof about its loop. While it runs (`Called`),
each call is for a child of the node of the call before it, nodes below one another are
ever younger, and what was unlinked so far is closed under children: a node goes after all
below it. A turn calls for the last child there is at that moment (`TurnCalls`), or unlinks a
node whose list is empty (`TurnUnlinks`), which stays true of the lists above it because a
removal takes one child out of one list and no other. The first call returns when
all below its node is gone (`TurnReturns`, `SubtreeCloses`). The loop ends because each turn
makes the number of calls and removals greater by one, and nodes are unlinked once and calls
no deeper than there are nodes (`Under`, `UnderEnds`, `LoopRuns`).

Walks and loops are functions defined by recursion. That such a function exists and
what it computes takes an induction, which `NatInduct` provides without an operator as
parameter: every set of naturals that is not empty has a least element
(`LeastNatural`, from the library's theorem that inclusion among finite sets is
well-founded), hence `Induct` for sets and `Iterate` for functions that follow a step.

`Shell_proofs` proves `TypeOK`, `PromptOnConsole`, `PipeFlow`, `ScreenShows` and
`ExitIsLast` for every set of lines, commands, files and characters, every length of a
line and every size of the pipes. The inductive invariant has four parts: the line stays a
sequence of tokens with a NUL at its end, which stops every scan over it (`LineInv`,
`NextOfIs`); the pipe pointers, `which` and the redirections are those of the place in the
pipeline, and none is left when no stage runs (`StageInv`); what they lead to is made of
characters (`DataInv`); and each pipe holds what the stage before it printed, the status is
that of the last command, and the screen what all of them showed (`FlowInv`).

It also proves `EveryCommandRuns`, which compares what ran with a reading of the line as
it was typed, by position and without the buffer that is cut up. `CmdInv` says, for each
place in the loops, how far the one is with the other: the line is intact from where the
scan goes on (`Intact`), a segment or stage begins behind a separator of the typed line
(`SegmentFrom`, `StageAt`), and what ran are the names of the commands before it
(`Progress`). What a line names is filtered out of it by recursion (`Words`, which
`WordsAppend` and `NamedStep` take one token on), so that the induction over the line is
made of the steps themselves: each passes over tokens that name nothing (`Skipped`) or
over one command (`StageCounts`). The property leaves out `&&`, `||` and a `;` or redirection
that is not behind a blank, of which `MCConditionalExecution.cfg` and
`MCSemicolonSeparates.cfg` show what happens.

`Tokenizer_proofs` proves `UnreadIntact` for every buffer, set of segments and number of
words. `Ahead` is the invariant: from `p` on the buffer is as it was typed, `out` is
not past `p`, and `p` is not past the segment's NUL. That NUL is what keeps every look
ahead inside the segment (`FindStops`, `SkipStops`, `PassOver`): it has to be intact for
`p` to stay before it, and `p` has to stay before it for it to stay intact. `WriteBehind`
says that a text that ends no later than where reading goes on disturbs nothing;
`$?` is two characters long and `DigitsShort` makes its value no longer.

On `Ahead` rests `WordsAsTyped`, also for every instance: the words in the buffer are those
of the reference, which reads the segment by position and knows no buffer (`Reading`, one
blank or token at a time, `Spelt` within a word). `WordInv` ties the two together. Between
tokens, what was found is what the reference has read up to `p`; inside a word, the quote
and the characters from `start` to `out` are those of the reference at `p` (`InWord`), and
no delimiter that ends the word has been passed. Words already cut off end before
`Limit`, the place from which on anything may still be written, and so stay (`StandsOn`,
`FoundStays`). The recursive functions of the reference exist and step as they should
(`QuoteIs`, `SpeltIs`, `ReadingIs`, each by `Iterate`), and reading goes on until the
segment is at its end (`GoesOn`, `Grows`). `Spaced` is needed where a word or a name
ends: the character that ends it is passed over, whatever it is (`TokenRead`).

`Readline_proofs` proves `TypeOK`, `RecallsEntered` and `ScreenShowsLine` for every size of
the buffer, the history and the screen, every prompt and output and every number of lines.
`RecInv` says that the history is the end of the lines entered (`IsEnd`), kept by
appending and by shifting (`RememberKeepsEnd`), that `hist_pos` is `depth` back from its
end, and that every line in it fits the buffer, so that recalling it copies it whole
(`CopiedWhole`). `ScrInv` adds the screen: nothing stands at or after the cursor, whatever
was printed (`Screens`), and before it the prompt and the line. That relation, `Shows`,
counts cells back from the cursor, so that it does not change when the text wraps to
the next row or the screen scrolls by one (`NextRowIs`, `PutForward`). Printing appends to
what is shown (`PrintShows`); rubbing out in the row takes the end of it away
(`RubOnce`, `RuboutShows`), which is where `intact` is needed.

`Cmds_proofs` proves `SleepLongEnough` for every period, word size, set of operands and
bound on the ticks that `ClockAssumption` allows. `SleepInv` relates the target to
when the sleep began; the wrapping sum is exact for an operand that is not
negative (`CallExact`), and the uptime never goes back (`TickGrows`).
It also proves `ReadIsATime` for every time the clock starts at and all modes of register B.
`ReadInv` remembers, by an existential, how many updates d came since the seconds were
read: the registers are all of the present time if d is 0, and the seconds read again
agree only then, since d is less than 60 (`SecondsAgainKeeps`, `SecondsDiffer`). `Digits`
and `Hours` say what decoding makes of each field and hour in each mode; `NextMoment`
keeps the clock at a date, the year within what two BCD digits hold.

Of the text commands it proves `HeadTailCut`, `SortOrders` and `DiffRebuilds`, the first
half of `DiffEdits`, for every text without NULs and every operand and set of options
(`TextInv`). For the first, the loop of `split_lines` depends only on what it has read (`CutOfPrefix`), and behind a newline it
goes on as on a text of its own, with the lines so far in front (`CutOfSuffix`), so
that a text cut after a newline has the lines of its two parts (`SplitInTwo`); as many
lines end before a place as newlines (`SplitCounts`), which is what `head` and
`tail` count. For the second, what `Compare` says is a total order of lines for every
set of options: `strcmp` decides by the first character that differs
(`FirstDifference`, `BeforeTransitive`), `cmp_str_num` by the number first, and
`-r` turns both around (`CompareOrders`). Only because equal numbers are told apart by
the text are equal lines neighbours when they are in order, which `-u` relies on
(`PrintedIs`). An insertion keeps the order and adds the line once (`InsertIs`,
`SortedIs`); a run that grows by one, or begins, adds its line to what the runs stand
for (`GrowsByOne`, `RowsSnoc`, `RunsIs`). For the third, the table and the walk of `diff`
are functions defined from entries with less left behind them, which exist because what is
left is bounded (`Descends`, `Recursion`). Each turn of the walk takes a line of one file
or of both, whatever the table has (`WalkSteps`), so its hunks give both files back
(`WalkRebuilds`). An entry is at most the longer of the two rests, so that it does not
wrap, and is 0 just when they are the same (`TableTells`).

Left to TLC:

- liveness (`DevicesDrain`, `WaitingCallReturns`, `LineEnds`, `SleepEnds`), which
  needs fairness and ENABLED, beyond the prover;
- the second half of `DiffEdits`: that `diff` prints the least number of edits compares its
  table with every choice of the lines that may be kept.

## 6. Not modelled

Boot code (but for the CD loader's memory query), descriptor tables, image tools: constant tables, straight-line code or
tools outside the running system. The serial port busy-waits for each character
and keeps no state. `selftest` is a list of checks of parts modelled here. String
functions are what the models use through their result. Of the text commands,
`wc`, `grep`, `find`, `rev`, `nl`, `seq`, `factor`, `cal`, `printf`, `test` and those that only print
(`ls`, `tree`, `stat`, `df`, ...) are functions of their input without state of their own.
Exceptions halt the kernel and vectors 34 to 47 stay masked. What the code does with
names as long as their buffers and with more words than `argv` has room for (32) is
undefined or silent truncation, and outside the bounds.

## 7. Plan

Done: `KHeapOps`, `KHeap`, `Boot`, `Vfs`, `FileCmds`, `Keyboard`, `BoundedQueue`, `Shell`,
`Tokenizer`, `Vga`, `Readline`, `Clock`, `TextCmds`, with the theorems of section 5.

Still without a theorem, of the safety properties: the second half of `DiffEdits`. It needs
an alignment as a path through the table, and that every choice of kept lines is one.

Not modelled, and worth modelling: `glob_match` with `find` and `grep` against a
reference definition of patterns; the calendar behind `date` and `cal`.
