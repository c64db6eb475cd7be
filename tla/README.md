# RazelOS in TLA+

TLA+ models, TLC runs and TLAPS proofs for the teaching kernel in
`student-distrib/` (x86, one processor, three virtual terminals, a 100 Hz round
robin). The source is the reference for every definition; `PROJECT.json` maps each
definition to the lines it stands for.

## 1. The system

| component | state | operations | made of |
|---|---|---|---|
| process life cycle | `process_id_arr`, the PCBs (parent, terminal, saved stack pointers), the user page mapped at 128 MB | `execute`, `halt`, `allocate_pid` | `syscall.c` |
| scheduler | `terminal_pid_map` (foreground pid and number of processes of each terminal), `curr_exe_terminal`, a saved context in each PCB | `process_switch` on each PIT interrupt, `change_terminal_process` | `scheduler.c`, `pit.c` |
| allocator | free lists of a buddy tree over 1024 pages | `malloc`, `free` | `page.c` |
| terminals | displayed terminal, activity, line buffer, history, cursor, video memory | keys, Alt+Fn, `terminal_read`, `terminal_write` | `terminal.c`, `keyboard.c`, `lib.c` |
| signals | pending set, mask and handlers of each PCB; frames on the user stack | `signal_trigger` in interrupts, `signal_handler` on return from them, `sigreturn`, `set_handler` | `signal.c`, `handlers.c`, `sigreturn.S` |
| kernel entry | the stubs' stack frames, the interrupt flag, the two 8259s, the cell `.ret_val` | gates, stubs, `send_eoi`, exception handlers | `handler_dispatcher.S`, `idt.c`, `i8259.c`, `handlers.c` |
| virtual RTC | one flag per rate, a rate per terminal | `rtc_handler`, `rtc_read`, `rtc_write` | `rtc.c` |
| files | the read-only image, eight descriptors in each PCB | `open`, `close`, `read`, `read_data`, `dir_read` | `filesystem.c`, `syscall.c` |
| commands | a command line, the calculator's two stacks, the colour, the serial port's settings | parsing in `execute`, `separate_args`, `cal`, `info`, `color`, `serial` | `kernel_program.c`, `calculator.c`, `serial.c`, `syscalls/ece391calc.c`, `syscalls/ece391color.c` |
| the rest | clock counter, boot, tests, user programs | | `pit.c`, `kernel.c`, `boot.S`, `tests.c` |

How they interact. A user program enters the kernel by `int 0x80`, a *trap* gate:
interrupts stay on in system calls, but off in interrupt handlers. `execute` runs the
child on a kernel stack of its own and leaves its own frame on the parent's stack;
`halt` jumps back into that frame. So the processes of a terminal form a chain in
which all but the youngest wait. Orthogonally, the PIT interrupt saves the stack
pointer of whoever it interrupted and jumps to the saved stack of the next terminal's
foreground process; when the displayed terminal has none, it calls `execute("shell")`
itself and never returns to its caller. The keyboard interrupt changes the displayed
terminal under all of them, and `execute`, the RTC, Ctrl-C and `terminal_read` read
the displayed terminal where the caller's is meant. Every interrupt and exception ends
in `signal_handler`; a system call does not.

What is hard here: interrupts between two steps of a call; stacks that are abandoned,
cut back or resumed, and frames that a handler leaves for a later call to find; records
of the same thing updated at different moments; state that belongs to one terminal and
is taken from another; pools, buffers and tables at their limit. `PROJECT.json` lists
each hazard at its line with the properties aimed at it.

What makes each component right:

- processes: parents wait, pids do not leak, images and pages do not mix, a pid is kept
  for each terminal's first shell, a refused `execute` leaves no trace;
- scheduler: only contexts that were saved and not yet resumed are resumed, a tick is
  invisible to the processes, every terminal runs again;
- allocator: no page twice, none lost, NULL only when there is no block;
- terminals: a reader gets the line its user typed, once; a process draws on its own screen;
- signals: each `sigreturn` restores what its own signal interrupted, nothing stays
  masked, what is raised is dealt with;
- kernel entry: the words pushed are the words dropped, user mode has interrupts on, no
  line is left in service, a call returns its own value;
- RTC: a reader returns once in a period of its rate, and does return;
- files: reads of any sizes give the file in order;
- commands: an expression's value is printed, programs get the words typed, the colour
  on the screen is the one chosen.

## 2. The modules

| module | models |
|---|---|
| `Process`, `ProcessProps`, `ProcessProofs` | `execute`, `halt`, `process_switch`, Alt+Fn; properties; theorems |
| `Allocator` | what `malloc` and `free` promise |
| `Buddy`, `BuddyProofs` | the buddy system, which implements `Allocator`; theorems |
| `Powers` | powers of two by doubling, which these three and `Files` use |
| `Lines` | what `terminal_read` promises |
| `TermLine`, `TermLineProofs` | keyboard, line buffer, `terminal_read`, history, video routing, which implement `Lines`; theorems |
| `Signal`, `SignalProofs`, `MCSignal` | signals, from raising to `sigreturn`; theorems; two programs |
| `Interrupts`, `InterruptsProofs` | gates, stubs, interrupt controllers, system call entry, exceptions; theorems |
| `FileSys` | directory, inodes, `read_data` (operators, no state) |
| `Files`, `FilesProofs`, `MCFiles` | descriptors and the virtual RTC over `FileSys`; theorems; a small disk |
| `Calculator` | `cal`, one character at a time (operators) |
| `Commands`, `CommandsProofs` | `execute`'s parsing and the kernel programs over `Calculator`; theorems |
| `Expressions`, `MCCommands` | what an expression means, and that `Commands` prints it; command lines |
| `Induction` | induction and recursion in the form the provers can use (lemmas, no model) |

`Buddy` implements `Allocator` and `TermLine` implements `Lines`, each by `INSTANCE` with
a refinement mapping. `Files` is composed of descriptors, `FileSys` and the RTC;
`Commands` of the parser, the programs and `Calculator`. `Process`, `Signal` and
`Interrupts` are three views of the kernel stacks, each abstracting the other two:
`Process` has which stack is resumed, `Interrupts` the words and flags of its frames,
`Signal` what `signal_handler` does in the last of them.

An operator marked *(slip: ...)* stands beside the one it is a slip of. No behaviour uses
it; put in the other's place it makes a property fail, which `PROJECT.json` lists under
`mutants`.

### Process

One processor. `cur` is the pid whose kernel stack is in use (`fetch_curr_pid` computes
it from `esp`), `pc` says where on that stack the kernel is, and `saved[p]` what the
context at `scheduler_esp` of PCB p would resume: `"none"` when there is none, or when
it has been resumed or cut off. `page` is the pid mapped at 128 MB and `image[p]` the
program last loaded into page p. `child[p]` is the pid that the `execute` frame on
stack p is making or waits for; `halt` jumps to that frame, and if the frame is another
one the model stops at `pc = "none"`.

`execute` is split where an interrupt would see half-done work:

| action | code |
|---|---|
| `ExecAlloc` / `ExecNoPid` | `allocate_pid`, `program_page_init` / its failure |
| `ExecRegister` | loader, PCB, `num_proc++`, `change_terminal_process`, the saved `esp` |
| `ExecRefuse` | the refusal when the terminal or the table is full |
| `ExecEnter` | `tss` and `iret` |
| `HaltStart` | `num_proc--`, the terminal goes to the parent |
| `HaltBase` | a base shell frees its pid and calls `execute("shell")` |
| `HaltReturn` | pid freed, parent's page mapped, jump into its frame |
| `Tick` = `SpawnShell` or `RoundRobin` | `pit_handler`, `process_switch` |
| `TerminalSwitch` | Alt+Fn |

Everything `execute` does before `allocate_pid` (parsing, the lookup, the ELF test,
kernel programs) either returns without touching this state or goes on to `ExecAlloc`;
it is in `Commands`. The loop over the terminals in `process_switch` can only start the
shell of the displayed one; with no free pid it falls through to the round robin *after*
setting `curr_exe_terminal`, which is `ScanFrom`.

### Allocator and Buddy

`Allocator` has the blocks that callers hold and the last call of `malloc` with its
result. `Buddy` has the C structures: `buddy_head`, the links `prev` and `next`, `size`. A
call is one action that runs the code's loops as recursive functions: `malloc` splits from
the lowest level that has a block down to the one it needs (`Halved`), `free` merges for
as long as the buddy looks free by its links (`Merged`). `held` is what the callers hold.
Two things are taken for granted: calls are not interrupted, and node 2047, one past the
end of `buddy_list`, is memory that nothing else uses.

### Lines and TermLine

`TermLine` keeps the console's memory in one record, `con`; each C function that changes
it is an operator from a record to a record, and a handler is their composition, so that
`EnterKey` is what `irq1_handler` does for Enter: store the newline and the flag, echo it
through `set_mem` on the displayed screen, and put the routing back. Handlers and `putc`
run with interrupts off and are one step each; `terminal_read` is `ReadBegin` (flag and
buffer cleared), `ReadWaits` (the flag cleared once more) and `ReadReturn` (it sees the
flag, copies, stores the history), with anything in between; `terminal_write` is one step
per character, with ticks and keys in between. A frame of video memory is abstracted to
the terminals whose text it shows, a buffer to the characters below `buffer_iterator`.

Up and Down do not route their deletions (terminal.c:389, :408), whichever process runs.
The model has what they do to the line, to both positions and to the routing; the blanks
they leave, perhaps on another terminal's screen, are not recorded in a frame, and
`astray` says that `screen_x/y` is, until it is next set, that of the displayed terminal
and not of the one that runs. `Routed` excepts that position, `OwnScreen` is about text.

In `Lines`, a reader gets the line its own user edits from the moment it began to read.
The mapping drops the newlines that end a line or fold it on the screen (`Text`), and
takes the buffer for the abstract line only while someone reads (`edited`): the code drops
what was typed ahead. A line is done when the reader can see the flag (`complete`), what it
was given is what `terminal_read` copied (`given`), and the lines that can be recalled are
the entries of the history (`recalled`). What a reader is given is promised only while its
terminal is displayed: terminal.c:155 copies from the displayed terminal's buffer.

### Signal

`kstack[p]` has an entry for each interrupt or call under way on p's kernel stack, and
the place in `signal_handler` where it is: `"tail"` before a signal is chosen, `"act"`
after. Interrupts nest between these steps. `ustack[p]` has the four words that
`signal_handler` puts on the user stack (code of `sigreturn.S`, context, number, return
address), so that `Sigreturn` looks for its context where the code looks, at
`stored_esp + 4`. `ControlC`, `Rtc` and `Fault` raise signals, `Tick` changes the process,
`Kill`, `Ignore`, `CallAlarm` and `Deliver` are the four ways out of the switch, and
`DeliverNot` is the delivery that the code skips when the interrupt came from kernel code.

### Interrupts

A frame of a kernel stack is `[vec, user, if, pc, num]`: the vector, whether user mode
was interrupted, the saved interrupt flag, where the kernel is, the call's number.
`Words(f)` are the words that processor and stub have pushed for it; each stub is the
words it makes room for and those it drops. `irr`, `isr` and `waiting` are the
controllers and the devices, which are external: an 8259 holds back lines of lower
priority until it is told of the end of the interrupt, and a device that has not been
read does not interrupt again. `Answer` is a handler from `cli` to `sti`; `Start` and
`Switch` are the two outcomes of the clock's handler, which sends its EOI before them;
`HaltProgram` is what a kill leaves of the stack. `Int80`, the call and `CallReturns`
are separate steps on account of `.ret_val`, which all calls share.

### FileSys and Files

A byte of a file is its address on the disk, so that a copy from the wrong place shows.
`ReadData` is the loop of `read_data` over blocks and its last, partial copy; `Contents`
is what the inode says. `fds[p]` is `file_desc_arr` from 2 on, `seen` a history of what
came through each descriptor. `rtc_read` is `RtcReadBegin`, `RtcReadWakes` (the loop sees
the flag) and `RtcReadReturns` (the flag is cleared), since interrupt and other readers
come in between; `fresh[p]` is a history of the periods that ended since p last woke.
`HaltCloses` ends a process in user mode, or by Ctrl-C anywhere within `rtc_read`, which
then never clears its flag.

### Calculator and Commands

`Calculator` has the two stacks with numbers as chars, whose every assignment wraps.
`Expressions` has `Value`, the meaning of a well-formed expression by splitting it at its
operator of the lowest priority, and with it `Calculated`. It says nothing of stacks:
`ValueOf[n]` are the values of the expressions of up to `n` characters, each from those of
shorter ones. `Commands` takes a command line apart as the four states of `execute` do
(`ParseOne`, one character), finds the program as the code does (first on the disk by
name, then a kernel program whose name begins the command), and runs the calculators one
character per step. `SeparateArgs` is the loop of `separate_args`, one `Split` per
character; `WordsGiven` compares it with where words begin and end (`Begins`, `End`),
which no loop computes. `Killed` is Ctrl-C: signal.c:66 halts also what runs in the
kernel, so that an `info` that is killed leaves its colour on the screen, and `cal` its
stacks. `chosen` and `killed` are histories of the colour.

## 3. The runs

| run | size | what it asks |
|---|---|---|
| `process` | 6 pids, 3 terminals, 3 processes each, interrupts also at `"exec"` | all safety properties of processes and scheduler |
| `process_live` | 5 / 3 / 3, fairness | a shell for each displayed terminal, every terminal runs |
| `process_preempted` | 4 / 2 / 3, interrupts everywhere | refuted: a tick inside `execute` resumes a stale stack |
| `process_hidden` | 4 / 2 / 3, any timing of the user | refuted: a shell restarted behind another screen has a dead parent |
| `buddy` | 8 pages, lengths on both sides of each level's bound, 0 and too many | lists, partition, merging, refinement of `Allocator` |
| `buddy_any_ptr` | 8 pages, any page freed | refuted: `free` accepts a page that starts no block |
| `term_line` | 2 terminals, 2 x 3 screen, buffer of 4, one reader; 184,600 states | types, routing, own screens, refinement of `Lines`, delivery |
| `signal` | 2 processes, one with handlers of 2 and 3, depth 2, 2 frames; 29,000 states | what is masked is handled, what is raised is dealt with |
| `signal_kernel` | the same with handlers of 1 and 2, and of 2 and 3; 1.15 million states | types, every frame leads back |
| `interrupts` | 2 processes, clock, keyboard, RTC, two exceptions, five call numbers; 60,000 states | flag, lines in service, stack layout, own result, devices answered |
| `files` | 2 processes, a directory, a fragmented file of 7 bytes in blocks of 3, two rates; 686,000 states | reads in order, RTC paced, RTC readers return |
| `commands` | 2 shells, all well-formed expressions of up to 3 characters and longer ones, the code's limits of 32, 10 and 32; 445,000 states | values, words, colour, types |

Bounds and why they are enough.

- *Processes.* Three terminals are the code's number, and the smallest with a round robin
  that can skip one. Six pids against three terminals of at most three processes make both
  refusals happen, the full terminal and the pid kept for another terminal, as well as
  running out of pids; nine and five add states of the same shapes. Two terminals show
  both refutations.
- *Pages.* Eight make lists of four nodes, so that a node is unlinked from the head, the
  middle and the end of a list, and merges go through three levels; `size` is initialised
  for four of eight pages as it is for eleven of 1024 in the code.
- *Terminals.* Lines wrap at three columns and the screen scrolls at two rows; the buffer
  is filled, emptied and filled again; two lines per terminal (`MaxReads`) make a history
  to go up and down in. One terminal reads and the other only prints: readers share
  nothing but the display, which both use.
- *Signals.* Depth 2 nests an interrupt in `signal_handler`. With `MaxFrames` = 2 signals
  are raised, and faults made, while a handler runs, and up to three frames lie on a user
  stack. For safety the first process handles its own faults, so that a handler faults into
  itself. For liveness only one process handles signals: the other keeps the processor from
  it, takes its Ctrl-C, and is killed. The theorems hold for every depth.
- *Interrupts.* One device on the second controller and two on the first; exception 0
  kills and 13 returns and has an error code; numbers 0 and 14 are the two sides of the
  table, 2 and 3 the call that leaves and one that returns.
- *Files.* The file ends within a block and its blocks are not in order on the disk; reads
  of 2 and 3 bytes make every alignment. Two rates show flags shared and not shared.
- *Commands.* Up to three characters are all ways to put one operator, a sign or a
  parenthesis; the longer lines have two operators of either priority, overflow of a char,
  division with a remainder and by zero. A command of 33 characters
  and an argument of 11 words exceed the parser's limits; an argument of more than 32
  characters is excluded (section 4).

Reading the refutations. `process_preempted` is a tick after `change_terminal_process`
and before `iret`: the new process has never been interrupted, yet the scheduler takes
its `scheduler_esp`. `process_hidden` is `execute` asking `num_proc` of the displayed
terminal. `buddy_any_ptr` is `size` not being marked unused for most pages.

## 4. What the properties assume

Where the code does not keep a property in every case, the case is named by a constant,
and the run that checks the property excludes it. Each is a limit of the code: with the
constant at the other value TLC refutes the property.

| constant | what is excluded | properties lost without it | where it bites |
|---|---|---|---|
| `Windows` (Process) | interrupts at other kernel points than the named | `NoStaleStack` and most others; run `process_preempted` | syscall.c:248, :39 |
| `AnyTime` (Process) | the user switches screens within 10 ms of a shell's end, or exits a base shell that is not displayed | `FirstHasNoParent`; run `process_hidden` | syscall.c:209 |
| `AnyPtr` (Buddy) | pages freed that start no block | `RefusesUnused`; run `buddy_any_ptr` | page.c:18 |
| `AnyUser` (TermLine) | keys other than Alt+Fn on a terminal whose line is complete and not yet read; Enter between the emptying of the buffer and the last clearing of the flag; lines longer than the buffer less two; recalling folded commands | `Implements` (the line is empty, cut or lost), `TypeOK` (the iterator passes the buffer's end) | terminal.c:135, :136, :141, :295, :397 |
| `KernelReturn` (Signal) | a signal with a handler found while returning to kernel code | `MaskIsHandled` (the signal is lost and the others stay masked) | signal.c:59, :83 |
| `ReturnsAtomic` (Interrupts) | an interrupt between the write of `.ret_val` and its read | `ReturnsOwnResult` (the value of another process's call) | handler_dispatcher.S:875, :891 |
| `AnyRead` (Files) | a read of less than a block that ends beyond the block it began in, where the next block of the file is not the next on the disk | `ReadsInOrder` (bytes of a foreign block) | filesystem.c:103, :118 |
| `AnyTerminal` (Files) | a process that uses the RTC while its terminal is hidden | `Paced` (the rate is that of another terminal) | rtc.c:165 |
| `Overlap` (Commands) | two terminals in the kernel's calculator at once; a colour chosen (`color`, Ctrl-L) or a second `info` begun, on any terminal, while `info` prints | `Calculated`, `ColorKept` | calculator.c:2, kernel_program.c:117 |

`Freqs` in `files` leaves out the largest frequency, 1024: `rtc_write` takes it for rate 10
of the ten in `int_flag` (rtc.c:149), and what lies behind the array is the linker's choice.

`BracketsAssumption` (Commands) leaves out expressions whose brackets do not match, which
the code does not refuse: at a bracket that is not open the loop of `cal` reads below `op`
(calculator.c:33), at one left open the last loop may take a number below `num`
(calculator.c:75). All other expressions, well-formed or not, are in.

`ArgumentsAssumption` (Commands) leaves out arguments of more than `MAX_ARG_LEN`
characters, which a line of 128 has room for: `execute` counts the characters of the
command but not those of the argument, which it writes past its own array of 33 bytes
(syscall.c:94, :147) and then, with `strcpy`, past that of the PCB (:232). What
`Calculated` and `WordsGiven` say is of arguments that fit. A word longer than
`MAX_ARG_LEN`, which `separate_args` would cut, is therefore not among the lines; `Split`
has the test all the same.

Two exceptions are part of a property instead, since the run reaches them: the position that
an unrouted Up or Down has moved (`Routed`), and the colour of an `info` that was killed
(`ColorKept`).

Other bounds: `MaxDepth` and `MaxFrames` cap the nesting on kernel and user stacks, which
the code does not; `MaxAhead`, `MaxReads` and `Readers` cap what is typed and read.

## 5. Fairness

- *Process*: weak fairness of a call under way (`pc # "user"`), since each handler that
  interrupts it ends; strong fairness of `Tick`, since the PIT interrupts for ever and the
  PIC holds a tick until it can be delivered.
- *TermLine*: weak fairness of `Tick`; strong fairness of `ReadReturn`: a reader that is
  scheduled for 10 ms again and again gets to test a flag in a loop of a few instructions.
  Without the strength it might be preempted before the test every time.
- *Signal*: strong fairness of `signal_handler`'s steps, of a handler's return and of the
  tick, for each process: kernel code takes less time than interrupts leave between them,
  and a program's handlers are taken to end. Calls may wait for ever, so `HandlerRuns`
  excepts them; a handler of a lower signal may be raised again and again, which it
  excepts too.
- *Interrupts*: weak fairness of the handlers' steps and strong fairness of accepting each
  line: the keyboard may be held back by the clock many times but not for ever.
- *Files*: weak fairness of `rtc_handler` and of a reader's steps.

Nothing is asked of the user or of programs otherwise: they may never call, nor press a key.

## 6. What is proved

Seven modules of proofs and one of lemmas, with no bound on the constants. Processes,
devices, depths of nesting, sizes are arbitrary; the assumptions on constants are the
named `ASSUME`s, which TLC evaluates in the runs.

`ProcessProofs`:

- `TypeCorrect`: `TypeOK`, for every set of interrupt points and any user. `TypeOK` needs
  `Frames` (the stack in use has no saved context, `execute` under way has its pid) to be
  inductive.
- `Invariance`: the inductive invariant `IInv`, under `Timely` (`Windows \subseteq
  {"exec"}` and `AnyTime = FALSE`), and from it `TreeCorrect`, `CountsCorrect`,
  `NoStaleStackCorrect`, `PageCorrect`, `ImagesCorrect`, `FirstHasNoParentCorrect` and the
  action property `ParentCorrect`. `Timely` excludes the tick between mapping a page and
  loading it, with which the code does overwrite a live program (syscall.c:192). On top of
  it, `TickCorrect` (an action property), `NoLeakCorrect` and `PidKeptCorrect`; the last
  one assumes that there are at least as many pids as terminals (`EnoughPids`), which the
  code's nine and three are.

  The safety properties are not inductive: that a tick resumes a real context depends on
  every *other* terminal's foreground process having been interrupted in user mode
  (`OthersResumable`); that `execute` finds the right terminal depends on the caller being
  the foreground process of the scheduled terminal, or a shell that is gone (`AtPoint`);
  that a terminal left by its base shell has no process depends on parents never going
  round in a circle (`Acyclic`). All changes to the tree are of three kinds, each with a
  lemma: nothing live changes (`SameTree`), a process becomes the foreground of a terminal
  (`AddLeaf`), the foreground process leaves (`RemoveLeaf`). One lemma per action stands
  on top of them. That no pid leaks is an induction along the chain of parents, over a set
  of pids; that one is kept for each terminal without a shell is a count of the pids in use
  against the processes of the terminals that have been displayed (`ShownHaveShells`).

`InterruptsProofs`: `TypeCorrect`, `UserInterruptibleCorrect`, `NoneInServiceCorrect`,
and, where `ReturnsAtomic`, `ReturnsOwnResultCorrect` (that no interrupt falls between the
write and the read of `.ret_val`, which the code does not see to). `ContextFoundCorrect`
compares, position by position, the words that a frame's stub has pushed with those
`signal_handler` counts on: only exceptions 13 and 14 and the devices get to the common
tail (`Returning` in `GoodFrame`), and 13 and 14 are among those for which the processor
pushes an error code. That user mode has interrupts on is not inductive: an `iret`
restores the flag of its frame, so every frame must be the first exactly when it
interrupted user mode, and then with the flag set (`GoodFrame`, `Stacks`); a switch goes
to another stack, so every process that does not run must be in `process_switch`
(`Others`); and a line in service must be that of the handler which runs with interrupts
off (`Service`), or the EOI would be someone else's. `Own` carries the value in `.ret_val`
from the call's end to its return.

`SignalProofs`: `TypeCorrect`, `FramesLeadBackCorrect`, and, where `KernelReturn` is
`FALSE`, `MaskIsHandledCorrect`. `Stacks` says that the words on the user stack are whole
frames, the topmost perhaps without its return address, that the one below a frame is
the handler it interrupted, and that a kernel stack is one entry from user mode with
interrupts on top of it (`GoodKernel`, `GoodUser`); `GoodMask` says which entry, or which
frame, accounts for the mask.

`FilesProofs`: `PacedCorrect`, where `AnyTerminal` is `FALSE`: a flag that is set is news
to each reader of its rate, but for the one about to clear it (`FlagsAreFresh`), and a
process in `rtc_read` reads for its own terminal (`OwnTerminal`), whose rate nobody else
can change. `ReadsInOrderCorrect`, where `AnyRead` is `FALSE`, for every disk that is
whole (`FileSysAssumption`: a regular file has an inode other than 0, enough blocks, and
fewer than an inode can list, since `read_data` returns 0 once it is through the last of
1023). `ReadDataRight` says what `read_data` returns and copies: after each round of its
loop (`Reading`) what was copied is the file up to a point, the next round begins there,
and only the first can begin within a block; so the loop ends within its bound
(`AllRounds`), and the last copy is the only one that can leave its block. `Descriptors`
carries this from read to read. `TypeCorrect` assumes what the run does, that no program
asks for 1024 Hz (`NoLastRate`): its index would be one beyond `int_flag`.

`TermLineProofs`: `RoutedCorrect` and `OwnScreenCorrect`, for any user, from the invariant
`ViewInv` of routing and frames; and, where `AnyUser` is `FALSE`, `TypeCorrect` and
`ImplementsCorrect`, that every behaviour of the terminals is one of `Lines`. For each C
function there is a lemma on what it does to the console record (positions, frames, the
displayed line) and to its `Text`; the loops of `show_last_cmd` are recursive functions,
and what they leave is found by induction: after the deletions a beginning of the line
(`DeletingLine`), after the display that beginning and the command (`DisplayingAll`). The
invariant `TermInv` adds to `ViewInv` that a flag that is set belongs to a buffer which
ends in a newline and has no other since (`Ended`), without which a reader could be given
a line that is not complete, and that the characters below the iterator are characters
(`LineInv`). The refinement has a lemma per action.

`BuddyProofs`, where `AnyPtr` is `FALSE`, for an area of any size below 2^20 pages:
`TypeCorrect`, `WellLinkedCorrect`, `PartitionCorrect`, `CoalescedCorrect`, and
`ImplementsCorrect`, that every behaviour of `malloc` and `free` is one of `Allocator`.
Four parts stand on each other. The tree: a page lies in a node's area when its leaf,
`ENTRIES + p`, lies below the node, from which follow what children, parents and buddies
share (`Children`, `Parent`, `Buddies`), that nodes that share a page are nested
(`Nested`), and that an aligned block is a node (`NodeAt`). The lists: `Linked(F, S)` says
that the links of `F` hold exactly the nodes of `S`, with a rank that falls along the
links in place of a statement that there are no cycles; `Adding`, `Popping` and
`Unlinking` keep it, and `Reached` counts the nodes of a row to show that the walk of
`FreeNodes` meets all of `S`. The invariant `BuddyInv`: free nodes and held nodes tile the
pages, `size` knows the level of each block held, and no two buddies are free; in the loop
of `malloc` but for the pair last split (`HalfWay`), in the loop of `free` with one node
in no list (`Merging`). The refinement: that `NULL` is returned only when no aligned block
is free is an induction on the level (`FreeAbove`), in which two buddies that are both
covered are covered from above, or would both be free. tlapm does not know `2 ^ n` for a
variable `n`: hence `Powers`.

`CommandsProofs`, for arguments that fit `execute`'s array (`ArgumentsAssumption`):
`WordsGivenCorrect`, and, where `Overlap` is `FALSE`, `TypeCorrect`, `ColorKeptCorrect` and
`CalculatedCorrect`. That the loops of `cal` never take from an empty
stack is not inductive over the stacks alone. `Fits` says that there is one number more than
there are operators, brackets not counted, and `Closes` that what is left to read closes the
brackets that are open, no more and no fewer; a character read keeps both (`ReadFits`,
`ClosesTail`). The loops end, on a bracket or an empty stack (`UntilFits`), so the last one
leaves a single number (`OneNumberLeft`). Two terminals in the kernel's calculator would
share one stack and await two things of it. `Colour` says that `info` runs once at most and
keeps the colour found, which is the one chosen or that of an `info` killed before.

That `cal` prints the value (`Calculated`) has two halves. `ValueComputes` is about one
expression: read on stacks that leave it alone, it leaves its value on top (`Computes`), by
induction on its length, along the definition of `Value`. An expression is not read on empty
stacks, so the statement is about any stacks below it whose topmost operator binds less
(`Suits`); and operators are applied late, when the next one comes, so it is about what the
loop leaves that is then due (`Leaves`): the one that stops at brackets continues what the
one that stops at sums began (`UntilTwice`, `Looser`). `Sound` is about the system: what is
left to read leaves on a calculator's stacks what the whole expression would on empty ones
(`Pending`). A character read keeps this, and so do the steps of other processes, whose
stacks are others (`SoundKept`).

`WordsGiven` holds because of what is so after every character (`Scanned`): within a word
(`Within`), the words before it are as wanted and the last one given is the beginning of
it; between words (`Between`), all that began are; and once the loop has stopped, what was
given is all that is wanted. Words are counted by where they begin (`NthStep`,
`NthOrder`). This is proved of any text, also with words that are too long, which stop the
loop at the character after the limit (`WordTooLong`), as the last word allowed does at
the blank behind it (`AllGiven`); in an argument that fits no word is too long
(`ShortWords`).

`Induction`: the theorem modules state induction for a predicate given as an operator, which
the provers cannot instantiate. Here it is stated for a set (`SetInduction`,
`StrongInduction`), from the well-foundedness of inclusion between finite sets, and
recursion for a step given as a function (`RecursionExists`, `IteratesExist`).

Every safety and action property of a passing run is stated by a theorem. Only
model-checked: liveness (`ShellAppears`, `EveryTerminalRuns`, `LineDelivered`,
`HandlerRuns`, `Answered`, `RtcReturns`), which is out of the provers' reach.

## 7. What is not modelled

Components: boot, the descriptor tables and page-table bits (straight-line writes of
constants), the kernel's tests, `printf` and the string helpers, the clock's counter and its
conversion to a date, user programs other than the calculator and `color` (they are the
environment).

Inside the modelled parts:

- interrupts inside `allocate_pid`: two calls may take the same pid, and from then on two
  processes share a kernel stack, which the variables, functions of the pid, cannot say;
- a second tick inside `process_switch`, between the `sti` and the `iret` of the shell it
  starts;
- interrupts inside `malloc` and `free`, whose damage depends on the order of single stores;
- `set_handler(NULL)` (an uninitialised pointer), Ctrl-C when the displayed terminal has
  no process (PCB -1 is written), `rtc_write` of 1024, and arguments that overrun
  `execute`'s array: each writes to memory that no model has;
- `vidmap`, which maps one frame once and for all;
- dead code: the serial ring buffer (nothing sets `MODE_INPUT_BUFFER`), `rtc_open`,
  `rtc_close`, `disable_irq`, the operation tables' `open` and `close`;
- scan codes, Shift and Caps, which choose a letter; the words that `help`, `meminfo` and
  `info` print.
