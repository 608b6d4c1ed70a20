# A TLA+ model of EXORCIST

EXORCIST watches running programs for Spectre-like code. A kernel module
(`src/pebs_mmap_version`) samples cache misses and mispredicted branches with
PEBS, filters them and looks at the code around them; a user program
(`src/pebs_user_mod_src`) analyses further what the module sends up. This
directory holds TLA+ modules of the parts of that pipeline that run
concurrently, the TLC configurations that check them, and proofs.

## 1. The system

```
 handler on each CPU  --(ring of the CPU)-->  analysis thread  --(mmap area)-->  user program
 pebs_record_handler    pebs_buffer.c         thread_analyze_func  pebs_message_send.c  share_mem_tool
                        + table of seen code  + list of analysed code                   |
        recv_callback  <------------------- netlink: r, s, g --------------------------+
                        --------------------- netlink: exit, code --------------------->
```

| component | state | operations | what is hard | what makes it correct |
|---|---|---|---|---|
| record rings, `pebs_buffer.c` | per CPU `read_index`, `write_index`, 512 records | `write_ring_buffer` (hook, interrupts off), `read_ring_buffer` (thread) | no lock; copies of the indices; `read_index` is -1 at first | records once, in order, not torn, unless the ring overruns |
| table of seen code, `pebs_buffer.c` | per CPU 64 processes of 256 codes | part of `write_ring_buffer` | searched and written by all CPUs without a lock; slots recycled | a code is withheld only if it was written |
| analysis thread, `pebs_init.c` | - | `thread_analyze_func` | round robin over rings that are being filled; processes die | every ring is served; a record that is listed is analysed |
| list of analysed code, `pebs_taine.c` | `taine_mem_list` | `insert_and_search_analyze_list` | pids die and come back while it is searched | a record is dropped only if it was analysed |
| PEBS record handler, `pebs_init.c` | the debug store of the CPU | `pebs_record_handler` | called in the process that is left, for records of any process; loops over a store that may hold none or one | every pair written once, in its owner's name |
| taint analysis: exploration, `pebs_taine.c` | recursion, copies of registers, stack and heap | `symbolic_execution`, `pebs_taine_analyze` | bounded exploration of branches; resources on every path | each path on its own copies, all freed; an attack is handed up |
| taint analysis: one instruction, `pebs_taine.c`, `pebs_taine_tool.c` | register words, bit maps of the stack, heap log, flags | `symbolic_execution_one_step`, `analyze_branch_instruction`, `judge_attack` | masks and bit runs worked out by hand, negated macros, memory not cleared | a mark is found where it was put, and nowhere else; a branch is decided only when it is |
| message area, `pebs_message_send.c`, `share_mem_tool.cpp` | two indices and the slots | `send_msg_by_mmap`, `judge_message_struct_full`, `read_data`, the reset by "r" | no lock, two address spaces, the slot given back before it is copied, the reader killed | bounded channel |
| session control, `pebs_message_send.c`, `pebs_init.c` | `is_start`, `usermod_pid`, hook, buffers, thread | `recv_callback`, `pebs_mod_init`, `pebs_mod_exit`, load and unload | failures of one step, two commands at once, frees under a running handler | nothing freed is used, a stop undoes a start |
| requests for code, `full_diasm_info.cpp`, `async_analyze_code_tool.cpp`, `netlink_tool.cpp` | `_thread_code_map`, socket | `get_jmp_info`, `thread_recv_data_by_netlink`, `read_data` in the kernel | notification before the wait, lost and late replies, one address for all replies | each thread gets its own replies and never waits for ever |
| end of the user program, `pebs_user_mod.cpp` | threads | `main`, `stop_recv_thread`, `stop_analyze_data` | blocking receive, joins | "stop" ends it |
| static analysis: registers, `instruction_analyze_tool.cpp` | symbol of each register and each of its parts | `set_target_symbol`, `analyze_operator` | one case of 50 to 290 lines for each of 68 register names | the parts of a register agree; no taint is lost |
| static analysis: exploration, `static_analyze_tools.cpp`, `state_machine.cpp` | symbolic states | `analyze` | bounded exploration | bounds, verdict |

The kernel's taint analysis runs in the analysis thread, one record at a time;
the static analysis runs in the threads of the user program that `CodeRequest`
models, and asks for code through `get_jmp_info`.

Third-party or outside the running system, and not modelled: BeaEngine,
`pebs_benchmarking` (proof-of-concept programs), `performance_test` (scripts),
the capstone and ptrace wrappers.

At this commit `thread_analyze_func` calls `read_ring_buffer` with two arguments
(`&time`, `&distance`) that `pebs_buffer.h` does not declare; the models follow
the definition in `pebs_buffer.c`.

## 2. The modules

| module | models | used by |
|---|---|---|
| `BoundedChannel` | what the message area promises: `Put`, `Get`, `Reset` of a bounded FIFO | `MmapRing` (refinement) |
| `MmapRing` | message area, its sender, its readers, start, stop, death of a reader | `MCMmapRing`, `MmapRingProof` |
| `PebsRing` | record rings, table of seen code, the thread's round robin | `MCPebsRing`, `PebsRingProof` |
| `TaineList` | list of analysed code, processes that die and come back | `MCTaineList`, `TaineListProof` |
| `Session` | load and unload, start and stop with every failing step, the handler of each CPU and the thread as users of what they set up | `MCSession`, `SessionProof` |
| `SampleScan` | one CPU's debug store, the scheduler's hook, the scan record by record | `MCSampleScan`, `SampleScanProof` |
| `Explore` | `symbolic_execution_prepare`, the calls of `symbolic_execution`, the copies they make | `TaineAnalyze` |
| `TaineAnalyze` | `pebs_taine_analyze`: pages, code, decoding, exploration, message; extends `Explore` | `MCTaineAnalyze`, `TaineAnalyzeProof` |
| `TaineFlags` | pure: the decisions made from flags, and the conditions they stand for | `TaineStep`, `TaineStore` |
| `TaineStore` | what the simulation of a path promises to keep, by name | `TaineStep` (refinement) |
| `TaineStep` | `symbolic_execution_one_step` in the words and bit maps of the program | `MCTaineStep`, `TaineStepProof` |
| `SymRegs` | the registers of the user program's static analysis | `MCSymRegs`, `UserProgramProof` |
| `CodeRequest` | requests for code, receiving thread, `main` from "stop" on, the kernel's replies | `MCCodeRequest`, `UserProgramProof` |
| `MmapRingProof`, `PebsRingProof`, `TaineListProof`, `SessionProof`, `SampleScanProof`, `TaineAnalyzeProof`, `TaineStepProof`, `UserProgramProof` | the proofs about these; `TaineAnalyzeProof` has those about `Explore`, `UserProgramProof` those about both modules of the user program | |

Operators commented "A mutant of ..." are not part of the specifications: they
are mistaken variants of a definition (a lost wrap, a test one slot late, a reset
left out), with which the property beside them in `PROJECT.json` must fail. They
show that the properties are about the code.

### MmapRing
`write_index`, `read_index` and `data` are the area. The sender's program
counter `wpc` follows `thread_analyze_func` from the record to the message:
`Pop`, `Judge` (judge_message_struct_full), `Skip` (the record leads to no
message), `Send` (the second test), `Fill` (memcpy), `Publish` (the store of
write_index). A reader follows `read_data`: `LoadWrite`, `LoadRead`, `Take`
(the store of read_index) and only then `CopyOut`. `StartReset`/`StartRun` are
the two stores of "r"; `Join` is an "r" that finds a session on; `Stop`/`Stopped`
are the begin and the end of `pebs_mod_exit`. A message is the number of its
record. Loads and stores of an index are atomic (aligned 32-bit moves) and the
stores of one side are seen in order (x86).

*Assumption `Alone`*: a run of the program is started only when the reader of
the run before has ended. The code does not enforce it - the old program polls
for ten seconds after its "stop" - and without it TLC finds two readers of which
one sets `read_index` back. The module has one sender because nothing in `src/`
sends the message "t".

### PebsRing
A handler is the sequence search (`Suppress`, `BeginCode` or `BeginPid`), `Mark`
(the table entry), `WriteSlot` (the record), `Publish` (write_index). The search
of the table is one step; records are ordinals of their CPU. The uninitialised
`eflag` of the comparison makes every match optional. Steps that leave the state
alone (ring full, no entry to overwrite) are stutters. A process's slots are the
ones the search can reach: it stops at the first empty slot of a part.

The ring does *not* keep everything: `read_index` is -1 until the first read, so
the full test cannot hold in the first lap, and once the writer has caught up
(`read_index = write_index`) a whole lap is lost. `Settled` says when the ring
is past this, and the properties state what it does from then on: it stays
settled, and the thread gets its records one by one, whole and in order.

### TaineList
One action per way through `insert_and_search_analyze_list`: `Found`,
`AddCode`, `ReuseDead`, `Grow`, `Evict`. `Die` and `Spawn` (external) happen at
any time; `flux` holds the pids whose state changed since the thread looked, for
which each look of the search may give either answer. The memory is not cleared:
`total_num` starts with any value.

### CodeRequest
`Enter` makes the entry under the map's lock, `Ask` is the sendto up to where
the kernel notes the sender, `Answer` the reply (or none) and the release of the
lock, `Wait` the second lookup and the begin of the wait, `Timeout`, `Interrupted`
and `Collect` its ends. `Top`, `Receive`, `ReceiveExit`, `Deliver` are the
receiving thread, `TypeStop` ... `Finish` main. `usermod` is the one process the
kernel replies to. When the map changes while another thread looks up its entry
without the lock (undefined behaviour of std::map), the program may die
(`dead`) or find what it looked for. One start per run of the program is modelled.

### Session
Loading is `Acquire` five times (area, character device, class, device, netlink)
or `AcquireFails` in between; `recv_callback`'s "r" is `Start` and then the
steps of `pebs_mod_init` - buffers, the store of each CPU, the thread, the hook -
each with its failure, and "s" (`Stop`) the steps of `pebs_mod_exit` in the source's
order. A handler (`hpc`) and the thread (`tpc`) look at what they use in one step
and use it in the next, so that it may be freed in between. A use of what is not
there sets `fault`, after which nothing happens: `FaultHasCause` says for each
kind of fault from which of the code's conditions alone it can come.
The user takes every start to have worked; `OnMatchesWhatFailed` says what a session
that is on really has, for each thing that failed at its start: everything, or, with
no memory for rings or list, stores that are sampled into and nobody who takes the
samples, or, when `kthread_run` failed, rings that the handlers fill and nobody
reads. `pebs_mod_init` does not undo that last failure (pebs_init.c:421-434), and
`pebs_mod_exit` does not survive it. `OffLeavesNothing` has one exception: a CPU's
store whose buffer could not be had stays allocated with nothing pointing to it
(`leaked`, pebs_init.c:243-244).
Assumptions: two commands of the same kind do not overlap (the code does not keep
them apart, see the hazard at `pebs_message_send.c:233`); the CPUs are online
throughout and numbered from 0; the compiler loads `pebs_handler` once per call;
the module is unloaded with no device or socket open.

### SampleScan
A record is its event, whether its address is one the handler looks for, and its
distance in time from the one before; `p1`, `p2` are the handler's two pointers.
`Sample` appends (a full store takes none), `Switch` enters the handler in the
process that is left, `SkipRecord` and `Examine` are one turn of its loop each,
`Leave` empties the store. The counters count user mode only, so nothing is
added during the scan; distances are kept in 32 bits (`Wrap`).

### Explore and TaineAnalyze
`frames` is the C stack of `symbolic_execution`: where each call is, its depth
`lim`, its `cycle`, on which simulation it works. One action is one turn of its
loop or one call or return: `Step`, the four answers of a branch, `Fork...` with
the copies that may fail half-way, `...FoundNothing` and `HandUp`. Which
instructions are branches, what they answer and where they lead is any choice:
the module is about the exploration, not about values. `sims` and `texts` count
what is allocated; `fault` records a copy from a null pointer and a free of a
pointer that was never set. `TaineAnalyze` puts around it `pebs_taine_analyze`:
the addresses of the window, `get_user_pages_remote`, the copy, the decoding
with its unsigned `SecurityBlock`, the release and the message. Addresses are
general, although the handler of this build writes only pairs whose low 12 bits
are `0x23d` and `0x249` (pebs_init.c:546-556).

### TaineFlags, TaineStore and TaineStep
`m` holds the structures that a path works on: `regs` is `registers_can_break`
with `registers` as bits 16-31, `set`, `taines` and `unsure` are the bit maps of
the simulated stack as bytes of eight bits, `heap` is the log of writes
elsewhere, `rflags` and `rflags_unsure` the flags. `RunBits` is the splitting of
an operand over two bytes of `set_stack_bit`, `unset_stack_bit` and
`get_stack_bit`; `Mask` the masks of `pebs_taine_tool.h`, those of rcx being the
bits of rsp, rbp, rsi and rdi; `AnalyzeSource` and `SetDest` are
`analyze_source_operator` and `set_dest_operator`; `OneStep` selects by mnemonic
as `symbolic_execution_one_step` does. What the code does differently from the
processor is kept: mov writes the operand it reads, push leaves the result
uninitialised (`Junk`) and writes before it moves rsp, or runs the code of xor
after its own, the maps start with whatever the memory held (`Leftovers`), a heap
value is never known, registers are never unknown. Left out: the values (a memory
operand comes with a place, any of those the `Program` names), the instructions
that move no taint, operands of 16 bytes.

`TaineStore` has no words, masks or maps: the marked registers by name, the
marked, written and unknown bytes, the heap addresses that are `hot` and those
that no longer take a mark (`shut`, behind an entry that is not known).
`ByName` maps the one to the other.

`TaineFlags` has `Answer` (`analyze_branch_instruction`), `Read`
(`judge_attack`) and `SetByte` (`setcc_analyze`), and beside them the conditions
themselves (`Condition`), over every value of the flags. `NotGet` is
`!GET_ZF(x)`: the macro has no parentheses, so the negation comes before the
shift and what is left is 0 unless the flag is bit 0.

### SymRegs
One register at a time: `parts` are the entries of `_addr_symbol_map` for its
64-, 32-, 16-bit and two 8-bit names, `mem` one place in memory. `Write64` ...
`Write8High` are the kinds of case that `set_target_symbol` is made of; `SetRAX`
... `SetR15B` say which of them each of the 68 names is, and each was compared
with its lines (edi and a few others differ from the rest). A 64-bit value is four
digits of two bits, one for each part that can be written alone. `val`, `bent`,
`due` and `trust` are history: what the processor would hold, which digits a part
is known to have wrong, the taints due, and whether a part was taken from a symbol
whose own parts are older or missing.

A number is kept as unsigned text and read back into a `long long` (`to_int`,
state_symbol.h:544-550): from 2^63 on it is taken for 2^63 - 1. After
`mov rax, -16` the entries of eax, ax and al are `0xffffffff`, `0xffff` and `0xff`,
and a number merged into rax later starts from 2^63 - 1. The model converts in the
same way; `bent` has, for each part, the digits that are wrong for it or for one of
the other reasons `NumbersAreTrue` names.

`Sources` is what an instruction may write: constants, whole names from memory or
from an operation, what movzx, movsxd, cwde and cdqe make of a smaller name
(`Extended`), a taint that shl moves up by a byte or more (`Shifted`), and results
that lack symbols of their parts (`Partial`): `movzx ax, <byte>` and cbw leave al
without one, bswap of 64 bits leaves eax without one, and `and` with a constant can
make a name without any. An entry taken from such a result is null, is read as a new
untainted name and lets the next write of a byte follow a null pointer; `trust` is 1
for the result and 0 for the entries, and the three properties say what holds
otherwise. A number an operation comes to, and one kept in memory, is taken at its
word: the values of arithmetic are not modelled.

Left out: reads of memory at another width than the write (the program has its own
rules for them), numbers that come in as signed text, the mark of a product in
symbols wider than a byte, which nothing here looks at, and that cbw changes the
symbol of al itself where the model copies it. `SymInit`, `SymNext` and the like
have names of their own so that one module can extend this one and `CodeRequest`.

## 3. The runs

| run | bounds | shows |
|---|---|---|
| `mmap_ring` | 4 slots, 2 runs of the program, 5 records | `TypeOK`, `NoDataRace`, `RoomAfterJudge`, `ImplementsChannel`, `EveryMessageRead` |
| `pebs_ring` | 2 CPUs, ring of 3, 4 records each | `SettledKeepsAll`, `SettledIsRead` |
| `pebs_ring_table` | 2 CPUs, 2 slots of 1 code, 3 processes, 3 records each | `OneSlotPerPart`, `TableIsPublished` |
| `taine_list` | 2 entries of 2 codes, 3 pids, 3 codes, 4 analyses | `ListedWasAnalysed`, `OneEntryPerPid`, `LiveLosesOnlyWhenFull`, `LosesLeastHit` |
| `session` | 2 CPUs | `FaultHasCause`, `SamplesIntoStore`, `OffLeavesNothing`, `OnMatchesWhatFailed`, `CommandEnds` |
| `sample_scan` | 2 processes, store of 4, distances up to 8 of which 2 make a pair | `ScanIsComplete`, `ChargedToItsOwner`, `ScanEnds` |
| `taine_analyze` | 4 instructions, depth 3, cycle 2, pages of 16 bytes | `OwnPath`, `AttackIsHandedUp`, `CopiesAccounted`, `NullIsSecondFork`, `CallsAdvance`, `JudgesMissedBranch`, `EndsClean`, `AnalysisEnds` |
| `taine_step` | stack of 32 bytes, 1 heap address, every kind of instruction, 2 steps | `ImplementsStore`, `JudgesWhatItDependsOn`, `AnswersSettled` |
| `taine_step_jne` | the same | `JneTaken` is **violated** |
| `sym_regs` | rax, rsi, rdi with 4 writes, the other 13 with 2; 1 taint | `NumbersAreTrue`, `TaintKept`, `HolesAreKnown` |
| `code_request` | 2 threads, 1 id each, room for 2 replies, 3 records, 1 other process | `OwnEntry`, `OwnReplies`, `RequestEnds`, `StopEndsWithExit` |
| `code_request_stop_elsewhere` | 1 other process | `StopEnds` is **violated** |

Why the bounds are enough. Four slots with five messages fill the area, empty
it and wrap both indices; three would make the full and the empty area differ by
one message only. Four records on each CPU go round a ring of three: before the
first read, overrun, and settled. Two slots of one code for three processes are
the least in which a slot is recycled while another handler searches. Three pids
on two entries force eviction while a pid stays out; three codes on entries of
two force a code out, and four analyses list again what was evicted
(`MaxAnalysed`). Two threads give every interleaving of two critical sections;
with one id a thread draws it again at once; room for two replies lets one be
lost and one be late. A store of four holds two pairs, a pair cut by its end and a
pair of two processes. Depth 3 and cycle 2 allow a fork inside a fork, forward
and back, and a list of 4 a branch out of it at both ends. A stack of 32 bytes
gives maps of four bytes: operands inside a byte, across one, and at both ends
of the map; two steps let one instruction meet the marks of another, and the
refinement is proved for every size. Four writes to a register are the least
that save a symbol, change a part, bring it back and write a part again; taints do
not meet, so that one shows what several would.
`MaxMsg`, `MaxRec`, `MaxNum`, `MaxAnalysed`, `MaxJobs`, `MaxWrites` and
`MaxSteps` bound counters; they are guards of `Pop`, `Begin`, `Count`, `Analyse`,
`Enter`, the writes and `Exec`. `MaxSteps` is also the code's own limit.

Every run sets `CHECK_DEADLOCK FALSE`: the models may stop when the bounded input
is used up, when the program has ended, or at a fault.

Fairness. `MmapRing`: the kernel thread finishes the record it has taken up and
the reader keeps polling (weak fairness of `Poll(r)` as a whole); nothing forces
a record to come, a command to be typed, or an analysis to end with a message.
`PebsRing`: the thread runs, and a handler that has begun runs to its end, with
interrupts off. `CodeRequest`: threads are scheduled and a timeout passes;
nothing forces records or "stop". The bounded number of records is what makes
weak fairness enough for the lock and for `SettledIsRead`: a CPU that writes for
ever as fast as the thread reads could keep it at one ring. `Session`: a command
that has begun, the thread and a handler that has begun go on, since each runs in
a context the kernel schedules; nothing forces a command, a sample or a switch of
process. `SampleScan`: the handler goes on, with interrupts off. `TaineAnalyze`:
the analysis thread goes on until the analysis is done.

### Findings
`code_request_stop_elsewhere`: `pebs_user_mod_src/readme.md` says "type stop to
stop the test". When "stop" was typed in another instance first (main has a
branch for it), the kernel has sent "exit" there and cleared `is_start`; the "s"
of the started program is ignored, its receiving thread stays in recvfrom, which
`boost::thread::interrupt` does not wake, and `stop_recv_thread` joins it for
ever.

`taine_step_jne`: the comment at `pebs_taine_tool.c:444` says "JNE ZF=0". The test
there is `!GET_ZF(RFLAGS)`, which expands to `!(x & 64) >> 6` and is 0 for every
value: a jne whose flag is known and clear is taken for not taken. The same holds
of jno, jns and jnp; jnb is right because CF is bit 0. `AnswersSettled` therefore
covers the other branches, and leaves out jna too, which is settled as not taken
when only one of its flags is known.

Smaller divergences that no run is about, kept in the models or left out with the
instruction: the test of jecxz looks at 16 bits and never answers "not taken"; the
comment of jng says SF=OF where the code, rightly, tests for a difference; the
shifts are told by `Mnemonic[0]` three times over; `disassemble_code` tests its
list one entry late.

## 4. The proofs

`MmapRingProof` proves for every number of slots `M >= 3`, every set of readers
and every bound `MaxMsg` (assumptions `SlotsAssumption`, `BoundAssumption`):

| theorem | states |
|---|---|
| `Inductive` | `Spec => []IndInv` |
| `TypeCorrect` | `Spec => []TypeOK` |
| `RaceFreedom` | `Spec => []NoDataRace` |
| `JudgeIsStable` | `Spec => []RoomAfterJudge` |
| `Implementation` | `Spec => ImplementsChannel` |

`NoDataRace` and the channel are not inductive by themselves: that a slot is free
follows from where the indices are, and they are only known modulo `M`. `IndInv`
therefore ties them to the histories: `write_index = (Len(sent) + 1) % M` and
`read_index = Taken % M`, with at most `M - 2` messages between them and one less
from `Judge` to `Publish`; the slots from `Len(got) + 1` to `Len(sent)` hold what
was sent; what a reader has loaded is the index of some message between. That two
positions are equal modulo `M` only if they are equal is `ModDistinct`. The proof
has one lemma per action. The refinement maps `Publish` to
`Put`, `CopyOut` and `Crash` in mid-copy to `Get`, `StartRun` to `Reset`, and the
rest to stutters.

`SampleScanProof`, for every size of the store, limit and set of samples:
`ScanTypeCorrect`, `ScanFindsAll` (`ScanIsComplete`) and `PairsHaveTheirOwner`
(`ChargedToItsOwner`). The inductive invariant says what the loop has written so
far - the pairs above `p1`, newest first - and that between two handlers the store
holds records of one process.

`PebsRingProof`, for every number of CPUs, every size of ring and table and all
processes and codes (`SizesAssumption`, `NamesAssumption`): `RingTypeCorrect`,
`OneSlotForEach` (`OneSlotPerPart`), `WithheldWasWritten` (`TableIsPublished`) and
`SettledRingKeepsAll` (the action property `SettledKeepsAll`). Of the table,
`FillInv` says that a part is filled in order, so that a search that stops at the
first empty slot and finds nothing means that the process is nowhere
(`NotFoundNowhere`), and `JobInv` that this still holds when the handler makes the
entry: only a CPU's own handler enters processes in its part. Of the rings,
`IndexInv` gives both indices from the numbers of records written and read, and
`WrittenInv` where the last `N - 1` records are; `PendingIs` and `NextIsAfterGone`
compute from them what the thread gets next.

`SessionProof`, for every number of CPUs: `SessionTypeCorrect`,
`NothingFreedIsUsed` (`FaultHasCause`), `HardwareWritesItsStore`
(`SamplesIntoStore`), `StopUndoesStart` (`OffLeavesNothing`) and
`StartMatchesWhatFailed` (`OnMatchesWhatFailed`). None of these is inductive: that a
handler finds the rings depends on what every step of start and stop leaves.
`SessionInv` says, as long as nothing went wrong (`Orderly`), what memory, hook,
stores, handlers and thread are at each step, with what this start could not get
(`lack`, `unset`). The step that matters is `HandlerInv`: a handler runs only on a
CPU that the stop has not called yet, and the rings go after the last of them. What
a session is while it is on follows from `SessionInv` and from a second inductive
property, `StaysOn`: one whose thread could not be made never gets through a stop,
since `pebs_mod_exit` hands the error pointer to `kthread_stop` (`StaysOnKept`).

`TaineAnalyzeProof`, for every size of the list, depth and cycle:
`AnalysisTypeCorrect`, `EveryPathIsOwn`, `EveryAttackIsHandedUp`,
`FirstForkIsSafe`, `RecursionIsBounded`, `MissedBranchIsJudged`,
`CopiesAreAccounted` and `AnalysisEndsClean`. `ExploreInv` is the type invariant with
`StackInv` (each call waits in the mode its callee was called from, farther than
its caller) and `PhaseInv` (when there are calls at all); `AnalyzeInv` adds what
`pebs_taine_analyze` has decoded. `CopyInv` counts: there are as many simulations
as calls and dropped copies, only the call on top is not waiting, and no text is
freed while a call's pointer to it is set; `HeldInv` says what is held at each step
around the exploration, by whichever way it is left. The first part of the module
shows that every action of `Explore` keeps the properties, the second that the
steps around it do.

`TaineStepProof`, for every size of the stack that is a multiple of 16 bytes,
every program and every content of fresh memory: `StructuresStayGood` and
`StepImplementsStore` (`Spec => ImplementsStore`). `RunIsSpan` shows that the two
words of `set_stack_bit` hold exactly the bytes below the offset, `MapOps` that
setting, clearing and testing them are union, difference and intersection;
`RegisterRead`, `RegisterWrite` and `HeapWrite` are the same for masks and log;
`OperandRead` and `OperandWrite` join the four kinds of operand, and `StepEffect`
has one step per kind of instruction. The invariant is needed in one place:
`exec_cwd_and` looks at part of rax, and no instruction marks rax without that
part (`RaxWhole`).
Two more theorems are about the decisions: `JudgedByWhatItDependsOn`
(`JudgesWhatItDependsOn`) and `AnswersAreSettled` (`AnswersSettled`). They hold of
every content of the flags, so that they need of the state only that these are
flags. `ReadDecides` shows that the flags `judge_attack` reads determine each
condition and `JudgeIsDepends` that each of them can turn it; for the answers, `SingleAnswers`,
`AboveAnswers`, `TwoNegated`, `LessAnswers` and `GreaterAnswers` go through the
shapes of tests the source has, each with its completions of the unknown flags.

`UserProgramProof` has two parts. Of the requests for code, for any number of threads,
ids, other processes and any room in the socket: `RequestTypeCorrect`, `LookupFindsOwnEntry` (`OwnEntry`) and
`RepliesMatchRequests` (`OwnReplies`). `OwnReplies` speaks of what is filed; the
invariant `InFlight` says the same of what is on its way, in the socket or in the
receiver's hands: a message that could be filed answers the request that made the
entry, or the id was drawn too early. `OwnId`, from the disjoint ranges of ids,
keeps every other thread off an entry.

Of the registers of the static analysis, for all registers and taints and any number
of writes: `SymInvariant`, `NumbersAreRight` (`NumbersAreTrue`), `TaintIsKept`
(`TaintKept`) and `HolesHaveCause` (`HolesAreKnown`). The three properties speak
of the entries of the map; what keeps them is what the entries point to, since the
next write of the whole, of the register or of another one through memory, makes
entries of the pointers. `SymInv` therefore says of every symbol, width by width, which
pointers it may have (`Sym1` to `Sym4`), and of a symbol of trust 2 that each of its
parts has its digits, but for those recorded wrong under the entry (`BentUnder`), and
its taints (`Good1` to `Good4`). `Own` is what a byte write
remembers of the name it replaces: the taints of the last wide write are kept there
(`Carries`), and a second byte write takes them from there. `NumberEntry`,
`NameEntry`, `TopEntry` and `PartEntry` say what makes a good entry; there is then one
lemma for each kind of case (`Write64Keeps` ... `Write8LowKeeps`), of which the byte
writes share theirs by the byte that is written (`New2Is`, `New4Is`, `New8Is`), and one
for the operands. `SymInv` was model-checked before it was proved, with the bounds of
`sym_regs`.

`TaineListProof`, for every size of list and entries: `ListTypeCorrect`,
`KnownWasAnalysed` (`ListedWasAnalysed`), `SecondEntryNeedsRace`
(`OneEntryPerPid`), and the action properties `LiveKeepsEntry`
(`LiveLosesOnlyWhenFull`) and `ForgetsLeastHit` (`LosesLeastHit`). The invariant adds
`HeldAlive`: the pid of the record in hand was alive when the thread looked, so
that an entry of it that the search passes over as dead shows that it died or came
back meanwhile. `MinIsIn` gets the smallest element of a set of naturals from the
well-founded order of finite sets.

Only model-checked: the liveness properties `EveryMessageRead`, `SettledIsRead`,
`CommandEnds`, `ScanEnds`, `AnalysisEnds`, `RequestEnds` and `StopEndsWithExit`
(fairness and ENABLED are out of the prover's reach). Every invariant, action property
and refinement that a passing run checks is also a theorem. No module declares a
RECURSIVE operator, so that each can be proved about.

## 5. What is left out

- The values instructions compute (`compute_operator`, `logic_al_operator` and the
  like in `pebs_taine_tool.c`, and their counterparts in
  `instruction_analyze_tool.cpp`): 64-bit arithmetic on single operands, with nothing
  that interleaves or accumulates. Where a value decides about control - a branch's
  target, an address - the models take any.
- The exploration of `static_analyze_tools.cpp` and `state_machine.cpp`: it follows
  the plan of `Explore` (bounded recursion over branches) on shared pointers; what
  it shares with the kernel's is covered there, the rest is values.
- The composition of rings, list and message area into one pipeline: the parts meet
  only in the analysis thread, which takes one record at a time, and each part's
  promise is stated for any behaviour of its neighbours.
- "start" typed twice, two commands of a kind at once, CPUs that go offline: the
  code has no behaviour there that could be promised; see the hazards.
- BeaEngine (`beaengine/`, vendored, about 39000 lines with its tables), the capstone
  and ptrace wrappers, `pebs_benchmarking`, `performance_test`, MSR programming, the
  wording of output.
