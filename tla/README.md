# A TLA+ model of MegaSim

MegaSim simulates an 8-bit AVR microcontroller. It loads a program, decodes it,
and executes it instruction by instruction; peripherals of the simulated board
are separate processes that talk to the simulator over two pipes each. This
directory holds TLA+ modules that model the parts of MegaSim where the difficult
behaviour is, TLC configurations that check them on small instances, and proofs,
checked by TLAPS, of the properties that matter most, for every value of the
constants.

Paths below are relative to the repository: `src/core.c` is the simulator's
core, `Peripherals/pin.py` a peripheral.

## 1. Inventory

| Component | Code | State | Operations |
|---|---|---|---|
| Listener registry | `src/peripherals.c` 404-575, `src/core.h` 101-143 | `mem_listeners[]`, `Port.listener`, `Port.pin_listener`, `Pin.listener`, `Peripheral.can_write`, `perph_write_flag` | SETM, SETP, SETPN, CLAIM, CLAIMP, CLAIMPN |
| Data memory, ports and pins | `src/core.c` 30-93, 176-377, `src/peripherals.c` 249-272 and 577-653 | `main_mem`, `sreg`, `Pin.state` | `writeMem`, `readMem`, `writePin`, WRITEM, WRITEP, WRITEPN, three notifications |
| Peripheral sessions | `src/peripherals.c` 118-357, 383-402, `Peripherals/*.py` | the table of peripherals, `live` (shared with the child process), two pipes per peripheral | launch, START/READY conversation, polling, notification, shutdown |
| Run loop and debug terminal | `src/core.c` 122-165, `src/debugterm.c`, `Parser/debugterm.y` 131-212, `src/megasim.c` 89-95 | `pc`, `break_now`, `debug_mode`, `cycle_count` | fetch, execute, continue, step, quit, BREAK, SIGINT |
| Instruction set | `src/handlers.c` 196-1400 | registers, `sreg`, `SP`, `pc`, the stack in `main_mem` | one handler per instruction |
| Decoder | `src/decoder.c` 37-49, 123-651, `src/decoder.h` | the `Instruction` records | opcode word (and the next) to `Instruction` |
| Loader and arguments | `src/megasim.c` 101-284, 290-405 | `program->data`, `size`, `instructions` | binary and Intel hex files, option parsing |
| Device table | `src/devices.c` | constants | none |
| Python peripherals | `Peripherals/pin.py`, `ear.py`, `helloWorld.py` | a state name | answers to START, notifications, KILL |
| Timers | `src/timers.c` | | not built: not in `SOURCES`, `-D NO_TIMERS` |
| Generated scanner and parser | `src/lex.yy.c`, `src/debugterm.tab.c`, `Parser/` | | flex and bison output |
| Tests, examples | `UnitTests/`, `c_examples/` | | GoogleTest is vendored |

How they interact. `main` loads and decodes the program, launches the peripherals
one after the other, holding a START/READY conversation with each, and calls
`runAVR`. Each turn of `runAVR` executes one instruction or, when `break_now` is
set, the debug terminal; then, if any peripheral has a claim, it holds the same
conversation with each peripheral that has one. The store instructions call
`writeMem`, which refreshes the port registers and writes notifications into the
pipes of the listeners. Requests that peripherals make in the conversations
change the tables, the memory and the pins, or ask for the terminal (BREAK).
SIGINT asks for the terminal at any point.

What is hard:

- *interleaving*: requests of several peripherals for a port and for its pins;
  the order of stores to DDRx and PORTx, external drives and pin notifications;
  SIGINT at any point; the child that clears `live` while the parent tests it;
- *cached state*: `Port.pin_listener`, `perph_write_flag`, `debug_mode`, the
  copy of the instruction in `runAVR`, the registers that SBI, CBI, PUSH, WRITEM
  and the terminal change without `writeMem`;
- *framing*: START, KILL, replies and notifications share one pipe, and only
  their order tells a peripheral which it reads;
- *failure*: a peripheral that is missing or dies between any two messages, or
  in the middle of one; a pipe, mmap or fork that fails for one of several;
- *blocking*: both sides read and write with blocking calls;
- *boundaries*: unmapped bits, the pc at the end of the program, addresses that
  are stored before they are decoded, error codes whose sign is misread;
- *arithmetic over several instructions*: the carry, half carry, overflow and
  sign flags hand a value from one byte to the next, and eight of the handlers
  compute them with formulas of their own;
- *the stack as bytes*: calls, returns, PUSH and POP read and write it in units
  of one, two and four bytes, with nothing to say which a byte belongs to;
- *overlapping encodings*: masks of `decodeInstruction` that only the order of
  the tests keeps apart, and fields of `Instruction` it leaves unset;
- *uninitialised and stale memory*: `program->size`, the high bytes of a hex
  record's address, and the buffer a line is read into, which keeps bytes of the
  lines before where a line is short or unreadable.

What makes each component correct:

- Listener registry: one owner for every address and pin, a port standing for
  its pins; the cached flags are exact; who is polled owns something.
- Ports and pins: PINx shows what drives an input; a listener of an output knows
  its level; PINx does not change silently; only an owner drives a pin.
- Sessions: no message is taken for another; a request is never left in a pipe;
  the program starts only with peripherals that are ready or known to be dead;
  nothing waits for ever; no process is left behind.
- Run loop: no fetch outside the program; a request for the terminal is never
  lost; outside the terminal Ctrl-C is heard.
- Instruction set: the programs compilers make for values of 16 bits compute the
  values they should, and their last flags those of the whole operation; a
  return that stays in its masks goes to the instruction after its call, and of one
  that does not it is known where it leaves `SP`.
- Decoder: it inverts the assembler; no handler meets an unset field.
- Loader: whatever the uninitialised variables held, memory is what the records
  that were accepted make of it, and each line that holds a record gave that record;
  nothing is left out but where the size says that memory is full.

## 2. Modules

    Ownership            what the tables promise        CallStack   what a stack promises
       ^ implemented by                                    ^ implemented by
    Listeners            the tables, SET* and CLAIM*    Control     pc, SP and the stack's bytes
       ^ EXTENDS             ^ EXTENDS
    PortIO               Sessions          RunLoop      Alu         registers and flags
    memory, ports, pins  processes, pipes  the loop
                            ^ EXTENDS
                         Scripts
                         pin.py, ear.py, helloWorld.py
                                                        Decoder     opcode -> Instruction
                                                           ^ EXTENDS
                                                        Loader      files -> program

`Listeners` writes each handler as a relation between the tables, the tables
after, and the reply. `PortIO` and `Sessions` extend it and say when a request is
served; so the tables are the same in all three. `PortIO` keeps the data that
requests, stores and notifications carry and lets requests arrive whenever the
peripheral is served; `Sessions` keeps the order of messages and processes and
leaves the data out. `RunLoop` is the control of the simulator alone: a
peripheral's BREAK is `Check` setting `break_now`.

`*_proofs` hold the theorems of the module they extend, `MC*` the values of the
constants for TLC.

### Listeners

`mem_listeners`, `port_listener`, `port_pin_listener` and `pin_listener` are the
fields of those names; `can_write` and `perph_write_flag` say who is polled.
`setmHandler`, `setpHandler` and `setpnHandler` have one disjunct per reply, in
the order of the early returns; `GrantWrite` is the tail of the CLAIM handlers.
A missing port or pin is `NoPort` or `NoPin`. `mem_listeners` covers every
16-bit address, so an address is never out of range. A truncated request
(FORMAT) changes nothing and is left to `Sessions`. Pin numbers that index before
`pins[0]` either end the simulator or are answered RANGE, as `NoPin` is; the first
is in `PortIO` (`LowPins`).

### PortIO

A byte is the set of its bits that are 1. `writeMem` is a choice by the kind of
address: `WriteSpecial` (status register, print addresses), `WritePinRegister`,
`WritePortRegister` (the refresh of PINx and the pin and port notifications) and
`WritePlain`, each with the early store above `sram_start`, all followed by the
notification of the address's listener. `Instruction` is a store through
`writeMem`, or SBI, CBI or PUSH, which change memory directly; PUSH also stands
for the calls and for the terminal's assignment, and so for any change of
`main_mem` that is not a `writeMem`. `writePins` is `writePin` for the pins a
request drives: one for WRITEPN, all of a port for WRITEP.

History variables: `told_mem`, `told_port`, `told_pin` hold the last value each
listener was sent; `bypassed` the addresses that were changed other than through
`writeMem` since the last refresh. `crashed` is the undefined behaviour of
`writePin(0)`: `pins[-1]` is the word before an allocated block, which is either
NULL (the function returns) or is used as a pointer (the simulator dies). The same
goes for the pin numbers of `LowPins`: number 0, which `setpnHandler` lets through,
and for `writepnHandler`, which reads the number as a `signed char`, 128 to 255 as
well.

`DriveIsOwned` says who may drive a pin without a history of who did: the step must
be one that a WRITEP or WRITEPN of the owner makes (`DrivesPin`), the owner being
served at the time, and that the same requests of no other peripheral could make.

`main_mem` starts with any content: it comes from `malloc`. `running` is the
phase; that launch is one peripheral after the other is abstracted here (any
peripheral may be served before the program runs) and modelled in `Sessions`.

### Sessions

`pc`, `cur` and `during` are the control of the simulator: `open` (the loop of
`openPeripherals`), `send` and `read` (the loop that `startPeripheral` and
`readCommand` share), `run`, `store` (in an instruction), `check` (the loop of `checkPeripherals`), `close`
and `wait` (`closePeripherals`), `done`; `aborted` is the `free` of memory from
`mmap` after a failed `fork`. `proc[p]` is the peripheral's process: `forked`,
`failing` (exec failed, `live` cleared, not yet exited), `await`, `reply`,
`final` (its READY is unanswered), `exited`. `down` and `up` are the pipes.

One element of a pipe is one message. A peripheral flushes a request with its
arguments at once and the handlers read them before anything else on that pipe;
a peripheral that dies after the command byte leaves `TORN`. A write to an
exited process fails and clears `live`; a write to a full pipe waits; a read of
an empty pipe waits, or finds the end of file when the process has exited.

An instruction is three kinds of step: `Execute` chooses whom its stores notify
(`owed`, any owners in any order, the same one several times: of pins, their port
and the address), `Notify` makes one write, and `Executed` goes on. While the pc of the
simulator is `store` it is in the middle of an instruction and may be blocked at a
full pipe; `NeverStuck` says that it gets out of there too. WRITEP's reply and the
notification that follows it are one step: the peripheral that asked waits for the
reply with an empty pipe, so that neither write can block.

The peripheral is one that keeps to the conversation the simulator expects: wait
for a command; answer a START with one request or READY; take the next message
for the reply. It may send any request of the protocol and knows that BREAK has
no reply. pin.py is written this way but for its last request; ear.py and
helloWorld.py are not, which is why `Scripts` exists.

### Scripts

The simulator is that of `Sessions`; the peripherals are the three scripts.
`state[p]` is the script's variable of that name, or its exit code, and
`reads[p]` what it takes its next message for: a command, or the answer to its
last request ("Clear ACK" in the scripts), whatever it is. Each `if` of a script
is an action: `Killed`, `PinNotes`, `PinAsks`, `PinIdles`, `EarStarts`,
`EarIdles`, `HelloStarts`, `HelloRepeats`; `Requested` and `After` are the states
of pin.py as a table. ear.py falls from START through to IDLE and so sends READY
before the simulator has sent its second START; helloWorld.py sends PRINT and
READY for one START, and one more READY for what it reads next. Both stay one
message out of step, and the properties say why nothing comes of it: a
notification is only sent when a script reads a command (`NotesAreHeard`), and
the extra READY lies in the pipe of a peripheral that owns nothing and is never
polled (`StrayIsHarmless`). A notification is one message, read with its
arguments; the log files are left out. `Says` is what each script can send;
`SaysAssumption` asks of `Requests`, the environment of `Sessions`, that it allows
at least that.

### RunLoop

`at` is where control is: the steps of a turn of `runAVR` (`fetch`, `decide`,
`execute`, `after`, `check`), `enter` and `terminal` in `runDebugTerm`, `exit`.
An instruction is its address; executing it is any outcome a handler can have:
the pc moved anywhere, an error (perhaps with the pc moved, as the jumps do), or
a BREAK. `inst` and `cost` are the address and the `cycles` of the copy `runAVR`
makes; `cycles[a]` is a set because skips and branches set the field in their
copy, and because most of `decodeInstruction` leaves it as `malloc` did. `Size`
stands for every pc past the program. The terminal prints `instructions[pc]` when it
is entered, past the program too (`Enter`, `PrintCrashes`). `Wrap` is a bound of
the model and nothing else: `cycle_count` is a `uint64_t` that is only added to and
printed, and no property speaks of it but the type invariant.

### Alu

`regs` and `sreg` are the register file and the flags, one action per handler.
A register is a number; the single bits the handlers look at are comparisons
(`Msb`, `Mid`), so that the flag formulas are those of the code whatever the
width of a register. `Half`, `Nibble`, `Width` are 128, 16 and 8 in the code and
in the run. The state machine executes a short program, `Code`: one of those a
compiler emits for 16-bit operations (add, add in a loop, subtract, compare,
negate, shift, multiply, exchange, merge). `before` keeps the registers it
started with. Eight registers in four pairs are enough for every program; which
of the 32 they are does not matter to any handler but the multiplications, whose
product goes to R1:R0 (`P`). The bits of a number are a set of places (`BitsOf`);
`&`, `|` and `^` give the byte whose bits are the intersection, the union and the
symmetric difference of those of the operands.

### Control

The program is not fixed: any instruction may stand at any address, as long as
the program returns only to a return address, pops only what it pushed and
stores only below its stack. `WithReturn` is the store of the pc into the two or
three cells that end at `SP`; `Continue` is the handler's end and the test of
the pc in `runAVR`; `JumpTo` adds the test of the handler, which `RJMP_run` makes
of another address than the one it jumps to. A skip takes the length of the next
instruction from what lies behind `runAVR`'s copy: any of `Garbage`. `frames` is
the history of what is on the stack, and `derailed` says that a return has gone
somewhere else than its frame says; after that the program may do anything and
the model stops. The model starts when the start-up code has set `SP`. How far a
return goes astray is `StraysKnown`: RET leaves `SP` where its call found it and
misses the call only by the bits its mask takes away, RETI leaves `SP` two cells above
its frame.

`CallStack` is the abstract machine: a stack of return addresses and saved bytes
in which POP gives back what PUSH stored and RET goes back to the call. In the
refinement mapping the value of each frame is read from the bytes in memory, so
that overwriting a byte of an older frame is a step CallStack does not have.

### Decoder and Loader

`Decode` is `decodeInstruction` as a function from an opcode and the next word
to a record; each mask is written as the field of the opcode it compares, in the
order of the tests. A field the code does not set is missing from the record.
`Encode` is the other direction, from the base codes and `encode_*` helpers of
`UnitTests/decoder_tests.cpp`. `pc_size` is 16, as in the one device table there
is, for the `cycles` that depend on it.

`Loader` is `main` up to `runAVR`: `loadBinFile`, or `loadHexFile` line by line, and
`decodeAllInstructions` word by word. A hex file is a sequence of lines: whether the
number of characters is odd, which is the only format that is rejected, and what
`%2X` reads at each pair of characters, `NotHex` where it reads nothing. The
search for the end of a line (`stripEOL`, `strchr`) is left out.

`hexToByteArray` is modelled with what it does to the 256 bytes of `buffer`: its
loop makes as many turns as the line has characters, and so goes on behind the line
for as many pairs again (`Behind` is what may be read there); each pair is stored as
an `int`, with three zeros behind it; a pair that cannot be read stores nothing
and leaves what earlier lines, or the stack, have put there. The record is what is
in the buffer afterwards (`Parsed`), so that an empty line repeats the record before
it. `phase = "wild"` is a use of memory outside the program's arrays: a line that
goes past the end of the buffer, a byte count that does, a record stored outside
`program->data`, more words decoded than there are. A record addresses 64 KB, and
program memory has 128; `high` is what lies above the two bytes that are set of an
address.

`program->size`, the buffer and `high` start as any of `SizeGarbage`,
`BufferGarbage` and `HighGarbage`, and nothing that is said of a hex file excludes a
value. `HexAccounted` says what can be said in every case, by the history
`taken` of the records accepted and the size each of them found: a line that holds a
whole record gave that record and no other, all of them had the right checksum
(`RecordsAre`); each byte of memory is that of the last record stored over it, at the
place its address had with `high`, or zero (`MemoryIs`); the size is what it was begun
with and the bytes stored (`SizeIs`); and only from a size of the memory on is a record
cut, or is a line left that does not follow an end record (`NothingLeft`).

## 3. Runs

| Run | Question | Bounds |
|---|---|---|
| `MCListeners` | Are the tables and flags consistent whatever the order of requests, and do the tables implement `Ownership`? | 2 peripherals, an address, a port with 2 pins, one with 1 |
| `MCPortPair` | Do drives, PINx and what its listener was told agree through every order of stores and requests of two peripherals? | port J, bits 0 and 1, a print address; 2 peripherals |
| `MCPortSingle` | What do SBI, CBI, PUSH, WRITEM and unmapped bits leave behind, and what do the listeners of outputs and of memory know after the next store? | port A, bit 0 unmapped; a pin number that indexes before `pins[0]`; an SRAM cell; 1 peripheral |
| `MCSessions` | Is every message read for what it is, with every kind of request, and does everything end? | 2 peripherals, 2 requests each, pipes of 3, 2 notifications per instruction; either may fail to launch, be missing or die at any point |
| `MCScripts` | Do pin.py, ear.py and helloWorld.py, out of step as two of them are, never give up, lose a notification or leave a request that the simulator reads, and does everything end? | one peripheral per script, pipes of 3, 2 notifications per instruction; each may be killed or fail to start, one cannot be launched |
| `MCRunLoop` | Is the pc in range at every fetch, Ctrl-C heard, a request for the terminal never lost? | 2 words, counters modulo 4 |
| `MCAlu` | Do the programs for 16-bit sums, differences, comparisons, shifts, products and bit moves compute what they should? | 8-bit registers, boundary values in every byte, all flags set or clear before |
| `MCControl` | Do the bytes on the stack implement a call stack, and where does a return that goes astray leave `SP` and the pc? | 5 words, bytes of 3 values, a stack of 5 cells, return addresses of 2 and 3 bytes |
| `MCLoader` | Does the decoder invert the assembler for every opcode, and is what a hex file leaves in memory accounted for by its lines? | all 65536 opcodes in files of 16 words; hex files of up to 3 of 11 lines; a memory of 16 words, a buffer of 24 bytes, addresses that wrap at 16 |
| `UnmappedBit` | *violated*: every request is answered | port A |
| `CompareConstant` | *violated*: after CPI every branch finds what it tests for | as `MCAlu` |
| `ReturnsToCaller` | *violated*: RET and RETI go to the address the call stored | as `MCControl` |

Every property of a passing run has a mutant: an operator next to the definition
it replaces, which is that definition with a plausible bug (`PortTakenIgnoringPins`
next to `PortTaken`). With the mutant in place the property is violated.

Why the bounds are enough to be interesting. Two peripherals are the least for a
race, and the handlers treat a peripheral only as equal or not equal to an
owner. Two pins on one port and one on another separate "some pin" from "every
pin" and one port's flag from another's. The bits of a byte do not influence
each other in `writeMem`; two bits show one pin's notification and drive next to
another's. Ports A and J are at the addresses of `src/devices.c` and differ in
what the code tests: A has an unmapped bit, J lies above `sram_start`.
A pipe of three holds a reply, the notification that follows it, and a START, and
is filled by the notifications of two instructions, of which each sends up to two,
to one owner or to two: the third write
fills the pipe of an owner that does not read and the fourth waits. The state constraints of
`MCPortIO` stop a run where its question ends: `NoBypass` leaves the direct
changes of memory and the memory listeners to `MCPortSingle`, and `Separate`
there looks at the memory listener and at the port's one at a time. Permuting
the peripherals is a symmetry of `PortIO`, whose runs check invariants and
action properties only. `MCPortSingle` switches the deadlock check off because a
crash ends a behaviour.

The flag formulas look at two bits of each operand and of the result, and at the
result being zero; the boundary values (0, 1, 127, 128, 255 and values between
that set each nibble) have every combination of these bits, in the low byte and
in the high one. The stack of `MCControl` is deep enough for two return addresses of
two bytes with a byte pushed between or after them, or one of three bytes and
two pushed ones; three values of a byte make every address of the program take
two bytes, and a `ReturnLimit` of 4 in a program of 5 words does to the last
address what the mask 0xFFF does to the addresses past 4096. A decoder is a
function of one word, so the opcodes can share files of 16 words; two more
files are shorter and longer than the memory. Three lines are enough for two data
records of which one is stored over the other and the end, and for a line that is empty,
shorter than its byte count or no digits after a record that is longer, with another
behind it. The sizes a hex file is begun with are none, some and more than the
memory has; with the second the file is cut in the middle of a record.

Fairness. `Sessions` (and `Scripts`) assumes weak fairness of the simulator's own
steps and of each peripheral process: the operating system schedules both, and a blocked read
or write is disabled, not unfair. It follows that a live peripheral reads what it
is sent and answers, which the code relies on: `read` and `waitpid` have no time
limit, and a peripheral that hangs hangs the simulator. Nothing is assumed of the
program (`Execute`; but an instruction that has begun goes on, `Notify` and
`Executed`, unless it waits at a full pipe), the user (`Terminal`, `Finish`) or failures (`ExecFails`,
`Dies`, `IsKilled`, `OpenFails`). `RunLoop` assumes weak fairness of the loop, and nothing of
the user at the terminal or of Ctrl-C.

### Where code and documents disagree

With a run each:

- WRITEP to a port with an unmapped bit calls `writePin(0)` (`src/peripherals.c`
  613) and may crash instead of answering; the protocol document promises an
  answer to every request.
- CPI, SUBI and SBCI compute C and V with the sign of an operand or of the result
  the wrong way round (`src/handlers.c` 1027, 1030): a comparison with a constant
  does not order the operands. CP and CPC do.
- RETI pops two bytes before the return address, and RET keeps 12 bits of a
  16-bit pc (`src/handlers.c` 887, 899-908).

Seen while modelling; the models do as the code does, and no run is spent on them.

- Core: `readMem` (`src/core.c` 282) tests `addr >= 0x58 || addr <= 0x5E`, true of
  every address, so the branch that assembles SREG is dead. The early store of
  `writeMem` makes PINH, PINJ, PINK and PINL writable although the port loop calls
  PINx "Read only" (178 and 205). `cycle_count` is charged for the instruction the
  terminal displaced and not for those executed by `step`, and, for most
  instructions, with a `cycles` nobody set (152).
- Instructions: a taken branch goes to pc + k + 2 where the manual says PC + k + 1
  (`src/handlers.c` 1056 and 1062): the size of the instruction is added twice.
  IN and OUT address the general registers, because they leave out the 0x20 that SBI and CBI add (`src/handlers.c` 1187, 1193). INC sets V for 0x7F
  where the manual says 0x80, DEC leaves S alone, SBC and CPC set Z from the byte
  alone, BLD always clears its bit, MULS and FMULS do not extend the sign, FMULS
  and FMULSU shift right, LPM without operands reads data memory, EIJMP drops the
  high byte of Z, the skips read the length of the next instruction from the stack.
- Decoder: 0x9008 and 0x9208 are decoded as loads and stores through Y, and bit 3
  of SBRC and SBRS is ignored.
- Loader: `program->size` is "In words" (`src/core.h` 71), counts bytes after a
  hex file, and is added to without having been set (`src/megasim.c` 160), as the address
  is used with two bytes unset (197). `isValidHexString` accepts every string.
  A line that is empty, short or no digits is not rejected: its record is made of
  bytes of earlier lines or of what lies behind it (268). A line of 127 pairs or
  more may be stored past the end of `bytes[256]`, and a byte count of 252 or more is
  read past it.
- Terminal: `step` (`src/debugterm.c` 55) looks for negative errors, as
  `src/handlers.h` 28 says they are; they are all positive. A BREAK at the last
  address lets it execute what lies behind the program, which the terminal has
  printed before (`Parser/debugterm.y` 137).
- Pin numbers: `setpnHandler` (`src/peripherals.c` 520) refuses those that are too
  large and reads `pins[-1]` for 0; `writepnHandler` (626) reads them as `signed
  char` and takes 128 to 255 for negative ones, which are not too large either.
- Protocol: the document lets a peripheral send any number of requests after a
  START; the code sends a START before each (`src/peripherals.c` 328). A listener
  may WRITEM without a claim; `mem_claim` (`src/core.h` 141) is never used. BREAK is
  not answered, SYNC, UNSYNC and CLK are answered BAD (447, 655).
- Scripts: ear.py reads a START where its comment says "Clear ACK"
  (`Peripherals/ear.py` 72), and the ACK as a command, which it ignores; the reply
  pin.py logs for port E is that of port B (`Peripherals/pin.py`
  196); helloWorld.py sends a READY nobody asked for (54).

## 4. Proofs

The theorems hold for all values of the constants that satisfy the assumptions
the modules name: `DeviceAssumption` (every pin belongs to a port; `NoPort`,
`NoPin` and `NULL` are none of the real ones), `MemoryMapAssumption` (the
registers of two ports do not overlap, and are not the special addresses),
`PinMapAssumption` (two pins of a port have different bits), `ProgramAssumption`
(a program of at least one word), `ControlAssumption` (addresses of the program
fit in two bytes, a stack of at least one cell, return addresses of two or three
bytes), `WidthAssumption` (a register has an even number of bits, in two equal
nibbles of at least two values; the programs are those of `Code`),
`SessionAssumption` (pipes of at least two messages, requests of the protocol),
`ScriptAssumption` and `SaysAssumption` (each peripheral runs one of the three
scripts, on pins, ports and an address there are), `LoaderAssumption` (files of
words or of lines, of any length and in any number, a buffer longer than four
bytes). TLC
evaluates them for the values of the runs.

**Listeners_proofs.** `TablesInv` = types, `PinFlagExact` and `PortPinExclusive`.
Exclusion is not inductive alone: `setpHandler` refuses a port by
`Port.pin_listener`, so it needs the flag to be exact. `PolledExact` needs that
grants stay (`GrantsStay`). `TablesImplementOwnership` is a step simulation: a
granted SETP acquires all pins of the port at once, which needs `PinFlagExact` to
know they were free; every other step acquires one resource or none.

**PortIO_proofs.** First, every step of `PortIO` is a step of `Listeners`
(`StepOfTables`), so that its invariants and its implementation of `Ownership`
carry over (`PortsUseTables`, `PortsImplementOwnership`). The invariant
`PortInv` adds to the properties two links between tables and memory: a pin is
driven only if it is listened to (`DriveListened`) and only a listener was told
anything (`ToldListened`). Without the first, `DrivenInputVisible` is not
inductive: `writeMem` applies the drives only on a port with a listener.
`DriveIsOwned` is an action property; that a pin's drive changes only in a request
of its owner, which no other peripheral could make, uses `DriveListened`,
`PolledExact` and `PortPinExclusive` (`DriverIsOwner`);
`PinChangeReported` is another (`StoreReported`, `DirectReported`, `DriveReported`)
and uses `PortPinExclusive`: on a port with a listener a WRITEPN is the listener's.

**Sessions_proofs.** `SessionInv` holds for any number of peripherals, any set of
requests of the protocol, pipes of any capacity and any failures. `Framed` and
`NoStrayRequest` are not inductive: that a peripheral reads a reply where it waits
for one is a fact about the order of everything in its pipe, and that order comes
from where the simulator is. `Talk` ties the two together: a START is the last
message of its pipe and the simulator is then reading from the answer's pipe; a
peripheral with a request out has an empty pipe, so the answer comes first in it.
The lemmas say what each kind of message does to that (`TalkAfterCommand` for
START, KILL and notifications, `TalkAfterRead`, `TalkAfterTakeStart`,
`TalkAfterTake`), and `TalkStays` that it holds for every other peripheral. `Rounds`
extends `LiveMeansReady` to the middle of the loops over the table (entries before
`cur` are ready or dead) and needs `PolledExact` for the instruction after which
nobody is polled; `Closed` does the same for `NoOrphans`. `OwedOwners` says that what an
instruction has still to send goes to owners in the table, who wait for commands. `SessionsUseTables` gives
the composition all that is proved of `Listeners`. The proofs use no fairness.

**RunLoop_proofs.** `LoopInv` says where the pc may be at each place of the loop
(`Placed`): in range from the check to the next fetch, at most one past the
program in the terminal.

**Control_proofs.** `StackInv` = types, `Contiguous`, `PcInProgram` (what the test
at the end of each handler leaves) and `Above`
(the first cell of every frame lies above `SP`). `Contiguous` says that each
frame begins where the one before it ends, and `Above`, derived from it along
with the sequences' lemmas (`Extended`, `Shortened`, `Prefix`), that a store below
`SP`, a PUSH or a call cannot touch an older frame (`ValueKept`). The step
simulation of `ControlImplementsCallStack` then has one step per action: a call
appends the value its own bytes spell out (`ReturnPushed`, which rests on the
arithmetic of two and three bytes in `BytesOfAddress`), POP and RET remove the
last and leave the others as they were, and a return that goes astray is
`Undefine`. `StraysAreKnown` is about those: the cells RET and RETI read are the
frame's own, whatever was pushed and popped since, and the masked address is the
frame's exactly when it is below the limit.

**Scripts_proofs.** The simulator's steps are those of `Sessions`, and its lemmas
about the tables and the loops over them are used again; the conversation is not,
because two of the scripts break the rule `Talk` states. `ScriptsInv` lists instead
(`PinTalk`, `EarTalk`, `HelloTalk`) the places at which each script can be: its
state, what it reads its next message for, what it has sent and the simulator has
not read, what it finds in its pipe (`Finds`: these messages, then only those), and
whether the simulator is about to send it START, waiting for its request or
elsewhere. ear.py and helloWorld.py have a dozen places between them, and the one
message they are out of step is visible in each: a place of ear.py after its launch
finds START and ACK before the news. That the lists are closed needs `Unpolled` (neither
ever claims, and helloWorld.py owns nothing, so that it is sent no news),
`KnownAlive` (a living script that has been launched is not taken for dead) and
`NothingSaid`. `NeverGivesUp`, `NotesAreHeard` and `StrayIsHarmless` follow from the
lists, and with them what `Sessions` promises of its own peripherals
(`LiveMeansReady`, `NoOrphans`, the tables).

**Alu_proofs.** The run takes boundary values of 8-bit registers; the theorems hold
for all values and every width. The first part proves what the handlers' formulas
over top bits mean for one byte (`CarryOut`, `OverflowOut`, `BorrowOut`,
`SubOverflowOut`, `HalfCarryOut`) and lifts it to two (`SumOfWords`,
`DifferenceOfWords` and their signed forms): a word is a low digit and a high one,
and comparing words is comparing high digits with the carry taken in (`Lexical`).
Then there is an inductive invariant for each kind of program: what the first
instruction leaves in the registers and in C, and that the instructions in between
keep it. The programs are finite lists, so a step is a case per instruction
(`OneInstruction`); nothing is assumed of the other programs. `RegistersHoldBytes`
is about all of them: every instruction of every program is `Proper` (its operands
are registers, constants that are bytes, or flags), and each handler then stores
what fits.

`BitsArePlaced` is about bits, of which a register has any number. Two bytes with
the same bits are equal (`SameBits`, from the top bit down), there are as many sets
of places as bytes (the library's `FS_SUBSET`, from which the laws of powers of two
come too: `Weight`), and so every set of places is the bits of one byte
(`BitsOfByte`). With that the bitwise operators are those of sets (`Bitwise2`), COM
is the complement (`Complement`), and the programs are followed one by one in
`PlacesInv`.

**Loader_proofs.** For a program memory, a buffer and files of any size.
`HexAccounted` is inductive once it is known what is so before a file is read
(`Before`: memory is zero, nothing is decoded). The lemmas are about one line:
`BufferTyped` (the buffer holds bytes, whatever was in it and behind the line),
`OwnParsed` (of a line that holds a whole record, the buffer holds that record, since every byte
of it is stored after the zeros of the pair before) and `StoreByte` (which bytes of
memory a record changes, and to what). For
`HandlersReady`, `DecodeFine` goes through the tests of `decodeInstruction` in their
order: a record is fine when its fields are in the range of their uses and all that
its handler takes are there (`Fine`), and a group of opcodes keeps that when what it
adds to the common fields does (`Sound`).

`OpcodesEncodeBack` rests on `DecodeBack`: whatever the opcode and the word after it,
what `decodeInstruction` makes of it encodes back to it (`Exact`), or is refused and
no assembler writes it (`Refused`). The fields of an opcode are spelled out as sums of
its bits (`Spelled`, `Regrouped`), so that it is the sum of the fields a group of the
decoder takes and of the base code of the group (`TwoBack`, `LoadStoreBack`,
`DisplacedBack` and so on, one lemma for each group). For what is refused,
`AssembledPlaced` says where the opcodes that an assembler writes lie (`Placed`), from
`Encode` alone, and the refused ones lie elsewhere. Signed offsets lose nothing
(`Unsigned`). SBRC and SBRS with bit 3 set are no instructions and decoded as if it
were clear (`Tolerated`); there are no other exceptions (0x9008 and 0x9208 encode back, as
accesses through Y in the form of those through X). That the instruction seen in
a state was decoded from the word before the next one is a second invariant,
`DecodedFrom`, which `LoaderInv` keeps.

Only model-checked: the liveness properties, `NeverStuck` and `BreakSeen`, which,
with fairness and `ENABLED`, are beyond the installed prover. No module has a
RECURSIVE operator.

## 5. Not modelled, and why

- Timers: not built. `hardWritePin`, `readPin`, `forceClosePeripherals` and
  `startPeripherals` have no caller. `teardownMemory` runs after the last use.
- A hung peripheral, and stdin at its end (the terminal then loops for ever
  with Ctrl-C ignored): nothing bounds either in the code.
- RATE, time and all text output.
- An empty program (`program->size` 0), which `runAVR` fetches from unchecked.
- The loads (LD, LDD, LDS, IN, LPM, ELPM), which copy what `readMem` or program
  memory returns; SLEEP, WDR and SPM, which end the run with an error; `LSL_run`,
  `ROL_run` and the other handlers whose instructions no opcode decodes to.
- Option parsing (`parseArgs`, `parsePeripherals`), the search for the lines of a hex file, `printInstruction`.
- Most of the lines of the repository: GoogleTest (some 60 000 lines) is vendored,
  `lex.yy.c` and `debugterm.tab.c` are generated, and neither has any state of the
  simulator. Of `core.c`, `peripherals.c`, `handlers.c`, `decoder.c` and `megasim.c`
  the larger part is modelled.

## 6. Plan

Done, in this order: `Ownership`, `Listeners`, `PortIO`, `Sessions`, `RunLoop` and
the proofs about all but `Sessions`, the listener tables first because everything
else rests on them; then `CallStack` and `Control` with their proofs, `Alu` with
its proofs, `Decoder`, `Loader`, `Sessions_proofs`, `Scripts`, the action properties of
`PortIO`, `Scripts_proofs` and `Loader_proofs`.

What would be next: the expression commands of the debug terminal.
