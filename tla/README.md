# SMO-TAS-Exlaunch in TLA+

SMO-TAS-Exlaunch is a mod of a game console title. It is loaded as a module
of its own, hooks functions of the game, draws a menu over the picture, and
plays scripts of controller input ("TAS" scripts) from the SD card. This
directory holds TLA+ models of it, the TLC runs that check them, and proofs
that TLAPS checks. Paths below are those of the repository.

## Inventory

### The mod (`src/program`, `src/smo-tas`, `src/debug-menu`)

| Component | State | Operations | Correct when |
|---|---|---|---|
| **Menu** (`Menu.cpp`, `Page*.cpp`) | current page, cursor, each page's remembered cursor, shown or hidden, previous D-pad, option flags, sensor alpha, pattern index | `handleInput` once per scene movement, one handler per page, `setCurPage` | the cursor is always a line of the page; a press acts once; the script loaded is the one shown; no edited option is forgotten |
| **TAS player** (`TAS.cpp`, `TAS.h`) | directory listing, current entry, script name, script buffer, nerve (state) and its step, line index, previous buttons, scene | `updateDir`, `tryLoadScript`, `tryStartScript`, `endScript`, `updateNerve` once per movement | a run plays the script it names, exactly as the file says, in the script's mode, and ends |
| **Script format** (`Frame.h`) | – | – | see the player |
| **Game hooks** (`main.cpp`) | – | scene movement, save read/write, game start, drawing | menu, scene and player are called in an order in which nothing stale is read; the hit sensors drawn are those asked for |
| **Code patches** (`patches.cpp`) | – | fixed words written at boot | – |
| **Logger** (`Logger.cpp`, `scripts/tcpServer.py`) | connection state, socket | `init`, `log` | boot goes on only with a state `log` can handle |

### The loader library (`src/lib`)

| Component | State | Operations | Correct when |
|---|---|---|---|
| **Inline hooks** (`hook/nx64`) | count of allocated trampolines, JIT area | allocate a trampoline, move five instructions into it, patch the function | a trampoline for each hook, inside the pool; the original reached through it; moved code does what it did |
| **Executable memory** (`nx/kernel/jit.c`, `virtmem.c`) | mapping state, reservations | create, writable, executable, close; find and reserve addresses | never mapped twice, never executed before it is flushed |
| **RW pages, patchers** (`util/sys/rw_pages`, `patch`) | claim (RO range, RW alias), cursor | claim, flush, release, write | a write lands on the address it is meant for |
| **Module layout, process handle** (`mem_layout.cpp`, `cur_proc_handle.cpp`) | ranges of the loaded modules; a session and a thread | walk the address space; copy a handle through IPC | the module found is the game's; neither thread waits for ever |
| **Dynamic linker** (`reloc`) | module list | look up, relocate | not reached in this build (see *Not modelled*) |
| **Boot and diagnostics** (`init`, `diag`) | the stage reached | `exl_init`, then `exl_main`; abort | every stage finds what it needs done, or the process ends |

### The headers

`src/al`, `src/agl`, `src/game`, `src/nn`, `src/rs`, `src/sead` are headers of
the game's and the SDK's classes, whose code is in the game. A few of `sead`'s
templates hold algorithms of their own:

| Component | State | Operations | Correct when |
|---|---|---|---|
| **`sead::TreeMap`** (`seadTreeMap.h`, `seadFreeList.h`) | a red-black tree of nodes, a free list of cells | `insert`, `erase`, `clear`, `find`, `forEach`, `startIterating`, `nextNode` | it is a sorted map of bounded size, balanced, and no cell is lost |
| **`sead::RingBuffer`** (`seadRingBuffer.h`) | cells, head, size | push at both ends, forced push, pop, `clear` | it is a bounded queue |

### How the parts interact

All of the mod's code runs on the game's main thread, inside hooks. Once per
frame of a scene `SceneMovementHook` calls `Menu::handleInput`, then
`TAS::setScene`, then `TAS::updateNerve`, then the scene's own movement. Page
handlers call the player directly and change its nerve, its script and its
listing between any two of its steps. The game saves and loads its
configuration whenever it likes, with the mod's options inside; it creates and
destroys scenes between movements. The card can be pulled and changed at any
time, and every call on it can fail.

What is hard about it: state left over from the last run, a failed load or an
old listing; a menu that may end, reload or replace a script at any step;
calls on the card that fail half-way through an operation; a buffer that is
never freed; a scene pointer that is one movement old; a restart between a
request to save and the write.

Before that, at boot, `exl_init` walks the address space for the loaded modules
and claims the second of them, the game's main module, for good (a writable alias
of its code). A claim needs the handle of the process, which on older kernels
takes a second thread. `exl_main` prepares the hooks, connects to the log server
and goes on only if that worked. Then patches write fixed words through that claim, and
the eight hooks are installed one after the other: each takes a trampoline of the
pool, claims the words it overwrites, moves them to the trampoline, gives the claim
back, flushes the pool and stores the pointer to its original. All claims share one list of reserved
addresses. What is hard here: distances and pages at their limits, steps that
fail when earlier ones are done, and claims given back in any order.
`PROJECT.json` lists each of these at its line
("hazards"), with the properties that cover it.

## Modules

| Module | What it is |
|---|---|
| `Menu` | the menu, its pages, its options and their way to the save file |
| `TasScript` | scripts, lines and controllers, as data |
| `Playback` | abstract: what playing a script promises |
| `TAS` | the player; implements `Playback` |
| `SmoTas` | the movement hook and the game around it: `Menu` and `TAS` composed |
| `FixInstructions` | the first instructions of a hooked function, moved to a trampoline |
| `Virtmem` | finding and reserving addresses |
| `RwPages` | writable aliases of code: `Virtmem`'s list with the page table and the objects that own claims |
| `CodePatching` | the main module's claim, hooks' claims and a patcher on that memory: `RwPages` composed with its users |
| `Diag` | the abort with which a failed assertion on any thread ends the process |
| `MemLayout` | the walk that finds the loaded modules |
| `ProcHandle` | two threads and a session: the handle of the process |
| `Logger` | the connection to the log server |
| `Hooking` | hooks installed one after the other: trampolines, patches and originals |
| `Boot` | the stages of the boot: `MemLayout`, `ProcHandle`, `Logger` and `Hooking` composed |
| `HitSensors` | what a frame draws of the scene's actors and their sensors |
| `SortedMap`, `BoundedQueue` | abstract: what the two containers promise |
| `TreeMap`, `RingBuffer` | the two containers; they implement these |
| `MenuProofs`, `TASProofs`, `SmoTasProofs`, `FixInstructionsProofs`, `CodePatchingProofs`, `BootProofs`, `HitSensorsProofs`, `ContainersProofs` | theorems and their proofs |
| `MCMenu`, `MCTAS`, `MCSmoTas`, `MCFixInstructions`, `MCCodePatching`, `MCBoot`, `MCHitSensors`, `MCContainers` | constants for TLC |

### Menu

One `HandleInput` is one call of `Menu::handleInput`: it takes the D-pad held
now, computes the presses against `mPrevPadInputs`, moves and wraps the cursor,
runs the handler of the current page (`PageMain`, `PageOptions`,
`PageHitSensor`, `PageInfo`, `PageTAS`, `PageReturnOnly`) and toggles
`isHandleInputs` on a press of the left stick, in the code's order. `Rows`
holds the text rows each page's `init` gives its lines. A handler that calls
the player records the call in `tasCall`. `DataWrite` is the game saving its
configuration (`DataWriteHook`); `Restart` is a new boot, with what
`DataReadHook` reads back.

Abstractions: the eleven flags are a function from the page's line to BOOLEAN,
`mSensorAlpha` counts steps of 0.05, the save file either has all of the mod's
keys or none (the hook writes all of them).

### TasScript, TAS and Playback

`TAS` has one action per operation of the player. The nerve state machine is
`nerve` (the state that will execute next) and `step`: the game's nerve keeper
applies `setNerve` before the next update, from step 0. The step is kept for
`Update` only, the one nerve that reads it. `tryLoadScript` is modelled with
each of its ways to fail: the directory, the search, the open, the allocation,
the read, the magic number. `FreeScript` changes nothing because
`operator delete(ptr, heap)` in `endScript` is the placement form of the
language, which frees nothing: `heapLeft` only shrinks. `mEntryCount` starts
with any value (`GarbageCounts`), `mEntries` with none; reading an entry that
is not there is `crashed`.

`exeUpdate` plays one step. Its loop is the set of lines that are due
(`LastDue`), the last of each player's lines wins, and a player without a line
gets the empty frame.

`Playback` says what that amounts to without an index, a previous-button mask
or a nerve: in step t a player's controller shows the last line the script
gives that player for step t. It promises nothing about `mPadRelease`, which
the code computes in a way no document explains.

External, as `src/` uses it: `nn::fs` calls may fail and list files in any
order; a failed `new` returns null and `ReadFile` into null fails;
`changeNextStage` is remembered and done later; the players may switch modes in
the game's own menu.

### SmoTas

A movement is two steps. `HandleInput` lets the menu handle the pad and carries
out the call it makes on the player, with the scene of the movement before
still in `mScene`; `SetSceneAndUpdate` hands the new scene over and runs the
nerve. Scenes are created and destroyed between movements. Reading a scene that
is not the current one may crash.

### FixInstructions

A behaviour moves one function's start, an instruction a step:
`MoveInstruction` is the body of `__fix_instructions`'s loop, with the handler
that takes the instruction (`fix_branch_imm` and so on, named as in the code)
and the filling in of references to it (`process_fix_map`); `JumpBack` is what
follows the loop. `Overwritten` is what `HookFuncImpl` decides: one instruction
where a branch reaches the callback, four, or five where the function starts at
an odd address.

Addresses and distances count words; an instruction or a word of the trampoline
is a record of what it does and names. Where the code's arithmetic on bit fields
is not what the fields mean, the record shows it: `Uint32` (a distance that loses
its sign), `Encoded` (a distance that reaches into the width), `Either` (one that
reaches into the register). `dat` is kept as the code sets it, for adrp with the
address the trampoline is written at.

`TrampolineIsFunction` says what a trampoline is for. It executes the words
(`Follow` skips padding and jumps) and the function as it was (`Arrive`), and
compares each instruction that moved (`DoesAsBefore`): what it is, the address it
loads, computes or calls, and where it goes on. It is stated for the starts
whose instructions the code can move (`Supported`, an instruction at a time
`Movable`): see the findings for those it cannot, and the bounds of `fix_moved`
for what `Movable` excludes besides. The run and the theorem have the same
hypothesis, and the run's set of starts has those it excludes as well.

### Virtmem, RwPages and CodePatching

The state is the linked list of reservations (`g_Reservations`, `nodes` with
`next` and `prev`), the kernel's page table (`table`), the live objects of class
`RwPages` (`m_Claim`, `m_Owner`), the words of code that were written and not
yet flushed (`stale`), the patcher at work and why the process ended.

`FindRandom` may return any range that is free, or none if it can run into one
that is not: the code tries a bounded number of random places. `Construct` is
the whole constructor when it succeeds, `ConstructAborts` each of its ways to
fail; a failed `EXL_ASSERT` ends the process, so what was done half-way does not
matter, and the constructor is one step. `MoveConstruct` and `Destroy` are the
other operations of the class. `Claiming`, `Writing` and `Releasing` are what
`HookFuncImpl` does with a claim; `StreamPatcher`, `Write`, `Seek` and `Finish`
the life of a patcher on the main module's claim.

Addresses of memory are page numbers where the code aligns them (reservations,
the page table) and words of four bytes elsewhere; a page has its real 1024
words. Of the words of a claim only the first and the last are written and
compared (`Ends`): pages are contiguous, so if those two are mapped right, so is
what is between. Memory compared with itself is equal; other memory may compare
equal by chance, so the constructor may then go on (if it can be read) or abort.

The model allows more than this mod does: several claims of hooks at once, a
patcher at work meanwhile, and claims that move, which the class offers and
nobody uses yet. What holds for all of them holds for the one claim at a time
that `HookFuncImpl` takes.

### Diag, MemLayout, ProcHandle, Logger, Hooking and Boot

An address space is the sequence of the kinds of its ranges; an address is the
number of the range that starts there. `Query` is one turn of the loop in
`InitMemLayout`: the check for too many modules, the next range, and the state
machine with its three states. Behind the last range the walk is at the first
again, which is how it knows that it has wrapped. The first range is never a
module: nothing is mapped at address zero.

`ProcHandle` has one action per system call of the two threads, in their order,
because those are the points where the other thread, the kernel or a failure
can come in between. `Get` chooses between the handle that is stored, the
kernel's answer and the exchange. `SendSyncRequest` is two actions, since the
sender sleeps in it until the other side closes the session. Its result is not
looked at, so it may fail and the sender goes on; the receiver then sees the
session closed, and aborts. A handle is in `handles` while it is open.

`Logger` has `init` only. The loop that asks whether the request is on hold is a
wait for `NetworkDecides`.

`Hooking` is `exl_main`'s row of `Install` calls. `InstallHook` is one of them
from end to end: the count of `AllocForTrampoline`, the function's instructions
moved (`Moved`, known by the function they are from and by where it went when they
moved; how they are changed is `FixInstructions`), the patch, the pool flushed
(`jitTransitionToExecutable`: `fetched` is what the executable mapping holds,
`written` what was written through the other one) and the pointer to the original.
The mod hooks each of its functions once; the model lets a list hook one again,
which the code supports, so that the order of moving and patching
matters. A failure in between ends the process, and no other thread runs the
hooked functions yet, so an installation is one step.

`Boot` runs the stages one after the other on one thread (`BootThread`), beside
the receiver (`ReceiverThread`) and the system. A stage that called `Get` goes on
when the call has returned. `virtmemSetup`, the rest of the claim's constructor
and the code patches are known here only by whether they abort; what they do to
memory is in `CodePatching`.

### HitSensors

A behaviour is one frame of the hook on the drawing of the sequence: the
conditions before the loop (`StartScene`), one action for each way an actor or a
sensor is taken or passed over, and the return from the middle of
`drawHitSensors` behind an eye (`AfterDrawing`). Of a sensor it knows what the
SDK's predicates say of it (`kinds`, any number of them), of a colour only the
opacity, since the menu's options decide about nothing else. What is drawn is a
set: drawing twice is drawing. `Promised` says without loops or returns what an actor is
to look like: its position and each of its sensors, as the options for the branch that
takes it say. `FrameAsPromised` compares what is visible with it and finds the early return;
`EyesHideOnlyTheirOwn` bounds what that return takes away.

### TreeMap, RingBuffer and what they promise

`TreeMap` has the code's functions under their names, on a record `nodes` of the
node's fields; each takes nodes and a subtree and returns nodes with the subtree's
new root in `top`. The recursive functions are functions of the calls they make in turn:
`Calls[d]` are the code's functions with calls that nest, and loops that go round, at
most d times, and `Call` is `Calls` at the number of keys, which is enough since a path
down a tree has no more nodes than there are keys. What the properties measure of a
tree, `Below` and `BlackHeight`, is defined in the same way. A node is named by its key. The word of colour and parent is
two fields, and the parents that iterations leave behind stay there as in the
code, through rotations and replacements. A node that is erased is blank. Null
is outside of the fields' domains, so that TLC stops with an error at a read
through null; there is none as long as `erase` is given a key that is there, which
is a guard of `Erase`: the code leaves it to the caller. A client ends its iteration
when it changes the tree's shape.

`SortedMap` is a function on keys with a cursor that moves to the next key,
`BoundedQueue` a sequence. `forcePushBackwards` is public and does not look for room: on a
full buffer it would let the size grow past the capacity. Nobody calls it but
`pushBackwards`, which looks first, and that is the call modelled. Each container is checked to implement its own
(`MapImplemented`, `QueueImplemented`) by what its links or indices reach.

## Runs

| Run | Question | States |
|---|---|---|
| `menu` | every page, cursor, chord and listing, with an option edited, saved, autosaved, and lost by a restart | 9·10^5 |
| `menu_return` | *finding*: Return to Main with fourteen scripts | |
| `tas_runs` | every script of up to three lines against `Playback`; two files, every header, failures, a full heap; liveness | 3·10^5 |
| `smotas_scenes` | menu, player and two scenes together | 4·10^5 |
| `fix_moved` | starts of functions and where their trampolines are | 9·10^5 |
| `fix_behind` | *finding*: instructions that name something behind them, moved wrongly | |
| `patching_claims` | claims and a patcher in every order, addresses and memory running out | 9·10^4 |
| `patching_data` | *finding*: a claim that runs over the end of a page | |
| `boot_starts` | the boot in every address space, with every failure and interleaving, and the hooks; liveness | 7·10^4 |
| `hit_sensors` | what a frame shows of actors and sensors, and what an eye hides | 3·10^5 |
| `hit_sensors_eye` | *finding*: sensors behind an eye are not shown | |
| `containers` | the tree map against a sorted map, the ring buffer against a queue | 10^5 |

**Bounds and why they are enough.**

- `menu` has listings of 0, 13 and 14 scripts, the last two around the page's last
  entry line. The pages and their lines are the code's own. One direction at a
  time, or Right with a vertical one: the two chords in which a press moves the
  cursor and acts on the line it moves to. Of the flags it tracks the one on line
  11, next to the lines that leave the page: flags are independent of each other.
  Three alphas are two bounds and a value between them. `menu_return` is the
  same with fourteen scripts, and no flag.
- `tas_runs` has two families of behaviours, which its initial states choose between
  (`MCInit`). In one there is one file, on a card that stays as it is: every script
  of at most three lines over three steps, two
  players and one button, in any order. Three lines are enough for two lines of
  a player in one step, one in the step before, a line of the other player
  between them, and a line whose step is below its predecessor's. The mode and
  stage of these scripts are trivial; in the other family there are two files that
  come and go, with one script for each kind of header or no script at all. The
  fairness is `FairSpec`'s in both.
- `HeapBlocks = 2` lets the heap run out after a script was played twice.
- `smotas_scenes` has one script that changes the stage, and two scenes that
  alternate: an old and a new one is all a stale pointer can tell apart. They
  are symmetric; no liveness is checked there.
- `fix_moved` has every start of four instructions of thirteen kinds, and of eight other
  kinds that refer back; every start of five of seven kinds at an odd address; and each
  instruction alone. Distances are such that each
  instruction has variants that stay inside, leave by little and leave by much,
  and the three pools are within reach of every instruction, of unconditional
  branches only, and of none. Limits and encodings are the real ones.
  `TrampolineIsFunction` says nothing of the starts that are not `Supported`: those the
  findings show, and those no text of the repository speaks of and the code moves
  wrongly as well. These are loads to a near trampoline with a negative
  distance, an adr of a byte in a word that does not move where the register would not
  survive (`Either`), references to an adrp that moves, and an adrp before the end of a
  page that names the next one while the instructions that move run into it. A function
  does not branch into its own trampoline either. The other two properties hold for
  every start.
- `patching_claims` has a main module of two pages and the words of three hooks:
  five that end with a page, the last one of a page, and one outside the main
  module that cannot be mapped. Three reservations are the fewest with a first,
  a last and one between; with the main module's claim, memory for two hooks is
  left. Four objects besides `s_Storage` let both claims move twice. The address space has
  places next to other memory and next to the alias region, and can run out. Reservations and
  objects are symmetric. A patcher writes at most three words without a break
  (`MaxWritten`), enough to pass the end of a page.
- `boot_starts` has every address space put together from four pieces out of six:
  a module, a module without data, one without data and read-only data, and three
  kinds of other ranges, with each of its modules as the mod's own. A state of the
  walk looks at three ranges, so four pieces put every half module before, between
  and behind whole ones. The table has room for three modules instead of thirteen:
  four pieces fill it and exceed it. The two threads and the stages are unbounded:
  each of them ends. `HookMax` is the code's ten; one list of hooks is the mod's,
  the other hooks functions two and three times, until no trampoline is left.
- `hit_sensors` has one actor with a sensor of up to two kinds and another one of
  up to one behind it, pairs of actors in each of the states that decide whether
  they are drawn, with an eye between two other sensors, and each way not to draw
  any. Options are all on, all off, all but one, or one.
- `containers` has eight keys and buffers of two and seven nodes: seven is the
  smallest tree in which an erasure moves red links at two levels, eight keys leave one for which
  a full map has no room. One key has two values. Ring buffers of one and of four
  items wrap in either direction. A behaviour uses one container at a time, as they share nothing.

**Fairness.** `FairSpec` assumes only that a movement that stays possible is
eventually made: the game moves its scene every frame. Players are not fair:
nobody has to start, end or load anything. `RunEnds` therefore allows for a
player who starts scripts over and over, which restarts the run each time.

`Boot`'s `FairSpec` assumes that the boot thread and the receiver go on when they
can, and that the system decides about a network request at some time. The first
two are the kernel's scheduling (the receiver is created on a core of its own);
the third is what the loop in `Logger::init` takes for granted: without it the
boot would not end, and `BootEnds` says nothing of that case.

**Deadlock** is checked in every run but those of `FixInstructions`, which ends
when the trampoline is written, that of `HitSensors`, which ends with the frame, and those
of `CodePatching` and `Boot`, where a failed assertion ends the process and the boot
ends when it is done. For `Boot`,
`BootEnds` takes its place: it may stop at the end or aborted, nowhere else. The
others have no liveness property: a trampoline is written by one loop, a frame is two
nested ones whose indices only grow, and nobody has to install or release a hook.

## Findings

The runs marked *finding* check what a text or a comment of the
repository says, and TLC shows a behaviour of the code that does otherwise:

- *Return to Main* on the TAS page loads the fourteenth script when there is
  one (`PageTAS.cpp:46`), which also ends a run.
- a conditional branch that goes back (*"b.c" ADDR_PCREL19*, `nx_hook.cpp:213`)
  is moved without its sign and goes ahead; a load or an adr of what is behind
  it (*"LDR Wt/Xt, label" | ADDR_PCREL19*, `nx_hook.cpp:299`) is moved to an
  address 4 GiB further on.
- the constructor of `RwPages` means to *"Ensure the data at the different mapping
  is the same"* (`rw_pages.cpp:71`), but maps one page too few when a claim runs
  over the end of a page, as the claim of a hook does whose function starts in
  the last four words of one: what is compared is not mapped, or is other memory.
- *"Ability to show all HitSensors of actors in the scene, with tons of toggleable
  options"* (`src/README.md:7`): `drawHitSensors` returns behind an actor's first eye
  (`main.cpp:95`), so the sensors behind it are missing whatever their own options say, even
  where the option for eyes is off and the eye itself cannot be seen.

More is visible in the models, with no run of its own:

- *"changing any options WILL save the game"* (`PageOptions.cpp:46`) is not so for
  the Mechawiggler pattern: `PageOptions` in `Menu` requests no save.
- `refreshCurrentScriptEntry` *"returns false if no file exists with the current
  script name"* (`TAS.cpp:53`), but searches the old listing when the directory could
  not be read: `KeepListing` in `TAS`; the open fails afterwards.
- The table of modules has room for `s_MaxModules`, and `mem_layout.cpp:117` asserts
  no more than that; with as many the boot aborts at the head of the walk's next
  turn (line 38), before it has seen that there is no further one: `TooMany` in `MemLayout`.
- A sensor taken by the branch for Trample is always drawn without opacity
  (`main.cpp:97`), and no option shows it.
- `svcGetInfo` writes eight bytes to the four of `s_Handle` (`cur_proc_handle.cpp:63`);
  what lies behind it is the linker's choice, and no module has it.
- What an ldr in a hooked function's start reads is copied when the hook is
  installed (`nx_hook.cpp:343`): `FixInstructions` knows copied words by their address, not
  by a value that may change later.

## Proofs

All theorems hold for every value of the constants that satisfies the named
assumptions of `Menu`, `TasScript`, `TAS`, `SmoTas`, `FixInstructions`, `Virtmem`, `RwPages`,
`CodePatching`, `MemLayout`, `Hooking`, `HitSensors`, `TreeMap` and `RingBuffer`; these say only
that constants are numbers, flags, regions, frames and sets of the right kind, that the sets of
file names and of a map's keys are finite, that
scripts are scripts and functions functions, and that an address space has
nothing mapped at zero and a module that is the mod, and that one trampoline more than
`HookMax` fits into the pool's pages, which the code's numbers satisfy.

**`MenuProofs`.** The inductive invariant is `TypeOK` and `CursorsInRange`
together. Neither is inductive alone: which page `PageMain` opens is found by
the cursor's line, so the type of the page needs the range of the cursor; and
the range of the cursor needs the page to be one of the seven. `LineCounts`
evaluates the pages' line counts; the step that matters is `AssignCurPageKeeps`,
where `PageOptions` keeps a line number across pages: it is right because Main
has a line 4 and HitSensor a line 0. On the invariant rest

- `MenuTypes`, `MenuCursors`: `Spec => []TypeOK`, `Spec => []CursorsInRange`;
- `MenuSaves`: an option that differs from the save file is being edited or
  about to be written (needs what a save file may hold, for the restart);
- `MenuPresses`: the action property that a call without a new direction does
  nothing (needs the cursor's range: wrapping must not move it);
- `MenuLoadsEntryUnderCursor`: for any number of listed scripts.

**`TASProofs`.** The inductive invariant adds two facts to `TypeOK`:
`PlaysNamedScript` and `InsideScript` (a run past its first step stands inside
its script). They depend on each other: the type of `mFrameIndex` after a step
needs the script to be a script and the index to be within it. `LastOfIn` shows
that a nonempty set of line numbers has a last one, from the well-foundedness
of the naturals. Results: `TASTypes`, `TASPlaysNamedScript`,
`TASStartsInScriptMode` and `TASPlaysAsPromised`.

`TASPlaysAsPromised` is `Spec => Promise!Spec`: every step
of `TAS` is a step of `Playback` or leaves its variables alone. The invariant
`RunInv` says what a run that has taken t steps has left behind: the lines up
to `mFrameIndex` are due by step t - 1, the next one is not, and each player's
`mPrevButtons` are those of the last line of step t - 1. `AppliedIs` then shows
that the lines the loop applies from there are the ones Playback gives to step
t, `ComparesWithLineBefore` that the buttons a line is compared with are those
of the line Playback names, and `LastStepIs` that the loop reaches the end of
the script in Playback's last step. Scripts may have any number of lines, in
any order of steps and players. `Standing` covers the first step, where the
player resets its index and its buttons: without the reset the proof fails.

**`SmoTasProofs`.** What is proved of the menu and of the player alone holds where
the movement hook composes them. `SmoIInv` joins their two invariants with
`SceneKnown` (once the scene's first movement is over the player's scene is the one that
moves, and where none has been handed over yet the menu is still on its main page) and
`CountKnown` (once listed, the scripts the menu counts are the player's). `MenuStep` and `PlayerStep` show that a step of the
composition is a step of each part or leaves it alone, a call from a page being a step
of both; a crash leaves the player's variables alone (`CrashKeeps`). The menu is the
one of `MenuProofs` with any number of listed scripts (`MI`). Results: `SmoTypes`,
`SmoCrashes` and `SmoScene`, the two properties about stale scenes; and the earlier ones in the game:
`SmoPlaysNamedScript`, `SmoStartsInScriptMode`, `SmoPlaysAsPromised`, and by
`SmoMenu` all that is proved of the menu (`SmoMenuKeeps`).

**`FixInstructionsProofs`.** For any start of any function, anywhere:
`FixInstructionsTypes`, and `FixInstructionsFit`: a trampoline is never written
past its fifty words. The code does not count while it writes. The invariant is
`Bounded`: at most nine words for each instruction that has moved, and five for the
jump back, for at most five instructions. That no handler writes more than nine
(three of padding, two and four of copied memory) is one lemma for each handler
(`MovedWell`).

`TrampolineWorks` is `Spec => []TrampolineIsFunction`, for every `Supported` function of
any instructions and distances: the run's distances are examples, the theorem's are all.
The property speaks of finished trampolines only, and a trampoline is not looked at again
once it is finished; everything has to be known of it while it is written. That is
`LayoutInvariant`. `Laid` gives each instruction moved so far its place (`beg`, where its
padding begins, and `core`, where it is) and says of it (`BlockAt`) that these words are
there, that `dat` has it at its padding or behind it, and either that they are what one
handler makes of it by itself (`Short` keeps it with a new distance, `Long` spells it out),
or that it is one word that names an instruction of the patch (`Inner`): then the word has
its place already, or `fmap` has a reference from it (`Named`), and `fmap` has no others
(`RefsFrom`). The last part is what the filling in rests on: `process_fix_map` finds all that
wait for the instruction that moves and changes nothing else. `FixedRight` shows of each
handler that what it writes is `MovedRight`, `MoveLays` and `JumpBackLays` that a step keeps `Laid`.

From the layout of a finished trampoline the property is read by following paths.
`Reaches(x, z, n)` says that at most n jumps and words of padding lead from x to z;
`Place` names the addresses at which what is left to do is what the function does from
address a on. A place leads to the place of the next instruction that does something in at
most four hops (`PassPlace`), and there are at most five to pass, the last into the
function behind the patch (`ArrivePlace`). So the bound in `Follow` is enough
(`FollowReaches`, `GoesOn`), which the run could only show of its starts. One lemma for each kind of instruction
ends the proof (`PlainDoes` to `AdrpDoes`).

The assumption `HooksAssumption` says of `RwShift` that the two mappings of the trampolines
are apart by more than one trampoline, which they are as ranges of pages: an address in
`dat` is then either the one or the other, and `StartOf` can tell.

**`CodePatchingProofs`.** For any code, any hooks and any number of objects and
reservations: `PatchingLists`, `PatchingApart` and `PatchingOwners`. The invariant
`ClaimsOK` joins the three with what they need of each other: the list must be
complete for the search to miss a reserved range (`FoundIsFree`), ranges must be
apart for an unmapping to leave the others alone, and each reservation must have
one owner for the memory given back to be nobody else's. That a removal loses
nothing (`RemoveKeepsList`) is about reachability, with no induction at hand:
`Listed` is the smallest set that is closed under `next`, so it is enough to
show of a closed set of the list after a step that it makes a closed set of the
list before.

`PatchingTypes`, `PatchingArrives` and `PatchingFlushes` hold under `Fits`:
claims do not run into a page more than their size has. That is
not a convenience, it is the finding of `patching_data` turned round. The
invariant `PatchingOK` adds that both mappings of each claim are the same memory
(`MappingsOK`), from which a write through an alias makes the word of the code
stale that the owner's release will flush.

**`BootProofs`.** For any address space, of any length, and any size of the table.
`IInv` has four parts that do not touch each other but at the stages:

- `LayoutOK` is about the walk. `ModulesFound` is not inductive: that a module is
  recorded depends on what the walk has of it two ranges earlier. `HalfFound` says
  what the states of the machine stand for, `Started` that of a module that begins
  in the last two ranges the walk has what it could, unless the module begins right
  behind half a module, and `FoundBehind` that new entries come last. A query is
  one of three cases: the wrap (`WrapKeeps`), a range that completes no module
  (`StepPasses`), and one that does (`StepFinds`).
- `HandleOK` relates the two threads: how far the one is when the other is where,
  and which handles are closed by then. `StackOutlivesThread` and `NoHandleLeft`
  follow from it.
- `HooksOK` says that trampolines are handed out in order, one a hook,
  and that what is executed is what was written. `InstallKeeps` shows that a new hook
  leaves the trampolines before it alone (its own is another one) and that what it
  moved is the function with the hook before it; `SlotIsMapped` is the arithmetic of
  the one trampoline more than `HookMax`. Any functions may be hooked any number of times.
- `StageOK` says what the stages behind the walk and behind the first `Get` have to
  rely on. With `SecondEntry` (the second entry of the table is the second module,
  by the order of the entries) it gives `ClaimsMain`.

Results: `BootTypes`, `WalkFindsModules`, `StackIsKept`, `HandlesAreClosed`,
`HandleIsKnown`, `MainIsClaimed`, `CallsReachOriginals`.

**`HitSensorsProofs`.** For any number of actors and sensors: `FrameTypesKept`,
`FrameShowsAsked`, `FrameLacksBehindEyes`. The last is the finding of `hit_sensors_eye`
turned round: `FrameAsPromised` is false of the code, and what is proved is that only
sensors behind an eye of their own actor are missing. The invariant `LoopsOK` says what is drawn
when the loops come to actor i and sensor j: all that is shown of the actors
before (`Before`), the position of this one, and its sensors up to here
(`SensorsBefore`); and that no eye is among those. With it each way out of the
inner loop, the early return too, leaves exactly what `Shown` says of the actor: the
sensors that no eye is before. `OnlyEyesHide` compares that with `Promised`.

**`ContainersProofs`.** For any finite set of keys, any values and buffers of any size:
`TreeTypes`, `TreeCells`, `TreeBalanced`, and `TreeIsMap`, which is `TreeSpec =>
MapImplemented`: what the links reach is the map of `SortedMap`.

- `Tree(t, n, S, h)` says that below n there are the nodes S, in order, as a left-leaning
  red-black tree with h black nodes on each way down. It is not defined by recursion: there
  is a set of subtrees, n's among them, in which each one is empty or has its two children
  there too. `Node` and `Almost` name the shapes in between: a red node with a red left
  child, which a call returns and its caller's `Split` takes away.
- What a recursive function does to such a tree is shown by induction on how deep its calls
  nest: a tree of S needs no more than the cardinality of S. The induction itself is the
  well-foundedness of the naturals on the set of depths that are enough, one such set for
  each function (`AllErase` and its like). An insertion adds its key and may return `Almost`
  (`CallInserts`). An erasure that starts at a node that is red or has a red left child
  (`Ready`) returns a tree of the same height; `EraseOnLeft` and `EraseOnRight` show that
  `ReadyLeft`, `rotateRight` and `moveRedRight` make the child they go on to such a node, so that
  no null is followed, and that `fixUp` mends what comes back. The root need not be one: then
  the tree may come back as `Almost`, or lower by one, and blackening the root makes it a
  tree (`CallErases`). `CallReads` is about `find`, `forEach` and
  the two measures, `CallStarts` and `CallAscends` about the two loops of an iteration.
- The invariant `TreeInv` says of some set S of keys (`TreeOf`) that the nodes are a tree of S
  whose root is black and has no parent (`Sound`), that the size is S's cardinality and the
  rest of the buffer is free, and that the parents are right on the way from the root to the
  node the iteration stands at (`Iterating`): elsewhere they are what earlier iterations
  left, and the climb of `nextNode` does not read them. That the root's parent is cleared is
  what ends the climb. One lemma for each action (`InsertNodeTree` to `NextNodeTree`) shows that it keeps
  `TreeInv` and what it does to S; `MapIs` reads the map of `SortedMap` from S, and
  `NextMap` takes each action to its own.

Of the ring buffer, `RingTypes`, and `RingIsQueue`, which is
`RingSpec => QueueImplemented`: the buffer read from its head is the queue of
`BoundedQueue`. `RingTypeOK` is inductive as it is; what takes work is that an index that
wraps names the cell it should, at both ends and with a forced push, in a full buffer
as in one of one item.

**Only model-checked.** `RunEnds` and `BootEnds`: the prover has no rules for liveness under
fairness.

## Not modelled

- **Text and pictures**: `draw` of the pages, backgrounds, the text of a log line, what is
  shown on an abort. They keep no state of the mod.
- **The bytes of a script file**: a file that is shorter than its header claims is read
  past its end, which `TAS` does not show; a script in the model is as long as its
  `mFrameCount`. Names longer than the buffers they are copied to are not modelled either.
- **What the game does with what it is given**: how long a change of the mode or of the
  stage takes (`exeWaitUpdate` waits one movement for it), which fields of a controller it reads.
- **The instructions of the code patches**: constants. `isPatternReverse` and
  `getMofumofuTarget` look up a table by an index that `Menu`'s `TypeOK` bounds.
- **The dynamic linker** (`src/lib/reloc`): the build defines `EXL_LOAD_KIND=Module`
  (`CMakeLists.txt:41`), the game's linker relocates the mod, and this code is never called.
  `reboot_to_payload` is not called by this build either.
- **Single instructions**: system calls, cache maintenance, the encodings of
  instructions. Of the moved instructions `FixInstructions` has the bit fields that matter.
- **The rest of the headers**, most of the repository's lines: declarations of
  classes, constants and message predicates whose code is in the game, accessors, and
  vector and string functions without state. There is nothing in them a model could add:
  what the mod expects of them is an external definition where it is used. Of `sead`'s
  containers, `OrderedSet` and `StrTreeMap` repeat `TreeMap`; lists, and sorting and
  inserting in arrays, are declared here and defined in the game.
