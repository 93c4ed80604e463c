# TLA+ verification of BootTo.NET

BootTo.NET boots a PC straight into compiled C#: `src/ConsoleApp1` holds a small
.NET runtime (tasks, sockets, files, sound, console, garbage collector) that runs on UEFI
boot services, and the application on top of it: among other things, ports of Doom
(`src/doomgeneric`) and Quake (`src/quakegeneric`) in C, over shims for the C library
(`src/StdLib`, `src/NativeLib`). This directory holds TLA+ models of the runtime and of the
parts of the two games that keep state over time, the TLC runs that check them, and TLAPS
proofs of what matters most.

## 1. The system

### Execution model

There is one CPU and no preemptive thread. Application code runs at `TPL_APPLICATION`. A
periodic 1 ms `System.Timers.Timer` (`System/Timers/Timer.cs:10-71`) is a firmware timer
event at `TPL_CALLBACK`: its notification **preempts the application between any two
machine instructions**, runs to its end, and then the application goes on. The notification
runs `TaskScheduler.Yield()`, which polls every registered `TaskPoller`; a poll that finds its
operation finished completes a task, and the task's continuations run *synchronously* inside
`TrySetResult`. So a continuation may run inside a tick, inside a `Yield` of the application,
or inside the call that completes the task, and may itself call everything else. The only
mutual exclusion is the `s_yielding` flag, and `lock` (`TaskScheduler.Enter/Exit`), which
raises the TPL and which the runtime itself does not use.

The games are one loop each, called by the application: Doom's `doomgeneric_Tick` and Quake's
`QG_Tick` run a frame and return. They share with the rest the firmware's callbacks: the USB
keyboard fills a queue that a frame empties, and the sound card's end of transfer changes the
queue that the mixer's position is computed from. Everything else that is hard in them is
*order*: menu, level, title, server, client, console and loader leave flags, pointers and
queues for each other that are looked at a frame, a tic or a level later.

### Components

| component | state | operations | talks to |
|---|---|---|---|
| TaskScheduler (`TaskScheduler.cs`) | intrusive list `s_pollers`, `s_yielding`, `s_yieldAgain`, timer | Register, Unregister, Yield, Wait, PollOnce | polls every other component; driven by Timer and `Task.Wait` |
| Interrupt lock (`TaskScheduler.Enter/Exit`, `Monitor`) | `s_lockDepth`, `s_previousTpl` | lock, unlock | gates the tick; used by ConcurrentDictionary |
| Task, TaskCompletionSource, awaiters (`CoreLib.cs:1712-1773, 3156-3327`) | state, exception, continuations, result | OnCompleted, Wait, TrySet* | every asynchronous component |
| Delay, WorkItem, WhenAll, WhenAny | poller, remaining counters | Start, Poll, Complete | TaskScheduler, CancellationTokenSource |
| CancellationTokenSource (`System/Threading`) | cancelled, disposed, registrations, links | Cancel, CancelAfter, Register, Unregister, Dispose, links | tasks, Delay |
| Socket, UDP and TCP (`System/Net/Sockets/Socket.cs`) | one completion per kind of operation, the firmware child | Bind, Connect, Listen, Accept, Send, Receive, Close, Poll | firmware, TaskScheduler |
| FileStream, BufferedStream (`System/IO`) | operations in flight; one buffer and two positions | Read, Write, Seek, SetLength, Flush, Close | firmware, an inner stream |
| SoundPlayer (`System/Media/SoundPlayer.cs`) | queued bytes, state of the resampler | Play, PlaySync, the driver's callback | firmware audio |
| GCHeap, ExceptionRuntime (`CoreLib.cs:1786-2056`) | list of allocations, frames of roots, frames of exceptions | Allocate, Collect, Push, Pop, Throw | all compiled code |
| FtpServer, Console, SerialPort, Dns, WebClient, ConcurrentDictionary | see section 6 | | sockets, files, firmware, lock |
| Doom: zone and lump cache (`z_zone.c`, `w_wad.c`) | ring of blocks with tags and users, `lump->cache` | Z_Malloc with purging, Z_Free, Z_FreeTags, W_CacheLumpNum, W_ReleaseLumpNum | everything in Doom |
| Doom: loop of tics (`d_loop.c`, `doomgeneric.cs`) | `maketic`, `gametic`, `ticdata`, `lasttime`, `skiptics`, the wipe | NetUpdate, TryRunTics, BuildNewTic | clock; runs the game |
| Doom: states of the game (`g_game.c`, `d_main.c`) | `gamestate`, `gameaction`, `advancedemo`, keys, demo and intermission memory | responders, G_Ticker, D_DoAdvanceDemo, G_Do* | menu, level, zone |
| Doom: movers (`p_doors.c`, `p_plats.c`, `p_ceilng.c`, `p_saveg.c`) | thinkers, `specialdata`, `activeplats`, `activeceilings` | EV_*, T_*, stasis, archive | level, things |
| Doom: the weapon in the hand (`p_pspr.c`) | ready and pending weapon, ammunition, psprite state | A_*, P_* | player, pick-ups |
| Quake: zone, hunk and cache (`zone.c`) | ring of blocks with a rover; two marks with moving cached blocks and an LRU list between | Z_*, Hunk_*, Cache_* | everything in Quake |
| Quake: keys (`keys.c`, `in_null.c`, `cmd.c`, `cl_input.c`) | USB queue, `keydown`, bindings, command buffer, `kbutton_t` | callback, IN_Commands, Key_Event, Cbuf_Execute, CL_SendMove | console, menus |
| Quake: session (`host.c`, `sv_*.c`, `cl_*.c`, `net_loop.c`) | server, client, two loop sockets, sign-on, demo files | Host_Frame and the commands of a session | each other |
| Quake: channels, ring and driver (`snd_*.c`) | channels with position and end; ring, `paintedtime`, position, submitted frames | S_StartSound..., S_Update_, SNDDMA_Submit | SoundPlayer |
| PNG decompressor (`lodepng.c`) | Huffman tables, output | make tables, decode, copy | |
| Everything else | pure, hardware-facing, geometry or drawing | | section 6 |

### What is hard

* a tick between two statements of application code that shares data with it;
* continuations that re-enter the component that is completing their task; polls inside polls;
* answers, timeouts and Close in every order;
* callbacks of the firmware (audio, USB) against the application;
* a collection in the middle of calls, tries and unwinding;
* allocators whose search frees, joins and moves the blocks it is walking over;
* one variable (`gameaction`, `specialdata`, a socket, a key) that several parts set and another
  reads later, when it no longer means the same;
* clocks and positions that wrap, are chopped off or are rounded.

### What makes each component correct

| component | correct when |
|---|---|
| TaskScheduler | what is registered is in the list and polled again and again; one pass at a time; a registration inside a pass is not left for the next tick |
| Task | every continuation runs once, after the task has its outcome, or is dropped by an exception; the first outcome stays |
| WhenAll, WhenAny | decided by all the tasks, or by the first; decided at all |
| CancellationTokenSource | a callback runs once and not after its removal; linked sources follow; an old delay does nothing |
| Socket, FileStream | every operation begun ends; the firmware has no token of an operation that ended; a close, a connect and a wait for an address end |
| BufferedStream | indistinguishable from the stream below it, but for when it is written |
| SoundPlayer | the chunks sound like one conversion of the whole; capacity is neither lost nor exceeded |
| GCHeap | what can be reached stays, and a collection keeps nothing else |
| zones, hunk, cache | blocks tile the memory; users point to their own blocks; a search ends, frees only what it may and fails only when nothing fits; the cache is LRU |
| Doom's loop | every command is run once; no two frames without a tic; it goes on for ever |
| Doom's game | states fit each other; nothing is loaded twice; no key sticks; there is always something on |
| Doom's movers | no pointer to a mover that is gone; each comes to rest |
| Doom's weapon | a shot is paid with what is there; the weapon is owned; who holds the button goes on attacking |
| Quake's keys | the button is down exactly while a key holds it; no press is lost |
| Quake's session | the two sockets agree; one step of the sign-on is under way; the client gets into its level |
| Quake's sound | channels stay inside their sounds; what is handed out was painted for that time; the sound goes on |
| decompressor | it decodes what the canonical code says |

## 2. Modules

`PROJECT.json` maps every definition to the lines it translates.

| module | models | extends / instantiates | run |
|---|---|---|---|
| `TaskScheduler` | `TaskScheduler.cs`, the tick of `Timer.cs` | | `scheduler`, `scheduler_wait` |
| `Promise` | abstract: what a task promises its awaiters | | |
| `TaskCompletion` | `Task` in `CoreLib.cs` | implements `Promise` | `tasks` |
| `Combinators` | `WhenAll`, `WhenAny`, `Interlocked` | | `tasks` |
| `Cancellation` | `CancellationTokenSource` and its registrations | | `tokens` |
| `Handlers` | how the two contexts execute a component with one operation of a kind in flight | | |
| `UdpSocket`, `TcpSocket` | the two halves of `Socket.cs` and the firmware child below | `Handlers` | `sockets`, `sockets_live` |
| `FileStream` | `FileStream.cs` and the file's tokens | `Handlers` | `devices` |
| `Bytes`, `ByteStream` | abstract: a sequence of bytes with a position | | |
| `BufferedStream` | `BufferedStream.cs` over a file | implements `ByteStream` | `tokens` |
| `SoundPlayer` | `SoundPlayer.cs` and the driver's queue | | `devices` |
| `GcHeap` | `GCHeap`, `ExceptionRuntime` | | `memory` |
| `ZoneList` | the ring of blocks the zones of both games are | | |
| `DoomZone` | `z_zone.c`, the lump cache of `w_wad.c` | `ZoneList` | `memory` |
| `QuakeZone` | the zone of `zone.c` | `ZoneList` | `memory` |
| `LruCache` | abstract: a cache that gives up the items touched longest ago | | |
| `QuakeHunk` | hunk and cache of `zone.c`, its callers | implements `LruCache` | `memory` |
| `Inflate` | tables and loop of `lodepng.c` | | `memory` |
| `DoomGame` | `g_game.c`, `d_main.c`, `wi_stuff.c` | | `games` |
| `QuakeKeys` | USB queue to `kbutton_t` | | `games`, `quake_dialog` |
| `QuakeMixer` | channels of `snd_dma.c`, `snd_mix.c` | | `games` |
| `DoomLoop` | `d_loop.c`, the clock, the wipe | | `games_live`, `doom_clock` |
| `DoomMovers` | doors, lifts, ceilings, their savegame | | `games_live` |
| `DoomWeapon` | `p_pspr.c` and what gives and takes ammunition | | `games_live` |
| `QuakeSession` | server, client, loop driver, demos | | `games_live` |
| `QuakeSound` | ring, position, backend, driver | | `games_live` |
| `...Proofs` | theorems, section 5 | the module they are about, or an `MC` module, and `TLAPS` | |
| `MC...` | instances for TLC | the modules of their run | |

An `MC` module other than `MCTaskScheduler` puts several components into one run: `which`,
chosen in the initial state, says which of them is at work, the others stay as they begin. They
share nothing; it is the same as one run for each. Such a module `EXTENDS` one component, and the
run checks its very definitions (`Sound`, `ResumesOnce`, ...); the others it instantiates, and
states their properties together under a name of its own (`ClosedIsSaved` is `BufferedStream`'s,
`Verdict` that of `Combinators`). Theorems about several components of a run are in one module
that extends the `MC` module, so that they are about the instances the run checks: the constants of
these components are constants of the `MC` module, which the `.cfg` gives values and the theorems
do not, and its `ASSUME`s are those of its components.

### The two contexts

The modules of the runtime down to `FileStream` in the table have the same execution model: the
contexts `"App"` and `"Timer"`, and a variable `tick` that says which has the CPU. A step belongs to
the context that has it; `TimerTick` may happen between any two steps of the application, except
inside a pass, where the notification only sets `s_yieldAgain`; the tick gives the CPU back when it
has nothing left to do. Code between two such steps is one action. *User code* (the application
between calls, the body of a continuation, a callback) may call every method at any time, also from
inside the component, up to `MaxCalls` calls.

### TaskScheduler

One action per statement of `Register`, `Unregister`, `Yield` and `PollOnce`, because a tick may
fall between the statements. `next` and `head` are the intrusive list; `op[c]` is the list
operation a context is inside, with the locals of the code; `ypc[c]` the place in `Yield`;
`frames[c]` the nested activations of `PollOnce`, each with its locals `current` and `next`.
`Wait` is `Yield` outside of a pass and a nested activation inside one. `PollThrows` cuts the
activations back to the one whose Poll catches the exception, or to `Yield`'s `finally`.
`age`, `clock` and `passClock` are history: they say which registration linked a poller.
`torn` records that a tick changed the list inside a list operation of the application that had
read it. The code does not exclude this (it neither raises the TPL nor looks at a flag), and the
list may then lose pollers: `ListSound` and `EachIsPolled` speak of the time before, and the
run `scheduler_wait` shows what it leads to (section 4). A poller that is not in `Shared` is
known to its creator only, until its task is returned: the two contexts do not operate on it at
the same time.

### TaskCompletion and Promise

`OnCompleted` and the three `TrySet` methods in statements: test of `_state`, read and write of
the delegate, assignment of the outcome, taking and clearing the delegate, the invocations one
after the other. `stack[c]` holds the calls a context is inside, continuations included.
An exception drops what the calls it leaves had still to run. The abstract `Promise` has one
outcome per task and a fate per continuation (waiting, due, ran, dropped); `Fate` is the
refinement mapping. A task on which a tick fell inside a call of the application that had read
it is `raced` and maps to a *spoiled* task, of which the abstract module promises nothing.

### Combinators

The loop that attaches the continuations of `WhenAll` and `WhenAny` to `N` tasks, and the
continuations, with the methods of `Interlocked` as the plain reads and writes they are. The test
of `IsCompleted` (`Attach`) and the addition to the delegate (`Add`) are two steps, as in
`TaskCompletion`: a task that a tick completes in between is `Missed`, its continuation never runs,
and a WhenAll with it is never decided. `raced` records a tick that ran a continuation inside one
of the application: that may lose a decrement, or let two tasks win.

### Cancellation

The list of callbacks, `Cancel`'s loop with its two looks at a callback (removed, then called),
`throwOnFirstException`, links (an entry of the parent's list that is the child's `Cancel`),
`CancelAfter` with delays that elapse in any pass, and `Dispose`. Exceptions unwind the frames
of `stack` one by one. A behaviour ends when an exception leaves the timer notification
(`escaped`): what the machine does then depends on the compiled code.

### Handlers, UdpSocket, TcpSocket, FileStream

These three keep at most one operation of each kind in flight, in a completion source per kind
(`this.slot`), and have a token per kind with the firmware (`this.token`: queued, signaled).
A handler of the code is a list of *labels* in `todo[c]`: one for each stretch between two
points where other code gets in, which are a tick and the continuations of a task the stretch
completes (label `user`). A stretch is a function from the record `this` to the next one, named
after its method; where the firmware answers, a set of outcomes. A poll of the component pushes
the labels of `PollUdp`, `PollTcp` or the file's poll. `CanCall` is the one restriction: a tick
that falls inside a call of the component polls it and runs its continuations, but these do not
call it again (the component belongs to one flow of control).

The code leaves an operation behind on some paths, for instance when the wait for DHCP ends with
an error and a continuation begins a new operation between two failures. These paths are named,
one by one, in `Strands` (UDP, it collects the operations) and `Lapses` (TCP); they
are listed as hazards, and the properties hold off them. So the runs show that these are the
*only* paths on which an operation is left behind.

A TCP socket has one role (client, listener, accepted): a client never listens and a listener
never connects. Calls that return an error before they change anything are left out. A tick that
releases the child between a test and a call through the pointer is a behaviour that stops at
that call (`this.udp`, `this.tcp` in the guards of the `Go` actions).

`FileStream` has two variants, with and without asynchronous operations of the firmware. Close
is the label sequence check read, check write, check flush, release, and waits by polling. Each
check is two steps: the field is not null (`CloseCheck`), and is read again for its task
(`CloseAwait`). A tick in between may end the operation and clear the field. What the code does
then depends on the build (nothing checks for null): the read was not repeated and the task is
done, or whatever lies at address 0 is taken for a task, and Close stays there (label `null`).

### BufferedStream and ByteStream

Real bytes: the file, the buffer, both positions. A call is a sequence of steps, one for each use
of the inner stream and each copy. The inner stream accepts parts of writes and throws; it
returns all it has on a read. `Content` and `Pos` are the refinement mapping to `ByteStream`, the
stream as its user sees it. `astray` marks the calls after which the code has moved the position
under the user: a failed write whose first part was accepted, `SetLength` with bytes read ahead,
a `Seek` that fails with bytes read ahead. A stream that is astray is not used further.

### SoundPlayer

Frames instead of samples: an input frame is its number, an output frame the input it is made of
and the fraction, so that two conversions are equal when they agree on every output frame. The
integer arithmetic of `ConvertStreamingPcm` is the code's. `device` is the driver's queue;
its callback comes at any step. Only the application calls (nothing in the repository plays
from a tick).

### GcHeap

One action per turn of a loop of `Collect`: the roots, one object of the list of pending marks,
the sweep's beginning, one allocation of the sweep, the end with its thresholds. The two lists
are sets, of which a loop takes any element: nothing depends on their order. Between the calls,
compiled code reads, writes, calls, returns, tries and throws, on references it has in the
frame of the method that runs; `Throw` cuts the frames to those of the newest try. That the
compiler gives each live reference a root is assumed (it is not in the repository). A tick
inside a call of the heap is left out: the code does not exclude one that allocates, and then
nothing holds, since the inner collection takes the outer one's marks away.

### ZoneList, DoomZone, QuakeZone

A zone is the function from the addresses of its list to their blocks, with the rover; memory is
a range of small numbers, and cutting, joining and rounding are the code's arithmetic. The search
of `Z_Malloc` takes one step per turn, since its three local pointers go on while the blocks they
point to are freed and joined with their neighbours; `Z_FreeTags` reads its next block before or
after a free does that. A lump's pointer is the owner of its block, cleared when it is purged.

### QuakeHunk and LruCache

The two marks of the hunk, the temporary block, and the cache as a sequence of blocks by address
and a second one by last touch. `Cache_FreeLow`, `Cache_FreeHigh` and `Cache_Alloc` are loops of
one step per block that is moved or freed. The callers are those of the code: a sound or a model
is loaded through temporary memory, which may move what is cached; a level clears it.
The refinement mapping to `LruCache` is the owners of the second sequence.

### Inflate

Every set of code lengths for five symbols, first tables of 3 bits and codes of up to 4, so that
there are codes in second tables, unused entries, incomplete and oversubscribed sets; and every
stream of 7 bits against a reference that reads canonical codes bit by bit. The table is filled
entry by entry, the copy of a match byte by byte as the code does when source and destination
overlap.

### DoomGame

An event, a command made, and each thing `G_Ticker` carries out is a step. `gameaction` is the
code's one variable for what is asked for: the menu sets it in the events, the title sequence in
`D_DoAdvanceDemo`, a rebirth in `G_DoReborn`, the level and the intermission in their tickers.
`menu` is the menu of savegames or the question whether to end the game: `M_SaveGame` and
`M_EndGame` look at the game when they open it, and what it ends in (`G_SaveGame`,
`D_StartTitle`) does not look again. So the title may begin anew while a demo plays, which then
plays on under its pages, and `defdemo`, the demo whose lump is in use, is not always that of
`demosequence`. That the level stands still under a menu is left out: it may ask for nothing
at any tic.
Commands are made ahead, with the special buttons of the time they were made. `held` is history.

### DoomLoop

The arithmetic of `GetAdjustedTime`, `I_GetTime` and `doomgeneric_Tick` over a clock of `Width`
values; tics modulo `Tics`. The wipe is a loop of the program of its own, during which commands
are made.

### DoomMovers

Doors, lifts and ceilings as records at addresses, reused when a thinker is freed a tic after it
was removed; each sector's `specialdata`, the two tables. Each level has sectors of one kind
(with a door opened from both sides, two lifts, two ceilings); lines are crossed and used at
any time, things come and go, and the game may be saved and loaded at any time.

Three places are modelled as the code has them, not as it means them. The `low` of a lift that is
raised is never set: it is any height of `Leftover`, what the memory held, and the sectors whose
lift was sent down to it are in `unset` (history); `Sound` says of the others that no floor is above its
ceiling. A door that was opened to stay and is sent down by hand, or closed and sent up,
arrives in no case of the two switches (`DoorArrives`, "stays"): it keeps its thinker and its
sector (`Hangs`). And a line used as a door by hand may find a lift (`ByHand`): `AsADoor` reads
and writes it in the 64-bit layout of this build (`Directory.Build.targets`), where the door's
direction is the lift's `count`, and not its `wait`, as the comment of `p_doors.c:428` has it.

Not modelled: `raiseAndChange`, whose destination is the floor and an amount from the line's type,
which nothing compares with the ceiling; the blazing kinds, which are the same but faster.

### DoomWeapon

A record of the player; functions named after those of the code, applied by the tic. An attack's
states are of one tic each; flashes and damage are left out. `Generous` is whether the skill
doubles what is picked up.

### QuakeKeys

The USB queue, the keys, the console and the menus with the pages that matter, the command
buffer and one button with its two holders. `lost` and `owed` are history: the keys whose release
the queue dropped or whose binding changed, and a press that no move has carried yet.

### QuakeMixer

Channels with the position and the end of what they play; the painting advances them by any
stretch. Volumes are a choice between heard and not.

### QuakeSession

The host is one record and a frame has five phases; what happens inside a phase is a composition
of functions of the record, and an error (`Host_Error`, `Host_EndGame`) ends it. The sockets hold
the messages of the sign-on only. A load may find no savegame, or one of a level that does not
exist. `early` and `stranded` are history: a level was left before the
client was in it; a `changelevel` failed.

### QuakeSound

Times in frames, sound as the time it was painted for. The driver's end of a transfer may come
between any two writes of the backend. The position is computed by division as in the code, at
another rate than the driver's. `miscounted` is history: a position fell back without a lap.

## 3. Runs

| run | of | question | bounds |
|---|---|---|---|
| `scheduler` | TaskScheduler | is the list sound, the pass exclusive, everything polled? | 3 pollers, 5 calls |
| `scheduler_wait` | TaskScheduler | does a nested Wait poll its task? No: section 4 | 3 pollers, 4 calls |
| `tasks` | TaskCompletion | does a task keep its promise, and run what it took? | 2 tasks, 2 continuations, 4 calls |
| | Combinators | are WhenAll and WhenAny decided, and rightly? | 3 tasks |
| `devices` | FileStream | is an operation left behind; does Close wait for all and end? | 4 operations |
| | SoundPlayer | is the conversion exact, the capacity accounted, does every call return? | 8 input frames, 6 ratios |
| `tokens` | Cancellation | do callbacks run once, links follow, old delays do nothing? | 2 sources, 2 callbacks, 2 delays, 4 calls, symmetric |
| | BufferedStream | is the buffer invisible, and saved by Close? | buffer 3, file 4, bytes 0 and 1 |
| `sockets` | UdpSocket, TcpSocket | is an operation or a token left behind; are connects reported? | 3 operations of UDP, 4 of TCP |
| `sockets_live` | the same | do waits for an address, connects and closes end? | 2 and 3 operations |
| `memory` | GcHeap | is what can be reached kept, and nothing else; does every call return? | 2 objects with a field, a static, 2 frames, 2 tries |
| | DoomZone | do searches and frees keep the list, the owners and what is static, and end? | 20 units, 2 lumps, 3 sizes |
| | QuakeZone | does a search end, and fail only when nothing fits? | 30 units, 3 sizes |
| | QuakeHunk | do marks, blocks and lists agree through all moves; is the cache LRU; do the loops end? | 18 units, 3 users, 2 sizes |
| | Inflate | does it decode what the format says? | 5 symbols, codes of 4 bits, streams of 7 |
| `games` | DoomGame | do the states fit, keys come up, intermissions end, is something on? | 2 levels, 2 demos, 2 commands ahead, one key |
| | QuakeKeys | is the button down exactly while a key is, is no press lost? | queue of 1, 2 commands; 2 keys and the menus, or 1 key and a console that is typed at once |
| | QuakeMixer | does every channel read inside its sound? | 4 channels, 2 sounds, 2 entities |
| `games_live` | DoomLoop | is every command run once; is there a tic in every second frame, for ever? | clock of 1280, 3 tics in 10 |
| | DoomMovers | is no pointer left to what is gone; does what moves come to rest? | 5 sectors, 2 movers, tables of 1 |
| | DoomWeapon | is a shot paid with what is there; does the attack go on? | 5 weapons |
| | QuakeSession | do the sockets agree, is one step of the sign-on under way, does the client get in? | 5 commands |
| | QuakeSound | is what is handed out what was painted; does the sound go on? | ring of 6, times to 14, rates 3:4 |
| `doom_clock` | DoomLoop | does the game go on for ever? No: section 4 | clock of 128 |
| `quake_dialog` | QuakeKeys | is the dialog answered? No: section 4 | 2 keys |

Why the bounds are enough. The scheduler's list code looks at a poller, its predecessor and its
successor: three pollers have a head, a middle and an end; five calls let a continuation register,
unregister and wait inside a pass of which a tick interrupts another operation. Races on tasks are
between two calls on one task, with a second task for the continuations to touch. A linked pair
needs two sources; that links chain deeper follows since `Cancel` of a child is the same code.
Sockets: three operations are what is in flight, what a continuation begins and a close; the fourth
of TCP is a second connect, or an accept after a listen. A buffer of three bytes has reads and
writes below, at and above its size, and partial flushes of two lengths. Ratios of the sample rates
1:3 to 7:3 include up- and down-sampling, equal rates and chunks that give no output frame. Two
objects with a field make chains and cycles, and one that only an object on the pending list leads
to; the theorems (section 5) remove the bound. A zone of five to seven blocks has a free block
before, at and behind the rover, purgable ones that join on either side, and fragments too small to
be cut off. A hunk of 18 units holds the header, two cached blocks with gaps and a temporary file.
Two levels have one with and one without a successor. Tables of movers with one place have a second
lift or ceiling that finds none. A height left in memory is 0 or 3, in and out of the levels; a
lift's count below -1 stays at -2, which differs from no other below -1. The clock's 1280
milliseconds are many times a tic and less than the 32 bits: what is computed depends on the
remainders, which all occur, and the two overflows; 14 times are two laps of the ring and the chop
in the middle of one. Five commands of a session are, for instance, a map, a demo's recording,
another level, a failing one and a load.

Every property has a mutant (`PROJECT.json`): a definition of the same module that changes one
translated definition the way a bug would, under which TLC finds the property violated. They
stand next to the definition they replace, marked *Mutant*.

Deadlock is not checked, except in `doom_clock`: the application may stop calling, the
player may stop playing, and every run stops at its bound of calls.

### Fairness

* Statements of a tick: weak; a notification runs to its end.
* Statements of the application: strong; it gets on only between ticks.
* The end of a tick, `Poll`, `Elapse`: strong; ticks keep coming, each pass polls what is registered
  (that is `EachIsPolled` of `TaskScheduler`, and supposes that the timer started and the list is
  intact), and a delay is a poller, too.
* Continuations return (sockets and files). One that waits for ever inside a tick stops everything,
  since the application it has preempted does not go on.
* The firmware ends a close (TCP), what it was given (files), a transfer (sound); it need not answer
  a connect, a receive or a request for an address.
* The turns of an allocator's loop and of a collection: weak, nothing interrupts them.
* A frame of Doom, of Quake and of its sound, and the turn of every thinker in a tic: weak; the
  program calls its loop for ever (`while (true)` of `doomgeneric.cs`; `quakegeneric.cs` goes on
  until the game quits). The player owes nothing: that an attack goes on is said of one who holds
  the button.
* `QG_AudioWrite` is strongly fair: the driver's callback may come first each time, but frames keep
  coming.

`TaskCompletion` does not suppose that a Wait returns: `TakenRuns` speaks of behaviours
in which no Wait blocks for ever. `DoomMovers` speaks of movers that are left alone.

## 4. Findings

Three runs refute what the code says of itself.

* `scheduler_wait`: `Register` reads the head (line 51), sets the flag (52) and publishes (53)
  without excluding the tick. A tick between 51 and 53 that registers a poller loses it: it is
  marked as registered, so a later `Register` returns early, and is in no list, so nothing polls it.
  `Wait` says that it "must poll its I/O task even though the outer continuation pass is active";
  the run shows one that waits for the lost poller's task and never polls it.
* `doom_clock`: `GetAdjustedTime` multiplies milliseconds by `TICRATE` in an `int`. After 17 hours
  the product goes below zero, `NetUpdate` takes the fall for tics to skip, and no further tic is
  run ("will run at least one tic"). `SoonRunsATic` and `DoomGoesOn` hold until then.
* `quake_dialog`: `SCR_ModalMessage` waits in a loop of `Sys_SendKeyEvents`, which is empty in this
  port: the dialog of "New Game" never returns ("waits for a Y or N keypress").

Exempted by name in the models and listed as hazards: `raced` tasks and combinators and the
`Missed` tasks of a combinator (the same cause as the first), the paths of `Strands` and `Lapses`,
`Stranded` files (a second `Close` waits for ever for a read that a continuation began while the
first waited), a file's Close `AtNull` (a tick cleared the field it had looked at), `astray` buffered
streams, `unset` floors and `MayStay` of movers (with `Hangs`), `early` and `stranded` of a session,
`Stuck` and `miscounted` sound.

Also met while modelling. For those with a definition at the end of its module, TLC shows the
behaviour when the run's `MC` module and configuration are given it as a property:

| where | the code says | it does | definition |
|---|---|---|---|
| `d_main.c` D_DoAdvanceDemo | "no save / end game here" | a save asked for in a game is carried out in the title that followed | `DoomGame!NoSaveHere` |
| `z_zone.c` Z_Malloc | "throwing out any purgable blocks along the way" | a search may fail with a purgable block that would do: the one it began at | `DoomZone!PurgesBeforeItFails` |
| `zone.c` Cache_Alloc | "free the least recently used" | an item that was moved counts as used, so a fresher one goes first | `QuakeHunk!EvictsLeastRecentlyUsed` |
| `sound.h`, `snd_dma.c` | the first channels are those of entities | static sounds of entities lie behind them, where S_StopSound does not look | `QuakeMixer!EntitySoundsComeFirst` |
| `snd_dma.c` GetSoundtime | "buffer wrapped" | a position that falls by rounding counts as a lap | `QuakeSound!FallsOnlyWhenWrapped` |
| `host_cmd.c` Host_Changelevel_f | "taking all clients along" | a client that is not in the level yet stays behind | `QuakeSession!TakesAllAlong` |

And without one: a `changelevel` to a missing level strands the client, and the next `map` fails to
connect; `playdemo` while recording, then `stop`, closes the playback's file; the loop that flushes
messages in `Host_ShutdownServer` spins for three seconds on a full socket; in Doom, "the missile
launcher and bfg do not auto fire" (`p_pspr.c:305`) although `A_ReFire` refires them; `P_CheckAmmo`
wants more shells and cells for the super shotgun and the BFG than a shot takes; a new game or a
load that was just asked for is dropped by the title's next page or a rebirth; a lift is spoilt by a
door's line: the comment says that the door's direction is the lift's wait, which is so on 32 bits
only (`p_doors.c:428`); a door opened to stay and closed by hand keeps its sector for ever
(`p_doors.c:116`); a lift that is raised and blocked goes down to a height that was never set
(`p_plats.c:175`); the question whether to end the game may be answered when there is none any more,
and starts the title anew under a demo (`m_menu.c:1035`); a ceiling without a place in the table
never lets go of its sector; the 31st lift ends the program; lifts in stasis are lost by a savegame
(`p_saveg.c:1714`); a release that the full USB queue drops, or a binding that changes while the key
is held, leaves Quake's button down.

## 5. Proofs

Eight modules, each for every value of the constants under the named assumptions of its module.

| theorem | of | establishes | run |
|---|---|---|---|
| `TypeCorrect`, `OnePassHolds`, `InsidePassTickIsInert`, `YieldLeavesNothing`, `ListSoundHolds` | `TaskScheduler` | `TypeOK`, `OnePass`, `TickInsidePassIsInert`, `YieldLeavesNothingNew`, `ListSound` | `scheduler` |
| `TasksAreSound`, `AwaitsResumeOnce`, `TasksKeepPromise` | `TaskCompletion` | `Sound`, `ResumesOnce`, and the refinement `KeepsPromise` of `Promise` | `tasks` |
| `CombinatorsDecideRight` | `Combinators` | `Verdict` | `tasks` |
| `CancellationIsSound`, `CallbacksRunOnce` | `Cancellation` | `Sound`, `RunsOnceUnlessRemoved` | `tokens` |
| `StreamIsSound`, `StreamImplementsByteStream` in `TokensProofs` | `BufferedStream` | `ClosedIsSaved`, and the refinement `ImplementsByteStream` of `ByteStream` | `tokens` |
| `StreamIsSound` in `FileStreamProofs` | `FileStream` | `Sound` | `devices` |
| `ConversionIsExact` | `SoundPlayer` | `StreamIsExact` | `devices` |
| `SocketIsSound`, `ConnectionsAreReported` | `TcpSocket` | `Sound`, `ConnectIsReported` | `sockets` |
| `HeapIsSound`, `HeapCollectsGarbage` | `GcHeap` | `Sound`, `CollectsGarbage` | `memory` |
| `DoomZoneIsSound`, `DoomZoneFreesWhatItMay` | `DoomZone` | `Sound`, `FreesWhatItMay` | `memory` |
| `QuakeZoneIsSound`, `QuakeZoneFailsOnlyWhenFull` | `QuakeZone` | `Sound`, `FailsOnlyWhenFull` | `memory` |
| `WeaponIsSound` | `DoomWeapon` | `Sound` | `games_live` |
| `LoopRunsWhatWasMade`, `MoversAreSound`, together `MadeAndMoved` | `DoomLoop`, `DoomMovers` | `RunsWhatWasMade` | `games_live` |
| `GameIsSound`, `KeysComeUp`, `IntermissionsAreEnded` | `DoomGame` | `Sound`, `NoStuckKey`, `LoadedOnce` | `games` |
| `ButtonIsSound` | `QuakeKeys` | `FiresWhileHeld` | `games` |
| `MixerIsSound` | `QuakeMixer` | `ReadsInsideSound` | `games` |
| `RingIsSound` | `QuakeSound` | `HandsOutWhatWasPainted` | `games_live` |

All but `TypeCorrect`, `HeapIsSound`, `DoomZoneIsSound` and `QuakeZoneIsSound` state a property of
the run as the run has it, or the parts of one (`LoopRunsWhatWasMade`, `MoversAreSound`).
`TypeCorrect` is a theorem only; what the other three state are parts of `MemoryIsWhole` of the run
`memory`. All but `TaskSchedulerProofs` and `TcpSocketProofs` extend the `MC` module of their run.

### TaskScheduler

Assumptions: `Nil` is not a poller, `Shared` is a set of pollers, `MaxCalls` is a natural number.

* `TypeInv` adds to `TypeOK` that an operation has its poller and that `Unregister` is about to
  unlink the poller it looked for.
* `PassInv` adds to `OnePass` what the flag's test and its assignment, two statements, rely on:
  between ticks the notification is outside of `Yield`, and a context that has the CPU and has
  passed the test still finds the flag clear, since a tick in between made its whole pass before
  the application went on. `OnePass` alone is not inductive.
* `AgainInv`: inside a pass, either nothing was registered since it began, or `s_yieldAgain` is
  set, or the context of the pass is between the publication and the notification of a `Register`.
* `ListInv` is, while not `torn`: the list is exactly the linked pollers in decreasing order of
  `age`, and for each place in `Register` and `Unregister` what the operation has read still holds
  (`OpSound`: the new node points to the head, the cursor of a walk follows its predecessor, what
  is behind the cursor contains the poller). The order by age is what makes the list finite and
  free of cycles without induction over it: `ListPush`, `ListDropHead` and `ListDropInner` show
  what the three assignments to the links do to an ordered list.

Each invariant has one lemma for the initial states and one per group of actions; the theorems
combine them.

### TaskCompletion and Promise

Assumptions: `None` is no task and no continuation, `MaxCalls` is a natural number.

`NotForgotten` says where each continuation is; to keep it, one must know of every call in the
middle of its statements what it has read and that it still holds. The invariant `IInv` adds:

* `Frames`: a call below another one is at a point where user code runs; what a call has taken is
  in phase *taken*, and what it is about to write back was added to its task;
* `RunOnce`, `AddOnce`: no two places of the two stacks have the same continuation to run, and
  the two contexts do not add the same one;
* `Lists`: the delegate of a pending task, or of one whose completion is about to take it, has what
  was added to this task, each once;
* `Statements` and `Crossing`: the state and delegate that a call read are those of the task unless
  it is the application's and its task is `raced`; the tick that completes the task of such a call
  has made it so. Without `Crossing` both contexts could take one delegate;
* `Homes`, `TickInv`: who was added has a task; between ticks the notification has no call.

There is a lemma for each action. `ResumesOnce` and the refinement are then read off the invariant
with one lemma per action that says what the action does to `state`, `phase`, `home` and `raced`
(`Effect`), and a lemma per kind of effect that it is a step of `Promise` or none: under the
invariant `Fate(k)` is a function of the phase (`Fates`), so that no step of the detailed module
needs a look at the stacks.

### Combinators

Assumption: there is a task in the list. `AllVerdict` is about lists that other contexts fill, and
a count that two contexts take down with separate reads and writes. `CombInv` says, of each context
and its continuation:

* `CombTurns`, `CombWaits`: where a continuation can be, that its task is done, and which tasks
  still wait for theirs, or missed them;
* `CombApart`: the two contexts never have the continuation of one task;
* `CombAll`: what the lists have is exactly what the tasks said whose continuations have noted it,
  and while not `raced` the count is that of the tasks that have not counted down
  (`CountIsExact`, over the cardinality of a set that each statement changes by at most one task).
  When raced, the count is still no less than that, so that nothing is decided too early;
* `CombAny`: the winner is done, and the first one reported stays unless `raced`.

That the count is never too low, even when a decrement is lost, is what the proof turns on: a lost
decrement leaves a count too high, and WhenAll then never completes, but completes wrongly never.

### Cancellation

Assumptions: sources, callbacks and delays are distinct, `MaxCalls` is a natural number.

The stacks nest to any depth: a callback cancels, registers, disposes and throws, a linked source's
`Cancel` is a frame on top of its parent's. `IInv` says of every frame, not of the top one alone:

* `Shape`, `Frames`: a frame below another one is where `Cancel` or `Register` calls out; for each
  place in `Register` (`RegOK`, `ReadOK`), `Cancel` (`LoopOK`) and `CancelAfter` (`AfterOK`), what
  the frame knows. What the loop has left to run is *taken*, each once;
* `TickOK`: what the tick has read still holds, since nothing gets in; and when it has set
  `_canceled` of a source, no Cancel of the application is between the flag and the list
  (otherwise two calls would run the same list);
* `Apart`: no two frames anywhere register or run the same entry, or set the same delay;
* `EntriesOK`: a list that can still be taken has what is registered, each once (`ListOK`); where
  a registered or a taken entry is (`RegisteredOK`, `TakenOK`); what a link knows of its child
  (`LinkOK`);
* `DelayOK`: a source's current delay is its own and was not replaced.

The lemmas on stacks (`Moves`, `Cut`) say where each frame of the next state comes from, and those
above them keep the invariant through a kind of step: one that changes no source (`CalmStep`), a
source's list (`HeldStep`) or its flags (`OverStep`, `SourceStep`), or drops frames. Each of
the actions is one of these kinds with its own part to show.

### BufferedStream

Assumptions: the buffer has at least a byte, 0 is a byte, file lengths are bounded by a number. The
refinement mapping is what the user sees: `Content` is the file with what is pending in the buffer
written over it at the position of the file, `Pos` the file's position less what was read ahead or
with what is pending. `StreamInv`:

* `BufferOK`: the buffer has one use at a time, and what was read ahead is what the file has there;
* `DrainedOK`: before a call that reads, seeks, sets the length or closes gets to the inner stream,
  nothing is pending, and nothing is half flushed outside of a flush;
* `CallOK`, `ReadCallOK`, `SeekOK`: what a call in progress has still to do, together with what it
  has done, is what it was asked for: a seek's way from where it began (`SeekOK`), the bytes of a
  read that are still to come (`ReadCallOK`);
* `ClosedOK`: a closed stream has nothing pending, or its Close threw.

A flush that is accepted in parts moves the file's position and the place in the buffer together,
so that `Content` and `Pos` stay: the lemmas on `Over` (writing one sequence of bytes over
another at a position: in parts, behind its end, over what was written before) say so once, and
each action is then a step of `ByteStream` or hidden (`HiddenStep`).

### FileStream

Assumption: `MaxCalls` is a natural number; it is the number of operations, too.

A Close is a list of labels that is worked off while ticks and continuations put others before
them, so that `CloseWaitsForAll` is about what is left of the list. `IInv`:

* `LabelsOK`, `SetOK`, `GoOK`: storing and submitting come first in a context's list, what is about to
  be stored is the latest operation and its slot is free, what is about to be submitted is stored;
* `TokenOK`, `SlotOK` for each slot: the firmware has a token only for a stored operation of an open
  file, and a stored operation is not done, is in one slot, and is with the firmware, polled, or
  about to be submitted (this is `Served`);
* `HasPlace`: an operation that is not done is in a slot, or about to get there, or a Close;
* `CloseOK`: before the label of the release there is, for each slot whose operation is older than
  the Close, a look at it, the second one, or the wait for its task;
* `TickOK`: inside a call of the application, the tick polls and runs continuations only.

`Shift` says what a step does to the lists of labels: the first so many go, others come. `Step`
combines it with what stays, `NewOrOld` and `OldStays` tell the labels of the next state apart.
There is a lemma per action, of which those that only end operations share `CompletedKeeps`.

### SoundPlayer

Assumptions: the sample rates are positive, a chunk of PlaySync is at most the limit of the
queue, clips are not empty. `ChunkIs` is the heart, for every pair of rates: with the frame that is
kept of the chunk before (`KeptOK`) and the number of frames that were made (`Converted`), what
`ConvertStreamingPcm` makes of the next chunk is the next part of the conversion of the whole, and
no sample outside of what it has is read (`SourceIs`: of an output frame, the two input frames next
to it are the kept one or lie in the chunk). `PlayerInv` adds to the property:

* `StreamOK`: what a call of Play is about to queue is that part, so that the stream may be committed
  after the driver took it, and stays as it is when the chunk is refused anywhere in between;
* `QueueOK`: what the driver has will be dropped by `StopPlayback`, which asks `active`, except
  between `StartPlaybackAsync` and the assignment that follows it;
* `ClipOK`: what was played of a clip, what the driver has of it and what is still to come are the
  whole, and the driver has frames of nothing else.

`SumsAre` says of the recursive function of the transfers that it is what its equation says,
`TotalAppended` and `TotalOfTail` what a transfer that comes or ends does to the sum.

### TcpSocket

Assumption: `MaxCalls` is a natural number. The role of the socket, the answers of the firmware and
the order of calls, ticks and continuations are whatever they can be.

`Sound` is about what is stored, and a step that stores, submits or ends an operation keeps it only
by what the labels that are left to do say. The paths on which the code leaves something behind are
in the history `lapses`; a part of the invariant holds off those that would break it, most off
all of them (`lapses = {}`), some of one path only, and some always (`InPlace`, the types, the
labels, that a connected socket has its child). `IInv`:

* `LabelsOK`: storing, and then submitting, are the first labels of a context; what a close leaves
  for later (`finish`) is followed by an update of the registration, and its operation is in no
  slot;
* `SetOK`, `BeginOK`: what is about to be stored is new and its slot free; what is about to be
  submitted has its child, and the firmware has nothing of it: neither an earlier operation's
  token nor, for an accept, an earlier connection;
* `TokenOK`: a token is queued or signaled only under a configured child and for a stored operation,
  and never both;
* `StoredOK`, `ServedOK`: a stored operation is not done and in one slot, and has a token, or waits
  for an address, or is about to be submitted or ended;
* `PolledOK`: what waits is in the list of the poller, or an update or a submission is still to come;
* `ChildOK`: a connected, listening, configured or waiting socket has the child, role and operation
  that this needs; a connection that has arrived has its accept;
* `HasPlace`, `TickOK`: as for `FileStream`.

Between a connect's submission and its answer a tick may time it out, release the child, poll the
token of another operation and run the continuation that connects anew. `Plain` is any step of a
context that stores nothing (`Fewer`) and ends only what leaves its slot, and a lemma for each part
(`LabelsStay`, `HeadsStay`, `StoredStays`, `ServedStays`, `PolledStays`, `PlacesStay`) says when such
a step keeps it; `GeneralStep` puts them together. Above them there is a lemma for each kind of
answer (a connect, a transfer, an accept, a listen, a close) and for each action.
`ConnectIsReported` follows from `StoredOK`: `connected` is set only where the operation of the
connect's slot ends, whose task was not done.

### GcHeap

Assumptions: null is no object, there are finitely many objects and each has a size, there may be
a frame. Nothing is assumed of the numbers of objects, fields, statics, frames and tries.

`NoDangling` alone is not inductive: a sweep frees objects one by one, and what it leaves is
whole only because of what was marked. `Closed` says it: while marking, the roots are marked, and
a marked object that is not pending leads to marked objects only; in the sweep the same holds of
`Kept`, what is marked or was swept and left. `Marks` says which of the collection's variables
mean something in which phase, so that the next collection begins with none marked.
`KeepsOnlyReachable` is completeness without a fixpoint: every set that holds the roots and is
closed under references holds the marked. `Unwinds` makes `Throw` cut to frames that exist:
handlers point into the frames and in their order, which `Pop` keeps as a method has left its
tries. There is a lemma for each action; `TopChanges`, `CutKeeps` and `UserKeeps` are what the
actions of compiled code have in common.

### ZoneList, DoomZone, QuakeZone

Assumptions: the sizes of the zone, its header, a block's header and the alignment are positive,
`MINFRAGMENT` is no less than a header, the zone has room for a block, and no lump is the mark of a
block without a user. Nothing is assumed of the sizes asked for.

What Z_CheckHeap looks at is not inductive. `List` is: the links lead to blocks and are each
other's inverse (`Linked`), a block ends where the one it leads to begins (`Tiled`), and the link of
a block leads to the next one in memory (`Ordered`), which is what makes the place where a block is
cut a new one (`CutIsNew`), and the list one ring, without induction along it. `AbsorbedKeeps`,
`ReleasedKeeps` and `TakenKeeps` say that joining, freeing and taking keep it, and what else they
leave alone. A freed block is shown in two halves: between them, it may be next to a free one.

* `QuakeInv`: a search that began at a block and is at another has passed those that are between
  them in the order of addresses, around the cap (`Passed`), and each of them is in use or too
  small; and the one it is at is, too, unless it is the first (`Searched`). That the block where it
  gives up was never looked at as a base is harmless by this only: the block before the first is
  free, and was the base then, or it is in use. `PassedAll` is that nothing is left then.
* `DoomInv`: a search's base is its rover, or the free block right before it, and no free block is
  before the base, so that a purge joins the rover with the base and nothing else, and the base is
  found again; where the search began is not free and never purged (`Seeking`); in `Z_FreeTags`, what
  is left of the level is not before the rover (`Freeing`); and a lump and its block know each other
  (`Owned`), the lump that is searched for having none.

### DoomWeapon

Assumptions: there are a fist and a pistol, limits and clips are numbers, `Generous` a truth value.
The invariant `Place` says where the weapon can be: it goes down for another one or with its player,
and in a state of an attack that waits for the shot, the shot can be paid. The last is needed:
ammunition is checked states before it is taken, and a weapon that takes more than one could run
below nothing in between; that nothing else takes any meanwhile is what is proved. `Tables` is what
the invariant needs of the tables of attacks. A lemma per function, since a tic composes them.

### DoomLoop

Assumptions: the rates and widths are positive, the ring has at least as many cells as may be made
ahead (`BackupTics >= MaxAhead`: 128 cells, `net_defs.h:45`, and 5 tics, `d_loop.c:167`), the
numbers of tics go round after a multiple of it (a bound of the model). Times are numbers modulo
`Tics`, and a tic's place in the ring is a second modulo: `OwnCells` proves that tics less than a
ring apart have different cells, also across the end of the numbers. `LoopInv` adds to the property
that the counts a frame has read (`lowtic`, `counts`) are no more than what is made, at each place
of `TryRunTics` where they are still used.

### DoomMovers

Assumptions: what the constants are, and `LevelAssumption`, which is about the data of a level and
not about the code: a floor is not above its ceiling at first, nor are the heights around a sector
to which its lines send it, and lines of one kind lead to a sector. The code trusts the data in
this; without the last, lifts and doors of one sector could meet and a floor pass a ceiling.
Nothing is assumed of `Leftover` but that it has numbers: the theorem has a height that was never set at any value, and
the sectors it reached apart.

`Sound` relates the pointers of sectors, the tables and the memory of movers. `MoverInv` adds:

* `MoverOK`: what each kind of mover can be, that it is in stasis exactly when it does not think,
  and that each height it may go to is on the right side (a crusher in stasis returns to its old
  direction, so that is said of both);
* `Pointers`: `Sound`'s, with the movers that are done but not yet freed apart (`Alive`);
* `HeightsOK`: only lifts move floors and only other sectors' ceilings move, and a floor below its
  ceiling stays so outside of `unset`. A lift that is raised needs nothing of its `low` until it
  goes down, and from then on its sector is in `unset`.

There are four kinds of steps: movers go on as what they are (`GoingOn`), one is made (`NewMover`),
one ends and its sector and table forget it (`MoverEnds`), or one is freed; each action is one of
them, and `ReloadKeeps` is about a savegame, which makes all the pointers anew.

### DoomGame

Assumptions: there are a level, a demo and a command ahead. The state is small and the difficulty is
which requests may meet which states: `Asked` (what only a level, an intermission or the title can
ask for is asked for in it, and what an action leaves for the next is done in the same tic), `Turns`
(the title's turn comes before all actions), `Birth` (a rebirth is over in the next tic), `Seen` (an
intermission is known to the tic after it, so that `WI_End` runs) and `On`. One lemma per action,
one step per conjunct.

### QuakeKeys

Assumptions: the keys that fire are not among the others, nor what stands for no key and for a
typed command, and the queue of the device has room for an event. A key goes through two queues,
and the button may be taken by two keys at once, so that what makes a release come is followed all
along (`KeysInv`): after each press in the queue of the device there is a release behind it, or a
finger is on the key (`EventsOK`); after each `+attack` in the command buffer there is a `-attack`
behind it, or that is on its way in the queue (`CommandsOK`); and so it is for each key the button
has (`HoldersOK`). `lost` excepts the keys of which the queue dropped the release or the binding
went. `ButtonOK` is the button by itself. A lemma per function, since the host's frame composes
them; `TakenKeeps`, that an event taken becomes a command in its place, is the longest.

### QuakeMixer

Assumptions: sounds are not empty and a loop starts inside its sound, each ambient channel has a
sound, the view's entity is one. `MixerInv` adds to the property that an ambient channel that was
silenced keeps a place it can go on from (`AmbientsOK`: `S_UpdateAmbientSounds` gives it its sound
back with the old position and end), that the static channels not yet in use are cleared
(`StaticsOK`: `S_StaticSound` does not set the position) and that an entity has one channel for what
has one place (`LabelsOK`). What is painted of a channel is a loop, and the
number of its turns has no bound but the time to paint. `TurnsAre` proves that the recursive
function of them is what its equation says, `TurnPaints` that a turn goes on with what `Painting`
says of a channel, and `PaintedIs` that they end with the channel painted or over.

Both are by induction over numbers, by `Induct`: a set with 0 that has the successors of its
members has all numbers. It is proved from the library's theorems that the order of the numbers is
well-founded and that in such an order a set has a least member (`Least`).

### QuakeSound

Assumptions: the numbers are positive, the mixer's lead is shorter than the ring, the limit of times
is above two laps, and the driver's rate is not the lower one. The position is not counted but
computed, from what was written at one rate and what is still to be played at another, each rounded,
and the number of laps is guessed from it. `RingInv` says, as long as the position did not fall back:

* what was played, without what the conversion rounds up (`Slack`, what the phase says more than the
  output made of it), is not below 0, and neither a write (`WriteEven`) nor an update takes it back
  but where times are chopped off; the last update counted less than a frame more;
* the mixer is no further ahead than its lead, or still in the first lap. With `Laps`, a lemma on
  numbers in a ring, the update thus counts exactly the frames that were played (`WhereIs`), but for
  the one case `Stuck` in which a whole lap looks like none;
* the cells from what is submitted to what is painted have their times, which an update paints over
  only a lap later (`LastTime`, `LapsApart`), or none are left when times are chopped off.

`SumsAre` proves that the recursive function of the driver's transfers is what its equation says, and
`TotalAppended` and `TotalOfTail` what a transfer that comes or ends does to their sum.

### Only model-checked

All other modules, and of these the liveness, which is out of reach of the prover: that
what is registered is polled, that a taken continuation runs, that Close ends, that calls of the
heap return, that the weapon attacks again, that Doom's loop goes on and movers come to rest.

What recursive functions compute can be proved by `Induct`, as for the mixer and the ring, but with a
lemma that each of them is what its equation says. Not yet done: that the bytes of the heap are
counted (a sum over a set, in `MemoryIsWhole`), what the decompressor's tables decode
(`DecodesTheFormat`), the messages in the queues of a session (`OneStepUnderWay`, over the
concatenation of what was written), and the order of the cache (`ImplementsLru`, of which TLC
checks the abstract specification as the property).
`UdpSocket`'s `DatagramsAreSound` needs none.

## 6. Not modelled

| part | why |
|---|---|
| FTP server | sessions over sockets and files; planned. Two hazards wait for it: `StopAsync` clears a listener that a `Start` in its continuation has just set (`FtpServer.cs:115`), and a transfer waits for its data connection without a timeout (`FtpServer.cs:756`) |
| Console beyond the USB queue, SerialPort, Dns, WebClient | one operation each of the scheme of `Handlers`; planned |
| Interrupt lock, Monitor, ConcurrentDictionary | no modelled component takes a lock; planned |
| a tick inside a call of the heap | see `GcHeap` |
| the compiler's roots, finally and filters | the compiler is a binary in the repository's build, not source |
| readers, writers, paths, strings, formatting, LINQ, dates, drawing, reflection, C shims | sequential and pure: tests reach them, a model checker adds nothing |
| NES emulator | deterministic, one thread |
| Doom: monsters, collision, rendering, status bar, automap, menus, configuration, music | geometry, drawing and tables; what menus ask for is an event of `DoomGame` |
| Doom: floors, stairs, lights, switches, secret levels, several players, recording | variations of what `DoomMovers` and `DoomGame` have; the port is for one player |
| Quake: physics, QuakeC, rendering, models, other network drivers, text of commands and aliases | floating point, an interpreter, a renderer; the port has the loop driver only |
| lodepng but for Huffman codes and matches | bit refills, filters, colours: pure functions of large data |
| Grand Theft Auto port | bindings of a vendored game |

Time is not modelled in the runtime: a delay elapses at any time after it was started, and a pass
takes none, so that ticks keep a long pass running (`TaskScheduler.cs:106`) is not covered.

Most lines of the repository are of the last kinds: of Doom's and Quake's C, what decides about
something over time is a small part, and of that the modules above have the larger part. The rest
is data: tables of states and sprites (`info.c`, `tables.c`), menus, drawing and geometry, of
which a model would say nothing that its code does not say.

## 7. Plan

1. `FtpServer` on abstract sockets: accept loop, stop and start, the data connection.
2. An abstract specification of one asynchronous operation (begun, pending, ended), implemented by
   `UdpSocket`, `TcpSocket` and `FileStream`; `Console.ReadKey` and `SerialPort` on it.
3. `InterruptLock` with `ConcurrentDictionary`.
4. Proofs: `UdpSocket`'s `Sound`, along the lines of `TcpSocket`; of `QuakeHunk`, that its blocks
   do not overlap.

The order is by how much of the system rests on the component, then by how hard it is to test.
