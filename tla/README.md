# A TLA+ model of meson_display

This directory holds TLA+ modules that model the concurrent and stateful core of
`vendor-meson_display`, TLC configurations that check them on small instances, and
proofs for TLAPS. Paths below are relative to `src/display_framework/src/` unless they
begin with `src/`.

Checking a run: `tlc -config <file>.cfg <MC module>.tla`; checking proofs:
`tlapm <module>Proofs.tla`. `PROJECT.json` lists runs, mutants, hazards, the source lines
of every definition and the theorems.

## 1. Inventory

| Part | Source | State it keeps | Operations | Interacts with |
|---|---|---|---|---|
| IPC | `ipc/ipc.c`, `ipc.h` | `server_ctx`: watch set, table `sfd[]` with its count, `max_fd`, `status`; `client_ctx`: a descriptor | `server_create`, `_start`, `_destory`, the thread's `select` loop, `client_create`, `client_send_request(_wait_reply)`, `client_destory` | kernel sockets; a message handler called on the server thread |
| DRM helper: deferred mode switches | `extension/weston-6.0/compositor-drm-help.c` | ring `g_task_after_repaint_cycle` | `schedule_task`, `get_task`, `process_task`, `help_do_repaint_cycle_completed` | filled by the handler on the IPC thread; drained there and on weston's thread |
| DRM helper: outputs | same | `g_output_list` with enable flags, `g_output` | `help_updata_compositor_output`, `help_switch_compositor_output`, the loops of `process_task` and `m_message_handle` | weston's thread (under `mutex`), IPC thread (partly without) |
| DRM helper: connectors | same | `global_connector_list` with property values and `need_change` | append, update, delete, "set/get connector range properties", `help_atomic_req_add_prop` | weston, IPC thread, kernel |
| DRM helper: viewport, mode | same | `g_ui_viewport`, its modify flag, `g_ui_size`, `g_display_mode`, `info_rwlock` | "set/get ui rect", `help_update_*`, `help_get_scanout_viewport` | weston reads the viewport without the lock |
| DRM helper: worker | same | `g_server_ctx`, `mutex` | `start_help_worker`, `stop_help_worker` | owns the IPC server, holds `mutex` while it stops it |
| DRM helper client | `extension/weston-6.0/client/` | none beyond the connection | `send_cmd`, `send_cmd_sync`, conversion of replies | the IPC client |
| drm_setcrtc | `extension/drm/drm_setcrtc.c` | device resources, one atomic request, `user_stop`, a mutex and a condition | wait for a connector, set a mode, run as a service until a signal | signal handler against main loop |
| Display settings | `extension/display_settings/{meson,westeros,weston}` | none between calls; a descriptor and an atomic request inside each | setters (mode, HDR, colour, HDCP, ...), automatic mode choice, retries to become DRM master | libdrm_meson, westeros |
| Display attributes | `extension/display_settings/displayattribute` | none; a descriptor per call | getters that translate enumerations | libdrm_meson |
| Frame buffer surface | `extension/FBsurface` | mapping, current surface, descriptor | constructor, `setDimensions`, page flip | fbdev ioctls |
| UVM | `src/libuvm` | a device descriptor, usage count | one ioctl per operation | kernel |
| Utilities | `src/common` | singleton pointer and lock | `getInstance` | everyone |
| Samples | `samples/weston` | capture and display buffers | V4L and dma-buf demonstration clients | weston, kernel |

Hard behaviours, all listed line by line under `hazards` in `PROJECT.json`:

* the IPC server: a `select` snapshot used while the table under it changes, descriptor
  numbers that are reused, a fixed-size table, streams without message boundaries, two
  writers of `status`, a stop that needs a connection of its own to be noticed;
* the helper: two threads on a ring that has no lock, a hand-made doubly linked list with
  in-place compaction, a reader outside the mutex, a stop that holds the mutex the handler
  needs;
* the tools: retries, one step of several failing, lost wake-ups.

What makes each part correct:

* IPC: the watched descriptors are the open ones and `max_fd` bounds them; a reply goes to
  the connection that asked; the context outlives the thread; destroy returns; a waiting
  client is answered or told that the server is gone.
* Deferred switches: a bounded FIFO; each accepted request is applied once, in order, in the
  end, whichever thread drains.
* Outputs: the list always describes the known outputs and their flags, the nodes on it are
  the allocated ones, and readers only touch those.
* Connectors: a property request reaches every HDMI connector listed, and then the next
  atomic commit, or an error is reported.
* Viewport: a reader sees a rectangle somebody set. Worker: stop returns, every question gets
  its own answer.
* Settings: each setter reports success only if the request was committed, gives back what it
  opened, and leaves properties that belong together together.
* drm_setcrtc: it ends when asked, its exit code is true, what it reads is still allocated, and
  waiting for a display costs no more memory at every turn than is known.
* Surface and samples: nothing is drawn outside the mapping or to what is shown; what goes to
  the compositor comes back and is freed once.

## 2. Modules

| Module | Kind | Models |
|---|---|---|
| `JsonStream` | data | texts on a stream socket: fragments, what `json_tokener_parse` makes of what has been read |
| `IpcServer` | component | server thread, main thread and clients of `ipc.c`, with sockets and the descriptor table as the kernel's part |
| `IpcServerProofs` | proofs | its invariants for every instance |
| `TaskQueue` | abstract specification | a bounded FIFO of "set mode" requests, several of which may be in hand |
| `TaskRing` | component | the ring, one shared access per step, drained by the handler's thread and any others |
| `TaskRingProofs` | proofs | the ring implements the FIFO until two threads are inside `get_task` at once, for every set of threads |
| `OutputSet` | abstract specification | a set of outputs, the enabled ones, the last switch |
| `OutputList` | component | the linked list in a heap, with its unlocked reader |
| `OutputListProofs` | proofs | what breaks the list, and that all else implements `OutputSet`, for every heap |
| `HelpWorker` | component | connectors, viewport and mode of the helper with `mutex` and `info_rwlock`: the server thread in `m_message_handle` against weston's thread |
| `HelpClient` | composition | `HelpWorker` with the client library and the client program |
| `HelpClientProofs` | proofs | locks, connector list, viewport and replies for every instance |
| `DrmSetCrtc` | component | `drm_setcrtc.c`: main thread, nested signal handlers, plugged and pulled displays |
| `DrmSetCrtcProofs` | proofs | its resources and exit code for every instance |
| `DisplayCalls` | component | what all display settings share: calling threads, descriptors, the DRM master, the displayed properties |
| `MesonSettings`, `WesterosSettings`, `DisplayAttributes` | components | the setters of two implementations, the stubs of the third, and the getters, over `DisplayCalls` |
| `DisplaySettings` | composition | one process: setters of the implementation it was linked with, and the getters |
| `DisplaySettingsProofs` | proofs | pairs, success, descriptors and the automatic mode for every instance |
| `HwalFBSurface` | component | the frame buffer surface in pixels: mapping, padded lines, current buffer, what the driver shows |
| `HwalFBSurfaceProofs` | proofs | its invariants for every size, area, line length and number of buffers |
| `DmabufWindow` | component | what the four weston samples share: buffers, window, events, and the compositor as they expect it |
| `DmabufV4l`, `DmabufIon`, `DmabufDrm`, `DmabufEgl` | components | the four samples over `DmabufWindow` |
| `DmabufSamples` | composition | the samples, one at a time, with their compositor |
| `DmabufSamplesProofs` | proofs | what holds of the samples for any number of buffers |
| `MC...` | TLC instances | constants for the runs |

Operators that say "Mutant" in their comment are not part of any specification: each is a
plausible slip in one definition, used to see that a property notices it.

### IpcServer

`pc` is the server thread: `loop`, `select`, `scan` (the `for` over descriptors), `accept`,
`read`, `handle`, `leave`, `exited`. `set` is what is left of the snapshot `select` returned;
`cur` is the descriptor in hand. Blocking is a disabled action, `read` included: the whole
server waits in `read` for the rest of a message. Each `write` of a client is either taken at
once or cut in two; what arrives is a sequence of fragments, and a read takes any non-empty
prefix. `Parsed` says which sequences parse to a message: a complete one does (what follows it is
lost), a part or the text `null` does not. Descriptors are numbers, because `max_fd` is about
their order; `accept` returns any free one, since other threads of the process take and return
descriptors all the time.

`main` is the thread that creates, starts and destroys the server, including the busy wait
(`spin`) and the join. `SERVER_GOINGTOSTOP` and the fall-through of the `switch` are followed as
written. `EarlyDestroy`, `WakerMayFail`, `StartMayFail`, `Pipelining` and
`HostIgnoresSigpipe` switch parts of the environment on and off, so that each run can say under
what circumstances a property holds. Undefined behaviour ends a run in a state of its own:
`overrun` after a store past `sfd[]`, `crashed` when a thread handle that was never set is
joined.

### TaskRing and TaskQueue

The steps of `schedule_task` are: test for room, deep copy (may fail), store in the slot,
publish `put_index`. Those of a draining thread are: `have_task`, the second test inside
`get_task`, read the slot, empty it, advance `get_index`, apply. The ring has no lock, so
these steps interleave. `Consumers` is the set of draining threads; `Server`, the IPC thread, is
always one of them, since the handler calls `help_do_repaint_cycle_completed` right after it has
scheduled (line 444), so `Publish` leads into its own drain loop. weston's thread is the other.

With two threads a task can be taken twice (run `ring_overlap`). This needs both to be in the body
of `get_task`, between its test and the store to `get_index`; the history variable `overlapped`
says that it has happened. What the ring gives until then is shown and proved, with all other
steps of all threads interleaved. That the handler drains the ring before it takes its next request
has a consequence one does not see in the code: without such an overlap the ring never
holds more than one task, and "task queue full" is never reported (`FullOnlyAfterOverlap`). After
one, `get_index` can run backwards, tasks be lost, and the ring look full.

The refinement: `queue` is what lies between the indices, where the first task may already be
out of its slot; `hands` are the tasks being applied. `Store` and `Clear` are
stutters, `Publish` is `Enqueue` and `Advance` is `Dequeue`.

### OutputList and OutputSet

`mem` is the heap: the head, which is a global variable, and the `calloc`ed nodes, each with
`prev`, `next`, `data`, `enable` and whether it is allocated. `Update` is the whole of
`help_updata_compositor_output`: `Place` finds the node, `Put` empties duplicates and stores,
`Extend` appends the empty tail, `Shrink` unlinks empty nodes, `Swap` moves the last output
into an empty head. It runs under the mutex, so it is one step. The mode switch of
`process_task` holds the mutex too; the refresh loop of the handler does not, and takes one
step per node. An access through a pointer to a freed node ends the run: `wild` says which
(`prev`, a removal through a stale back link; `walk`, the refresh loop). The removal through the
stale link is itself carried out in `mem`, so that the run that ends there shows the
list it leaves: the node before still leads to the one that was freed.

`OutputSet` says what an update should do: nothing but `older` and `newer` changes. The code does
not implement it as it stands, and `Implements` names the two steps that differ: `MoveDisables`,
where the output that moves to the front loses its enable flag, and `TakesOutMisled`, where a node with
a wrong `prev` is taken out. Both are reached within the run's bounds: adding two outputs, enabling them and
removing the first is the one; removing the first of two, then adding and removing another the
other.

### HelpWorker and HelpClient

Two threads and a program. The server thread takes a request, runs the branch of
`m_message_handle` for it and sends the reply: `pc` is `idle`, `handle`, one of the branches
(`walk` over the connectors under `mutex`; `read` of two halves under `info_rwlock`; `rect`, where
the flag goes down before the store and up after it) and `send`. weston's thread is in one
`help_*` call at a time (`call`), and a call that loops or holds a lock takes several steps.
Which thread holds a lock follows from where both stand; `WorkerTypeOK` states it, so that a way
out that forgets to unlock is noticed. The connector list is a sequence, since its order and the
empty head matter, not its pointers: all writers hold `mutex` (`OutputList` is where the same
kind of list is modelled as a heap). The viewport and the mode are read and written in halves.

The client program takes its options one after the other. `send_cmd_sync` appends the text
`null` to its query, and a server that reads `null` reads on and swallows what comes next; that is
why `Answered` speaks of a query that found the stream empty (the run `ipc_sync` is about the
other case). Requests are told apart as far as their effect differs: `plain` stands for all
those that take no lock and get no reply.

### DrmSetCrtc

`frames` is the stack of signal handlers on top of `main`, which stands still while one runs; a
signal is masked in its own handler and not in the other's. What `get_resources` allocates is two
parts: what `free_resources` frees, and what it does not know of, which may be there or not (`Reads`):
properties of connectors, what `drmModeGetProperty` returned, and lists behind an object that could
not be read. Freeing moves the second part to `lost`, where the blob of the mode goes too, and a
`mode` into what was freed becomes `"freed"`. So `ResourcesOwned` does not say that nothing is lost,
which is false, but that nothing else is. The service loop is taken
apart into test, lock, wait, wake and unlock. `StopHonoured` excludes exactly two states: a handler
that waits for the mutex its own thread holds (`Stuck`), and a signal that came before the wait
(`Missed`); both are reached by the code and listed under hazards.

### Display settings

Most setters do the same things in the same order, so each setter or getter is an action that
begins a call of its kind with what it asks for, and the steps (open, allocate, fill, become
master, commit, close) are shared; the kind decides where they differ. The ones that do differ are
those that allocate before they open and then close descriptor 0 when the allocation failed; those
that let the library do the work on the descriptor; `setDisplayMode`, which goes on after a failed
fill and first becomes master; `setDisplayModeAttr`, which opens a second descriptor; and
`setDisplayAutoMode`, whose choice (`BestMode`) is a recursive function. Descriptors are numbers
in a small table, the lowest free one is given out, and master belongs to one of them, to the
compositor, or to nobody. `display` holds the two pairs of properties that belong together.

A setter that has returned stays at `return` with its result until the caller goes on, so that
`SuccessMeansSet` can compare it with what was applied. `SaysMoreThanItDid` lists by name the
setters that report a success nothing stands behind.

### HwalFBSurface

Memory is counted in pixels from the start of the mapping, since the code counts in two ways that
agree only when a line is as long as the width: rows, the mapping and the pan go by `line_length`
(`mBytepl`), the start of the second buffer and what `clean` of an area copies go by `xres * yres` and
`width * height`. The driver chooses `line_length`, here the width and a padding. `fb` is the driver's
copy of size, offset and line length, `xres`, `yres` and `yoffset` the object's; they part when an
ioctl fails. `last` is the set of pixels the last drawing wrote. The variable `curSur`, which the
code does not set when there is one buffer, is any of the values that later code tells apart.
Assumed: a line fits the 16 bits of `mBytepl`, and `xoffset` is 0.

What the code does beside the mapping or on the screen has no comment it contradicts, so it is
not a violation run; the properties name it: after a `setDimensions` that failed, and
`clean` of an area with one buffer or larger than the surface (`WritesInside`); where the second
buffer laps over the first (`WritesHidden`, `Lapped`).

### The samples

`DmabufWindow` holds the state of one program and one compositor. The compositor answers imports
in order, configures, calls frames done, releases buffers in any order, and may vanish; events
wait in a queue until the program dispatches them. Each sample adds its handlers under the names
they have in the source, who draws (`drawn`: the camera, the CPU, the GPU) and how it ends. A
failed assertion, `abort` and a crash are phases, so that a property can say when they are
reached. `SA_RESETHAND` makes a second SIGINT end the process; that is not modelled.

## 3. Runs

| Run | Shows | Bounds |
|---|---|---|
| `ipc_safety` | table, snapshot, replies, stop and `status` are right; the table is overrun only when full | 2 clients (1 and 2 requests), waker, 3 descriptors around the listener's, table of 2 |
| `ipc_live` | destroy returns; whoever waits is answered or disconnected | as above, clients that wait for their reply, no early destroy |
| `ipc_sync` | violation: the second `send_cmd_sync` of a client is never answered | 1 client, 2 queries |
| `ring_drain` | until two threads are inside `get_task`: the queue implemented, each task once, never full; every queued request applied | 3 slots, 4 requests, both threads drain |
| `ring_overlap` | violation: a task applied and freed twice | 10 slots, both threads drain |
| `outputs_safety` | what breaks the list, what breaks its back links, all else implements `OutputSet` | 3 outputs, 3 heap nodes |
| `helper_worker` | requests reach all connectors and the commit, rectangles are whole, questions are answered | 2 connectors (1 HDMI), 1 property and value, 2 rectangles, 2 options of the client |
| `helper_stop` | violation: `stop_help_worker` waits for a thread that waits for its mutex | as above, 1 option |
| `setcrtc_service` | resources owned, exit code true, stop and hotplug | 2 connectors, 2 changes, 2 signals |
| `settings` | success means set, descriptors kept, best mode chosen | 2 threads, 3 calls, 3 descriptors, lists of up to 3 modes |
| `fb_surface` | writes inside the mapping and beside what is shown | 0 to 3 buffers, widths and heights 0 to 2, lines with and without a pixel of padding |
| `dmabuf_samples` | no drawing to what is shown, no false alarm, each buffer freed once | 3 buffers as in the programs, 2 configures |

Why the bounds are enough. The table's code only compares an index with the count and swaps
with the last entry, so two entries plus the waker give first, last, only and full table.
Descriptors above and below the listener's make both outcomes of the `max_fd` updates happen.
Three slots with four requests wrap both indices; a ring that an overlap left behind meets the
full case. Three
outputs give a head, a middle and a last element; three heap nodes are all such a list can use,
so freed addresses are reused at once. Two connectors give the head of the list and another
node; the second rectangle tells a mixture from a whole; two options let a reply meet the next
question. Two signals nest the handlers. Two
threads are all it takes to race for a descriptor, and three calls let one of them come back to a
number the other closed; three descriptors are the one that is always open, one, and a last
one, so that the table also runs full. Lists of three modes hold a larger, a faster and an
equal one in each order, with and without a limit. Widths and heights up to two give
an area inside, across and beside a buffer, one larger than it, and with a padded line a second buffer that laps
over the first. Three buffers and the second configure are the programs' own numbers and the first
configure that finds a drawn window. Outputs, node addresses and calling threads are symmetric:
nothing tells them apart. All runs set `CHECK_DEADLOCK FALSE`: the system really may stop, since
nobody has to connect, ask, draw or destroy, programs end, bounded counters end, and undefined
behaviour ends a run.

Fairness. IpcServer: the scheduler runs both threads and a client that has begun a request
finishes it; no fairness on connecting, asking, closing or destroying. TaskRing: both threads
run; nothing is assumed of the compositor's repaint cycles, since the handler drains the ring
itself. HelpClient: the server thread is scheduled, a call that
weston has begun goes on, and the program takes a reply that is there; strong fairness for taking
a lock, since a mutex that is free again and again is got in the end; nothing makes weston call or
the client ask. DrmSetCrtc: the thread runs, in `main` or in a handler, and reading the
resources does not fail for ever (strong, because the loop passes there again and again); no
fairness on signals and cables. The other modules have no liveness property.

## 4. Proofs

`IpcServerProofs` proves `Spec => []IInv` and from it type correctness, `TableConsistent`,
`MaxFdBoundsWatched`, `SnapshotLive`, `RepliesToAsker`, `FreedAfterExit` and the action
property `StatusForward`, for all sets of clients and descriptors, table sizes and switches,
under the named assumptions of `IpcServer` and `JsonStream`. The invariants are not inductive
alone. Replies are right because bytes keep their author all the way (`StreamsByAuthor`); the
snapshot is right because of the table; the context is freed late enough because `status`
follows the thread (`StatusFollowsThread`); reading fits because of `RoomToRead`. The lemmas go by
part: `TypeStep`, `TableStep`, `StreamStep`, `StatusStep`, each one case per action.
`OverrunCorrect` says of the store past `sfd[]`, which no test in the code prevents, when it happens: only to a
connection that comes while `MAX_CONNECTOR` others are in the table and open. Nothing that was closed still takes an
entry, however many came and went; that is what the code does get right.

`TaskRingProofs` proves `TaskInOnePlace`, `FullOnlyAfterOverlap` and the refinement
`Implements`, for any set of draining threads that has the handler's in it, any ring of two slots or more and
any number of requests. `Sound`, which holds until two threads are in `get_task` at once, ties program counters,
slots and indices together: at most one thread is inside, the indices are at most one apart, because the
handler's next request comes after its drain loop (`Positions`), each slot and each hand holds the request it should (`Contents`), and what is in hands
or done is distinct and older than what waits (`Distinct`). Without the thread that fills the ring among those that drain it there is no such bound and the
proof would have to be about rings of any fill; it is this program's ring that is proved.

`OutputListProofs` proves `TypeOK`, the action properties `OnlyStalePrevBreaksList` and `OnlyTheMoveBreaksPrev`, and
`Implements`, for any outputs and any finite set of addresses. The invariant says that, until a removal through a
wrong `prev`, some sequence of nodes *is* the list (`Intact`): it begins with the head, repeats no node, `next` leads
from each to the one behind it and from the last to nothing (`Linked`); its nodes are the allocated
ones, the last is empty, no two elements hold the same output (`Chained`); and only a head that is the one
element is empty. `ChainIs` shows that `Chain`, which walks the heap, then finds that sequence (`SameWalk`, an
induction along the list), and `Reading` and `Contents` what all other operators say of it. Each step of an
update is then a lemma about sequences: `PutIs`, `ExtendIs`, `UnlinkIs`, `SwapIs`. Between them `Intact` does not
hold, `Chained` does, and this is what makes the fold of `Shrink` tractable: elements that differ hold at most one
empty one, so that shrinking unlinks at most one node (`ShrinkIs`) and has nothing to trust but that
node's `prev`. `UpdateIs` puts them together: an update leaves an intact list whose outputs are those
`OutputSet` says, or takes out a node whose `prev` is wrong. There the run
ends (`wild = "prev"`), and `UnlinkFrees`, `SwapFrees` and `StaleIs` show that the step is the one the
two action properties and `Implements` name. The walk of the refresh loop without the mutex takes part as a reader: it may end on a freed node, and changes
nothing.

`HwalFBSurfaceProofs` proves `Spec => []SurfaceInv` and from it `TypeOK`, `WritesInside` and the
action property `WritesHidden`, for all sets of widths, heights and paddings and any number of buffers.
The type invariant holds the equation of mapping, size and number of buffers
(`mapped = yres * mNumSurfaces * mBytepl`) and that the driver has the object's size. That a blit ends in the
mapping is a fact about products of variables: its last pixel lies in a row below `yres`, and the second buffer begins
at `xres * yres`, which is no later than the line it is shown from, because a line is no shorter than the width.
`WritesHidden` needs that after a pan, with two buffers or more, the driver's offset is that of the buffer
`mCurSurface` names, also when later pans failed and object and driver disagree on `yoffset`. A blit
to the first buffer then ends before the shown lines, and one to the second begins behind the first one's, or
in `Lapped`.

`HelpClientProofs` proves, for any connectors, properties, values, rectangles and options, `TypeOK` (which
says who holds `mutex` and `info_rwlock`), `SetReachesAll`, `ViewportWhole` and the action properties
`AnswerMatches` and `NoChangeLost`. The inductive invariant has a part for each thing two threads share.
`LockInv`: no lock has two holders. `HandInv`: what the request and reply in hand are at each step.
`ListInv`: no connector is listed twice, and behind the walk every HDMI connector has the value; it survives
because every change of the list takes `mutex`, which the walk holds. `ViewInv`: which halves of the viewport are whose
while a writer stands between them; with it `ViewportWhole` follows, and a scan is whole unless it was
disturbed. `PipeInv` is the one for `AnswerMatches`: as long as no raw command has left a reply behind, there
is at most one request or reply of the kind that is waited for, in the stream, in the thread's hand or among the
answers; a thread that is gone takes no more.

`DrmSetCrtcProofs` proves `TypeOK`, `ResourcesOwned` and `ExitCodeTells` for any connectors and any number of
changes and signals. Missing from `ResourcesOwned` is what holds at the other places of the loop: from the search
on, `mode` is nothing or lies in the resources read last, and behind the loop it does lie there (`ModeFound`). `OneHolder` says that of main
and the handlers stacked on it one holds `main_mutex`, so that an unlock is by the one who locked.

`DmabufSamplesProofs` proves `TypeOK`, `UntouchedWhileShown`, `StuckOnlyWhenAllAway` and `FreedOnce` for all four
samples, any number of buffers and configures. A buffer is in one place: `busy` exactly while the compositor
has it or its release waits in the queue (`ShownInv`, with `Distinct`: no two events return the same
buffer), and an import is asked for, under way or answered (`ImportInv`). The steps common to the samples are
proved once, over a redraw that is a parameter of the lemmas' hypotheses (`Redraw`); each sample then shows
that its own redraw is one. That the next buffer found is the first free one needs the least element of a
set of numbers (`Least`).

`DisplaySettingsProofs` proves `TypeOK`, `SettingsWhole`, `SuccessMeansSet`, `DescriptorsKept` and
`AutoModeBest`, for any callers, descriptors, numbers of calls, pairs, policies and lists of modes. `CallInv`
speaks of one call: what it asked for, what of it is in the request, and that a device is in `fd` only at
the places between open and close. `DescInv` ties calls to the table: the descriptors of a caller are those
in its `fd` and `nested`; with it nobody closes another's, since a number is given out only when it is free.
`DisplayInv` says the display is `Fair`: every request is (`RequestsFair`), and applying a fair one to a fair
display leaves it so (`AppliedFair`). What `SettingsAssumption` assumes of modes is that they have an area, as
every mode the kernel lists has: a list of empty ones gets no choice. `AutoModeBest` is an induction
over a list of any length: `Least` gives the first index at which a statement fails, so that induction can be said
of a set of numbers (`UpTo`); by it the loop's function exists (`BestModeLoop`) and what it has
chosen so far beats all it has seen (`BetterKeepsBest`).

The pairs (`SettingsWhole`) have a theorem and no run of their own. Only model-checked: all liveness (`DestroyReturns`, `WaitEnds`, `QueuedIsApplied`, `Answered`,
`StopHonoured`, `HotplugFound`), and the violations. Liveness under fairness and `ENABLED`
are beyond TLAPS as installed here; so are the library's induction theorems, which take an operator, and
`RECURSIVE` operators, which is why the modules proved about have recursive functions and the proofs
induction over sets.

## 5. Where code and text disagree

Three are runs of their own, whose counterexamples are reported under `findings`:

1. `drm-help-client.c:119`: `send_cmd_sync` sends a `null` behind its query (`ipc_sync`).
2. `compositor-drm-help.c:444`: two threads drain the task ring without a lock
   (`ring_overlap`).
3. `compositor-drm-help.c:622`: `stop_help_worker` joins a thread that may want the mutex it
   holds (`helper_stop`).

Others are in the models, which follow the code, and the properties say where they bite:

4. `ipc.c:253`: no test against `MAX_CONNECTOR`; one connection too many is stored over `max_fd`, of which
   `ipc.h:66` says "it hold the max fd" (`Overrun` in `IpcServer`, which ends the run; `OverrunOnlyWhenFull`
   says when).
5. `compositor-drm-help.c:919`: "swap end with first" (line 915) copies `sizeof(connector_list)` and
   stops short of `enable` (`MoveDisables` in `Implements`).
6. `compositor-drm-help.c:920`: the tail's `prev` still names the node freed (`OnlyTheMoveBreaksPrev`), a later
   removal writes through it, and "one empty element at the end" (line 901) is no longer so
   (`OnlyStalePrevBreaksList`).
7. `compositor-drm-help.c:690`: the viewport is read outside `info_rwlock` (`ViewportWhole` excludes the
   scans that meet a store).
8. `compositor-drm-help.c:586`: "reply a empty json object to avoid client block" is for the
   literal `"get "` only; `Answered` leaves out the queries the handler does not know.
9. `client/main.c:170`: `-r` leaves the reply to a query in the stream (`stray` in `AnswerMatches`).
10. `ipc.c:393`: destroying a server whose thread has not begun yet joins a thread nobody stops; `ipc_live`
    leaves it out (`EarlyDestroy`), `ipc_safety` has it.
11. `compositor-drm-help.c:450`: the refresh loop runs outside the mutex ("mutex : for the globle
    value.", line 114) and may stand on a freed node (`wild = "walk"`).
12. `drm_setcrtc.c:419` and `586`: the two states `StopHonoured` excludes.
13. `drm_setcrtc.c:101`, `555`, `562`: what `free_resources` forgets, the blob and the request of a failed commit
    (`lost` and `req` in `ResourcesOwned`).
14. `meson_settings.c:403`: `drmSetMaster` returns 0 when it succeeds, and the loop takes this for a
    failure; so a process that became master sleeps once, and one that did not goes on to commit. The
    commit then fails, so `SuccessMeansSet` still holds.
15. `meson_settings.c:186`, `527`: descriptor 0 is closed when an allocation fails before the
    device is opened; `DescriptorsKept` excludes what follows (`failedEarly`).
16. `westeros_settings.c:554`, `meson_settings.c:381` and the weston stubs: success although nothing was set
    (`SaysMoreThanItDid`).
17. `display_attribute.c:459`: a descriptor is left open by every call (`Leaked`).
18. `hwalFBSurface.cpp:179`, `227`: a size stored before it is accepted, and a copy that is not cut to the surface;
    excluded by `WritesInside`. `317`, `349`: the second buffer and the pan do not agree when lines are padded;
    `Lapped` in `WritesHidden`. `334`: a variable that is not set, shown to be harmless to both.
19. `simple-dmabuf-v4l.c:624`, `simple-dmabuf-egl-yuv-on-osd.c:422`: freed twice, excluded by name in
    `FreedOnce`.

## 6. Not modelled

Text conversion (mode strings, JSON layouts, enumerations to names, option parsing), logging, and
code that keeps no state. `libuvm` is one ioctl per call on a descriptor that lives as long as its
object. `Singleton` and `Mutex` are wrappers taken over from Android. The test programs are
interactive drivers. `simple-dmabuf-drm-data.h`, 3074 lines, is a picture. Shaders and pixel formats of
the samples decide only whether setup succeeds, and are abstracted to that choice.

The environment of `select` and `read` leaves out `EINTR` and out-of-memory inside json-c, other than a
failing deep copy; a failing `malloc` in `help_append_connector` (line 653) and a second SIGINT in the samples
are left out too. The helper's answers are one record per reply, not their JSON. Libraries (json-c,
pthreads, libdrm, libdrm_meson, wayland, EGL, V4L, the kernel's sockets and descriptors, `calloc`) are
modelled from how `src/` uses them, and marked external in the map.

## 7. Plan

Everything above is done. What is left is an abstract server that `IpcServer` implements and
`HelpWorker` uses in place of its own two streams, so that fragments and merged texts reach the
helper's properties.
