# CalSci firmware: a verification project

CalSci is a handheld scientific calculator. Its firmware is MicroPython for the
ESP32 (`src/py`, `src/ports/esp32`, vendored) plus the device's own display driver
(`src/c_modules`) and Python programs (`src/default_files`): one key loop, a few
widgets that paint a 128 x 64 display, about forty applications, a sleep timer, a
settings file, an app store client, WiFi and ESP-NOW. The project models that core
and the parts of the runtime it leans on where several actors meet: the callback
scheduler, the hardware timer, threads and the GIL, the garbage collector, the
ring buffer, ESP-NOW and the WiFi station. Paths below are relative to `src/`;
`df/` is `default_files/`.

`PROJECT.json` lists, for every definition that models code, the lines it models;
the runs with their properties; one mutation of the model per property that makes
the run fail; the hazards the properties are aimed at; and the theorems.

## 1. Inventory

| Component | State | Operations | Hard behaviour |
|---|---|---|---|
| Menu (`df/process_modules/menu_buffer.py`, its uploader, `df/apps/root/home.py`) | list, cursor, window, rows to repaint; the display | open, update, up, down, ok, back | only two rows are repainted; wrapping and scrolling at the edges; one object serves every menu |
| Text input (`text_buffer.py`, its uploader, `df/apps/root/calculate.py`) | text, cursor, scroll position; the display | type, delete, move, AC, ans | the text is padded to whole rows, scrolled by rows, and repainted in part |
| Form input (`form_buffer.py`, its uploader, `df/apps/settings/sleep_after.py` and others) | rows, fields, selected row, cursor in the field; the display | move, type, delete, answer with another form | all fields share one scroll position that outlives the application; blanks are stripped |
| Callback scheduler (`py/scheduler.c`) | state (idle, pending, locked n times), ring of Python callbacks, list of C nodes | schedule, schedule a node, lock, unlock, poll, soft reset | interrupts and threads between any two atomic sections |
| Sleep watchdog (`typer.py`, `soft_watch_dog_timer.py`, `sleeping_features.py`, `sleep_after.py`, `ports/esp32/machine_timer.c`) | stored setting, timeout, one-shot timer, scheduled callback | boot, feed, stop, update, time out | a late timeout against a key; an exception or reset between two steps; overflow |
| App installer (`app_downloader.py`, `download_updates.py`, `installed_apps.py`) | files, list of installed apps, step number, query cache | five network operations stepped through with "ok" | lost answers, power loss and deep sleep between any two steps; a stale cache |
| Hardware timers (`ports/esp32/machine_timer.c`) | list of timer objects, four registers per timer, interrupt | init, deinit, alarm, soft reset | the alarm interrupts the register writes that configure it |
| Python threads (`ports/esp32/mpthreadport.c`, `py/modthread.c`, `ports/esp32/main.c`) | list of threads in the collected heap, its lock, the GIL | start, run, end, collect, soft reset | a thread unlinks itself without the GIL; the sweep runs without the list's lock; tasks are deleted anywhere |
| Garbage collector (`py/gc.c`) | allocation tables of a list of areas, search positions, mark stack | alloc, realloc, free, collect, sweep all, add and drop areas | overflow of the mark stack; search positions that must never pass a free block; sizes computed by approximation |
| Ring buffer (`py/ringbuf.[ch]`) | bytes, two indices | put, get | writer and reader on two cores without a lock |
| ESP-NOW (`ports/esp32/modespnow.c`, `modules/espnow.py`, `df/lib/test_thread.py`, `df/boot.py`) | ring, counters, peers, receiver threads | receive, send, active, start and stop a chat | the WiFi task's callback against waiting threads; lost and late responses |
| WiFi station (`ports/esp32/network_wlan.c`) | flags and counters without a lock | active, connect, disconnect, config, events | the event task, on the other core, reconnects by itself |
| WiFi applications (`df/boot.py`, `wifi_app.py`, `wifi_connector.py`, `network_status.py`) | stored credentials, name and status of the connection | connect at boot, choose, try and store, disconnect | the connection and the power go at any time; timeouts before late successes |
| Display driver (`c_modules/display`) | page, column and settings of the controller | clear, graphics, byte by byte, contrast | registers keep what the call before left; two-byte commands |
| Keypad and shift state (`keypad.py`, `keypad_map.py`, `object_handler.py:73-86`) | default, alpha or beta layer; the indicator | scan, change layer | two variables, always assigned together |
| App lifecycle (`app.py`, `app_runner.py`, `app_handler.py`) | name and group of the next application | run, fall back to home | two `App` objects exist (`object_handler.py:64-65`) |
| Scientific applications, TinyDB, legacy updater, rest of MicroPython | | | floating point, vendored or unreachable code |

**Interaction.** `main.py` runs `app_handler`, which runs one application at a
time; an application loops over `typer.start_typing()`, hands the key to its
widget (`update_buffer`) and has the uploader repaint. `start_typing` feeds the
watchdog on every key. The timer's interrupt puts the watchdog's callback into
the scheduler's ring, and the virtual machine runs it at its next poll, inside
whatever Python code is executing. Widgets, display and database objects are
globals (`object_handler.py`) shared by all applications. `boot.py` may start an
ESP-NOW receiver thread and the calculator starts more; they take turns with the
main thread by the GIL, while the WiFi and event tasks run on the other core and
share plain variables and the ring buffer with them. Every one of these threads
may trigger a collection, which walks the list of threads and all their stacks. A
soft reset ends the threads, then the timers, then the heap.

**What makes each part correct.** A widget: its display is what a complete redraw
would give, the cursor is on it, and the data is what a widget without display
would hold. The scheduler: one runner, nothing stranded, nothing reordered,
everything eventually run. The watchdog: always armed with the stored setting, an
idle device sleeps, a busy one does not. The installer: what is listed can be
run, what was offered arrives, once. A timer: each alarm runs the callback of the
configuration it was set for. Threads and collector: what is reachable, from a
thread in any state, is kept, everything else goes, no area or list node is used
after it was given back. ESP-NOW: messages whole, in order, once; answers about a
message are about that message. WiFi: what it says of itself is true.

## 2. The modules

`MC*.tla` instantiate modules for TLC, `*_proofs.tla` hold their proofs. Operators
that stand directly before a definition with the same parameters and are used by
nothing (`OneRowOnly`, `ForgetsNodes`, `NoScroll`, ...) are the mistakes the
properties are tried on.

### MenuBuffer, MenuSelector

State: `Menu`'s fields and the display, a row being an entry or blank, highlighted
or not. Actions: `Open`, `Update`/`Replace`, `KeyDown`, `KeyUp`, `KeyOther`, `Ok`,
`Back`; a key and its repaint are one step because one thread does both. Texts
and the state shown on page 7 are abstracted. `MenuSelector` is the promise: a
list, one highlighted entry, cyclic moves; nothing of windows or rows.

### TextBuffer, LineEditor

`text` is `text_buffer` without mark and padding, which `Cell` and `BufferSize`
compute as `buffer()` does. A key computes text, cursor, position and rows to
paint, and `Settle` is the rest of the loop in `calculate()`: start over when the
text is empty, `buffer()` with its `IndexError`, `refresh()`. What `eval()` gives
is any of `Results`. `LineEditor` is the promise: a line with a cursor.

### FormBuffer

Rows are labels and fields; `input_list` holds the fields' texts. `Edit` ends every
key in a field with `rstrip() + " "`; Python's slices are `Slice`, which matters
because the cursor may be beyond the text. `PositionTyped` is the closed form of
the loop over the characters of a key. `Settle` models `sleep_after`'s removal of
its message, an `update()` that overrides where the key went; applications without
that message are the other disjunct. `OpenForm` keeps the cursor and the scroll
position of the application before, as `Form.update()` does. (Fields of `Form` that
`Menu` has under the same name are called `form_...`.)

### Scheduler, CallbackQueue

As configured for esp32: threads with a GIL, a ring of `Depth` callbacks, static C
nodes. Each atomic section is one step. `SeePending` is the unprotected read in
`mp_handle_pending`, `LockAndRun`/`GiveUp` the section that tests again;
`NodeReturns`, `PythonReturns` and `UnlockAfterRun` are the rest of
`mp_sched_run_pending`. `ext_locks` counts the locks taken by interrupt handlers
and finalisers. `mp_init` is a soft reset, which empties the ring and keeps the
linked nodes. It is one step, though the code has no atomic section around it: a
callback that an interrupt schedules between its writes is discarded like one before it,
and may leave the state pending with nothing waiting until the next poll.
`CallbackQueue` is the promise: a bounded FIFO queue whose refusals
are reported.

### SleepWatchdog

`pc` follows the main thread from `boot.py` through `start_typing` (scan, pressed,
fed), an application and, for "ok" in `sleep_after`, the two steps of
`update_sleep_time`. Timer, interrupt and scheduled callback are actions of their
own, so that every overtaking happens. `queued = "stale"` marks a timeout that was
scheduled before the last feed; `Polled` says that Python code which polls does
not end before it has run. `Reset` may happen at any moment and keeps only the
file.

### AppInstaller

Each of the five operations is an action, `download_app` two (the file is opened, then
closed). `OperationRaises`, `Back` and `Crash` may come between any two, and the answer
to a confirmation may be lost after the server acted. Two database objects over one file
are `listed` and `query_cache`. External and assumed: the server hands out the oldest
pending app and its answers have both fields. littlefs makes a new file's entry when it
is opened and commits a file's content when it is closed (`OpenForWriting`). A write
that fails leaves the file open; its finaliser closes it at a later collection
(`extmod/vfs_lfsx_file.c:93-95`), but littlefs commits nothing of a file with an error
(`lfs2.c:3431-3434`). (An answer without the field `code`, excluded above, would raise
without that mark, and the empty file would be committed.) The database handle of the
menu is opened at boot (`object_handler.py:70`) and may show older content than
`query_cache` has.

### MachineTimer

Configuring a timer is a sequence of register writes, each a step, between which
the alarm may fire and its interrupt run; the scheduler is `CallbackQueue`, by its
promise. `due` remembers the configuration an alarm belonged to. The soft reset
walks the list with `NextTimer` and then empties the queue (`Rebooted`). External:
the timer group (an armed, running counter fires at some time).

### ThreadPort

One action per section between two lock operations of `mp_thread_create_ex`,
`thread_entry`, `freertos_entry`, `mp_thread_gc_others`, `gc_collect` and the soft
reset. List nodes are cells of the heap that the sweep may free; task handles are
used again after a task is gone. Finalisers of this port are C functions that keep
the GIL, so nothing runs between the walk and the sweep but threads that need no
GIL. The nodes a walk over the list visits are `After(thread)`, the least set that
holds the first node and, with a node, the next one.

### GcMark, GcHeap, GcArea

The collector in three parts that share no state. `GcMark`: one collection over any
graph of chunks, with a mark stack that may overflow, then finalisers and sweep.
`GcHeap`: the allocation tables, search positions and list of areas under allocation,
resizing, freeing, collection with any set of survivors, growth and soft reset. A
finaliser in `GcMark` frees unmarked chunks only: a marked one belongs to somebody else
(`gc_free` would take it, `gc.c:951-952`). `GcArea`: the arithmetic of table sizes and
of how much to ask the system for, in full width.

### RingBuf, ByteQueue

Each side reads the other's index once, copies with one or two `memcpy` calls,
stores its own index last: each is a step. `ByteQueue` is the promise: a bounded
FIFO of bytes with blocks put and got as a whole. Assumed: stores are seen in
program order (memcpy before the index), as on the esp32-s3's cores.

### EspNow, EspNowSend

Reception uses the ring by the promise of `ByteQueue`; the callback stores a packet
with three puts, a receiver takes it with three gets, and `espnow.py` copies out of
its static buffer afterwards. Sending has the shared counters, the wait that
releases the GIL, retries, timeouts, peers that come and go. External: the library
serialises its callbacks with their unregistering, responses may be lost. Left out:
`msg->len += msg->free` when a larger buffer is given (`modespnow.c:414-417`), which
changes the capacity of that buffer only.

### WlanSta

The calling Python thread, the event task and the driver interleave at every read
and write of a shared flag. External, from how the code uses it: the driver accepts
`esp_wifi_connect` only when idle, refuses a configuration while it connects, posts
events in order. `reconnects` keeps its width (`Width` values), and the settings
include the one that comes round to 0. History: `asked`, `tries`, and `around`, that
the counter itself has come round.

### WifiApps

The four applications above the station; `MenuBuffer`'s proved `CursorInWindow` gives
the windows a list may be scrolled to, and `Chosen` the entry that is then taken.
`untested` is history: the networks last stored without an attempt. An exception that
nothing catches is the state `stopped`.

### St7565

The controller is a record, its memory and registers, that commands and bytes of data
change. Calls keep the GIL: a call is one step, except that `graphics()` and
`clear_display()` go through their loops, `StartRow` setting the address, `WriteByte`
sending one byte, `EndRow` and `Return`. `picture` and `cursor` are history: what the
calls so far have asked for, written down when a call begins, so that the memory can be
compared with them when it has returned. Arguments are any integers: they are cut to
bytes (`U8`) where the code's parameters are `uint8_t`, and `Accepted` compares the
buffer's length with their product as an int. Pages, columns and rectangles off the
display are drawn as the code does; history then marks what they leave as `Unknown`.

## 3. The runs

Components of one area are checked in one run. A module puts them together, each with
constants and variables of its own, its assumptions and its properties under the names
that the run and the theorems share: `Network` (installer, ring, ESP-NOW), `Settings`
(watchdog, station, WiFi applications), `Input` (form, input line), `Callbacks`
(scheduler, timers) and `Display` (menu, display driver). The MC module extends it by a
variable `part` that never changes and says which component a behaviour is about; the
others stay as they are initially, and fairness speaks of the running part only. So a
run is the union of the state spaces of its parts.

| Run | Distinct states | Shows |
|---|---|---|
| `input` | 286 585 | `MenuBuffer` (`ScreenFaithful`, `SelectorSpec`): partial repainting equals a complete redraw, and the menu implements `MenuSelector`. `FormBuffer` (`FormFaithful`, `CursorStaysInField`): the selected row is shown; every row shows its present text, except for cells behind a row of 19 or 20 characters, which nothing paints; the cursor leaves its text only when a typed blank is stripped. `TextBuffer` (`TextFaithful`, `CursorStaysShown`, `EditorSpec`): the display is right except for rows of nothing but typed blanks, of which only the first cell is wiped; no key but "ans" moves the cursor off the display; the text is that of `LineEditor`. `St7565` (`DriverCorrect`): between two calls the display shows what the calls have specified: `graphics()` and `clear_display()` change exactly their rectangle, `write_data()` its cell; a buffer accepted with sizes that are not negative, and whose product is an int, is not read beyond its end |
| `text_filled` | violation | Finding 3 |
| `scheduler` | 140 761 | `Scheduler` (`OneRunner`, `PendingExact`, `NodesLinkedOnce`, `QueueSpec`, `EverythingRuns`): one runner, unlocked means pending exactly when something waits, nodes linked once, the ring is a FIFO queue; every accepted callback runs or is discarded by a soft reset, every C node runs over any number of them. `MachineTimer` (`TimersSound`, `TimersServe`): no alarm runs the callback of a later configuration, no interrupt is left without its timer, with deinit, failing init and soft reset anywhere; an armed timer's callback runs unless the timer is stopped or the queue is full; a periodic timer goes on |
| `settings` | 411 698 | `SleepWatchdog` (`NeverSilentlyDisarmed`, `SettingInForce`, `TimeoutIsDue`, `IdleSleeps`): never awake without a watchdog but for an exception in `start_typing` or a setting the timer rejects; file, watchdog and timer agree outside of `update_sleep_time`; a timeout that meets a waiting user is due; an idle device sleeps. `WlanSta` (`StationInv`, `ActiveEnds`): `isconnected()` and `active()` are right once the events are handled; at most as many retries as asked for, unless the setting or the counter has come round in its byte; `active()` returns. `WifiApps` (`AppsInv`, `StoredWorked`): a network is stored once, and its password is the right one, unless it was stored without an attempt; what an attempt stores is what the station is connected with |
| `sleep_wrong_input` | violation | Finding 1 |
| `wifi_connected_to` | violation | Finding 5 |
| `network` | 204 961 | `AppInstaller` (`ListedAppsRun`, `NothingLost`): listed apps are complete, offered apps are not lost. `RingBuf` (`RingStable`, `IsByteQueue`): neither side disturbs the other; together they are a `ByteQueue`. `EspNow` (`PacketsInOrder`, `RadioProgress`): packets are stored whole; up to the first buffer error they are taken in order, each once, and a stored message is taken. `EspNowSend` (`SendCounts`, `ResultIsTrue`, `RadioProgress`): counters balance; True means received, whatever was sent before, lost or late; of a lone sender False means missed, and its send ends |
| `installer_menu` | violation | Finding 2 |
| `gc_mark` | 1 063 204 | `GcMark` (`MarkedIsReachable`, `FinalisersOfGarbage`, `CollectionEnds`): marked means reachable, with overflows of the mark stack; finalisers run for garbage only; the walks that follow an overflow, and overflow themselves, end. `GcArea` (`RequestFits`): an area that was added has room for the request it was added for |
| `gc_heap` | 576 058 | `HeapConsistent`, `SearchComplete`: tables are chunks, no free block before the search position, the sweep reaches every block, an allocation fails only when nothing fits, areas are linked exactly once |
| `gc_heap_area` | violation | Finding 4 |
| `threads` | 74 496 | `ListSafe`, `LocksSafe`, `ThreadsProgress`: no list node or argument is used after it was freed, every live stack is traced, the list names live tasks only, one thread in Python, both locks survive a soft reset; a new thread runs, a finished one goes, a collection gets past the list |

A property that names several facts about one component (`HeapConsistent`, `ListSafe`,
`PacketsInOrder`, ...) is the conjunction of invariants that are defined, each with its
comment, next to it. Type correctness of menu, scheduler, watchdog, installer and
marking, and the invariants `CursorInWindow`, `FailsOnlyWhenEmpty`, `LockCount`,
`RunWillEnd`, `ListedOnce` and `TablesFit`, are proved (section 4) and not checked again
by the runs.

**Bounds.**
- Menu: three rows; the code compares the cursor only with the window and the
  length, and lists of 0 to 6 entries have every relation to three rows. Display: two
  pages of two columns and a hidden one, half bytes of two values so that a column
  needs both halves and sizes are cut to less than 4. Places of -1, 0, 1, 2 and 4 and
  sizes of -1, 0, 1, 2 and 5: on the display, off it, negative, too large for a byte,
  and with an int of 9 values (`Word`) 5 * 2 overflows; buffers of 0 to 7 bytes. Loops
  begin on pictures of one colour, all specified or not at all, at two addresses, which
  is enough because no loop reads the display or the address.
- Text: two rows of two, texts of up to seven characters, so up to four rows and
  scrolling by two; words of one and three characters cross a row, and a result of
  five is longer than the display. Three rows and nine characters (94 117 states)
  give the same results.
- Form: two rows of six, so fields of four cells: texts of one (padded), two and
  three (not padded), four (full) and five (scrolled). Forms of one, three and four
  rows. `MaxText` and `MaxCursor` are needed because a cursor that has left its
  text grows without bound.
- Scheduler: a ring of two fills and wraps; two threads, two callbacks of each
  kind; one lock besides the runner's (with two, overlapping locks could keep the
  scheduler locked for ever, which no code does). Timers: two timers and one callback
  or one timer and two, a ring that fills.
- Sleep: words of four bits and minutes of two ticks, so that a time too small
  for a word, one that never comes, zero, the smallest, the largest and too large a
  time are all entries. `MaxIdle` saturates the clock above the longest alarm.
- Station: bytes of 4 values, so that up to two retries fit and three come round to
  "for ever"; two events in flight, which take a counter at its limit round as well.
  WiFi applications: two networks and one row, so that the list scrolls, two passwords.
- Installer: four offers of three apps, so that one is offered again after its
  installation or during it.
- Ring: four bytes and blocks of up to three: full, empty, wrapped at each place.
  ESP-NOW: header, address and data scaled to 2, 1 and 2 bytes with the sums the code
  compares in proportion; two packets, three receivers. Sending: two threads with one
  peer and two sends, one thread with two peers and five sends; one lost response.
- `gc_mark`: a mark stack of one. Heaps of up to four chunks, at most one of them with
  two pointers and the others with one at most, where an overflow happens once; and full
  heaps of five, two of them with two pointers and the others with none, where the
  second walk overflows again and is repeated. Finalisers: the first and the third
  chunk. Area sizes in full width: every 371st request up to 200 000 bytes (a stride
  prime to the block size) against system blocks up to 4 MB.
- `gc_heap`: two areas of two table bytes of two blocks, requests up to three blocks:
  requests that fit in no hole, in the second area only, and not at all.
- `threads`: two threads besides the main one and three list nodes, so that a thread
  is created while two others are still ending.

No symmetry is used. Deadlock is checked in every run; in `gc_mark` the heap stops
growing at its bound, which is a step that changes nothing.

**Fairness.** Scheduler: callbacks return, locks are released (weak fairness), and
the VM polls at every backward branch and return (`py/vm.c:1314-1345`): if the
scheduler is unlocked and pending again and again, some thread sees it and some
thread gets to run it (strong fairness of the two steps, for some thread, not for
each one; weak fairness would let an interrupt handler's lock fall on every poll).
Timers: an armed alarm fires, the interrupt is served, the main thread goes on
(weak), and the scheduler, free again and again, runs what waits (strong).
Sleep: the clock advances, the interrupt is served, the scheduled callback runs,
since the waiting key loop is Python code that polls. Station: the event task and the
caller go on; the GIL comes back (strong). Threads: tasks go on; a lock that is free
again and again is taken (strong: FreeRTOS serves tasks of one priority in order of
arrival, all Python tasks have one priority and one core, and the VM gives the GIL up
every 32 jumps). Marking: the collector goes on. ESP-NOW: callback and receivers go
on; a waiting sender gets the GIL again and again (strong). Nothing is assumed of
users, resets or the network.

## 4. What is proved

TLAPS checks these for every value of the constants, under the assumptions named
in the modules.

- **Menu** (`MenuBuffer_proofs`): type correctness, `ScreenFaithful`,
  `CursorInWindow`, `FailsOnlyWhenEmpty`, and the refinement of `MenuSelector`. The
  invariant joins the positions with the display: the screen is faithful after a
  two-row repaint only if the window did not move and the old highlight was in it.
- **Display driver** (`MenuBuffer_proofs`): `DriverCorrect`, for half bytes of any
  number h of values, displays of at most h * h columns and h pages, any width of an int
  that counts the display's bytes (`DisplayAssumption`), and calls with any integers.
  Single commands first: the two halves give the column asked for whatever the register
  held, by unique division, and a contrast closes what it opens. The invariant then says
  which cells of a rectangle are still to be written and that the registers are at the
  first of them; every other cell shows the picture already, so nothing is left when the
  loops end. That no byte is read behind the buffer follows from the sizes as bytes being
  at most the sizes given.
- **Scheduler** (`Scheduler_proofs`): `TypeOK`, `OneRunner`, `LockCount`,
  `PendingExact`, `RunWillEnd`, `NodesLinkedOnce`, for any depth, number of threads,
  nodes and callbacks, and the refinement of `CallbackQueue`. The first five are
  inductive together and not alone: one runner follows from the lock count, the count
  from the runner being the one that locked, exactness from both. The refinement maps
  the ring with its masked index to a sequence; a step of the runner that takes a
  callback is the step of the queue.
- **Timers** (`Scheduler_proofs`): `TimersSound`, for any set of timers that `None` is
  not one of.
- **Sleep watchdog** (`Settings_proofs`): `TypeOK`, `NeverSilentlyDisarmed`,
  `SettingInForce`, `TimeoutIsDue`, for any word size, setting and entries.
  Strengthened by what a running timer counts down (also between the two steps of
  an update) and by where a fresh and a stale timeout may wait.
- **WiFi applications** (`Settings_proofs`): `AppsInv` for every finite set of networks,
  and `StoredWorked`. The invariant adds that a connected station has the right password
  of the network it is configured for, and, between `do_connect` and what follows, that
  this is the one chosen unless nothing was tried.
- **Station** (`Settings_proofs`): `StationInv` for every width and every setting, those
  that come round included. The counter is tied to the decisions made: while it has not
  come round, `tries` is at most the counter, and a decision needs the counter below the
  setting. `RetriesWithRoom` shows in addition that neither exception is met with settings
  that leave room in the counter for the losses in flight (`RoomToCount`).
- **App installer** (`Network_proofs`): `TypeOK`, `ListedAppsRun`, `NothingLost`,
  `ListedOnce`, for any number of offers of any apps shipped. Strengthened by what each
  operation number implies of the file and the list, and by the oldest pending app being
  the one in work.
- **Form** (`Input_proofs`): `SelectionShown`, `FormFaithful` and `CursorStaysInField`,
  for any size of the display and forms that start with a label and show no field
  twice. `FormFaithful` is inductive row by row: a row in `refresh_rows` is painted and
  right, any other has kept its place and its text, because the field a key edits is in
  no second row. `CursorStaysInField` needs that texts given by the applications end in
  at most one blank (`TextsTrimmed`): what `rstrip()` takes away is then what the key
  itself has put there.
- **Input line** (`Input_proofs`): `TextFaithful`, `CursorStaysShown` and the refinement
  of `LineEditor`, for any size of the display, words and results that are texts, and an
  end mark that is no blank (`LineAssumption`); `CursorStaysShown` for two rows at
  least, for a deletion on a one-row display may scroll past the cursor (the
  calculator's has 7). `refresh()` wipes only the first cell of a blank row, so that the
  invariant has to say why the others are dark: rows behind the end mark always were,
  for a text shrinks by one character at a time, and a scrolled display never ends more
  than a row behind the mark.
- **Ring buffer** (`Network_proofs`): `RingStable` and the refinement of `ByteQueue`, for
  every size and every set of bytes. The invariant adds where each side is in its copy:
  a copy to the end of the ring is begun only if the block reaches it, and the slots one
  side copies are outside of what the other may touch.
- **ESP-NOW reception** (`Network_proofs`): `PacketsInOrder`, for any receivers, messages,
  lengths of header and address and size of the ring (a header has room for its magic
  byte and the length). The invariant numbers the bytes of all accepted packets
  (`Chain`: each packet begins where the one before it ends or later) and says that the
  ring holds the bytes between what has been read and what has been put, so that a
  receiver that found a header finds the rest of this packet, and not of another one.
- **ESP-NOW sending** (`Network_proofs`): `SendCounts` and `ResultIsTrue`, for any finite
  sets of threads and peers. The responses due are a set with one element for each, so
  that their number is a cardinality and no sum. The invariant counts the packet that is
  accepted and not yet counted by the thread that holds the GIL; a call that missed a
  recipient will find a failure counted since it began or a response that never comes;
  and a lone sender finds no responses of other calls, for its wait before sending has
  seen all of them.
- **Collector** (`GcMark_proofs`): `TypeOK`, `MarkedIsReachable` and
  `FinalisersOfGarbage`, for every heap and every size of the mark stack, zero included:
  the sweep begins with exactly the reachable chunks marked. The invariant says that a
  marked chunk has only marked successors, or waits on the stack or in hand, or an
  overflow is recorded that the second walk has not passed yet; and that the same holds
  of the roots.
- **Heap** (`GcHeap_proofs`): `HeapConsistent` and `SearchComplete`, for any number and
  size of areas, any requests, and two blocks or more to a table byte (the code has
  four). The invariant is stated area by area, as facts about one table and the sizes of
  the chunks in it (chunks are whole and apart, no tail without its head, no block in
  use behind the last one), so that an action has to be looked at only in the area it
  changes; a request under way adds which areas it has found full. `OldInv` says that an
  area given back to the system is as a fresh one when it returns.
- **Heap areas** (`GcMark_proofs`): `TablesFit` and `RequestFits` for requests and
  areas of every size, by bounding the two divisions.
- **Threads** (`ThreadPort_proofs`): `ListSafe` and `LocksSafe`, for any number of tasks
  and list nodes. That the list is finite and free of cycles is not needed: what a walk
  visits is the least closed set, and removing a node or putting one in front changes
  that set by this node, which follows from its being the least.

Only model-checked: liveness (`EverythingRuns`, `TimersServe`, `IdleSleeps`, `ActiveEnds`,
`RadioProgress`, `CollectionEnds`, `ThreadsProgress`), which is out of the prover's reach.
Every invariant that a run checks is proved as well.

## 5. Findings

1. **A rejected setting is stored** (`sleep_wrong_input`). `sleep_after` answers
   "wrong input" for an entry such as -40000, but `update_sleep_time` has written
   the file before `timer.init()` raises `OverflowError`, with the timer already
   disabled. From then on no key arrives (`start_typing` returns None) and the next
   boot fails while importing `sleeping_features`.
2. **The list of installed apps is not current** (`installer_menu`). `get_group_apps`
   is commented "read current apps", but answers from the query cache of another
   database object than the one that inserts.
3. **Backspace can end the calculator** (`text_filled`). With the cursor on the first
   shown cell and the end mark first in the last shown row, "nav_b" scrolls twice,
   the position becomes negative and `buffer()` raises.
4. **An area in use is freed** (`gc_heap_area`). The sweep gives an area back to the
   system when `last_used_block` is 0 after it (`py/gc.c:661`, "Free any empty area");
   it is 0 as well when the one chunk left lies at block 0, which is then used after
   its memory was returned.
5. **"Connected to:" names another network** (`wifi_connected_to`). `do_connect` returns
   at once when the station is connected to any network (`wifi_connector.py:127`). The
   page then names the network that was chosen (lines 36-37), and line 105 stores its
   password, which nothing has tried; at the next boot `boot.py` tries it.

Observed while modelling; the models contain these behaviours and the properties are
worded around them:

- Forms and text: the ghost cursor behind rows of 19 or 20 characters, the wandering
  cursor after a stripped blank, the message that stays visible, stale cells in rows
  of typed blanks, a result longer than the display that leaves the cursor off it.
- Sleep: a setting of zero minutes; a key at the last moment that is followed by sleep.
- Timers: an alarm that finds the scheduler's ring full is lost, because the handler does
  not look at the answer of `mp_sched_schedule` (`machine_timer.c:159`); for a one-shot
  timer, such as the watchdog's, nothing repeats it. `TimersServe` excepts it.
- Collector: `gc_realloc` stores an exclusive end in `gc_last_used_block` where
  `gc_alloc` stores an inclusive one (`gc.c:1127`), past the last block of a full area;
  a filled area is searched again.
- ESP-NOW reception: a receiver that polls between the callback's three puts raises a
  buffer error and drops the rest (`modespnow.c:433-438`); the second of two full-size
  packets is dropped, for a ring of n bytes holds n - 1; a closed chat takes one more
  message; two receivers share `espnow.py`'s static list, and `recv()` may return the
  sender of one message with the text of another.
- ESP-NOW sending: with two sending threads the failure of one message is reported for
  the other; `active(False)` by another thread makes a waiting `send` return True.
- WiFi station: a failure handled before `connect()` has set its flag is not retried
  (`network_wlan.c:345`); the event task may associate again after `disconnect()`
  (`network_wlan.c:139`); a refused `connect()` raises without the GIL
  (`network_wlan.c:343`); `reconnects=255` is stored as "for ever" (`network_wlan.c:599`),
  and with 254 losses still to be handled may take the counter round (both with a
  byte of 4 values in the run).
- WiFi applications: in a scrolled list another network than the highlighted one is
  taken (`wifi_app.py:25`); the page "status" names the network that was looked at last;
  a failed attempt ends the application at the next scan or connect
  (`wifi_connector.py:130`).
- Display: with a negative width and a negative number of pages, or a product that
  overflows, the size check passes and the loops read beyond the buffer
  (`modst7565.c:98`); sizes and places are cut to bytes, so that width 256 draws nothing
  and page -1 is page 15, which the display has not.

## 6. Plan

Done: menu, scheduler, sleep watchdog, installer, text and form input, ring buffer,
ESP-NOW, collector, threads, timers, WiFi station and applications, display driver.
Next:

1. **Pending exceptions** of the scheduler and keyboard interrupts.

## 7. Not modelled

- Keypad layers and app lifecycle: one thread assigns two variables together
  (`keypad_state_manager`), and the next application is a pair of names that
  `app_runner` reads and clears. The models take the key and the application as inputs.
- The scientific applications: floating point numerics around the form and menu loops.
- TinyDB, vendored: `AppInstaller` has its query cache, `SleepWatchdog` its file.
- The legacy updater, which no menu reaches.
- The rest of MicroPython (compiler, virtual machine, types, network stacks, other
  ports and their libraries): vendored, and by far most of the repository's lines.
