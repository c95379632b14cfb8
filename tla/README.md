# courgette: models, checks and proofs

Courgette is Zephyr firmware for an STM32H747I-DISCO board and the Python
programs on the host that talk to it over a serial line: framed commands to a
device that executes them one at a time, while a few small threads run beside.
This directory holds TLA+ modules translated from the source, the TLC
configurations that check them on small instances, and proofs that TLAPS
checks. `PROJECT.json` maps every definition to the lines it models, names
what can break each property (mutants) and lists the hazards, findings and
theorems.

    tlc -workers 2 -config MCSerialRx.cfg MCSerialRx      # any run
    tlapm SerialProofs.tla                                # any proof module

## 1. The system

| Component | State it keeps | Operations | What makes it correct |
|---|---|---|---|
| ring buffer (`lib/util/ring_buffer.c`) | `buf`, `size`, `head`, `tail` | init, write, read, peek, consume | a bounded queue; one slot stays free; safe for one reader and one writer with no lock |
| serial receive (`app/src/platform/serial_async.c`, `proto_task.c`) | `rx_rb` | receive half of `uart_isr`; `proto_thread`'s read loop | bytes reach the parser once, in order; loss only when the ring is full |
| serial transmit (`serial_async.c`) | `tx_rb`, `tx_mutex`, the TX interrupt, the UART's FIFO | `platform_serial_write`, transmit half of `uart_isr`, polled path | whole frames on the line, in the order of the mutex, none of their bytes left behind |
| stream parser (`lib/protocol/protocol.c`) | `proto_stream_t`, the static `pbuf` | `proto_stream_feed` byte by byte, `proto_encode` | handlers see what one intact frame carried and nothing else; noise is skipped |
| commands over the link (`tests/pytest/fixtures/protocol.py`, `on_msg`) | the host's attempt and deadline; the lines' contents | `send_cmd` with retries; `on_msg` and `cmd_dispatch` | a call returns with the answer to itself, after its handler ran; commands are handled in order, a retry never after a later one |
| SD format and mount (`cmd_sd.c`, `sd_ops.c`) | `s_sd_fmt_busy`, the mount, `SD_MOUNT_POINT`, the open file | `SD.Format` (a thread), every other SD command (in `proto`) | one format at a time, which leaves the card mounted; an operation fails only for a reason |
| file operations (`sd_ops.c`) | files and directories on the card | list, read, write, rename, delete, mkdir, stat, checksum, fill | a write at an offset leaves the rest alone; a repeated write changes nothing |
| doom task (`doom_task.c`) | `doom_state`, `doom_ticks`, a thread | start, stop, status | the state reported is true; one thread at a time; a stop is not lost |
| command table and simple commands (`lib/cmd/*.c`, `on_msg`) | the table of handlers; `g_rsp_buf`, which all share | register, dispatch; echo, version, reboot, mem read and write | every command has its documented effect and answer, none of an earlier one's; a memory range is refused unless all of it is in bounds |
| display (`cmd_display.c`, `drivers/display.c`) | geometry and format found at boot, the panel | info, fill, read, id, blank on and off, diag | a fill covers every pixel once, whatever the width of a row; what is read is what was painted |
| status LEDs (`heartbeat.c`, `error_indicator.c`, `activity_led.c`) | `err_mask`, two pins, a timer | the two threads' loops; add; pulse | an error code can be counted; the activity LED goes out; the board shows that it lives |
| boot and tick (`main.c`, `proto_task.c`) | which threads and objects exist | initialisation in order; `[READY]`; a LOG frame a second | nothing is used before it is there, with or without UART and panel |
| fatal handler, buffer pool | - | a last LOG frame; (never called) | - |

How they interact: the UART interrupt and `proto_thread` share `rx_rb` with no
lock. `proto_thread` feeds the parser, whose callback `on_msg` runs the handler
and writes its answer, all on the one thread, so commands are served one at a
time. The threads `proto`, `tick` and, in debug builds, `sd_fmt` write frames
and share `tx_mutex`; the ring `tx_rb` behind it is shared with the interrupt
under `irq_lock`. `sd_fmt` and `proto` share the mount, the mount point and
the card with no lock, only the atomic flag `s_sd_fmt_busy`. `doom` and
`proto` share two atomics. `heartbeat` and `err_led` write the same pin and
share `err_mask` under a mutex. All threads have the lowest application
priority, except `main` during boot.

What is hard here: an interrupt in the middle of an unlocked copy; an interrupt
disabled by one side and enabled by the other; a parser that must find frames
again; a protocol with retries and no sequence numbers; a format that runs
beside other commands; thread objects that are reused. `PROJECT.json` lists
each hazard at its line.

## 2. Modules

    RingBuffer ----------+--> SerialRx ---> MCSerialRx          LossyFifo (abstract)
        |                +--> SerialTx ---> MCSerialTx
        |                \--- both ------> SerialProofs <-- RingBufferProofs
    StreamParser ---> HostDecode ---> MCStreamParser, HostDecodeProofs
    HostLink ---> MCHostLink, HostLinkProofs                    AtLeastOnce (abstract)
    SdFormat ---> MCSdFormat, SdFormatProofs
    SdCard ---> SdFiles ---> MCSdFiles, SdFilesProofs           FileStore (abstract)
    DoomTask ---> MCDoomTask
        \---(instance)---\
    Memory ---> Device ---> Commands ---> MCCommands, CommandsProofs    Board (abstract)
    StatusLeds ---> Startup ---> MCStartup, StartupProofs

**RingBuffer** - the operations as operators on a record with the fields of
`rb_t`, and `RbContents`, the queue a ring stands for.

**SerialRx** - `RxIsr` is one step, since nothing interrupts the ISR.
`rb_read` is cut where the ISR can see a difference: the load of a byte
(`ReadLoad`) and the store of `tail` (`ReadAdvance`) are two steps per byte,
and `to_read` is computed once, in `ReadBegin`. `Feed` is the return from
`proto_stream_feed`, with the handlers it called. **LossyFifo** is what the
path promises: arrive or be lost when full, deliver in order.

**SerialTx** - each section under `irq_lock` in `platform_serial_write` and
`uart_isr` is a step: `Enqueue`, `Prime` and `Enable` are the thread's,
`IsrFill`, `IsrEmpty` and `IsrFifoFull` the ISR's alternatives at its loop.
`Shift` is the UART's transmitter. The thread steps only outside the ISR; the
ISR may start between any two steps. `Prime` may do nothing although the FIFO
has room: drivers differ in what `uart_irq_tx_ready` says while the interrupt
is off. Frames of `2 * TX_BUF_SZ` bytes or more take `DrainWait`, `DrainEnd`,
`PollOut`. `DrainWait` stands for one sleep of 1 ms, in which the UART sends at
least one byte (at 115200 baud it sends eleven). After `MaxSpins` of them
`DrainEnd` turns the interrupt off whatever is left in `tx_rb`; three history
variables keep what the properties need to know of that: `backlog`, the most
bytes a polled frame has found pending, `overtook`, and `stranded`, which lasts
until the next frame through `tx_rb` enables the interrupt again.

**StreamParser** - one action per branch of the `switch` in
`proto_stream_feed`. A header field is one symbol whatever its width; the
checksum is a parameter; `magic_acc` keeps its meaning, a shift register of
the last four bytes. `Reference` is what a reading of the whole line would
deliver, the definition the parser is held against. **HostDecode** is the other reader of the same format:
`decode_stream`, which searches the host's whole buffer again after each read.

**HostLink** - `Send`, `Retry`, `Return` and `Raise` are the paths through
`send_cmd`; a frame on the line is the index of the command it belongs to,
which neither side can see: `Accepts` compares ids, as line 70 does. `Return`
drops any number of frames behind the accepted one, since `read(256)` may have
put them in the same local buffer. `OnMsg` handles and answers, and for most
commands that is their execution. `SD.Format` is not (`Deferred`): `h_format`
starts a thread or finds one under way, returns 0 either way (`cmd_sd.c:127`),
and the work ends in `DeferredEnd`, however many later commands have been
served by then. `Lose` is a request the device's receive path dropped.
**AtLeastOnce** is what a caller may expect: call, handle once or more, return,
in order; but what is done later may be done after, and undo, what came after.

**SdFormat** - a step is a call that may block and the code up to the next.
`TryMount`, with `ensure_disk_ready`, runs in either thread (`goal` says where
its caller goes on). The SD commands are three kinds: status, one call on a
path, a loop on an open file. Nothing is assumed of the host: `proto` may have
several requests waiting in `rx_rb` (a retry, or a call that has raised, leaves
them there), so `fs_unmount` may come at any point of another command. A file
of a mount that is gone is `dangling`, and the file system refuses its use. The
result of `fs_unmount` is ignored (`sd_ops.c:1055`), so it may also have failed.

**SdFiles** - the other SD commands on a mounted card, one request after the
other as `proto` serves them. `Receive` is the handler up to its call of
`sd_ops`; then each call into the file system is a step, which may fail, and a
read or a write may be cut short; `Reply` is the handler's return and
`on_msg`'s answer. `RawRead` reads a sector past the file system, mounted or
not, one whatever number is asked for. The buffers `rsp` and `sd_dma_buf` start every command full
of `Junk`, which stands for whatever earlier commands left in them. **SdCard**
has the requests and the files, **FileStore** what a caller may expect: exactly
the effect and answer of docs/PROTOCOL.md, or a failure that harms only the
command's own file in the ways `Damage` lists. The file system itself is
external. The code relies on four properties of Zephyr's FAT driver, which the
model takes over: a file on which a call failed refuses later calls; a seek
past the end fails; a read is short only if it wants to be, and empty only at
the end; a rename first removes what stands at the new name.

**DoomTask** - each access to `doom_state` is a step, in the thread and in the
two handlers.

**Commands** - the thread `proto` with one request after the other: `Receive`
is `cmd_dispatch`'s search, an action per handler follows, `Reply` is the rest of
`on_msg`. `rsp` and `rsp_len` are the buffer and the length all handlers share;
what an earlier command left in the buffer is `Stale`. `display_fill_rgb` is one
step per call of the panel's driver, `at` its two loop variables. `doom_task_start`
and `doom_task_stop` are DoomTask's actions, instantiated, and its thread runs
beside all commands. A reboot switches everything off and goes through
`display_init` and the white screen to the messages of `main`. **Device** has the
requests and what they act on, **Memory** the ranges `mem.c` allows. **Board** is
what a host may expect: a request is carried out at once, on sets of addresses
and of pixels, or answered with an empty frame, with the effect and the answer of
docs/PROTOCOL.md except in four places, in which the program does something else
and Board, to be of use, says what (section 4): the answer to a fill (`Fill`), the
layout of `Disp.Info` (`Info`), the order of the bytes of an RGB888 pixel
(`Native`), and reads of a panel that is not ready or beyond the panel
(`ReadRect`).

`display_read_rect` asks only for a device, which `display_init` sets before it
asks whether that is ready, and for what the wrapped size says. `DriverReads` is
then the driver's part: a ready one reads if it has a read function (`can_read`),
one that is not may do anything. A wrapped size passes the comparison of
`cmd_display.c:71`; if the driver then reads, what is written goes past `g_rsp_buf`,
which has no meaning in C. The model goes to the label `lost`, where it stays, and no
property says anything of what follows; `PanelReadsFit` says which requests cannot
lead there.

**StatusLeds** - `heartbeat_entry`, `err_task` from one sleep to the next, the
two calls of `activity_led_pulse` apart, and the timer, which may expire between
them. Time passes in units of 50 ms, when everybody sleeps. **Startup** is `main`
beside them, call by call; what it calls may block in the serial driver or the
panel's, and then the threads it has created run.

The modules named MC... instantiate these for TLC; ...Proofs hold theorems.

## 3. Runs

| Run | States | What it asks |
|---|---|---|
| `serial_rx` | 7,810 | Does the unlocked copy loop lose, repeat, reorder or overwrite an accepted byte? Implements LossyFifo; every accepted byte is fed. |
| `serial_tx` | 45,948 | Do whole frames reach the line in mutex order, with nothing left in `tx_rb` with the interrupt off, until a polled frame gives up waiting? When may it, and what holds afterwards? Is every byte sent? |
| `stream_parser` | 680,413 | Is what the parser delivers what a whole-string reading of the line finds? Does the host's decoder find the same frame, and keep what it has found when more bytes come in? |
| `host_link` | 5,877 | Does `send_cmd` implement at-least-once calls if no id follows itself, with formats that are carried out later? |
| `host_link_stale` | violation | And if two writes follow each other? |
| `sd_format` | 14,626 | Does a format that succeeds leave a mounted card, does a command beside it fail only for a reason, and do formats end and not overlap? |
| `sd_format_sync` | violation | Does no command use the card while `fs_mkfs` rewrites it? |
| `sd_files` | 114,941 | Does each SD command have its documented effect and answer, or fail with bounded damage? Is a repetition harmless, every file closed, every request answered? |
| `commands` | 131,025 | Do the commands other than SD's implement the abstract Board, with the doom thread beside them? Which rectangles are safe to read? Is a status true, does a stop reach the thread, is every request answered? |
| `doom_restart` | violation | Is a thread only created when there is none, if the host starts right after a stop? |
| `startup` | 61,859 | Does boot let anything be used before it is there? Can an error code be counted, does the activity LED go out, does led0 keep changing? |
| `led_clash` | violation | Does a blink of the error LED stay on for its 150 ms? |

Bounds, and why they are enough:

- `serial_rx`: a ring of 4 (3 usable), chunks of 1 to 3, reads of up to 2, 6
  arrivals: the ring fills, overflows in the middle of a chunk, wraps twice,
  and the ISR runs at every point of a two-byte copy. Two byte values tell a
  stale slot from a fresh one. The proofs remove the bounds.
- `serial_tx`: a ring of 4, so a frame of 5 does not fit and 8 is the shortest
  polled frame; a FIFO of 2, chunks of 2. Bytes carry their writer, frame and
  place, so any loss or mix is seen. There are 2 waits for up to 5 bytes in flight,
  as in the program there are 200 for up to 8191 and the FIFO: the polled frame
  comes before, between and after the others, with time enough and without, and
  a frame of 1 byte may follow it and free what it has left.
- `stream_parser`: three symbols, a two-symbol magic with the shape the proof
  of the shift register needs (its first symbol does not recur), payloads of 0,
  1 and 2 symbols against a `pbuf` of 1, up to 12 symbols without the end of a
  frame: a skipped header of a wrong version and a frame after it fit. The view
  leaves out fields that are dead in the search state.
- `host_link`: format, mkdir, format, stat with the retries `SdClient` gives
  them; the second format may find the thread of the first under way. `NoRepeat`
  is what the proofs assume, too.
- `sd_format`: two probes instead of ten (`sd_ops.c:84`); every disk call may fail
  at any time; requests are unlimited and come at any time.
- `sd_files`: two paths, each under two names (a slash in front or not, too
  long for `full[128]` or not), so `join_path` matters and `/big` has both
  checksum conventions; a staging buffer of 2, an answer of 3, a fill buffer of
  2 and files of up to 3 units, so every loop turns at least twice, a listing
  may not fit, and a fill ends in a part of its buffer; 2^32 is 16, so that the
  length of a write can wrap; a sector is 1; a fill of nothing is among the
  requests. They are unlimited and come in every order.
- `commands`: words of 8 bits, so ranges can wrap past the end of the address
  space; a flash and two RAMs of 2 and 4 cells with gaps, lengths of up to 3,
  requests inside, at the end of, across and outside the regions. A panel of 3
  by 2 pixels in each of the four formats, one of them not readable, and a line of
  9 bytes: in ARGB8888 a row takes two calls, the last one shorter, in the others
  one. `FaultyRows = {0}`: the panel's driver may fail in the first row, before or
  within it. An answer holds 8 bytes, so some rectangles do not fit; one reaches
  beyond the panel, and 10 by 13 pixels of 2 bytes are 260, which wraps to 4.
  `Rested` is the only behaviour asked of the host: it does not start the doom
  thread within 28 ms of a stop, and sends nothing in the moment before a new
  thread first runs. The fields of a request are of the widths of the program's: a
  side of a rectangle is half a word (`DeviceAssumption`). Requests are
  unlimited and come in every order; ticks count modulo 2.
- `doom_restart`: ticks count modulo 16, and nothing is asked of the host.
- `startup`, `led_clash`: all sleeps at their lengths in units of 50 ms (60 ms
  is taken for one unit). Code 1 is the only one the program ever sets; `CodeShown`
  and the actions do not depend on it.

Fairness: the UART transmits and interrupts; every thread has the same priority
and blocks or sleeps in every loop, so weak fairness of each thread is what a
priority scheduler without time slices already gives. Nothing is assumed of the
host: no request need ever arrive, and no lost answer need be sent again.
Deadlock is checked in `serial_rx`, `serial_tx`, `sd_format`, `sd_files` and
`commands`, `startup`;
the other runs end (a program of commands, a bounded line) and say so.

## 4. Findings

1. `host_link_stale`: responses are matched by command id; after a retry, a
   late answer to one `SD.Write` passes for the answer to the next.
2. `sd_format_sync`: `SD.Format` answers at once, contrary to
   docs/PROTOCOL.md:34; the next command can mount the card and use it while
   `fs_mkfs` runs.
3. `doom_restart`: start after stop within 28 ms creates the thread object anew
   while the old thread is asleep on the same stack.
4. `led_clash`: while an error code is shown, the heartbeat writes 0 to the same
   pin every 100 ms and cuts blinks short. The blinks still count (`CodeShown`),
   as far as they can be seen.

More are visible in the definitions, without a run of their own:

- `DrainEnd` of SerialTx: the comment at `serial_async.c:110` says "Wait for any
  pending ISR-driven TX to drain"; after 200 ms a polled frame starts anyway,
  overtakes what is left in `tx_rb`, and leaves it there with the interrupt off
  until another frame goes through the ring. `serial_tx` goes through this;
  `DrainedInTime`, `WireInOrder`, `NeverStranded` and `AllSent` say how far the
  promise is kept, `PathsInOrder` what remains when it is not.
- `HeaderDone` of StreamParser: any length is believed, and bytes taken are not
  searched again, so noise in one frame can consume the intact frame after it,
  which `test_protocol_stream_resync.cpp` (in no build target) expects to be
  found. `SidesAgree` has to exclude the same for the host.
- `Fill` of Board: `h_fill` does not set the length of its answer, so a fill is
  answered by 64 KiB of earlier answers; docs/PROTOCOL.md:48 says empty. A run
  that is held against the documents would fail here, and at the next three.
- `DispInfo` of Commands, `Info` of Board: `rsp[7]` is never set, and the stride
  stands at byte 8, where docs/PROTOCOL.md:47 puts it at 7.
- `PixelBytes` of Commands, `Native` of Board: RGB888 is written B, R, G and read
  back as it is; `test_display_basic.py` expects R, G, B.
- `DispRead` of Commands, `ReadRect` of Board: nothing in `h_read` or
  `display_read_rect` compares a rectangle with the panel or asks whether it is
  ready. A size that wraps in 32 bits passes the comparison at `cmd_display.c:71`,
  whose comment (line 65) says it avoids overruns.
- `Reply` of HostLink and line 36 of `proto_task.c`: the answer to a failed
  write is the same empty frame as to one that succeeded, which
  docs/PROTOCOL.md:37 calls success and `sd_cli.py` prints as "write: ok".
  FileStore's `rc` is what the handler returned, not what the host sees.
- `Close` of SdFiles: the result of `fs_close` is ignored, so a handler returns
  0 for data that was not saved. FileStore has to list this (`Unsaved`).
- `Truncate` of SdFiles: the result of `fs_truncate` is ignored too. A write or a
  fill that follows fails on the same file, but a fill of nothing writes nothing: it
  returns 0 with the old contents in place (`Uncut` of FileStore), and if it is
  repeated it may then remove them. This came out of the attempt to prove
  `RepeatChangesNothing`, which therefore asks for fills of something (`Repeatable`).
- `Rename` of SdFiles: a retried `SD.Rename` removes the file the first attempt
  had moved, since the driver clears the new name before it misses the old one.
  `RepeatChangesNothing` leaves renames out.
- `sd_cli.py:94` uploads in pieces of 64 KiB; the parser drops every frame whose
  payload is longer than `pbuf`, 1 KiB.

## 5. Proofs

TLAPS checks every step; the only assumptions are the named `ASSUME`s on the
constants, which TLC evaluates in the runs, and what a theorem states as its own.
Nearly all invariants of the passing runs are theorems; the list of what is not
is at the end.

**RingBufferProofs** - for every size: `WriteContents` (a write appends the
stored bytes to `RbContents` and leaves the rest), `AdvanceContents` (a turn of
`rb_read` takes the oldest byte), `PeekContents` and `ConsumeContents` (the
transmit side's two calls do the same for many bytes). The work is in the
arithmetic of slots modulo the size: `SlotOffset` relates a slot's distance from
the old head to its place in the queue.

**SerialProofs** - both directions. Receiving, for every ring size, chunk, read
size and set of bytes, the invariant is

    RxIInv == RxTypeOK /\ LoopShape /\ PromiseKept /\ NoOverwrite

`NoOverwrite` alone is not inductive: that the ISR leaves the slot at `tail`
alone follows from its being used, which is `PromiseKept` at a point of the
loop that `LoopShape` fixes. From it: `RxTypeCorrect`, `PromiseIsKept`,
`NothingOverwritten`, and `ImplementsLossyFifo`, in which `RxIsr` maps to an
arrival, `ReadAdvance` to a delivery, the rest to stuttering.

Transmitting, for every ring, FIFO, number of waits and set of writers
with any frames: `TxTypeCorrect` needs an invariant of its own, `Shape`: whose
`Turn` it is, and what `Progress` says of the indices of a write at each of its
lines. None of the others puts a condition on the number of waits, which in the
program does not cover a full ring. `NothingStranded` and `FramesInOrder` say what
holds until a polled frame gives up, and of the interrupt also afterwards.
`DrainsInTime` says when that can happen: only if a polled frame has found
more bytes pending than it waits milliseconds. Its invariant is `Budget`: while it
waits, the bytes still pending and the waits done make no more than `backlog`, since
a wait ends with a byte gone as long as the interrupt is on, which `NeverStranded`
says it is.

**HostDecodeProofs** - the parser and the host's decoder, for every magic whose
first symbol does not recur (as in the program's), every checksum, size of `pbuf`
and line of any length. The invariant is

    IInv == TypeOK /\ Placed /\ Framed
              /\ (ended => state = 0 /\ magic_acc = NoMagic /\ MatchesReference)
              /\ (~ended => delivered = <<>>)

`MatchesReference` speaks only of the end of a line. `Placed` says for every state
in between that the search has come to some place of the line (`Reached`: no frame
before it) and the parser is where one that began there would be, in the search, in
the header or in the payload; `Framed` says that a message was delivered at the
frame which the host's reading finds. From it
`MatchesWholeString`: the byte-wise parser delivers what a reading of the whole
line finds. `HostFindsIt` relates the two sides; `RereadingKeepsAll` is an action
property of the host's search, that more bytes never change a frame it has found.
The recursive functions (`HeaderAt`, `DecodeStream`) are reasoned about by their
unfoldings, which are lemmas (`HeaderUnfolds`, `DecodeUnfolds`); where an
induction is needed it is over a set of positions with a least element (`Least`,
`Downward`).

**HostLinkProofs** - for every program in which no command follows one of its
own id, any retries, any losses. The invariant is

    IInv == TypeOK /\ Window /\ Flow /\ Ran /\ Genuine

`Flow` says commands stand in order from the host's end of the line to the
device's. `Window` says nothing on the way to the host is older than the command
before the current one, and the device is at one of the two: with `NoRepeat`,
what `Accepts` takes is then the current command's. `Genuine` is not inductive
without both. `Ran` says that a handled command is executed or, if it is
carried out later, in `begun`. From it: `GenuineAnswers`, `AckedMeansExecuted`,
`TypeCorrect`, `ImplementsCalls` (refinement of AtLeastOnce), whichever commands
are carried out later.

**SdFormatProofs** - for every number of probes, any call failing at any time.
The invariant adds three parts to the properties: `FormatSoFar` (what the format
thread has done to the card by the line it is at), `Known` (a mount has its mount
point, or its thread is about to publish it) and `Undisturbed` (a command that
nothing excuses meets no format, and finds the mount as it left it). From it: `FormatTypeCorrect`,
`OneFormatAtATime`, `FormatMounts`, `NoOtherFailure`.

**SdFilesProofs** - for every set of requests, all sizes of the buffers, any call
failing and any read or write cut short. The three invariants that `sd_files` checks
follow from one,

    IInv == Types /\ Labels /\ Handle /\ Starts /\ Calm /\ Staged /\ Apart /\ Untouched
              /\ Writing /\ Finished /\ Settled /\ AgainDone /\ Kept

`Handle` says between which calls a file is open (`FilesAreClosed`), `Starts` what the
loops count from (`SdTypeCorrect`). The others are about the card. `Done(r, c)` says
that r has had its effect on c. A command that returns 0 leaves it done (`Finished`),
so it still is when the next comes (`Settled`, and the theorem `SuccessIsDone`); one
that comes again finds it done (`AgainDone`) and leaves the card the same (`Kept`),
which is `RepetitionIsHarmless`. To get there `Writing` follows the named file through
the calls: cut to nothing, then the pattern's first `total` units, or cut by nobody
and still what it was, unless a call failed and every later one will. The rest is
three facts about `Overlay`: what is written is there (`OverlayHolds`), to write what
is there changes nothing (`OverlayOfItself`), and a fill goes on where its last piece
ended (`PatternGrows`).

**CommandsProofs** - on the ranges of `mem.c`, for every word size and memory
map: `RangeIsExact` (`in_range`, whose sum wraps, accepts exactly the ranges all
of whose addresses are in bounds), and from it `WritesStayInRam`: a write is
accepted exactly if it is not empty, not longer than the data and all in one RAM,
so it touches no flash. On the doom thread, for every width of the counter, with a
host that waits (`HostWaits`): the invariant adds to `TypeOK` and `StateIsTrue` what each
handler in the middle of its work still knows (`HandlerSure`): before `Create`,
that there is no thread. From it `ThreadStatusIsTrue`. On the whole board: every step
of Commands is a step of DoomTask, leaves its variables alone, or is a reboot
(`DoomSteps`), so the invariant carries over, and with it `StatusIsTrue`.
`CommandsTypeCorrect` adds the rest of the board: `TypeOK` does not say that the
fields of `info` belong together, so `PanelFound` does (all of what `display_init`
found, or nothing), and then `ChunkMoves` keeps a fill on the panel for every width,
format and size of `line`. That an answer fits in `rsp` is what each handler checks,
except where its size is fixed: `AnswersFit` says the buffer has room for those.

`PanelIsReadable` is about the one place where the model ends: it does so only with
a size that is larger than the buffer and wraps to one that is not (`LostIs`), and
a rectangle of a panel the bytes of which a word can count has no such size.

`CommandsImplementsBoard` is the refinement, for memories and panels of any size
and format, any ranges and rectangles, any length of line and answer, whichever rows
fail and with nothing assumed but what Device says of the widths of the fields. Board
carries a request out in one step, `Reply` or `Booted` (`AnswerGoes`, `BootAnswer`),
`Receive` is its `Ask`, and every other step it does not see (`HandlerUnseen`,
`ThreadUnseen`). The work is in the invariant `Doing`, which says at each label what
the handler has done so far, in terms of `before`, the board its request found:
`Told` (the answer is Board's, the board is as it was), `Stored`, `Filled`, `Blanked`
and `Switched` when it has returned; before that, that a fill has painted the pixels it
has come past and no others (`Covered`, which `CoveredGrows` follows through a piece
that may end a row), that a reboot has done so to a new panel, and where the doom
handlers are. It needs `Held` and the invariant of the doom thread. Three lemmas
carry the data: `ReadLegal` and `WriteLegal`, that the wrapped sums of `mem.c` allow
Board's sets of addresses; `Colours`, that a pixel as `display_fill_rgb` packs it is
read back in the order Board names (`Native`); `PictureIs`, that a whole panel is.

**StartupProofs** - for every size of the command table. Half of the invariant
says what `main` has made by the step it has come to (`Made`, `Initialised`,
`Counted`, and `Untouched`, that nothing has run before its first wait); from it
`BootsInOrder`, which needs `Room` for the 28 handlers among `MAX_CMDS`. The other
half is about the LEDs and any set of codes: `Blinks` counts what has been shown,
`AtCode` says the codes being shown are still set, so that the heartbeat keeps off,
and `Dark` that then only err_task turns led0 on; without `Dark`, `CodeIsShown` is
not inductive, since a pin that is on already does not go on. From it also
`PulseAlwaysEnds` and `BootTypeCorrect`.

Only model-checked: the refinement of FileStore by SdFiles, and every liveness
property (`AcceptedIsFed`, `AllSent`, `FormatEnds`, `Answered`, `StopTakesEffect`, `Served`,
`LedAlive`), which the prover does not reach.

## 6. What is left out, and why

- `worker` and `submit` of `sd_ops.c`: nothing on the device calls `submit`.
  The warm-up thread of `main.c` is never created. `rb_reset` and the buffer
  pool are never called.
- Debug output under `SD_DEBUG` and in the parser: wording only; the frames it
  would write are ordinary writers of SerialTx.
- Answers lost on the way to the host are covered only as far as `send_cmd`
  drops them with its buffer; the host's operating system buffers the line.
- Subdirectories, and SD commands that overlap a format and change
  contents (SdFormat has the overlap, SdFiles the contents).
- The file system and the disk driver are external: a call fails or does what
  it is asked, as section 2 says of SdFiles. A mount of a card without a file system, which Zephyr's FAT
  glue can be configured to format, is a mount that succeeds or fails.
- The panel's driver is external: it takes what it is given or fails, and reads
  `Unknown` beyond the panel. What a program does that has written past a buffer
  (`Lost`) is left open. `display_blit_rgb565`,
  `error_indicator_set` and `error_indicator_clear` have no callers.
- Faults of GPIO and of the creation of threads, whose results the code ignores.
- The fatal handler runs when the kernel has given up; what other threads hold
  then is not the program's to say. Port discovery, scripts: see `PROJECT.json`.

## 7. Plan

Done, in this order: receive path and its proofs; parser; transmit path; link
and its proofs; format and mount; doom task; SD commands on files; the other
commands with memory, panel and doom thread, and their proofs; host decoder;
LEDs and boot; then proofs about transmit path, format, parser and decoder, LEDs
and boot, and the files; the refinement of Board.

Next, extending the model:
1. `SdUpload`: SdFiles composed with HostLink for an upload with retries: what
   "upload: ok" is worth, with the answers as the host sees them.
2. The receive path and the parser composed, so that what HostLink calls
   `Lose` is derived from a full ring and a dropped frame.

Next, proofs: the refinement of FileStore, for which `Settled` and `Writing` are the
start.
