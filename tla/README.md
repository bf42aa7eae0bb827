# A TLA+ model of atomet

atomet turns an ATOM Cam 2 (Ingenic T31) into an astronomy camera. Its daemon, `atometd`
(`src/crates/atometd`), takes HEVC frames from the vendor's encoder, records them in one MP4 file
per minute, serves them over TCP, detects meteors, solves star fields, and is configured by a web
page. This directory holds TLA+ modules translated from that code, the TLC configurations that
check them on small instances, and the proofs TLAPS checks for every instance.

`PROJECT.json` maps every definition to the lines it models. Paths below are relative to
`src/crates/atometd/src/` unless they start with `src/`.

## 1. Inventory

| Component (source) | State it keeps | Operations | Talks to |
|---|---|---|---|
| MP4 muxer (`muxer.rs`) | writer position, `mdat_start`, `bytes_written`, sample table, parameter sets | `new`, `write_video`, `finish` | owned by one recording task; a `BufWriter<File>` |
| Regular recording (`record.rs:14-99`) | current minute, current muxer | receive a frame, switch file, write, disable, exit | broadcast channel (100 frames); `AppState.record_enabled`; wall clock; card |
| Timelapse recording (`record.rs:101-177`) | current hour, current muxer | receive an IDR, switch file, write | mpsc channel (100), same card |
| Stream server (`stream.rs`) | client list, `initialized` per client | accept, copy a frame to all clients, drop failed ones | broadcast channel; TCP clients (go2rtc) |
| Encoder workers (`isp.rs:359-493`) | minute or hour of the last IDR request | poll, copy packs out of the ring buffer, send | vendor library; both channels |
| Watchdog (`watchdog.rs`) | one u32 time per task | register, tick, check and feed | wall clock, `/dev/watchdog`, every long-running task |
| Application state (`config.rs`, `websocket.rs`, `web.rs`) | `ArcSwap<AppState>` | load, modify, store per command | every task; GPIO; ISP |
| Configuration store (`config.rs`) | `atomet.toml` | load at start, save at Ctrl+C | card |
| Day/night (`daynight.rs`, `gpio.rs`) | 10 brightness samples, own mode, time of last switch | sample, average, switch | ISP, IR cut, IR LED, `AppState` |
| Luma worker (`luma.rs`) | - | poll, publish the newest frame | watch channel to detection and solve |
| Detection (`detection.rs`) | background statistics, tracks, ring of 5 frames, stack and countdown | one step per frame | watch channel, mask, debug channel, card |
| Star extraction and solve (`solve.rs`, `src/crates/solver`) | vote map, capture flag | capture, vote, solve | watch channel, mask, `/api/debug/stack` |
| Mask (`web.rs:155-198`) | 3600 cells in memory and on the card | get, put | detection, solve |
| OSD, system statistics, AE ioctls (`osd.rs`, `system.rs`, `ae_ctrl.rs`) | regions; last CPU counters | periodic | ISP, clients |
| Start-up, shutdown (`main.rs`) | shutdown flag, tokio runtime | spawn, Ctrl+C, drain, wait for the threads | all |
| Web player, WebSocket client (`src/web/src/lib`) | sockets and reconnect timers | connect, close, fall back | go2rtc, `/ws` |
| Update script (`src/initramfs_skeleton/init`) | images on the card | verify, move, mount | boot |

The behaviours that are hard here:

* **Partial failure.** The card is slow and can be pulled. Every write of the recording path can
  fail in the middle, and tokio's `File` reports a failed background write at a *later* call.
* **Power loss and resets.** The index of an MP4 file is written last; the watchdog resets the
  camera on purpose.
* **Time.** Files are named after the wall clock, the watchdog measures with the wall clock cut to
  32 bits, and ntpd steps that clock after start (`S42ntpd`).
* **Loss.** The broadcast channel drops the oldest frames of a slow receiver, IDR frames included.
* **Interleaving.** Commands clone the state, await hardware, and store the clone. PUTs of the mask and
  callbacks of the browser interleave in the same way.
* **Waiting on one another.** A thread blocks on a bounded channel whose receiver may end, on a watch
  channel whose sender may end, and the drop of the runtime waits for all threads.

What makes each part correct:

* *Muxer*: the table describes the bytes that are in the file; a sealed file plays back all frames;
  a failure never destroys what was already on the card.
* *Recording*: each file can be decoded from its first frame; a key frame goes to the file of its
  minute; no muxer is leaked; a sealed recording is not overwritten.
* *Stream*: a client starts at an IDR frame and then gets every pack; one failing client neither
  disturbs the others nor the daemon.
* *Watchdog*: a hang leads to a reset within a bounded time, and nothing else does.
* *Application state*: a setting asked for while nothing else runs is kept; state and
  hardware agree when nobody drives the hardware; what is persisted survives.
* *Detection*: a confirmed track is announced once, and one saved image shows its whole trail.
* *Capture, solve*: a request is served by one capture with frames of its own and blocks no later one;
  the table of the plate solver finds the patterns that were put into it.
* *Timelapse*: waiting loses no key frame and blocks nobody for good; every hour has its file.
* *Mask, update*: memory and card agree; whenever the power goes the camera still boots.
* *Browser*: one stream, a way to get it back, and silence after the page is left.
* *Shutdown*: nothing ends before the save, and nothing waits for what has gone.

## 2. The modules

| Module | What it is |
|---|---|
| `FrameArchive` | abstract specification of one recording: a log of frames, a confirmed prefix, a secured one, seal or loss |
| `Mp4Muxer`, `Mp4MuxerProofs` | the muxer over one file, which implements `FrameArchive`; its invariant and theorems |
| `RecordTask`, `RecordTaskProofs` | the regular recording task over all files of the card; its invariant and theorems |
| `Timelapse`, `TimelapseProofs` | the timelapse thread, its bounded channel and the task that files key frames by the hour; theorems |
| `HevcBytes` | functions: the copy out of the ring buffer, NAL units, length prefixes, sample tables |
| `BroadcastChannel` | operators of one receiver of a tokio broadcast channel (external code) |
| `StreamServer` | the stream server over that channel |
| `Watchdog`, `WatchdogProofs` | ticks, supervisor, hardware watchdog and the u32 wall clock; theorems |
| `AppState`, `AppStateProofs` | the shared settings, the commands and switches that change them, the outputs they drive; theorems |
| `ConfigStore` | the life of the daemon around `AppState`: start, save, reboot, kill, power loss (extends `AppState`) |
| `StorageProofs` | theorems about the behaviours of `MCStorage`: configuration, mask, update, end |
| `DayNight` | when the day/night task decides to switch |
| `Detection` | the detection task: ring, tracks, announcement, stack, file |
| `LumaProofs` | theorems about the behaviours of `MCLuma` (detection, day/night, vote) and about its algorithms |
| `Blobs` | the flood fill step by step; merging and association as functions |
| `Capture` | the luma worker, its watch channel, the solve task and its capture flag |
| `VideoProofs` | theorems about the behaviours of `MCVideo` (stream, timelapse, capture, player, page) and about the bytes of a frame |
| `Stars` | functions: row ring, threshold, star candidates |
| `PatternDatabase` | functions: the solver's table from generator to lookup; the vote as a state machine |
| `Osd` | functions: where the timestamp is drawn |
| `Mask` | PUT of the detection mask: memory, file, card |
| `Update` | the update part of the init script |
| `Shutdown` | from Ctrl+C to the end of the process |
| `Player`, `WsClient` | the browser's player and its control connection |
| `MC*` | values for TLC |

Some components share no state that their properties are about: the update script and the mask, say. Three
modules check such components side by side, each in behaviours of its own: `MCVideo` (stream,
timelapse, capture, player, page), `MCLuma` (detection, day/night, flood fill, vote) and `MCStorage`
(configuration, mask, update, end of the daemon). Their variable `focus` is chosen at the start and says which
component moves; all others keep one initial state. Nothing of a component is restricted by this, and its
fairness is restated there for the behaviours that move it. Algorithms that are functions of their input get
every input of a bounded set in one step, `Choose`, and their properties compare the result with a definition
that says what is wanted and not how it is found. The loops of the code are recursive functions of the number of turns
(`at[k]` is the state after `k` turns); TLC evaluates them, and the theorems of section 4 are about them, for every input.

### Mp4Muxer

The file is a set of extents (position, length, frame); bytes are abstracted, positions and sizes
are computed as in the code. `New` is `Mp4Muxer::new`; `WriteVideo(f)` and `WriteVideoFails(f)` are
`write_video` returning `Ok` and `Err`; `FinishHeader` and `FinishMoov` are the two halves of
`finish`, so that power can be lost between them. `Sync` is a background write of tokio's `File`
completing. A failing call may lose every byte that had not been written (`cut`), or leave part
of the frame behind, because the error of a background write surfaces in a later call. Every other way
to the end loses bytes in the same way: `Abandon` is the first seek of `finish` failing (it flushes,
`muxer.rs:114`), or the muxer being dropped: any tail of the accepted bytes that were not written is
gone. `FinishFails` is an error after the patch: such a tail is gone, with or without the patched size,
or a part of moov is there. `NewFails` leaves a part of the headers.

Nothing is ever fsynced, and the card is mounted without `sync`. So `PowerLoss` is a step of its own, which may cut
a sealed file too: of what the kernel had not written back (`WriteBack`, at any time) any tail is
lost, and the patch perhaps. Bytes behind the first lost one count as lost, whatever the card has of them.

`failedAt`, `calls`, `safe` and `durable` are history variables: the properties say what holds before, at and
after the first failure, of the bytes written by then (`safe`) and of those written back (`durable`). Parameter sets are reduced to the frame they come from; the codec boxes to
the size of moov.

`FrameArchive` says what a user may rely on: accepted frames are kept in order; a failed write and a
recording that is given up may take back frames that were not confirmed, never others; sealing confirms
and freezes what is kept; a power loss may take whatever was not secured, from a sealed recording too. The
refinement mapping keeps the longest prefix of samples that were accepted before the first failure
and whose bytes are intact: what a reader gets who stops at the first damaged frame.

### RecordTask

One received frame is one step, since the task owns its muxer and awaits each call in turn. The
step takes the outcome of every I/O call it makes (`Outcome`): `finish`, `File::create` and
`Mp4Muxer::new`, `write_video`. A path is the minute itself, as in `%Y%m%d_%H%M`, while the switch
compares only the minute of the hour (`minute`), as `record.rs:41` does; `MinutesPerHour` is a
constant so that TLC reaches the wrap. Lost frames are the `Lagged` error of the broadcast channel.
The environment steps are time, a correction of the clock, the record switch, shutdown, power loss
and restart. Files are seen at the level of `FrameArchive`: open, sealed or broken. A sealed file is one the kernel
has been given whole: what a power loss may then still take of it is `Mp4Muxer`'s affair.

### StreamServer

The task handles one event at a time. `HandleFrame(failAt)` is the whole branch of `stream.rs:37-80`
for every choice of which client fails on which pack (timeout or error): gating on the first IDR,
the writes pack by pack, `closed_clients` in the order in which the code pushes (by pack, then by
index: the operator gives every sequence sorted that way, and there is exactly one), and the removal
loop (`Removals`, a recursive function over the reversed sequence), with `Vec::remove` panicking on a
bad index. The release profile aborts on panic, so `"panicked"` ends the daemon.

### Watchdog

`last_tick` and `now_millis` are the u32 values of the code, modulo `Wrap`; `idle` is the true time
since a task's last tick and exists only in the properties. `Check` is one pass of the supervisor's
loop; it happens at most `MaxDelay` after its sleep ends. `Elapse` lets time pass for all, never
beyond a deadline of the supervisor or of the hardware. `SetClock` is ntpd or `date -s`.
`setBack` and `setForward` remember since which ticks the u32 clock went down (by a correction or by
the wrap) or was put forward.

### AppState

`handle_command` clones the whole `AppState` (`websocket.rs:109`), changes its copy, awaits GPIO writes
or the ISP, and stores the copy (`websocket.rs:203`). `daynight_task` switches the same hardware and
loads the settings only afterwards (`daynight.rs:107`). The grain of the model is one step per await:
`Receive` clones and begins (`HwCommand`), or does everything at once for a command that never awaits
(`SoftCommand`); `HwWrite` and `HwWriteFails` make the next of its writes (both trigger lines of the IR
cut are separate, with 100 ms between them); `StoreClone` and `StoreTransition` store.

This grain is justified by the target: the kernel is configured for one CPU
(`src/configs/kernel.config:186`, `BROKEN_ON_SMP`, has no `SMP`), so tokio's multi-thread runtime has a
single worker thread, and spawned tasks interleave only where they await.

Settings are named fields: four that drive hardware, and three of those that drive nothing. Each output is
reduced to the last value written to it. The result of every write is ignored by the code, so a
failing write leaves the output and goes on, except within `ircut_on` and `ircut_off`, where `?`
skips the second line (`AfterFailure`). `suspect`, `asked`, `firm` and `manual` are history: which
settings were driven by two tasks at a time, what was asked for, whether any command was in flight then, and
whether night mode was set by hand. They carry what the code does *not* promise: an accepted
command can be undone by the clone of a command in flight (`websocket.rs:109` against `:203`), two
interleaved IR cut commands can leave the filter between its positions, and the day/night task does not
notice a manual switch.

### ConfigStore

`Boot` is the start up to the ISP: `load_config`, `gpio_init` with its early return for exported lines,
and the saved state applied. `Run` lets every task of `AppState` go on, also while saving. `CtrlC` takes
the snapshot; `SaveTruncate` and `SaveWrite` are the two effects of `tokio::fs::write`, with `SaveFails`
between them; `Exit`, `Reboot`, `Kill` and `PowerLoss` are the ways down. The file has a cached and a
durable content, reduced to the settings it would yield: an empty or torn file yields the defaults.
External assumption: a reset of the board puts the lines to 0, a kill does not.

### DayNight

One step is one turn of the loop, sleep included; brightness is an input between 0 and 100, averages are
compared without the division; `Sum` adds the slots up from the first one on, as `iter().sum()` does. The constants carry the
one relation of the code's numbers that its comments do not state: as many samples as the average needs to leave
the band take at least the dwell time (with 10 samples 2 s apart, 30 and 70: eight samples, 16 s, against 10 s). `AppState` keeps only that *some* decision follows a measurement. Rounding of
`f32` is left out.

### Timelapse

The thread (`Loop`, `Deliver`, `PollFails`, `BlockingSend`) and the task (`Receive`, `TaskEnds`) are separate
actors over a channel that never drops: when it is full the thread waits. A frame is its number, and `idrs` says
which are key frames: those the thread asked for when the hour changed, and any the encoder makes by itself. `RequestIDR`
is honoured by the next frame to be coded, and not by those coded already: while the thread waits in `blocking_send`, up to `EncoderQueue`
frames collect in the encoder, and `GetStream` returns these first (`older`). That the encoder honours the request is all that is assumed of
it, no key frame interval. So an hour is sure of its key frame when `Enough` of its frames went through: one that was polled for
before the hour changed, those that were coded already, and the key frame itself.
`Receive` is the whole branch of `record.rs:115-165` with the outcome of every call it makes, so a
failing `finish` and a failing `create` both leave the hour taken over without a file, as in the code. A path is the
hour; the code compares only the hour of the day (`HoursPerDay`). `PowerLoss` and `Restart` break and then truncate the file of
the running hour. `owed`, `since` and `upset` are history variables.

### HevcBytes and Osd

Bytes are numbers. `Nals` follows `AnnexBIter`: both start codes, empty units skipped, a zero before `00 00 01`
taken as part of the code. `NalsExact` compares it with the positions of `00 00 01`, and reads the length-prefixed sample back
as a player would. `build_stts` and `build_stss` are compared with the samples they stand for. `Osd` has
the four rectangles and the glyph cells: `TEXT_BUF_SIZE` is 43, the timestamp has 38 characters and the version 5, so the text
fits its bitmap exactly; with four more the last slices of `osd_update_text` (`osd.rs:273`) would lie outside, and the daemon abort.

### Detection and Blobs

One received luma frame is one step of `Detection`, `Frame(hit, n, straight, io)`: the blobs that continue tracks
(`hit`), the number of new ones (`n`), the tracks whose path is straight by now, and the outcome of saving. These inputs
stand for floating-point statistics; any combination the code's guards allow is tried. A frame is its number, a max-blend
is the set of frames in it, so that `stack_data` says exactly which frames a saved image shows. `tracks` keeps the
frames of each history, as the code keeps points; `RingWrite` and `BlendRing` do the index arithmetic
of the ring. `SetDetection` leaves everything as it is, as the code does. `Blobs` has the flood fill with its stack
(`Start`, `Pop`, `Finish`), `merge_blobs` with its union-find, and the greedy `associate`.

### Capture, Stars and PatternDatabase

A watch channel keeps the newest frame; `unseen` says for which receiver it is new. `Request` is the web handler, which
refuses while `capture` is set; `SolveStep` is `solve_task` with every wait, timeout and end of the sender, and clears the flag
whatever came of the capture. `detection_task` waits for frames without a timeout. `Stars` has `extract_candidates`,
the median threshold from the histogram, and the ring of three rows. `PatternDatabase` has the counting sort of
`generate_database`, `create_lut` with offsets packed in 20 and 12 bits, the 10-bit numbers, the
sorting network, and the vote with its early stop, where swapping the winner to the front
keeps the candidates sorted enough for the comparison that ends it.

### Mask

`Swap`, `Truncate` and `Write` are the steps of one PUT; several run side by side, since every request is a task of its own and
`tokio::fs::write` works on a blocking thread. Each request carries a mask of its own. `End` is the end of the daemon, with or without the power;
`Start` loads the file or falls back to zeros.

### Update

Seven files: the archive, and each image staged and in its place. The script's size check is the distinction between a torn image and
a whole one. The steps are those of lines 24-75: unpack; move a root image (a rename, since both places are on `/rootfs`), remove the other one,
sync; copy the kernel and sync (`/boot` is another mount, on cards with one partition too, so `mv` removes the old kernel and copies the new one:
`MoveKernel`, `Copied`); the choice when both root images exist; mount. No command is checked: each may fail, and the script goes on.

vfat and exfat are mounted without `sync` and promise no order among writes. `may` holds for each file everything a power loss may leave of it: all it
has been since the last sync, and a part of it if its data may not be on the card. `PowerLoss` chooses of each file one of these, whatever it
chooses of the others, so that a rename may be on the card before its data, or a removal before the rename that came first. `hurt` is history: that
the power went, or a command failed, where the script cannot help losing an image. These are the windows that `AlwaysBoots` leaves out: a root image between its move
and its sync, except a squashfs image beside a whole ext2 image, which the next boot takes instead (`Spared`); the kernel from the start of its copy to its sync; and a move, or the last
removal, that fails. A root image that is whole and alone in its place is healed. `fsck`, which may change what is left, is not modelled; the boot loader is
external: it runs the script if the kernel is whole.

### Shutdown

main goes from binding the port over serving and draining to dropping the runtime; the Ctrl+C task sets the flag, saves
and only then tells the server (`Told`). Six blocking threads end at the flag or when their channel closes; the runtime's drop waits for
all of them, after it has dropped every async task and stopped its timers. `TimerPanics` is the three-second timer of the
solve task on a stopped runtime, which aborts the process: an end all the same. `SignalFails` and a failing `Bind` end main *without* the
flag; then some threads never end, and only the watchdog, no longer fed, gets the camera back (`DaemonEnds` says just that).
Which task or thread fails at its own start is open.

### Player and WsClient

One callback is one step. The sockets a component has replaced stay in the model until their close event comes:
`OnClose` of an old socket clears the reference to its successor (`player.ts:158`), and a page that is left
reconnects (`ws.ts:57`). `lateClose` marks behaviours in which the first has happened; the properties of the player say what holds
without it and `WsClient.OneConnection` bounds the second to one connection. Peer connections that were replaced change nothing, so
only the current one is kept.

## 3. What the runs check

| Run | Instance | Shows |
|---|---|---|
| `mp4_muxer` | frames of 2 shapes, up to 3 calls, offset limit inside the file | written samples stay intact through every failure, those written back through a power loss; a sealed file has its moov where mdat ends and plays back every frame; parameter sets are known from the first key sample on; refinement of `FrameArchive` |
| `mp4_muxer_offset` | same, up to 4 calls | **violated**: `Sample.offset` is not the file position after a failed write |
| `record_task` | 3 minutes, hour of 2 minutes, 4 frames | exactly one open file; every file decodable; IDR frames in the file of their minute; sealed recordings overwritten only after an off/on in the same minute or a clock set back |
| `video`: stream | 3 clients, 3 frames of up to 2 packs, channel of 2 | clients start at an IDR; get every pack until they fail; exactly the failed ones are removed as long as the failures of each frame came in index order |
| `video`: timelapse | 2 hours, day of 2 hours, channel of 1, 1 frame in the encoder, 3 frames with disturbances and 6 without | every key frame is in one file or still on its way, unless an error was logged; each hour whose key frame must have come has its file; a sealed file stays; neither side waits forever, and both end |
| `video`: capture | captures of 3 frames | a capture for each request, on frames published after it; no request blocks the next; all workers end |
| `video`: player, page | 3 sockets, 3 timers | one stream, never stuck, quiet after unmount, back again after any loss, unless a late close event came; one chain of connections |
| `video`: bytes | 0, 1, 2 in up to 8 bytes, headers of a VPS and an SPS, rings of 5, tables of 5 samples, texts of 43 characters | units, samples, sizes, parameter sets and tables are what they should be; the drawing stays in its bitmap |
| `stream_server_removal` | as `video`: stream | **violated**: "Remove closed clients" removes others, or panics, when failures did not come in index order |
| `watchdog` | 2 tasks, clock of 6 steps, limit 1, hardware 3, checks 1 apart and up to 1 late, 1 correction | a hang is silent for at most limit plus unfed time; no reset without reason; a hang leads to a reset if the clock does not wrap first |
| `watchdog_clock` | clock of 8, no corrections | **violated**: the wrap alone makes the supervisor feed for a hung task |
| `app_state` | 2 clients, 3 commands of 3 kinds, the day/night task, any write failing | outputs show the settings unless `suspect`; what was asked for undisturbed is kept; the task knows its mode |
| `storage`: configuration | 1 client, 2 commands of 6 kinds, 2 starts, every way down | settings survive a completed Ctrl+C; after any end a start puts the filter and the ISP where the state says |
| `storage`: mask | 3 PUTs | memory and file agree except after a failed or an overlapped PUT; overlapping PUTs leave a whole mask; what was answered is loaded again |
| `storage`: update | every set of images, whole or torn, commands that fail | whenever the power goes, but between a move and its sync, the camera boots; a new root image is not taken back, save by a power loss before its sync, by the removal after a move that failed, or where the ext2 image of two is not the new one |
| `storage`: end | 1 consumer of the broadcast, 1 request | nothing ends before the save; after Ctrl+C only an open request holds up the end |
| `config_store_reboot` | as `storage`: configuration | **violated**: settings under "Persisted (survives reboot)" do not survive the reboot command |
| `config_store_outputs` | same | **violated**: "Apply saved GPIO state" leaves the LEDs as the killed daemon left them |
| `luma`: detection | ring of 3, countdown 2, 1 missed frame, 2 frames to confirm, 2 tracks, 7 frames, 2 seconds | a stack is open while a meteor is followed and ends in time; it holds the whole trail; one announcement; a saved stack is kept |
| `luma`: day/night | the constants of the code, 2 levels of brightness | no switch back before the new samples outweigh the threshold; the dwell time never holds back a switch; 20 samples on one side are enough |
| `luma`: algorithms | images of 4 by 3, 4 boxes, 3 tracks and 2 blobs, vote maps of 5 by 5, tables of 5 keys, all vote sequences up to 6 | flood fill, merge, association, stars, threshold, rows, table, packed numbers, sorting and vote agree with their definitions |

Why the bounds are enough. Muxer: three calls give a written frame, one that is lost and a later one in every
order, and of two kept frames one may be written back and the other not; the offset limit lies between the first and the last offset
(the fourth call of `mp4_muxer_offset` is only for its counterexample's sake).
Recording: two minutes with equal minute of the hour, a minute between them, and frames for a
switch, a continuation, a loss and a further switch. Stream: a wrong removal needs two failing
clients, seeing it needs a third. Timelapse: with one place in the channel and the hand of the thread, three
frames are enough for back-pressure to hold a frame over a change of the hour and over the end of the task. Each hour is sure of its
key frame after three frames (`Enough`: one polled for, one in the encoder, the key frame), so the second hour needs six; errors, clock corrections,
ends and power cuts come with the first three only (`TimelapseBound`), since an hour is promised nothing once one of them has happened.
The theorems hold without any of this. Capture: three frames per
capture separate the first, which may be old, from the others. Player: a socket in use, one being
replaced and one still closing; a third timer exists only if two leaked. Watchdog: checks are 5 s
apart in the code, the limit is 10 s, the hardware's 15 s; the run has the limit at one interval (a healthy check
still falls into a hang), `watchdog_clock` has it at two, the theorems hold for any. The clock is finite by itself (it wraps), so behaviours
are unbounded; only the number of corrections per boot is bounded, and `MaxIdle` caps a history
counter above every limit it is compared with. Application state: interference needs two tasks at the
hardware, undoing it a third command; two clients and the day/night task give all pairs. Configuration:
what a start finds depends on one earlier life and on commands before and during its save. Mask: two PUTs that overlap
and one after them. End: threads differ by the channel they wait on, and all six are there; a second consumer or request
would only be waited for in the same way. Detection: seven frames are the first number at which a second stack can be
saved after the first; the ring wraps twice; the theorems hold for any. Day/night: the average
depends on how many samples are on which side; 29 and 100 are the extreme mixes that leave the band in
either direction, and the full window of 10 is used. Bytes: two start codes of either length, with every one, two or three bytes around
and between them. Algorithms: a merge chain needs three boxes and one that joins two groups a fourth; three equal
summits in a row, one of them at the border; two buckets with a key each and an empty one.

Deadlock is checked except for `Mp4Muxer`, which ends with a sealed or lost file, for `AppState` and
`ConfigStore`, where clients fall silent, and for `MCVideo`, `MCLuma` and `MCStorage`, since servers stop at shutdown, an
algorithm ends with its result and a process with its exit. That nothing stops too early there is what the liveness
properties say. Type invariants are part of the invariants named
`...Inv`, or of an invariant that TLAPS proves.

### Findings

1. *Muxer* (`muxer.rs:84`): after a partial write the writer stands elsewhere than `bytes_written`
   says. `record.rs:84-86` logs the error and keeps the muxer, so the offsets of all later samples of
   that minute are wrong. `SamplesTile` and `ConfirmedKept` show what survives: the table stays
   consistent in itself, and frames confirmed before are safe.
2. *Stream server* (`stream.rs:77`): indices ascend only within one pack, the removal assumes they
   ascend over the frame.
3. *Watchdog* (`watchdog.rs:102`): the saturating difference of a wrapping clock is zero after the
   wrap; a task that hangs within the last 10 s before it is never found, and one that hangs before a
   backward correction is found late.

4. *Reboot command* (`websocket.rs:101`): only SIGINT saves the configuration, and the reboot that the web
   page offers sends SIGTERM. `show_timestamp`, though listed as persisted, is not in `PersistConfig` and
   survives no restart.
5. *Start* (`main.rs:99-105`): outputs are only ever switched on at start, and `Gpio::init` keeps the value
   of an exported line: after a kill and start by `S90atomet` the IR LED may shine while the state says
   off.

### Fairness

* `Watchdog`: weak fairness of `Elapse` (time passes), `Check` and `Stop` (the supervisor runs on a timer of the tokio
  runtime) and `Reset` (hardware). No task is assumed to tick and no clock correction to happen. If the runtime itself is
  blocked, the supervisor is late by more than `MaxDelay`; the hardware then resets the camera, which the model leaves out.
* `Timelapse`: the thread runs on, since its poll returns after ten seconds at the latest, and the task goes on
  receiving and ends at the flag, since its one-second timer wakes it and its I/O ends in success or an error. The encoder is not assumed to
  deliver key frames, nor the clock to move.
* `Capture`: the luma worker publishes or ends, and the solve and detection tasks are threads of their own that go on. No
  request is assumed.
* `Player`, `WsClient`: timers fire and every connection attempt and closing handshake ends (weak); a connection that is
  tried again and again is accepted some time (strong), because the camera is on the same network as the page. Nothing is
  assumed about which callback comes first.
* `Shutdown`: the save ends, main goes on, each task and each thread is scheduled, the unfed watchdog resets. No request is assumed
  to end and no Ctrl+C to come.

## 4. What is proved

All theorems hold for every value of the constants that satisfies the named assumptions, which TLC evaluates in
the runs of their modules: `MuxerConstants`, `WatchdogConstants`, `AppStateConstants`, `RecordConstants`,
`DetectionConstants` (among them `STACK_TIMEOUT > TRACK_MAX_MISSED`), `LumaConstants` (the band, the neutral value
in it, and the dwell condition above), `StreamConstants`, `CapacityAssumption`, `VideoConstants` (the capture's and the
timelapse's, and that `NoSocket` is no socket), `MaxBootsNat`, `MaskConstants` (no mask is mistaken for a torn file),
`EndConstants`, `BlobsConstants` (an image has a pixel), `StarsConstants` (a frame has a pixel inside its border, and the
bounds of the threshold are in order) and `SolverConstants` (spans and buckets are not empty). Two theorems have a hypothesis of their own:
`HourServed` assumes `MaxHour < HoursPerDay`, see below, and `UnitsExact` a frame shorter than 2^32 bytes, the width of
the length that `write_video` puts before a unit. The components that `MCVideo`, `MCLuma` and
`MCStorage` check side by side are proved there too, so that theorem and run speak of the same definition; the lemma
`PartsStep` turns a step of the composition into a step or a stutter of each part.

**Mp4MuxerProofs.** `SamplesTile` and `ConfirmedKept` are not inductive: nothing in the muxer says
where its writer stands. `MuxerInv` adds this (`WriterPosition`: until a write fails, the position is
`mdat_start + bytes_written`; what is written back is written, and what is written is never behind it), that no frame has two extents
(`OneExtentPerFrame`), that samples lie inside the counted payload and are named after their call
(`SamplesInMdat`, `CallsCounted`), and what `finish` has done in each phase (`FinishOrder`). From it
follow `TypeCorrect`, `TableTilesPayload`, `ConfirmedFramesKept`, `SealedFileLayout`, and
`SealedFilePlaysBack`. Every loss cuts the file somewhere behind the bytes it must spare (`Ends`), so one lemma
(`CutKeepsFrames`) says what a failed finish and a power loss leave: they differ only in where the cut may be. The last one also needs that the encoded offset equals the offset: either all
offsets fit 32 bits or `co64` is used. `DecoderConfigured` needs no more than that the first key frame seen is never after
the present call.

`MuxerImplementsArchive` is the refinement of `FrameArchive`. The mapping reads the kept frames off the
file, so it needs what a failure can leave of one: `FileInv` (theorem `DamageIsATail`) says that the table ascends
in positions and calls (`SamplesAscend`), that what is left of a frame lies where its sample says (`OwnExtent`),
that a frame which is there to its last byte is overlapped by nothing (`WholeIsIntact`), and that nothing behind a
damaged frame is intact (`GoodPrefix`). The last one is why a prefix is all the archive needs to lose. Under it the kept
frames are a sequence (`MappingDefined`), and each action of the muxer appends to it, cuts it behind the confirmed part (a failed write,
a recording given up) or behind the secured part (the power), seals it, or leaves it alone.

**WatchdogProofs.** `Behind` and `Ahead` bound the saturating u32 difference by the true silence from
both sides, each as long as the clock did not move the other way. `HealthyIsQuiet` and `LateIsSilent`
turn them into facts about one check; `FedOnTime` adds the time budget of the supervisor. From
`WatchdogInv` follow `HangIsBounded` (a hang lasts at most `Timeout + HwTimeout`, 25 s in the code,
until the camera is reset) and `ResetHasReason`.

**AppStateProofs.** `Agreement` and `AskedIsKept` are about the stored settings, but a handler stores a copy
made many awaits earlier, so the invariant speaks of the copies: `CloneKept` (a copy has every setting
that must be kept) and `CloneCurrent` (it is current in what nobody drives, and has what its own command asks
for). On the hardware side, `WritesOwn` and `WritesLeft` say that each write of a command that runs alone is
either still to come or shows; `AloneIsOnly` and `MixedIsSuspect` tie the bookkeeping to who is at
work; `ManualKnown` and `TransitionIsNight` to the day/night task. `WritesSound` is the lemma about the code's
tables: the writes of a command set no output twice to different values, touch only its own settings'
outputs, and together show its settings. From `AppStateInv` follow `DevicesAgree`, `AskedSettingsKept`,
`TaskInStep` and `AppStateTypes`, for any number of clients, commands and failures.

**LumaProofs.** *Detection.* None of the properties of the stack is inductive: they need that the ring holds the
newest frame of each residue (`RingHolds`), so that its blend is exactly the last `LUMA_PREBUF` frames; that an open stack covers
those frames (`StackCoversRing`), so that a meteor confirmed while it is open needs no pre-buffer of its own; and that the countdown outlasts every
announced track that is still followed (`CountdownOutlasts`). The last one holds because `STACK_TIMEOUT >
TRACK_MAX_MISSED` (15 and 2), which `DetectionConstants` assumes and the code nowhere states. From `DetectionInv` follow
`StackFollowsMeteor`, `TrailStacked` and `OneAnnouncement`. `SavedStackKept` needs to know how many frames a second has seen
when its file is replaced: `SavedInv` says, as long as the clock was not set back, that no file is of a later second, that one of the
present second and a stack named after it have each used up their frames of that second, together with the countdown, and
that a stack begun over a file of its own second has already seen one frame more.

*Day/night.* The average alone says nothing about the past, so `DayNightIInv` follows every slot of the window by its
age: slots as old as the last transition hold the fill, younger ones the scene (`SlotsInv`); each sample since then
has moved the sum by 100 at most (`SumInv`) and the dwell time by one interval (`DwellInv`); and a transition against the scene comes
within one window of the scene's begin (`SceneInv`). `SumBounds` and `SumUpdate` say what one slot does to the sum, for every window. From it follow
`DayNightSound` (the dwell time never holds a switch back, two windows are enough) and `SwitchHolds`.

*Vote.* `Match` moves the candidate that got a vote to the front, so the list is in no order. `VoteIInv` needs none: while the vote goes on no
candidate has `early_stop_n` votes, so the one that reaches them is the only one and was just moved to the front; and the sum of all
votes is the number of patterns counted, one more after an early end (the code leaves the loop before it counts). `TotalSwap` says what
exchanging two places does to a sum, for lists of every length. From it follows `VoteSound`, for every `max_count` and every `early_stop_n`
above 1 (200 and 6 in `solve.rs`): a first vote is never compared with it, so that 1 would not end the vote as documented.

*Blobs.* The flood fill marks a pixel when it is pushed, so that at any moment three sets share out the pixels marked: the parts that were finished,
those on the stack, and the part in work (`FillInv`). Seeds are taken in the order of the scan, and a part is known by its least pixel, so the
finished blobs are the parts whose seeds the scan has passed (`Expected`), and when the stack is empty the part in work is whole: nothing lit touches
it from outside. From it follows `FloodFillSound`, for every image and size. `MergeSound` is about the union-find: its parents are a forest at every turn (`Rooted`: a root for
each box and a depth that falls on the way to it, which is what makes `find` end), joining two roots moves one tree under the
other (`Moved`), and a pair already considered shares its root; the groups, collected by root, are then the components of near boxes with the box around each
(`Bounds`). `AssociationStable` is about the greedy matching: pairs are taken in the order of their distance, ties by number, so whenever a pair is
passed over, one of the two has a partner that came before (`Takes`). The three together give `BlobsSound`.

*Stars.* `MedianThreshold`: the running sum of the histogram passes half of the samples in the bin of the median, for every histogram, and the
threshold is that bin's, within its bounds. `StarsStayApart` and `SummitsHaveStars`: the list of the scan has each local maximum above the threshold once
(`StarList`; the scan stops when the list is full, so a full list has the first summits of the picture, not the brightest), the sort keeps it and puts brighter ones first (`Sorted`); of two pixels that touch one beats the
other, being higher or as high and earlier, so both are never listed; and every summit, a plateau of equal votes too, has a first pixel in the scan that is listed. With the row ring (each row is where its number modulo
three says) they give `StarsSound`, for every size of a frame.

*Plate solver.* `LookupFinds`: the counting sort puts the pairs in the order of their keys (`IsSorted`), so those of one bucket stand together and the table's
two neighbours bound them (`LutUpTo`); the flat array holds each pattern list where its packed offset says (`FlatHolds`), as long as offset and length fit
the 20 and 12 bits they are cut to (`gen.rs:304` does not check it, so the theorem assumes it of the tables). `FieldsRoundTrip`: the fields of a number are its digits. `NetworkIsSort`: the twelve
exchanges of `sort6` give every six numbers back in order. With the vote they give `TableSound`.

**RecordTaskProofs.** `RecordInv` speaks of all files of the card, and the code decides by three of its own variables. The
invariant ties them to the files: the minute remembered is that of the open file (`MuxerOfMinute`), a task that is
down has no muxer (`DownHasNoMuxer`), and the open file ends with the newest frame that was not lost, or is marked as hurt
(`OpenContinues`), which is what makes the next frame fit. `SealedBefore` says that, as long as the clock was not set
back, files are of the past and sealed ones of an earlier minute. From `RecordTaskInv` follow `RecordingsSound`,
`KeyFrameInItsMinute` and `SealedStays`, for every length of stream and every choice of failing I/O.

**TimelapseProofs.** That waiting loses no frame needs the order of everything on its way: the channel ascends, the
frame in the thread's hand is the newest (`ChannelOrder`), and what is filed came before all that is not yet
(`FilesBefore`). So a frame has one place only, and a file stays in order when a frame is appended. From `TimelapseIInv`
follows `TimelapseSound`, for every capacity of the channel. `SealedHourStays` adds `MuxerOfHour` and `PastFiles`,
the counterparts of what the regular recording needs. `HourServed` adds `HourIInv`: an hour the worker knows of has its key frame
requested, on its way or filed, and as long as it is requested, the frames that went through and those that the encoder had coded before
number `EncoderQueue + 1` at most. It holds for every `EncoderQueue`, and assumes `MaxHour < HoursPerDay`, which is not a bound of the model but the code's own limit: it compares the
hour of the day, so that exactly a day later it takes the hour for the old one. These theorems are about the
task alone; `VideoProofs` carries them over to the composition `MCVideo`.

**VideoProofs.** *Stream.* `StreamIInv` orders the frames on their way (`QueueInv`: those in the channel ascend and are newer than
all taken), numbers the clients (`NumbersInv`), and says that a client without a failed write has something exactly if it is initialized
(`WrittenInv`) and then has every pack of every frame taken since its first one (`WholeInv`); this is what makes the next frame leave no
hole. The removal is a loop over indices that shift under it: `RemovedReduces` and `RemovedAscending` show by
induction over its turns that it only ever removes, and that it removes exactly the indices given if they ascend. From it follow `StreamSound` and
`FailedRemoved`.

*Capture.* A capture asks for `EXTRACT_FRAMES` frames after the request, and `watch` may still hold an older one as
unseen. `FramesCounted` counts the frame that waits as taken already: at most one of the frames taken is older than
the request. With `NotComplete` (a capture that goes on lacks a frame) it gives `CaptureSound`.

*Player and page.* `BrowserSound`: the player's invariant is inductive once `ActiveIsAlone` is added (while WebRTC plays there
is no WebSocket whose late answer could take its place); the page's is as it stands.

*Bytes.* `UnitsExact` compares a scan with a definition by position. Two start codes are at least three bytes apart, so the code found next is the least
one from the position on, and the unit before it ends where `End` says (`UnitEnd`); after each turn the units found are those that `Between` has put
together up to the position (`NalsBetween`). The player that reads the sample back is in step with the writer: after as many turns it stands
behind the bytes of as many units (`ReadUpTo`), because a length of 32 bits comes back from its four bytes (`LengthBytes`). `LastSetCounts`:
after each unit a set is that of the last unit of its kind so far, or the old one (`LastKnown`). `TablesGiveBack`: one more sample is one more duration at the
end of what `stts` stands for, whether it lengthens the last entry or begins one (`CountedFacts`), and `stss` lists the key frames so far in order (`Listed`).
`PackComplete` and the lemmas about `Osd` are arithmetic: around the end of the ring, and within the bitmap. From these follows `BytesSound`.

**StorageProofs.** `StorageInv` is the conjunction of four invariants. *Configuration* (`ConfigInv`): a save has in hand what is to
be persisted, and the file is what it wrote, until the daemon is ended otherwise; with it `DaemonStartsRight`. *Mask* (`MaskIInv`): the
memory is the last request's mask, or the file's if there was none (`MemoryFrom`); a request that had the file to itself is the only one
at work, and its mask is the file's once it is answered (`AloneWrites`); with it `MaskSound` and `SavedMaskLoaded`. *Update*
(`UpdateInv`): an ext2 image is whole, and without one the squashfs image is (`Safe`), since the squashfs image is the one that every later choice
removes; outside the windows of section 2 nothing of which the power may take a part is needed, because each step begins with what it relies on synced (`KernelInv`, `RootsSynced`). Nothing
is assumed of the order in which unsynced writes reach the card. With it `CameraBoots` and `UpdateStays`. *End* (`EndInv`): main drains only after the signal's
task is through (`ToldWhenOver`); with it `SavedBeforeEnd`.

Only model-checked: liveness (`HangIsReset`, `NoneWaitsForever`, `Recovers`, `CaptureLive`, `DaemonEnds`), since fairness is
outside the prover's reach. Every invariant and every other action property that a run checks is stated by a theorem.

What a loop computes for every input is an induction over the number of its turns. The library's induction theorems take an operator as a parameter, which
the provers cannot instantiate; the proofs rest instead on the lemma `Counting`, about sets of numbers (a set that has 0 and with each number
its successor is all of them), which follows from the well-foundedness of the naturals. `RunExists` and `RunStays` make of it the two facts needed
of a recursive function: it exists, since its recursion is a run of a step function, and it stays in a set that each step keeps. No module
declares a RECURSIVE operator.

## 5. Not modelled, and the plan

Left out for good:

* `src/crates/isvp-sys/src/wrapper.rs`, 27224 of the 34739 lines counted as implementation: bindgen's declarations of the
  vendor's SDK, which contain no behaviour. What the vendor's library does appears as the environment of the modules that call it.
* The kernel module (it forwards ioctls), `font.rs` (a table of pixels), the vendor's OSD calls, the pipeline's start (a sequence of
  vendor calls that must all succeed, or the daemon exits), system statistics (periodic reads that nothing depends on).
* The MSA kernels: data-parallel loops that a test compares with scalar code. Floating point: background statistics,
  linearity, centroids, quads, attitudes. Their results are inputs of the models.
* `fsck` before the update, and what the boot loader does without a whole kernel.
* PNG and FITS bytes, HTTP file serving, the Svelte pages; the `rtsp` crate, which is empty.
* The commands `set_timestamp_position` and `set_fps`, which store like those modelled (`set_detection` is in `Detection` only), and the debug ioctls of
  `websocket.rs`, which touch no shared setting.

What a next step would be: the pipeline composed with `Watchdog`, that is the 10 s poll of the timelapse thread and a blocked card
against the 10 s limit. Until then a slow card is covered only from the side of the channel, which waits and loses nothing.
