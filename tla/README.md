# TLA+ models of the NinjamZap core

NinjamZap is a client for online jamming: everybody plays along with what the others recorded one
*interval* (a number of beats) ago. This directory holds TLA+ modules of the client core
(`core/ninjamclient/libninjamcore`) and of the platform code around it, the TLC configurations
that check them on small instances, and theorems about them that TLAPS checks for every value of
their constants. `PROJECT.json` says which lines of the source every definition stands for, which
properties each run checks, and which hazard of the code each property is about.

Paths below are relative to `core/ninjamclient/libninjamcore/` unless they say more; a bare number
in parentheses is a line of `njclient.cpp`.

## The system

### Threads

| Thread | Runs | Touches |
|---|---|---|
| network: `keepConnectionThread`, or the app's timer through `process()`, or `connect()` itself | `NJClient::Run` | downloads, user notices, decode slots, encoder, sends |
| audio: device callback | `NJClient::AudioProc`, at a boundary `on_new_interval` | decode slots, block queues, video buffers, the mix |
| UI | `SetUserChannelState`, `SetLocalChannelInfo`, `DeleteLocalChannel`, ... | channel tables, masks, flags |
| app: `connect`, `disconnect` | `NJClient::Connect`, `Disconnect` | everything |
| camera encoder (platform) | `QueueVideoFrame`, `SetVideoSPSPPS` | raw send queue |
| resolver, one for each connection | `JNL_AsyncDNS::_threadfunc` | the cache of the resolver |
| Android encode thread | `SessionRecorder::encodeThreadFunc` | ring, codec, muxer |

Locks: `m_users_cs` (users and their decode slots), `m_remotechannel_rd_mutex` (channel table
against notices), `m_locchan_cs` (local channels), `m_video_recv_cs` (video buffers),
`m_rawdata_sendq_cs`, `m_video_spspps_cs`, `m_misc_cs` (the tempo), `m_log_cs` (the archive's
log), and `gsMtx` of the wrapper, which serialises `Run` with the UI's calls. The resolver, the
recorder and the adapter's maps have no lock.

### Components

Each paragraph names the state, what is hard about it, and when it is correct.

**Remote audio queues and the interval swap** (1340-1508, 3325-3721, 4191-4260, 4752-4803;
`njclient.h` `RemoteUser_Channel`). Per channel: `ds` (what plays), `next_ds[0..1]` (what waits),
`hold_swaps`, `rejoin_grid`, `flags`; per user `submask` and `chanpresentmask`. A download that is
far enough appends to the queue; a boundary advances every queue, puts off starts that are too
young, and aligns the channels of one user by the tag in their GUIDs, by skipping or by waiting.
Hard: notices, toggles and arrivals between the steps of one decision; full queues; channels that
return from another mode. Correct if what waits stays in recording order, nothing plays twice, a
channel waits only with something to play, and the channels of one user play one interval.

**Downloads** (1599-1622, 1854-1892, 4704-4803). Messages fill a buffer that the decoder reads at
the same time; a download silent for eight seconds is dropped when another one is written. Hard:
the timeout racing the END, a user who leaves or comes back in the middle, the plain reference
count of the buffer. Correct if an interval whose END came has started to play, and the buffer
lives as long as somebody holds it.

**Playing of a remote channel** (2535-2584, 3023-3325). The mixer reads what has come in so far,
holds a channel that is short of data, drops on the grid what comes too late, and catches up in
voice chat. Correct if what is heard on the grid is at its place in the interval.

**Session mode** (1899-1936, 3046-3114, 4597-4703). A list of recorded pieces announced over chat,
overlapping as a part is played again, and asked by position. Correct if every time has the last
announcement for it, from the right place; where an announcement splits an older piece, the code
gives what is behind it to the new recording (observation 39).

**Local channels and upload** (1984-2242, 2605-2717, 3602-3627; `BufferQueue` 4840-4930). The
audio thread appends blocks and marks (end, silence) to a queue per channel; `Run` takes them,
draws a GUID with the first audio, encodes, and sends BEGIN, WRITE and END. Hard: `Run` late by
several intervals, a full queue, mode changes and disconnects with blocks under way. Correct if
every upload has one interval's audio, its tag says which, and each block goes out once.

**Voice and music codec** (`vorbisencdec.h`, `WDL/queue.h`). Blocks become pages, pages become
pieces of another size, and reads a third; the encoder serves one upload after the other. Correct
if a download plays its upload, in order and to the last sample.

**Video send** (2244-2381, 2482-2495, 3756-3807). State: `m_video_active`,
`m_video_interval_open`, the GUID, the cached SPS/PPS and a queue of messages. Three threads (the
boundary, the app, the camera's encoder) use them without a lock; `Run` drains the queue. Hard: a
frame, a start or a stop in the middle of a boundary; the GUID that the marker copies is written
by `Run`. Correct if intervals come whole and in order, the open flag is right, and the marker
names the audio that just ended.

**Video receive** (1443-1462, 1509-1598, 1634-1852, 2411-2534, 3809-4127; `docs/VIDEO_SYNC.md`).
Per user one `VideoRecvState` with five buffers (accumulating, next, awaiting, pending, playing).
The network thread routes each WRITE by GUID; a boundary matches the audio interval that the
video's marker names with what the user's audio plays, played or has waiting. Hard: a boundary
inside a download, a download that ends while its buffer moves, audio that waits or skips, resets.
Correct if picture and sound recorded together start together, and no buffer mixes two intervals.

**Video delivery pump** (986-1065). Spreads the frames of the playing buffer over the local
interval by an expected count that changes while the interval comes in; delays voice-chat video.
Correct if no frame is left over.

**Interval clock and metronome** (754-780, 868-1076, 2876-2924). A tempo message takes effect at
the next boundary; blocks are cut there. Hard: a tempo in the middle of a block, a reset beside
one. Correct if clicks are the beats of one tempo.

**Mixing** (895-984, 2586-2991, 3236-3266; `abNinjam/ninjamclientAdapter.cpp` 307-382, 578-742;
`abNinjam/ninjamclient.cpp` 262-271). A block of the sound card goes through staging buffers, is
cut at the boundary, and gets local channels, remote channels and clicks, each at its outputs.
Hard: more outputs than staging, mono engines, the connection going up or down during a block.
Correct if each sound is in each frame once.

**User table, local channels and solo** (1340-1480, 2790-2820, 4191-4267, 4343-4498;
`abNinjam/ninjamclientAdapter.cpp` 453-540; the calls of
`platforms/ios/NativeAudioModule/NinjamClientBridge.cpp`). The app knows names and numbers of its
own; the core knows places in lists. Hard: a list that changes between lookup and call; the solo
flag that two sides update. Correct if a call reaches what it names, and the soloed are heard and
no others.

**Message transport** (`netmsg.cpp`, `WDL/jnetlib/connection.cpp`). A send queue of 512 messages,
two ring buffers, partial writes, a parser, keep-alives. Correct if messages come out whole, once
and in order until the connection breaks, what came is handled before the break is reported, a
healthy peer is kept and a dead one found.

**Host lookup** (`WDL/jnetlib/asyncdns.cpp`, `connection.cpp`). A thread looks a name up and
shares a cache with `Run` without a lock. Correct if an attempt ends and the cache outlives its
thread.

**Message formats** (`mpb.cpp`). Builders and parsers of every message. Correct if what parses is
what was built, also when it is cut short.

**Connection lifecycle** (`abNinjam/ninjamclient.cpp` 20-260, `abNinjam/ninjamclientAdapter.cpp`
148-257, `NJClient::Connect`, `Disconnect`, `Run` 1187-1340). Login, licence dialog, the thread
that keeps the connection alive, reconnects. Hard: four threads, a mutex held during a dialog, two
`connected` flags that are reset in different places. Correct if nothing is freed under a running
thread, calls return, and a lost connection is reported.

**App callbacks** (`NinjamClientBridge.cpp`, `NinjamClientJNI.cpp`, the adapter). The app
registers an object, the library calls it from two threads through a weak reference. Correct if
the reference is live, and the app knows whether it is connected.

**Session archive** (795-866, 3325-3338, 4546-4578; `abNinjam/ninjamclientAdapter.cpp` 741-772). A
folder that the app turns on and off beside the threads that save and list intervals. Correct if
no name is built from a folder being replaced, and nothing is listed after the end.

**Android engine and recorder** (`platforms/android/jni/OboeEngine.cpp`, `OboeCallback.cpp`,
`SessionRecorder.cpp`). Two streams, a callback with a plain pointer to one of them, a ring
between the callback and the encode thread. Correct if the codec has one user at a time, a stopped
engine is quiet, and the file is the recording.

**Not modelled**: vendored and generated code, the scenario tests, and in the components above
what their notes in `PROJECT.json` leave out.

## The modules

| Module | Models | Rests on |
|---|---|---|
| `AudioSlots` | the operators on `ds`/`next_ds`: deliver, silence, advance, skip; GUID tags | - |
| `IntervalQueue` | all channels of one remote user; notices, toggles, arrivals, swap | `AudioSlots` |
| `LockStep` | abstract: a listener hears interval k of every channel together | - |
| `ChannelGrid` | `IntervalQueue` fed by a regular sender on a network that may stall | `IntervalQueue`, `LockStep` |
| `AudioLine` | abstract: one channel, its siblings as nondeterministic choices | `AudioSlots` |
| `QueueImplementsLine` | the refinement of `AudioLine` by every channel of `IntervalQueue` | `IntervalQueue`, `AudioLine` |
| `VideoRecv` | one user's video, from the wire to the buffer that plays | `AudioLine` |
| `VideoPump` | from that buffer to the screen | - |
| `LocalUpload` | recording, block queue, encode loop, server | - |
| `VideoSend` | the camera: boundary, app and encoder beside the uploads, raw send queue | `LocalUpload` |
| `Channel` | abstract: a FIFO that may break | - |
| `Transport` | send queue, rings, socket, parser | `Channel` |
| `KeepAlive` | the clocks of both ends | - |
| `HostLookup` | how an attempt to connect begins or is given up | - |
| `Downloads` | from messages to the decoder in its channel, and the shared buffer | - |
| `Playout` | the mixing of one remote channel | - |
| `SessionList` | the list of session recordings | - |
| `MessageFormats` | builders and parsers | - |
| `IntervalClock` | tempo, boundary, clicks | - |
| `LocalChannels`, `RemoteUsers` | numbers, names, places; mute and solo | the second extends the first |
| `VorbisStream` | samples to pages to pieces to samples | - |
| `Mixdown` | a block from the hardware and back | - |
| `Connection` | connect, disconnect, process, threads, login | - |
| `AppEvents` | registration and callbacks | - |
| `Archive` | the session archive | - |
| `SessionRecorder`, `OboeEngine` | recorder and audio engine of Android | the second extends the first |
| `*_proofs` (8) | lemmas and theorems | the module of the name |

The `MC*` modules define sets for the configurations and, where a run needs it, a restricted
initial state or next-state relation. Parts that share no state are explored in one run as
*scenes*: a variable `scene` picks a part in the initial state, and the other parts keep their
initial state. `MCChannelGrid` has the scenes grid, lines and modes, `MCVideoRecv` regular and
reset, `MCVideoSend` three, `MCNetwork` seven, `MCClient` six, `MCPlatform` four.

Three things compose: the queues feed the video (`VideoRecv` runs on `AudioLine`, which
`QueueImplementsLine` shows every channel to be), the uploads feed the camera's marker
(`VideoSend` extends `LocalUpload`), and the engine feeds its recorder (`OboeEngine` extends
`SessionRecorder`). Where a component relies on another one through a narrower interface, the
model has that interface as a choice: what plays at a swap is any choice in `Downloads`, `Playout`
and `VideoPump`, because `IntervalQueue` and `VideoRecv` say what it can be; a network failure is
a choice in `Connection`, because `Transport` and `KeepAlive` say when one is reported.

### How state and actions correspond

*IntervalQueue.* `q[ch]` is `<<ds, next_ds[0], next_ds[1]>>` as a function on 0..2. An entry is
the tag (session, interval), whether the sender tags at all, and `fresh`, "younger than the
late-start guard". Untagged entries keep session and interval as ghosts, to say what order they
were recorded in; no guard of an untagged channel reads them. Where the code compares download
times (rejoining), the outcome is a choice. Every queue access is one critical section of
`m_users_cs`, so one action; `SetUserChannelState` is two, since it changes `submask` first.
`Swap` is the audio part of `on_new_interval` in three passes. `arrived` and `heard` are history.

*AudioLine.* What remains of that for one channel: append, mute, flush, release a wait, pass a
boundary. A boundary may wait, skip or start nothing, because of siblings it does not have.

*VideoRecv.* Video interval v carries the marker of audio interval v-1 (the audio recorded while
it was encoded is uploaded one interval behind it). A buffer is the set of the frames it holds,
each with the download it came from, so mixing and losing frames show. One WRITE is one frame. The
swap runs the promote, awaiting, match and fallback stages. `overtaken` is history: the fallback has
played an interval before one that waited.

*LocalUpload.* `bq` is the block queue, `up` what only `Run` touches, `lc` what the threads share.
A block remembers in which interval and mode it was recorded. `server` is the other end: it counts
what came, in which upload, and what it could not place. The encoder is the number of blocks it
still holds back. UI calls happen between runs, as `gsMtx` makes them.

*VideoSend.* Each of the three threads goes through its call in the steps at which another can see
a difference: a test, a GUID drawn, a message queued, a flag set. `Boundary` of `LocalUpload`
comes first, the video part of `on_new_interval` after it. `Run` drains the queue when the
channels are done, at once: it is a FIFO with one consumer, so draining it message by message
makes no difference to the receiver. `wire` (the last message that left), `bounds` (what has begun
and ended of the current GUID) and `spoke` are history, `hurried` says that two of the calls have
overlapped.

*Transport.* A byte is a message and a place in it. The two halves of a connection are the send
queue with its ring and the receiving ring with its parser; the socket takes and gives any part.
`SenderRuns` and `ReceiverRuns` are one `Run` of an end. Types and sizes of messages are kept;
what is in them is not.

*KeepAlive.* `quiet` and `silence` are the ages of `m_last_send` and `m_last_recv`; `Tick` is a
second, in which both ends are polled at any time.

*HostLookup.* The thread of the resolver and `Run` go step by step through the shared cache entry;
`BeginDelete` and `EndDelete` are the two halves of the resolver's destructor, which joins the
thread.

*Downloads, Playout, SessionList, VideoPump.* One action per message, block or swap. The list of
downloads is a function by their number, the order in which they were begun. A release of the
buffer is two steps, the read of the count and its write; what one message or swap lets go of is
released in any order. In `Playout` time is a number of
samples of one rate; what the channel should be at by now and what it has been fed are kept apart.
In `SessionList` two history variables, which no step reads, say what was announced last at each
time (`announced`) and which recording a split has put in its place (`renamed`).

*MessageFormats.* A message is a sequence of digits to base 4 for the base 256 of a byte: enough
that numbers wrap and that a string's end is a value of its own. Building and parsing are
operators, the action builds, cuts and parses.

*IntervalClock.* `m_interval_pos += x` is a read and a write, `_reinit` goes store by store, a
block is cut piece by piece.

*LocalChannels, RemoteUsers.* The adapter's map, NJClient's list with its `channel_idx`, the user
list and its cached copy are all there. A call of the app is two steps: the lookup in the cache
and the call with the place.

*VorbisStream.* Frames are numbered; the encoder holds some back; a page is two units in the byte
queue. Where libvorbis and libogg decide, any choice is allowed.

*Mixdown.* A sample is the bag of the sounds in it, each with its source, frame and number of
times the master has scaled it: a sound that is missing, doubled, late or at the wrong output
shows.

*Connection.* One program counter per thread (`app`, `keeper`, `timer`), the mutex, and `nj`, the
state of `NJClient` that decides about status. `Run` handles one message or finds nothing. Every
call of `connect` may start one connection thread.

*AppEvents.* `call` is where the app's thread is in its call, `core` where the connection thread
is, with the reference it has read; `refs` are the references that exist, `told` what the app's
object has been told.

*Archive.* Each archive has a folder of its own; the network thread looks at the setting, builds a
name and lists, in steps.

*SessionRecorder, OboeEngine.* One program counter each for the app's call, the callback, the
encode thread, and `writeSamples` within the callback. The ring holds numbered blocks; `fed` is
the history of what the codec took.

## The runs

| Run | Question | Bounds |
|---|---|---|
| `queues` | Is a queue in order, does it never play backwards, does a swap never mute the user, is audio skipped only to follow a sibling, do the channels sound one interval, is each an `AudioLine`, is a regular sender heard in lock step? | grid: 3 channels, 12 intervals, 8 swaps, one stall, lag 1; lines: 2 tagged channels, 2 intervals, with notices, toggles, departures; modes: 2 untagged channels, 4 modes |
| `video_recv` | With a regular sender, does every video start with its audio, and none get lost? With resets, waits, skips and lost audio, does a buffer ever mix intervals or the screen go back? | 5 intervals, 3 frames, lags 0 to 2, `HoldCap` 2; resets over 4 intervals of 2 frames |
| `video_send` | Are uploads whole, tagged right, and is every block accounted for? Do video intervals come whole and in order, is the open flag right after any race, does the marker name the audio that just ended? | 2 channels, queue of 1, 3 boundaries, 2 blocks, 2 connections, 2 starts, 2 setups, 1 frame |
| `network` | Does the transport implement a FIFO and report a break last? Are healthy peers kept, dead ones found? Does an attempt to connect end? Do downloads play, in place? Does the session list have the last announcement, but behind a split? Are all frames shown? | 3 messages, ring of 4, header of 2, queue of 2; keep-alive 1 s, delay 1 s; 2 attempts; 3 downloads; 2 intervals of 3 samples; 5 announcements up to time 7; 6 frames |
| `client` | Are messages read back, clicks on the beat, channels and users the ones named, the soloed heard, uploads decoded to the last sample, blocks mixed once? | base 4, 2 records; 14 samples, 3 tempos; ids {0, 2, 4}; 2 users with 2 channels and 2 calls; 2 uploads; 3 blocks mixed |
| `platform` | Do calls return, is nothing freed or called in use, is the codec used by one thread, is the recording whole, does the app know what happened, is the archive kept? | 3 connects; 2 engine starts, 2 recordings, 3 blocks, ring of 3, 2 encoder errors; 2 app objects; 2 archives of 2 intervals |

Six more runs show a disagreement between the code and what the code or a document says of it.
Each checks one property and TLC finds it violated:

| Run | What happens |
|---|---|
| `grid_stall` | After a stall that leaves an interval queued, the channel ahead waits although its queue will overflow, and every channel pays another interval (`docs/CHANNEL_ALIGNMENT.md:75`: once). |
| `video_head` | A boundary without audio splits a video download; its END replaces the head (marker, SPS/PPS, IDR) by the tail (1030). |
| `video_fallback` | With nothing in next, the fallback plays what accumulates although an interval, or the one it belongs to, still waits for its audio (4091; 4094: "avoid playing video earlier than its corresponding audio"). |
| `upload_clear` | Disconnecting with a mark of silence queued deletes the pointer -1 (447). |
| `connection_hasty` | Reconnecting at once after a loss frees the connection while the old thread may be in `Run` (`abNinjam/ninjamclient.cpp:231`). |
| `engine_nomic` | A start that fails at its output leaves the callback's pointer at the closed microphone; the next start, without one, reads it (`OboeEngine.cpp:45` in `platforms/android/jni`: not fatal). |

### Why the bounds are enough

*Queues.* A queue has three slots, so interactions are between at most three waiting intervals;
the intervals of the grid scene fill every slot and go on. `alignUserChannels` compares with the
latest and earliest channel, so two channels give each of its cases and the third, in the grid
scene, the one in between. The lines and modes scenes have many control actions instead and
fewer intervals: two are enough to distinguish a replay, and a hole or a misorder needs two
entries. What they do not reach (a wait ended by a subscribe call with a third interval behind it)
is covered by the theorems.

*Video.* Three frames are marker, setup and picture, the roles the code distinguishes. Two
intervals can wait (`awaiting` holds two), one accumulates, one plays: five intervals reach a full
list; with resets four intervals of a marker and a setup frame do. `HoldCap` is 2 instead of 6 so
that the cap is reached (4 in `video_head` and `video_fallback`, where it plays no part).

*Upload and video send.* The cap of the queue is 1 instead of 512 so that it fills; marks may
exceed it, as in the code. Channels share nothing but the order in which `Run` visits them, so one
is enough for the properties of a channel; the camera's threads and the channels meet only at the
marker, so the scenes give each the bounds it needs. Three boundaries see an interval begin by the
app, go on, end, and begin again; two channels let the lowest one fall silent while the other goes
on.

*Network.* A message of a header alone fits into the ring and one of five bytes does not, so both
partial writes and wrapped rings occur; two messages fill the queue and the third one breaks the
connection. A keep-alive of one second makes a healthy connection as tight as it can get. Three
downloads on one channel let a timeout, an END and a return of the user overlap. Announcements of
every length up to 7 include splits, cuts on both sides and pieces that fall below the minimum.

*Client.* Base 4 lets a number of two bytes wrap and a length field overflow. Fourteen samples are
more than two intervals of the longest length. Ids with gaps distinguish a number from a slot. Two
users suffice for places that shift; they are interchangeable, which the symmetry set uses (no
property of the run is a temporal one).

*Platform.* Two connections exercise a reconnect; the third one adds a connection thread that
outlives its successor. The licence steps of the connection thread and of `process()` are never
taken while the app waits: `connect` has seen the login through by then. A ring of 3 holds two
blocks, so a block waits while another is read. Two recordings show what one leaves to the next.

`CHECK_DEADLOCK FALSE` is set everywhere: the models stop when their bounds are used up, and a
client nobody uses may rest.

The type invariants of the modules (`TypeOK`, `UploadTypeOK`, ...) document the state. Those of
`IntervalQueue` and `VideoRecv` are theorems, and what the other proofs need of them is part of
their inductive invariants; the runs spend their time on the other properties.

### What the scenes assume

- `AppWaits` (`Connection`): the app makes no other call during `process()` and does not connect
  while an old connection thread runs. `connection_hasty` shows what it is for.
- `Timely` (`SessionRecorder`): a callback is not stopped halfway for as long as a recording takes to
  end and another one to begin, and the encode thread is never a whole ring (two seconds) behind.
  The recorder has no guard against either; without it `RecordsAll` fails.
- `Few` bounds the engine's starts together with the recordings; it excludes no order of steps.
- `Unhurried` (`Archive`): the archive is not turned off and on again between a thread's look at the
  setting and its file. The comments at `ninjamclientAdapter.cpp:744-747` rely on it.
- `AppEvents` lets the app register only while no connection thread runs: `setCallbackTarget`
  deletes the weak reference that thread uses.
- Exceptions that a property itself names (a reset in the middle of a block, the end of the stream
  met at the end of the ring, a lost update of the solo flag, a user who left between lookup and
  call, ...) are listed under the observations.

### Fairness

- `Connection`: weak fairness of the app's, connection and timer threads (they are scheduled);
  strong fairness of taking `gsMtx`: it is released again and again, and a waiting thread gets it
  eventually, because both loops sleep outside of the lock. Weak fairness of `LoginGoesOn`: a
  server that stops answering is given up after three keep-alive times (`netmsg.cpp:215-217`),
  which is `NetDown`. Once logged in nothing is assumed of the server, and nothing ever of the
  user: the licence dialog may stay unanswered, and `connect` still returns, because
  `licensecallback` gives up after two minutes.
- `Transport`: weak fairness of both ends' `Run`; strong fairness of an `EndSend` that changes the
  connection: a name that does not resolve and a server that does not answer are given up in time.
- `KeepAlive`: time passes, and each end is polled in each second (`Run` is called every few
  milliseconds).
- `HostLookup`: weak fairness of the resolver's thread (a lookup returns, found or not), of `Run`,
  and of the join.
- `OboeEngine`, `SessionRecorder`: weak fairness of the encode thread, of the callback once it is
  in a call, and of a call once the app has made it.

## What is proved

The theorems hold for every value of the constants but for the assumptions in the last column
(and the named `ASSUME`s of the modules, which only give the constants their types, but for those
of `KeepAlive` and of `Mixdown`: a call for a stereo engine brings the outputs of one). The exceptions that a property itself names are not repeated here: for instance
`VideoForward` is about the time until the fallback overtakes an interval, `IdsReachChannels` about
channels that no connection has stranded, `CallReachesUser` about the time until somebody leaves.

| Theorem | Says | Assumes |
|---|---|---|
| `TypeCorrect` | `Spec => []TypeOK` of `IntervalQueue` | |
| `HoldsHaveAudio` | a channel that waits is on the interval grid and has something to play | |
| `QueuesOrdered` | recording order, no hole, nothing later than the last arrival | |
| `NeverReplays` | no swap plays an interval twice, or an older one (`PlaysForward`) | |
| `WaitingNeverMutes` | a swap leaves no user silent who had an interval to start | |
| `SkipsFollowSiblings` | an interval is skipped only to catch up with a sibling that was playing | one sender session; all of its intervals tagged or none |
| `AlignsAtSwap` | tagged channels that sound after a swap are on one interval, unless the one ahead has a full queue | one sender session |
| `QueuesAreLines` | every channel of `IntervalQueue` is an `AudioLine` while it goes by the swaps | |
| `VideoTyped`, `BuffersAreWhole` | the buffers of the receiver keep their types, and none mixes two intervals | |
| `ScreenGoesForward` | the screen never goes back to an earlier interval (`VideoForward`) | |
| `AllIsShown` | no frame of an interval that was whole in time is left over | |
| `UploadsAreWhole` | one upload at a time, each block in one upload and once | |
| `TagsNameIntervals` | the tag of an upload is the interval all of its audio was recorded in | |
| `UploadsBesideVideo` | both for `VideoSpec`, with the threads of the camera | |
| `VideoGoesOutWhole` | video intervals go out whole and in order while the calls do not overlap; the open flag is right after any race (`VideoFramed`) | |
| `MarkersNameTheLast` | a video marker names the audio interval that ended as its own began (`MarkerNamesLast`, with the conditions it states) | |
| `MessagesBeforeTheEnd` | a break is reported when all that came whole is handled | |
| `ConnectionIsChannel` | the transport implements `Channel`, but for its fairness | |
| `SessionPlaysTheLatest` | the session's list says at each time what was announced last for it, or nothing at a sliver; behind a split the right place under the new recording (`PlaysTheLatest`) | |
| `DownloadsServe` | nobody has a deleted buffer, none is deleted twice, and what comes to its end plays (`DownloadServes`) | |
| `HeardIsInPlace` | what is heard on the grid is at its place in the interval | |
| `CacheIsThere` | the resolver's thread uses its cache only while it is there | |
| `HealthyNeverDropped` | two ends that run never take each other for dead | the peer's keep-alive time, a second and the delay are together at most three times one's own |
| `ClicksAreBeats` | clicks are the beats of one tempo, blocks are cut at the boundary | |
| `NumbersReachChannels` | a number of the app reaches the channel it was made for | |
| `CallsReachUsers`, `SolosAreHeard` | a call acts on the user it names; the soloed are heard and no others | |
| `MixingOnce` | a block comes back mixed once, everyone heard in all of it (`MixedOnce`) | |
| `DisconnectIsAlone` | `Disconnect` meets no connection thread in `Run` | `AppWaits` |
| `CallbacksAreLive` | a callback goes by a reference and a client that exist | the app registers while no connection thread runs |
| `AppIsTold` | between its calls an app knows whether it is connected, and the tempo | the same |
| `ArchivesAreKept` | no name is built from a folder being replaced, nothing is listed after the end | `Unhurried` |
| `CodecIsExclusive` | codec, muxer and reading side of the recorder belong to one thread at a time | |
| `RecordingIsAll` | the file is the recording: each block once, in order, none missing | `Timely` |
| `StoppedIsQuiet` | an engine that does not run holds no stream, and no callback runs | |

Each safety property is a corollary of an inductive invariant, kept by one lemma for each action.
What the invariants add, and why:

*Queues.* Order alone is not inductive: an arrival is known to be later than the arrival before
it, not than what waits. `QueueOrdered` therefore also bounds what waits by `arrived`, and the
inductive invariant `IInv` is `TypeOK /\ HoldHasAudio /\ QueueOrdered`, proved together: the
lemmas about slots need the types, and the holds need to know what a skip leaves.
`AudioSlots_proofs` shows that each operation (`Deliver`, `Silence`, `Shift`, `Advance`, `SkipTo`,
`AgeAll`) keeps slots slots and ordered queues ordered (`InOrder`), once and for all actions. The
hard action is the swap (`SwapIInv`): a skip must keep the order (`SkipToInOrder`), and a channel
told to wait must still have its head after it (`SkipToKeepsHead`), which holds since only a
channel ahead of the target waits, and a skip drops only what is before the target.

*What is heard.* `NeverReplays` adds `ForwardInv`: all that waits is later than what was heard
last (`Ahead`). Every operation on slots keeps `Ahead`, and a swap takes the first of what waits.
`WaitingNeverMutes` looks at one swap: of the channels that are compared one is at the target and
neither waits nor skips, and a rejoining channel that is told to wait is so because of a sibling
that sounds. `SkipsFollowSiblings` follows the target of a skip back to the channel it came from,
which was already there; that takes an invariant (`TagsSent`: what waits has tags if the sender's
downloads have).

*Alignment.* `AlignsAtSwap` follows a swap through its passes: a channel behind the target skips
(`SkipStops`: not past the target; `SkipReaches`: to it when it has it), one ahead waits unless
its queue is full, so those that sound are at the target (`SwapAligns`). With two sender sessions
in one queue this is not so, because the skip compares interval numbers only (observation 14).

*The refinement of the line.* `QueuesAreLines` maps each step of the queues to append, mute,
flush, release, pass or a stutter of every line. It needs `IInv`, since a line only waits with
something to play. Its proof showed that a subscribe call can end a wait without changing the
queue, a step (`Release`) the bounds of the run do not reach. In voice chat and session mode a
channel advances between the boundaries, which no line does, so the statement is about the steps
that begin or end on the grid.

*Video receive.* That no buffer mixes intervals is about where the next frame goes, so
`VideoInv` says that each buffer's frames and its own interval agree (`Content`), that the append
flags, if they name the interval under way, point at the buffer that has it (`Aims`), and that
there is nothing of an interval before its marker (`Unstarted`). For the screen the buffers stand
in line (`InLine`): pending, what awaits, next, accumulating, none later than the one after it;
what plays is the first of them (`First`), and the audio that waits is in order and newer than what
the last boundary heard (`Audio`). The fallback breaks `First` (`video_fallback`), hence
`~overtaken` in `VideoForward`.

*Uploads.* A channel's queue is a list of blocks and marks of which `Run` has encoded a prefix, and
any boundary, mode change, disconnect or full queue may fall between. The invariant `UploadInv` says
of each place in a queue whether an upload is under way there (`Live`): the audio between two ends
is of one interval, the last of this one (`OneInterval`); an upload is over before a mark of silence
(`Quiet`), and a channel that has stopped has that mark behind its last audio (`FallsSilent`); what
a connection before this one left open ends before any audio (`EndsFirst`); and audio that is
encoded always has a BEGIN before it (`Going`). The video threads only add steps that `LocalUpload`
has or that it cannot see, so the same invariant serves `UploadsBesideVideo`.

*Video send.* For the flag, what has begun and ended of `m_video_guid` is known from whether a
thread has yet to begin it; a begin that comes late, under an older GUID, finds an interval open,
and a boundary that closes meets no app that opens. For the order, the latest message is known
from where the one busy thread is.

*Markers.* A boundary copies a GUID that `Run` may draw long after the audio was recorded, so the
invariant `MarkInv` says what a queue will make of it. Of a channel that is on the grid and has
kept its mode, the last audio behind which there is no other, in the queue or already in the GUID,
is of the interval the channel last spoke in (`EndsWith`); as long as it goes on, no silence is
behind that audio (`Sounds`), so the GUID will not be cleared; a channel that has stopped will have
cleared it when its queue is empty (`FallsSilent`). Nothing in the queues is of a later interval
(`Past`), nor of this one while `on_new_interval` is still at work, which is why the marker, the
last but one of its steps, cannot be ahead. With `KeptUp` the queues are empty but for an end, and
the statement can be read off.

*Transport.* What is unread in the receiving ring, under way, and not yet sent makes one line of
bytes: it begins where the parser is, each byte follows the one before, and, as long as the stream
flows, it ends where the sending loop is. A step adds bytes at the end, takes them from the front,
cuts the line where the connection breaks, or moves bytes along it (a ring that wraps, a piece
that the socket takes). A message is handled when its last byte is at the front; the channel's
FIFO is the messages between parser and queue.

*Playing, video pump.* On the grid the samples taken and those still to be dropped add up to the
place in the interval, and a decoder that is held has taken none. In voice chat the intervals wait
in the order they were sent, and all but the newest have come to their end. A clip that was whole
when the last block began still is, and at the end of the interval the time of each of its frames
has come.

*Downloads.* A buffer has two references at most, the download's and that of one decoder, each in
one place: the list, a place of one channel, or the thread that is to release it (`Alone`). A
reference is added only by a download that has not started (`StartsOnce`), which no thread is
about to release; so what a thread has read of the count never says less than there are
(`CountsAll`), however two releases race. What has not started is in the list, and the list's
time is never more than the silence, or it has been silent too long (`Listed`).

*Session list.* An announcement leaves of each piece what is outside of its own span (`AddIs`: the
loops of `AddSessionInfo` find the place of the new piece and what it covers, and cut at both
ends). What is left keeps its place in the recording, and its guid unless it is behind an
announcement that began in the same piece (`Named`); so a piece has the place that was announced
last for its times, and the guid too where no split has renamed them (`AgreesIn`). It never has the
announcement of its times beside it (`EdgesIn`), since it is cut only where another begins or ends:
so what was too short to be kept was alone, and its times are a sliver (`CompleteIn`).

*Clocks.* `AliveInv` bounds an end's silence by its peer's clock: with nothing under way, it is no
longer than the peer's quiet, which a poll ends after `m_keepalive` seconds; with something under
way, it is that and the age of the first message, at most `Delay`. The metronome counts down and
never looks at the interval's position: that the two agree (`Counts`) is what lets a block be cut
anywhere.

*Tables.* A free slot is found by counting; that a removed channel was the only one of its slot
(`OnePerSlot`) is what must be carried along, through the renumbering too. Until somebody leaves,
the cache names the users at their places, because newcomers come last. Each of the two solo bits
tells the truth about its masks but while the app is between a change and its update.

*Mixing.* `MixInv` carries a block through the phases of the audio thread: silent when it is
checked, mixed up to `piece.done` and silent from there on, and the same of what the hardware was
given. A frame starts as an empty bag, gets sounds that differ in name, side or input, is mapped by
the master, which is injective, and gets the metronome: so each sound is there once. That a remote
channel goes on where one long piece would have read it rests on the reader: what it has taken and
the fraction it keeps are together the position in the interval (`MixTypes`, `ReadPlace`), unless
the channel was muted, when the fraction stays behind.

*Threads.* `LookupInv`, `ConnInv`, `CallsInv`, `KnowsInv`, `ArchiveInv`, `RecorderInv` and
`QuietInv` have one shape: they tie the program counter of the app's thread to the threads that
can be alive then (the thread that has not ended is the one to be joined; none between the join
and the next start) and to the objects that exist then. The safety property is the place where the
two meet, and is not inductive alone. `RingInv` adds what the recorder's ring holds: read back
from the writing position, the unread places are the last blocks published, all of this recording
and later than what the encoder was fed.

### Model-checked only

- `PlaysInLockStep`, `InSync`: they are about a regular sender, a restriction of the next-state
  relation by the scene; what they rest on (order, alignment, lines) is proved.
- `ReadsBack`, `UploadDecodes`: what a parser or a decoder computes for every input needs
  induction over data, which is out of the prover's reach.
- Liveness (`EveryCallReturns`, `AttemptEnds`, `DeadPeerFound`, the fairness of
  `ImplementsChannel`): it rests on fairness and on when actions are enabled, which is outside
  what the prover handles.

## What the models leave out

- Samples, volumes, effects, file formats, wording of messages, logging, and the wave and ogg
  files written beside the upload.
- Time in seconds, except in `KeepAlive`. Other timeouts are choices: a late start is `fresh`, the
  licence timeout may come at once, the eight seconds of a download are a number of steps.
- Data races on a container itself. The video part of `on_new_interval` walks `m_remoteusers`
  without `m_users_cs` (3905, 3955, 4097), `Run` walks `m_locchannels` without `m_locchan_cs`
  (1984), which only `gsMtx` protects, and UI threads call `Send` without `gsMtx`. An access is
  one step.
- A video WRITE that carries half a frame, or several.
- Floating-point arithmetic: the seek lengths of session playback, resampling positions, clock
  drift.
- Torn reads of anything but the GUID in the marker, the buffer's count, the interval position and
  the solo flag.

## Observations

Seen while modelling, beyond the six runs. Those marked + were confirmed by TLC with a temporary
property; a property that such a behaviour would break names it as an exception.

*Uploads and video.*

1. + `Run` decides whether to tag an upload when it encodes it (2052). If a voice-chat channel
   returns to interval mode with blocks of two intervals queued, they become one upload with the
   tag of the first (`docs/CHANNEL_ALIGNMENT.md:28-29` says a tagged GUID names the interval).
   `TagNamesInterval` therefore asks for a channel that has kept its mode.
2. `Disconnect` keeps `bcast_active`, `m_need_header` and the GUID (1098-1110). A voice-chat
   channel that transmits over a reconnect sends up to one chunk of WRITEs without BEGIN.
3. An end block that finds an encoder but no audio (all of it dropped) sends a last WRITE with the
   previous upload's GUID.
4. The fallback that starts an accumulating video (4091, `video_fallback`), and the hold test at
   3821, ignore `hold_swaps` (`docs/CHANNEL_ALIGNMENT.md:93-94`).
5. `prev_ds_guid` is written only when a video interval is in next (4087), `njclient.h:493` says
   at every swap.
6. + `SetVideoChannel` in mid-interval sends BEGIN and SPS/PPS without a marker (2344-2366);
   `docs/VIDEO_SYNC.md` says the marker is the first chunk of every video interval.
7. + The three threads of the video do not exclude each other: a frame may go before the marker or
   after the END (2378), a marker before its BEGIN, and an interval the app begins at a boundary
   may never end (2354). `VideoFramed` is therefore about calls that do not overlap.
8. + The marker copies the GUID that `Run` has drawn last. If `Run` takes the marks of a channel
   that stops transmitting between the cut and the marker, the marker names nothing; after a
   reconnect the first marker names an upload of the old connection. `MarkerNamesLast` says when
   the marker is right.
9. `Disconnect` leaves `m_video_streams`, the raw send queue and `m_video_interval_open` as they
   are.
10. Frames whose END comes after the last block of an interval are lost at the swap (`AllShown`
    asks for an END in time); frames in the voice-chat delay line remain when the mode changes.

*Queues, downloads, playing.*

11. A channel on hold ignores a late start (3648), although one decision is to hold for all the
    user's channels (3574).
12. A zero GUID (silence) that arrives with a full queue clears `next_ds[1]`, dropping the
    interval in it (1495).
13. + With two stalls (`MaxStalls = 2` in `ChannelGrid`) a queue can overflow, and then
    `PlaysInLockStep` fails: the channel that lost an interval to the overwrite has nothing to
    play with the others.
14. The skip of `alignUserChannels` compares intervals of what waits without their session: a
    sender who reconnects while a channel still has intervals of the session before can make it
    skip past the target.
15. A download that has timed out is dropped only while another WRITE walks past it (1881); a user
    who returns under the same name gets the download of before; `startPlaying` asks for the user
    and the session flag alone.
16. `DecodeMediaBuffer` counts its references with a plain `int` released on two threads.
17. Samples to drop (`dump_samples`) stay when a USERINFO changes the mode of a channel.

*Connection.*

18. `NinjamClient::connect` goes by its own `connected` member (230), which a lost connection does
    not reset: a reconnect that fails returns success, and `process()` reports the failure later.
19. `process()` may be in `Run` while `disconnect` or `connect` call `Disconnect`: it is not
    joined.
20. A licence answer that arrives after its two minutes is taken for the next dialog; meanwhile
    `Run` sends no keep-alive.
21. A connection lost during the login is reported as invalid credentials (1236). The codes 220
    and 221 of `connect` are unreachable.
22. + The end of the stream met by the second `recv()`, at the end of the ring, is reported before
    what the first one brought is handled (`HandledBeforeLost` excepts it).
23. UI threads call `Send` without `gsMtx`, while `Run` drains the same queue and `Disconnect`
    deletes the connection.
24. Giving an attempt up during a lookup joins the resolver's thread under `gsMtx`, so the UI
    waits for the lookup; a `pthread_create` that fails leaves a stale thread id to join.

*App and platforms.*

25. `process()` clears the adapter's `connected` only if there is a callback for disconnection.
    After a reported loss `getBPM` returns 120, so the same `process()` may report a tempo of 120.
26. `lastReportedBPM` and `lastReportedBPI` are never reset: a new target, or a reconnect to a
    room of the same tempo, gets no report; the report "immediately after connection" (adapter,
    186) may come before the room's.
27. `setCallbackTarget` during a connection deletes the reference the core's threads use;
    `nativeDestroy` leaves the engine's pointer to the client.
28. A stop of the archive followed at once by a start can replace the folder while a thread that
    saw saving on builds a name. Intervals begun before saving is on are listed without a file.
29. The recorder's ring has no guard against overflow; a `writeSamples` that was under way at a
    stop may publish into the next recording; `drainEncoder` with a timeout of 0 may lose the tail
    its comment promises (`SessionRecorder.cpp:124`); a start after an unsaved recording orphans
    its temporary file; `save()` while recording renames an open file.
30. `OboeEngine::stop` frees the input stream while a callback that is under way may use it.
31. `audiostreamOnSamples` reads `connected` twice: going down in between repeats the block before
    (`processAudio`, `3`, `N`; `OutN` zeroes first). `processAudio3` and `N` in a mono engine
    leave the right buffer as it was.
32. `setAudioConfig` frees its buffers by the new channel count, while audio runs. `sendAudio` and
    `playMetronomeTick` call `AudioProc` from another thread than the audio's.

*Clock, formats, users.*

33. A first tempo that is refused (interval too long) enables audio with a metronome interval of
    0: a click on every sample. An interval that is not a multiple of the beats gets a further
    click just before its end.
34. `_reinit` beside a block can leave `m_interval_pos` beyond `m_interval_length`, and a piece of
    negative length.
35. A reply without a text loses its `maxchan`; a chat message of one string and an empty usermask
    or userinfo message are refused by their own parsers.
36. Autosubscribe subscribes again at any USERINFO of the channel; `adjustVolume` has no caller
    and takes ordinals for ids; `getPeaks` on the audio thread can fill the cache again between
    its invalidation and a disconnect.
37. `removeLocalChannel` with an unknown id deletes the channel in that slot;
    `setLocalChannelMonitoring` appends a channel without a lock and without telling the server; a
    disconnect renumbers the channels and keeps the map.
38. The encoder's own halving (bitrates up to 32) drops a sample of an odd block.

*Session list.*
39. `AddSessionInfo` makes what is behind a split of its argument `guid` (4659) and of the old
    piece's offset (4660): recording 1 announced on [0, 7) and then 2 on [2, 5), and [5, 7) plays
    recording 2 from 5 on, where it may have nothing, instead of 1. What is trimmed because the
    announcement reaches beyond its piece keeps its own guid (4680). An announcement that finds the
    list full is not in it, but has renamed the rest all the same. No sentence of the repository
    promises more; `PlaysTheLatest` says where it happens, and that it happens nowhere else.

## Plan

Done: the models of all components above, and a theorem for every safety property of theirs but
those that are only model-checked.

What is left, in this order:

1. `VideoRecv`: frames split over WRITEs, and the subscription that changes while video runs.
2. `Playout`: the pieces of session playback with rational lengths; `Connection`: the estimate of
   the clock's drift.
3. The races on containers listed above, as steps of their own.
