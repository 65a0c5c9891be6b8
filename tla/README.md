# A TLA+ model of readsb-rs

readsb-rs turns samples of a 1090 MHz receiver into aircraft. This directory
holds TLA+ modules that model the way from the device to the tracker and from
there to clients, files and the console; TLC configurations that check them on
small instances; and proofs of nearly all their safety properties, for every value of
the constants. `PROJECT.json` maps every definition to the source lines it
stands for; paths below are relative to the repository's `src/`.

    tlc -workers 4 -config MCTracker_timing.cfg MCTracker     # one run
    tlapm TrackerProofs.tla                                   # the proofs of a module

## 1. The system

```
 rtl_tcp server --TCP--> reader task --mpsc--\
 file -------------------------------------- main loop --> Outputter --> stdout
                                             |   |  \--broadcast--> Beast/Hex clients
                                             |   demodulate, parse, CRC     |
                                             v                    viewsb, beast-client
 network clients --broadcast--> incoming --> Tracker / AircraftRegistry
                                consumer      |        |
                                        SBS task    JSON task
                                           |           |
                                        broadcast   aircraft.json
```

Everything is a tokio task on a multi-threaded runtime, so tasks really run in
parallel. They share the registry (a `RwLock<HashMap<u32, Arc<RwLock<Aircraft>>>>`),
tokio channels, two atomics (shutdown and console level) and the ICAO filter.
viewsb and beast-client are programs of their own with a single thread.

| Component | State it keeps | Operations | Talks to | What makes it correct | Hard part |
|---|---|---|---|---|---|
| Data validity (`tracking/validity.rs`) | source and time of the last accepted value | `update`, `is_valid` | aircraft records | data of a low rank does not renew data of a higher one; expiry at its bound | boundaries, unordered times |
| Aircraft record and update (`tracking/aircraft.rs`, `tracking/tracker.rs`) | about 40 fields, two CPR frames, eight signal levels | `update_from_message` | CPR decoder, SBS encoder | derived fields agree with the fields they are derived from | values, validity and derived data are written under different conditions |
| Aircraft registry (`tracking/aircraft.rs`, `main.rs`) | the map and one lock per aircraft | `get_or_create`, `remove_stale`, `iter_aircraft` | main loop, incoming consumer, SBS and JSON tasks | nothing recent is lost, nothing stale survives a sweep, a report covers the registry | two levels of locks, an `Arc` that outlives its registration, time stamps older than the clock |
| SDR setup (`sdr/rtl_tcp.rs`, `sdr/manager.rs`, `sdr/ifile.rs`, `main.rs`) | connected, configuration | connect with retries, info, settings, gain | server | configured before the first sample is read | nothing is answered; failure half way |
| Sample stream (`sdr/rtl_tcp.rs`, `sdr/ifile.rs`, `main.rs`) | chunk under construction, bounded channel, overlap | read, send, receive, strip header, prepend overlap, retry, stop | server, demodulator | no byte lost, torn or reordered; every message start seen; the program ends with its input | partial reads, back-pressure, end of stream, errors |
| Demodulator (`demod/*`) | position, pass, results, noise floor | quick check, phases, scoring, passes, subtraction | CRC, ICAO filter, main loop | what is sent is found, once, and as it was sent | candidates next to each other, five readings of one message, scan positions skipped |
| CRC and repair (`crc/*`) | tables only | checksum, diagnose, fix | demodulator, parser | small errors are repaired to what was sent, never to something else | syndromes that collide |
| ICAO filter (`demod/icao_filter.rs`) | a set of addresses | add, test | demodulator, main loop | who has not sent anything is not in it | damaged addresses |
| Parser (`modes/*`) | none | one message into its fields | main loop, tracker | a field is what was sent | bit layouts |
| CPR (`cpr/*`) | none | global, relative and surface decoding | tracker | the position is the true one | zones, poles, the date line, movement between frames |
| Network (`net/server.rs`, `net/client.rs`, `main.rs`) | receivers of broadcast channels per connection | accept, publish, write, read, feed | main loop, tracker | a client gets all it keeps up with, in order, unaffected by others; input reaches the tracker | lagging receivers, `select!` cancellation |
| Beast protocol (`net/protocols/beast.rs`, `net/client.rs`) | a read buffer with an offset | encode, parse, read loop, batch reader | servers and clients | frames arrive as they were sent | escaping makes lengths variable, several frames per read, frames cut by a read, stale bytes, read errors |
| viewsb and beast-client (`viewsb/*`, `bin/beast-client.rs`) | tracked aircraft, files, counts | poll, replace files, record, replay, compare | Beast server | files are never seen half written; a recording can be replayed; a comparison counts each key once | killed at any time, writes that fail and later succeed, keys of several payloads, expiry |
| Console (`console/*`, `main.rs`) | level, two snapshot maps, three deques, counters | feed, flush low, flush medium, final flush, cycle level | main loop, signal tasks | a report is about its window; change lines add up to the baseline; lines follow the signals | pruning on demand, baselines that are swapped, level shared without exclusion |
| JSON, globe, heatmap, binCraft output (`output/*`) | none | format one record | files | layout | none |

`hazards` in `PROJECT.json` lists line by line what can go wrong here that a
test would hardly reach, with the property that would notice, or the reason why
none does.

## 2. The modules

| Module | Models | Used by |
|---|---|---|
| `DataValidity` | `DataValidity::update`, `is_valid` | `Aircraft` |
| `Aircraft` | the record and `update_from_message` under the aircraft's lock | `Tracker` |
| `Tracker` | registry, its two locks and the four tasks that use it | `MCTracker`, `TrackerProofs` |
| `AircraftTable` | abstract: the table of recently heard aircraft | refined by `Tracker` |
| `SampleStream` | reader task, channel, file, main loop, overlap | `SdrSetup` |
| `SampleFeed` | abstract: contiguous overlapping stretches of one stream | refined by `SampleStream` |
| `SdrSetup` | opening the device, composed with `SampleStream` | `MCSampleStream` |
| `Crc` | checksum, error table, repair (pure) | `Demod` |
| `Demod` | one buffer from magnitudes to tracker and ICAO filter | `MCDemod` |
| `ModesParser` | the fields of a message (pure) | `Positions` |
| `Cpr` | the three position decoders in exact integers (pure) | `Positions` |
| `Positions` | a flight, its transponder, and what the receiver makes of it | `MCPositions`, `PositionsProofs` |
| `Network` | accept loop, both directions of a connection, incoming consumer | `MCNetwork` |
| `BeastCodec` | escaping, encoding, parsing, the two search loops (pure) | `BeastReaders` |
| `BeastReaders` | `read_loop` and `read_beast_frames` as readers of a wire | `BeastClients` |
| `BeastClients` | record, compare and viewsb behind such a reader | `MCBeast` |
| `ConsoleLevel` | the level and the two signal tasks | `Console` |
| `Console` | the outputter and its statistics as the main loop drives them | `MCConsole` |
| `*Proofs` | lemmas and theorems of `Tracker` (with `Aircraft`), `SampleStream`, `SdrSetup`, `Network`, `Demod` (with `Crc`), `Positions` (with `ModesParser` and `Cpr`), the three `Beast` modules, `Console` | - |
| `Recursion` | lemmas: induction over numbers and measures, recursive functions satisfy their equations | `DemodProofs`, `BeastProofs`, `PositionsProofs` |

Definitions named `X_Something` with the remark *mutant* are wrong variants of
`X`, each a plausible bug, some of them bugs the CHANGELOG reports as fixed.
Nothing uses them; put in the place of `X` they must break the property
`PROJECT.json` pairs them with, which shows that the property can fail.

### 2.1 Tracker

*State.* `registry` is the map, with a record per registered address; `pc`,
`msg`, `now`, `orphan` are the locals of the main loop and of the incoming
consumer; `left` the messages still to be fed from the current buffer; `todo`
what `retain` has not visited; `rpc`, `rtodo`, `report` the iterations of the
readers. `heard` is history.

*Steps* are critical sections. `GetOrCreate` is the map's write lock;
`Apply` the aircraft's. Between them a task has only an `Arc`: `SweepRemove`
moves the record of an address someone is about to update to `orphan`, and the
update then reaches a record nobody can find. A sweep holds the map's lock from
`BeginSweep` to `EndSweep`, an iteration its read lock from `BeginReport` to
`EndReport`; an aircraft's lock is held within one step and needs no variable.
`Apply` is the whole of `update_from_message` in the code's order: values and
validity, `geom_delta`, plain fields, CPR frame, relative and global decode,
signal, counter, `seen`.

*Abstractions.* The content of CPR frames, what the two decoders make of them and
which positions are in range are constants; `Positions` has the decoders
themselves. Thirteen of the fields are kept, the others are written the way one
of these is. Source ranks are the enum's numbers.

*Time.* The code stamps all messages of a buffer, and its sweep, with one time
taken before them, and a network message with its own. `Tick` may happen between
any two steps as long as no task works more than `MaxLag` with one stamp. That is
an assumption on the environment (a buffer takes less than `TRACK_EXPIRE`, which
is minutes, to process), stated as `MaxLag < TRACK_EXPIRE`. The system clock is
taken not to run backwards.

*Properties.* `RecordsInPlace`: records are under their own address, ignored
addresses have none, and the sweeping task never holds an orphan.
`OrphanOnlyIfExpired`: an update is lost only for an aircraft already silent for
`TRACK_EXPIRE`. `SweepLeavesNoStale`: between buffers nothing is older than the
last sweep may keep, whatever was fed during it. `ReportCoversRegistry`: a
finished iteration has exactly the registered aircraft. `ExpiryNeedsSilence`:
aircraft go only after a silence of `TRACK_EXPIRE` less the lag. `DeltaConsistent`:
who sees both altitudes valid sees their difference in `geom_delta`.
`ImplementsTable`: all tasks together are the abstract `AircraftTable`.
`MessagesAreApplied`, `BuffersAreFinished`: sweeps and reports, which hold the map's
lock over many steps, do not keep a task out for ever. (Who holds an aircraft's lock
waits for nothing in the code, so it is held within one step of the model, and the
order of the two kinds of lock is no question.) `TypeOK` is not a property of a run:
it is proved, as the ground of the other proofs.

### 2.2 SampleStream and SdrSetup

A byte is its position in the stream. `ReaderRead`/`ReaderEnd`/`ReaderSend` are
the reader task, `ReadRtlTcp` is `recv` on the channel, `ReadFile...` is
`read_samples` of a file, and `Top`, `Break`, `Retry`, `Wake`, `Process` are the
arms of the main loop; `Senders` are the holders of the channel's sending end, of
which the client keeps one. `Begin` and `BeginAfterHeader` are what happens before
the loop: of an SC16Q11M file a first read is made, which loses its header and
primes the tail (`primed` is how far). `Process` builds the window handed to the
demodulator and the tail for the next one; `Starts` are the positions the
demodulator tries in a window. Reads of the socket return any number of the sizes
given; those of a file whole pairs. `device` is chosen initially and never changes.

`SdrSetup` extends it with what comes before: three attempts five seconds apart,
the server's twelve bytes of info, four settings each of which may fail with the
connection, unsent or half sent (`send_command` writes it in two parts), the reader task, and a configured gain sent while that already runs.
`Open` and `OpenFails` of `SampleStream` happen inside these steps; all other steps
leave the stream alone, which `SetupRunsStream` proves.

*Properties.* `ImplementsFeed`: windows are contiguous, overlapping, in order,
without loss. `EveryStartScanned`: no sample is left out as the start of a
message. `PairsAligned`: I and Q are never swapped. `SettingsComeFirst`: nothing is
read from a server that has not been sent all settings, and the gain it was sent
last is the configured one unless a write failed. `ChunksProcessed`: what the
server completed is processed, unless the connection breaks or the user
interrupts. `FileEndsProgram`: a file ends the program, also after read errors.

### 2.3 Demod and Crc

A message is the transmission it comes from and the set of bits in which it
differs from it, so that a checksum is that of the difference (the code's checksum
is linear, which is proved, and `Crc` computes it with the shift register's steps).
What is read has the length of what was sent, or a type no phase is scored for: wrong
type bits that make a short message of a long one are not represented. Samples are
abstracted to *candidates*: positions that pass the quick check, with the level of
the three correlations and what the bits look like in each of the five phases.
`SkipQuiet` and `Correlate` are the scan, with `Best` as the choice among phases by
`score_modes_message`; `EndScan`, `Keep`, `Drop`, `NextPass` the passes, with the
repair; `Publish` what the main loop does with the result. A subtraction changes samples,
and with them what later passes see. A buffer says for each of its positions which
*shapes* its samples may have (`shapes`), and which candidates there are at first
(`first`). `Subtract` lets each position whose preamble or bits overlap the samples
subtracted (`Touched`, out to the last sample the longest message reads) have any of its
shapes, or none: candidates end, get other levels and readings, or come up where there
was none. The properties hold for whatever shapes a buffer has; `RepairsAreRight` and
`OnlySendersAreKnown` say how many bits of a shape may be wrong.

*Properties.* `RepairsAreRight`: with up to three wrong bits, what leaves the
passes is what was sent, if its parity is plain. `OnlySendersAreKnown`: with up to
two, and no replies, neither tracker nor filter gets an address nobody has.
`GapsAreSingle`: the scan leaves out no two neighbouring candidates. `OncePerPass`: a pass finds a transmission once though
neighbouring positions pass the check. `CleanReadWins`: no damaged reading beats a
clean one of the same candidate. `BufferProgresses`: every step lowers a measure,
so scan and passes end.

### 2.4 ModesParser, Cpr and Positions

A message is the set of its bits that are 1. `ModesParser` gives a record with just
the fields a message sets; `Cpr` has the decoders of `cpr/decode.rs` in integers, with
a latitude unit in which both kinds of zones have whole sizes, so that rounding
and comparisons at boundaries are exact; the 17-bit resolution is the code's.
`Positions` is a flight with a transponder that encodes by the definition of compact
position reporting (external to the program) and says what its altitude, squawk,
callsign or speed are; the flight moves, frames are lost, and the two stored
frames are decoded as `update_position` does. A name is one to eight characters other
than @ with no blanks at its ends, sent with blanks behind it. `Joined` merges the
fields of two records.

*Properties.* `GlobalDecodeIsRight`: two frames give the position of the last one if
the flight moved little, and none if it crossed into another band of zones. How
little in longitude depends on the number of zones at the latitude that is decoded,
not at the true one: next to a boundary rounding can make them different, and with
the true one the property would be false. Near a pole, in the one zone there, any
movement in longitude is little.
`RelativeDecodeIsRight`: one frame does if the receiver is less than half a zone
away. `SurfacePairIsRight`: the same of `decode_cpr_surface`. `FieldsAreRight`: what is
parsed is what was said.

### 2.5 Network

Values published on a port are numbered; a broadcast channel is the number of
the last value and each receiver's position. `Publish` never waits; `Take` is
`recv` with its `Lagged` case; `Written` the end of `write_all`. `read_loop` and
`write_loop` of a connection share one task by `select!`, and `read_loop` does not
yield while it works on one read, hence the guard `pending[c] = <<>>` on the
writer. `Disconnect` cancels whichever loop is not at its end. `ConsumerRecv` and
`ConsumerFeed` are the incoming consumer.

*Properties.* `CompleteUnlessOverrun`: a client never overrun has exactly what was
published since it connected. `NothingTwice`: also an overrun one gets increasing
values only. `FramesAreFed`: of the messages the consumer is done with, exactly the
good frames have been fed, once each and in order, also when it has ended.

### 2.6 BeastCodec, BeastReaders and BeastClients

Frames are byte sequences. `Parse` looks at whatever follows a frame and takes at
most the longest it can be. `ClientFrames` and `Found` are the two inner loops, as
recursive functions; `ScanFrames` stops the second one at `max_frames`. `ClientRead` is a
turn of `read_loop`; `BatchRead`, `BatchEnd` and `Return` are `read_beast_frames`,
with stale bytes left in the buffer as the code leaves them. A read may end anywhere:
`pending` is what is left of a frame partly read, and `Reads` the reads there may be.
`BatchError` is a read that fails otherwise than by a time-out: the frames this call has
found are gone, and the caller goes on as if there had been none (`ReadError`; only
`compare` ends its window). `BeastClients` composes this reader
with its three programs, which work on a batch when they have it: `RecordWrite`
writes any part of a record, so that the program may be killed at any byte, and
`RecordFails` leaves the rest unwritten, which nothing notices, so that the next record
follows a torn one. `CompareWindow` opens a new connection and compares key maps.
`ViewUpdate` counts a batch, tracks its aircraft and removes stale ones (which, of those not
in this batch, is left open; the tracker's own modules have the times). `JsonCreate`,
`JsonWrite`, `JsonRename` and `CsvHeader`, `CsvRows` are the snapshots of viewsb,
`JsonFails` and `CsvFails` their errors, which it ignores. The CSV rows come from the
aircraft themselves, whether or not the JSON file was written.

`uncut`, `due`, `lost`, `clean`, `kept`, `torn` and `failed` are histories: which frames came
in one piece, whether a call may have lost frames, whether all reads ended
between frames, which records were written whole before the first torn one, and which
files had a failed write.

*Properties.* `RoundTrip`: a frame is parsed back whatever follows it.
`UncutFramesArrive`: a frame that comes in one piece is found, unaltered and in order,
whatever pieces of frames and stale bytes surround it; in `read_loop` if a read begins with
it. `FramesArriveIntact`: if no read ends inside a frame, and after each one in `read_loop`,
and frames can be told apart (`FramesAreTellable`: none has a byte sequence in it that
looks like a start), then nothing is added either, and only `max_frames` and read errors
lose any. `AllFramesArrive`, that all arrive wherever reads end, is what the documents say;
it is false of both readers, of `read_loop` even if no frame is cut (the run `beast_burst`). `RecordingIsUsable`: the frames recorded whole before the
first torn record come first in a replay, and nothing else comes while there is none;
with no failed write none is missing but the one in work. (After a torn record a replay
may give anything, since its length takes in the beginning of the next one.)
`ComparisonIsFair`: each key of either side is counted once; if all frames received are
frames of the recording, in any order and number, no key counts as the server's only,
and none as different if each key that does not vary has one payload in the recording
(`OneEach`). A key of several is compared by the last payload of each side, so a server that
repeats it in another order is said to differ. `SnapshotsAreWhole`: a reader of the JSON
file sees none or a whole one; the CSV header comes once and first, and snapshots are in
order; at its count viewsb has written all it counted, and every aircraft not expired, to
each file whose last write did not fail.

### 2.7 Console and ConsoleLevel

`Feed` is `Outputter::feed` with the level set before it, `Flush` the end of a buffer
with `flush_low` and `flush_medium` at a later time than the buffer's, `Stop` the
final report (which the code does not make if its clock cannot be set back by two
minutes, hence the choice), `Signal` a step of one of the two signal tasks. `deques` are the three
that are pruned by `aggregate`, front only and only when a report is made. A
snapshot keeps the callsign, the position with its threshold, one altitude for
the six fields that pass through `field_change`, and one squawk for the three, squawk,
category and airground, that are kept and never compared (`Compared` are the others).
Positions are set or not but
always 0, because nothing sets the decoded position the snapshot copies.

*Properties.* `ReportCountsLastMinute`: rate, signals and formats of a report are
those of the messages fed in its window. `BaselineIsShown`: a reader who applies
the change lines of consecutive intervals knows the compared fields of the program's
baseline. The document says that a line shows the fields that changed; squawk, category
and airground never are (section 6), and the property does not speak of them.
`LinesFollowSignals`: from the first message on, lines are printed as the signals
received before it ask for, as long as no two signals were in work together (load
and store are two steps, and of two signals that meet one is lost).

## 3. The runs

| Run | Question | Bounds | Distinct states |
|---|---|---|---|
| `tracker_timing` | do all interleavings of the tasks keep the registry right, and implement the table? | two aircraft and an ignored address, one reader, one message per buffer, `TRACK_EXPIRE` = 2, clock to 4, lag 1, two messages per aircraft | 915 000 |
| `tracker_fields` | is `geom_delta` right, and does nothing get stuck? | one aircraft, altitudes of three sources, clock to 3 | 187 000 |
| `stream` | is the receiver configured first, does every sample get to the demodulator, once and aligned, and does the program end? | 20 bytes, chunk 8, overlap 3 pairs, channel of one chunk, header of 2 bytes, reads of 1, 3, 8 (socket) or 2, 4, 8 (file), two read errors, three attempts, commands lost or half sent | 159 000 |
| `decoding` | is what was sent found, once and unchanged? | buffers with one or two, some three wrong bits anywhere in a message, every combination of clean, repairable and ruined readings in the five phases, up to three candidates at the boundaries of quick checks and of messages; what a subtraction leaves: a damaged copy, another message, one or the other, where the message was, under its end and next to it | 760 000 |
| `positions` | is what is decoded where the flight is, and what it said? | 11 latitudes next to the equator, zone and band boundaries and poles, 5 longitudes, 4 receivers, 11 moves, 3 steps; all altitudes and squawks | 200 000 |
| `network` | who gets which values, and is what arrives fed? | two clients, two ports, outgoing capacity 2 of 3 values, incoming capacity 1 of 2 messages, one message per read (three in `network_lagged`) | 1 760 000 |
| `beast` | do frames survive, wherever reads end, and what do the programs behind the readers make of them? | three frames (four for `compare`) of one or two payload bytes over three bytes, at most three whole ones in a read; of the two readers on their own, reads that end 1 or 5 bytes into a frame; buffer of 17, `max_frames` 2 (1000 for `record`); a recording with two payloads of a varying key, two windows, count 2, three turns of viewsb | 1 795 000 |
| `console` | are reports and lines about what they say? | seven messages of two aircraft, three fed, clock to 4, window 2, interval 1, no signals; or two fed between two signals | 5 300 000 |

Each bound is chosen so that its case occurs: the clock passes `TRACK_EXPIRE`
twice with a lag, a second message finds its aircraft swept; a chunk is no
multiple of the reads and the last one is incomplete, files are read both in less
and in more than the overlap; a message ends exactly where the scan goes on, and
one sample before and after; outgoing and incoming channels are overrun by one;
the buffer of the batch reader has room for fewer frames than a read might
return; a read ends inside the type or payload of a frame and another completes it;
a recording ends inside a record, or goes on after a torn one; a window of the console closes and the
next one begins; a second signal comes while the first is in work. The buffers of
`decoding` and the flights of `positions` are families, one initial state per
member, each of which varies one thing completely and keeps the others fixed.
Symmetry is used in `network` only, where no property is temporal and clients are
told apart by nothing. Deadlock checking is off where the system may stop (end of
the program or buffer, bounds on what is sent) and on for the tracker, whose bounds
leave a task enabled at all times.

Four runs show where the code does not do what a document of the repository says:

| Run | What happens |
|---|---|
| `tracker_parser` | the parser sets no source, so nothing the program tracks is ever valid, and SBS output has no MSG 1, 3, 4 or 5 |
| `stream_eof` | the rtl_tcp client keeps a `Sender` of its own channel, so the end of the connection never ends the program |
| `network_lagged` | a burst longer than the incoming channel ends the consumer for good |
| `beast_burst` | of two frames in one read of a client the second is skipped |

## 4. Fairness

Safety runs use `Spec`, `SetupSpec` or `ClientsSpec`. Two specifications add fairness.
`Tracker!FairSpec`: tokio keeps polling a spawned task, so an enabled step of a task
is eventually taken (weak fairness); a `RwLock` lets a waiting writer in although
readers come again and again, so `GetOrCreate` and `BeginSweep`, which wait for the
map's lock, are strongly fair (the futex lock of `std` makes new readers wait once a
writer does). Buffers, clients, timers and time itself are not fair.
`SdrSetup!SetupFairSpec`: weak fairness of opening the device, of the reader task, of
the receive or file read the main loop waits for, and of the main loop's own steps;
the server, the user and file errors are not fair. `EofEndsProgram` is refuted under
this fairness: the main loop is not starved but waits for a sender that never goes
away.

## 5. What is proved

For any values of the constants that satisfy the assumptions named, which include
every instance the runs check:

| Module | Theorem | States |
|---|---|---|
| `TrackerProofs` | `TypeCorrect` | its `TypeOK`, the records and messages included |
| | `RecordsStayInPlace` | `RecordsInPlace` |
| | `LostUpdatesAreLate` | `OrphanOnlyIfExpired` |
| | `SweepsAreComplete` | `SweepLeavesNoStale` |
| | `DeltaIsConsistent` | `DeltaConsistent` |
| | `ReportsAreComplete` | `ReportCoversRegistry` |
| | `ExpiryIsJustified` | `ExpiryNeedsSilence` |
| | `TrackerImplementsTable` | `Spec` implements `AircraftTable` |
| `SampleStreamProofs` | `TypeCorrect` | `TypeOK` |
| | `FeedCorrect` | `Spec` implements `SampleFeed` |
| | `PairsStayTogether` | `PairsAligned` |
| | `NoStartIsMissed` | `EveryStartScanned` |
| | `SetupRunsStream` | `SetupSpec` implements `SampleStream`'s `Spec` |
| | `ConfiguredFirst` | `SettingsComeFirst` |
| `NetworkProofs` | `TypeCorrect` | its `TypeOK` |
| | `NothingLost` | `CompleteUnlessOverrun` |
| | `AlwaysInOrder` | `NothingTwice` |
| | `InputIsFed` | `FramesAreFed` |
| `DemodProofs` | `TypeCorrect` | `TypeOK` |
| | `FoundOnce` | `OncePerPass` |
| | `NeighboursAreTried` | `GapsAreSingle` |
| | `BuffersEnd` | `BufferProgresses` |
| | `CleanWins` | `CleanReadWins` |
| | `RepairsRight` | `RepairsAreRight` |
| | `SendersKnown` | `OnlySendersAreKnown` |
| `PositionsProofs` | `GlobalDecodes` | `GlobalDecodeIsRight` |
| | `RelativeDecodes` | `RelativeDecodeIsRight` |
| | `SurfacePairs` | `SurfacePairIsRight` |
| | `FieldsRead` | `FieldsAreRight` |
| | `PositionsInvariant` | `PositionsInv`, on which the first three rest |
| `BeastProofs` | `FramesSurvive` | `RoundTrip` |
| | `UncutFrames` | `UncutFramesArrive` |
| | `ReadersTypeOK` | `TypeOK` |
| | `RecordingUsable` | `RecordingIsUsable` |
| | `ComparisonFair` | `ComparisonIsFair` |
| | `SnapshotsWhole` | `SnapshotsAreWhole` |
| `ConsoleProofs` | `ReportsAreExact` | `ReportCountsLastMinute` |
| | `LinesCarryBaseline` | `BaselineIsShown` |
| | `LinesAreTimely` | `LinesFollowSignals` |

*Assumptions.* `TrackerAssumption` (ignored addresses are addresses, messages are
well typed, `MaxLag < TRACK_EXPIRE`), `ExpireAssumption`, `CprAssumption` (constants
have their types; `TRACK_EXPIRE` is positive); `StreamAssumption` (types; the guard is
no longer than the overlap), `AlignmentAssumption` (chunk, header and file reads are
whole pairs), `NetworkAssumption`, `BufferAssumption`, `ConsoleAssumption` (types);
`TransmissionAssumption` and `ReadsAssumption` (what is sent has a known type, what is
read differs from it in bits it has and has its length or none, section 2.3);
`CodecAssumption`, `ReadersAssumption`, `SendableAssumption`, `RecordingAssumption`
(types; the escape byte is no type byte; a sender fills in the whole frame).
`StepsAssumption`, `FlightsAssumption` and `RemarksAssumption` say of a flight that it begins on
the globe and of its remarks that they are what fits in the fields: altitudes of 11
bits, four octal digits, characters of 6 bits, speeds whose codes have 10.
`CodeAssumption` has no constant in it: one wrong bit has a syndrome of odd weight and no
two pairs of wrong bits have the same one, at both lengths, which TLC computes from
the polynomial and the provers could not. TLC evaluates all of them in the runs.

None has a hypothesis beside them. The bounds of the runs are constants too, so the
theorems hold however large they are.

*Arguments.* Hardly any of the invariants is inductive; each module has its `IInv`.

- `TrackerProofs`. `TimesInv`: a stamp is not in the future, and a busy task's is at
  most `MaxLag` old. `PlacesInv`: who is in the middle of an update has a good message
  and, unless it holds an orphan, its aircraft is registered; only the main task
  sweeps. Without it `Apply` could write to a hole in the map. `ReadersInv`: during an
  iteration, copied and uncopied aircraft together are the registry. `AgesInv`:
  orphans had expired; what the current or last sweep kept is recent by that sweep's
  stamp; `heard` is at most `MaxLag` after `seen`. It is the reason why
  `SweepLeavesNoStale` survives updates with an older stamp: they can put `seen` back,
  but not behind the sweep's stamp by `TRACK_EXPIRE`. It begins with lemmas about the
  pure operators of `Aircraft`: what `Update` preserves, bounds and returns.
- `SampleStreamProofs`. Of each place bytes can be in, the invariant says which
  stretch of the stream is there: the chunk under construction, the channel, what
  `read_samples` returned, and the tail follow one another without a gap. Alignment
  and coverage are invariants on top of it; for `EveryStartScanned` the overlap must
  reach back over the guard. Each action is shown to be a step of `SampleFeed` or to
  leave its variables alone.
  Each action of the setup is a step of `SampleStream` or leaves its
  variables unchanged, so that module's theorems carry over; the commands written are
  a prefix of what the phase allows, and the reader task exists from a phase on in
  which all settings are written.
- `NetworkProofs`. Per client: what it took and what it still can take are a run of
  consecutive numbers from where it connected, unless it was overrun; in any case
  they increase and lie behind its position. `FedInv`, of the incoming side: the good
  ones of the messages the consumer is done with are the ones it fed, which does not
  depend on how the message in work got there.
- `DemodProofs`. What the scan has found lies apart and behind the position
  reached; what was kept of the current pass is a part of what was found; and no pass
  finds more messages than the buffer has room for, which bounds the measure of
  `BufferProgresses`. The messages: by induction over the register the checksum of a
  sum is the sum of the checksums, so a syndrome depends on the wrong bits only. By
  `CodeAssumption` an odd number of wrong bits has a syndrome of odd weight and an even
  number one of even weight, so three are never taken for two; were they taken for one,
  two different pairs would have the same syndrome. So what is repaired is what was
  wrong (`RepairIsExact`). `MessageInv`: what is found is some phase's reading, and what
  is kept is that or its repair, where a reading is one of any shape of a position
  (`IsRead`), so that nothing depends on what subtractions have left; `CleanInv`: a candidate with a clean reading is taken
  for one without an error.
- `ConsoleProofs`. Each deque is related to the messages fed by an increasing map of
  places that leaves out only messages older than the last report's window. Pruning
  restricts the map, feeding extends it, and it is a bijection onto the window at a
  report, from which the counts follow. For the level: as long as no signals met, the
  task in work will store what has been asked for.
- `BeastProofs`. First the codec: the operators are functions that call themselves on
  what remains, and each is known by the equation of one step. Escaping then turns out to
  be undone by `Destuff` whatever follows, because an escaped payload has at most twice its
  length and the surplus is cut off; that is `RoundTrip`, with `ReadersInv`: the wire is
  the encodings of the frames sent last.
  `UncutFramesArrive` is inductive with it: a read puts its whole frames into the buffer at known
  places (`IsLayout`), nothing overwrites them before the scan, and a scan that reaches a start
  marker goes on as one that begins there (`ScanPasses`), so it finds a frame at
  each of these places, whatever else it finds on the way. `FileInv`: the file is the
  records of `kept`, then the part of the record in work that is written, and after a torn record anything. `Replay` of records
  is their frames, and of what begins with them a sequence that begins with them. `FairInv`: what
  `ComparisonIsFair` says, of the frames compared so far; the counts are those of disjoint sets of keys, whose
  cardinalities add up. `ProgramInv`: which versions of a snapshot exist at each point of
  viewsb, so that a rename is always of a whole one, whichever earlier steps failed.
- `Recursion`. The library's induction theorems take an operator, which the provers
  cannot instantiate. These take a set instead (of the numbers, or of the arguments, that
  have the property) and a measure; and a functional on a set of functions whose value
  at an argument depends on smaller ones has a fixed point, so that a recursive function
  satisfies the equation it is written with.

- `PositionsProofs`. First the decoders, as lemmas about integers. A code differs from
  60 times a zone count by at most half a step; two places that are close have codes
  whose difference, each times the zones of the other kind, is less than half a zone from a
  multiple of all zones (`Remains`), so that the index which the decoder rounds to
  is, modulo each zone count, the zone of that code (`IndexIs`, `LonIndexIs`). That an even
  and an odd count of one band differ by one is what makes the two remainders fix it.
  The rest is whole circles: `AirborneLatIs` folds them back, and the reference chooses the
  quarter in `SurfaceDecodeIs` and the zone in `RelativeDecodeIs`. Nothing of the table of
  zones is needed but that it gives 1 to 59. Then the bits: `Number` is a fold over a set,
  in whatever order; its value is shown not to depend on it (`NumberStep`), a number is
  the sum of its bits (`NumberOfBits`), and so what was put in a field is read from it
  whatever is put beside it (`FieldOfPut`). `PositionsInv`: the stored frames are those of the
  places in `origin`, and the results are decoded from them. `GlobalDecodeIsRight` is not
  inductive without it, for the two frames may be of any earlier moments. For the
  remarks one lemma per kind of message, after `SquitterIsParsed`.

*Only model-checked.* Liveness and `FairSpec` (fairness and ENABLED are beyond the
proof system); `FramesArriveIntact`, of which the part that does not depend on where reads
end is proved as `UncutFramesArrive`; and what the violation runs show, which is that
something is false.

## 6. Known differences not kept as runs

They were met while modelling; the modules do what the code does, and no property
is stated where none holds.

Samples and device:

- `main.rs:229`: of an SC16Q11M file the first read only primes the tail, so what it
  read before the tail is never demodulated; if that read fails, the header stays in
  the stream.
- `main.rs:155`: an odd `READSB_TCP_CHUNK` swaps I and Q from the second chunk on
  (`AlignmentAssumption` excludes it), and a ring buffer smaller than one chunk gives a
  channel of capacity 0, which panics (`main.rs:157`).
- `sdr/rtl_tcp.rs:121`: the info is read without a timeout, as 12 bytes where the
  comment says 8; a wrong magic number is not tried again. `main.rs` only warns when the
  gain cannot be set. Configured frequency and correction are never passed on.
- `main.rs:385`: Ctrl-C is noticed only when `read_samples` returns.

Demodulator:

- `demod/demod_2400.rs:286`: after a quick check in which nothing passes, one
  position is left out ("each step advances pa by 1"); hence `GapsAreSingle` and not
  that every candidate is tried.
- `demod/demod_2400.rs:238`: the correction of a damaged DF17 type is scored, but the
  corrected message is not what is returned, so it is dropped later (the CHANGELOG
  says such messages are repaired).
- `demod/demod_2400.rs:438`: with several passes, the default, replies (DF 0, 4, 5, 16,
  20, 21) are dropped, since their parity is overlaid with an address (the CHANGELOG
  says that they pass through).
- `demod/demod_2400.rs:390`: with a high noise floor a later pass has a higher
  threshold than the first.
- `demod/demod_2400.rs:324`: a negative correlation, cast to `u32`, passes every
  threshold; in the model such a candidate is one with a high level.
- `main.rs:428`: the result of `demodulate_ac` is thrown away.
- `demod/demod_2400.rs:410`: nothing removes what is found again in a later pass or in
  the overlap of the next buffer; `OncePerPass` is about one pass.

Parser and positions:

- `modes/parser.rs:85`: the address of DF 4 and 16 is overwritten with other bits.
- `modes/parser.rs:275`: the vertical rate overlaps the bits of the north-south
  speed, its sign and the altitude difference (`283`) are taken from shifted bits; the
  comment at `237` has the directions the wrong way round.
- `modes/parser.rs:157`: surface positions are read eight bits too far on, and pairs
  of them are decoded as airborne ones: `decode_cpr_surface` has no caller.
- `modes/parser.rs:143`: the 25-foot branch takes the wrong bits and the 100-foot
  one decodes no Gray code; the last digit of a Mode A code in a 16-bit frame is lost.
- The branch for GNSS altitudes of types 20 to 22 is not reachable.
- `cpr/decode.rs`: relative decoding across 180 degrees gives a longitude a circle
  away.
- `tracking/tracker.rs:131`: `max_range` filters the relative decode only; the
  global decode that follows stores any position (the CHANGELOG for 0.6.0 says
  that positions beyond the distance are discarded).
- `tracking/tracker.rs:19`: a value is overwritten also when
  `DataValidity::update` rejects the message's source, so value and validity may
  come from different messages.

Network and clients:

- `net/server.rs:58`: an error of one `accept` ends the accept loop.
- `net/client.rs:61`: of an SBS line only the address characters are passed on,
  which the incoming consumer drops as no frame; `Network` has it (`"ident"`).
- `net/protocols/beast.rs:42`: the batch reader resumes its scan inside the frame
  it just parsed and may take the second half of a doubled 0x1a, followed by a
  type byte, for a frame. The run `beast` sends it no such payload.
- `net/protocols/beast.rs:37`: a frame cut by the end of a read is returned with
  stale bytes in place of the rest, and its beginning is consumed, so that the readers also
  hand on frames nobody sent, and the one that was sent is lost (`beast.rs:14` says that
  partial data is preserved between reads).
- `net/protocols/beast.rs:29`: a read error, also an interrupted one, loses the frames the
  call has found.
- `bin/beast-client.rs:508`: `record` does not look at write errors; once writing works
  again the next record follows a torn one, and a replay takes it apart at wrong places.
- `bin/beast-client.rs:241`: a key of several payloads (DF 20 of one aircraft, say) is compared
  by the last one of each side, and differs if the server sent them in another order.
- `bin/beast-client.rs`: comparing windows go
  on after their end while batches come in; without a duration the printed end is 0;
  with only the second reference given the sides are swapped.
- viewsb does not end when the server closes the connection, and a restart appends
  another header to its CSV file.

Console and files:

- `main.rs:352`: of two signals in work together one is lost (README.readsb.md says
  that each cycles the level); `LinesFollowSignals` excludes it.
- `console/state.rs:83`: squawk, category and airground are in the snapshots but not
  compared, so their changes are never shown (README.readsb.md:78 says that a line shows the
  fields that changed).
- `console/outputter.rs:115`: within 120 seconds of the machine's start there is no final
  report, where the clock cannot be set back that far.
- Positions on the console are always 0, the CRC failures too; automatic gain never
  acts, since the counters it looks at are not set; `unique_aircraft_hour` is never
  pruned.
- `console/outputter.rs:106`: an aircraft silent for one interval loses its
  baseline, and its next line repeats what has not changed.
- `console/stats_accumulator.rs:94`: the CRC and CPR rates of the report are
  since the start of the program, not of the window.
- `main.rs:306`: aircraft.json is written in place, so a reader may see part of it.

## 7. Not modelled, and why

- The arithmetic on samples (conversion, correlation, bit slicing, noise floor,
  subtraction): `Demod` keeps its outcomes as candidates, levels and choices.
- USB access (`sdr/rtlsdr.rs`): calls into a library.
- Formatters, tables, JSON, globe, heatmap, binCraft output: layout of one record at
  a time. Configuration, status and statistics types: plain data.
- Gain control: it never acts. `demod/demod_ac.rs` with `modes/mode_ac.rs`: called at
  `main.rs:428`, its result is discarded. `sdr/ring_buffer.rs`: no caller.
- Of beast-client the comparison of two servers, which repeats that with a file, and
  the listings; of viewsb the sorting and the screen.

## 8. Plan

Done: the tracker with its table, the sample stream with its feed and the setup of
its device, the demodulator with CRC and filter, parser and positions, the network,
the Beast protocol with its clients, the console; proofs of all their safety
properties but `FramesArriveIntact`.

Left, in this order:

1. `Demod` composed with `SampleStream`'s windows: a message within the overlap is
   found in one or in two buffers.
2. The composition of `Network`'s incoming side with `Tracker`, now joined by
   assumption only (messages arrive in any order and at any time).
3. `FramesArriveIntact`, proved: that nothing is found beside the frames that were sent,
   if they can be told apart.
