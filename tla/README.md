# Formal models of live-rusty-cat

live-rusty-cat is a set of command line tools for live streams (`rtmp-play`,
`rtmp-publish`, `flv-publish`) on top of an amalgamation of SRS and its librtmp,
almost all of it in `src/libs/protocol/rtmp.cpp`. This directory holds TLA+
models of its protocol core, its file formats and its HTTP streaming, the TLC configurations that check them, and proofs
checked by the TLA+ proof system. Line numbers below are those of
`src/libs/protocol/rtmp.cpp` unless another file is named.

Contents: 1 inventory, 2 plan, 3 modules and code, 4 runs, 5 bounds,
6 fairness, 7 proofs, 8 what the code does otherwise than it says,
9 what is not modelled, 10 how to run.

## 1. Inventory

The parts with logic of their own, and how they hang together. A tool calls the
C API (`srs_rtmp_*`); that drives an `SrsRtmpClient`, which speaks through an
`SrsProtocol`; that reads through an `SrsFastStream` and both read and write
through a blocking socket with timeouts. Everything in one process is
sequential: concurrency is between the two ends of a connection, and failure is
a timeout, a short write or a closed connection at any read or write.

| Part | State | Operations | What is hard | What makes it correct |
|---|---|---|---|---|
| `SrsFastStream`, 30424 | `buffer`, `nb_buffer`, `p`, `end` | `grow`, `read_1byte`, `read_slice`, `skip`, `set_buffer` | moves and reallocation under slices in use; reads that fail half way; `skip(-4)` | unread bytes are the stream behind what was consumed; a slice survives as long as it is used; never a read without room |
| `SrsProtocol`, receiving, 22196-22275 and 22943-23570 | `cs_cache`/`chunk_streams`, `in_chunk_size` | `recv_message`, `recv_interlaced_message`, `read_basic_header`, `read_message_header`, `read_message_payload`, `on_recv_message` | interleaved chunk streams, omitted header fields, guessed extended timestamps, chunk size changes between two chunks, failures between pieces of a chunk | a reliable FIFO channel of whole messages; no write behind the payload buffer |
| `SrsProtocol`, sending, 22100-22480, 22711-22780 | `out_chunk_size`, `out_c0c3_caches`, `out_iovs`, `nb_out_iovs`, `manual_response_queue` | `send_and_free_messages`, `send_and_free_packet`, `do_send_messages`, `do_iovs_send`, `srs_write_large_iovs`, `do_simple_send`, `on_send_packet`, `manual_response_flush` | iovecs that point into a cache that is reused, arrays that grow, partial writes, chunk size that changes with a packet | headers intact when written; arrays never overrun; what is handed over is written once and in order |
| `SrsProtocol`, acknowledgements and pings, 23479-23702 | `in_ack_size`, `auto_response_when_recv`, the socket's `rbytes` | `on_recv_message`, `response_acknowledgement_message`, `response_ping_message` | counters that wrap, a window that changes, answers queued or sent at once | never claims more than arrived; a peer that waits for it goes on; each ping is answered once |
| `SrsRtmpClient` and the C API, 23993-24600, 36235-36713 | `stream_id`, `requests` (by transaction id), `msgs`, where in a call it is | the simple handshake, `connect_app`, `create_stream`, `play`, `publish`, `fmle_publish`, `fmle_unpublish`, `srs_rtmp_read_packet` with `srs_rtmp_on_aggregate`, `srs_rtmp_write_packet` | late answers, messages in between, reused transaction ids, timeouts in each wait, aggregates whose parts tell the time by another clock | results find their request, calls return, what was asked for is started, no media is lost, each piece has its time |
| `SrsRtmpServer`, 24923-25780 | where in `identify_client`/`start_*` it is | the simple handshake, `connect_app`, `identify_client` and its helpers, `start_play`, `start_fmle_publish`, `start_flash_publish`, `fmle_unpublish`, `redirect` | three rounds in which both ends wait for each other, messages passed over | every request is answered in order |
| Complex and fast handshake, 24923-24999, 28500-29860 | cached c0c1, s0s1s2, c2 | digests and keys; one packet each way instead of a session | not in a build without SSL; an answer this code cannot read itself | the packets of the fast handshake read back |
| Records: `SrsPacket` and its classes, 25768-28455; AMF0, 19770-21772; `SrsMp4Box` and its classes, 15121-18500; TS packets, 12321-14490; `SrsBuffer` | a cursor over a block | `get_size`, `encode_packet`, `decode`; `total_size`, `write`, `read`; `nb_header`, `encode_header`, `decode_header`, `discovery` | three functions that count, write and read the same fields; optional parts; blocks cut anywhere; asserts in every read | what is written has the size asked for and reads back; no read without asking; nothing is made up of a cut block |
| MP4 files: `SrsMp4Encoder`, `SrsMp4Decoder`, `SrsMp4SampleManager`, 18501-19769 | sample tables, the buffer and offset of the decoder | `initialize`, `write_sample`, `flush`; `initialize`, `read_sample` | tables that are delta coded and grouped by chunk; a recorder that dies before the moov box; seeks and short reads | samples in order, their times kept, unfinished files refused, every read ends |
| FLV files: `SrsFlvTransmuxer`, `SrsFlvDecoder`, `srs_flv_*`, 9285-9721 and 37376-37570; `src/libs/basic/file.cpp` | file position | write header and tags; read header, tag header, tag data | short reads reported as success; a file cut anywhere | only whole tags are played |
| Tools (`src/rtmp-play.cpp`, `src/rtmp-publish.cpp`, `src/flv-publish.cpp`) and `src/libs/rtmp_tool.cpp` | pacing clock, file position, tag in hand, rounds | tag loop, rounds, lists, `re_create`, `re_update`, `re_cleanup`, injected SEI and end of stream | who deletes the tag on each exit; unsigned differences of times; the wall clock added to the times of a round | a tag is deleted once; times go on; no oversleeping; the tool ends |
| HTTP server side: `SrsHttpServeMux`, `SrsHttpResponseWriter`, `src/libs/protocol/http.cpp` | `entries`, `vhosts`; `header_wrote`, `header_sent`, `written`, `content_length` | `handle`, `match`, `serve_http`; `write_header`, `write`, `writev`, `final_request` | order of registrations, implicit redirects; length or chunks, headers sent late | the most particular handler answers; nothing behind the body |
| HTTP client side: `SrsHttpResponseReader`, `SrsHttpParser`, HDL client (`src/libs/app/hdl.cpp`) | `is_eof`, `nb_left_chunk`, `nb_total_read`, `infinite_chunked`; the buffer; the tag in hand | `parse_message`, `read`, `read_chunked`, `read_specified`, `read_full`; `play`, `recv_message` | a body in any pieces, chunk lines in parts, timeouts inside a tag after which payload is read as headers, a server that dies | tags whole and in order as long as the client keeps its place, and it loses it to nothing but such a timeout; the end is the end; the client stops |
| Raw writers of the C API: `srs_h264_write_raw_frames`, `srs_audio_write_raw_frame`, `SrsRawH264Stream`, `SrsRawAacStream`, 30600-31175 and 36860-37240 | `h264_sps`, `h264_pps` and whether they changed or were sent; `aac_specific_config` | demultiplex the pieces of a buffer, keep parameter sets, write headers and frames | what is remembered before a write that may fail; sets that come one by one; frames behind known errors | each frame once, behind the header it is decoded with |
| Other codecs: the TS transmuxer, `SrsFormat`, AAC, MP3, RTP, JSON | positions in buffers | demultiplex, encode, decode | | not modelled |
| `SrsKbps`, round robin, bandwidth check, RTSP, Kafka | | | | not reached by the tools, but for byte counting |
| Command line parser, HTTP parser, OpenSSL, build files, scripts | | | | third-party code or no program logic |

`PROJECT.json` lists every component with its status, and every hazard at the
line where it bites, with the properties that would notice.

## 2. Plan

Order of work: the receive buffer, the chunk reader, the chunk writer, both
connected, acknowledgements, the session of client and server; then the records
that sessions and files consist of; the MP4 file with its tables; the HTTP
client and server with the HDL tags in a body; the FLV file and the tools that
publish it; then the handshake as the first phase of the session, the message
queue of the C API with aggregates, and the TS packets among the records; then
the raw writers of the C API (all done). Left: the codecs that carry state in a server (`SrsFormat`, the
transmuxer of TS).

Composition:

```
 FastStream        ChunkFormat
                     |      \
                ChunkReader  ChunkWire        AckWindow
                       \     /   \
                     ChunkSocket  ChunkWriter        SessionMessages
                      /      \     /                  /          \
                ChunkPeer    ChunkLink       ClientSession   ServerSession
                      \       /                       \          /
                  MessageChannel (abstract)             Session

 Selection (picking out of a sequence, a step for each element): ChunkWriter,
 SessionMessages, HdlStream, PublishTool, Mp4Samples

     SrsBuffer        Mp4Samples      FlvFile        HttpMux   HttpWire
     /   |   \            |              |              |      /      \
  Amf0   |  Mp4Boxes   Mp4File      PublishTool         | HttpWriter  HttpReader
     \   |      |          \          /    RawFrames    |      |          |
   RtmpPackets  | TsPackets MCMediaFiles ----'          |      |      HdlClient
          \     |   /                                    \     |      /
           Records                                        HdlStream
```

`MCReceiving` runs `FastStream`, `ChunkReader` and `Records` side by side, each
against any input: the three layers that received bytes pass. `MCMediaFiles`
does so with the three that make or read files.

`FastStream` promises to `ChunkReader` what a step of it assumes: a granted
request is buffered, and the slice stays in place. `ChunkPeer` and `ChunkLink`
are shown to implement `MessageChannel`, and `SessionMessages` takes that
promise for its two queues.

A theorem still worth proving: that the decoder gives each sample with its own
bytes (`SamplesGiven`). That the tables of `Mp4Samples` always fit each other
(`FilesOpenWhenComplete`) and keep the places and times of the samples
(`FilesKeepTimes`) is proved.

## 3. Modules and code

**FastStream.tla.** `buf` maps offsets to the stream position of the byte stored
there, so that a lost, repeated or overwritten byte shows. `grow()` is split
into its ways to return or to start reading (`GrowHasEnough`, `GrowInPlace`,
`GrowReset`, `GrowMove`, `GrowAbort`), each `read()` of its loop is `ReadSome`
or `ReadFail`. `ReadSlice` stands for `read_slice` and `read_1byte`, `SkipBack`
for the one `skip(-4)`, `SetBuffer` for `set_buffer`. The caller asks in the
order of `recv_interlaced_message` (`phase`). `GrowAbort` is the failed
`srs_assert` of `grow()`.

**ChunkFormat.tla, ChunkWire.tla, ChunkSocket.tla.** A connection carries
tokens: basic header, message header, extended timestamp, or a word of payload.
A word is four bytes, the size of an extended timestamp, because the reader may
take one for the other and give it back.

**ChunkReader.tla.** One step for each piece of a chunk, because a read may fail
between any two: `ReadBasicHeader` (with the part of `read_message_header` up to
its own read), `ReadMessageHeader`, `ReadExtended`, `ReadMessagePayload`,
`RecvMessage` (drops empty messages, obeys SetChunkSize), `ReadFails`, and
`Retry`, a caller that calls again. `chunk` holds per chunk stream what
`SrsChunkStream` and the message under construction hold. On its own
(`ReaderSpec`) the peer sends anything at all.

**ChunkPeer.tla.** The reader connected to a peer that keeps to the chunk
format as the comments of `read_message_header` give it: it interleaves chunk
streams, leaves out fields that repeat, changes its chunk size, and repeats the
extended timestamp in fmt 3 or does not. The peer is external code.

**ChunkWriter.tla.** One step for each chunk gathered and each `writev`.
`headers` records for each byte of `out_c0c3_caches` what it is part of, and an
iovec of a header points into it, so that `Pointed` finds garbage if the cache
was reused too early. `responses` is the manual response queue.

**Selection.tla.** `Among(s, T)` is what of the sequence `s` is in `T`, in its
order. `ChunkWriter` counts with it what one call writes, `SessionMessages` which
requests and results there are in a queue, `HdlStream` which tags are to be given,
`PublishTool` which tags a round has sent, `Mp4Samples` which samples are of a
track. `Accumulated(step, base, s)` is where `step`, made with each element of `s`
in turn, leads from `base`: a fold as a recursive function, so that there can be
proofs about it. `Mp4Samples` builds and reads its tables with it.

**ChunkLink.tla.** Writer and reader of this code at the two ends of a
connection. **MessageChannel.tla** is what both promise: whole messages,
unchanged, once, in the order of their last chunks.

**AckWindow.tla.** `ReadsSome` counts bytes as `srs_hijack_io_read` does and
`OnRecvMessage` handles one message in the order of `on_recv_message`:
acknowledgement first, then the window of the message or the ping. The peer
stops sending when a full window is not acknowledged, as the comment at 23521
describes it.

**SessionMessages.tla, ClientSession.tla, ServerSession.tla, Session.tla.** Two
queues of messages. The client's actions are named after the calls; `cpc` is
what it waits for. The session begins with the three blocks of the simple
handshake (`WriteC0C1`, `TakesC0C1`, `ReadS0S1S2`, `WriteC2`, `TakesC2`), each read
whole or not at all; or with the fast handshake of `rtmp-play -F`
(`FastHandshake`, `ReadFastHandshakeRes`), after which the client plays at once.
`SrsRtmpServer` refuses it, a server that is not in this repository takes it. A
player gets media one by one or as aggregates of two parts (`OnAggregate`,
`Parts`), which wait in `msgs` for the next calls (`ReadPart`). The clock of an
aggregate is behind its own time, at it, or ahead (`ServesAggregate`); `ahead`
remembers which pieces came second in one that was ahead. `DropsMessage` and `EndsWait` are the two outcomes of a turn
of `expect_message`, `NothingArrives` its timeout. `requests` is the map by
transaction id that `on_send_packet` fills and `do_decode_message` reads. The
server's calls are those of `SrsRtmpServer`; their order, rejecting,
redirecting, refusing, pinging and closing are choices of the server that
embeds it, which is not in this repository. `slow` is drawn at the start: with
`slow` every answer may come after the client's timeout.

**SrsBuffer.tla, Amf0.tla, RtmpPackets.tla, Mp4Boxes.tla, TsPackets.tla,
Records.tla.** A block
is a sequence of bytes; strings, numbers and other values nobody looks into are
opaque bytes with an identity, so that a byte that is read for another shows.
A reader is a record with the cursor, the fields read and how the reading goes
(`ok`, `refused`, or `abort`, the failed assertion of a read that was not asked
for with `require`). Each class has three operators, named after its functions:
what `get_size` or `nb_header` counts, what `encode` writes, what `decode`
reads. `RtmpPackets` includes the two packets of the fast handshake. `TsPackets`
are packets of 188 bytes: adaptation fields, PES headers that begin a message or
continue one, the message that a pid has had so far (`ReadPes`: it is fresh or
goes on, a packet is a repetition, one is missing, or a new unit interrupts it,
and `Reap` hands out what is complete), and the tables PAT and PMT with their checksums, whose `decode` also
says which pids the context learns (`Apply`); `Fill` is the loop of
`SrsTsContext::encode_pes` that stuffs a packet. `Records` writes an item,
delivers all of it or a part, and reads it; `ends` says of an item whether the
decoder is to take it or to refuse it. `MCReceiving` has the buffer, the reader of
chunks and the records in one specification, of which a behaviour drives one.

**Mp4Samples.tla, Mp4File.tla.** `Mp4Samples` are the tables: `write_track`
(`WriteTrack`) and `load_trak` (`LoadTrak`), as folds over the samples; `Fitting`
says when `load_trak` refuses the tables of a track, that is when they do not
agree on how many samples there are. `Mp4File` is the process: `Initialize`, `WriteSample` and `Flush`
in the steps between which a recorder may die, then the decoder with its buffer:
box by box in any layout, then sample by sample, with short reads.

**FlvFile.tla, PublishTool.tla.** The file is a sequence of units (fields of tag
headers, parts of data, halves of previous tag sizes) and may be cut at any
unit. `FileRead` is `SrsFileReader::read`: a short read is a success. What a
short read leaves uninitialized is a choice (`AnyType`, `AnySize`, `AnyTime`).
`PublishTool` is the loop of the tools: `ReadTagHeader`, `ReadTagData`,
`SendTag` or `PrintTag`, `InjectSei`, `FreeData`, and what follows a file
(`EndFile`, `EndListed`, `EndPlay`, `SendEos`). `data` says whose the packet is;
deleting it again leaves `twice`, and the process ends or goes on. The unsigned
arithmetic of `re_update` and `re_cleanup` is modulo `TimeMod`, that of `usleep`
modulo `SleepMod`. `MCMediaFiles` runs either the MP4 process, a tool, or a raw
writer.

**RawFrames.tla.** A buffer of the caller is a sequence of pieces, one step
each: what `annexb_demux` finds between start codes, or the audio frame of
`adts_demux`. `TakeSps` and `TakePps` keep a parameter set, `WriteSpsPps` makes
the sequence header that a frame or a delimiter asks for, `WriteIpbFrame` the
frame; `DropFrame` and `Ignore` are the known errors after which the loop goes
on. `WriteAacHeader` and `WriteAudioFrame` are `srs_write_aac_adts_frame`. Every
tag may be refused by the connection (`Make`), and the caller may go on after
that. `fed` and `made` remember what came and what was made of it.

**HttpMux.tla, HttpWire.tla, HttpWriter.tla, HttpReader.tla, HdlClient.tla,
HdlStream.tla.** `HttpMux` is the map of patterns with the redirects it adds
itself. A response is a sequence of units: the header, the size line of a chunk
in two parts, units of the body, ends of lines. `HttpWriter` has the calls of
`SrsHttpResponseWriter`, `HttpReader` those of the parser and
`SrsHttpResponseReader` in its four ways to find the end, `HdlClient` the tags in
the body. A client that has lost its place by a timeout reads on: what lies where a
header should be is taken for one (`Complete`), what lies where the size of a
chunk should be is a number, an error or the end (`MisreadChunk`,
`NegativeChunk`, `EmptyChunkHeader`). What payload says then is a choice
(`BadTags`, `Misread`), and a header always takes the two units of one, wherever
it begins. `astray` remembers that it happened, and `strays` are the messages given
since. `HdlStream` connects them: a server registers handlers, serves a
request with one of the handlers, a pipe delivers pieces of any size, may time
out, or close.

## 4. Runs

| Run | Specification | Checks | Shows |
|---|---|---|---|
| `receiving` | MCReceiving | `BytesIntact`, `RequestsAreMet`, `ChunksFit`, `WholeMessages`, `PartialsGrow`, `EncodesExactly`, `NoUncheckedRead`, `NothingInvented` | the buffer loses, repeats or overwrites no byte, whatever is read, moved, reset, resized or fails, and a granted request is there; the chunk reader keeps its memory in order for a peer that sends anything and a caller that reads on after errors; every class of packet, AMF0 value, MP4 box and TS packet is written in its size and reads back, and a cut block is refused or yields what was written so far |
| `fast_stream_abort` | FastStream | `NoAbort`, violated | finding 4 |
| `chunk_peer` | MCChunkPeer | `Understood`, `ChannelSpec`, `EveryMessageArrives` | the reader implements the FIFO channel for a peer that keeps to the format, in both extended timestamp styles |
| `chunk_peer_zero` | MCChunkPeer | `InStep`, violated | finding 1 |
| `chunk_link` | MCChunkLink | `GatheredIntact`, `WrittenInOrder`, `Understood`, `ChannelSpec`, `EveryMessageArrives` | two programs of this code understand each other, with caches that run dry inside a batch, several `writev` calls, packets, responses and chunk size changes |
| `ack_window` | AckWindow | `AcksNearlyTrue`, `PingsInOrder`, `PeerGoesOn` | acknowledgements are true up to the handshake bytes over a reset of the counter, pings are answered in order, and the peer goes on if its messages are at most half a window |
| `ack_window_stuck` | AckWindow | `PeerGoesOn`, violated | finding 2 |
| `session` | Session | `NoUnknownResponse`, `AnsweredInOrder`, `StartsAsAsked`, `MediaIntact`, `SessionsGoOn` | results find their requests, every call returns, what is played or published arrives in its place and with its time, alone or in aggregates (the second part of one whose clock is ahead has the time of the first), from the simple or the fast handshake on, with a server that rejects, redirects, refuses, is late, pings or breaks off |
| `session_stream` | Session | `PublishesOnItsStream`, violated | finding 3 |
| `media_files` | MCMediaFiles | `SamplesGiven`, `TimesKept`, `OpensWhatIsComplete`, `PlaysWhatIsWhole`, `TimesGoOn`, `OwnsItsPacket`, `RawFramesDecodable`, `ReadersEnd`, `NeverOversleeps` | MP4 files, recorded or laid out by others, cut or not, are read back in order; FLV files, cut or not, are published with whole tags, times that go on, and packets deleted once outside the cases of section 8; raw frames are made into tags once each, behind the headers they are decoded with |
| `mp4_last_sample` | MCMediaFiles | `GivesEverySample`, violated | finding 5 |
| `hdl_stream` | MCHdlStream | `TagsInOrder`, `EofAtEnd`, `FailsForAReason`, `NothingBehindTheBody`, `StopsAtEnd`, `FindsItsHandler` | the tags of an HTTP-FLV stream come whole and in order, whatever the pieces, the framing, a wrong length or a server that dies, up to a timeout that tears one; only such a timeout lets the client take payload for a header; and it stops at the end |

A property that has several parts is the conjunction of named ones, for example
`BytesIntact` of `UnreadIntact` and `SliceIntact`. The type invariants are
proved (section 7) rather than run.

Each property of a passing run has a mutant in `PROJECT.json`: a slip in one
definition with which TLC finds the property violated under the same
configuration. The mutants are the operators marked `mutant`, next to the
definition they replace.

Deadlock is not checked: a bounded peer runs out of messages, a socket fails for
good, an asserting process aborts, a session ends. That nothing hangs before is
what the liveness properties say.

## 5. Bounds

Sizes are small, and chosen on both sides of every comparison in the code.

- **FastStream**: buffer 4 growing to 5 or 6, requests of 1, 3, 4 and 7 against
  it (smaller, equal, larger than either size), `skip` back 2, 11 bytes in all,
  which lets the buffer be filled, moved and reset several times.
- **ChunkReader**: two chunk streams, two types (a chunk may change the type of the
  message it continues), lengths 0 and 2 with chunk sizes 1 and 2
  (a message in one chunk, in two, and empty), refused size 0, extended limit 2,
  timestamps modulo 2. `TimeBound` stops retries of a call whose timestamp keeps
  growing.
- **ChunkPeer**: three messages out of seven on three chunk streams, among them
  SetChunkSize, an empty one, and timestamps below and above the extended
  limit 4 and above 2^31 (here 8); at most three tokens in flight before the
  peer writes again. Three messages are what it takes for two to interleave
  while the chunk size changes. Deltas that need an extended timestamp are left
  out, see section 8.
- **ChunkLink**: batches of up to three out of four messages and two packets;
  the header cache has 9 bytes for headers of 1 to 4, so that it runs dry inside
  a batch; 4 iovecs at first and 3 for a `writev`, so that they grow and are
  written in pieces; one queued response.
- **AckWindow**: numbers modulo 32 with the reset above 10, so that 14
  bytes reach past the reset; window 6, messages of 1 and 3 bytes, 1 byte of
  handshake, counted twice.
- **Session**: all four purposes (a player may come with the fast handshake), two pieces of media to the server and three
  messages of the server, pings or pieces, alone or in aggregates of two; the
  clock of an aggregate is anywhere from 0 to one piece ahead of it (`MaxAhead`).
  The control flow of a session is finite; media and pings only lengthen
  it.

- **Records**: one record of every class and one for each optional part, AMF0
  values to the depth the classes allow, SEI payloads on both sides of 255, both
  versions of the boxes, tables of 0 to 2 entries; TS packets with every optional
  field, tables of both codecs, frames that fit one packet, just do not, and take
  three; a packet behind a message that is complete, unfinished, or of unknown
  length, behind a lost packet, or for the second time; every block is cut at every byte, TS packets at the ones where it
  matters.
- **Mp4File**: up to 4 samples of three kinds with deltas of 0, 1 and 3, for
  two tracks and runs that begin and end; two foreign layouts; a buffer of 5
  units, so that the mdat box of one or two samples fits and that of three does
  not; `CutSamples` bounds the recordings that are cut to 2 samples.
- **PublishTool**: up to 2 tags of five kinds, with data, without and of a type
  that is not known, 3 or 8 after each other (one is slept for, one is beyond
  the jitter), files cut at any unit; two rounds, a list of two files; made up
  times of 0 and 90; times modulo 256 and sleeps modulo 32.
- **RawFrames**: three buffers out of sixteen: parameter sets together, alone,
  again and changed, an SPS on both sides of four bytes, a delimiter, other
  NALUs, a buffer without a start code; ADTS frames of two formats, of a
  reserved object or rate, and of lengths below, at and beyond what there is.
  Three buffers let a header that was refused be followed by a frame, a change
  of one set, and another frame.
- **HdlStream**: four registrations of which two happen, three requests, three
  scripts of at most two tags with times on both sides of 2^31 (8); pieces of 1
  or 10 units are written while at most one is on the wire (`Window`), 1 or 3
  arrive at a time; a buffer of 6 units, and a header that is longer. What is no
  size reads as -1, 0 or 2, what is no header as a video tag of one unit or as an
  empty tag of no known type. Two timeouts: the second may fall into the call that is
  made again after the first, which one cannot.

## 6. Fairness

- ChunkPeer: `WF(Reads)`. The caller keeps calling `recv_message` (the loops of
  the tools do), and what has been sent arrives. A failing socket is allowed at
  any time and excuses what is still on its way. The peer owes nothing.
- ChunkLink: `WF(Writes)` and `WF(Reads)`: a call, once entered, runs on, and a
  blocked `writev` continues when the other end reads.
- AckWindow: `WF` of reading, handling, flushing and of the peer taking
  responses. A program that answers manually is one that keeps sending. The
  peer's decision to queue messages is not fair.
- Session: `WF(Client)`, `WF(Server)` and `WF(Leaves)`. Both programs run on.
  The client's waits end because sockets have receive timeouts (30 s by default,
  36235; 4 s in the tools): `GivesUp` is part of `Client`. A server that has
  rejected or refused a client closes the connection. Pings, media and breaking
  the connection are not fair. `CallsReturn` rests on servers that send finitely
  many pings (`MaxServed`): 24547 waits as long as something else arrives.

- MediaSpec: `WF` of the decoder and of the tool: a program that reads a file
  goes on. Recording and the cut are not fair.
- HdlStream: `WF(Client)`: the client goes on and what was sent arrives. The
  server owes nothing, but what it has sent and its close are seen in the end.

## 7. Proofs

TLAPS proves these for every value of the constants that the named assumptions
of the modules allow (sizes positive, caches at least one header long, requests
positive, ids natural). No theorem assumes a bound of a run.

- **FastStream_proofs**: `BufferTypeCorrect`, `BytesStayIntact` (with its parts
  `UnreadBytesIntact` and `SliceStaysIntact`), `RequestsAlwaysMet` (with
  `GrowHasRoomToRead` and `GrantsAreBacked`), `UnreadsOnlyUndo`, an action
  property, and `NoAbortWithinBuffer`. The inductive invariant is the conjunction of `TypeOK`
  with the four others: that a granted request is backed is what keeps `p`
  behind `end`, and room to read is what keeps `end` inside the allocation. The
  last bounds finding 4: as long as no request exceeds the buffer, the assertion
  of `grow()` holds.
- **ChunkPeer_proofs** (the reader): `ReaderTypeCorrect`, `ChunksAlwaysFit` (with its
  parts `PayloadAlwaysFits` and `ChunksAlwaysAdvance`), `MessagesAreWhole`, for any peer and any retries. The
  invariant adds to the types, for each chunk stream, that what was received is
  at most the announced length and that the buffer was created with it
  (`ChunkOK`), and for the current chunk that it belongs to an open message
  whose timestamp is masked before its payload is read (`CurrentOK`). From it
  follows the action property `PartialsAlwaysGrow`: a step that changes what was
  received of a message appends to it, or hands the message out, and none
  changes its length. Its type may change (section 8).
- **ChunkPeer_proofs** (the reader and a peer): `PeerIsUnderstood` and `PeerThroughChannel`, the
  refinement of `MessageChannel`, for any set of messages, any interleaving and
  both styles of extended timestamps. The invariant is about the tokens in
  flight. `Sends` is one chunk that takes the peer from one state to another,
  `Carries(e, w, s, u)` says that the tokens `w` take it from `s` to `u`, chunk by
  chunk: it is the least relation that has the empty step and can be extended at
  its front, so that induction over the wire is an argument about all relations
  closed like that. `Followed` says that the reader is where the peer was in some
  state `s` (`Between`), or inside a chunk that the peer sent in `s` (`Reading`),
  that what it remembers of each chunk stream is what the peer said last over it
  (`Agrees`: timestamps modulo 2^31, omitted fields, half received messages), and
  that the rest of the wire takes the peer from there to where it is now. One
  lemma for each step of the reader shows that it takes the next token for what it
  is; that the channel is a FIFO follows, since what was sent whole in `s` is a
  prefix of what has been sent whole now (`CarriesDone`). Both theorems have the
  hypothesis `Tellable`: a peer that may leave out the extended timestamp of
  continued chunks sends none that reads as 0 or as a word of payload. Without it
  the theorem is false, and `chunk_peer_zero` is the counterexample (finding 1).
- **ChunkLink_proofs** (the writer): `WriterTypeCorrect`, `GatheredStaysIntact` (with
  its parts `HeadersStayIntact`, `CacheAlwaysSuffices`, `IovsAlwaysFit`), for all cache and iovec sizes. What
  makes it inductive is that the headers that iovecs point to lie below
  `cache_index`, iovecs come in pairs and their number is even, and the writer
  only gathers where the largest header fits. `AllWrittenInOrder` adds what is
  owed (`Owed`): as long as no write has failed, what was handed over is what was
  written whole, then the messages that end among the iovecs gathered, then those
  of the call still to be gathered (`OrderInv`). `LinkGathersIntact` and
  `LinkWritesInOrder` carry both over to a writer with a reader behind it.
- **ChunkLink_proofs** (both ends): `LinkIsUnderstood` (`Understood`) and
  `LinkThroughChannel`, the refinement of `MessageChannel`, for any messages,
  batches, packets, queued responses, cache and iovec sizes and chunk sizes, with
  failing reads and writes. The invariant (`RInv`) has a *line* between the two
  ends. A place on it (`Places`) lies between two chunks and says which message is
  written in part, how far, and what the chunk size is. `Carries(w, s, u, d)` says
  that the tokens `w` lead from place `s` to place `u` and complete the messages
  `d`; as for `ChunkPeer` it is the least relation that is closed under a chunk at
  the front. `Chain` says that the iovecs gathered come in pairs of the header and
  the payload of one chunk, each where the one before it ends, up to the place
  `Here` where the writer gathers next, so that whatever number of them a `writev`
  takes leads from a place to a place, or between header and payload of a chunk
  (`Spot`, `OnTheLine`). `Followed` says where the reader is: between two chunks
  (`Between`), inside one whose remaining tokens come next (`InsideChunk`), or at
  the end of a message (`AtEnd`); that what it remembers of each chunk stream is
  what was written over it (`Holding`, `Alone`); and that the rest of the wire
  leads from there to the writer's spot. `LinkAssumption` says what the two ends
  agree on beforehand: the chunk streams, types and message streams in use, that
  batches are of media, and that a packet announces a permitted chunk size, which is
  its first word. Both theorems have the hypothesis `~ShortWrites`: `writev` writes
  everything or fails. Without it they are false, since the rest after a short
  write is not written (section 8); the constant is there to say so, and the
  theorems about the writer do not need it.
- **Selection_proofs**: lemmas about `Among`: what it picks out of nothing, out
  of a sequence with one more element, and out of two joined; about
  `FlattenSeq`, which joins the sequences of a sequence, one at a time, and where
  each of them is then (`FlatPlaces`); and about `Accumulated`: what each step
  keeps holds in the end (`Accumulates`), and one more element is one more step. It rests on
  induction over a set (`Induction`, `SeqInduction`): the least element of the
  complement of a set of naturals leads to a contradiction. The theorems of the
  library take a predicate, which these provers cannot instantiate; a set they can.
- **AckWindow_proofs**: `AckTypeCorrect`, `AcksStayNearlyTrue`,
  `PingsAnsweredInOrder`, for any modulus, reset limit, window and message size.
  The invariant relates the counters (`rbytes` is what arrived and the handshake
  once more, `nb_recv_bytes` is behind it) and bounds every acknowledgement on
  its way. For the pings it says where each number is (`Pings`): the answers
  under way, those that wait for a send and the requests not read yet carry
  three adjoining ranges of numbers, each in order (`Ordered`).
- **Session_proofs**: `ResponsesKnown`, for any set of purposes and any amount
  of media and pings. `NoUnknownResponse` is not inductive. The invariant says
  which commands may be recorded under each transaction id, that each request on
  its way is recorded under an id of its kind, and that each result on its way
  belongs to a recorded request of its kind. Ids 2 and 3 are shared by several
  commands: the first because no client both calls `create_stream` and
  `fmle_publish`, the second because the results have one form (`OneClass`).
  The second part of the module is `SessionsStartAsAsked`, for any set of
  purposes, any stream id and any amount of media and pings. `StartsAsAsked` says what the two
  ends know of each other, and what makes it inductive is that a client sends
  what it sends in one order, whatever the server does: its script (`Line`).
  `InScript` says that the client has sent `n` lines of it and the server taken
  `k`, that the lines between are on their way (`OnItsWay`), and for each place
  of the client and of the server what `n` and `k` are there (`ClientAt`,
  `ServerAt`). `Told` says that what is on its way back to the client is true,
  for instance that a status of a refusal has a server behind it that leaves, and
  that media is on its way only to a client that has made all its waits.
  The third part is `SessionsCarryMediaWhole`, which adds to it what has been
  counted (`Counted`): the pieces returned, those left of an aggregate and
  those on their way follow each other without a gap up to what the server has
  sent, or to where the connection was cut off (`Following`). What a publisher
  sent follows from its script alone (`TakenInOrder`). `Clocked` adds the times: of the
  media on its way, what comes second in an aggregate whose clock is ahead is in
  `ahead`, and nothing else is. The
  theorem covers clocks that are any distance behind or ahead.
  `RequestsAnsweredInOrder` states `AnsweredInOrder`. Its invariant (`Ordered`)
  says that until the server leaves, the requests it has answered, the one it is
  deciding about, and those on their way to it are, one behind the other, what the
  client has asked; after that, what it has answered is where those begin.
- **HdlStream_proofs**: `StreamInOrder` (`TagsInOrder`), `StreamEndsAtEnd`
  (`EofAtEnd`), `StreamFailsForAReason` and `StreamEndsAtItsLength`
  (`NothingBehindTheBody`), for any scripts, pieces, arrivals, buffer and number
  of timeouts, whatever payload is taken for. The first is about what is given
  before the client takes payload for a header; the third says that it does so
  after a timeout inside a tag or a chunk and not else. None of the four is
  inductive alone. The invariant says that the client is in one of three states. It
  is `Sound`: where it should be, of which the rest of this paragraph speaks. Or
  `Adrift`: it has taken for a header or a size what is none, so that the messages
  given before stay as they were and nothing else is known but that a length is
  still the length of what comes. Or `Bare`: it waits for the headers of a response
  whose first chunk came before them. Of a client that is sound, `Writing` says how much of the
  body the server has written. `Layout` says what the units are that are not read
  yet, those in the buffer and those on the wire: the rest of the headers
  (`Ahead`), then the rest of the body as it is (`Raw`) or in chunks (`Chunks`),
  where each unit leads a reader from one state to the next (`Step`, `Way`) from
  where the client is (`Reader`) to where the server is; or, after a timeout in a
  chunk, something that is not the size of a chunk (`Stray`). `Place` says where in the body the call at hand began: at
  the part of a tag that it is after, with all tags before it given (`Aligned`),
  or torn by a timeout, where no tag begins (`Torn`). `Starts` is where the tags
  begin in `Body`, by induction over the script with the lemmas about
  `FlattenSeq`. `Told` is what the client stopped for. The attempt corrected the
  property: that no tag is ever left out is false with two timeouts (section 8).
  `MuxFindsItsHandler` (`FindsItsHandler`) is about the mux alone, for any
  registrations in any order. `MuxHolds` says that each registered pattern keeps an
  entry, that what an entry serves leads to that entry's own pattern unless a
  redirect took its place, and that the hosts kept are those of the patterns.
  With it, a pattern that covers a request matches its path (`CoveredMatches`), and
  a longest match exists because none is longer than the path (`LongestOf`).
  `RegistrationsAssumption` and `RequestsAssumption` say only that patterns and
  requests are paths, and that what is registered serves a stream or a file.
- **MediaFiles_proofs**: `RawMakesWhatDecodes` (`RawFramesDecodable`), for any
  buffers that a caller gives and whatever the connection refuses. `InOrder` says
  that tags are made for the piece in hand, hence in the order of the pieces.
  `SetsKept` says that the Context has the parameter sets given last (but for a
  short SPS), and that a set is known to have changed only if one was given.
  `HeaderKnown` says that the header made last has the sets of the Context, but for
  those marked as changed: a frame is made only when none is, so that the header
  before it has the sets given last. That no header is made without an SPS, and
  that a frame is dropped only while there is none, is the same conjunct for
  before the first header. `ConfigKept` says that the one AAC header is of the
  configuration kept, which is that of an ADTS frame looked at, or of the one in
  hand between its header and itself; that a frame of another configuration comes
  behind a change of format follows from it and the order. `LastGiven` is a
  maximum over the pieces looked at: `LastOfKept` and `LastOfNext` say what it is
  when one more is, so that no induction is needed.
  `ToolOwnsItsPacket` (`OwnsItsPacket`) says for each place of the loop of a tool
  whose the packet can be (`OwnInv`), for any file, cut anywhere, any plan and any
  failure. It says nothing of what is in the file, which is why a made-up size is
  covered too.
  `PlaysWhole` (`PlaysWhatIsWhole`) does: the file is the begin of `FileOf` the
  tags recorded (`FileInv`; `FileBegins` and `FileGrows` say where a tag stands in
  it), and `Placed` says for each place of the loop where the file reader is: as
  many tags into the file as the round has sent (`Behind`), behind the header of
  the next one or, when that was cut, at the end of the file, where reading data
  fails (`NoDataFound`): this is why what a short read made up is not sent.
  `EndsHere` says that a round that ends with a good result has sent all there
  was. `SleepsNoLonger` (`NeverOversleeps`) adds the clock (`NapInv`): the pulse is
  not ahead of it, and the times in hand are times of the recording unless the
  file ends in a header. `FileAssumption` says that sizes and times are natural
  numbers and that times of a recording do not run backwards.
  `FilesOpenWhenComplete` (`OpensWhatIsComplete`), for any samples, sizes of boxes,
  buffer and layouts of another muxer. `Recorded` says what a file is: torn as long as
  the flush has not ended, its mdat box the size of a header and followed by something
  that is no box; or laid out in boxes (`Boxed`), each where the one before it
  ends. Both stay so when the file is cut. `HasRead` says that the decoder stands where
  a box begins (`Stands`), the units in its buffer and ahead of it being those of the
  file from there on, and that no box it has passed was a moov box. In a torn file it
  gets to no moov box: this is why the recording is not opened. In a whole one it
  gets to the moov box, behind a ftyp box, unless a mdat box is refused first; and
  the moov box is not refused, because its tables fit each other. That needs an
  induction over the samples for each table: one of runs is for as many values as
  its counts add up to (`Marks`, `RunsFor`), and reading it finds
  that many (`CountedFits`); the entries of stsc give the chunks their numbers of
  samples back (`EntriesAt`), which add up to those of the track. It is proved for the
  tables of the encoder and for those of another muxer (`MuxedFits`).
  `LayoutsAssumption` says that another muxer writes a mdat and a moov box, the
  moov box behind a ftyp box, and that its layout is not the encoder's own, which
  tells its files from recordings. `SizesAssumption` says that no box is less than its
  header. `KindsAssumption` says that samples are not empty, for which the code
  does not look: a recording of empty samples alone has a mdat box that is
  right before the flush corrects it, and opens with a flush cut short.
  `FilesKeepTimes` (`TimesKept`), for any samples, in any order of the tracks and at
  any times. `RunsFor` also says which values the runs of a table stand for
  (`Deltas`, `Lates`), so that counting through stts and ctts gives them back
  (`TrackLoaded`). The times of a track are then sums of what lies between its
  samples (`FrontSums`). `tses` is in the order of the file, with one sample for each
  place (`ByPlaceSorted`); as samples are written at the end of the file
  (`IsStored`), it holds all samples of both tracks, and those of a track in the
  order they were written in (`BothSorted`). Two sequences in the order of the file
  with the same samples are the same (`SortedUnique`), so that the order in which
  the tracks are merged does not matter. The adjustment moves all times of a track by
  as much (`LoadOf`), and milliseconds modulo a power of two keep what lies between
  two times (`MovedTimes`). `Tabled` relates this to the file: what a moov box of a
  recording holds are the tables of all that was written, wherever it was cut.

Only model-checked: liveness (`EveryMessageArrives`, `PeerGoesOn`,
`SessionsGoOn`, `ReadersEnd`, `StopsAtEnd`), which is out of the reach of the
provers used; the models of records; `SamplesGiven` of MP4 files;
and `TimesGoOn` of the tools. The last is not true for every value of the constants: the times of the
tags wrap at `TimeMod`, and `re_cleanup` sleeps for less than the file lasts
when that is more than `SleepMod`, so that it is about clocks and files within
the bounds of the run. The definitions of records are RECURSIVE, which these
provers do not take. For MP4 files the places and times that are loaded are
proved to be those written; that the units which the decoder reads at each place are
those of the sample, through its buffer and its seeks, has not been done.

## 8. What the code does otherwise than it says

Each of these is a violated run; `PROJECT.json` quotes the lines.

1. `chunk_peer_zero`: an extended timestamp of exactly 2^31 is masked to 0 and
   then taken for "no extended timestamp" (23376): with a peer that does not
   repeat it in fmt 3, the first payload word of each continued chunk is lost.
2. `ack_window_stuck`: acknowledgements are only considered when a whole message
   has been read (23486): a peer that stops inside a message that is larger than
   half the window waits for ever.
3. `session_stream`: `fmle_publish` takes the first packet of any kind for the
   result of `createStream` (24503), so that the tools publish over stream 0.
4. `fast_stream_abort`: `grow()` asserts that the unread bytes do not fill the
   buffer before it looks whether the request fits (30524), for which it has an
   error. After `skip(-4)` they may fill it, and a chunk size above the buffer size
   makes the request: the process ends. No smaller request does
   (`NoAbortWithinBuffer`).
5. `mp4_last_sample`: `SrsMp4SampleManager::at` takes the largest index for one
   that exceeds it (18631); the comment of its declaration (3752) says NULL only
   beyond. The last sample of a file is never given. `SamplesGiven` allows
   for that one to be missing (`EndsLate`), and for no other.

What else came to light. The properties bound these cases: they state what holds
outside of them.

Connections:

- A receive timeout inside a chunk returns with a part of it consumed (22205),
  although callers may ignore the timeout: the next call takes the rest for a
  new chunk.
- A fmt 1 chunk inside a message may change its type (23241-23300), and the
  message is handed out with the last one. `PartialsGrow` is silent about types.
- A short count of `writev` is reported as success and the rest is not written
  (30232, 38917).
- An extended timestamp that belongs to a delta (fmt 1 and 2) is stored as the
  timestamp itself (23381). The peers of `ChunkPeer` never send one.
- Bytes read with `read_fully`, those of the handshake, are counted twice
  (38967), which is why `AcksNearlyTrue` allows for them.
- The loop that waits for the status of publish (24546) turns every error into
  success and ends only with an error or a status other than
  NetStream.Publish.Start. `PublishTellsOutcome` states what is left: with a
  server in time and a connection that holds, success means that the server has
  started the publisher.
- The difference between the clocks of an aggregate and its parts is kept in an
  integer whose negative values mean "not known yet" (36544). If the parts' clock
  is ahead, it is taken again at each part, and all parts get the time of the
  aggregate. `MediaIntact` says so of the second part of each such aggregate, and
  that every other piece has its own time.
- `read_c0c1` and `read_s0s1s2` keep the block they allocate when the read fails
  (23847-23950): a second call returns success with bytes that were never read.
  No caller calls again.
- A publishing client never receives after `srs_rtmp_publish_stream` has
  returned (`src/rtmp-publish.cpp:262`): pings go unanswered.

Records:

- An SEI payload whose size is a multiple of 255 is written without its last
  size byte, while `get_size` counts one (27826). The records of the run have
  254 and 256 bytes.
- The loops of AMF0 containers end at the end of the block as at the end mark: a
  cut message is taken for a whole one. `NothingInvented` says it is at least the
  begin of what was written.
- What this code writes as answer of a fast handshake it cannot read: `get_size`
  is not overridden, the fields are written in another order than they are read,
  and the flag before them is another one than is looked for (22815-22890,
  24791-24923). The stream id of the answer is not kept: a publisher that began
  with it (`srs_rtmp_fast_handshake_publish`, which no tool calls) would publish
  over stream 0. The request is padded to 1532 bytes with memory that was never
  written (22784). The model reads the answer of a peer that follows the decoder.
- The types of TS streams are read as signed bytes: AC3 and DTS never match
  (14225). The room a PES extension asks for assumes that private data came
  before a pack field (13404): without it, 16 bytes too few are asked for.
- The length of an AMF0 string is kept in a signed 16 bit integer (21660): one of
  32768 bytes or more reads as empty.

MP4 files:

- The first composition offset is lost (3488 says otherwise); a delta of 0 in the
  open entry of stts merges two entries; the offset between audio and video is
  not kept. The decoder takes a delta as one from the sample before, ISO as one
  to the sample behind: files of other muxers come with their times shifted.
- A file whose mdat box is in the buffer as a whole is refused, since its samples
  are decoded as boxes; if there is more of it, the error is overwritten by the
  result of a seek (19316).
- With 4 to 7 bytes left in the buffer, `initialize` does not end (19277). A
  sample cut by the end of the file is given with an uninitialized end (19114).

FLV files and tools:

- The reads of `SrsFlvDecoder` are content with less than they asked for. A file
  cut between the data and the previous tag size of its last tag loses that tag,
  and the end of the file is then an error. A header that is cut has a type, a
  size and a time off the stack; the tag is not sent, but `re_cleanup` sleeps for
  the made up time, up to 71 minutes. A script tag (time 0) at the end of a file
  that begins later does the same, by an unsigned difference
  (`src/libs/rtmp_tool.cpp:91`).
- A tag of size 0 ends the round as if it was the end of the file, and
  `rtmp-publish` deletes the data of the tag before once more
  (`src/rtmp-publish.cpp:218`). `srs_rtmp_write_packet` deletes twice what has a
  type it does not know (30167, 36701). `rtmp-play` deletes the last tag twice at
  each end of a file (`src/rtmp-play.cpp:303`). `flv-publish` deletes no tag that
  was sent.
- The exit status of `rtmp-publish` is that of the end of stream packet and of
  unpublishing, whatever `do_proxy` returned. That of `flv-publish` with a list
  is 0: an inner `ret` hides the outer one (`src/flv-publish.cpp:272`).
  `flv-publish` writes an FLV header for each round, in the middle of the body.

Raw frames:

- A sequence header is made when either parameter set has changed (37082), and
  the comment of the members asks for both (35498); a stream that changes both
  has two headers, the first with one new set and one old.
- The header and the AAC configuration count as sent before they are written
  (36878, 37093): if the connection refuses one and the caller goes on, the
  frames behind it have none. A later change of the AAC format is told to nobody.
- An SPS below four bytes is forgotten with success and takes the one before with
  it; with it, or with a PPS only, the next frame fails the assertion of
  `mux_sequence_header` (30748). A `frame_length` below its own header fails that
  of `require` (30995).

HTTP:

- A tag without data fails the assertion of `read_specified` although the HDL
  client means to drop it (`src/libs/app/hdl.hpp`).
- `read_full` forgets what it has when a read fails, and `read_chunked` counts
  bytes as read that did not come: after a timeout inside a tag the client has
  lost its place, and a caller that goes on reads the rest of the tag as a header,
  or as the size of a chunk (`src/libs/protocol/http.cpp:1224`), of which `strtol`
  makes some number. It may give messages that nobody sent (`strays`).
  `TagsInOrder` is about the messages before, and `FailsForAReason` says that
  nothing but such a timeout leads there.
  If that call times out as well, it may do so right where the next tag begins:
  then the client goes on from there, and no error tells that a tag is missing.
  Any two bytes are taken for the end of a chunk.
- `write(data, 0)` ends a chunked body. `final_request` without any write ends a
  body whose header was never sent. A `writev` behind `write_header` sends a
  chunk without the header (`src/libs/protocol/http.cpp:936` looks at
  `header_wrote` only): a client waits for headers for ever if the connection is
  kept, which `StopsAtEnd` excepts (`Headless`).
- Registering "/tree/" replaces an explicit handler of "/tree" by the redirect,
  although the comment above says that an explicit one can override it; the
  redirect is answered 302, the comment says permanent. A host that has patterns
  of its own does not fall back to the general ones.
- A wrong size of the previous tag is only logged. An HTTP error the parser finds
  with a complete header in the buffer makes the client wait for more.
- The tag writer of HDL does not look at how much `writev` wrote, and
  `srs_hdl_create` sets a send timeout of 5000 us. `SrsHttpCorsMux` never resets
  `required`.

## 9. What is not modelled, and why

The complex handshake and the fallback from it: its cryptography is not in the
build, `SRS_AUTO_SSL` is not defined, and the simple one is what the client takes
at once. Of TS the packets are modelled, each with the
message its pid has before it; the transmuxer, the muxers of AAC and MP3, `SrsFormat`, RTSP, RTP, JSON and the bandwidth check are reached by no tool of this
repository; Kafka is not compiled. `SrsFlvVodStreamDecoder` and `write_tags`
serve the server SRS, as do the CORS mux and hijackers of HTTP. `SrsHttpUri`,
the query strings of `SrsHttpMessage`, logging, printing and the tools'
statistics are formatting. `http_parser`, the argument parser and OpenSSL are
third-party code. Of the server, `on_play_client_pause` and a confirmed redirect
are left out: no client of this repository sends what they wait for. Of the HDL
client's publishing direction only the tag loop is modelled: what receives it is
not in the repository. Memory management is modelled where it can go wrong
between steps (buffers, caches, iovecs, the tag in the hand of a tool), not as
such.

## 10. How to run

In this directory, for example

```
tlc -workers 2 -config MCChunkLink.cfg MCChunkLink.tla
tlapm Session_proofs.tla
```

`PROJECT.json` lists the module and the configuration of every run, the mutants,
and the source lines of each definition. The longest run takes less than three
minutes, all proofs together less than half an hour.
