# Verification of imx53Server

imx53Server is an Android application for a board with eight cameras. It
streams one of them (and the microphone) over RTSP and RTP, using a copy of
the streaming library of MajorKernelPanic, and takes a photo with all eight on
the command of a control client, which then fetches the files. The photos go
through a copy of libjpeg-turbo, the greater part of the repository. This
directory holds TLA+ models of the application's concurrent parts and of that
library, the TLC runs that check them and the proofs TLAPS checks.

Paths below are relative to the repository; `streaming/` stands for
`src/net/majorkernelpanic/streaming/` and `app/` for `src/com/wx/imx53server/`.

## 1. The system

| Part | State | Operations | Talks to |
|---|---|---|---|
| RTP socket, `streaming/rtp/RtpSocket.java` | ring of 300 buffers, two semaphores, two indices, sequence number, sender thread | `requestBuffer`, `markNextPacket`, `commitBuffer`, `run` | the packetizer's thread fills the ring, its own thread empties it |
| Packetizers, `streaming/rtp/*Packetizer.java` | thread, input stream, time of the last report | `start`, `stop`, `run`, `send`, `fill`, `resync` | RTP socket, sender report, the recorder's local socket |
| Sender reports, `streaming/rtcp/SenderReport.java` | packet and octet counts | `send`, `update` | called by the packetizers |
| Media streams, `streaming/MediaStream.java`, `video/`, `audio/` | `mStreaming`, local sockets, recorder | `start`, `stop`, `generateSessionDescription` | devices, packetizers |
| H264 test, `video/H264Stream.java` | cached parameters, `mLock` | `testH264` | waits for a callback of the UI thread's looper |
| Sessions, `streaming/Session.java` | two tracks, the static `sLock` | `getSessionDescription`, `start`, `stop`, `flush` | streams |
| RTSP server, `streaming/rtsp/RtspServer.java` | `mSessions`, listener, a worker per client | `start`, `stop`, DESCRIBE, SETUP, TEARDOWN, the end of a worker | sessions; UI thread calls `start` and `stop` |
| URI parser, session builder | defaults | `parse`, `build`, `parseQuality` | called by DESCRIBE |
| MP4 parser, `streaming/mp4/` | none kept | `MP4Config` | called by the H264 test |
| Control server, `app/ServerThread.java` | the current client | `run`, `piture_done`, `release` | posts commands to the activity's handler |
| File server, `app/FileServerThread.java` | the files to send, `setFileDone` | `setFile`, `run` | called by the handler |
| Activity and camera, `app/MainActivity.java`, `app/MyCamera.java` | camera number | commands of the handler, life cycle | all of the above, native code |
| Capture, `jni/v4l2.c`, `jni/bjwgpio.c` | descriptors, mapped frames, GPIO lines | `prepareBuffer`, `takePicture`, `camSel`, `setMode` | V4L2 and GPIO drivers |
| Boot and networks, `app/StartupReceiver.java`, `app/WifiAdmin.java` | none | start the network and the activity | Android |
| JPEG compressor, `jni/jc*.c`, `jdatadst.c` | the state of `jpeg_compress_struct` and of its modules | `jpeg_start_compress`, `jpeg_write_raw_data`, `jpeg_write_scanlines`, `jpeg_finish_compress`, `jpeg_abort_compress` | called by `yuv420_to_jpeg` of `v4l2.c`; writes to a file or to a client's destination |
| Parameters and headers, `jni/jcparam.c`, `jcmarker.c`, `jdmarker.c`, `jdinput.c` | tables with their `sent_table`, the marker reader's state | `jpeg_set_*`, `jpeg_add_quant_table`, `write_file_header` ... `write_tables_only`, `read_markers` and its handlers | compressor, decompressor, TurboJPEG |
| Entropy coders, `jni/jchuff.c`, `jcphuff.c`, `jcarith.c`, `jdhuff.c`, `jdphuff.c`, `jdarith.c` | counts, code tables, bit buffers, EOB runs, statistics, restart counters | `jpeg_gen_optimal_table`, `start_pass`, `encode_mcu_*`, `finish_pass`, `decode_mcu_*`, `process_restart` | called by the coefficient controllers |
| Color quantizers, `jni/jquant1.c`, `jquant2.c` | palette, index tables, histogram, error lines | `jinit_*_quantizer`, `start_pass_*`, `color_quantize`, `prescan_quantize`, `finish_pass1`, `new_color_map` | called by the decompressor's post processing |
| TurboJPEG, `jni/turbojpeg.c`, `jdatadst-tj.c` | a compressor, a decompressor and the parameters of a call | `tjCompress2`, `tjEncodeYUV2`, `tjDecompressHeader2`, `tjDecompress2`, `tjDecompressToYUV`, `tjTransform` | a client; drives all of the library |
| JPEG decompressor, `jni/jd*.c` | the state of `jpeg_decompress_struct`: a source that may suspend, markers read, MCU and restart counters, the coefficients, two lists of row pointers, the quantizer's image | `jpeg_read_header`, `jpeg_start_decompress`, `jpeg_read_scanlines`, `jpeg_read_raw_data`, `jpeg_consume_input`, `jpeg_start_output`, `jpeg_finish_output`, `jpeg_finish_decompress`, `jpeg_abort_decompress` | a client's source and its buffers of lines |
| Lossless transforms, `jni/transupp.c`, `jctrans.c`, `jdtrans.c`, `tjTransform` of `turbojpeg.c` | coefficient arrays of the image and of each transform, the markers saved | `jtransform_request_workspace`, `jtransform_adjust_parameters`, `jtransform_execute_transform`, `jcopy_markers_execute` | driven by `jpegtran.c` and `tjTransform` |
| JPEG memory, `jni/jmemmgr.c`, `jmemnobs.c` | two pools of chunks, virtual arrays | `alloc_small`, `alloc_large`, `alloc_sarray`, `alloc_barray`, `request_virt_*`, `realize_virt_arrays`, `access_virt_*`, `free_pool`, `self_destruct` | called by every module of the library |

The sequential compressor, its Huffman tables and the memory are what this
application runs of libjpeg-turbo; the decompressor, the transforms, the other
entropy coders and the quantizers are built into the same library, which other
programs of the repository (`djpeg`, `jpegtran`, TurboJPEG) call. Section 6 says
what is left out.

### What is hard, and what makes each part correct

* **RTP socket.** Producer and consumer share a ring with nothing but two
  semaphores between them; the consumer ends when idle or on any exception and
  is started again by a commit. Correct means: permits, indices and numbering
  agree after any failure, a buffer being sent is never written, packets leave
  in order, and no packet or caller waits for a sender nobody starts.
* **Sessions and RTSP server.** Workers, the UI thread and the garbage
  collector meet at `sLock`; a test recording holds it for up to eleven
  seconds, waiting for the UI thread's looper, while the UI thread may wait for
  it in `stop()`. A start or a stop can throw half way. Correct means: one
  thread at a time works on devices, what runs holds its device, requests and
  `stop()` end, and no stream outlives its client or its session.
* **Packetizers.** A `stop` that gives up waiting for its thread, so that two
  threads share the stream, the clock of reports and the ring; interrupts
  that are swallowed, end of stream in a loop that does not look for it,
  failures with a buffer in hand; FU-A splitting at boundaries. Correct means:
  a thread that was stopped ends, sends at most the packet it was at, loses at
  most a buffer, and units reach the receiver whole.
* **Photo path.** Commands are queued for the handler, photos overwrite the
  files another thread is sending, and replies go to whoever is connected.
* **Capture.** Early returns that leave descriptors and buffers behind, and a
  global descriptor used after it was closed.
* **JPEG.** A destination may refuse in the middle of an MCU, which is then
  coded again from the state before it; passes must agree on what they count
  and code; a table once marked sent is left out; code lengths are cut by
  counts alone; addresses need an alignment that is not known when room is
  asked for. Correct means: what is written is the image, in a form a decoder
  can follow, no two objects share a byte and every chunk goes back once.
  A decompressor's source may run dry at any byte, restart markers may be lost,
  repeated or wrong, an upsampler needs rows of the iMCU rows before and after
  through pointers that are patched at the edges, and a client may show scans
  that have not come. Correct means: every line once, from the right rows, and
  a damage no wider than the restart intervals it touches. A transform mirrors
  what is whole, leaves what the edge cuts, and works in the image's own arrays
  if it can. Correct means: every file is the image that was asked for, pixel
  by pixel, whatever was made of the image before. A progressive coder puts off
  runs of blocks and correction bits, an arithmetic one carries into bytes it has
  put off; a decoder that runs dry must take back what it changed. Correct means:
  every coefficient has the bits that were sent, and no other. Headers say once
  what later scans, and later files of the same object, rely on. Correct means:
  at each scan the reader has the tables, intervals and components the writer
  had. A quantizer's index tables, caches and error lines outlive the pass they
  were made for. Correct means: each pixel gets the color its palette and dither
  ask for, whatever the passes before were.

`PROJECT.json` lists the hazards line by line with the properties that cover
them.

## 2. The models

### `RtpSocket` and `PacketFifo`

`RtpSocket` has the fields of the class as variables (`mBufferRequested` and
`mBufferCommitted` are the permits of the semaphores, `slots` the header fields
of the buffers, `sender = "none"` means `mThread` is null) and a program
counter per thread. An action is one step another thread can observe:

| Code | Actions |
|---|---|
| `requestBuffer` | `CallRequest`, `RequestBuffer`, `InterruptRequest` |
| `markNextPacket` | `MarkNextPacket` |
| an exception of the packetizer while it fills a buffer | `AbandonBuffer` |
| `commitBuffer` | `UpdateSequence`, `CommitBuffer`, `StartSender` |
| `run` | `EndCaching`, `TakePacket` or `TakeTimesOut`, `SendPacket` or `SendFails`, `FreeBuffer`, `EndSender` |

The test of `mThread` in `commitBuffer` and its assignment at the end of `run`
are steps of their own, because the order of the two decides whether a packet
gets a sender. Lengths, timestamps, payload and bitrate are left out; the sleeps
that pace the packets are delays of any length. `mThread` is not volatile: the
model lets the packetizer read it late, but not stale for ever. `Stuck` is the
state nothing leads out of: no buffer free, no sender, no packet in the making
that would start one. `SticksOnlyByRace` says which steps lead there.

`PacketFifo` says what the class promises: a bounded FIFO of numbered packets.
`RtpSocket` refines it, with the queue read off the ring (`Queued`).

### `MediaStreams` and `RtspServer`

`MediaStreams` keeps, per session, the tracks, which of them run, which have
their sockets open, and which session's recorder holds the microphone and the
camera. Its operators are the whole effect of `MediaStream.start`, `stop` and of
the test recording, with what they leave behind when they throw: sockets and
recorder after a start that failed, both again after a `MediaRecorder.stop()`
that threw, because `release()` and `closeSockets()` follow it in the same `try`.

`RtspServer` extends it with the threads. A worker's step runs to the next
point at which another thread can interfere. The `synchronized (sLock)` blocks in
which nothing waits are one step, guarded by `sLock = NoThread`; the two which
record a test file hold `sLock` over several steps.

| Code | Actions |
|---|---|
| listener | `Connect` |
| DESCRIBE | `Describe`, then `DescribeAtOnce` or `DescribeWithTest` |
| SETUP | `Setup`, then `SetupAgain` or `SetupStarts`; `StreamStarts`, `StreamDoesNotStart` |
| `testH264` | `TestStarts`, `TestDoesNotStart`, `OnInfo`, `TestCalledBack`, `TestTimesOut`, `TestSucceeds`, `TestFails` |
| TEARDOWN | `Teardown`, `StopAudio`, `StopVideo`, `Flush` |
| end of a worker | `Disconnect`, `StopAudio`, `StopVideo`, `Flush` |
| `RtspServer.start`, `stop` | `StartServer`; `StopServer`, `VisitSession`, `AskAudio` and `AskVideo` (`isStreaming()`), `StopVisitedAudio`, `StopVisitedVideo`, `EndStop` |
| garbage collector (external) | `Collect`, `CollectRecorder` |

`mSessions` also tells which session objects are in use. `modified` stands for the iterator's comparison of modification counts.
`isStreaming()` reads the field of a track twice without the lock: once to
see whether it is null (`ReadAudio`, `ReadVideo`), once to ask the stream. Between
the two a worker's `flush()` may make it null; then it throws, `ui` becomes
"thrown", and `stop()` swallows the exception. At a TEARDOWN a worker asks its own
session only, which no other thread flushes. Workers also ask the whole server, for
the messages posted to listeners, which are not modelled (the one listener logs them):
in a SETUP an exception of that gives the client an error, as one of the start does;
in a worker that ends it ends the process, which is left out too.

### `H264Packets`

The thread of `H264Packetizer`: `ThreadStarts`, `SkipHeader`, `ReadUnit` or `ReadNoise`
(`resync`), `SendSingle` or a `SendFragment` per packet, `Elapse`, `SendSps`,
`SendPps`, and `ThreadEnds` for an interrupt, an exception or the end of the stream at
any of them. A NAL unit is its type and its length; what is in it does not
matter, but every byte counts. The receiver (external) puts units together as
RFC 3984 says. `real` is what the stream has where the thread reads, and `inStep`
whether it reads at the beginning of a unit. `ReadNoise` shows what `resync` does: it finds a
length, and the unit is sent with the type of the header that was none. A length
of 0 is accepted: the five bytes for length and header then take one of the next
unit, an empty packet goes out (`SendEmpty`), and the thread is out of step until
it gets into step by accident or by `resync`. The parameter sets fit in a packet.
The packet order is `RtpSocket`'s; what two threads do to each other is
`Packetizer`'s.

### `Packetizer`

The life of the threads of both packetizers. `MediaStream.start()` makes a
stream (a local socket the recorder writes to) and a thread; `stop()` interrupts
the thread and closes the stream, in another order for AMR, and may return while
the thread still runs. Thread *n* is the one made for stream *n*; the fields `t`,
`is`, `delta` and `buffer` are shared, and so is `mBufferIn` of the socket. A
thread that was left goes on with the stream the next start put there, and when
it makes a packet while its successor does, both have the same buffer.

| Code | Actions |
|---|---|
| `start`, `stop` | `Start`; `CloseInput` (AMR), `Interrupt`, `Join` (H264), `StopRecorder` |
| header skip | `SkipTest`, `Seeks` |
| `run` | `LoopTest`, `ReadsUnit`, `Requests`, `Fills`, `FillReads`, `Measures`, `Reports` or `NoReport`; `ReadFails` or `ReadsNothing` at a read |
| `commitBuffer` | `Commits` up to the release, `Advances` (`++mBufferIn`), `Wraps` (its reset to 0) |
| recorder, ring (external to the class) | `RecorderEnds`, `BufferFreed` |

Every read, test of the flag and access to the ring is a step of its own. What
is in a packet is `H264Packets`', what becomes of it `RtpSocket`'s: here a
buffer is free, held or queued, and `slots` says which threads wrote to the packet in it.
`++mBufferIn` reads the index, writes it one higher and, at the end of the ring,
resets it: `Commits` reads, `Advances` writes, so that one of two increments can be
lost, and between `Advances` and `Wraps` a thread that comes in finds no buffer at
`mBufferIn` and ends with an ArrayIndexOutOfBoundsException (`NoSlot`; on Android
that ends the process as well, after which there is nothing to say). `told`, `left`,
`swallowed`, `since`, `gap`, `early`, `strayed`, `shared` and `torn` are history the
properties are about. `gap` counts the time AMR's
threads took, but for those a `stop()` left running: two such threads add the
same milliseconds to `delta` twice.

### `ControlServer`, `FileServer` and `Photo`

`ControlServer` and `FileServer` hold the state and the steps of the two
threads, `Photo` composes them with the activity. There `queue` is the looper's
queue of `mServerHandler` (FIFO), `ui` the place of the UI thread, which does one
thing at a time, and a picture or a length is the number of its photo, 0 for a
file that is empty or half written.

| Code | Actions |
|---|---|
| `ServerThread.run` | `Accept`, `GetStreams`, `Posts`, `ReadBye`, `ReadFails`, `ListenerEnds` |
| `ServerThread.release` in `onDestroy` | `ClearNum`, then `Release` (`CloseServer`, `CloseClient`, `SetStop`) |
| `handleMessage`, buttons | `HandlePic`, `ClickPicture`, `HandleChange`, `ClickChange` |
| `takePicFun`, `MyCamera.takePicture` | `PrepareFails`, or `OpenFiles` and `Shoot` or `ShootFails`; `Reply` |
| lengths, `setFile` | `ReadLength` for each file, `SetFile` |
| `FileServerThread.run` | `AcceptFileClient`, `Begins`, `Announces`, `SendsContent`, `IsAnswered`, `SendFails` |
| `onCreate` | `Create` |
| an uncaught exception, a crash (external) | `Restart` |

`Create` comes after the old activity's messages were handled and its listener
ended: two activities do not overlap. `CutOff` is what a second activity in one
process leads to: the file server's thread of the first keeps the port, and
lengths and `setFile` go to an object nobody is served by. `setFileDone` and the
lengths are read without synchronization; on the one core of an i.MX53 the
stores are seen in the order they are made, which is what the model has.

### `Capture`

`v4l2.c` and `bjwgpio.c`, called on the UI thread. `fds` is the process's table
of descriptors: `open` gives the lowest free number, other threads open and
close theirs, and the globals `fd` and `fd_gpio` keep numbers that may mean
something else later. `mappings` and `blocks` count what `mmap` and `malloc` gave
and nothing took back; `queued` and `filled` are the driver's queues and
`content` the frame in each buffer.

| Code | Actions |
|---|---|
| `camSel`, `setMode`, `setFlip` | `OpenGPIO` and `CamSel` or `SetMode`; `Flip` |
| `prepareBuffer` | `OpenDevice` (fails into the endless loop of `get_format`), `RequestFails`, `MapBuffers` |
| `takePicture` | `OpenFiles`, `StreamOn`, `Dequeue`, `Copy`, `Enqueue`, `DeviceFails`; `Save` and `ModeDown`, or `SaveCrashes`, `SaveUnmapsUsed` |
| driver, other threads, Android (external) | `Deliver`, `ForeignOpens`, `ForeignCloses`, `Restart` |

`takePicture` writes its three GPIO commands to whatever the number in `fd_gpio`
is open on by then (`WriteGPIO`): the line if it were open, a picture file, whose
bytes the command spoils (`spoiled`), a camera or nothing, which refuse it, or
another thread's descriptor, which is not this library's state. It unmaps all of
`framebuf`, also addresses an earlier photo has given back (`Stale`): nothing may be
there by now, a mapping that a failed photo left (which is then gone), or memory in
use, and the process crashes sooner or later (`SaveUnmapsUsed`).

`Photo` takes of it that a photo fails, crashes or is good.

### `JpegCompress`

The sequential compressor through any number of calls, passes, scans and images
made with one object. Lines are numbers; a row of samples is the lines it was made
from, a block its component, place and rows, and a coded block also names the
blocks whose DC it carries and is predicted from. The output is a sequence of
tokens, markers and blocks, a byte each.

| Code | Actions |
|---|---|
| `jpeg_start_compress` | `StartCompress` |
| `jpeg_write_raw_data`, `jpeg_write_scanlines` | `WriteRawData`, `WriteScanlines` |
| `process_data_simple_main`, `pre_process_data` | `Prepare` (a turn of the loop), `MainCompresses`, `MainReturns` |
| `compress_data`, `compress_output` with `encode_mcu_huff`, `encode_mcu_gather` | `EncodeMCU`, `GatherMCU`, `Suspends` |
| `jpeg_finish_compress` | `FinishPass` or `FlushFails`, `PreparePass`, `Finish` |
| `jpeg_abort_compress` | `Abort` |

An action is an MCU, a header or a turn of a loop. `ERREXIT` (a script that is
not valid, a write that fails, a client's destination that refuses where it must
not) ends in `exited` with what had reached the file by then. `Image` is written
from what a decoder expects, not from the compressor's loops. A client's set-up is
a `Config`, with what `initial_setup` accepts of components and `per_scan_setup` of
restarts (`ConfigsAssumption`); its script is any sequence of scans, since
`jpeg_start_compress` looks whether it is valid.

### `JpegHuffman`, `JpegEntropy`, `JpegArith` and `JpegScans`

An image is coded scan by scan and decoded again. `JpegHuffman` is
`jpeg_gen_optimal_table` merge by merge, the cut to 16 bits step by step, and
`jpeg_make_c_derived_tbl` with its checks. `JpegEntropy` has the sequential and the
progressive Huffman coders and decoders as operators on their state: predictions,
EOB runs, correction bits, the bit buffer with its stuffed bytes, the look-ahead
table, restart counters and what is taken back when bytes lack. `JpegArith` has the
arithmetic coder: conditioning, the adaptive bins, the carry through stacked 255s,
the trailing zeros that are left out. `JpegScans` runs them:

| Code | Actions |
|---|---|
| `start_pass` of the encoders | `StartPass` |
| `encode_mcu_gather`, `finish_pass_gather` | `GatherMcu`, `FinishPassGather`; `NextTable`, `MakeTable`, `KeepTable` (a table of `jpeg_gen_optimal_table`) |
| `encode_mcu_*`, `finish_pass` | `OutputMcu`, `OutputArithMcu`, `FinishPass` |
| `decode_mcu_*`, `process_restart`, `fill_bit_buffer` | `DecodesMcu`, `DecodesArithMcu`, `FinishInputPass` |
| the client's source (external) | `Supply` |

A byte is eight bits, but a block has `LastCoef + 1` coefficients, a run of zeros
is at most `Nibble` long, code lengths end at `Limit`, and there is room for
`MaxCorr` correction bits: the same limits as in the code, met by small images.

### `JpegParameters`, `JpegConversion`, `JpegTurbo` and `JpegHeaders`

The headers, byte by byte. `JpegParameters` is `jcparam.c` (quality, color spaces,
tables, what is sent), `JpegConversion` the choice of color converters, samplers
and upsamplers and the arithmetic of scaled sizes, `JpegTurbo` what TurboJPEG asks
of the library: formats, subsamplings, sizes of planes, scalings.

| Code | Actions |
|---|---|
| `jpeg_set_defaults`, `jpeg_set_colorspace`, `jpeg_set_quality`, `jpeg_add_quant_table`, `jpeg_suppress_tables`, ...; `write_file_header`, `write_frame_header`, `write_scan_header`, `write_tables_only`; `tjCompress2`, `tjEncodeYUV2` | `WriteDatastream`: all calls of one file |
| `jpeg_read_header` after another (TurboJPEG's client asks for the header first) | `ReadAgain` |
| `next_marker`, `first_marker` | `FindNextMarker` |
| `get_soi`, `get_sof`, `get_sos`, `get_dac`, `get_dht`, `get_dqt`, `get_dri`, `get_interesting_appn`, `skip_variable`, `default_decompress_parms`, `initial_setup` | `ProcessMarker` |
| the client's source (external) | `Supply` |

`told` is what the compressor had at each scan. Scans' data are left out, a file is
its headers; quantization tables have `Size` entries and Huffman codes `Lengths`
lengths. `BlockSize` is a block's side in samples, 8.

### `JpegPalette` and `JpegQuantize`

`JpegPalette` has the arithmetic of both quantizers: `select_ncolors`, the grid and
its index, ordered and Floyd-Steinberg dither with the error limiter, boxes and
their median cut, the search for the nearest color of an update box.
`JpegQuantize` has their life: `StartQuantizing` (`jpeg_start_decompress`),
`StartNextOutput` (`jpeg_start_output`), `NewColormap` (`jpeg_new_colormap`),
`QuantizeRows` (`color_quantize` or `prescan_quantize` for the rows of one call),
`FinishPrescan` (`finish_pass1`), `FinishQuantizing`. Samples have `SampleBits`
bits, the histogram's cells `HistBits` of them. The dither matrix has `DitherLog`
bits a side.

### `JpegMemory`

An address is a chunk and an offset; `malloc` gives the first chunk it has or
none, and its address decides the padding behind the header. `alloc_sarray` and
`alloc_barray` are `BeginArray` (the row pointers) and an `AllocRows` for each
chunk of rows; `realize_virt_arrays` is a `Realize` for each array. `Access` is
`access_virt_sarray` or `access_virt_barray` with what its caller does to the
rows; it marks rows as never written (`junk`), zeroed or written. `ErrorExit`
destroys the object and ends the process; the next `CreateMgr` is the next one's.
There is always memory for a whole virtual array, as `jpeg_mem_available` says
in `jmemnobs.c`, so backing store is never opened.

### `JpegTransform`

An image's coefficients are arrays of `D` by `D` blocks, each unlike any other;
`Moved` gives the block the eight transforms put at a place, from the loops of
`do_flip_h` to `do_transverse`.

| Code | Actions |
|---|---|
| `jpeg_read_header`, `jcopy_markers_setup` | `ReadHeader` |
| `jtransform_request_workspace`, `jtransform_perfect_transform` | `RequestWorkspace`, once for each transform |
| `jpeg_read_coefficients` | `ReadCoefficients` |
| `jpeg_copy_critical_parameters`, `jtransform_adjust_parameters` | `AdjustParameters` |
| `jpeg_write_coefficients`, `jcopy_markers_execute` | `WriteCoefficients` |
| `jtransform_execute_transform` | `MoveRow`, a row of iMCUs of a component |
| TurboJPEG's `customFilter` | `CustomFilter` |
| `compress_output` of `jctrans.c`, `jpeg_finish_compress` | `Finish` |

The reference (`Belongs`) decodes the file with a basis of functions that are
even or odd about the middle of a block, as the cosines are, and says which
sample of the image belongs there; it knows of pixels, not of blocks. An image
of which several files are made keeps its arrays, its saved markers and its
tables from one to the next.

### `JpegInput` and `JpegDecompress`

`JpegInput` is the input side: the source, the markers, MCUs from the data to
the coefficients. A file is a sequence of tokens: a marker's code, its
parameters, a byte of a comment, a block. A block names its place and the block
its DC is predicted from; read elsewhere, or with another prediction, it is junk.
Files are what an encoder makes of the configuration (`File`), with one damage at most: a
restart marker lost, repeated or replaced, data missing or too much, the end cut
off.

| Code | Actions (of `JpegInput`: operators of a step of `consume_input`) |
|---|---|
| `next_marker`, `get_soi`, `get_dqt`, `get_dri`, `get_sof`, `get_sos`, `skip_variable`, `save_marker` | `FindMarker`, `MarkerSuspends`, `Parameterless`, `Parameters`, `ReadSOS`, `ReadEOI`, `SkipMarker`, `BeginSaving`, `SaveBytes`, `EndSaving` |
| `read_restart_marker`, `jpeg_resync_to_restart`, `process_restart` | `FindRestart`, `Restarts` |
| `decode_mcu`, `consume_data` | `DecodeMCU`, `McuSuspends`, `ConsumeData` |
| `jpeg_read_header`, `jpeg_consume_input`, `jpeg_finish_output`, ... | `ReadHeader`, `ConsumeInput`, `Loop` (a call of `consume_input`), `FinishOutput`, `FinishedOutput`, `FinishDecompress`, `Finished`, `Abort` |
| `jpeg_start_decompress`, `jpeg_start_output` | `StartDecompress`, `Preloaded`, `StartOutput`, `DummyPass` |
| `decompress_data`, `decompress_onepass` | `DecompressData`, `DecompressMCU`, `OnepassWaits` |
| `process_data_simple_main`, `process_data_context_main`, `process_data_crank_post` | `ProcessSimple`, `ProcessPostponed`, `Prepare`, `ProcessContext`, `Crank` |
| the client's source (external) | `LoadMore` |

A sample is its block, its table and its row in the block; a line is, for each
component, the row or the two rows it is made from. The upsampler reads rows
through the two lists of pointers exactly as `jdmainct.c` patches them, so that
a row off by one is seen.

Two set-ups are left out of the instance because there the code does something
else than its documentation says; section 3 names them.

### Modules side by side

`MCJpegStream` and `MCJpegOutput` put two models side by side that share no state:
each behaviour is one of `JpegCompress` or of `JpegHeaders`, of `JpegDecompress` or of
`JpegQuantize`. The first states pick which.

## 3. The runs

| Run | Instance | Shows |
|---|---|---|
| `rtp_streaming` | ring of 4, numbers modulo 5, 2 losses; 216,768 states | types, the ring's invariant, refinement of `PacketFifo`; of a stream that goes on, that packets are sent and requests return unless the socket is stuck, and what gets it stuck |
| `rtsp_sessions` | 2 clients, 2 sessions with both tracks, with symmetry; 1,808,338 states | types, mutual exclusion and what running streams hold (`StreamsAreSafe`), who may stop what, who leaves a stream behind |
| `rtsp_progress` | 1 client, 2 sessions, audio or video each; 66,665 states | requests and `stop()` end (`EveryCallEnds`), and `stop()` stops what streams unless it throws |
| `h264_units` | chunks of 2 bytes, units of 0 to 6; 1,691,197 states | every unit that has a byte arrives whole in legal packets, as it is in the stream, none is mixed |
| `packetizer_threads` | 2 starts, 1 stop, 2 buffers, reports after 1 ms, units of 0 or 1 ms; both packetizers; 699,361 states | what a thread that outlived its `stop()` can do to its successor's bytes, packets and ring, to buffers and reports, and when it ends |
| `photo_clients` | 2 clients, 2 files, 3 cameras, 2 photos, 2 activities, with symmetry; 3,861,744 states | requests are answered, lengths are of whole pictures, camera number and camera agree |
| `capture_photos` | photos of 2 frames, 2 buffers, 4 descriptors; 2,367,758 states | a photo saves to, closes and copies only what is its own, where its GPIO commands can go, frames are in order, a good photo keeps nothing |
| `jpeg_memory` | 4 chunks of at most 12 bytes, alignment 2, arrays of 3 rows, 1 abort; 99,054 states | objects do not overlap, every chunk has one owner and is accounted for, rows are where they should be, virtual arrays read back |
| `jpeg_stream` | 368 set-ups: 3 layouts, 5 scripts, restarts, raw data and lines, files and suspending clients, 1 or 2 images; 22 compressors of up to 6 files, read in pieces of 1, 2, 6, 40 or 200 bytes; 85,509 states | the file is the image, a decoder knows tables and intervals, symbols have codes, the image gets done; each scan's reader has what its writer had, and TurboJPEG's sizes agree |
| `jpeg_scans` | 7 coefficients a block, up to 16 blocks, 1 to 3 components, sequential and progressive, Huffman and arithmetic, restarts, bytes by ones or fives; some 900 tables of counts; 29,989 states | tables are prefix-free and as short as they can be; every coefficient has the bits that were sent, wherever the source ran dry |
| `jpeg_transform` | blocks of 2 by 2; 6 images, every transform with 5 crops, trimmed, gray, perfect, filtered, one or two from an image; 26,107 states | every file is the image that was asked for, pixel by pixel, with the markers to be copied |
| `jpeg_decompress` | blocks of 4 by 4, images of 1 to 3 rows of iMCUs in 4 layouts, whole and damaged, loaded at once or by 1 or 4 tokens, shown at the end or as they come; pictures of up to 12 pixels of 4 bits, one or two passes, every dither, up to 3 passes with other settings; 147,010 states | every line once and from the right rows, saved comments whole, and the image's end; each pixel has the color its palette and dither ask for, and each palette is its picture's |

**Bounds.** A ring of four buffers has a free, a waiting, a sent and a filled buffer at
once and wraps within a few packets; numbers modulo five wrap at another place
than the ring. Two losses let a sender end and fail again, and leave two buffers
of four, so that packets are filled and committed while a sender ends, also
after both; `MaxLosses` bounds fills and sends that throw together, since each
loses a buffer for good or a permit. Two sessions let one be replaced by
another on the same connection, and let the UI thread stop one while a test
recording holds the lock for the other. One quality means one test recording
must succeed; it can fail and be repeated any number of times before.
`MaxPermits` is one unread callback: a second one would change nothing the first
does not. The progress run has one client, so the lock is contended there by the
worker and the UI thread; contention between workers is in the safety run.
Units of 0 to 6 bytes with chunks of 2 are none, below, at and above one and two
full fragments, and up to three of them; the proofs have every size. Two clients let one be
answered what the other asked for; two messages let a request wait behind
another (`MaxQueue`); two photos let the lengths of one meet the bytes of the
next, two files let the array change between two of them (`MaxPhotos`); three
cameras tell a pulse too many from one too few; two activities in one process
are what it takes to be cut off (`MaxCreate`). In `Capture` four descriptors are
camera, two files and one of another thread, or the number `fd_gpio` keeps: a photo that
failed leaves too few for the next one, and `OpenFiles` gets fewer than it needs; four frames
use two buffers again and are two more than a photo takes; four blocks
are enough for one photo and not for a second after a leak of the first and a third.
In `Packetizer` two starts give the two threads that can meet; a third start
meets the second thread the way that one met the first (and the proofs have any
number). One stop (`MaxStops`) is the one that leaves the first thread behind; a second
would be of the last thread, to which nothing happens that did not to the first. Two
buffers let a thread hold one while the other is queued, and wrap with every other packet.
In `JpegMemory` a chunk of 12 bytes holds two rows of samples (4 bytes) or one of
blocks (10), so an array of three rows always spans chunks and the last may be
partly filled; four chunks are the manager, one of small objects and two of rows,
and a fifth wanted is a `malloc` that fails; one abort frees a pool that is filled
again. In `JpegCompress` blocks are 2 by 2
samples (`D`), images 3 or 9 wide and 5 high, so that MCUs are cut at the right
and below in every layout, restarts of 2 MCUs wrap within a row and between
rows, a buffer of 3 bytes is smaller than an MCU and one of 12 larger; the last
image of an object can leave its tables to the second. `Valid` set-ups are all
scripts a sequential image may have; the two scripts that are not must be
refused. In `JpegScans` seven coefficients and runs of at most four zeros
(`Nibble`) give blocks with long runs, and an EOB run over several blocks;
`MaxCorr` of 10 is passed by the correction bits of two blocks, `Longest16` ends a
run as the code's 0x7FFF does, codes of at most 5 bits (`Limit`) are passed by the
tables of the counts, and codes longer than `Lookahead` are there. Pieces of one
and five bytes let the source run dry at every place of an MCU and between. Two
of the seeds of the arithmetic images make a carry meet bytes put off. `Big`
stands for the code's 1000000000, the count above which the search for the two
rarest symbols sees none; it is above every count here. In `JpegHeaders` tables of
four entries (`Size`) have one above 255, codes four lengths; the order of
coefficients is not its own inverse, so that a table read in the other direction
is seen; a quality of 1 passes 255 and 32767; pieces of one and two bytes cut
every two-byte value and length, 200 bytes hold several markers. In `JpegQuantize`
the samples are 0 to 15 and a histogram's cell counts to 3 (`HistMax`), so that
it saturates; strips of two rows leave an odd one; and two pictures shown with
three passes let a palette be kept, given up for a grid and taken up again.
`JpegTransform` has images with a cut iMCU at the right, below, at both and
nowhere, and `JpegDecompress` images of one row of iMCUs, which is first and last,
of two, and of three with one between.

**Fairness.** `FairSpec` of `RtpSocket` assumes that a thread that can run
does (weak fairness of the sender, of a `requestBuffer` with a permit available,
and of the statements of `commitBuffer`); nothing makes the packetizer ask for
buffers, which depends on the camera. `StreamingSpec` adds a packetizer that
goes on filling buffers and whose requests are not interrupted for ever. Its
liveness properties hold unless the socket gets `Stuck` (see "Exceptions"
below). `FairSpec` of `RtspServer` assumes strong
fairness for a worker's own steps and for those of `stop()`: a thread waiting
for the monitor `sLock` gets it if it is free again and again. Java does not
promise this of its monitors, but every holder here leaves after at most eleven
seconds and requests come from a network. Clients, callbacks and the collector
are not fair: they may never come. `Spec` of `Packetizer` assumes weak fairness
of each thread's own step (`OwnStep`): threads run, but nobody is made to start or stop, no
recorder to write (`BytesCome`: a read of an open stream may wait for ever, and `resync`
may read noise for ever) and no socket to free a buffer. `Spec` of `JpegCompress`
assumes that a client that began an image goes on with it (weak fairness of
`Step`), as `yuv420_to_jpeg` does, unless it gives it up, and says nothing of
`Abort`. `Spec` of `JpegDecompress` assumes the same of a client that reads an
image, and that it loads more of the file when a call lacks it: that is what
`libjpeg.txt` asks of a client whose source suspends. A pass of a buffered image
must be finished for the next; only `jpeg_consume_input` between is left to it.

**Deadlock** is not checked in the run of `RtpSocket`: the packetizer can wait
for a buffer for ever; nor in `photo_clients`, where the last activity may be
closed, in `packetizer_threads`, where starts are bounded and a thread may wait
for a buffer, and in the runs of libjpeg-turbo that end: a process that exited,
the files or the images that were made. `jpeg_scans` checks it: its one way to
stop is `End`, so that every image is coded and decoded to its end, which
together with the counters that only rise stands for a liveness property there.

Each property of a passing run has a faulty variant of an action in its module
("Faulty variant"), a plausible bug that TLC finds to break it.

### What the code does that its comments do not say

None of these has a run of its own; the models have the behaviour, and the
properties do not ask for what it breaks.

1. `MediaStream.stop()` (`streaming/MediaStream.java:213`, `:217`) leaves sockets
   and recorder open when `MediaRecorder.stop()` throws, and `flush()` drops the
   streams that hold them: until they are finalized the device is taken.
2. `takePicture` (`jni/v4l2.c:530`, `:560`, `:585`) writes SEND and MODE to a descriptor
   that `setMode` and `camSel` closed: the lines do not change, and the text of the command
   ends up in what has the number now. As long as no other thread closes a descriptor
   that is the camera, which `open_device` opens next, or another thread's, but never a
   picture file (`StraysOnlyByOthers`). Also, `munmap` (`:563`) gets the addresses of an earlier photo
   when `query_map_qbuf` ended early.
3. Several files made of one image share its saved markers
   (`jni/transupp.c:1411`): the size is written into the Exif marker only when it
   is not the image's, so a file of the image's size made after a turned one
   tells the turned one's size.
4. TurboJPEG's `customFilter` for a transform that moves nothing works in the
   image's own arrays (`jni/turbojpeg.c:1071`), which the next transform reads.
   `OutputsAreTransforms` leaves out the files made after such a filter
   (`Unfiltered`); `jpeg_transform` has it in the last transform and in the first.
5. `post_process_prepass` (`jni/jdpostct.c:158`) lets the upsampler fill the
   strip from `next_row` up to the whole strip's height: with a sampling factor
   of 3 or 4 and a strip filled in two calls it would be told of more room than
   there is. In the same case `post_process_2pass` (`jni/jdpostct.c:224`) bounds the
   rows of a call by `output_height - starting_row` and not by what is left of them
   after `next_row` (`Crank`): a last strip read in two calls can give more
   lines than the image has. `jpeg_decompress` quantizes with two passes where
   MaxV is 1 or 2, and there a strip's first row leaves one row at most.
6. A component whose table comes during an output pass (`jni/jddctmgr.c`, buffered
   images) stays gray until the next pass: `start_pass` sets the multipliers once
   for a pass. `LinesAreImage` asks for nothing more of it.
7. `write_frame_header` (`jni/jcmarker.c:534`) writes SOF9 for every arithmetic
   image: there is no SOF10, so the reader of a progressive one is told it is
   sequential.
8. `jpeg_calc_output_dimensions` (`jni/jdmaster.c:162`) doubles a component's
   block when twice its size is at most the largest: with a luma of 3x2 and a chroma
   of 1x1 an image scaled by 1/2 gets a width that does not divide, and is refused
   (JERR_FRACT_SAMPLE_NOTIMPL).
9. `tjEncodeYUV2` (`jni/turbojpeg.c:538`) begins a file in the buffer meant for the
   planes; `empty_mem_output_buffer` (`jni/jdatadst-tj.c:90`) fails once it is
   full, so that an image whose planes are smaller than the file's first bytes (gray, 4
   by 4) is refused.
10. `jinit_1pass_quantizer` rounds the grid's breakpoints up (`largest_input_value`,
   `jni/jquant1.c`): a sample exactly between two values gets the lower one. And
   `jinit_2pass_quantizer` (`jni/jquant2.c:1276`) makes an ordered dither one by
   Floyd and Steinberg also for a later pass of the one-pass quantizer, as both share
   `dither_mode`.

### Exceptions

Some properties name the case in which the code does not keep what one would
want; each is a behaviour of the code a maintainer should know.

* `StreamedIsSent`, `RequestReturnsUnlessStuck` (`RtpSocket`): a packet committed
  while a sender that timed out is about to set `mThread` to null has no sender
  and waits for the next commit. When by then every buffer is waiting or lost there is no
  next commit: `requestBuffer` waits for a permit that only a sender returns,
  while only `commitBuffer` starts one (`Stuck`). Every send that fails takes a buffer out
  of circulation, so a network outage leads there. So does a fill that throws the last
  free buffer away. `SticksOnlyByRace`, proved as `SticksByRace`, says that nothing else does.
* `SessionsAreKept` (`RtspServer`): a second DESCRIBE replaces a session
  that streams; the old one streams until it is collected.
* `StopStopsUnlessItThrows` (`RtspServer`): a DESCRIBE during
  `RtspServer.stop()` makes the iterator over `mSessions` throw, and so does
  `isStreaming()` when a worker flushes its session between the two reads of a
  track's field. `stop()` swallows the exception and leaves the other sessions
  running. The session that threw streams no more (`ThrowsForFlushed`).
* `UnitsGoOutWhole`, `NothingMixed` (`H264Packets`): a unit of length 0 goes out as an
  empty packet and the thread loses its step with the stream; a unit that `resync` found
  has the type of the noise before it.
* `WorksOnItsOwn` (`Capture`): the GPIO commands of `takePicture`, number 2 above.
* `StreamsStayApart`, `StoppedEnds` (`Packetizer`): an interrupt during H264's header
  skip ends only that loop and clears the flag, so the thread goes on as if it
  had not been stopped. And a thread that got to read a stream made after its own ends
  only when a unit comes or that stream is closed (`ReadsLater`): it waits while the stream is
  silent, and reads noise, or the -1 of a stream that ended, over and over in the header
  skip or in `resync`.
* `StreamsStayApart`, `ReportsApart` (`Packetizer`): a thread that outlived its `stop()`
  packs the bytes of the next stream, and its time counts for the next report. If it makes a
  packet while its successor does, both write to the same buffer and the packets
  mix (`shared`); if both are in `commitBuffer`, a `++mBufferIn` may be lost, and from then on the
  sender sends other buffers than were committed (`torn`).
  Of H264 no interval is stated: it never sets `delta` back, so that after the
  first five seconds a report follows every unit.
* `DecoderIsTold` (`JpegCompress`): tables in the buffer of an image that was
  given up stay marked sent, and are missing from the next image made with
  `write_all_tables` false.
* `TablesAreRight` (`JpegHuffman`, run `jpeg_scans`): after lengths were cut, of symbols whose
  lengths were the same the rarer may get the shorter code.
* `ChunksAreAccounted` (`JpegMemory`): `total_space_allocated` is
  `ALIGN_SIZE - 1` too high for each chunk freed, since `free_pool` subtracts
  less than was added. Also, an array whose rows fill a chunk of
  `MAX_ALLOC_CHUNK` is refused: `rowsperchunk` leaves no room for the alignment.

## 4. What is proved

`RtpSocketProofs` proves for every ring size, every modulus larger than the ring
and every number of losses:

| Theorem | Statement |
|---|---|
| `TypeCorrect`, `BuffersAreConserved`, `IndicesAreRight`, `NoBufferIsShared`, `UnsentIsNumbered` | `Spec => []` of the invariant of the run |
| `RingStaysRight` | `Spec => []RingIsRight`, the four of them as the run checks them |
| `Refinement` | `Spec => ImplementsFifo` |
| `SticksByRace` | `Spec => SticksOnlyByRace` |

They rest on `BufferCountAssumption`, `SeqModAssumption` (`SeqMod >
BufferCount`: otherwise two packets waiting could have the same number; 65536
and 300 in the code) and `MaxLossesAssumption`.

The inductive invariant is `IInv`: types, `BuffersConserved`, `IndicesAgree`,
`UnsentNumbered` and the marker of the buffer being filled. Conservation bounds
`Unsent` by the ring; with it `IndicesAgree` says that the buffer being filled
lies behind those not sent, so writing it disturbs neither them
(`UnsentNumbered`) nor the one being sent (`NoSharedBuffer`, which is not
inductive by itself). Failed sends are counted as not sent: the permit is lost
but the packet keeps its place, which is why `Unsent` counts `failed`. Steps are
grouped by what they disturb (control only, permits, the ring). For the
refinement each step either leaves `Queued` as it is, appends the packet
committed or takes off the one sent.

`PhotoProofs` proves for any connections and any number of cameras, files and
photos:

| Theorem | Statement |
|---|---|
| `NumberIsRight` | `Spec => []NumberIsSelected` |
| `LengthsAreRight`, `NothingHalfIsTold`, `LengthsStaySafe` | `Spec => []` of `LengthsOfThePhoto`, `NeverHalf`, and of both (`LengthsAreSafe`) |
| `RequestsAreAnswered`, `TypeCorrect` | `Spec => []` of `NoRequestLost`, `TypeOK` |

from `NumCamsAssumption`, `NumFilesAssumption`, `NoConnAssumption` and
`ButtonAssumption` (the activity's button is no connection). The camera, the
files and the requests are three arguments. The camera's invariant is the property with the ranges of the two
numbers, and rests on counting modulo `NumCams` (`Around`, `AmongTheCameras`).
The files' is `FilesInv`: while a photo is on its way nothing of it is known
(`PhotoOnItsWay`), the entries below `index` are already the photo's
(`LengthsSoFar`), and once `setFileDone` no entry is 0, which is why a thread
that reads the array while it is changed is never told 0 (`SenderKnows`).
The requests' is `RequestInv`: `client` is an open connection where the listener
reads from it (`Connections`), and what a connection is owed is the number of
its messages in the queue, with the one being handled (`Requests`); so the proof
counts positions of a sequence, with cardinalities of finite sets.

`RtspServerProofs` proves for any clients, sessions, offers and qualities:

| Theorem | Statement |
|---|---|
| `TypeCorrect`, `Exclusion`, `RunningIsSafe`, `StreamsStaySafe` | `Spec => []` of `TypeOK`, `OneInBlock`, `RunningHoldsDevice`, and of the last two (`StreamsAreSafe`) |
| `OnlyFlushedThrow` | `Spec => []ThrowsForFlushed` |
| `OneSessionIsModified`, `LeavesOnlyToDescribe`, `SessionsStayKept` | `Spec => LockedSessionOnly`, `Spec => OnlyDescribeAbandons`, and of both (`SessionsAreKept`) |

from `ThreadsAssumption` (threads and nobody are told apart),
`NoSessionAssumption`, `OffersAssumption`, `QualitiesAssumption` and
`MaxPermitsAssumption`. Mutual exclusion follows from `LockHeld`: `sLock` names
a worker exactly when that worker is in its block. That what runs holds its
device needs more: that two workers never have the same session (`OwnSession`),
so that no flush or DESCRIBE takes the tracks a start is about
(`SetupTrack`); that sessions not in use stream nothing (`Unused`); and that
the camera a test is going to release is not one its own session streams with
(`TestAlone`). Every step of the workers is shown to enter the block, to
leave it or to do neither (`LockMoves`); then the steps are grouped into quiet
ones, those in the block and those that stop streams. `LeavesOnlyToDescribe`
rests on a second invariant, `Stopped`: the tracks `stop(0)` and `stop(1)` are
done with do not run again before the flush. `OnlyFlushedThrow` rests on a third, `Asked`:
of the session `stop()` asks, the track it asks for is there or all tracks are gone, and
no DESCRIBE gives new ones to a session that `stop()` refers to.

`PacketizerProofs` proves for any number of starts, any ring and any interval:

| Theorem | Statement |
|---|---|
| `TypeCorrect` | `Spec => []TypeOK` |
| `BytesAreOwn`, `PacketsAreOwn`, `RingStaysInStep`, `StoppedSendNoMore`, `StreamsAreApart` | `Spec => []` of `OwnBytes`, `OwnPackets`, `RingInStep`, `SendsNoMore`, and of these four (`StreamsStayApart`) |
| `BuffersAreKept`, `ReportsAreApart` | `Spec => []` of `OneBufferLost`, `ReportsApart` |

from `StartsAssumption`, `BuffersAssumption` and `IntervalAssumption`. The
invariant has a part for each: only the thread in `t` runs that `stop()` did not
leave (`OneThread`), such a thread has read its own stream alone (`OwnSource`),
one that was told has its flag set until it ends or the header's loop swallows
it and has sent at most one packet since (`Flagged`), `delta` never exceeds the
time that passed since the last report as long as `stop()` left nobody behind, so
that no report is early then (`Counted`), and free, queued and held
buffers with one for each ended thread make up the ring (`Conserved`). For the fields
two threads share: whoever makes a packet while no other does has the buffer at
`mBufferIn` in the field, and it alone wrote there (`PacketsApart`); until two were in
`commitBuffer` at once, `mBufferIn` with the commit under way is `mBufferOut` advanced by
the packets queued (`RingAgrees`); and both take a thread that was left (`Alone`).

`PacketizerProofs` also proves about `H264Packets`, for every chunk size, unit length
and period:

| Theorem | Statement |
|---|---|
| `UnitTypes`, `UnitsDoArrive`, `BitsAreRight` | `UnitsSpec => []` of `UnitsTypeOK`, `UnitsArrive`, `FragmentBits` |
| `UnitsAreRight` | `UnitsSpec => []UnitsGoOutWhole`, the two last of them as the run checks them |
| `NoUnitIsMixed` | `UnitsSpec => NothingMixed` |

from `ChunkAssumption`, `MaxLengthAssumption`, `TimesAssumption` and
`NothingAssumption` ("no unit" is not a unit). The invariant `UnitInv` adds `HalfSent`:
the receiver has `sum` bytes of the unit, and the start bit is set exactly
before the first fragment, and `KnownUnit`: what is sent is what the stream had, if the
thread was in step with it. That bit is what separates a unit from what an
earlier thread left: `Fragment` shows the receiver starts at 0 with it and goes
on at `sum - 1` without.

`CaptureProofs` proves for any number of frames, buffers and descriptors:

| Theorem | Statement |
|---|---|
| `TypeCorrect` | `Spec => []TypeOK` |
| `ItsOwnIsClosed`, `CommandsStrayByOthers`, `CopiesAreRight`, `ItsOwnIsWorkedOn` | `Spec => []` of `ClosesItsOwn`, `StraysOnlyByOthers`, `CopiesWhatIsThere`, and of these three (`WorksOnItsOwn`) |
| `NothingIsKept` | `Spec => GoodPhotoKeepsNothing` |

from `NUMAssumption`, `BUFFER_COUNTAssumption` and `LimitsAssumption`. `FdInv`
says what the globals name at each place of a photo; `FrameInv` that a buffer is
queued, filled or the code's, in one place (`InOnePlace`), with contents that
rise along the queues and above what was copied (`InOrder`); `HoldInv` that at
each place what is held is what was held before the photo and what it took since
(`Accounted`), from which the early returns' leaks follow as well as the good
photo's balance; `GpioInv` that while no other thread closes anything no number below
the one in `fd_gpio` becomes free, so that a photo's camera is opened on that number, or
finds it taken, and no file gets it.

`JpegMemoryProofs` proves for any heap, alignment, layout, sizes and slop:

| Theorem | Statement |
|---|---|
| `ObjectsAreApart`, `ChunksHaveOneOwner` | `Spec => []` of `ObjectsApart`, `OneOwner` |
| `RowsAreInPlace`, `ReadsAreDefined` | `Spec => []` of `RowsInPlace`, `ReadsBack` |
| `SpaceIsAccounted`, `TypeCorrect` | `Spec => []` of `ChunksAreAccounted`, `TypeOK` |

from `HeapAssumption`, `LayoutAssumption` (paddings are less than the
alignment), `SlopAssumption` and `InputAssumption`. `HeapInv` says that every
chunk has one owner, that header, padding, what is used and what is left fit in
its size (`Fits`), and that objects lie between header and what is used
(`Placed`): a new object starts where the used part ends, which keeps it apart
from those in its chunk, and no other chunk is concerned. `GivesKeeps` is the
one lemma about a new chunk, for small and large objects; that its size is
enough is where `ALIGN_SIZE - 1` comes in. Rows are multiples of the width
behind the object's start (`RowsOfChunk`). `VirtInv` says that rows below
`undef` are not junk and those above not written, which `AccessDefines` shows to
be kept by zeroing from the larger of `undef` and the first row asked for.
`Accounts` says that `total_space_allocated` is the sum of the sizes of the chunks
that are owned (each its header, `ALIGN_SIZE - 1`, what is used and what is left), and
`ALIGN_SIZE - 1` for each chunk that was ever freed. The sum is a fold over a set, so its laws come first:
`SetInduction` is induction over a finite set with the *set* of the subsets
the claim holds of in place of a predicate (from the least counterexample,
`LeastNat`), and from it a sum unfolds at any of its elements, splits over
disjoint sets and changes with one summand (`SumUnfolds`, `SumSplits`, `SumSame`, ...).

It also proves about `JpegTransform`, for any images, options and transforms:

| Theorem | Statement |
|---|---|
| `MarkersAreOnce` | `TransformSpec => []MarkersOnce` |
| `OutputsAreRight` | `TransformSpec => []OutputsAreTransforms` |

from `JobsAssumption` (what images, markers and transforms there are, and that
jpegtran makes one file of an image) and `Symmetry` (what is used of the cosines: those
of even order are even about the middle of a block, the others odd). The invariant
of the first, `MarkersInv`, follows the markers from the image to each file: what is saved has the
kinds of what was to be copied, though the size in an Exif marker changes from file
to file (`SavedIs`); `cinfo`'s two flags say what the compressor writes itself, and
not JFIF before Exif (`MarkersTold`). `Selected` is a recursive function; `SequenceInduction`
gives its laws (of a concatenation, of a selection of a selection, of what only
the kinds decide), and `HeaderIsRight` is then a matter of counting.

That every file is the transform asked for is proved in four layers:

* *A block.* A sample is a sum over the frequencies of a block. Its terms may be taken
  in any order (`SumPermuted`), so a block with the signs of its odd columns changed
  shows the samples mirrored (`SampleOfColumns`, `SampleOfRows`), and a transposed one,
  with a transposed table, shows them turned (`SampleOfTransposed`).
* *A place.* The code counts blocks and iMCUs, the property pixels.
  `PixelIs` shows for one sample that mirroring the block and mirroring within it is
  mirroring the pixel, at the same edge of whole iMCUs, and that a block which is
  not mirrored is where the pixel is not; `SourceIs` that the block read is one the
  image has. Behind it is arithmetic of quotients: `FullSizes`, `CutOff`, `InStrip`.
* *A file* is MCUs, in which the blocks of a component are found by
  counting those of the components before it. `WrittenBlock` shows that the block
  a reader looks for is the one of the arrays that were written (`JoinedPlaces`,
  `PlacesAre`); `FileIsTransform` that right blocks make a file that is the transform.
* *The run.* `TransformInv` says of each step what the arrays hold. `Prepared`: a transform
  that was accepted has its own region and a workspace of the size it needs, from the
  request to the end. `FrameTold`: the frame is the one of the transform at hand.
  `ImageKept`: the image's arrays are as they were read before each transform, which
  is what `slow_hflip` is for: only the last transform, or a filter, changes them. `Moving`: the rows
  of iMCUs done so far hold the blocks that belong there (`DoneAreMoved`), and those of
  a mirror in place that are not done are the image's still (`OthersAreKept`), without
  which the next row would be made from wrong blocks. `AllMade`: after the filter all
  blocks are right, doubled. One lemma for each action (`RequestTransforms`,
  `MoveTransforms`, `FilterTransforms`, `FinishTransforms`, ...) keeps it; TLC checked it
  on a reduced set of jobs before.

A mirror in place is right only because its row is mirrored in whole, before it is
moved to the left for the crop (`MirroredInPlace`).

`JpegCompressProofs` proves for any block size, image, components, sampling,
script, restarts, tables, passes, calls and destination:

| Theorem | Statement |
|---|---|
| `TypeCorrect`, `ImageIsWritten` | `Spec => []` of `TypeOK`, `StreamIsImage` |
| `StateIsImage` | `Spec => []Inv` |
| `DecoderKnows` | `Spec => []DecoderIsTold` |

from `DAssumption`, `ConfigsAssumption` and `MaxLinesAssumption`. The first
three turn on one number: `Done`, how many MCUs of the scan are behind the place
the coefficient controller has come to (`Index` counts them from its three
counters, `NextPlace` shows that a step of the counters adds 1). `Inv` then says what
each manager must have at that number:

* `Lines`: each line taken is in the color buffer, in a row group of the main
  buffer or in the iMCU rows done, in order (`LinesDone`), the row groups are those
  of the image, padded at the bottom as it is (`RowsRight`), and `next_scanline` counts
  them but for the line a suspended call pretends not to have read (`LinesRead`).
  Without that line's 1 the sum is not inductive: it is lost by `Suspends` and
  given back by `Returns`.
* `WholeInv`: the rows of coefficients of the iMCU rows done are the image's, with
  their dummy blocks (`Filled`); a call that suspends fills its row again.
* `Coder`: the restart counter (`ToGoAt`), the number of the next marker (`NextAt`)
  and the DC of each component (`DCsAre`) are those after `Done` MCUs.
* `Output`: what is written, without tables, is all scans before this one and
  `Done` MCUs of it: `Before(scan) ++ Part(Scan, Done)`; of a scan whose header is not
  written yet, what comes before it.
* `Control`, `Passes` and `Place` tie scan, pass, kind of pass and call to one
  another, and `Ended` keeps what was true when an image was finished, given up or
  failed: what a failed write leaves is a beginning of the stream.

The heart is `McuCoded`: in a state of `Inv` the MCU made from the input buffer or
from the whole image, coded from the predictions, is MCU `Done` of `Image`. Blocks to
the right and below are dummies whose DC goes back, block by block, to the last real
one, in the order of the MCU; `Image` has it from the component's size. `Image`
and the buffers are folds (`FlattenSeq`), which no prover unfolds, and the
library's induction takes a predicate: so induction is on the *set* of the numbers
a claim holds of (`Induction`), from it `FlattenSeq` of one more sequence is one more
concatenation (`FlatNext`), and everything else uses that. Behind it are
layers of lemmas: sequences and prefixes (`Cat...`, `Prefix...`), quotients of sizes
(`Blocks`, `WidthIs`, `HeightIs`), the places of an MCU (`PlacesAre`), row groups and
iMCU rows, the tokens without tables (`DataCat`), and one lemma per action.

`DecoderKnows` is about the rest of the stream, the tables and intervals in it. Its
invariant is `Inv` and five parts more (`Known`):

* `TablesTold`: each table marked `sent_table`, other than those an abandoned
  image left marked (`lost`), is in what was written, and the last one of its name
  there is the one that was made last. `sent_table` outlives an image, so the
  stream meant is that of all images since the tables, in the file and in the
  buffer; a process that exited is left out.
* `TablesSent`: once the header of a scan is out its Huffman tables are marked,
  and the quantization tables from the first header on.
* `IntervalTold`: `last_restart_interval` is the last DRI of *this* image's stream,
  and the interval the coder counts with is the same once the header is out. That it
  is reset with the image (`write_file_header`) and `sent_table` is not is why the two
  parts speak of different streams.
* `AllCounted` and `~uncounted`: with optimized coding, the symbols of each MCU of the
  scan that is behind the gathering pass (`Seen`) are counted for its tables. That the
  output pass codes the same MCUs is `McuCoded` again, for the pass that gathers
  and the one that writes: both are MCU `Done` of `Image`, so its symbols are the
  ones that were counted (`McuSymbols`).

Its lemmas say what a concatenation tells a decoder (`TellsCat`, `DrisCat`): of a table
or interval the second part decides if it has one, else the first. From there tokens
without tables change nothing, and a header (`HeaderTells`) tells what it has, which
with what was known before (`KnownBefore`, `KnownGrows`) is all the scan needs.

`JpegDecompressProofs` proves for any image, file, damage, client's limit and loads
of the source:

| Theorem | Statement |
|---|---|
| `CommentIsSaved` | `Spec => []SavedIsWhole` |
| `ScanIsOfImage` | what is decoded is a scan of the image, and the data read ahead is not negative |
| `Invariance` | `Spec => []Inv` |

from `DAssumption`, `LoadsAssumption` and `ConfigsAssumption`. The invariant is about
three places and what ties them together.

* The file (`FileIs`): it begins with SOI and, if there is one, the comment; no COM
  comes later; and it has no more SOS markers than the image scans. A file is a
  concatenation of segments, scans and MCUs with one damage, so these are proved as
  `Begins` and `Soses` of each part (`McuIsClean`, `ScanIsClean`, `HeadBegins`), by
  `Induction` and `FlatNext` as in `JpegCompressProofs`; each kind of damage is then
  a case of `InitFile`.
* The reader (`Heading` or `Past`): how far in SOI, COM, its length and its bytes it
  is, with the marker that waits and the bytes saved so far, or behind all of it with
  the comment saved whole. A call can be suspended at any of these places, and only
  `Saving` goes on where it was; the others begin again at the marker.
* The scans (`ScansCounted`): the number of scans begun, and one for an SOS that
  waits, is at most the number of SOS markers before `pos`. It bounds
  `input_scan_number` however the reader skips in damaged data
  (`NextMarkerMoves`): it may lose an SOS, it never counts one twice.

Only model-checked: all liveness, that is `StreamedIsSent`,
`RequestReturnsUnlessStuck`, `EveryCallEnds`, `StopStopsUnlessItThrows`,
`StoppedEnds` and `Ends`; it depends on fairness, which is out of reach of the
proof system. Properties of what a fold or a recursion computes need induction over data
and an argument for each of its steps, as `JpegCompressProofs` has it; that is not
done for `LinesAreImage` of `JpegDecompress` (blocks of a file that is a
concatenation, and the lines made of them), `JpegHuffman` and `JpegScans` (trees, codes and bits, folded over blocks),
`JpegHeaders` (bytes made and read by folds) and `JpegQuantize` (a median cut,
errors handed from pixel to pixel). `JpegScans`, `JpegHeaders` and `JpegQuantize` also
reach RECURSIVE operators (`JpegEntropy`, `JpegArith`, `JpegHeaders`, `JpegPalette`), which
the proof system's SMT backend does not take. `TypeOK` of
`Packetizer` and `JpegMemory` is in no run but proved.

## 5. Plan

1. `LinesAreImage` of `JpegDecompress`, on the invariant of `JpegDecompressProofs`: the
   place in the file by the number of the MCU, and the state of entropy decoder,
   coefficient controller and main controller at it.
2. Block smoothing (`decompress_smooth_data` of `jdcoefct.c`), with the state of
   each coefficient that `JpegInput` has already.
3. `UriParser` and `VideoQuality`: qualities and tracks as pure operators; they
   give `RtspServer` its `Offers` and `Qualities`.
4. The activity's `onStop` and the binding of services, with `RtspServer.stop()`
   that it calls.
5. `JpegScans` and `JpegHeaders`, proved as far as their folds over a block and over
   a segment go: with `Induction` and `FlatNext` of `JpegCompressProofs` and
   `JpegDecompressProofs`, moved to a module that all use.

## 6. Not modelled, and why

Some 47,800 lines of C and Java are the repository's implementation, most of them
its copy of libjpeg-turbo. The map covers a quarter to a third of them, depending
on what is counted: nearly all of the application that has state, and of the
library what has control.

* **Arithmetic on samples**: color conversion, the averages of down- and
  upsampling, DCT, quantization of coefficients, and their SIMD versions with the
  dispatch between them. There the difference between right and wrong is a
  number and not a behaviour; which of them runs, on which rows, is modelled.
  Block smoothing is in the plan.
* **File formats of the command line tools** (`rdbmp.c`, `rdppm.c`, `rdtarga.c`,
  `wrbmp.c`, ...), their options and the tests of TurboJPEG (`tjunittest.c`,
  `tjbench.c`): text and binary formats around the library.
* **TurboJPEG's buffers and its Java classes**: who allocates what
  `jdatadst-tj.c` writes to, and the JNI wrapper of `turbojpeg-jni.c`. The sequence of
  library calls of a TurboJPEG call is modelled.
* **Backing store** (`jmem*.c` other than `jmemnobs.c`): not built.
* **Text and binary formats of the application.** SDP and RTSP responses, the URI
  parser (strings to settings; `RtspServer` takes what a URI can give as a
  constant), MP4 parsing (`MP4Config` can fail, which is modelled), the bytes of a
  sender report.
* **No behaviour but delays**: pacing, bitrate statistics.
* **Calls into Android with no state of their own**: boot and network set-up,
  preview and flash, preferences other than the cached H264 parameters. The
  messages the RTSP server posts to listeners reach one that logs them.
* `onStop` and the URI parser are in the plan.
