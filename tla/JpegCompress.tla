---------------------------- MODULE JpegCompress -----------------------------
(***************************************************************************)
(* The compressor of jni/, as yuv420_to_jpeg of v4l2.c and other clients   *)
(* drive it: jcapimin.c and jcapistd.c (the calls), jcmaster.c (passes),   *)
(* jcmainct.c and jcprepct.c (lines to iMCU rows), jccoefct.c (blocks to   *)
(* MCUs, and the whole image's coefficients between passes), jchuff.c      *)
(* (MCUs to output, restarts, statistics), jcmarker.c (headers) and        *)
(* jdatadst.c (the buffer and the file).                                   *)
(*                                                                         *)
(* A destination may suspend: it refuses to empty its buffer, the MCU is   *)
(* given up, the client takes what is before that MCU and calls again.     *)
(*                                                                         *)
(* The output is a sequence of tokens, a marker or a block each, a token   *)
(* for a byte.  A row of samples is the lines of the image it was made     *)
(* from, a block its component, place and rows; a coded block names the    *)
(* blocks whose DC it carries and is predicted from, if any.                 *)
(***************************************************************************)
EXTENDS Integers, FiniteSets, SequencesExt

CONSTANTS
    D,          \* DCTSIZE (8 in the code)
    Configs,    \* what a client sets up: components, size, scans, restarts, destination
    MaxLines    \* bound: lines of a call of jpeg_write_scanlines

(* What initial_setup, validate_script and the managers of the             *)
(* destination's buffer accept; OUTPUT_BUF_SIZE is 4096.                    *)
Sampled == [h : 1 .. 4, v : 1 .. 4, quant : 0 .. 3, dc : 0 .. 3, ac : 0 .. 3]
ScanScripts == Seq(Seq(Nat) \ {<<>>})
MaxInterval == 65535
Config == [comps : Seq(Sampled) \ {<<>>}, width : Nat \ {0}, height : Nat \ {0},
           scans : ScanScripts, optimize : BOOLEAN, interval : 0 .. MaxInterval, inRows : Nat,
           raw : BOOLEAN, dest : {"client", "stdio"}, size : Nat \ (0 .. 2), all : Seq(BOOLEAN)]

ASSUME DAssumption == D \in Nat \ {0}
ASSUME ConfigsAssumption == Configs \subseteq Config
ASSUME MaxLinesAssumption == MaxLines \in Nat

VARIABLES
    conf,       \* what the client set up
    state,      \* global_state: "START", "RAW_OK", "SCANNING"; or "exited"
    image,      \* the images begun with this object
    line,       \* next_scanline
    call,       \* the loop a call is in: "none", "main", "compress", "passes" or "pass"
    io,         \* the client's lines, the color buffer and the main buffer
    master,     \* pass_type, scan_number, pass_number, call_pass_startup
    coef,       \* iMCU_row_num, MCU_vert_offset, mcu_ctr
    whole,      \* whole_image: rows of blocks of each component
    entropy,    \* restarts_to_go, next_restart_num, last_dc_val
    interval,   \* restart_interval
    lastDRI,    \* last_restart_interval
    sent,       \* tables with sent_table
    buf, file,  \* what is in the destination's buffer and behind it
    counted,    \* symbols counted for the tables of the scan
    made,       \* of each Huffman table: the scan it was made for, if any
    begun,      \* history: where the image begins in the file
    complete,   \* history: the last image was finished
    uncounted,  \* history: a symbol was coded that had not been counted
    lost        \* history: tables that went with the buffer of an image given up

clientVars == <<conf, image, line, io>>
passVars == <<master, coef, whole, entropy, interval>>
tableVars == <<sent, made, counted, lastDRI>>
outVars == <<buf, file>>
historyVars == <<begun, complete, uncounted, lost>>
vars == <<clientVars, state, call, passVars, tableVars, outVars, historyVars>>

-----------------------------------------------------------------------------
(* initial_setup and per_scan_setup.  Components and scans count from 1,   *)
(* rows and columns from 0.                                                *)

Comps == DOMAIN conf.comps
H(c) == conf.comps[c].h
V(c) == conf.comps[c].v
AtMost(n, bound) == IF n > bound THEN bound ELSE n
MaxH == Max({H(c) : c \in Comps})
MaxV == Max({V(c) : c \in Comps})
DivUp(n, m) == (n + m - 1) \div m
WidthInBlocks(c) == DivUp(conf.width * H(c), MaxH * D)
HeightInBlocks(c) == DivUp(conf.height * V(c), MaxV * D)
TotalRows == DivUp(conf.height, MaxV * D)

(* Without a script there is one scan, of all components. *)
Scans == IF conf.scans = <<>> THEN <<[c \in Comps |-> c]>> ELSE conf.scans

(* validate_script, of a sequential image. *)
ScriptIsValid ==
    /\ \A s \in DOMAIN Scans : \A i \in DOMAIN Scans[s] :
           /\ Scans[s][i] \in Comps
           /\ \A j \in 1 .. i - 1 : Scans[s][j] < Scans[s][i]
           /\ \A r \in 1 .. s - 1 : \A j \in DOMAIN Scans[r] : Scans[r][j] # Scans[s][i]
    /\ \A c \in Comps : \E s \in DOMAIN Scans : \E i \in DOMAIN Scans[s] : Scans[s][i] = c

Scan == Scans[master.scan]
Together(scan) == Len(scan) > 1
McuW(scan, c) == IF Together(scan) THEN H(c) ELSE 1
McuH(scan, c) == IF Together(scan) THEN V(c) ELSE 1
McusPerRow(scan) ==
    IF Together(scan) THEN DivUp(conf.width, MaxH * D) ELSE WidthInBlocks(scan[1])
Rest(n, m) == IF n % m = 0 THEN m ELSE n % m
LastColWidth(scan, c) == Rest(WidthInBlocks(c), McuW(scan, c))
LastRowHeight(c) == Rest(HeightInBlocks(c), V(c))
McuRows(scan, row) ==
    IF Together(scan) THEN 1
    ELSE IF row < TotalRows - 1 THEN V(scan[1]) ELSE LastRowHeight(scan[1])
Interval(scan) ==
    IF conf.inRows > 0 THEN AtMost(conf.inRows * McusPerRow(scan), MaxInterval) ELSE conf.interval
TotalPasses == Len(Scans) * (IF conf.optimize THEN 2 ELSE 1)
FullBuffer == Len(Scans) > 1 \/ conf.optimize

NoDC == <<>>
NoDCs == [c \in Comps |-> NoDC]
NoRows == [c \in Comps |-> <<>>]

HuffNames == {"DC", "AC"} \X (0 .. 3)

Init ==
    /\ conf \in Configs
    /\ state = "START" /\ image = 0 /\ line = 0 /\ call = "none"
    /\ io = [band |-> 0, ctr |-> 0, avail |-> 0, color |-> <<>>, toGo |-> 0, rows |-> NoRows,
             groups |-> 0, row |-> 0, suspended |-> FALSE]
    /\ master = [type |-> "main", scan |-> 1, pass |-> 0, startup |-> FALSE]
    /\ coef = [row |-> 0, vert |-> 0, mcu |-> 0] /\ whole = NoRows
    /\ entropy = [toGo |-> 0, next |-> 0, dc |-> NoDCs]
    /\ interval = 0 /\ lastDRI = 0 /\ sent = {} /\ buf = <<>> /\ file = <<>>
    /\ counted = {} /\ made = [t \in HuffNames |-> <<>>]
    /\ begun = 0 /\ complete = FALSE /\ uncounted = FALSE /\ lost = {}

-----------------------------------------------------------------------------
(* jdatadst.c, and the client's own destination.                           *)

Total(tokens) == buf \o tokens
Dumps(tokens) == Len(Total(tokens)) \div conf.size
Written(tokens, n) == SubSeq(Total(tokens), 1, n * conf.size)
CanSuspend == conf.dest = "client"

(* As soon as the buffer is full it is written to the file. *)
Emit(tokens) ==
    /\ ~CanSuspend \/ Dumps(tokens) = 0
    /\ file' = file \o Written(tokens, Dumps(tokens))
    /\ buf' = SubSeq(Total(tokens), Dumps(tokens) * conf.size + 1, Len(Total(tokens)))

Exits ==
    /\ state' = "exited" /\ call' = "none" /\ buf' = <<>>
    /\ UNCHANGED <<clientVars, passVars, tableVars, historyVars>>

(* A write fails, part of it done, or the client's destination refuses     *)
(* where it must not.                                                      *)
FailsWithin(tokens, n) ==
    /\ \E k \in 0 .. n - 1 :
           file' = file \o IF CanSuspend THEN <<>> ELSE SubSeq(Total(tokens), 1, k)
    /\ Exits

EmitFails(tokens) == FailsWithin(tokens, Dumps(tokens) * conf.size)

-----------------------------------------------------------------------------
(* jcmarker.c.  A table that is marked sent is left out.                   *)

OnceEach(tables) ==
    FlattenSeq([i \in DOMAIN tables |->
        IF tables[i] \notin sent /\ \A j \in 1 .. i - 1 : tables[j] # tables[i]
        THEN <<tables[i]>> ELSE <<>>])

QuantTables == [c \in Comps |-> <<"Q", conf.comps[c].quant>>]
HuffTables(scan) ==
    FlattenSeq([i \in DOMAIN scan |-> <<<<"DC", conf.comps[scan[i]].dc>>,
                                        <<"AC", conf.comps[scan[i]].ac>>>>])

Dqt(t) == <<"DQT", t>>
Dht(t) == <<"DHT", t, made[t]>>
FrameHeader ==
    LET q == OnceEach(QuantTables) IN [i \in DOMAIN q |-> Dqt(q[i])] \o <<<<"SOF">>>>
HuffHeader(scan) == LET h == OnceEach(HuffTables(scan)) IN [i \in DOMAIN h |-> Dht(h[i])]
Dri(n) == IF n # lastDRI THEN <<<<"DRI", n>>>> ELSE <<>>

(* Faulty variant: the interval is announced for the first scan only. *)
ScanHeaderOnce(scan, n) ==
    HuffHeader(scan) \o (IF master.scan = 1 THEN Dri(n) ELSE <<>>) \o <<<<"SOS", scan>>>>

ScanHeader(scan, n) == HuffHeader(scan) \o Dri(n) \o <<<<"SOS", scan>>>>

(* write_frame_header, for the first scan, and write_scan_header. *)
Header(scan, n) == (IF master.scan = 1 THEN FrameHeader ELSE <<>>) \o ScanHeader(scan, n)

EmitHeader(scan, n) ==
    /\ \E header \in {Header(scan, n)} : Emit(header)
    /\ sent' = sent \cup ToSet(HuffTables(scan))
                    \cup (IF master.scan = 1 THEN ToSet(QuantTables) ELSE {})
    /\ lastDRI' = n

-----------------------------------------------------------------------------
EntropyStart(n) == [toGo |-> n, next |-> 0, dc |-> NoDCs]
CoefStart == [row |-> 0, vert |-> 0, mcu |-> 0]

(* jpeg_start_compress: tables, destination, modules, SOI, the main pass.  *)
StartCompress ==
    /\ state = "START" /\ image < Len(conf.all)
    /\ LET header == <<<<"SOI">>, <<"APP0">>>> IN
       \/ ~ScriptIsValid /\ Exits /\ UNCHANGED file
       \/ ScriptIsValid /\ EmitFails(header)
       \/ /\ ScriptIsValid /\ Emit(header)
          /\ image' = image + 1 /\ line' = 0
          /\ sent' = IF conf.all[image'] THEN {} ELSE sent
          /\ lost' = IF conf.all[image'] THEN {} ELSE lost
          /\ state' = IF conf.raw THEN "RAW_OK" ELSE "SCANNING"
          /\ io' = [band |-> 0, ctr |-> 0, avail |-> 0, color |-> <<>>, toGo |-> conf.height,
                    rows |-> NoRows, groups |-> 0, row |-> 0, suspended |-> FALSE]
          /\ master' = [type |-> "main", scan |-> 1, pass |-> 0, startup |-> ~conf.optimize]
          /\ coef' = CoefStart /\ whole' = NoRows
          /\ interval' = Interval(Scans[1]) /\ entropy' = EntropyStart(interval')
          /\ lastDRI' = 0 /\ counted' = {}
          /\ begun' = Len(file) /\ complete' = FALSE
          /\ UNCHANGED <<conf, call, made, uncounted>>

(* The first call for data writes the headers, if they are not postponed. *)
Startup(then) ==
    \/ /\ master.startup /\ EmitHeader(Scan, interval)
       /\ master' = [master EXCEPT !.startup = FALSE]
       /\ then /\ UNCHANGED <<made, counted>>
    \/ master.startup /\ EmitFails(Header(Scan, interval))
    \/ ~master.startup /\ then /\ UNCHANGED <<master, tableVars, outVars>>

-----------------------------------------------------------------------------
(* jcprepct.c and jcmainct.c.                                              *)

Padded(rows, n) == [i \in 1 .. n |-> rows[AtMost(i, Len(rows))]]

(* A row of a row group is made from the lines that fall on it. *)
Downsampled(c, lines) ==
    LET per == MaxV \div V(c) IN
    [y \in 1 .. V(c) |-> SubSeq(lines, (y - 1) * per + 1, y * per)]

(* pre_process_data, one turn of its loop: lines to the color buffer, that *)
(* to a row group; at the bottom both are padded.                          *)
Prepare ==
    /\ call = "main" /\ io.row < TotalRows /\ io.groups < D /\ io.ctr < io.avail
    /\ LET n == AtMost(MaxV - Len(io.color), io.avail - io.ctr)
           color == io.color \o [i \in 1 .. n |-> line + io.ctr + i]
           bottom == io.toGo = n
           full == bottom \/ Len(color) = MaxV
           groups == IF bottom THEN D ELSE IF full THEN io.groups + 1 ELSE io.groups
           group(c) == io.rows[c] \o IF full THEN Downsampled(c, Padded(color, MaxV)) ELSE <<>>
       IN io' = [io EXCEPT !.ctr = @ + n, !.toGo = @ - n, !.color = IF full THEN <<>> ELSE color,
                           !.groups = groups,
                           !.rows = [c \in Comps |-> IF bottom THEN Padded(group(c), D * V(c))
                                                     ELSE group(c)]]
    /\ UNCHANGED <<conf, state, image, line, call, passVars, tableVars, outVars, historyVars>>

(* process_data_simple_main returns for more lines. *)
MainReturns ==
    /\ call = "main"
    /\ io.row = TotalRows \/ (io.groups < D /\ io.ctr = io.avail)
    /\ line' = line + io.ctr /\ call' = "none"
    /\ UNCHANGED <<conf, state, image, io, passVars, tableVars, outVars, historyVars>>

-----------------------------------------------------------------------------
(* jccoefct.c.                                                             *)

(* A row of what the image should be: its row group's lines, the last      *)
(* group's again below it.                                                 *)
ImageRow(c, y) ==
    LET groups == DivUp(conf.height, MaxV)
        n == AtMost(y, groups * V(c) - 1)
        from == (n \div V(c)) * MaxV
        lines == [i \in 1 .. MaxV |-> AtMost(from + i, conf.height)]
    IN Downsampled(c, lines)[(n % V(c)) + 1]

(* Row y of the input buffer: the band the client copied there or the main *)
(* buffer's.                                                               *)
InputRow(c, y) ==
    IF conf.raw THEN ImageRow(c, io.band * V(c) * D + y) ELSE io.rows[c][y + 1]

Block(c, row, col, rows) == <<c, row, col, rows>>
Dummy == <<"dummy">>

(* forward_DCT of the block in row y of the input buffer's blocks. *)
Dct(c, y, col) ==
    LET id == <<c, coef.row * V(c) + y, col>> IN
    [block |-> Block(c, id[2], col, [i \in 1 .. D |-> InputRow(c, y * D + i - 1)]), dc |-> id]

(* The blocks of an MCU in order, as component, row and column in it. *)
Places(scan) ==
    FlattenSeq([i \in DOMAIN scan |->
        LET c == scan[i] IN
        [k \in 1 .. McuW(scan, c) * McuH(scan, c) |->
            [c |-> c, y |-> (k - 1) \div McuW(scan, c), x |-> (k - 1) % McuW(scan, c)]]])

(* compress_data: dummy blocks to the right and below take the DC of the   *)
(* block before them.                                                      *)
McuOfInput ==
    LET places == Places(Scan)
        isReal(p) == /\ coef.mcu < McusPerRow(Scan) - 1 \/ p.x < LastColWidth(Scan, p.c)
                     /\ coef.row < TotalRows - 1 \/ coef.vert + p.y < LastRowHeight(p.c)
        blocks[k \in 1 .. Len(places)] ==
            LET p == places[k] IN
            IF isReal(p) THEN Dct(p.c, coef.vert + p.y, coef.mcu * McuW(Scan, p.c) + p.x)
            ELSE [block |-> Dummy, dc |-> blocks[k - 1].dc]
    IN [k \in 1 .. Len(places) |-> blocks[k]]

(* compress_output. *)
McuOfWhole ==
    LET places == Places(Scan) IN
    [k \in 1 .. Len(places) |->
        LET p == places[k]
            row == coef.row * V(p.c) + coef.vert + p.y
        IN whole[p.c][row + 1][coef.mcu * McuW(Scan, p.c) + p.x + 1]]

(* compress_first_pass: the rows of blocks of an iMCU row with their dummy *)
(* blocks; a dummy row takes the DC of the last block above, MCU by MCU.   *)
RowsOfInput(c) ==
    LET real == IF coef.row < TotalRows - 1 THEN V(c) ELSE LastRowHeight(c)
        across == DivUp(WidthInBlocks(c), H(c)) * H(c)
        realRow(y) == [x \in 1 .. across |->
            IF x <= WidthInBlocks(c) THEN Dct(c, y, x - 1)
            ELSE [block |-> Dummy, dc |-> Dct(c, y, WidthInBlocks(c) - 1).dc]]
        rows[y \in 0 .. V(c) - 1] ==
            IF y < real THEN realRow(y)
            ELSE [x \in 1 .. across |->
                    [block |-> Dummy, dc |-> rows[y - 1][((x - 1) \div H(c) + 1) * H(c)].dc]]
    IN [y \in 1 .. V(c) |-> rows[y - 1]]

(* compress_data is called with the input buffer; whole_image is filled    *)
(* again if a call suspended.                                              *)
Compresses ==
    /\ call' = "compress"
    /\ whole' = IF FullBuffer
                THEN [c \in Comps |-> SubSeq(whole[c], 1, coef.row * V(c)) \o RowsOfInput(c)]
                ELSE whole
    /\ UNCHANGED <<conf, state, image, line, io, coef, entropy, interval, historyVars>>

(* jpeg_write_raw_data, with the next band of the image. *)
WriteRawData ==
    /\ state = "RAW_OK" /\ call = "none" /\ line < conf.height
    /\ Startup(Compresses)

(* jpeg_write_scanlines. *)
WriteScanlines ==
    /\ state = "SCANNING" /\ call = "none" /\ line < conf.height
    /\ \E n \in 1 .. MaxLines :
           Startup(/\ call' = "main"
                   /\ io' = [io EXCEPT !.ctr = 0, !.avail = AtMost(n, conf.height - line)]
                   /\ UNCHANGED <<conf, state, image, line, coef, whole, entropy, interval,
                                  historyVars>>)

(* process_data_simple_main has an iMCU row. *)
MainCompresses ==
    /\ call = "main" /\ io.row < TotalRows /\ io.groups = D
    /\ Compresses
    /\ UNCHANGED <<master, tableVars, outVars>>

Mcu == IF FullBuffer THEN McuOfWhole ELSE McuOfInput

-----------------------------------------------------------------------------
(* jchuff.c.                                                               *)

Restarts == interval > 0 /\ entropy.toGo = 0

Predictions == IF Restarts THEN NoDCs ELSE entropy.dc

(* Coded blocks: each is predicted from the one before of its component. *)
Coded(mcu) ==
    LET places == Places(Scan)
        before(k) == {j \in 1 .. k - 1 : places[j].c = places[k].c}
    IN [k \in DOMAIN mcu |->
         <<"block", mcu[k].block, mcu[k].dc,
           IF before(k) = {} THEN Predictions[places[k].c] ELSE mcu[Max(before(k))].dc>>]

(* The DC of each component after the MCU. *)
After(mcu) ==
    LET places == Places(Scan)
        of(c) == {k \in DOMAIN mcu : places[k].c = c}
    IN [c \in Comps |-> IF of(c) = {} THEN Predictions[c] ELSE mcu[Max(of(c))].dc]

RestartMarker == IF Restarts THEN <<<<"RST", entropy.next>>>> ELSE <<>>

(* Faulty variant: it is not set again after a restart. *)
CountedDown == IF interval = 0 THEN entropy.toGo ELSE entropy.toGo - 1

(* The restart counter after an MCU. *)
Counted ==
    IF interval = 0 THEN entropy.toGo
    ELSE (IF entropy.toGo = 0 THEN interval ELSE entropy.toGo) - 1

(* The symbols of a block depend on it and on what it is predicted from;   *)
(* they are coded with the tables of its component.                        *)
Symbols(mcu) ==
    LET coded == Coded(mcu) places == Places(Scan) IN
    {<<conf.comps[places[k].c].dc, conf.comps[places[k].c].ac, coded[k]>> : k \in DOMAIN mcu}

EntropyAfter(mcu, next) == [toGo |-> Counted, next |-> next, dc |-> After(mcu)]

Gathering == conf.optimize /\ master.type # "output"

(* The next MCU, or the next row of MCUs, or the next iMCU row. *)
CoefAfter ==
    IF coef.mcu < McusPerRow(Scan) - 1 THEN [coef EXCEPT !.mcu = @ + 1]
    ELSE IF coef.vert < McuRows(Scan, coef.row) - 1 THEN [coef EXCEPT !.mcu = 0, !.vert = @ + 1]
    ELSE [row |-> coef.row + 1, vert |-> 0, mcu |-> 0]

(* compress_data returns TRUE after the last MCU of an iMCU row. *)
Returns ==
    IF CoefAfter.row = coef.row THEN UNCHANGED <<line, call, io>>
    ELSE \/ /\ call = "pass" /\ UNCHANGED <<line, call, io>>
         \/ /\ call = "compress" /\ conf.raw
            /\ line' = line + MaxV * D /\ call' = "none"
            /\ io' = [io EXCEPT !.band = @ + 1]
         \/ /\ call = "compress" /\ ~conf.raw
            /\ io' = [io EXCEPT !.ctr = IF io.suspended THEN @ + 1 ELSE @, !.suspended = FALSE,
                                !.groups = 0, !.rows = NoRows, !.row = @ + 1]
            /\ call' = "main" /\ UNCHANGED line

InData == call \in {"compress", "pass"} /\ coef.row < TotalRows

(* Faulty variant: it does not know of restarts. *)
GatherNoRestart ==
    /\ InData /\ Gathering
    /\ counted' = counted \cup Symbols(Mcu)
    /\ entropy' = [EntropyAfter(Mcu, entropy.next) EXCEPT !.toGo = 1]
    /\ coef' = CoefAfter /\ Returns
    /\ UNCHANGED <<conf, state, image, master, whole, interval, sent, made, lastDRI, outVars,
                   historyVars>>

(* encode_mcu_gather. *)
GatherMCU ==
    /\ InData /\ Gathering
    /\ \E mcu \in {Mcu} :
           counted' = counted \cup Symbols(mcu) /\ entropy' = EntropyAfter(mcu, entropy.next)
    /\ coef' = CoefAfter /\ Returns
    /\ UNCHANGED <<conf, state, image, master, whole, interval, sent, made, lastDRI, outVars,
                   historyVars>>

(* encode_mcu_huff. *)
EncodeMCU ==
    /\ InData /\ ~Gathering
    /\ \E mcu \in {Mcu} : \E tokens \in {RestartMarker \o Coded(mcu)} :
       \/ /\ Emit(tokens)
          /\ entropy' = EntropyAfter(mcu, IF Restarts THEN (entropy.next + 1) % 8 ELSE entropy.next)
          /\ coef' = CoefAfter /\ Returns
          /\ uncounted' = (uncounted \/ (conf.optimize /\ ~(Symbols(mcu) \subseteq counted)))
          /\ UNCHANGED <<conf, state, image, master, whole, interval, tableVars, begun, complete,
                         lost>>
       \/ (~CanSuspend \/ call = "pass") /\ EmitFails(tokens)

Refused == InData /\ call = "compress" /\ ~Gathering /\ CanSuspend
               /\ Dumps(RestartMarker \o Coded(Mcu)) > 0

(* Faulty variant: the line is taken. *)
SuspendsWithLine ==
    /\ Refused
    /\ file' = file \o buf /\ buf' = <<>> /\ call' = "none"
    /\ line' = line + IF conf.raw THEN 0 ELSE io.ctr
    /\ UNCHANGED <<conf, state, image, io, passVars, tableVars, historyVars>>

(* Faulty variant: the working state is kept. *)
SuspendsMidway ==
    /\ Refused
    /\ file' = file \o buf /\ buf' = <<>> /\ call' = "none"
    /\ entropy' = EntropyAfter(Mcu, entropy.next)
    /\ IF conf.raw THEN UNCHANGED <<line, io>>
       ELSE /\ line' = line + IF io.suspended THEN io.ctr ELSE io.ctr - 1
            /\ io' = [io EXCEPT !.suspended = TRUE]
    /\ UNCHANGED <<conf, state, image, master, coef, whole, interval, tableVars, historyVars>>

(* Faulty variant: the buffer stays full. *)
SuspendsFull ==
    /\ Refused
    /\ call' = "none"
    /\ IF conf.raw THEN UNCHANGED <<line, io>>
       ELSE /\ line' = line + IF io.suspended THEN io.ctr ELSE io.ctr - 1
            /\ io' = [io EXCEPT !.suspended = TRUE]
    /\ UNCHANGED <<conf, state, image, passVars, tableVars, outVars, historyVars>>

(* The client's buffer is full before the MCU is done: the MCU is not      *)
(* begun, and once the last line counts as not read.  The client takes     *)
(* what is in the buffer up to the MCU.                                    *)
Suspends ==
    /\ Refused
    /\ file' = file \o buf /\ buf' = <<>> /\ call' = "none"
    /\ IF conf.raw THEN UNCHANGED <<line, io>>
       ELSE /\ line' = line + IF io.suspended THEN io.ctr ELSE io.ctr - 1
            /\ io' = [io EXCEPT !.suspended = TRUE]
    /\ UNCHANGED <<conf, state, image, passVars, tableVars, historyVars>>

-----------------------------------------------------------------------------
(* jpeg_finish_compress and the passes after the first.                    *)

(* Faulty variant: a table stays marked. *)
MarkedStill == sent

(* gen_optimal_table. *)
Marked == IF Gathering THEN sent \ ToSet(HuffTables(Scan)) ELSE sent

(* finish_pass makes tables of what was counted. *)
FinishPass ==
    /\ \/ call = "none" /\ state \in {"RAW_OK", "SCANNING"} /\ line >= conf.height
       \/ call = "pass" /\ coef.row = TotalRows
    /\ sent' = Marked
    /\ made' = [t \in HuffNames |-> IF Gathering /\ t \in ToSet(HuffTables(Scan))
                                    THEN <<image, master.scan>> ELSE made[t]]
    /\ master' = [master EXCEPT
            !.type = IF @ = "output" /\ conf.optimize THEN "gather" ELSE "output",
            !.scan = IF Gathering THEN @ ELSE @ + 1,
            !.pass = @ + 1]
    /\ call' = "passes"
    /\ UNCHANGED <<clientVars, state, coef, whole, entropy, interval, counted, lastDRI, outVars,
                   historyVars>>

(* The bits that are left when a pass of output ends do not get out.       *)
FlushFails ==
    /\ \/ call = "none" /\ state \in {"RAW_OK", "SCANNING"} /\ line >= conf.height
       \/ call = "pass" /\ coef.row = TotalRows
    /\ ~Gathering
    /\ FailsWithin(<<>>, Len(buf) + 1)

(* prepare_for_pass, for a pass over whole_image. *)
PreparePass ==
    /\ call = "passes" /\ master.pass < TotalPasses
    /\ LET n == IF conf.optimize /\ ~Gathering THEN interval ELSE Interval(Scan) IN
       \/ /\ interval' = n /\ entropy' = EntropyStart(n) /\ coef' = CoefStart
          /\ IF Gathering THEN counted' = {} /\ UNCHANGED <<sent, lastDRI, outVars>>
             ELSE EmitHeader(Scan, n) /\ UNCHANGED counted
          /\ call' = "pass"
          /\ UNCHANGED <<clientVars, state, master, whole, made, historyVars>>
       \/ ~Gathering /\ EmitFails(Header(Scan, n))

(* The trailer, term_destination, and jpeg_abort to release the image. *)
Finish ==
    /\ call = "passes" /\ master.pass = TotalPasses
    /\ LET trailer == <<<<"EOI">>>> IN
       \/ /\ CanSuspend => Dumps(trailer) = 0
          /\ file' = file \o Total(trailer) /\ buf' = <<>>
          /\ state' = "START" /\ call' = "none" /\ complete' = TRUE
          /\ UNCHANGED <<clientVars, passVars, tableVars, begun, uncounted, lost>>
       \/ CanSuspend /\ EmitFails(trailer)
       \/ ~CanSuspend /\ FailsWithin(trailer, Len(Total(trailer)))

(* Tables that are in the buffer, not in the file. *)
Buffered == {t \in sent : \E i \in DOMAIN buf : buf[i][1] \in {"DQT", "DHT"} /\ buf[i][2] = t}

(* jpeg_abort_compress: the client gives the image up. *)
Abort ==
    /\ state \in {"RAW_OK", "SCANNING"} /\ call = "none"
    /\ state' = "START" /\ buf' = <<>>
    /\ lost' = lost \cup Buffered
    /\ UNCHANGED <<clientVars, call, passVars, tableVars, file, begun, complete, uncounted>>

Step ==
    \/ StartCompress \/ WriteRawData \/ WriteScanlines
    \/ Prepare \/ MainReturns \/ MainCompresses
    \/ GatherMCU \/ EncodeMCU \/ Suspends
    \/ FinishPass \/ FlushFails \/ PreparePass \/ Finish

Next == Step \/ Abort

(* A client that began an image goes on with it, unless it gives it up. *)
Spec == Init /\ [][Next]_vars /\ WF_vars(Step)

-----------------------------------------------------------------------------
(* What a file of the image has: written from what a decoder expects.      *)

(* The DC a block carries: its own, or that of the last one before it in   *)
(* its MCU that is in the image.                                           *)
DCOf(scan, c, row, col) ==
    LET w == McuW(scan, c) 
        last == AtMost((col \div w) * w + w - 1, WidthInBlocks(c) - 1)
    IN IF row < HeightInBlocks(c) THEN <<c, row, AtMost(col, last)>>
       ELSE <<c, HeightInBlocks(c) - 1, last>>

Content(c, row, col) ==
    IF row < HeightInBlocks(c) /\ col < WidthInBlocks(c)
    THEN Block(c, row, col, [i \in 1 .. D |-> ImageRow(c, row * D + i - 1)]) ELSE Dummy

(* MCU m of a scan with restarts every n MCUs: its blocks, each with the   *)
(* DC it carries and that it is predicted from.                            *)
ImageRowOf(scan, p, m) == (m \div McusPerRow(scan)) * McuH(scan, p.c) + p.y
ImageColOf(scan, p, m) == (m % McusPerRow(scan)) * McuW(scan, p.c) + p.x
ImageDC(scan, p, m) == DCOf(scan, p.c, ImageRowOf(scan, p, m), ImageColOf(scan, p, m))
RestartsAt(n, m) == n > 0 /\ m > 0 /\ m % n = 0

ImageBlocks(scan, n, m) ==
    LET places == Places(scan)
        same(k) == {j \in DOMAIN places : places[j].c = places[k].c}
        pred(k) == IF k # Min(same(k)) THEN ImageDC(scan, places[k - 1], m)
                   ELSE IF m = 0 \/ RestartsAt(n, m) THEN NoDC
                   ELSE ImageDC(scan, places[Max(same(k))], m - 1)
    IN [k \in DOMAIN places |->
           <<"block", Content(places[k].c, ImageRowOf(scan, places[k], m), ImageColOf(scan, places[k], m)),
             ImageDC(scan, places[k], m), pred(k)>>]

ImageMcu(scan, n, m) ==
    (IF RestartsAt(n, m) THEN <<<<"RST", (m \div n - 1) % 8>>>> ELSE <<>>) \o ImageBlocks(scan, n, m)

Mcus(scan) ==
    (IF Together(scan) THEN TotalRows ELSE HeightInBlocks(scan[1])) * McusPerRow(scan)

ImageScan(scan) ==
    <<<<"SOS", scan>>>>
        \o FlattenSeq([m \in 1 .. Mcus(scan) |-> ImageMcu(scan, Interval(scan), m - 1)])

Image ==
    <<<<"SOI">>, <<"APP0">>, <<"SOF">>>> \o FlattenSeq([s \in DOMAIN Scans |-> ImageScan(Scans[s])])
        \o <<<<"EOI">>>>

Stream == SubSeq(file, begun + 1, Len(file)) \o buf
IsTable(token) == token[1] \in {"DQT", "DHT", "DRI"}
Data(tokens) ==
    FlattenSeq([i \in DOMAIN tokens |-> IF IsTable(tokens[i]) THEN <<>> ELSE <<tokens[i]>>])
LastOf(stream, Test(_)) == Max({0} \cup {i \in DOMAIN stream : Test(stream[i])})

TypeOK ==
    /\ state \in {"START", "RAW_OK", "SCANNING", "exited"}
    /\ call \in {"none", "main", "compress", "passes", "pass"}
    /\ master.type \in {"main", "gather", "output"} /\ master.pass \in 0 .. TotalPasses
    /\ io.groups \in 0 .. D /\ io.toGo \in 0 .. conf.height
    /\ \A c \in Comps : Len(io.rows[c]) = io.groups * V(c)
    /\ coef.row \in 0 .. TotalRows /\ entropy.toGo \in 0 .. interval /\ entropy.next \in 0 .. 7
    /\ Len(buf) < conf.size

(* However often the client's destination refuses, and however the image   *)
(* is cut into calls, scans, restarts and passes, what is written is the   *)
(* image from its beginning, every block once, in order, predicted as a    *)
(* decoder does it; also in the file a failed write leaves; and all of it  *)
(* when jpeg_finish_compress returns, though the last call before it was   *)
(* cut short.  (jpeg_write_scanlines, jpeg_write_raw_data, compress_data,  *)
(* encode_mcu_huff; process_data_simple_main: "the application would think *)
(* we were done".)                                                         *)
StreamIsImage ==
    image > 0 =>
        /\ IsPrefix(Data(Stream), Image)
        /\ complete => Data(Stream) = Image

IntervalIsKnown ==
    LET dri == LastOf(Stream, LAMBDA token : token[1] = "DRI") IN
    interval = IF dri = 0 THEN 0 ELSE Stream[dri][2]

TablesAreKnown ==
    LET all == file \o buf
        latest(t) == LastOf(all, LAMBDA token : token[1] \in {"DQT", "DHT"} /\ token[2] = t)
    IN /\ \A t \in ToSet(HuffTables(Scan)) \ lost : latest(t) # 0 /\ all[latest(t)] = Dht(t)
       /\ \A t \in ToSet(QuantTables) \ lost : latest(t) # 0

(* While a scan is written, a decoder knows its restart interval, over     *)
(* scans with other intervals and images, and has its tables, as last      *)
(* made, from this image or one before; but for those in the buffer of an  *)
(* image the client gave up, which stay marked sent; and each symbol has a *)
(* code in them, since it was counted.  (write_scan_header, emit_dht,      *)
(* emit_dqt, jpeg_suppress_tables; encode_mcu_gather: "This process MUST   *)
(* agree".)                                                                *)
DecoderIsTold ==
    /\ InData /\ ~Gathering => IntervalIsKnown /\ TablesAreKnown
    /\ ~uncounted

(* A client that goes on gets its image done, or an error, also where the  *)
(* destination refuses: each time at least one MCU was written.            *)
Ends == state \in {"RAW_OK", "SCANNING"} ~> state \in {"START", "exited"}
=============================================================================
