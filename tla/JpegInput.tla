------------------------------ MODULE JpegInput ------------------------------
(***************************************************************************)
(* The input side of the decompressor of jni/: jdatasrc.c (the source),    *)
(* jdmarker.c (markers, and restarts that went wrong), jdinput.c (markers  *)
(* and data in turn), jdhuff.c (MCUs from data) and the input half of      *)
(* jdcoefct.c (MCUs to the coefficients of the image).                     *)
(*                                                                         *)
(* A source may suspend: what it has is not enough, the call returns, the  *)
(* client loads more and calls again, and the decompressor starts again    *)
(* where it last moved next_input_byte to: behind the last marker's code,  *)
(* the last byte thrown away or the last whole MCU.                        *)
(*                                                                         *)
(* The file is a sequence of tokens: the code of a marker, its parameters, *)
(* a byte of a comment, or a block.  A block names its place in the image  *)
(* and the block whose DC it is predicted from: read with another          *)
(* prediction or for another component it is junk.  The file is what an    *)
(* encoder makes of conf, but for one damage.                              *)
(***************************************************************************)
EXTENDS Integers, FiniteSets, SequencesExt

CONSTANTS
    D,          \* DCTSIZE (8 in the code)
    Configs,    \* what the file holds and how it comes, and what the client sets
    Loads       \* bound: how many tokens a client loads at a time

(* What get_sof, initial_setup and get_sos accept (MAX_SAMP_FACTOR is 4),  *)
(* and what a client may ask for.                                          *)
ASSUME DAssumption == D \in Nat \ {0}
ASSUME LoadsAssumption == Loads \subseteq Nat \ {0}
ASSUME ConfigsAssumption ==
    \A k \in Configs :
        /\ k.comps \in Seq([h : 1 .. 4, v : 1 .. 4]) \ {<<>>}
        /\ k.width \in Nat \ {0} /\ k.height \in Nat \ {0}
        /\ k.scans \in Seq(Seq(DOMAIN k.comps) \ {<<>>})
        /\ k.interval \in Nat /\ k.damage.n \in Nat
        /\ k.comment \in Nat /\ k.limit \in Nat

VARIABLES
    conf,       \* the file's image and damage, and the client's settings
    info,       \* max_h_samp_factor and max_v_samp_factor; of each component DCT_scaled_size,
                \* of each scan MCU_membership
    stream,     \* the file
    pos,        \* next_input_byte
    avail,      \* what a suspending source has loaded of the file
    marker,     \* unread_marker, saw_SOI, saw_SOF, next_restart_num; cur_marker, bytes_read
    saved,      \* marker_list: of each comment the bytes saved
    restart,    \* restart_interval
    control,    \* inheaders, eoi_reached, has_multiple_scans, consume_input, input_scan_number
    quant,      \* the table in the slot, and of each component quant_table
    entropy,    \* restarts_to_go, last_dc_val, insufficient_data and data read ahead
    at,         \* input_iMCU_row, MCU_vert_offset, MCU_ctr
    whole       \* whole_image: what is in each block of each component

fileVars == <<conf, info, stream>>
markerVars == <<marker, saved, restart>>
scanVars == <<control, quant>>
dataVars == <<entropy, at>>
inputVars == <<pos, avail, dataVars, markerVars, scanVars, fileVars, whole>>

-----------------------------------------------------------------------------
(* initial_setup and per_scan_setup.  Components and scans count from 1,   *)
(* rows, columns and MCUs from 0.                                          *)

Comps == DOMAIN conf.comps
H(c) == conf.comps[c].h
V(c) == conf.comps[c].v
AtMost(n, bound) == IF n > bound THEN bound ELSE n
MaxH == info.maxH
MaxV == info.maxV
DivUp(n, m) == (n + m - 1) \div m
WidthInBlocks(c) == DivUp(conf.width * H(c), MaxH * D)
HeightInBlocks(c) == DivUp(conf.height * V(c), MaxV * D)
TotalRows == DivUp(conf.height, MaxV * D)

Together(scan) == Len(scan) > 1
McuW(scan, c) == IF Together(scan) THEN H(c) ELSE 1
McuH(scan, c) == IF Together(scan) THEN V(c) ELSE 1

(* The blocks of an MCU in order, as component, row and column in it. *)
PlacesOf(scan) ==
    FlattenSeq([i \in DOMAIN scan |->
        LET c == scan[i] IN
        [k \in 1 .. McuW(scan, c) * McuH(scan, c) |->
            [c |-> c, y |-> (k - 1) \div McuW(scan, c), x |-> (k - 1) % McuW(scan, c)]]])

(* jpeg_calc_output_dimensions: an image scaled to M rows a block.  A      *)
(* component with fewer samples is scaled less.                            *)
M == conf.scale
S(c) == info.size[c]
Measured ==
    LET maxH == Max({H(c) : c \in Comps}) maxV == Max({V(c) : c \in Comps})
    IN [maxH |-> maxH, maxV |-> maxV,
        size |-> [c \in Comps |->
                    Max({s \in {M, 2 * M, 4 * M, 8 * M} :
                            s = M \/ (s <= D /\ H(c) * s <= maxH * M /\ V(c) * s <= maxV * M)})],
        places |-> [s \in DOMAIN conf.scans |-> PlacesOf(conf.scans[s])]]

Scan == conf.scans[control.scan]
McusPerRow(scan) ==
    IF Together(scan) THEN DivUp(conf.width, MaxH * D) ELSE WidthInBlocks(scan[1])
Rest(n, m) == IF n % m = 0 THEN m ELSE n % m
LastRowHeight(c) == Rest(HeightInBlocks(c), V(c))

(* start_iMCU_row *)
McuRows(scan, row) ==
    IF Together(scan) THEN 1
    ELSE IF row < TotalRows - 1 THEN V(scan[1]) ELSE LastRowHeight(scan[1])

(* Where in the image the MCU's block p goes. *)
Spot(scan, row, vert, mcu, p) ==
    <<p.c, row * V(p.c) + vert + p.y, mcu * McuW(scan, p.c) + p.x>>

-----------------------------------------------------------------------------
(* The file.                                                               *)

None == <<>>
NoDC == <<>>
Junk == <<"junk">>
Zero == <<"zero">>
Code(name) == <<"M", name>>
RST(n) == <<"M", "RST", n % 8>>
Segment(name, param) == <<Code(name), <<"P", param>>>>

RowsOf(scan) == IF Together(scan) THEN TotalRows ELSE HeightInBlocks(scan[1])
McusOf(scan) == RowsOf(scan) * McusPerRow(scan)
Interval(m) == IF conf.interval = 0 THEN 0 ELSE m \div conf.interval

(* The blocks of MCU m of a scan. *)
Spots(s, m) ==
    LET scan == conf.scans[s]
        places == info.places[s]
        row == m \div McusPerRow(scan)
        vert == IF Together(scan) THEN 0 ELSE row % V(scan[1])
    IN [k \in DOMAIN places |->
            Spot(scan, IF Together(scan) THEN row ELSE row \div V(scan[1]), vert,
                 m % McusPerRow(scan), places[k])]

Blocks(s, m) ==
    LET spots == Spots(s, m)
        prior == Spots(s, m - 1)
        last(c) == prior[Max({j \in DOMAIN spots : spots[j][1] = c})]
        first == m = 0 \/ (conf.interval > 0 /\ m % conf.interval = 0)
    IN [k \in DOMAIN spots |->
            <<"B", spots[k], IF k > 1 /\ spots[k - 1][1] = spots[k][1] THEN spots[k - 1]
                             ELSE IF first THEN NoDC ELSE last(spots[k][1])>>]

Hurt(s, n) == conf.damage.scan = s /\ conf.damage.n = n
Harm == conf.damage.kind

(* The marker before interval i, if it is not the first. *)
Restart(s, i) ==
    IF (Harm \in {"lost", "two lost"} /\ Hurt(s, i)) \/ (Harm = "two lost" /\ Hurt(s, i + 1)) THEN <<>>
    ELSE IF Harm = "again" /\ Hurt(s, i) THEN <<RST(i - 1), RST(i - 1)>>
    ELSE IF Harm = "other" /\ Hurt(s, i) THEN <<RST(i - 1 + conf.damage.by)>>
    ELSE <<RST(i - 1)>>

McuTokens(s, m) ==
    LET blocks == Blocks(s, m)
        begins == conf.interval > 0 /\ m > 0 /\ m % conf.interval = 0
    IN (IF begins THEN Restart(s, Interval(m)) ELSE <<>>)
       \o IF Harm = "less" /\ Hurt(s, m) THEN Tail(blocks)
          ELSE IF Harm = "more" /\ Hurt(s, m) THEN <<blocks[1]>> \o blocks ELSE blocks

(* Where the file is cut, nothing follows. *)
ScanTokens(s) ==
    LET scan == conf.scans[s]
        cut == Harm = "cut"
        mcus == IF cut /\ conf.damage.scan = s THEN AtMost(conf.damage.n, McusOf(scan)) ELSE McusOf(scan)
    IN IF cut /\ conf.damage.scan < s THEN <<>>
       ELSE (IF s = 1 \/ conf.requant THEN Segment("DQT", s) ELSE <<>>)
            \o Segment("SOS", s) \o FlattenSeq([m \in 1 .. mcus |-> McuTokens(s, m - 1)])

Comment == IF conf.comment = 0 THEN <<>>
           ELSE Segment("COM", conf.comment) \o [i \in 1 .. conf.comment |-> <<"C", i>>]

File ==
    <<Code("SOI")>> \o Comment
        \o (IF conf.interval > 0 THEN Segment("DRI", conf.interval) ELSE <<>>)
        \o Segment("SOF", Len(conf.comps))
        \o FlattenSeq([s \in DOMAIN conf.scans |-> ScanTokens(s)])
        \o (IF Harm = "cut" THEN <<>> ELSE <<Code("EOI")>>)

-----------------------------------------------------------------------------
(* jdatasrc.c, and a client's own source.  Behind the end there are EOIs.  *)

CanSuspend == conf.source = "client"
There(i) == ~CanSuspend \/ i <= avail
Token(i) == IF i <= Len(stream) THEN stream[i] ELSE Code("EOI")
IsCode(token) == token[1] = "M"

NoMarker == [unread |-> None, soi |-> FALSE, sof |-> FALSE, next |-> 0,
             open |-> FALSE, read |-> <<>>, length |-> 0]
NoScan == [headers |-> TRUE, eoi |-> FALSE, many |-> FALSE, data |-> FALSE, scan |-> 0]
AtStart == [row |-> 0, vert |-> 0, mcu |-> 0]
NoDCs == [c \in Comps |-> NoDC]
EntropyStart == [toGo |-> restart, dc |-> NoDCs, dry |-> FALSE, ahead |-> <<>>]
RoundUp(n, m) == DivUp(n, m) * m
Blank == [c \in Comps |-> [r \in 0 .. RoundUp(HeightInBlocks(c), V(c)) - 1 |->
                              [x \in 0 .. RoundUp(WidthInBlocks(c), H(c)) - 1 |-> Zero]]]

InputInit ==
    /\ conf \in Configs /\ info = Measured /\ stream = File
    /\ pos = 1 /\ avail = 0
    /\ marker = NoMarker /\ saved = <<>> /\ restart = 0
    /\ control = NoScan /\ quant = [slot |-> 0, latch |-> [c \in Comps |-> 0]]
    /\ entropy = EntropyStart /\ at = AtStart /\ whole = Blank

(* reset_input_controller and reset_marker_reader, with a new source. *)
ResetInput ==
    /\ pos' = 1 /\ avail' = 0
    /\ marker' = NoMarker /\ control' = NoScan
    /\ UNCHANGED <<fileVars, saved, restart, quant, dataVars, whole>>

(* The client has more of the file. *)
Load(n) ==
    /\ avail' = Max({avail + n, pos})
    /\ UNCHANGED <<fileVars, pos, markerVars, scanVars, dataVars, whole>>

-----------------------------------------------------------------------------
(* jdmarker.c and consume_markers.  Each of these operators is a step of   *)
(* consume_input and says in "event" how it leaves it: "more" if it goes   *)
(* on, else what it returns.                                               *)

NextCode == CHOOSE i \in pos .. Max({Len(stream), pos}) + 1 :
                IsCode(Token(i)) /\ \A j \in pos .. i - 1 : ~IsCode(Token(j))

(* next_marker, from where the data ends: what is before the code is       *)
(* thrown away, of what there is.                                          *)
NextMarker(event) ==
    IF There(NextCode)
    THEN pos' = NextCode + 1 /\ marker' = [marker EXCEPT !.unread = Token(NextCode)] /\ event = "more"
    ELSE pos' = Max({avail + 1, pos}) /\ event = "suspended" /\ UNCHANGED marker

FindMarker(event) ==
    /\ ~control.data /\ ~control.eoi /\ marker.unread = None
    /\ NextMarker(event)
    /\ UNCHANGED <<fileVars, avail, saved, restart, scanVars, dataVars, whole>>

Is(name) == marker.unread # None /\ marker.unread[2] = name
Processed == [marker EXCEPT !.unread = None]

(* A marker's parameters are not all there: they are read again later, the *)
(* code is not. *)
MarkerSuspends(event) ==
    /\ ~control.data /\ \E name \in {"DQT", "DRI", "SOF", "SOS", "COM"} : Is(name)
    /\ ~marker.open /\ ~There(pos) /\ event = "suspended"
    /\ UNCHANGED inputVars

(* get_soi; restart markers between scans have no parameters. *)
Parameterless(event) ==
    /\ ~control.data /\ event = "more"
    /\ \/ Is("SOI") /\ restart' = 0 /\ marker' = [Processed EXCEPT !.soi = TRUE]
       \/ Is("RST") /\ UNCHANGED restart /\ marker' = Processed
    /\ UNCHANGED <<fileVars, pos, avail, saved, scanVars, dataVars, whole>>

(* get_dqt, get_dri, get_sof. *)
Parameters(event) ==
    /\ ~control.data /\ There(pos) /\ event = "more" /\ pos' = pos + 1
    /\ \/ /\ Is("DQT") /\ quant' = [quant EXCEPT !.slot = Token(pos)[2]]
          /\ marker' = Processed /\ UNCHANGED restart
       \/ /\ Is("DRI") /\ restart' = Token(pos)[2]
          /\ marker' = Processed /\ UNCHANGED quant
       \/ /\ Is("SOF") /\ ~marker.sof
          /\ marker' = [Processed EXCEPT !.sof = TRUE] /\ UNCHANGED <<quant, restart>>
    /\ UNCHANGED <<fileVars, avail, saved, control, dataVars, whole>>

(* skip_variable; the source skips what is not there yet. *)
SkipMarker(event) ==
    /\ ~control.data /\ Is("COM") /\ conf.limit = 0 /\ There(pos) /\ event = "more"
    /\ pos' = pos + 1 + Token(pos)[2] /\ marker' = Processed
    /\ UNCHANGED <<fileVars, avail, saved, restart, scanVars, dataVars, whole>>

(* save_marker: the length. *)
BeginSaving(event) ==
    /\ ~control.data /\ Is("COM") /\ conf.limit > 0 /\ ~marker.open /\ There(pos)
    /\ event = "more" /\ pos' = pos + 1
    /\ marker' = [marker EXCEPT !.open = TRUE, !.read = <<>>, !.length = Token(pos)[2]]
    /\ UNCHANGED <<fileVars, avail, saved, restart, scanVars, dataVars, whole>>

DataLength == AtMost(marker.length, conf.limit)
ToSave == DataLength - Len(marker.read)

(* Faulty variant: next_input_byte is not moved behind what is saved.      *)
SaveFromStart(event) ==
    LET n == IF CanSuspend THEN AtMost(ToSave, Max({avail + 1 - pos, 0})) ELSE ToSave IN
    /\ ~control.data /\ Is("COM") /\ marker.open /\ ToSave > 0
    /\ pos' = IF n = ToSave THEN pos + n ELSE pos
    /\ marker' = [marker EXCEPT !.read = @ \o SubSeq(stream, pos, pos + n - 1)]
    /\ event = IF n = ToSave THEN "more" ELSE "suspended"
    /\ UNCHANGED <<fileVars, avail, saved, restart, scanVars, dataVars, whole>>

(* The bytes that are there. *)
SaveBytes(event) ==
    LET n == IF CanSuspend THEN AtMost(ToSave, Max({avail + 1 - pos, 0})) ELSE ToSave IN
    /\ ~control.data /\ Is("COM") /\ marker.open /\ ToSave > 0
    /\ pos' = pos + n
    /\ marker' = [marker EXCEPT !.read = @ \o SubSeq(stream, pos, pos + n - 1)]
    /\ event = IF n = ToSave THEN "more" ELSE "suspended"
    /\ UNCHANGED <<fileVars, avail, saved, restart, scanVars, dataVars, whole>>

(* All that is to be saved has been, the rest is skipped. *)
EndSaving(event) ==
    /\ ~control.data /\ Is("COM") /\ marker.open /\ ToSave = 0 /\ event = "more"
    /\ saved' = Append(saved, marker.read)
    /\ pos' = pos + marker.length - DataLength
    /\ marker' = [Processed EXCEPT !.open = FALSE, !.read = <<>>, !.length = 0]
    /\ UNCHANGED <<fileVars, avail, restart, scanVars, dataVars, whole>>

(* latch_quant_tables, in the first scan with the component. *)
Latched(scan) ==
    [quant EXCEPT !.latch = [c \in Comps |-> IF c \in ToSet(scan) /\ @[c] = 0 THEN quant.slot
                                               ELSE @[c]]]

(* get_sos; the scan's input pass, but for the first scan. *)
ReadSOS(event) ==
    /\ ~control.data /\ Is("SOS") /\ marker.sof /\ There(pos)
    /\ pos' = pos + 1 /\ event = "sos"
    /\ marker' = [Processed EXCEPT !.next = 0]
    /\ LET n == control.scan + 1 scan == conf.scans[n] IN
       /\ control' = [control EXCEPT !.scan = n, !.data = ~control.headers, !.headers = FALSE,
                        !.many = IF control.headers THEN Len(scan) < Len(conf.comps) ELSE @]
       /\ IF control.headers
          THEN quant' = [quant EXCEPT !.latch = [c \in Comps |-> 0]] /\ UNCHANGED dataVars
          ELSE control.many /\ quant' = Latched(scan) /\ entropy' = EntropyStart /\ at' = AtStart
    /\ UNCHANGED <<fileVars, avail, saved, restart, whole>>

ReadEOI(event) ==
    /\ ~control.data /\ Is("EOI") /\ event = "eoi"
    /\ marker' = Processed /\ control' = [control EXCEPT !.eoi = TRUE]
    /\ UNCHANGED <<fileVars, pos, avail, saved, restart, quant, dataVars, whole>>

ConsumeMarkers(event) ==
    \/ FindMarker(event) \/ MarkerSuspends(event) \/ Parameterless(event) \/ Parameters(event)
    \/ SkipMarker(event) \/ BeginSaving(event) \/ SaveBytes(event) \/ EndSaving(event)
    \/ ReadSOS(event) \/ ReadEOI(event)

(* start_input_pass for the first scan, from jpeg_start_decompress. *)
FirstPass ==
    /\ control' = [control EXCEPT !.data = TRUE]
    /\ quant' = Latched(Scan) /\ entropy' = EntropyStart /\ at' = AtStart /\ whole' = Blank
    /\ UNCHANGED <<fileVars, pos, avail, markerVars>>

-----------------------------------------------------------------------------
(* jdhuff.c and its restarts.                                              *)

RestartDue == restart > 0 /\ entropy.toGo = 0

(* What jpeg_resync_to_restart does with a marker that is not expected. *)
Behind == {RST(marker.next - 1), RST(marker.next - 2)}
Ahead == {RST(marker.next + 1), RST(marker.next + 2)}

(* Faulty variant: a restart that was expected before is kept. *)
NeverSkips == FALSE

SkipsMarker == marker.unread \in Behind
KeepsMarker == marker.unread[2] # "RST" \/ marker.unread \in Ahead

(* read_restart_marker: the next marker, again where that found is behind  *)
(* the one expected.                                                       *)
FindRestart(event) ==
    /\ control.data /\ RestartDue
    /\ marker.unread = None \/ SkipsMarker
    /\ NextMarker(event)
    /\ entropy' = [entropy EXCEPT !.ahead = <<>>]
    /\ UNCHANGED <<fileVars, avail, saved, restart, scanVars, at, whole>>

(* process_restart: the marker found is swallowed, or left for later, and  *)
(* the interval is taken for empty.                                        *)
Restarts(event) ==
    /\ control.data /\ RestartDue /\ event = "more"
    /\ marker.unread # None /\ ~SkipsMarker
    /\ marker' = [marker EXCEPT !.unread = IF KeepsMarker THEN @ ELSE None,
                                !.next = (@ + 1) % 8]
    /\ entropy' = [toGo |-> restart, dc |-> NoDCs, ahead |-> <<>>,
                   dry |-> KeepsMarker /\ entropy.dry]
    /\ UNCHANGED <<fileVars, pos, avail, saved, restart, scanVars, at, whole>>

Places == info.places[control.scan]
Here == [k \in DOMAIN Places |-> Spot(Scan, at.row, at.vert, at.mcu, Places[k])]

(* The data of the MCU: what was read ahead, then the file up to a code. *)
Data(k) == IF k <= Len(entropy.ahead) THEN entropy.ahead[k] ELSE Token(pos + k - Len(entropy.ahead) - 1)
CanRead(k) == k <= Len(entropy.ahead) \/ marker.unread = None
Got == Cardinality({k \in DOMAIN Places : \A j \in 1 .. k : CanRead(j) /\ ~IsCode(Data(j))})
Enough == Got = Len(Places)

(* What the blocks are taken for: a block that is not the one expected, or *)
(* not predicted from the one it should be, and every one after it until   *)
(* the predictions start again, is junk.                                   *)
Decoded ==
    LET here == Here
        blocks[k \in DOMAIN here] ==
            LET pred == IF k > 1 /\ here[k - 1][1] = here[k][1] THEN blocks[k - 1]
                        ELSE entropy.dc[here[k][1]]
            IN IF k <= Got /\ Data(k) = <<"B", here[k], pred>> THEN here[k] ELSE Junk
    IN [k \in DOMAIN here |-> blocks[k]]

(* Without data the blocks stay as they are zeroed. *)
McuBlocks == IF entropy.dry THEN [k \in DOMAIN Places |-> Zero] ELSE Decoded

DCsAfter(blocks) ==
    LET here == Here of(c) == {k \in DOMAIN here : here[k][1] = c}
    IN [c \in Comps |-> IF of(c) = {} THEN entropy.dc[c] ELSE blocks[Max(of(c))]]

AfterMcu ==
    IF at.mcu < McusPerRow(Scan) - 1 THEN [at EXCEPT !.mcu = @ + 1]
    ELSE IF at.vert < McuRows(Scan, at.row) - 1 THEN [at EXCEPT !.mcu = 0, !.vert = @ + 1]
    ELSE [row |-> at.row + 1, vert |-> 0, mcu |-> 0]

McuEvent ==
    IF AfterMcu.row = at.row THEN "more" ELSE IF AfterMcu.row < TotalRows THEN "row" ELSE "scan"

(* The MCU is done; after the last the markers are read again. *)
McuDone(event) ==
    /\ event = McuEvent /\ at' = AfterMcu
    /\ control' = [control EXCEPT !.data = McuEvent # "scan"]

Counted == IF restart = 0 THEN entropy.toGo ELSE entropy.toGo - 1

(* decode_mcu: n tokens of the file are read and "ahead" is kept of them,  *)
(* up to a code if "code" is one.                                          *)
Take(blocks, n, ahead, code) ==
    /\ pos' = pos + n
    /\ marker' = IF code = None THEN marker ELSE [marker EXCEPT !.unread = code]
    /\ entropy' = [toGo |-> Counted, dc |-> DCsAfter(blocks), dry |-> ~Enough, ahead |-> ahead]

Needed == Len(Places) - Len(entropy.ahead)

DecodeMCU(blocks, event) ==
    /\ control.data /\ ~RestartDue /\ McuDone(event)
    /\ \/ /\ entropy.dry
          /\ entropy' = [entropy EXCEPT !.toGo = Counted] /\ UNCHANGED <<pos, marker>>
       \/ /\ ~entropy.dry
          /\ \/ Enough /\ There(pos + Needed - 1) /\ Take(blocks, Needed, <<>>, None)
             \/ /\ Enough /\ marker.unread = None /\ There(pos + Needed)
                /\ LET token == Token(pos + Needed) IN
                   IF IsCode(token) THEN Take(blocks, Needed + 1, <<>>, token)
                   ELSE Take(blocks, Needed + 1, <<token>>, None)
             \/ /\ ~Enough /\ marker.unread # None /\ Take(blocks, 0, <<>>, None)
             \/ /\ ~Enough /\ marker.unread = None /\ There(NextCode)
                /\ Take(blocks, NextCode + 1 - pos, <<>>, Token(NextCode))
    /\ UNCHANGED <<fileVars, avail, saved, restart, quant>>

(* The MCU, or what is read ahead of need, is not all there. *)
McuSuspends(event) ==
    /\ control.data /\ ~RestartDue /\ ~entropy.dry /\ event = "suspended"
    /\ marker.unread = None
    /\ ~There(IF Enough THEN pos + Needed ELSE NextCode)
    /\ UNCHANGED inputVars

(* consume_data. *)
ConsumeData(event) ==
    /\ control.data
    /\ \/ FindRestart(event) \/ Restarts(event) \/ McuSuspends(event)
       \/ \E blocks \in {McuBlocks} :
           /\ DecodeMCU(blocks, event)
           /\ whole' = IF entropy.dry THEN whole
                       ELSE [c \in Comps |-> [r \in DOMAIN whole[c] |-> [x \in DOMAIN whole[c][r] |->
                               IF \E k \in DOMAIN Places : Here[k] = <<c, r, x>>
                               THEN blocks[CHOOSE k \in DOMAIN Places : Here[k] = <<c, r, x>>]
                               ELSE whole[c][r][x]]]]

Consume(event) == ConsumeMarkers(event) \/ ConsumeData(event)
==============================================================================
