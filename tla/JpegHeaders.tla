------------------------------ MODULE JpegHeaders ------------------------------
(***************************************************************************)
(* The headers of a file, from the parameters of the compressor to those   *)
(* of the decompressor: the bytes jcmarker.c writes, and how jdmarker.c    *)
(* and jdapimin.c read them from a source that has them in pieces of any   *)
(* size.  A client writes one datastream after another with one compressor,*)
(* whole images and abbreviated ones, or only their tables; one            *)
(* decompressor reads them.  The coded data of the scans, of which other   *)
(* modules speak, is left out.                                             *)
(***************************************************************************)
EXTENDS JpegTurbo

CONSTANTS
    NaturalOrder,   \* jpeg_natural_order, counted from 1
    Jobs,           \* what the clients do: each a sequence of datastreams
    Pieces          \* how many bytes the source may get at a time

M_SOF0 == 192
M_SOF1 == 193
M_SOF2 == 194
M_SOF9 == 201
M_SOF10 == 202
M_DHT == 196
M_DAC == 204
M_SOI == 216
M_EOI == 217
M_SOS == 218
M_DQT == 219
M_DRI == 221
M_APP0 == 224
M_APP14 == 238
M_COM == 254
M_DNL == 220
M_RST0 == 208
M_TEM == 1

VARIABLES
    job,            \* what the client does
    step,           \* datastreams begun
    comp,           \* the compressor
    bytes,          \* the datastream that was written last
    told,           \* the compressor and its scan at each scan header of it
    reader,         \* [pos, unread, hungry, event]: restart point, unread_marker, asks for more
    decomp,         \* the decompressor
    supplied        \* how many of the bytes the source has

headerVars == <<job, step, comp, bytes, told, reader, decomp, supplied>>

-----------------------------------------------------------------------------
(* Writing: each operator gives the bytes it emits.                        *)

Two(n) == <<(n \div 256) % 256, n % 256>>
Marker(code, body) == <<255, code>> \o Two(Len(body) + 2) \o body
Flat(seqs) == FlattenSeq(seqs)

Precision(table) == IF \E i \in DOMAIN table : table[i] > 255 THEN 1 ELSE 0

(* A table that was sent is not sent again.                                *)
EmitDqt(c, i) ==
    LET prec == Precision(c.quant[i])
        entry(q) == IF prec = 1 THEN Two(q) ELSE <<q>>
    IN IF <<2, i>> \in c.sent THEN <<>>
       ELSE Marker(M_DQT, <<i + 16 * prec>> \o Flat([k \in 1 .. Size |-> entry(c.quant[i][NaturalOrder[k]])]))

EmitDht(c, t) ==
    IF t \in c.sent THEN <<>>
    ELSE Marker(M_DHT, <<t[2] + 16 * t[1]>> \o c.huff[t].bits \o c.huff[t].vals)

(* Write the tables that are not sent: [c, out].                           *)
EmitTables(c, tables) ==
    FoldLeft(LAMBDA w, t : [c |-> [w.c EXCEPT !.sent = @ \cup {t}],
                            out |-> w.out \o (IF t[1] = 2 THEN EmitDqt(w.c, t[2]) ELSE EmitDht(w.c, t))],
             [c |-> c, out |-> <<>>], tables)

EmitDac(c, comps) ==
    LET entry(i) == (IF \E x \in comps : x.dc = i THEN <<i, c.L[i] + 16 * c.U[i]>> ELSE <<>>)
                    \o (IF \E x \in comps : x.ac = i THEN <<i + 16, c.K[i]>> ELSE <<>>)
    IN Marker(M_DAC, Flat([i \in 1 .. NumArithTbls |-> entry(i - 1)]))

EmitDri(c) == Marker(M_DRI, Two(c.interval))

EmitSof(c, code) ==
    Marker(code, <<c.precision>> \o Two(c.height) \o Two(c.width) \o <<Len(c.comps)>>
                 \o Flat([i \in DOMAIN c.comps |->
                        <<c.comps[i].id, 16 * c.comps[i].h + c.comps[i].v, c.comps[i].quant>>]))

Progressive(c) == c.scans # <<>> /\ (c.scans[1].ss # 0 \/ c.scans[1].se # Size - 1)

(* In a progressive scan the tables that are not used count as 0.          *)
TableNo(c, scan, x) ==
    LET dc == IF Progressive(c) /\ (scan.ss # 0 \/ (scan.ah # 0 /\ ~c.arith)) THEN 0 ELSE x.dc
        ac == IF Progressive(c) /\ scan.ss = 0 THEN 0 ELSE x.ac
    IN 16 * dc + ac

EmitSos(c, scan) ==
    Marker(M_SOS, <<Len(scan.comps)>>
                  \o Flat([i \in DOMAIN scan.comps |->
                         <<c.comps[scan.comps[i]].id, TableNo(c, scan, c.comps[scan.comps[i]])>>])
                  \o <<scan.ss, scan.se, 16 * scan.ah + scan.al>>)

EmitJfifApp0(c) ==
    Marker(M_APP0, <<74, 70, 73, 70, 0>> \o c.version \o <<c.density[1]>> \o Two(c.density[2])
                   \o Two(c.density[3]) \o <<0, 0>>)

EmitAdobeApp14(c) ==
    Marker(M_APP14, <<65, 100, 111, 98, 101>> \o Two(100) \o Two(0) \o Two(0)
                    \o <<CASE c.jpegSpace = "YCbCr" -> 1 [] c.jpegSpace = "YCCK" -> 2 [] OTHER -> 0>>)

(* The SOI resets the interval; so does jinit_marker_writer, for each image. *)
WriteFileHeader(c) ==
    [c |-> [c EXCEPT !.lastInterval = 0],
     out |-> <<255, M_SOI>> \o (IF c.jfif THEN EmitJfifApp0(c) ELSE <<>>)
             \o (IF c.adobe THEN EmitAdobeApp14(c) ELSE <<>>)]

WriteFrameHeader(c) ==
    LET tables == EmitTables(c, [i \in DOMAIN c.comps |-> <<2, c.comps[i].quant>>])
        baseline == /\ ~Progressive(c) /\ c.precision = 8
                    /\ \A i \in DOMAIN c.comps :
                           c.comps[i].dc <= 1 /\ c.comps[i].ac <= 1 /\ Precision(c.quant[c.comps[i].quant]) = 0
        code == IF c.arith THEN M_SOF9 ELSE IF Progressive(c) THEN M_SOF2
                ELSE IF baseline THEN M_SOF0 ELSE M_SOF1
    IN [tables EXCEPT !.out = @ \o EmitSof(c, code)]

(* The tables a scan needs, in the order of its components.                *)
ScanTables(c, scan) ==
    LET needed(x) == IF ~Progressive(c) THEN <<<<0, x.dc>>, <<1, x.ac>>>>
                     ELSE IF scan.ss # 0 THEN <<<<1, x.ac>>>>
                     ELSE IF scan.ah = 0 THEN <<<<0, x.dc>>>>
                     ELSE <<>>
    IN Flat([i \in DOMAIN scan.comps |-> needed(c.comps[scan.comps[i]])])

WriteScanHeader(c, scan) ==
    LET comps == {c.comps[scan.comps[i]] : i \in DOMAIN scan.comps}
        tables == IF c.arith THEN [c |-> c, out |-> EmitDac(c, comps)] ELSE EmitTables(c, ScanTables(c, scan))
        dri == IF c.interval # c.lastInterval THEN EmitDri(c) ELSE <<>>
    IN [c |-> [tables.c EXCEPT !.lastInterval = c.interval], out |-> tables.out \o dri \o EmitSos(c, scan)]

WriteTablesOnly(c) ==
    LET quants == SetToSortSeq({i \in TableNos : c.quant[i] # <<>>}, LAMBDA i, j : i < j)
        ofNo(i) == SelectSeq(<<<<0, i>>, <<1, i>>>>, LAMBDA t : c.huff[t] # <<>>)
        huffs == IF c.arith THEN <<>> ELSE Flat([i \in 1 .. NumTbls |-> ofNo(i - 1)])
        tables == EmitTables(c, [k \in DOMAIN quants |-> <<2, quants[k]>>] \o huffs)
    IN [c |-> tables.c, out |-> <<255, M_SOI>> \o tables.out \o <<255, M_EOI>>, told |-> <<>>]

-----------------------------------------------------------------------------
(* An image: per_scan_setup turns rows into an interval, and when the      *)
(* coding is optimized a scan has new tables of its own.                   *)

McusAcross(c, scan) ==
    IF Len(scan.comps) = 1 THEN BlocksAcross(c, c.comps[scan.comps[1]])
    ELSE DivideUp(c.width, Widest(c) * BlockSize)

PerScanSetup(c, scan) ==
    IF c.inRows > 0 THEN [c EXCEPT !.interval = Least(c.inRows * McusAcross(c, scan), 65535)] ELSE c

Remade(c, scan) == FoldLeft(LAMBDA e, new : AddHuffTable(e, new.t, new.table), c, scan.tables)

(* select_scan_parameters: without a script, one scan. *)
ScansOf(c) ==
    IF c.scans # <<>> THEN c.scans
    ELSE <<[comps |-> [i \in DOMAIN c.comps |-> i], ss |-> 0, se |-> Size - 1, ah |-> 0, al |-> 0,
            tables |-> <<>>]>>

WriteScan(w, scan) ==
    LET set == PerScanSetup(Remade(w.c, scan), scan)
        header == WriteScanHeader(set, scan)
    IN [c |-> header.c, out |-> w.out \o header.out, told |-> Append(w.told, [c |-> set, scan |-> scan])]

Outcome(c, out, told1) == [c |-> c, out |-> out, told |-> told1]

(* jpeg_start_compress; jpeg_write_marker; jpeg_finish_compress.  An image *)
(* that is not accepted has its tables unsuppressed, and nothing written.  *)
(* What stands before a marker of the client, other programs write.        *)
WriteImage(c0, all, markers) ==
    LET c == IF all THEN SuppressTables(c0, FALSE) ELSE c0
        file == WriteFileHeader(c)
        others == Flat([i \in DOMAIN markers |-> markers[i].before \o Marker(markers[i].code, markers[i].data)])
        frame == WriteFrameHeader(file.c)
        done == FoldLeft(WriteScan, Outcome(frame.c, file.out \o others \o frame.out, <<>>), ScansOf(c))
    IN IF ~Accepted(c) THEN Outcome(c, <<>>, <<>>) ELSE [done EXCEPT !.out = @ \o <<255, M_EOI>>]

(* tjCompress2, *)
ValidRequest(p) == p.width > 0 /\ p.height > 0 /\ p.subsamp \in Subsamps
TjCompress(c, p) ==
    LET set == SetCompDefaults([c EXCEPT !.width = p.width, !.height = p.height], p.format, p.subsamp, p.quality)
    IN IF ValidRequest(p) /\ p.quality \in 0 .. 100 THEN WriteImage(set, TRUE, <<>>) ELSE Outcome(c, <<>>, <<>>)

(* and tjEncodeYUV2, which starts a file and aborts it. *)
TjEncodeYuv(c, p) ==
    LET set == SetCompDefaults([c EXCEPT !.width = p.width, !.height = p.height], p.format, p.subsamp, -1)
    IN IF ValidRequest(p) THEN Outcome([SuppressTables(set, FALSE) EXCEPT !.lastInterval = 0], <<>>, <<>>)
       ELSE Outcome(c, <<>>, <<>>)

(* What a client may do with the parameters before it starts.              *)
Apply(c, p) ==
    CASE p.call = "defaults" -> SetDefaults(c)
      [] p.call = "image" -> [c EXCEPT !.space = p.space, !.width = p.width, !.height = p.height, !.input = p.comps]
      [] p.call = "space" -> SetColorspace(c, p.space)
      [] p.call = "quality" -> SetQuality(c, p.quality, p.force)
      [] p.call = "quant" -> AddQuantTable(c, p.which, p.table, p.factor, p.force)
      [] p.call = "arith" -> [c EXCEPT !.arith = TRUE, !.L = p.L @@ @, !.U = p.U @@ @, !.K = p.K @@ @]
      [] p.call = "scans" -> [c EXCEPT !.scans = p.scans]
      [] p.call = "restart" -> [c EXCEPT !.interval = p.interval, !.inRows = p.rows]
      [] p.call = "markers" -> [c EXCEPT !.jfif = p.jfif, !.adobe = p.adobe]
      [] p.call = "density" -> [c EXCEPT !.version = p.version, !.density = p.density]
      [] p.call = "comps" -> [c EXCEPT !.comps = p.comps]
      [] p.call = "huff" -> AddHuffTable(c, p.t, p.table)
      [] p.call = "suppress" -> SuppressTables(c, p.suppress)

Write(c, request) ==
    LET set == FoldLeft(Apply, c, request.params) IN
    CASE request.what = "image" -> WriteImage(set, request.all, request.markers)
      [] request.what = "tables" -> WriteTablesOnly(set)
      [] request.what = "turbo" -> TjCompress(c, request.turbo)
      [] request.what = "yuv" -> TjEncodeYuv(c, request.turbo)

-----------------------------------------------------------------------------
(* Reading: b is what the source has from the restart point on.  A handler *)
(* gives the decompressor, how many bytes it used, and whether it is done, *)
(* must be called again with more, or failed; what it stored before it ran *)
(* out of bytes stays stored.                                              *)

Done(d, used) == [d |-> d, used |-> used, how |-> "done"]
More(d) == [d |-> d, used |-> 0, how |-> "more"]
Failed(d) == [d |-> d, used |-> 0, how |-> "failed"]

Word(b, k) == 256 * b[k] + b[k + 1]
ByteOr(b, k, old) == IF k <= Len(b) THEN b[k] ELSE old
WordOr(b, k, old) == IF k < Len(b) THEN Word(b, k) ELSE old

SoiReset(d) ==
    [d EXCEPT !.L = [i \in ArithNos |-> 0], !.U = [i \in ArithNos |-> 1], !.K = [i \in ArithNos |-> 5],
              !.interval = 0, !.jpegSpace = "UNKNOWN", !.sawJfif = FALSE, !.version = <<1, 1>>,
              !.density = <<0, 1, 1>>, !.sawAdobe = FALSE, !.transform = 0, !.sawSoi = TRUE]

(* The interval of the datastream before is kept. *)
KeepingSoi(d) == Done([SoiReset(d) EXCEPT !.interval = d.interval], 0)

GetSoi(d) == IF d.sawSoi THEN Failed(d) ELSE Done(SoiReset(d), 0)

NoComponent == [id |-> 0, h |-> 0, v |-> 0, quant |-> 0, dc |-> 0, ac |-> 0]

GetSof(d, b, progressive, arith) ==
    LET e == [d EXCEPT !.progressive = progressive, !.arith = arith, !.precision = ByteOr(b, 3, @),
                       !.height = WordOr(b, 4, @), !.width = WordOr(b, 6, @), !.num = ByteOr(b, 8, @)]
        component(i) == [NoComponent EXCEPT !.id = b[3 * i + 6], !.h = b[3 * i + 7] \div 16,
                                            !.v = b[3 * i + 7] % 16, !.quant = b[3 * i + 8]]
        known(i) == IF 3 * i + 8 <= Len(b) THEN component(i)
                    ELSE IF i \in DOMAIN d.comps THEN d.comps[i] ELSE NoComponent
        stored == [e EXCEPT !.comps = [i \in 1 .. e.num |-> known(i)]]
    IN IF Len(b) < 8 THEN More(e)
       ELSE IF d.sawSof \/ 0 \in {e.height, e.width, e.num} \/ Word(b, 1) # 8 + 3 * e.num THEN Failed(e)
       ELSE IF Len(b) < 8 + 3 * e.num THEN More(stored)
       ELSE Done([stored EXCEPT !.sawSof = TRUE], 8 + 3 * e.num)

(* The first component with the id whose place in the scan is not taken.   *)
IdFound(d, id) ==
    LET found == {c \in 1 .. Least(Len(d.comps), 4) : d.comps[c].id = id /\ d.inScan[c] = 0}
    IN IF found = {} THEN 0 ELSE Min(found)

GetSos(d, b) ==
    LET n == b[3]
        place(r, i) ==
            LET c == IdFound(r.d, b[2 * i + 2]) IN
            IF r.how = "failed" \/ c = 0 THEN Failed(r.d)
            ELSE More([r.d EXCEPT !.inScan[i] = c, !.comps[c].dc = b[2 * i + 3] \div 16,
                                  !.comps[c].ac = b[2 * i + 3] % 16])
        placed == FoldLeft(place, More([d EXCEPT !.inScan = [i \in 1 .. 4 |-> 0], !.scanLen = n]),
                           [i \in 1 .. Least(n, (Len(b) - 3) \div 2) |-> i])
        last == 2 * n + 6
        params(e) == [e EXCEPT !.ss = ByteOr(b, last - 2, @), !.se = ByteOr(b, last - 1, @),
                               !.ah = ByteOr(b, last, @ * 16) \div 16, !.al = ByteOr(b, last, @) % 16]
    IN IF ~d.sawSof THEN Failed(d)
       ELSE IF Len(b) < 3 THEN More(d)
       ELSE IF Word(b, 1) # last \/ n \notin 1 .. 4 THEN Failed(d)
       ELSE IF placed.how = "failed" THEN placed
       ELSE IF Len(b) < last THEN More(params(placed.d))
       ELSE Done([params(placed.d) EXCEPT !.scanNo = @ + 1], last)

(* Tables follow one another until the marker's length is used up: r is    *)
(* [d, at, left, how], where at is the next byte.                          *)
Start(d, b) == [d |-> d, at |-> 3, left |-> Word(b, 1) - 2, how |-> "going"]

DacEntry(r, b) ==
    LET index == b[r.at]
        val == b[r.at + 1]
        dc == [r EXCEPT !.d.L[index] = val % 16, !.d.U[index] = val \div 16, !.at = @ + 2, !.left = @ - 2]
    IN IF Len(b) <= r.at THEN [r EXCEPT !.how = "more"]
       ELSE IF index >= 2 * NumArithTbls THEN [r EXCEPT !.how = "failed"]
       ELSE IF index >= NumArithTbls
            THEN [r EXCEPT !.d.K[index - NumArithTbls] = val, !.at = @ + 2, !.left = @ - 2]
       ELSE IF val % 16 > val \div 16 THEN [dc EXCEPT !.how = "failed"]
       ELSE dc

DhtEntry(r, b) ==
    LET index == b[r.at]
        bits == SubSeq(b, r.at + 1, r.at + Lengths)
        count == FoldLeft(LAMBDA s, n : s + n, 0, bits)
        next == r.at + 1 + Lengths + count
        t == <<(index \div 16) % 2, index - 16 * ((index \div 16) % 2)>>
        table == [bits |-> bits, vals |-> SubSeq(b, r.at + 1 + Lengths, next - 1)]
    IN IF Len(b) < r.at + Lengths THEN [r EXCEPT !.how = "more"]
       ELSE IF count > 256 \/ count > r.left - 1 - Lengths THEN [r EXCEPT !.how = "failed"]
       ELSE IF Len(b) < next - 1 THEN [r EXCEPT !.how = "more"]
       ELSE IF t[2] \notin TableNos THEN [r EXCEPT !.how = "failed"]
       ELSE [r EXCEPT !.d.huff[t] = table, !.at = next, !.left = @ - (1 + Lengths + count)]

DqtEntry(r, b) ==
    LET n == b[r.at] % 16
        width == IF b[r.at] \div 16 > 0 THEN 2 ELSE 1
        there == Least(Size, (Len(b) - r.at) \div width)
        value(k) == IF width = 2 THEN Word(b, r.at + 2 * k - 1) ELSE b[r.at + k]
        zigzag(i) == CHOOSE k \in 1 .. Size : NaturalOrder[k] = i
        old == IF r.d.quant[n] = <<>> THEN [i \in 1 .. Size |-> 0] ELSE r.d.quant[n]
        table == [i \in 1 .. Size |-> IF zigzag(i) <= there THEN value(zigzag(i)) ELSE old[i]]
    IN IF Len(b) < r.at THEN [r EXCEPT !.how = "more"]
       ELSE IF n \notin TableNos THEN [r EXCEPT !.how = "failed"]
       ELSE IF there < Size THEN [r EXCEPT !.d.quant[n] = table, !.how = "more"]
       ELSE [r EXCEPT !.d.quant[n] = table, !.at = @ + 1 + width * Size, !.left = @ - (1 + width * Size)]

RECURSIVE Entries(_, _, _, _)
Entries(r, b, code, least) ==
    IF r.how # "going" \/ r.left < least THEN r
    ELSE Entries(CASE code = M_DAC -> DacEntry(r, b) [] code = M_DHT -> DhtEntry(r, b)
                   [] code = M_DQT -> DqtEntry(r, b), b, code, least)

GetTables(d, b, code) ==
    LET r == Entries(Start(d, b), b, code, IF code = M_DHT THEN Lengths + 1 ELSE 1)
    IN IF Len(b) < 2 THEN More(d)
       ELSE IF r.how = "more" THEN More(r.d)
       ELSE IF r.how = "failed" \/ r.left # 0 THEN Failed(r.d)
       ELSE Done(r.d, r.at - 1)

GetDri(d, b) ==
    IF Len(b) < 2 THEN More(d)
    ELSE IF Word(b, 1) # 4 THEN Failed(d)
    ELSE IF Len(b) < 4 THEN More(d)
    ELSE Done([d EXCEPT !.interval = Word(b, 3)], 4)

BeginsWith(data, id) == IsPrefix(id, data)

ExamineApp0(d, data) ==
    IF Len(data) >= 14 /\ BeginsWith(data, <<74, 70, 73, 70, 0>>)
    THEN [d EXCEPT !.sawJfif = TRUE, !.version = <<data[6], data[7]>>,
                   !.density = <<data[8], Word(data, 9), Word(data, 11)>>]
    ELSE d

ExamineApp14(d, data) ==
    IF Len(data) >= 12 /\ BeginsWith(data, <<65, 100, 111, 98, 101>>)
    THEN [d EXCEPT !.sawAdobe = TRUE, !.transform = data[12]]
    ELSE d

(* The rest is skipped, by the source if it does not have it yet.          *)
GetInterestingAppn(d, b, code) ==
    LET length == Word(b, 1) - 2
        toRead == Least(14, Max({length, 0}))
        data == SubSeq(b, 3, 2 + toRead)
    IN IF Len(b) < 2 THEN More(d)
       ELSE IF Len(b) < 2 + toRead THEN More(d)
       ELSE Done(IF code = M_APP0 THEN ExamineApp0(d, data) ELSE ExamineApp14(d, data), 2 + Max({length, 0}))

SkipVariable(d, b) == IF Len(b) < 2 THEN More(d) ELSE Done(d, Max({2, Word(b, 1)}))

Handle(d, b, code) ==
    CASE code = M_SOI -> GetSoi(d)
      [] code \in {M_SOF0, M_SOF1} -> GetSof(d, b, FALSE, FALSE)
      [] code = M_SOF2 -> GetSof(d, b, TRUE, FALSE)
      [] code = M_SOF9 -> GetSof(d, b, FALSE, TRUE)
      [] code = M_SOF10 -> GetSof(d, b, TRUE, TRUE)
      [] code = M_SOS -> GetSos(d, b)
      [] code = M_EOI -> Done(d, 0)
      [] code \in {M_DAC, M_DHT, M_DQT} -> GetTables(d, b, code)
      [] code = M_DRI -> GetDri(d, b)
      [] code \in {M_APP0, M_APP14} -> GetInterestingAppn(d, b, code)
      [] code \in ((M_APP0 + 1 .. M_APP0 + 15) \ {M_APP14}) \cup {M_COM, M_DNL} -> SkipVariable(d, b)
      [] code \in (M_RST0 .. M_RST0 + 7) \cup {M_TEM} -> Done(d, 0)
      [] OTHER -> Failed(d)

(* Bytes before a marker are given up at once, filling 255s with the       *)
(* marker.                                                                 *)
RECURSIVE NextMarkerFrom(_, _)
NextMarkerFrom(b, from) ==
    LET first == SelectInSubSeq(b, from, Len(b), LAMBDA x : x = 255)
        code == IF first = 0 THEN 0 ELSE SelectInSubSeq(b, first, Len(b), LAMBDA x : x # 255)
    IN IF first = 0 THEN [how |-> "more", used |-> Len(b), code |-> 0]
       ELSE IF code = 0 THEN [how |-> "more", used |-> first - 1, code |-> 0]
       ELSE IF b[code] = 0 THEN NextMarkerFrom(b, code + 1)
       ELSE [how |-> "done", used |-> code, code |-> b[code]]

FirstMarker(b) ==
    [how |-> IF Len(b) < 2 THEN "more" ELSE IF SubSeq(b, 1, 2) = <<255, M_SOI>> THEN "done" ELSE "failed",
     used |-> IF Len(b) < 2 THEN 0 ELSE 2, code |-> M_SOI]

(* default_decompress_parms *)
GuessedSpace(d) ==
    LET ids == [i \in DOMAIN d.comps |-> d.comps[i].id] IN
    CASE d.num = 1 -> "GRAYSCALE"
      [] d.num = 3 /\ d.sawJfif -> "YCbCr"
      [] d.num = 3 /\ ~d.sawJfif /\ d.sawAdobe -> IF d.transform = 0 THEN "RGB" ELSE "YCbCr"
      [] d.num = 3 /\ ~d.sawJfif /\ ~d.sawAdobe -> IF ids = <<82, 71, 66>> THEN "RGB" ELSE "YCbCr"
      [] d.num = 4 -> IF d.sawAdobe /\ d.transform # 0 THEN "YCCK" ELSE "CMYK"
      [] OTHER -> "UNKNOWN"

-----------------------------------------------------------------------------
(* reset_marker_reader; jpeg_abort forgets the components.                 *)
ResetMarkerReader(d) ==
    [d EXCEPT !.comps = <<>>, !.scanNo = 0, !.sawSoi = FALSE, !.sawSof = FALSE]

Decompressor ==
    [quant |-> [i \in TableNos |-> <<>>], huff |-> [t \in (0 .. 1) \X TableNos |-> <<>>],
     L |-> [i \in ArithNos |-> 0], U |-> [i \in ArithNos |-> 0], K |-> [i \in ArithNos |-> 0],
     interval |-> 0, jpegSpace |-> "UNKNOWN", sawJfif |-> FALSE, version |-> <<0, 0>>, density |-> <<0, 0, 0>>,
     sawAdobe |-> FALSE, transform |-> 0, sawSoi |-> FALSE, sawSof |-> FALSE, progressive |-> FALSE,
     arith |-> FALSE, precision |-> 0, height |-> 0, width |-> 0, num |-> 0, comps |-> <<>>,
     inScan |-> [i \in 1 .. 4 |-> 0], scanLen |-> 0, ss |-> 0, se |-> 0, ah |-> 0, al |-> 0, scanNo |-> 0]

HeadersInit ==
    /\ job \in DOMAIN Jobs
    /\ step = 0 /\ comp = Compressor([space |-> "UNKNOWN", width |-> 0, height |-> 0, comps |-> 0])
    /\ bytes = <<>> /\ told = <<>> /\ supplied = 0
    /\ reader = [pos |-> 0, unread |-> 0, hungry |-> FALSE, event |-> "EOI"]
    /\ decomp = Decompressor

StartReading == [pos |-> 0, unread |-> 0, hungry |-> FALSE, event |-> ""]

(* The next datastream: the client sets parameters and writes it.          *)
WriteDatastream ==
    /\ reader.event \in {"EOI", "TABLES"} /\ step < Len(Jobs[job])
    /\ \E w \in {Write(comp, Jobs[job][step + 1])} :
           /\ comp' = w.c /\ bytes' = w.out /\ told' = w.told
           /\ reader' = [StartReading EXCEPT !.event = IF w.out = <<>> THEN "EOI" ELSE ""]
    /\ step' = step + 1 /\ supplied' = 0
    /\ decomp' = ResetMarkerReader(decomp)
    /\ UNCHANGED job

(* tjDecompressHeader2 aborts when it has seen the header, and the file is *)
(* then read from the start.                                               *)
ReadAgain ==
    /\ reader.event = "SOS" /\ decomp.scanNo = 1
    /\ reader' = StartReading /\ supplied' = 0
    /\ decomp' = ResetMarkerReader(decomp)
    /\ UNCHANGED <<job, step, comp, bytes, told>>

Supply ==
    /\ reader.hungry /\ supplied < Len(bytes)
    /\ \E n \in Pieces : supplied' = Least(Len(bytes), supplied + n)
    /\ reader' = [reader EXCEPT !.hungry = FALSE]
    /\ UNCHANGED <<job, step, comp, bytes, told, decomp>>

Buffer == SubSeq(bytes, reader.pos + 1, supplied)

(* read_markers: the next marker, *)
FindNextMarker ==
    /\ reader.event \in {"", "SOS"} /\ ~reader.hungry /\ reader.unread = 0
    /\ \E m \in {IF decomp.sawSoi THEN NextMarkerFrom(Buffer, 1) ELSE FirstMarker(Buffer)} :
           reader' = [pos |-> reader.pos + m.used, unread |-> IF m.how = "done" THEN m.code ELSE 0,
                      hungry |-> m.how = "more", event |-> IF m.how = "failed" THEN "error" ELSE ""]
    /\ UNCHANGED <<job, step, comp, bytes, told, decomp, supplied>>

(* jpeg_consume_input: the first scan ends the header, and without one     *)
(* there were only tables.                                                 *)
Reached(d, code) ==
    CASE code = M_SOS -> "SOS"
      [] code = M_EOI -> IF d.scanNo > 0 THEN "EOI" ELSE IF d.sawSof THEN "error" ELSE "TABLES"
      [] OTHER -> ""

(* and its parameters. *)
ProcessMarker ==
    /\ reader.event = "" /\ ~reader.hungry /\ reader.unread # 0
    /\ \E r \in {Handle(decomp, Buffer, reader.unread)} :
           /\ reader' = [pos |-> reader.pos + r.used, hungry |-> r.how = "more",
                         unread |-> IF r.how = "done" THEN 0 ELSE reader.unread,
                         event |-> CASE r.how = "done" -> Reached(r.d, reader.unread)
                                     [] r.how = "more" -> ""
                                     [] r.how = "failed" -> "error"]
           /\ decomp' = IF r.how = "done" /\ reader.unread = M_SOS /\ r.d.scanNo = 1
                        THEN [r.d EXCEPT !.jpegSpace = GuessedSpace(r.d)] ELSE r.d
    /\ UNCHANGED <<job, step, comp, bytes, told, supplied>>

HeadersNext == WriteDatastream \/ ReadAgain \/ Supply \/ FindNextMarker \/ ProcessMarker

-----------------------------------------------------------------------------
(* What the decoder must know of a scan is what the encoder had.           *)

FrameAgrees(c, d) ==
    /\ <<d.width, d.height, d.precision, d.num>> = <<c.width, c.height, c.precision, Len(c.comps)>>
    /\ \A i \in DOMAIN c.comps : \A f \in {"id", "h", "v", "quant"} : d.comps[i][f] = c.comps[i][f]
    /\ d.arith = c.arith /\ (c.arith \/ d.progressive = Progressive(c))
    /\ \A i \in DOMAIN c.comps : d.quant[c.comps[i].quant] = c.quant[c.comps[i].quant]

ScanAgrees(c, scan, d) ==
    /\ SubSeq(d.inScan, 1, d.scanLen) = scan.comps
    /\ <<d.ss, d.se, d.ah, d.al>> = <<scan.ss, scan.se, scan.ah, scan.al>>
    /\ d.interval = c.interval
    /\ \A i \in DOMAIN scan.comps :
           LET x == c.comps[scan.comps[i]]
               y == d.comps[scan.comps[i]]
               dc == scan.ss = 0 /\ (c.arith \/ scan.ah = 0)
               ac == scan.se > 0
           IN /\ dc => y.dc = x.dc /\ IF c.arith THEN <<d.L[y.dc], d.U[y.dc]>> = <<c.L[x.dc], c.U[x.dc]>>
                                      ELSE d.huff[<<0, y.dc>>] = c.huff[<<0, x.dc>>]
              /\ ac => y.ac = x.ac /\ IF c.arith THEN d.K[y.ac] = c.K[x.ac]
                                      ELSE d.huff[<<1, y.ac>>] = c.huff[<<1, x.ac>>]

(* A color space other than an unknown one is found again from the markers *)
(* that are written for it, and all but YCCK without them.                 *)
ColorAgrees(c, d) ==
    /\ c.jpegSpace # "UNKNOWN" /\ (c.jpegSpace = "YCCK" => c.adobe) => d.jpegSpace = c.jpegSpace
    /\ c.jfif => d.version = c.version /\ d.density = c.density

(* The TurboJPEG client is told the image it compressed; the planes of a    *)
(* YUV image fill the buffer for it, each with rows that are decoded; and  *)
(* whatever scaling and format it asks for, the image it gets has the size *)
(* and pixels it made room for.  (With a sampling factor of 3 rows of a    *)
(* plane may not be there, and a scaled image be refused.)                 *)
PowersOfTwo(d) == \A i \in DOMAIN d.comps : {d.comps[i].h, d.comps[i].v} \subseteq {1, 2, 4}

PlanesAgree(d) ==
    /\ GetSubsamp(d) >= 0 => PlaneBytes(d) = BufSizeYuv(d.width, d.height, GetSubsamp(d))
    /\ \A i \in DOMAIN d.comps :
           /\ PlaneWidth(d, d.comps[i]) <= BlocksAcross(d, d.comps[i]) * BlockSize
           /\ RowsDecoded(d, d.comps[i]) = PlaneHeight(d, d.comps[i])

ScalingAgrees(d, width, height) ==
    LET denom == ScalingFor(d, width, height)
        r == Reduction(1, denom)
        size == OutputSize(d, r)
        covered(x) == Expansion(d, x, r) # <<>> =>
            /\ Expansion(d, x, r)[1] * DownsampledWidth(d, x, r) >= size[1]
            /\ Expansion(d, x, r)[2] * DownsampledHeight(d, x, r) >= size[2]
    IN denom # 0 =>
           /\ size = <<TjScaled(d.width, denom), TjScaled(d.height, denom)>>
           /\ (width = 0 \/ size[1] <= width) /\ (height = 0 \/ size[2] <= height)
           /\ \A i \in DOMAIN d.comps : covered(d.comps[i])
           /\ \A format \in Formats, fancy \in BOOLEAN :
                  Deconvertible(d, OutSpace(format)) =>
                      /\ OutComponents(d, OutSpace(format)) = PixelSize(format)
                      /\ Upsampled(d, OutSpace(format), r, fancy)

TurboAgrees(request, d) ==
    /\ request.what = "turbo" =>
           <<d.width, d.height, GetSubsamp(d)>> = <<request.turbo.width, request.turbo.height, request.turbo.subsamp>>
    /\ PowersOfTwo(d) =>
           /\ PlanesAgree(d)
           /\ \A r \in {1, 2, 4, 8}, less \in 0 .. 1 :
                  ScalingAgrees(d, DivideUp(d.width, r) - less, DivideUp(d.height, r))

(* A request of it that is valid is refused for gray pixels in color only. *)
RightlyRefused(request) ==
    \/ request.what = "yuv"
    \/ request.what = "turbo" /\ ~(ValidRequest(request.turbo) /\ request.turbo.quality \in 0 .. 100)
    \/ request.what = "turbo" /\ request.turbo.format = "GRAY" /\ request.turbo.subsamp # GraySamp

(* Whatever was written before with the same compressor and read with the  *)
(* same decompressor, and in whatever pieces the bytes come: at each scan  *)
(* the decompressor has the frame, tables, conditioning and intervals the  *)
(* compressor used for it; a file of tables leaves it all of them; and it  *)
(* never asks for more than was written.  (emit_sof calls a progressive    *)
(* arithmetic image sequential: there is no SOF10; that is left out.)      *)
HeadersAreRead ==
    /\ reader.event # "error"
    /\ reader.hungry => supplied < Len(bytes)
    /\ step > 0 /\ bytes = <<>> => RightlyRefused(Jobs[job][step])
    /\ reader.event = "SOS" =>
        /\ TurboAgrees(Jobs[job][step], decomp)
        /\ \E t \in {told[decomp.scanNo]} :
               FrameAgrees(t.c, decomp) /\ ScanAgrees(t.c, t.scan, decomp) /\ ColorAgrees(t.c, decomp)
    /\ reader.event = "EOI" => decomp.scanNo = Len(told)
    /\ reader.event = "TABLES" =>
           \A t \in Defined(comp) :
               IF t[1] = 2 THEN decomp.quant[t[2]] = comp.quant[t[2]]
               ELSE comp.arith \/ decomp.huff[t] = comp.huff[t]
================================================================================
