------------------------------ MODULE JpegScans ------------------------------
(***************************************************************************)
(* An image's coefficients are coded, scan by scan, and decoded again.     *)
(*                                                                         *)
(* A scan is coded twice when its Huffman tables are made for it: once to  *)
(* count symbols and once to put them out (JpegEntropy); between the two   *)
(* JpegHuffman makes the tables.  The decoder is given the bytes in pieces *)
(* and takes an MCU up again when they did not last.  With arithmetic      *)
(* coding (JpegArith) there are no tables, and all bytes must be there.    *)
(***************************************************************************)
EXTENDS JpegHuffman, JpegArith

CONSTANTS
    Jobs,       \* images and the scans they are coded in
    Counts,     \* counts tables are made for without an image
    Pieces,     \* numbers of bytes the source gives at a time
    FirstBand   \* the last coefficient of the band sent first (5)

VARIABLES
    job,        \* the image, its components' blocks in an MCU, the scans
    scan,       \* number of the scan
    mcu,        \* MCUs of it done
    stats,      \* counts of each table
    todo,       \* tables still to make
    table,      \* the tables made
    enc, out,   \* encoder, and the bytes it made of this scan
    dec,        \* decoder
    got,        \* the coefficients it has
    coefBits    \* coef_bits: the lowest bit of each coefficient it was sent

coderVars == <<stats, todo, table, enc, out>>
decoderVars == <<dec, got, coefBits>>
scanVars == <<job, scan, mcu, coderVars, decoderVars>>
vars == <<phase, huffVars, scanVars>>

Sc == job.scans[scan]
Comps == DOMAIN job.image
Zeros == [k \in 0 .. LastCoef |-> 0]

(* The blocks of MCU m: of one component one, of several h of each. *)
BlocksOf(m) ==
    IF Len(Sc.comps) = 1 THEN << <<Sc.comps[1], m>> >>
    ELSE FlattenSeq([j \in DOMAIN Sc.comps |->
            LET c == Sc.comps[j] IN [b \in 1 .. job.h[c] |-> <<c, (m - 1) * job.h[c] + b>>]])
Mcus == LET c == Sc.comps[1] IN
        IF Len(Sc.comps) = 1 THEN Len(job.image[c]) ELSE Len(job.image[c]) \div job.h[c]
McuOf(image) == [j \in DOMAIN BlocksOf(mcu + 1) |->
                    LET b == BlocksOf(mcu + 1)[j] IN <<b[1], image[b[1]][b[2]]>>]

(* The tables a scan needs. *)
Needs(sc) ==
    LET dc == [j \in DOMAIN sc.comps |-> DcTable(sc.comps[j])]
        ac == [j \in DOMAIN sc.comps |-> AcTable(sc.comps[j])] IN
    ToSet(CASE sc.arith -> <<>>
            [] ~sc.arith /\ ~sc.progressive -> dc \o ac
            [] ~sc.arith /\ sc.progressive /\ sc.Ss = 0 -> IF sc.Ah = 0 THEN dc ELSE <<>>
            [] OTHER -> ac)

Idle == [arith |-> FALSE, progressive |-> FALSE, comps |-> <<1>>, Ss |-> 0, Se |-> 0, Ah |-> 0,
         Al |-> 0, interval |-> 0]

Init ==
    /\ NoTable /\ scan = 1 /\ mcu = 0 /\ table = <<>>
    /\ enc = Encoder(Idle) /\ out = NoBytes /\ dec = Decoder(Idle)
    /\ \/ /\ job \in Jobs /\ phase = "scan" /\ stats = <<>> /\ todo = {}
          /\ got = [c \in Comps |-> [b \in DOMAIN job.image[c] |-> Zeros]]
          /\ coefBits = [c \in Comps |-> [k \in 0 .. LastCoef |-> -1]]
       \/ /\ job = [image |-> <<>>, h |-> <<>>, scans |-> <<>>] /\ phase = "tables"
          /\ \E c \in Counts : stats = (NoSymbol :> c)
          /\ todo = {NoSymbol} /\ got = <<>> /\ coefBits = <<>>

-----------------------------------------------------------------------------
(* jpeg_simple_progression: the scans of a progressive image.              *)

FillAScan(c, Ss, Se, Ah, Al) ==
    <<[arith |-> FALSE, progressive |-> TRUE, comps |-> <<c>>,
       Ss |-> Ss, Se |-> Se, Ah |-> Ah, Al |-> Al, interval |-> 0]>>
FillScans(n, Ss, Se, Ah, Al) == FlattenSeq([c \in 1 .. n |-> FillAScan(c, Ss, Se, Ah, Al)])
FillDcScans(n, Ah, Al) ==
    IF n <= 4 THEN <<[FillAScan(1, 0, 0, Ah, Al)[1] EXCEPT !.comps = [c \in 1 .. n |-> c]]>>
    ELSE FillScans(n, 0, 0, Ah, Al)

NumScans(n, ycc) == CASE n = 3 /\ ycc -> 10
                      [] ~(n = 3 /\ ycc) /\ n > 4 -> 6 * n
                      [] OTHER -> 2 + 4 * n

SimpleProgression(n, ycc) ==
    LET colour == FillDcScans(n, 0, 1) \o FillAScan(1, 1, FirstBand, 0, 2)
                  \o FillAScan(3, 1, LastCoef, 0, 1) \o FillAScan(2, 1, LastCoef, 0, 1)
                  \o FillAScan(1, FirstBand + 1, LastCoef, 0, 2) \o FillAScan(1, 1, LastCoef, 2, 1)
                  \o FillDcScans(n, 1, 0)
                  \o FillAScan(3, 1, LastCoef, 1, 0) \o FillAScan(2, 1, LastCoef, 1, 0)
                  \o FillAScan(1, 1, LastCoef, 1, 0)
        other == FillDcScans(n, 0, 1) \o FillScans(n, 1, FirstBand, 0, 2)
                 \o FillScans(n, FirstBand + 1, LastCoef, 0, 2) \o FillScans(n, 1, LastCoef, 2, 1)
                 \o FillDcScans(n, 1, 0) \o FillScans(n, 1, LastCoef, 1, 0) IN
    SubSeq(IF n = 3 /\ ycc THEN colour ELSE other, 1, NumScans(n, ycc))

-----------------------------------------------------------------------------
(* The encoder.                                                            *)

(* start_pass: tables are made for the scan, if it needs any. *)
StartPass ==
    /\ phase = "scan"
    /\ phase' = IF Needs(Sc) = {} THEN "encode" ELSE "gather"
    /\ mcu' = 0 /\ enc' = (IF Sc.arith THEN ArithEncoder(Sc) ELSE Encoder(Sc)) /\ out' = NoBytes
    /\ stats' = [t \in Needs(Sc) |-> Nothing]
    /\ UNCHANGED <<job, scan, todo, table, decoderVars, huffVars>>

Counted(items) ==
    FoldLeft(LAMBDA f, item : IF item[1] \in DOMAIN f THEN [f EXCEPT ![item[1]][item[2]] = @ + 1] ELSE f,
             stats, items)

GatherMcu ==
    /\ phase = "gather" /\ mcu < Mcus
    /\ LET e == EncodeMcu(enc, Sc, McuOf(job.image)) IN
       /\ enc' = [e EXCEPT !.items = <<>>]
       /\ stats' = Counted(e.items)
       /\ mcu' = mcu + 1
    /\ UNCHANGED <<phase, job, scan, todo, table, out, decoderVars, huffVars>>

FinishPassGather ==
    /\ phase = "gather" /\ mcu = Mcus
    /\ stats' = Counted(FinishItems(enc, Sc).items)
    /\ phase' = "tables" /\ todo' = Needs(Sc)
    /\ UNCHANGED <<job, scan, mcu, table, enc, out, decoderVars, huffVars>>

NextTable ==
    /\ phase = "tables"
    /\ BeginTable(stats[CHOOSE t \in todo : TRUE])
    /\ UNCHANGED scanVars

KeepTable ==
    /\ phase = "done"
    /\ LET t == CHOOSE u \in todo : TRUE IN
       /\ table' = (t :> [ehufsi |-> ehufsi, ehufco |-> ehufco, huffval |-> huffval,
                          huffsize |-> Huffsize(bits), huffcode |-> Huffcode(Huffsize(bits))]) @@ table
       /\ todo' = todo \ {t}
       /\ phase' = IF todo # {t} THEN "tables" ELSE IF job.scans = <<>> THEN "end" ELSE "encode"
    /\ IF job.scans = <<>> THEN UNCHANGED <<mcu, enc>> ELSE mcu' = 0 /\ enc' = Encoder(Sc)
    /\ UNCHANGED <<job, scan, stats, out, decoderVars, huffVars>>

Put(items) == FoldLeft(LAMBDA o, item : PutItem(o, item, table), out, items)

OutputMcu ==
    /\ phase = "encode" /\ mcu < Mcus /\ ~Sc.arith
    /\ LET e == EncodeMcu(enc, Sc, McuOf(job.image)) IN
       /\ enc' = [e EXCEPT !.items = <<>>]
       /\ out' = Put(e.items)
       /\ mcu' = mcu + 1
    /\ UNCHANGED <<phase, job, scan, stats, todo, table, decoderVars, huffVars>>

OutputArithMcu ==
    /\ phase = "encode" /\ mcu < Mcus /\ Sc.arith
    /\ LET e == ArithEncodeMcu(enc, Sc, McuOf(job.image)) IN
       /\ enc' = [e EXCEPT !.bytes = <<>>]
       /\ out' = [out EXCEPT !.bytes = @ \o e.bytes]
       /\ mcu' = mcu + 1
    /\ UNCHANGED <<phase, job, scan, stats, todo, table, decoderVars, huffVars>>

-----------------------------------------------------------------------------
(* The decoder.                                                            *)

(* Parameters of a progressive scan that end it, and those that only warn. *)
BadScan(sc) ==
    \/ IF sc.Ss = 0 THEN sc.Se # 0 ELSE sc.Ss > sc.Se \/ sc.Se > LastCoef \/ Len(sc.comps) # 1
    \/ sc.Ah # 0 /\ sc.Al # sc.Ah - 1
    \/ sc.Al > 13
Bogus(sc) ==
    \E c \in ToSet(sc.comps) :
        \/ sc.Ss > 0 /\ coefBits[c][0] < 0
        \/ \E k \in sc.Ss .. sc.Se : sc.Ah # Max({0, coefBits[c][k]})

FinishedBytes ==
    IF Sc.arith THEN out.bytes \o ArithFinish(enc).bytes
    ELSE FlushBits(Put(FinishItems(enc, Sc).items)).bytes

(* finish_pass; behind the scan there is the next marker, 0xDA or 0xD9.    *)
(* Then the decoder starts with it.                                        *)
FinishPass ==
    /\ phase = "encode" /\ mcu = Mcus
    /\ LET bytes == FinishedBytes \o <<255, IF scan = Len(job.scans) THEN 217 ELSE 218>>
           d == IF Sc.arith THEN ArithDecoder(Sc, bytes) ELSE Decoder(Sc) IN
       /\ out' = [out EXCEPT !.bytes = bytes]
       /\ dec' = [d EXCEPT !.warned = Sc.progressive /\ Bogus(Sc)]
    /\ phase' = IF Sc.progressive /\ BadScan(Sc) THEN "refused" ELSE "decode"
    /\ coefBits' = [c \in Comps |->
           [k \in 0 .. LastCoef |->
               IF c \in ToSet(Sc.comps) /\ k \in Sc.Ss .. Sc.Se THEN Sc.Al ELSE coefBits[c][k]]]
    /\ mcu' = 0
    /\ UNCHANGED <<job, scan, stats, todo, table, enc, got, huffVars>>

(* The coefficients decoded so far are in their place, even when the rest  *)
(* of the MCU is not there.                                                *)
Stored(blocks) ==
    [c \in Comps |-> [b \in DOMAIN got[c] |->
        LET j == {n \in DOMAIN blocks : BlocksOf(mcu + 1)[n] = <<c, b>>} IN
        IF j = {} THEN got[c][b] ELSE blocks[Min(j)][2]]]

DecodesMcu ==
    /\ phase = "decode" /\ mcu < Mcus /\ ~Sc.arith
    /\ \E d \in {IF Sc.interval > 0 /\ dec.togo = 0 THEN ProcessRestart(dec, Sc) ELSE dec} :
       \E f \in {DecodeMcu([d EXCEPT !.blocks = McuOf(got), !.new = {}], Sc, table)} :
       LET keep == [d EXCEPT !.marker = f.marker, !.short = f.short, !.warned = f.warned] IN
       IF ~d.ok
       THEN phase' = "wait" /\ dec' = [d EXCEPT !.ok = TRUE] /\ UNCHANGED <<mcu, got>>
       ELSE /\ got' = Stored(f.blocks)
            /\ IF f.ok THEN dec' = [f EXCEPT !.blocks = <<>>, !.new = {}, !.val = 0, !.k = 0, !.togo = @ - 1]
                       ELSE dec' = keep
            /\ mcu' = IF f.ok THEN mcu + 1 ELSE mcu
            /\ phase' = IF f.ok THEN "decode" ELSE "wait"
    /\ UNCHANGED <<job, scan, coefBits, coderVars, huffVars>>

DecodesArithMcu ==
    /\ phase = "decode" /\ mcu < Mcus /\ Sc.arith
    /\ \E d \in {IF Sc.interval > 0 /\ dec.togo = 0 THEN ArithProcessRestart(dec, Sc) ELSE dec} :
       \E f \in {ArithDecodeMcu([d EXCEPT !.blocks = McuOf(got)], Sc)} :
       /\ got' = Stored(f.blocks)
       /\ dec' = [f EXCEPT !.blocks = <<>>, !.val = 0, !.togo = @ - 1]
       /\ mcu' = mcu + 1
    /\ UNCHANGED <<phase, job, scan, coefBits, coderVars, huffVars>>

(* The source has some more bytes. *)
Supply ==
    /\ phase = "wait" /\ Len(dec.data) < Len(out.bytes)
    /\ \E n \in Pieces :
        dec' = [dec EXCEPT !.data = SubSeq(out.bytes, 1, Min({Len(dec.data) + n, Len(out.bytes)}))]
    /\ phase' = "decode"
    /\ UNCHANGED <<job, scan, mcu, got, coefBits, coderVars, huffVars>>

(* After the last MCU the marker behind the scan is read. *)
FinishInputPass ==
    /\ phase = "decode" /\ mcu = Mcus
    /\ LET d == NextMarker(dec) IN
       IF ~d.ok
       THEN phase' = "wait" /\ UNCHANGED <<scan, dec>>
       ELSE /\ scan' = scan + 1 /\ dec' = d
            /\ phase' = IF scan = Len(job.scans) THEN "end" ELSE "scan"
    /\ UNCHANGED <<job, mcu, got, coefBits, coderVars, huffVars>>

End == phase = "end" /\ UNCHANGED vars

Next ==
    \/ StartPass \/ GatherMcu \/ FinishPassGather
    \/ NextTable \/ (MakeTable /\ UNCHANGED scanVars) \/ KeepTable
    \/ OutputMcu \/ OutputArithMcu \/ FinishPass
    \/ DecodesMcu \/ DecodesArithMcu \/ Supply \/ FinishInputPass \/ End

Spec == Init /\ [][Next]_vars

-----------------------------------------------------------------------------
(* A coefficient without the bits that are not sent yet: of a DC           *)
(* coefficient all bits are shifted, of others those of the magnitude.     *)
Approx(x, k, Al) == IF k = 0 THEN Shifted(x, Al) * 2^Al ELSE Transformed(x, Al) * 2^Al

(* What is known of a coefficient when n scans are done. *)
Known(c, b, k, n) ==
    LET sent == {s \in 1 .. n : c \in ToSet(job.scans[s].comps) /\ k \in job.scans[s].Ss .. job.scans[s].Se} IN
    IF sent = {} THEN 0 ELSE Approx(job.image[c][b][k], k, job.scans[Max(sent)].Al)

(* Blocks of this scan that are decoded, and the one that is. *)
DoneBlocks == UNION {ToSet(BlocksOf(m)) : m \in 1 .. mcu}
OpenBlocks == IF mcu < Mcus THEN ToSet(BlocksOf(mcu + 1)) ELSE {}

(* The decoder has, of each coefficient, the bits that were sent, whatever *)
(* was cut, put off or taken up again; of an MCU it had to give up some    *)
(* coefficients may be a scan ahead.  It never asks for bytes behind the   *)
(* marker that ends the scan; nothing is refused, warned of or written     *)
(* behind a buffer.  At the end it has the image.  (jdphuff.c: "In case    *)
(* of suspension, we exit WITHOUT updating them"; jcphuff.c: "overflow of  *)
(* the correction bit buffer during the next MCU".)                        *)
ScansAreRight ==
    /\ phase # "refused" /\ ~enc.failed /\ ~out.failed /\ ~dec.warned
    /\ phase = "end" => got = job.image
    /\ phase = "wait" => Len(dec.data) < Len(out.bytes)
    /\ phase \in {"decode", "wait"} =>
        \A c \in Comps : \A b \in DOMAIN job.image[c] : \A k \in 0 .. LastCoef :
            LET before == Known(c, b, k, scan - 1)
                after == Known(c, b, k, scan) IN
            \/ <<c, b>> \in DoneBlocks /\ got[c][b][k] = after
            \/ <<c, b>> \in OpenBlocks /\ got[c][b][k] \in {before, after}
            \/ <<c, b>> \notin DoneBlocks /\ got[c][b][k] = before
=============================================================================
