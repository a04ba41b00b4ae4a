----------------------------- MODULE JpegParameters -----------------------------
(***************************************************************************)
(* The parameters of a compressor (jcparam.c): the defaults, what follows  *)
(* from the color space, the quantization tables of a quality, and which   *)
(* tables count as written (jcapimin.c).                                   *)
(*                                                                         *)
(* A compressor is a record of the fields of cinfo that the file's headers *)
(* tell.  A quantization table is a sequence of Size values in natural     *)
(* order, a Huffman table is [bits, vals]; a table that is not there is    *)
(* <<>>.  Huffman tables have a class, 0 for DC and 1 for AC.              *)
(***************************************************************************)
EXTENDS Integers, Sequences, FiniteSetsExt, SequencesExt

CONSTANTS
    Size,           \* entries of a quantization table: DCTSIZE2 (64), a few in the model
    Lengths,        \* the longest code (16)
    NumTbls,        \* NUM_QUANT_TBLS and NUM_HUFF_TBLS (4)
    NumArithTbls,   \* NUM_ARITH_TBLS (16)
    BasicTables,    \* std_luminance_quant_tbl, std_chrominance_quant_tbl
    StdHuff         \* the standard Huffman tables of each class: [0 .. 1 -> <<lum, chrom>>]

Least(a, b) == IF a < b THEN a ELSE b

TableNos == 0 .. NumTbls - 1
ArithNos == 0 .. NumArithTbls - 1

(* jpeg_create_compress, and what the client says of its image *)
Compressor(image) ==
    [space |-> image.space, width |-> image.width, height |-> image.height, input |-> image.comps,
     jpegSpace |-> "UNKNOWN", jfif |-> FALSE, adobe |-> FALSE, version |-> <<0, 0>>,
     density |-> <<0, 0, 0>>, precision |-> 0, comps |-> <<>>, arith |-> FALSE, scans |-> <<>>,
     interval |-> 0, inRows |-> 0, lastInterval |-> 0,
     quant |-> [i \in TableNos |-> <<>>], huff |-> [t \in (0 .. 1) \X TableNos |-> <<>>],
     sent |-> {}, L |-> [i \in ArithNos |-> 0], U |-> [i \in ArithNos |-> 0], K |-> [i \in ArithNos |-> 0]]

(* Tables are named by their class, 2 for quantization, and their number.  *)
Defined(c) ==
    {<<2, i>> : i \in {j \in TableNos : c.quant[j] # <<>>}}
    \cup {t \in (0 .. 1) \X TableNos : c.huff[t] # <<>>}

(* jpeg_suppress_tables *)
SuppressTables(c, suppress) == [c EXCEPT !.sent = IF suppress THEN Defined(c) ELSE {}]

-----------------------------------------------------------------------------
(* A percentage of each value, within the range of a table.                *)
Scaled(value, factor, force) ==
    LET percent == (value * factor + 50) \div 100
        whole == IF percent <= 0 THEN 1 ELSE Least(percent, 32767)
    IN IF force THEN Least(whole, 255) ELSE whole

AddQuantTable(c, which, basic, factor, force) ==
    [c EXCEPT !.quant[which] = [i \in 1 .. Size |-> Scaled(basic[i], factor, force)],
              !.sent = @ \ {<<2, which>>}]

SetLinearQuality(c, factor, force) ==
    AddQuantTable(AddQuantTable(c, 0, BasicTables[1], factor, force), 1, BasicTables[2], factor, force)

QualityScaling(quality) ==
    LET q == IF quality <= 0 THEN 1 ELSE Least(quality, 100)
    IN IF q < 50 THEN 5000 \div q ELSE 200 - q * 2

SetQuality(c, quality, force) == SetLinearQuality(c, QualityScaling(quality), force)

AddHuffTable(c, t, table) == [c EXCEPT !.huff[t] = table, !.sent = @ \ {t}]

StdHuffTables(c) ==
    FoldLeft(LAMBDA e, t : AddHuffTable(e, t, StdHuff[t[1]][t[2] + 1]), c,
             <<<<0, 0>>, <<1, 0>>, <<0, 1>>, <<1, 1>>>>)

-----------------------------------------------------------------------------
SetComp(id, h, v, n) == [id |-> id, h |-> h, v |-> v, quant |-> n, dc |-> n, ac |-> n]

Letters(ids) == [i \in DOMAIN ids |-> SetComp(ids[i], 1, 1, 0)]
Luma(id) == SetComp(id, 2, 2, 0)
Chroma == <<SetComp(2, 1, 1, 1), SetComp(3, 1, 1, 1)>>

SetColorspace(c, space) ==
    [c EXCEPT
        !.jpegSpace = space,
        !.jfif = space \in {"GRAYSCALE", "YCbCr"},
        !.adobe = space \in {"RGB", "CMYK", "YCCK"},
        !.comps = CASE space = "GRAYSCALE" -> Letters(<<1>>)
                    [] space = "RGB" -> Letters(<<82, 71, 66>>)
                    [] space = "YCbCr" -> <<Luma(1)>> \o Chroma
                    [] space = "CMYK" -> Letters(<<67, 77, 89, 75>>)
                    [] space = "YCCK" -> <<Luma(1)>> \o Chroma \o <<Luma(4)>>
                    [] space = "UNKNOWN" -> Letters([i \in 1 .. c.input |-> i - 1])]

RgbSpaces ==
    {"RGB", "EXT_RGB", "EXT_RGBX", "EXT_BGR", "EXT_BGRX", "EXT_XBGR", "EXT_XRGB",
     "EXT_RGBA", "EXT_BGRA", "EXT_ABGR", "EXT_ARGB"}

DefaultColorspace(c) == SetColorspace(c, IF c.space \in RgbSpaces THEN "YCbCr" ELSE c.space)

SetDefaults(c) ==
    DefaultColorspace(
        [StdHuffTables(SetQuality(c, 75, TRUE)) EXCEPT
            !.precision = 8, !.scans = <<>>, !.arith = FALSE, !.interval = 0, !.inRows = 0,
            !.L = [i \in ArithNos |-> 0], !.U = [i \in ArithNos |-> 1], !.K = [i \in ArithNos |-> 5],
            !.version = <<1, 1>>, !.density = <<0, 1, 1>>])
=================================================================================
