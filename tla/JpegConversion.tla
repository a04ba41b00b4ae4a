----------------------------- MODULE JpegConversion -----------------------------
(***************************************************************************)
(* Which conversions there are: between color spaces (jccolor.c and        *)
(* jdcolor.c), to fewer samples and back (jcsample.c, jdsample.c,          *)
(* jdmerge.c), and to smaller images (jdmaster.c).  A frame is a record of *)
(* a compressor or a decompressor: both have width, height and comps.      *)
(***************************************************************************)
EXTENDS JpegParameters

CONSTANT BlockSize  \* DCTSIZE (8)

DivideUp(a, b) == (a + b - 1) \div b

RgbPixelSize(space) == IF space \in {"RGB", "EXT_RGB", "EXT_BGR"} THEN 3 ELSE 4

(* The components a space has, of an image with n. *)
ComponentsOf(space, n) ==
    CASE space = "GRAYSCALE" -> 1
      [] space \in RgbSpaces -> RgbPixelSize(space)
      [] space = "YCbCr" -> 3
      [] space \in {"CMYK", "YCCK"} -> 4
      [] OTHER -> n

(* jinit_color_converter, by the space of the file *)
ConvertedFrom(jpegSpace) ==
    CASE jpegSpace = "GRAYSCALE" -> RgbSpaces \cup {"GRAYSCALE", "YCbCr"}
      [] jpegSpace = "RGB" -> RgbSpaces
      [] jpegSpace = "YCbCr" -> RgbSpaces \cup {"YCbCr"}
      [] jpegSpace = "CMYK" -> {"CMYK"}
      [] jpegSpace = "YCCK" -> {"CMYK", "YCCK"}
      [] OTHER -> {jpegSpace}

Convertible(c) ==
    /\ c.input = ComponentsOf(c.space, c.input)
    /\ c.space \in ConvertedFrom(c.jpegSpace)
    /\ Len(c.comps) = ComponentsOf(c.jpegSpace, c.input)

(* jinit_color_deconverter, by the space that is wanted *)
ConvertedTo(out) ==
    CASE out = "GRAYSCALE" -> {"GRAYSCALE", "YCbCr"}
      [] out \in RgbSpaces -> {"YCbCr", "GRAYSCALE", "RGB"}
      [] out = "CMYK" -> {"YCCK", "CMYK"}
      [] OTHER -> {out}

Deconvertible(d, out) ==
    Len(d.comps) = ComponentsOf(d.jpegSpace, Len(d.comps)) /\ d.jpegSpace \in ConvertedTo(out)

OutComponents(d, out) == ComponentsOf(out, Len(d.comps))

(* Gray output needs the first component only. *)
Needed(d, out) == IF out = "GRAYSCALE" THEN {1} ELSE DOMAIN d.comps

-----------------------------------------------------------------------------
Widest(f) == Max({f.comps[i].h : i \in DOMAIN f.comps})
Tallest(f) == Max({f.comps[i].v : i \in DOMAIN f.comps})

BlocksAcross(f, x) == DivideUp(f.width * x.h, Widest(f) * BlockSize)
BlocksDown(f, x) == DivideUp(f.height * x.v, Tallest(f) * BlockSize)

(* Every group of samples is a whole number of smaller ones. *)
SamplesFit(c) == \A i \in DOMAIN c.comps : Widest(c) % c.comps[i].h = 0 /\ Tallest(c) % c.comps[i].v = 0

(* initial_setup, and the modules of jinit_compress_master *)
Accepted(c) ==
    /\ c.width \in 1 .. 65500 /\ c.height \in 1 .. 65500 /\ c.precision = 8 /\ c.input > 0
    /\ Len(c.comps) \in 1 .. 10
    /\ \A i \in DOMAIN c.comps : c.comps[i].h \in 1 .. 4 /\ c.comps[i].v \in 1 .. 4
    /\ Convertible(c) /\ SamplesFit(c)

-----------------------------------------------------------------------------
(* An image may be reduced by the inverse DCT: by 8, 4 or 2, and then a    *)
(* block gives fewer samples.                                              *)
Reduction(num, denom) == Max({1} \cup {r \in {2, 4, 8} : num * r <= denom})
OutputSize(d, r) == <<DivideUp(d.width, r), DivideUp(d.height, r)>>

(* Components with fewer samples are reduced less instead of upsampled.    *)
BlockSamples(d, x, r) ==
    LET least == BlockSize \div r
        fits(s) == x.h * s <= Widest(d) * least /\ x.v * s <= Tallest(d) * least
    IN Max({least} \cup {s \in {2 * least, 4 * least, 8 * least} : s <= BlockSize /\ fits(s)})

GroupWidth(d, x, r) == (x.h * BlockSamples(d, x, r)) \div (BlockSize \div r)
GroupHeight(d, x, r) == (x.v * BlockSamples(d, x, r)) \div (BlockSize \div r)

DownsampledWidth(d, x, r) == DivideUp(d.width * x.h * BlockSamples(d, x, r), Widest(d) * BlockSize)
DownsampledHeight(d, x, r) == DivideUp(d.height * x.v * BlockSamples(d, x, r), Tallest(d) * BlockSize)

(* use_merged_upsample, *)
UseMergedUpsample(d, out, r, fancy) ==
    /\ ~fancy /\ d.jpegSpace = "YCbCr" /\ Len(d.comps) = 3 /\ out \in RgbSpaces
    /\ [i \in 1 .. 3 |-> d.comps[i].h] = <<2, 1, 1>>
    /\ d.comps[1].v <= 2 /\ d.comps[2].v = 1 /\ d.comps[3].v = 1
    /\ \A i \in 1 .. 3 : BlockSamples(d, d.comps[i], r) = BlockSize \div r

(* and otherwise jinit_upsampler: the pixels for each sample, <<>> if they *)
(* are not a whole number.                                                 *)
Expansion(d, x, r) ==
    IF Widest(d) % GroupWidth(d, x, r) = 0 /\ Tallest(d) % GroupHeight(d, x, r) = 0
    THEN <<Widest(d) \div GroupWidth(d, x, r), Tallest(d) \div GroupHeight(d, x, r)>> ELSE <<>>

Upsampled(d, out, r, fancy) ==
    UseMergedUpsample(d, out, r, fancy) \/ \A i \in Needed(d, out) : Expansion(d, d.comps[i], r) # <<>>
=================================================================================
