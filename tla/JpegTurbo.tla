------------------------------- MODULE JpegTurbo --------------------------------
(***************************************************************************)
(* The TurboJPEG interface (turbojpeg.c), for a client that has an image   *)
(* in one of eleven pixel formats and wants one of five subsamplings: the  *)
(* parameters it sets in a compressor, the subsampling and the scaling it  *)
(* finds for a decompressor, and the planes of a YUV image.                *)
(***************************************************************************)
EXTENDS JpegConversion

Formats == {"RGB", "BGR", "RGBX", "BGRX", "XBGR", "XRGB", "GRAY", "RGBA", "BGRA", "ABGR", "ARGB"}

PixelSize(format) == CASE format = "GRAY" -> 1 [] format \in {"RGB", "BGR"} -> 3 [] OTHER -> 4

(* 4:4:4, 4:2:2, 4:2:0, gray, 4:4:0 *)
Subsamps == 0 .. 4
GraySamp == 3
McuWidth == (0 :> 8) @@ (1 :> 16) @@ (2 :> 16) @@ (3 :> 8) @@ (4 :> 8)
McuHeight == (0 :> 8) @@ (1 :> 8) @@ (2 :> 16) @@ (3 :> 8) @@ (4 :> 16)

(* To compress, alpha is not looked at. *)
InSpace(format) ==
    CASE format = "GRAY" -> "GRAYSCALE"
      [] format = "RGB" -> "EXT_RGB"
      [] format = "BGR" -> "EXT_BGR"
      [] format \in {"RGBX", "RGBA"} -> "EXT_RGBX"
      [] format \in {"BGRX", "BGRA"} -> "EXT_BGRX"
      [] format \in {"XRGB", "ARGB"} -> "EXT_XRGB"
      [] format \in {"XBGR", "ABGR"} -> "EXT_XBGR"

SetCompDefaults(c, format, subsamp, quality) ==
    LET set == SetDefaults([c EXCEPT !.space = InSpace(format), !.input = PixelSize(format)])
        graded == IF quality >= 0 THEN SetQuality(set, quality, TRUE) ELSE set
        color == SetColorspace(graded, IF subsamp = GraySamp THEN "GRAYSCALE" ELSE "YCbCr")
    IN [color EXCEPT !.comps =
            [i \in DOMAIN @ |-> [@[i] EXCEPT !.h = IF i = 1 THEN McuWidth[subsamp] \div 8 ELSE 1,
                                             !.v = IF i = 1 THEN McuHeight[subsamp] \div 8 ELSE 1]]]

(* To decompress, alpha is filled in. *)
OutSpace(format) ==
    CASE format = "GRAY" -> "GRAYSCALE"
      [] format = "RGB" -> "EXT_RGB" [] format = "BGR" -> "EXT_BGR"
      [] format = "RGBX" -> "EXT_RGBX" [] format = "BGRX" -> "EXT_BGRX"
      [] format = "XRGB" -> "EXT_XRGB" [] format = "XBGR" -> "EXT_XBGR"
      [] format = "RGBA" -> "EXT_RGBA" [] format = "BGRA" -> "EXT_BGRA"
      [] format = "ARGB" -> "EXT_ARGB" [] format = "ABGR" -> "EXT_ABGR"

(* The first that has the components and factors of the frame, or -1.      *)
GetSubsamp(d) ==
    LET matches(s) ==
            /\ Len(d.comps) = (IF s = GraySamp THEN 1 ELSE 3)
            /\ d.comps[1].h = McuWidth[s] \div 8 /\ d.comps[1].v = McuHeight[s] \div 8
            /\ \A k \in 2 .. Len(d.comps) : d.comps[k].h = 1 /\ d.comps[k].v = 1
        found == {s \in Subsamps : matches(s)}
    IN IF found = {} THEN -1 ELSE Min(found)

-----------------------------------------------------------------------------
Pad(v, p) == DivideUp(v, p) * p

BufSizeYuv(width, height, subsamp) ==
    LET pw == Pad(width, McuWidth[subsamp] \div 8)
        ph == Pad(height, McuHeight[subsamp] \div 8)
        chroma == Pad((pw * 8) \div McuWidth[subsamp], 4) * ((ph * 8) \div McuHeight[subsamp]) * 2
    IN Pad(pw, 4) * ph + (IF subsamp = GraySamp THEN 0 ELSE chroma)

(* The plane of a component in a YUV image. *)
PlaneWidth(f, x) == (Pad(f.width, Widest(f)) * x.h) \div Widest(f)
PlaneHeight(f, x) == (Pad(f.height, Tallest(f)) * x.v) \div Tallest(f)
PlaneBytes(f) ==
    FoldLeft(LAMBDA sum, x : sum + Pad(PlaneWidth(f, x), 4) * PlaneHeight(f, x), 0, f.comps)

(* Decoding to planes takes whole rows of blocks, through another buffer   *)
(* when the blocks of some component are not its plane: [from, to] rows of *)
(* the plane are written.                                                  *)
DirectPlanes(d) ==
    \A i \in DOMAIN d.comps :
        /\ BlocksAcross(d, d.comps[i]) * BlockSize = PlaneWidth(d, d.comps[i])
        /\ BlocksDown(d, d.comps[i]) * BlockSize = PlaneHeight(d, d.comps[i])

RowsDecoded(d, x) ==
    LET groups == DivideUp(d.height, Tallest(d) * BlockSize)
        rows == BlocksDown(d, x) * BlockSize
    IN IF DirectPlanes(d) THEN rows
       ELSE Least(rows, Least(groups * x.v * BlockSize, PlaneHeight(d, x)))

-----------------------------------------------------------------------------
(* tjDecompress2: the largest of the scalings that fits, 0 if none does.   *)
(* Wanting 0 is wanting the image's own width or height.                   *)
Scalings == {1, 2, 4, 8}
TjScaled(side, denom) == (side + denom - 1) \div denom

ScalingFor(d, width, height) ==
    LET fits == {r \in Scalings : /\ width = 0 \/ TjScaled(d.width, r) <= width
                                  /\ height = 0 \/ TjScaled(d.height, r) <= height}
    IN IF fits = {} THEN 0 ELSE Min(fits)
=================================================================================
