---------------------------- MODULE JpegTransform ----------------------------
(***************************************************************************)
(* Lossless transforms of jni/: transupp.c moves blocks of coefficients    *)
(* from an image read whole to one or more images, as jpegtran.c and       *)
(* tjTransform of turbojpeg.c drive it, with jctrans.c (the parameters     *)
(* copied, and MCUs of the moved blocks).                                  *)
(*                                                                         *)
(* Within a block a mirror is a change of sign of the odd columns or rows, *)
(* for the odd cosines are odd about the middle of the block: Basis is any *)
(* function that is.  Blocks that share an iMCU with pixels that do not    *)
(* exist, at the right and bottom edge, cannot be mirrored and stay there. *)
(***************************************************************************)
EXTENDS Integers, FiniteSets, SequencesExt

CONSTANTS
    D,              \* DCTSIZE (8 in the code)
    Basis(_, _),    \* the cosine of a frequency at a sample of the block
    Jobs            \* the images, the clients and what they ask for

Index == 0 .. D - 1
Matrices == [Index -> [Index -> Int]]

ASSUME Symmetry ==
    /\ D \in Nat \ {0} /\ D % 2 = 0
    /\ \A k, p \in Index :
           /\ Basis(k, p) \in Int
           /\ Basis(k, D - 1 - p) = IF k % 2 = 0 THEN Basis(k, p) ELSE -Basis(k, p)

(* What a marker is to the code: one of the three it looks into, another   *)
(* APPn, or a comment.  Of an Exif marker there is the sub-directory, and  *)
(* how many of its entries lie in the marker.                              *)
MarkerKinds == {"JFIF", "Exif", "Adobe", "APPn", "COM"}
Markers ==
    [kind : MarkerKinds \ {"Exif"}]
    \cup [kind : {"Exif"}, found : BOOLEAN, room : Nat, sub : Seq([tag : STRING, value : Nat])]

Ops == {"NONE", "FLIP_H", "FLIP_V", "TRANSPOSE", "TRANSVERSE", "ROT_90", "ROT_180", "ROT_270"}
HFlips == {"FLIP_H", "ROT_90", "ROT_180", "TRANSVERSE"}
VFlips == {"FLIP_V", "ROT_270", "ROT_180", "TRANSVERSE"}
Transposes == {"TRANSPOSE", "TRANSVERSE", "ROT_90", "ROT_270"}

Transforms ==
    [op : Ops, crop : [w : Nat, h : Nat, x : Nat, y : Nat, left : BOOLEAN, top : BOOLEAN], trim : BOOLEAN,
     perfect : BOOLEAN, gray : BOOLEAN, filter : {"none", "doubles", "fails"}, output : BOOLEAN]

IsImage(i) ==
    /\ i.width \in Nat \ {0} /\ i.height \in Nat \ {0}
    /\ \A s \in DOMAIN i.tables : i.tables[s] \in Matrices
    /\ i.comps \in Seq([h : 1 .. 4, v : 1 .. 4, table : DOMAIN i.tables, used : Matrices]) \ {<<>>}
    /\ i.markers \in Seq(Markers)

(* jpegtran makes one file of an image; only tjTransform makes several.    *)
ASSUME JobsAssumption ==
    \A j \in Jobs :
        /\ IsImage(j.image)
        /\ j.client \in {"jpegtran", "tjTransform"}
        /\ j.copy \in {"all", "comments", "none"}
        /\ j.transforms \in Seq(Transforms) \ {<<>>}
        /\ j.client = "jpegtran" => Len(j.transforms) = 1

VARIABLES
    job,        \* the image, the client, the markers to copy, the transforms
    pc,         \* where the client is; "done", or "failed"
    nth,        \* the transform at hand
    info,       \* of each transform: its jpeg_transform_info
    coefs,      \* the coefficient arrays of the image
    saved,      \* marker_list
    cinfo,      \* the compressor's parameters
    work,       \* of each transform: workspace_coef_arrays
    at,         \* the component and the row of blocks being moved
    header,     \* what is written before the frame
    outs        \* of each transform: the file it made, if any

transformVars == <<job, pc, nth, info, coefs, saved, cinfo, work, at, header, outs>>

-----------------------------------------------------------------------------
(* Frames: a width, a height and components with their sampling factors.   *)
(* Components count from 1, rows and columns from 0.                       *)

Comps(f) == DOMAIN f.comps
MaxH(f) == Max({f.comps[c].h : c \in Comps(f)})
MaxV(f) == Max({f.comps[c].v : c \in Comps(f)})
DivUp(a, b) == (a + b - 1) \div b
WidthInBlocks(f, c) == DivUp(f.width * f.comps[c].h, MaxH(f) * D)
HeightInBlocks(f, c) == DivUp(f.height * f.comps[c].v, MaxV(f) * D)
Columns(f, c) == DivUp(WidthInBlocks(f, c), f.comps[c].h) * f.comps[c].h
Rows(f, c) == DivUp(HeightInBlocks(f, c), f.comps[c].v) * f.comps[c].v

Image == job.image
Asked == job.transforms[nth]
LastOne == nth = Len(job.transforms)

-----------------------------------------------------------------------------
(* Blocks.                                                                 *)

NegatedColumns(b) == [i \in Index |-> [j \in Index |-> IF j % 2 = 1 THEN -b[i][j] ELSE b[i][j]]]
NegatedRows(b) == [i \in Index |-> [j \in Index |-> IF i % 2 = 1 THEN -b[i][j] ELSE b[i][j]]]
Transposed(b) == [i \in Index |-> [j \in Index |-> b[j][i]]]
Scaled(b, k) == [i \in Index |-> [j \in Index |-> k * b[i][j]]]
Dummy(dc) == [i \in Index |-> [j \in Index |-> IF i + j = 0 THEN dc ELSE 0]]
Unset == <<>>

(* The image's blocks, each unlike any other. *)
ImageBlock(c, y, x) ==
    LET tag == 100 * c + 10 * y + x
        place(i, j) == 1 + D * i + j
    IN [i \in Index |-> [j \in Index |-> tag * place(i, j) * place(i, j) + i + j]]
Coefficients(f) ==
    [c \in Comps(f) |-> [y \in 0 .. Rows(f, c) - 1 |-> [x \in 0 .. Columns(f, c) - 1 |-> ImageBlock(c, y, x)]]]

-----------------------------------------------------------------------------
(* The transforms: block x of row y, from the arrays s of a component.     *)
(* g.w and g.h are the blocks of whole iMCUs across and down the image     *)
(* before it is cropped, g.x and g.y where the crop begins.                *)

DoCrop(s, g, y, x) == s[y + g.y][x + g.x]

DoFlipH(s, g, y, x) ==
    IF x + g.x < g.w THEN NegatedColumns(s[y + g.y][g.w - g.x - x - 1]) ELSE s[y + g.y][x + g.x]

DoFlipV(s, g, y, x) ==
    IF y + g.y < g.h THEN NegatedRows(s[g.h - g.y - y - 1][x + g.x]) ELSE s[y + g.y][x + g.x]

DoTranspose(s, g, y, x) == Transposed(s[x + g.x][y + g.y])

DoRot90(s, g, y, x) ==
    IF x + g.x < g.w THEN Transposed(NegatedRows(s[g.w - g.x - x - 1][y + g.y]))
    ELSE Transposed(s[x + g.x][y + g.y])

DoRot270(s, g, y, x) ==
    IF y + g.y < g.h THEN Transposed(NegatedColumns(s[x + g.x][g.h - g.y - y - 1]))
    ELSE Transposed(s[x + g.x][y + g.y])

DoRot180(s, g, y, x) ==
    LET right == g.w - g.x - x - 1
        down == g.h - g.y - y - 1
    IN IF y + g.y < g.h
       THEN IF x + g.x < g.w THEN NegatedRows(NegatedColumns(s[down][right]))
            ELSE NegatedRows(s[down][x + g.x])
       ELSE IF x + g.x < g.w THEN NegatedColumns(s[y + g.y][right])
            ELSE s[y + g.y][x + g.x]

DoTransverse(s, g, y, x) ==
    LET right == g.w - g.x - x - 1
        down == g.h - g.y - y - 1
    IN IF y + g.y < g.h
       THEN IF x + g.x < g.w THEN Transposed(NegatedRows(NegatedColumns(s[right][down])))
            ELSE Transposed(NegatedColumns(s[x + g.x][down]))
       ELSE IF x + g.x < g.w THEN Transposed(NegatedRows(s[right][y + g.y]))
            ELSE Transposed(s[x + g.x][y + g.y])

(* In place: mirror a row, then move what is kept to the left. *)
DoFlipHNoCrop(row, g, width) ==
    LET mirrored == [x \in DOMAIN row |-> IF x < g.w THEN NegatedColumns(row[g.w - x - 1]) ELSE row[x]]
    IN [x \in DOMAIN row |-> IF g.x > 0 /\ x < width THEN mirrored[x + g.x] ELSE mirrored[x]]

Moved(op, s, g, y, x) ==
    CASE op = "NONE" -> DoCrop(s, g, y, x)
      [] op = "FLIP_H" -> DoFlipH(s, g, y, x)
      [] op = "FLIP_V" -> DoFlipV(s, g, y, x)
      [] op = "TRANSPOSE" -> DoTranspose(s, g, y, x)
      [] op = "TRANSVERSE" -> DoTransverse(s, g, y, x)
      [] op = "ROT_90" -> DoRot90(s, g, y, x)
      [] op = "ROT_180" -> DoRot180(s, g, y, x)
      [] op = "ROT_270" -> DoRot270(s, g, y, x)

-----------------------------------------------------------------------------
(* jtransform_request_workspace.                                           *)

Num(t) == IF t.gray /\ Image.color = "YCbCr" THEN 1 ELSE Len(Image.comps)

(* jtransform_perfect_transform *)
IsPerfect(t) ==
    LET mcuW == (IF Num(t) = 1 THEN 1 ELSE MaxH(Image)) * D
        mcuH == (IF Num(t) = 1 THEN 1 ELSE MaxV(Image)) * D
    IN /\ t.op \in {"FLIP_H", "ROT_270", "TRANSVERSE", "ROT_180"} => Image.width % mcuW = 0
       /\ t.op \in {"FLIP_V", "ROT_90", "TRANSVERSE", "ROT_180"} => Image.height % mcuH = 0

TrimRightEdge(i, full) ==
    LET cols == i.width \div i.mcuW IN
    IF cols > 0 /\ i.x + cols = full \div i.mcuW THEN [i EXCEPT !.width = cols * i.mcuW] ELSE i

TrimBottomEdge(i, full) ==
    LET rows == i.height \div i.mcuH IN
    IF rows > 0 /\ i.y + rows = full \div i.mcuH THEN [i EXCEPT !.height = rows * i.mcuH] ELSE i

(* The size of the image before it is cropped, and of its iMCUs. *)
Uncropped(t) ==
    LET turned == t.op \in Transposes
        one == Num(t) = 1
        h == IF one THEN D ELSE MaxH(Image) * D
        v == IF one THEN D ELSE MaxV(Image) * D
    IN [width |-> IF turned THEN Image.height ELSE Image.width,
        height |-> IF turned THEN Image.width ELSE Image.height,
        mcuW |-> IF turned THEN v ELSE h, mcuH |-> IF turned THEN h ELSE v,
        x |-> 0, y |-> 0, work |-> FALSE]

CropW(t, u) == IF t.crop.w = 0 THEN u.width - t.crop.x ELSE t.crop.w
CropH(t, u) == IF t.crop.h = 0 THEN u.height - t.crop.y ELSE t.crop.h
CropX(t, u) == IF t.crop.left THEN t.crop.x ELSE u.width - CropW(t, u) - t.crop.x
CropY(t, u) == IF t.crop.top THEN t.crop.y ELSE u.height - CropH(t, u) - t.crop.y
NoCrop == [w |-> 0, h |-> 0, x |-> 0, y |-> 0, left |-> TRUE, top |-> TRUE]
Crops(t) == t.crop # NoCrop

BadCrop(t, u) ==
    \/ t.crop.x >= u.width \/ t.crop.x + CropW(t, u) > u.width
    \/ t.crop.y >= u.height \/ t.crop.y + CropH(t, u) > u.height

Cropped(t, u) ==
    [u EXCEPT !.width = CropW(t, u) + (CropX(t, u) % u.mcuW),
              !.height = CropH(t, u) + (CropY(t, u) % u.mcuH),
              !.x = CropX(t, u) \div u.mcuW,
              !.y = CropY(t, u) \div u.mcuH]

(* What do_flip_h_no_crop can do in place needs no workspace, unless the   *)
(* image is still needed as it was.                                        *)
(* Faulty variant: the arrays are flipped in place though others are to be made. *)
NeverSlow(t) == FALSE
SlowHFlip(t) == job.client = "tjTransform" /\ Len(job.transforms) > 1 /\ t.op = "FLIP_H"
Needed(t, i) ==
    CASE t.op = "NONE" -> i.x # 0 \/ i.y # 0
      [] t.op = "FLIP_H" -> i.y # 0 \/ SlowHFlip(t)
      [] OTHER -> TRUE

Requested(t) ==
    LET u == Uncropped(t)
        i == Cropped(t, u)
        right == IF t.trim /\ t.op \in HFlips THEN TrimRightEdge(i, u.width) ELSE i
        edges == IF t.trim /\ t.op \in VFlips THEN TrimBottomEdge(right, u.height) ELSE right
    IN [edges EXCEPT !.work = Needed(t, i)]

(* The sampling factors a component is written with. *)
Factors(t, c) ==
    LET comp == Image.comps[c] IN
    IF Num(t) = 1 THEN [h |-> 1, v |-> 1]
    ELSE IF t.op \in Transposes THEN [h |-> comp.v, v |-> comp.h]
    ELSE [h |-> comp.h, v |-> comp.v]

Workspace(t, i) ==
    [c \in 1 .. Num(t) |->
        [y \in 0 .. DivUp(i.height, i.mcuH) * Factors(t, c).v - 1 |->
            [x \in 0 .. DivUp(i.width, i.mcuW) * Factors(t, c).h - 1 |-> Unset]]]

(* tjTransform asks that a crop begins where an iMCU does. *)
Aligned(t, i) == job.client = "jpegtran" \/ (t.crop.x % i.mcuW = 0 /\ t.crop.y % i.mcuH = 0)

IsRefused(t) ==
    \/ t.perfect /\ ~IsPerfect(t)
    \/ Crops(t) /\ (BadCrop(t, Uncropped(t)) \/ ~Aligned(t, Requested(t)))

-----------------------------------------------------------------------------
(* The calls.                                                              *)

NoInfo == [width |-> 0, height |-> 0, mcuW |-> 0, mcuH |-> 0, x |-> 0, y |-> 0, work |-> FALSE]
NoFrame == [width |-> 0, height |-> 0, comps |-> <<>>, tables |-> <<>>, jfif |-> FALSE, adobe |-> FALSE]

TransformInit ==
    /\ job \in Jobs
    /\ pc = "header" /\ nth = 1
    /\ info = [k \in DOMAIN job.transforms |-> NoInfo]
    /\ work = [k \in DOMAIN job.transforms |-> <<>>]
    /\ coefs = <<>> /\ saved = <<>> /\ cinfo = NoFrame
    /\ at = [c |-> 1, row |-> 0] /\ header = <<>>
    /\ outs = [k \in DOMAIN job.transforms |-> <<>>]

Fail ==
    /\ pc' = "failed"
    /\ UNCHANGED <<job, nth, info, coefs, saved, cinfo, work, at, header, outs>>

(* getSubsamp: the layouts TurboJPEG knows. *)
KnownSubsampling ==
    /\ Len(Image.comps) \in {1, 3}
    /\ <<Image.comps[1].h, Image.comps[1].v>> \in
           (IF Len(Image.comps) = 1 THEN {<<1, 1>>} ELSE {<<1, 1>>, <<2, 1>>, <<2, 2>>, <<1, 2>>})
    /\ \A c \in Comps(Image) \ {1} : Image.comps[c].h = 1 /\ Image.comps[c].v = 1

(* The markers of some kinds, in their order.                              *)
Selected(markers, kinds) ==
    LET upTo[k \in 0 .. Len(markers)] ==
            IF k = 0 THEN <<>>
            ELSE IF markers[k].kind \in kinds THEN Append(upTo[k - 1], markers[k]) ELSE upTo[k - 1]
    IN upTo[Len(markers)]

(* jcopy_markers_setup *)
SavedKinds ==
    CASE job.copy = "all" -> MarkerKinds
      [] job.copy = "comments" -> {"COM"}
      [] job.copy = "none" -> {}

ReadHeader ==
    /\ pc = "header"
    /\ IF job.client = "tjTransform" /\ ~KnownSubsampling THEN Fail
       ELSE /\ pc' = "request"
            /\ saved' = Selected(Image.markers, SavedKinds)
            /\ UNCHANGED <<job, nth, info, coefs, cinfo, work, at, header, outs>>

RequestWorkspace ==
    /\ pc = "request"
    /\ IF IsRefused(Asked) THEN Fail
       ELSE /\ info' = [info EXCEPT ![nth] = Requested(Asked)]
            /\ work' = [work EXCEPT ![nth] =
                   IF Requested(Asked).work THEN Workspace(Asked, Requested(Asked)) ELSE <<>>]
            /\ pc' = IF LastOne THEN "read" ELSE "request"
            /\ nth' = IF LastOne THEN 1 ELSE nth + 1
            /\ UNCHANGED <<job, coefs, saved, cinfo, at, header, outs>>

ReadCoefficients ==
    /\ pc = "read"
    /\ coefs' = Coefficients(Image)
    /\ pc' = "adjust"
    /\ UNCHANGED <<job, nth, info, saved, cinfo, work, at, header, outs>>

(* jpeg_copy_critical_parameters *)
Copied ==
    [width |-> Image.width, height |-> Image.height,
     comps |-> [c \in Comps(Image) |->
                   [h |-> Image.comps[c].h, v |-> Image.comps[c].v, table |-> Image.comps[c].table]],
     tables |-> Image.tables,
     jfif |-> Image.color \in {"gray", "YCbCr"}, adobe |-> Image.color \in {"RGB", "CMYK", "YCCK"}]

(* The file used a slot for another table after the component's first scan. *)
Mismatched == \E c \in Comps(Image) : Image.comps[c].used # Image.tables[Image.comps[c].table]

CanForceGray ==
    /\ Image.color \in {"gray", "YCbCr"}
    /\ Image.comps[1].h = MaxH(Image) /\ Image.comps[1].v = MaxV(Image)

OneComponent(f) == [f EXCEPT !.comps = <<[h |-> 1, v |-> 1, table |-> f.comps[1].table]>>]

(* transpose_critical_parameters *)
TurnedParameters(f) ==
    [f EXCEPT !.comps = [c \in Comps(f) |-> [f.comps[c] EXCEPT !.h = f.comps[c].v, !.v = f.comps[c].h]],
              !.tables = [s \in DOMAIN f.tables |-> Transposed(f.tables[s])]]

(* adjust_exif_parameters: of the entries of the sub-directory those that  *)
(* are there and tell the size.                                            *)
AdjustedExif(exif, width, height) ==
    IF ~exif.found \/ Len(exif.sub) < 2 THEN exif
    ELSE [exif EXCEPT !.sub = [k \in DOMAIN exif.sub |->
             IF k > exif.room \/ exif.sub[k].tag \notin {"width", "height"} THEN exif.sub[k]
             ELSE [exif.sub[k] EXCEPT !.value = IF exif.sub[k].tag = "width" THEN width ELSE height]]]

(* ... and jtransform_adjust_parameters *)
AdjustParameters ==
    LET i == info[nth]
        one == IF Num(Asked) = 1 THEN OneComponent(Copied) ELSE Copied
        sized == [one EXCEPT !.width = i.width, !.height = i.height]
        turned == IF Asked.op \in Transposes THEN TurnedParameters(sized) ELSE sized
        exif == Len(saved) > 0 /\ saved[1].kind = "Exif"
        resized == i.width # Image.width \/ i.height # Image.height
    IN /\ pc = "adjust"
       /\ IF Mismatched \/ (Asked.gray /\ ~CanForceGray) THEN Fail
          ELSE /\ cinfo' = [turned EXCEPT !.jfif = @ /\ ~exif]
               /\ saved' = IF exif /\ resized
                           THEN [saved EXCEPT ![1] = AdjustedExif(@, i.width, i.height)] ELSE saved
               /\ pc' = "write"
               /\ UNCHANGED <<job, nth, info, coefs, work, at, header, outs>>

(* Faulty variant: only JFIF is looked for. *)
RejectedJfif == IF cinfo.jfif THEN {"JFIF"} ELSE {}

(* jcopy_markers_execute leaves out what the compressor wrote itself. *)
Rejected == (IF cinfo.jfif THEN {"JFIF"} ELSE {}) \cup (IF cinfo.adobe THEN {"Adobe"} ELSE {})

WriteCoefficients ==
    /\ pc = "write"
    /\ header' = IF Asked.output
                 THEN (IF cinfo.jfif THEN <<[kind |-> "JFIF"]>> ELSE <<>>)
                      \o (IF cinfo.adobe THEN <<[kind |-> "Adobe"]>> ELSE <<>>)
                      \o Selected(saved, MarkerKinds \ Rejected)
                 ELSE <<>>
    /\ pc' = "move" /\ at' = [c |-> 1, row |-> 0]
    /\ UNCHANGED <<job, nth, info, coefs, saved, cinfo, work, outs>>

(* The blocks of whole iMCUs, of the image as it lies after the transform. *)
Geometry(c) ==
    LET turned == Asked.op \in Transposes
        width == IF turned THEN Image.height ELSE Image.width
        height == IF turned THEN Image.width ELSE Image.height
        h == cinfo.comps[c].h
        v == cinfo.comps[c].v
    IN [w |-> (width \div (MaxH(cinfo) * D)) * h, h |-> (height \div (MaxV(cinfo) * D)) * v,
        x |-> info[nth].x * h, y |-> info[nth].y * v]

(* Transposes do whole iMCUs, the others only the blocks of the image. *)
Reach(c) == IF Asked.op \in Transposes THEN Columns(cinfo, c) ELSE WidthInBlocks(cinfo, c)

MovesAnything == Asked.op # "NONE" \/ info[nth].work
RowDone(c) == at.row .. at.row + cinfo.comps[c].v - 1

(* One row of iMCUs of a component. *)
MoveRow ==
    LET c == at.c
        g == Geometry(c)
        more == at.row + cinfo.comps[c].v < HeightInBlocks(cinfo, c)
    IN /\ pc = "move" /\ MovesAnything /\ c \in Comps(cinfo)
       /\ IF info[nth].work
          THEN /\ work' = [work EXCEPT ![nth][c] = [y \in DOMAIN @ |->
                     IF y \in RowDone(c)
                     THEN [x \in DOMAIN @[y] |-> IF x < Reach(c) THEN Moved(Asked.op, coefs[c], g, y, x) ELSE @[y][x]]
                     ELSE @[y]]]
               /\ UNCHANGED coefs
          ELSE /\ coefs' = [coefs EXCEPT ![c] = [y \in DOMAIN @ |->
                     IF y \in RowDone(c) THEN DoFlipHNoCrop(@[y], g, WidthInBlocks(cinfo, c)) ELSE @[y]]]
               /\ UNCHANGED work
       /\ at' = IF more THEN [at EXCEPT !.row = @ + cinfo.comps[c].v] ELSE [c |-> c + 1, row |-> 0]
       /\ UNCHANGED <<job, pc, nth, info, saved, cinfo, header, outs>>

AllMoved == ~MovesAnything \/ at.c \notin Comps(cinfo)

(* The client's filter, here one that doubles; it works on what will be    *)
(* written, the image's own arrays when there is no workspace.             *)
DoubledArray(array, c) ==
    [y \in DOMAIN array |->
        IF y >= Rows(cinfo, c) THEN array[y]
        ELSE [x \in DOMAIN array[y] |->
                 IF x < WidthInBlocks(cinfo, c) /\ array[y][x] # Unset THEN Scaled(array[y][x], 2) ELSE array[y][x]]]

CustomFilter ==
    /\ pc = "move" /\ AllMoved /\ Asked.filter # "none"
    /\ IF Asked.filter = "fails" THEN Fail
       ELSE /\ IF info[nth].work
               THEN work' = [work EXCEPT ![nth] = [c \in DOMAIN @ |-> DoubledArray(@[c], c)]] /\ UNCHANGED coefs
               ELSE coefs' = [c \in DOMAIN coefs |->
                        IF c \in Comps(cinfo) THEN DoubledArray(coefs[c], c) ELSE coefs[c]] /\ UNCHANGED work
            /\ pc' = "finish"
            /\ UNCHANGED <<job, nth, info, saved, cinfo, at, header, outs>>

(* compress_output: an MCU of all components, or of one block of the only  *)
(* one.  Places beyond the image repeat the DC of the block before.        *)
Places(f) ==
    IF Len(f.comps) = 1 THEN <<[c |-> 1, y |-> 0, x |-> 0]>>
    ELSE FlattenSeq([c \in Comps(f) |-> [k \in 1 .. f.comps[c].h * f.comps[c].v |->
             [c |-> c, y |-> (k - 1) \div f.comps[c].h, x |-> (k - 1) % f.comps[c].h]]])
McusPerRow(f) == IF Len(f.comps) = 1 THEN WidthInBlocks(f, 1) ELSE DivUp(f.width, MaxH(f) * D)
McuRows(f) == IF Len(f.comps) = 1 THEN HeightInBlocks(f, 1) ELSE DivUp(f.height, MaxV(f) * D)

Mcu(arrays, row, col) ==
    LET places == Places(cinfo)
        step(c) == IF Len(cinfo.comps) = 1 THEN [h |-> 1, v |-> 1] ELSE cinfo.comps[c]
        y(p) == row * step(p.c).v + p.y
        x(p) == col * step(p.c).h + p.x
        real(k) == LET p == places[k] IN
                   y(p) < HeightInBlocks(cinfo, p.c) /\ x(p) < WidthInBlocks(cinfo, p.c)
        source(k) == places[Max({j \in 1 .. k : real(j)})]
        block(p) == arrays[p.c][y(p)][x(p)]
    IN [k \in DOMAIN places |-> IF real(k) THEN block(places[k]) ELSE Dummy(block(source(k))[0][0])]

Written(arrays) ==
    [width |-> cinfo.width, height |-> cinfo.height, comps |-> cinfo.comps, tables |-> cinfo.tables,
     markers |-> header,
     mcus |-> [m \in 0 .. McusPerRow(cinfo) * McuRows(cinfo) - 1 |->
                  Mcu(arrays, m \div McusPerRow(cinfo), m % McusPerRow(cinfo))]]

(* C_MAX_BLOCKS_IN_MCU: the program exits over a larger MCU. *)
McuFits(f) ==
    Len(f.comps) = 1 \/ FoldSeq(+, 0, [c \in Comps(f) |-> f.comps[c].h * f.comps[c].v]) <= 10

(* jpeg_finish_compress; behind the last jpeg_finish_decompress. *)
Finish ==
    /\ \/ pc = "finish"
       \/ pc = "move" /\ AllMoved /\ Asked.filter = "none"
    /\ McuFits(cinfo)
    /\ outs' = IF Asked.output
               THEN [outs EXCEPT ![nth] = Written(IF info[nth].work THEN work[nth] ELSE coefs)] ELSE outs
    /\ pc' = IF LastOne THEN "done" ELSE "adjust"
    /\ nth' = IF LastOne THEN nth ELSE nth + 1
    /\ UNCHANGED <<job, info, coefs, saved, cinfo, work, at, header>>

TransformNext ==
    \/ ReadHeader \/ RequestWorkspace \/ ReadCoefficients
    \/ AdjustParameters \/ WriteCoefficients \/ MoveRow \/ CustomFilter \/ Finish

TransformSpec == TransformInit /\ [][TransformNext]_transformVars

-----------------------------------------------------------------------------
(* What a reader makes of a file: samples of a component.                  *)

Factor(f, c) == IF Len(f.comps) = 1 THEN [h |-> 1, v |-> 1] ELSE f.comps[c]
Before(f, c) == FoldSeq(+, 0, [b \in 1 .. c - 1 |-> f.comps[b].h * f.comps[b].v])
BlockIn(f, c, y, x) ==
    LET g == Factor(f, c) IN
    f.mcus[(y \div g.v) * McusPerRow(f) + x \div g.h][Before(f, c) + (y % g.v) * g.h + (x % g.h) + 1]

Sample(block, table, y, x) ==
    LET terms == [k \in 1 .. D * D |->
            LET i == (k - 1) \div D
                j == (k - 1) % D
            IN block[i][j] * table[i][j] * Basis(i, y) * Basis(j, x)]
    IN FoldSeq(+, 0, terms)

Decoded(f, c, y, x) ==
    Sample(BlockIn(f, c, y \div D, x \div D), f.tables[f.comps[c].table], y % D, x % D)
Original(c, y, x) ==
    Sample(ImageBlock(c, y \div D, x \div D), Image.comps[c].used, y % D, x % D)

SamplesAcross(f, c) == DivUp(f.width * f.comps[c].h, MaxH(f))
SamplesDown(f, c) == DivUp(f.height * f.comps[c].v, MaxV(f))
MirroredIn(p, whole) == IF p < whole THEN whole - 1 - p ELSE p

(* The sample that belongs at place y, x of component c of a transform's   *)
(* file, whose left upper corner is left by top pixels into the transform. *)
Belongs(t, f, c, left, top, y, x) ==
    LET u == Uncropped(t)
        comp == f.comps[c]
        across == x + (left * comp.h) \div MaxH(f)
        down == y + (top * comp.v) \div MaxV(f)
        right == IF t.op \in HFlips
                 THEN MirroredIn(across, (u.width \div (MaxH(f) * D)) * comp.h * D) ELSE across
        below == IF t.op \in VFlips
                 THEN MirroredIn(down, (u.height \div (MaxV(f) * D)) * comp.v * D) ELSE down
    IN (IF t.filter = "doubles" THEN 2 ELSE 1) *
           (IF t.op \in Transposes THEN Original(c, right, below) ELSE Original(c, below, right))

(* Trimmed, an image ends with the last whole iMCU, if it reaches it. *)
Kept(first, wanted, full, mcu, trims) ==
    LET whole == (full \div mcu) * mcu IN
    IF trims /\ first < whole /\ first + wanted > whole THEN whole - first ELSE wanted

(* A file is the transform t of the image.                                 *)
IsTransform(f, t) ==
    LET u == Uncropped(t)
        mcuW == MaxH(f) * D
        mcuH == MaxV(f) * D
        left == IF Crops(t) THEN (CropX(t, u) \div mcuW) * mcuW ELSE 0
        top == IF Crops(t) THEN (CropY(t, u) \div mcuH) * mcuH ELSE 0
        right == IF Crops(t) THEN CropX(t, u) + CropW(t, u) ELSE u.width
        bottom == IF Crops(t) THEN CropY(t, u) + CropH(t, u) ELSE u.height
    IN /\ f.width = Kept(left, right - left, u.width, mcuW, t.trim /\ t.op \in HFlips)
       /\ f.height = Kept(top, bottom - top, u.height, mcuH, t.trim /\ t.op \in VFlips)
       /\ Len(f.comps) = Num(t)
       /\ \A c \in Comps(f) :
              \A y \in 0 .. SamplesDown(f, c) - 1 : \A x \in 0 .. SamplesAcross(f, c) - 1 :
                  Decoded(f, c, y, x) = Belongs(t, f, c, left, top, y, x)

(* No filter of the client has changed the image's own arrays.             *)
Unfiltered(k) ==
    \A j \in 1 .. k - 1 : job.transforms[j].filter = "doubles" => Requested(job.transforms[j]).work

(* Every file made of an image shows what was asked of it, pixel by pixel: *)
(* the image turned and mirrored, all but the iMCUs that the image's edge  *)
(* cuts, which are trimmed or stay in place; cropped at the iMCU where the *)
(* region begins; its chroma where its luma is and its tables the right    *)
(* way round, whatever was made of the image before (do_flip_h ... do_     *)
(* transverse, request_workspace, adjust_parameters, compress_output).     *)
OutputsAreTransforms ==
    \A k \in DOMAIN outs : outs[k] # <<>> /\ Unfiltered(k) => IsTransform(outs[k], job.transforms[k])

Kinds(markers) == [i \in DOMAIN markers |-> markers[i].kind]

(* A file has one JFIF and one Adobe marker at most, a copied one or the   *)
(* compressor's, unless the image had more; every other marker that was to *)
(* be copied once and in order; and begins with the Exif marker if the     *)
(* image did (jcopy_markers_execute and the suppression of JFIF).          *)
MarkersAreRight(markers) ==
    LET copied == Selected(Image.markers, SavedKinds)
        others == MarkerKinds \ {"JFIF", "Adobe"}
        many(list, kind) == Len(Selected(list, {kind}))
    IN /\ \A kind \in {"JFIF", "Adobe"} :
              many(markers, kind) <= 1 \/ many(markers, kind) <= many(copied, kind)
       /\ Kinds(Selected(markers, others)) = Kinds(Selected(copied, others))
       /\ job.copy = "all" /\ Image.color \in {"gray", "YCbCr"} /\ Image.markers # <<>>
              /\ Image.markers[1].kind = "Exif" => markers # <<>> /\ markers[1].kind = "Exif"

(* So it is in each file made.                                             *)
MarkersOnce == \A k \in DOMAIN outs : outs[k] # <<>> => MarkersAreRight(outs[k].markers)
==============================================================================
