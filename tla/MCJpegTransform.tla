--------------------------- MODULE MCJpegTransform ---------------------------
EXTENDS JpegTransform

(* Blocks of two by two, and their cosines. *)
MCBasis(k, p) == IF k = 1 /\ p = 1 THEN -1 ELSE 1

Matrix(a, b, c, d) == [i \in 0 .. 1 |-> [j \in 0 .. 1 |-> <<<<a, b>>, <<c, d>>>>[i + 1][j + 1]]]
Luma == Matrix(1, 2, 3, 1)
Chroma == Matrix(2, 5, 1, 3)
Tables == [s \in 0 .. 1 |-> IF s = 0 THEN Luma ELSE Chroma]
Comp(h, v, s) == [h |-> h, v |-> v, table |-> s, used |-> Tables[s]]
Three(h, v) == <<Comp(h, v, 0), Comp(1, 1, 1), Comp(1, 1, 1)>>

Exif(w, h) == [kind |-> "Exif", found |-> TRUE, room |-> 3,
               sub |-> <<[tag |-> "other", value |-> 0], [tag |-> "width", value |-> w],
                         [tag |-> "height", value |-> h]>>]
Plain(kind) == [kind |-> kind]

Picture(w, h, comps, color, markers) ==
    [width |-> w, height |-> h, comps |-> comps, color |-> color, tables |-> Tables, markers |-> markers]

(* 4:2:0 with whole and cut iMCUs, 4:2:2, one component with odd factors,  *)
(* RGB with factors TurboJPEG does not know, and a table slot used twice.  *)
Pictures ==
    {Picture(8, 4, Three(2, 2), "YCbCr", <<Plain("JFIF"), Plain("COM")>>),
     Picture(7, 9, Three(2, 2), "YCbCr", <<Exif(7, 9), Plain("JFIF"), Plain("COM")>>),
     Picture(9, 5, Three(2, 1), "YCbCr", <<Plain("Adobe"), Plain("APPn"), Plain("Adobe"), Plain("COM")>>),
     Picture(5, 3, <<Comp(2, 2, 0)>>, "gray", <<Plain("JFIF")>>),
     Picture(6, 7, <<Comp(1, 2, 0), Comp(2, 1, 0), Comp(1, 1, 1)>>, "RGB", <<Exif(6, 7), Plain("Adobe")>>),
     Picture(4, 4, <<[Comp(1, 1, 0) EXCEPT !.used = Chroma]>>, "gray", <<>>)}

Crop(w, h, x, y, left, top) == [w |-> w, h |-> h, x |-> x, y |-> y, left |-> left, top |-> top]
Crops3 == {NoCrop, Crop(3, 0, 4, 0, TRUE, TRUE), Crop(0, 2, 1, 3, TRUE, FALSE), Crop(4, 3, 1, 0, FALSE, TRUE),
           Crop(3, 0, 0, 4, TRUE, TRUE)}
Transform(op, trim, crop) ==
    [op |-> op, trim |-> trim, crop |-> crop, perfect |-> FALSE, gray |-> FALSE, filter |-> "none", output |-> TRUE]

Single ==
    {Transform(op, trim, crop) : op \in Ops, trim \in BOOLEAN, crop \in Crops3}
    \cup {[Transform(op, FALSE, crop) EXCEPT !.gray = TRUE, !.perfect = perfect] :
              op \in Ops, crop \in {NoCrop, Crop(3, 0, 4, 0, TRUE, TRUE)}, perfect \in BOOLEAN}
    \cup {[Transform(op, FALSE, NoCrop) EXCEPT !.perfect = TRUE] : op \in Ops}

Filtered == {[Transform(op, FALSE, NoCrop) EXCEPT !.filter = filter, !.output = output] :
                 op \in {"FLIP_V", "ROT_90"}, filter \in {"doubles", "fails"}, output \in BOOLEAN}
Plainly == {Transform(op, FALSE, NoCrop) : op \in Ops}

Job(image, client, copy, transforms) ==
    [image |-> image, client |-> client, copy |-> copy, transforms |-> transforms]

(* jpegtran does one transform.  TurboJPEG does several; of two, the last  *)
(* or the first filters the image's own arrays.                            *)
MCJobs ==
    {Job(image, "jpegtran", copy, <<t>>) : image \in Pictures, copy \in {"all", "comments"}, t \in Single}
    \cup {Job(image, "jpegtran", "none", <<t>>) : image \in Pictures, t \in Plainly}
    \cup {Job(image, "tjTransform", "all", <<s, t>>) : image \in Pictures, s \in Plainly \cup Filtered, t \in Plainly}
    \cup {Job(image, "tjTransform", "all", <<s, [t EXCEPT !.filter = "doubles"]>>) :
              image \in Pictures, s \in Plainly, t \in {Transform("NONE", FALSE, NoCrop), Transform("FLIP_H", TRUE, NoCrop)}}
    \cup {Job(image, "tjTransform", "all", <<[Transform("NONE", FALSE, NoCrop) EXCEPT !.filter = "doubles"], t>>) :
              image \in Pictures, t \in Plainly}
    \cup {Job(image, "tjTransform", "all", <<t>>) : image \in Pictures, t \in Single}
==============================================================================
