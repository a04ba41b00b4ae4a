------------------------------ MODULE JpegPalette ------------------------------
(***************************************************************************)
(* The two color quantizers of the decompressor (jquant1.c, jquant2.c):    *)
(* how each makes a palette of few colors, and how it maps the pixels of a *)
(* row onto the palette, with no dither, an ordered one, or the errors     *)
(* handed on to the neighbors (Floyd and Steinberg).                       *)
(*                                                                         *)
(* A pixel and a color are sequences of samples, one of each component; a  *)
(* palette is a function from codes, which begin at 0.  The sizes are      *)
(* parameters; those of the library are given beside them.                 *)
(***************************************************************************)
EXTENDS Integers, Sequences, FiniteSetsExt, SequencesExt

CONSTANTS
    SampleBits,     \* BITS_IN_JSAMPLE (8)
    HistBits,       \* HIST_C0_BITS, C1, C2 (5, 6, 5)
    BoxLogs,        \* BOX_C0_LOG, C1, C2 (2, 3, 2)
    HistMax,        \* the largest histcell (65535)
    DitherLog       \* ODITHER_SIZE is its power of two (4)

MaxSample == 2 ^ SampleBits - 1
Axes == 1 .. 3

(* The table sample_range_limit, as far as the quantizers read it. *)
RangeLimit(x) == IF x < 0 THEN 0 ELSE IF x > MaxSample THEN MaxSample ELSE x

Times(ns) == FoldLeft(LAMBDA a, b : a * b, 1, ns)
SumOf(xs) == FoldLeft(LAMBDA a, b : a + b, 0, xs)

(* What is read beyond the end of a table: something. *)
At(table, x) == IF x \in DOMAIN table THEN table[x] ELSE table[0]

-----------------------------------------------------------------------------
(* The palette of one pass: a grid.                                        *)

(* The components in the order in which they may get one value more. *)
GrowthOrder(space, nc) == IF space = "RGB" /\ nc = 3 THEN <<2, 1, 3>> ELSE [i \in 1 .. nc |-> i]

RECURSIVE Grown(_, _, _, _)
Grown(ns, i, order, colors) ==
    LET more == [ns EXCEPT ![order[i]] = @ + 1] IN
    IF Times(more) <= colors THEN Grown(more, IF i = Len(ns) THEN 1 ELSE i + 1, order, colors)
    ELSE IF i > 1 THEN Grown(ns, 1, order, colors)
    ELSE ns

Root(nc, colors) == Max({r \in 1 .. colors : r ^ nc <= colors})

SelectNcolors(space, nc, colors) ==
    Grown([i \in 1 .. nc |-> Root(nc, colors)], 1, GrowthOrder(space, nc), colors)

OutputValue(j, maxj) == (j * MaxSample + maxj \div 2) \div maxj

LargestInput(j, maxj) == ((2 * j + 1) * MaxSample + maxj) \div (2 * maxj)

BlockSize(ns, i) == Times([k \in 1 .. Len(ns) - i |-> ns[i + k]])

CreateColormap(ns) ==
    [p \in 0 .. Times(ns) - 1 |->
        [i \in DOMAIN ns |-> OutputValue((p \div BlockSize(ns, i)) % ns[i], ns[i] - 1)]]

(* The code of a component's value, padded at both ends for the dither. *)
ColorIndex(ns, i, padded) ==
    [x \in (IF padded THEN -MaxSample .. 2 * MaxSample ELSE 0 .. MaxSample) |->
        BlockSize(ns, i) * Min({v \in 0 .. ns[i] - 1 : RangeLimit(x) <= LargestInput(v, ns[i] - 1)})]

(* Bayer's matrix: the cell of the finest bits decides first. *)
Bit(n, b) == (n \div 2 ^ b) % 2
Quarter(j, k) == IF j = 0 THEN 3 * k ELSE 2 - k
BaseDither(j, k) ==
    SumOf([b \in 1 .. DitherLog |-> Quarter(Bit(j, b - 1), Bit(k, b - 1)) * 4 ^ (DitherLog - b)])

TowardsZero(n, d) == IF n < 0 THEN -((-n) \div d) ELSE n \div d

Odither(n, j, k) ==
    TowardsZero((4 ^ DitherLog - 1 - 2 * BaseDither(j, k)) * MaxSample, 2 * 4 ^ DitherLog * (n - 1))

ColorQuantize(ns, pixel) == SumOf([i \in DOMAIN ns |-> ColorIndex(ns, i, FALSE)[pixel[i]]])

OrderedDither(ns, padded, pixel, j, k) ==
    SumOf([i \in DOMAIN ns |-> At(ColorIndex(ns, i, padded), pixel[i] + Odither(ns[i], j, k))])

-----------------------------------------------------------------------------
(* The palette of two passes: the boxes of the colors that are there.      *)

Shift(i) == SampleBits - HistBits[i]
Cells == (0 .. 2 ^ HistBits[1] - 1) \X (0 .. 2 ^ HistBits[2] - 1) \X (0 .. 2 ^ HistBits[3] - 1)
NoCells == [c \in Cells |-> 0]
CellOf(pixel) == [i \in Axes |-> pixel[i] \div 2 ^ Shift(i)]
Center(cell) == [i \in Axes |-> cell[i] * 2 ^ Shift(i) + 2 ^ Shift(i) \div 2]

(* A variant that lets the counter come back to 0. *)
WrappingCount(hist, pixel) == [hist EXCEPT ![CellOf(pixel)] = (@ + 1) % (HistMax + 1)]

(* A 16-bit counter that comes back to 0 is set back. *)
Count(hist, pixel) == [hist EXCEPT ![CellOf(pixel)] = IF @ = HistMax THEN @ ELSE @ + 1]
Prescan(hist, pixels) == FoldLeft(Count, hist, pixels)

(* RGB, or BGR: green is in the middle. *)
Red(space) == IF space = "RGB" THEN 1 ELSE 3
Scale(space, i) == IF i = 2 THEN 3 ELSE IF i = Red(space) THEN 2 ELSE 1

Length(space, box, i) == (box.hi[i] - box.lo[i]) * 2 ^ Shift(i) * Scale(space, i)

InBox(box, cell) == \A i \in Axes : cell[i] \in box.lo[i] .. box.hi[i]
UsedIn(hist, box) == {c \in Cells : hist[c] # 0 /\ InBox(box, c)}

UpdateBox(hist, space, box) ==
    LET used == UsedIn(hist, box)
        shrunk == IF used = {} THEN box
                  ELSE [box EXCEPT !.lo = [i \in Axes |-> Min({c[i] : c \in used})],
                                   !.hi = [i \in Axes |-> Max({c[i] : c \in used})]]
    IN [shrunk EXCEPT !.volume = SumOf([i \in Axes |-> Length(space, shrunk, i) ^ 2]),
                      !.count = Cardinality(used)]

(* The first of the largest, 0 when no box can be split. *)
FirstLargest(boxes, size) ==
    LET best == Max({0} \cup {size[b] : b \in DOMAIN boxes})
    IN IF best = 0 THEN 0 ELSE SelectInSeq(size, LAMBDA s : s = best)

FindBiggestColorPop(boxes) ==
    FirstLargest(boxes, [b \in DOMAIN boxes |-> IF boxes[b].volume > 0 THEN boxes[b].count ELSE 0])
FindBiggestVolume(boxes) == FirstLargest(boxes, [b \in DOMAIN boxes |-> boxes[b].volume])

(* Of equally long axes green is split, then red. *)
LongestAxis(space, box) ==
    LET order == <<2, Red(space), 4 - Red(space)>>
        longest == Max({Length(space, box, i) : i \in Axes})
    IN order[SelectInSeq(order, LAMBDA i : Length(space, box, i) = longest)]

RECURSIVE MedianCut(_, _, _, _)
MedianCut(hist, space, boxes, colors) ==
    LET n == Len(boxes)
        b == IF 2 * n <= colors THEN FindBiggestColorPop(boxes) ELSE FindBiggestVolume(boxes)
    IN IF n >= colors \/ b = 0 THEN boxes
       ELSE LET i == LongestAxis(space, boxes[b])
                lb == (boxes[b].lo[i] + boxes[b].hi[i]) \div 2
                low == UpdateBox(hist, space, [boxes[b] EXCEPT !.hi[i] = lb])
                high == UpdateBox(hist, space, [boxes[b] EXCEPT !.lo[i] = lb + 1])
            IN MedianCut(hist, space, Append([boxes EXCEPT ![b] = low], high), colors)

SelectBoxes(hist, space, colors) ==
    LET whole == [lo |-> [i \in Axes |-> 0], hi |-> [i \in Axes |-> 2 ^ HistBits[i] - 1],
                  volume |-> 0, count |-> 0]
    IN MedianCut(hist, space, <<UpdateBox(hist, space, whole)>>, colors)

(* The mean of a box, weighted by pixels and rounded. *)
ComputeColor(hist, box) ==
    LET used == UsedIn(hist, box)
        total == MapThenSumSet(LAMBDA c : hist[c], used)
    IN [i \in Axes |-> (MapThenSumSet(LAMBDA c : Center(c)[i] * hist[c], used) + total \div 2) \div total]

SelectColors(hist, space, colors) ==
    LET boxes == SelectBoxes(hist, space, colors)
    IN [p \in 0 .. Len(boxes) - 1 |-> ComputeColor(hist, boxes[p + 1])]

-----------------------------------------------------------------------------
(* The inverse color map: the nearest color of each cell, plus one, found  *)
(* for a box of cells when the first of them is asked for.                 *)

BoxShift(i) == Shift(i) + BoxLogs[i]

(* Colors that may be the nearest of a cell: none is too far away from the *)
(* whole box, whose cells' centers span from minc to maxc.                 *)
FindNearbyColors(map, space, minc) ==
    LET maxc == [i \in Axes |-> minc[i] + 2 ^ BoxShift(i) - 2 ^ Shift(i)]
        near(i, x) == IF x < minc[i] THEN x - minc[i] ELSE IF x > maxc[i] THEN x - maxc[i] ELSE 0
        far(i, x) == IF x <= (minc[i] + maxc[i]) \div 2 THEN x - maxc[i] ELSE x - minc[i]
        minDist(p) == SumOf([i \in Axes |-> (near(i, map[p][i]) * Scale(space, i)) ^ 2])
        maxDist(p) == SumOf([i \in Axes |-> (far(i, map[p][i]) * Scale(space, i)) ^ 2])
        minMaxDist == Min({maxDist(p) : p \in DOMAIN map})
    IN {p \in DOMAIN map : minDist(p) <= minMaxDist}

(* Thomas' distances: n steps from the box's first cell along an axis.     *)
Stepped(space, i, inc, n) ==
    LET step == 2 ^ Shift(i) * Scale(space, i)
    IN inc ^ 2 + n * (inc * 2 * step + step ^ 2) + n * (n - 1) * step ^ 2

FindBestColor(map, space, minc, nearby, steps) ==
    LET dist(p) == SumOf([i \in Axes |-> Stepped(space, i, (minc[i] - map[p][i]) * Scale(space, i), steps[i])])
        best == Min({dist(p) : p \in nearby})
    IN Min({p \in nearby : dist(p) = best})

FillInverseCmap(cache, map, space, cell) ==
    LET id(c) == [i \in Axes |-> c[i] \div 2 ^ BoxLogs[i]]
        minc == [i \in Axes |-> id(cell)[i] * 2 ^ BoxShift(i) + 2 ^ Shift(i) \div 2]
        nearby == FindNearbyColors(map, space, minc)
    IN [c \in Cells |-> IF id(c) # id(cell) THEN cache[c]
                        ELSE FindBestColor(map, space, minc, nearby,
                                           [i \in Axes |-> c[i] % 2 ^ BoxLogs[i]]) + 1]

(* The map with the cell of a pixel filled. *)
MapFilled(cache, map, space, pixel) ==
    IF cache[CellOf(pixel)] = 0 THEN FillInverseCmap(cache, map, space, CellOf(pixel)) ELSE cache

-----------------------------------------------------------------------------
(* Errors handed on.  A quantizer is [two, ns, map, space]: the second one *)
(* limits the errors, and finds a color through the inverse map.           *)

Sign(x) == IF x < 0 THEN -1 ELSE 1
StepSize == 2 ^ SampleBits \div 16
ErrorLimit(e) ==
    LET in == Sign(e) * e IN
    Sign(e) * (IF in < StepSize THEN in
               ELSE IF in < 3 * StepSize THEN StepSize + (in - StepSize) \div 2
               ELSE 2 * StepSize)

(* The code of a pixel, and the color whose difference from it is handed   *)
(* on; in the grid each component has its own code.                        *)
Picked(q, cache, v) ==
    LET coded(filled, code) == [code |-> code, color |-> At(q.map, code), cache |-> filled]
        cached(filled) == coded(filled, filled[CellOf(v)] - 1)
        gridded(codes) == [code |-> SumOf(codes), color |-> [i \in DOMAIN v |-> q.map[codes[i]][i]],
                           cache |-> cache]
    IN IF q.two THEN cached(MapFilled(cache, q.map, q.space, v))
       ELSE gridded([i \in DOMAIN v |-> ColorIndex(q.ns, i, FALSE)[v[i]]])

(* One pixel: s.cur comes from the previous pixel, s.errs holds this row's *)
(* errors at columns still to do and the next row's at those done.         *)
DitherPixel(q, pixels, dir, s, x) ==
    LET comps == DOMAIN pixels[x]
        limited(e) == IF q.two THEN ErrorLimit(e) ELSE e
        spread(diff, code, cache) ==
            [cur |-> [i \in comps |-> 7 * diff[i]],
             errs |-> [s.errs EXCEPT ![x - dir] = [i \in comps |-> s.bprev[i] + 3 * diff[i]]],
             bprev |-> [i \in comps |-> s.below[i] + 5 * diff[i]],
             below |-> diff,
             cache |-> cache,
             codes |-> [s.codes EXCEPT ![x] = code]]
        found(v, p) == spread([i \in comps |-> v[i] - p.color[i]], p.code, p.cache)
        from(v) == found(v, Picked(q, s.cache, v))
    IN from([i \in comps |-> RangeLimit(pixels[x][i] + limited((s.cur[i] + s.errs[x][i] + 8) \div 16))])

DitherRow(q, pixels, odd, errs, cache) ==
    LET w == Len(pixels)
        dir == IF odd THEN -1 ELSE 1
        zero == [i \in DOMAIN pixels[1] |-> 0]
        columns == [k \in 1 .. w |-> IF odd THEN w + 1 - k ELSE k]
        done == FoldLeft(LAMBDA s, x : DitherPixel(q, pixels, dir, s, x),
                         [cur |-> zero, bprev |-> zero, below |-> zero, errs |-> errs, cache |-> cache,
                          codes |-> [x \in 1 .. w |-> 0]],
                         columns)
    IN [codes |-> done.codes, errs |-> [done.errs EXCEPT ![columns[w]] = done.bprev], cache |-> done.cache]
===============================================================================
