------------------------------ MODULE JpegQuantize ------------------------------
(***************************************************************************)
(* The output passes of a decompressor that quantizes colors (jdmaster.c,  *)
(* jdapistd.c): which of the two quantizers of JpegPalette a pass uses,    *)
(* the state they keep from one call, one row and one pass to the next,    *)
(* and what a client may change between the passes of a buffered image:    *)
(* the quantizer, the dither, the palette.                                 *)
(***************************************************************************)
EXTENDS JpegPalette

CONSTANTS
    Clients,        \* images, and how they are asked for
    Strip,          \* the most rows a call of color_quantize gets
    NoMap           \* cinfo->colormap = NULL

VARIABLES
    client,         \* [pictures, space, comps, colors, buffered, one, external, two, twopass, dither,
                    \*  given, maps, menu, passes]
    phase,          \* of the client's calls
    settings,       \* cinfo's two_pass_quantize, dither_mode and colormap: [two, dither, map]
    enabled,        \* the quantizers jdmaster made ready: [one, external, two]
    active,         \* cinfo->cquantize: the one-pass or the two-pass quantizer
    dummy,          \* is_dummy_pass
    grid, boxed,    \* the quantizers: what they keep
    hist,           \* the histogram, or the inverse color map
    codes,          \* rows of this pass that were quantized; in a dummy pass, counted
    pass,           \* the number of passes begun
    madeOf          \* the pass whose picture the palette was made of, or 0

quantVars == <<client, phase, settings, enabled, active, dummy, grid, boxed, hist, codes, pass, madeOf>>

Nc == client.comps
Picture == client.pictures[Min({pass, Len(client.pictures)})]
NoErrors == [x \in 0 .. Len(client.pictures[1][1]) + 1 |-> [i \in 1 .. Nc |-> 0]]

Ncolors == SelectNcolors(client.space, Nc, client.colors)
Quantizer == [two |-> active = 2, ns |-> IF active = 2 THEN <<>> ELSE Ncolors, map |-> settings.map, space |-> client.space]

(* jinit_1pass_quantizer, jinit_2pass_quantizer *)
Jinit1Pass(dither) == [padded |-> dither = "ordered", row |-> 0, odd |-> FALSE, errs |-> NoErrors]
Jinit2Pass == [zero |-> TRUE, odd |-> FALSE, errs |-> NoErrors]

(* master_selection: what a buffered image's client wants enabled, and what *)
(* it starts with; jinit_2pass_quantizer comes last, and knows no ordered  *)
(* dither.                                                                 *)
QuantInit ==
    /\ client \in Clients
    /\ phase = IF client.buffered THEN "BUFIMAGE" ELSE "READY"
    /\ \E color \in {client.comps = 3} :
       \E given \in {IF color THEN client.given ELSE NoMap} :
           /\ enabled = [one |-> (client.buffered /\ client.one) \/ ~color \/ (given = NoMap /\ ~client.twopass),
                         external |-> color /\ ((client.buffered /\ client.external) \/ given # NoMap),
                         two |-> color /\ ((client.buffered /\ client.two) \/ (given = NoMap /\ client.twopass))]
           /\ settings = [two |-> client.twopass, map |-> given,
                          dither |-> IF (enabled.two \/ enabled.external) /\ client.dither # "none" THEN "fs"
                                     ELSE client.dither]
    /\ active = IF enabled.two \/ enabled.external THEN 2 ELSE 1
    /\ dummy = FALSE
    /\ grid = Jinit1Pass(client.dither)
    /\ boxed = Jinit2Pass
    /\ hist = [c \in Cells |-> 1]
    /\ codes = <<>> /\ pass = 0 /\ madeOf = 0

-----------------------------------------------------------------------------
(* A variant that keeps a table without padding when the dither changes. *)
UnpaddedStartPass1(set) ==
    /\ settings' = [set EXCEPT !.map = CreateColormap(Ncolors)]
    /\ grid' = CASE set.dither = "none" -> grid
                 [] set.dither = "ordered" -> [grid EXCEPT !.row = 0]
                 [] set.dither = "fs" -> [grid EXCEPT !.odd = FALSE, !.errs = NoErrors]
    /\ madeOf' = 0
    /\ UNCHANGED <<boxed, hist>>

(* start_pass_1_quant *)
StartPass1(set) ==
    /\ settings' = [set EXCEPT !.map = CreateColormap(Ncolors)]
    /\ grid' = CASE set.dither = "none" -> grid
                [] set.dither = "ordered" -> [grid EXCEPT !.row = 0, !.padded = TRUE]
                [] set.dither = "fs" -> [grid EXCEPT !.odd = FALSE, !.errs = NoErrors]
    /\ madeOf' = 0
    /\ UNCHANGED <<boxed, hist>>

(* start_pass_2_quant of a quantizer in state t *)
StartPass2(set, prescan, t) ==
    LET dither == IF set.dither = "none" THEN "none" ELSE "fs" IN
    /\ settings' = [set EXCEPT !.dither = dither]
    /\ boxed' = [IF dither = "fs" /\ ~prescan THEN [t EXCEPT !.odd = FALSE, !.errs = NoErrors] ELSE t
               EXCEPT !.zero = FALSE]
    /\ hist' = IF prescan \/ t.zero THEN NoCells ELSE hist
    /\ UNCHANGED grid

(* prepare_for_output_pass: without a palette one is chosen. *)
PrepareForOutputPass(set) ==
    LET prescan == set.map = NoMap /\ set.two /\ enabled.two
        chosen == IF set.map # NoMap THEN active ELSE IF prescan THEN 2 ELSE 1 IN
    /\ set.map = NoMap => prescan \/ enabled.one
    /\ active' = chosen
    /\ dummy' = prescan
    /\ IF chosen = 1 THEN StartPass1(set) ELSE StartPass2(set, prescan, boxed) /\ UNCHANGED madeOf
    /\ phase' = "SCANNING" /\ codes' = <<>> /\ pass' = pass + 1
    /\ UNCHANGED <<client, enabled>>

(* jpeg_start_decompress *)
StartQuantizing == phase = "READY" /\ PrepareForOutputPass(settings)

(* jpeg_start_output, with other settings: a colormap of NULL asks for a   *)
(* new palette.                                                            *)
StartNextOutput ==
    /\ phase = "BUFIMAGE" /\ pass < client.passes
    /\ \E m \in client.menu :
           PrepareForOutputPass([two |-> m.two, dither |-> m.dither, map |-> IF m.reset THEN NoMap ELSE settings.map])

(* jpeg_new_colormap *)
NewColormap ==
    /\ phase = "BUFIMAGE" /\ enabled.external /\ pass < client.passes
    /\ \E map \in client.maps :
           /\ map # settings.map
           /\ settings' = [settings EXCEPT !.map = map]
    /\ active' = 2 /\ dummy' = FALSE /\ madeOf' = 0
    /\ boxed' = [boxed EXCEPT !.zero = TRUE]
    /\ UNCHANGED <<client, phase, enabled, grid, hist, codes, pass>>

(* A row of an output pass. *)
QuantizeRow1(s, pixels) ==
    LET dithered(r) == [s EXCEPT !.one.errs = r.errs, !.one.odd = ~@, !.codes = Append(@, r.codes)] IN
    CASE settings.dither = "none" ->
            [s EXCEPT !.codes = Append(@, [x \in DOMAIN pixels |-> ColorQuantize(Ncolors, pixels[x])])]
      [] settings.dither = "ordered" ->
            [s EXCEPT !.codes = Append(@, [x \in DOMAIN pixels |->
                           OrderedDither(Ncolors, s.one.padded, pixels[x], s.one.row, (x - 1) % 2 ^ DitherLog)]),
                      !.one.row = (@ + 1) % 2 ^ DitherLog]
      [] settings.dither = "fs" -> dithered(DitherRow(Quantizer, pixels, s.one.odd, s.one.errs, <<>>))

QuantizeRow2(s, pixels) ==
    LET mapped(cache) == [s EXCEPT !.hist = cache, !.codes = Append(@, [x \in DOMAIN pixels |-> cache[CellOf(pixels[x])] - 1])]
        dithered(r) == [s EXCEPT !.two.errs = r.errs, !.two.odd = ~@, !.hist = r.cache, !.codes = Append(@, r.codes)] IN
    IF settings.dither = "none"
    THEN mapped(FoldLeft(LAMBDA cache, pixel : MapFilled(cache, settings.map, client.space, pixel), s.hist, pixels))
    ELSE dithered(DitherRow(Quantizer, pixels, s.two.odd, s.two.errs, s.hist))

QuantizeRow(s, pixels) ==
    IF dummy THEN [s EXCEPT !.hist = Prescan(@, pixels), !.codes = Append(@, <<>>)]
    ELSE IF active = 1 THEN QuantizeRow1(s, pixels) ELSE QuantizeRow2(s, pixels)

(* color_quantize gets the rows the upsampler made in one call. *)
QuantizeRows ==
    /\ phase = "SCANNING"
    /\ \E n \in 1 .. Strip :
           /\ Len(codes) + n <= Len(Picture)
           /\ \E done \in {FoldLeft(QuantizeRow, [one |-> grid, two |-> boxed, hist |-> hist, codes |-> codes],
                                    SubSeq(Picture, Len(codes) + 1, Len(codes) + n))} :
                  grid' = done.one /\ boxed' = done.two /\ hist' = done.hist /\ codes' = done.codes
    /\ UNCHANGED <<client, phase, settings, enabled, active, dummy, pass, madeOf>>

(* finish_pass1: the palette; and the pass that uses it begins. *)
FinishPrescan ==
    /\ phase = "SCANNING" /\ dummy /\ Len(codes) = Len(Picture)
    /\ StartPass2([settings EXCEPT !.map = SelectColors(hist, client.space, client.colors)], FALSE,
                  [boxed EXCEPT !.zero = TRUE])
    /\ dummy' = FALSE /\ codes' = <<>> /\ madeOf' = pass
    /\ UNCHANGED <<client, phase, enabled, active, pass>>

(* jpeg_finish_output, perhaps early; or the end. *)
FinishQuantizing ==
    /\ phase = "SCANNING" /\ ~dummy
    /\ client.buffered \/ Len(codes) = Len(Picture)
    /\ phase' = IF client.buffered THEN "BUFIMAGE" ELSE "DONE"
    /\ codes' = <<>>
    /\ UNCHANGED <<client, settings, enabled, active, dummy, grid, boxed, hist, pass, madeOf>>

QuantNext ==
    \/ StartQuantizing \/ StartNextOutput \/ NewColormap
    \/ QuantizeRows \/ FinishPrescan \/ FinishQuantizing

-----------------------------------------------------------------------------
(* What the client should get.                                             *)

Distance(p, q) == SumOf([i \in Axes |-> ((p[i] - q[i]) * Scale(client.space, i)) ^ 2])

(* The nearest color of the palette, the first of those.                   *)
Nearest(map, pixel) ==
    LET center == Center(CellOf(pixel))
        best == Min({Distance(map[p], center) : p \in DOMAIN map})
    IN Min({p \in DOMAIN map : Distance(map[p], center) = best})

(* The value of a component in the grid: the breakpoints between values    *)
(* are rounded up, so that it may be off by one from the nearest.          *)
GridValue(i, x) ==
    LET n == Ncolors[i] IN OutputValue(Min({v \in 0 .. n - 1 : x <= LargestInput(v, n - 1)}), n - 1)

ColorFor(pixel) ==
    IF active = 2 THEN settings.map[Nearest(settings.map, pixel)] ELSE [i \in 1 .. Nc |-> GridValue(i, pixel[i])]

(* The rows of this pass by the textbook: each pixel's error goes to the   *)
(* next one and the three below, and odd rows go backwards.                *)
Towards(r) == IF r % 2 = 1 THEN 1 ELSE -1
ErrorAt(errors, r, x, i) == IF <<r, x>> \in DOMAIN errors THEN errors[<<r, x>>][i] ELSE 0
Incoming(errors, r, x, i) ==
    7 * ErrorAt(errors, r, x - Towards(r), i) + 5 * ErrorAt(errors, r - 1, x, i)
    + 3 * ErrorAt(errors, r - 1, x + Towards(r - 1), i) + ErrorAt(errors, r - 1, x - Towards(r - 1), i)

Textbook ==
    LET w == Len(Picture[1])
        place(n) == LET r == (n - 1) \div w + 1
                        k == ((n - 1) % w) + 1
                    IN <<r, IF Towards(r) = 1 THEN k ELSE w + 1 - k>>
        limited(e) == IF active = 2 THEN ErrorLimit(e) ELSE e
        done(s, at, v, color) ==
            [errors |-> (at :> [i \in 1 .. Nc |-> v[i] - color[i]]) @@ s.errors, colors |-> (at :> color) @@ s.colors]
        colored(s, at, v) == done(s, at, v, ColorFor(v))
        pixel(s, at) ==
            colored(s, at, [i \in 1 .. Nc |->
                RangeLimit(Picture[at[1]][at[2]][i] + limited((Incoming(s.errors, at[1], at[2], i) + 8) \div 16))])
    IN FoldLeft(LAMBDA s, n : pixel(s, place(n)), [errors |-> <<>>, colors |-> <<>>],
                [n \in 1 .. Len(codes) * w |-> n]).colors

Dithered(r, x) ==
    [i \in 1 .. Nc |-> RangeLimit(Picture[r][x][i] +
                           Odither(Ncolors[i], (r - 1) % 2 ^ DitherLog, (x - 1) % 2 ^ DitherLog))]

(* Whatever the client changed between the passes, each pass is that of a  *)
(* quantizer that begins: without a dither each pixel gets the color that  *)
(* is nearest to it (to its cell's center), found by comparing them all;   *)
(* with an ordered one the nearest to its value in the pattern that begins *)
(* in the image's corner; and errors spread as if nothing came before the  *)
(* pass, in whatever pieces the rows come.  (start_pass_1_quant; needs_zeroed; find_nearby_colors.) *)
RowsAreNearest ==
    phase = "SCANNING" /\ ~dummy =>
        \E textbook \in {IF settings.dither = "fs" THEN Textbook ELSE <<>>} :
        \A r \in DOMAIN codes : \A x \in DOMAIN codes[r] :
            /\ codes[r][x] \in DOMAIN settings.map
            /\ settings.map[codes[r][x]] =
                   CASE settings.dither = "none" -> ColorFor(Picture[r][x])
                     [] settings.dither = "ordered" -> ColorFor(Dithered(r, x))
                     [] settings.dither = "fs" -> textbook[<<r, x>>]

(* The grid has no more colors than are wanted, none could be added to a   *)
(* component, and green is served first, then red.                         *)
GridIsRight ==
    /\ Times(Ncolors) <= client.colors
    /\ \A i \in 1 .. Nc : Times([Ncolors EXCEPT ![i] = @ + 1]) > client.colors
    /\ Nc = 3 /\ client.space = "RGB" => Ncolors[2] >= Ncolors[1] /\ Ncolors[1] >= Ncolors[3]
    /\ Cardinality({settings.map[p] : p \in DOMAIN settings.map}) = Times(Ncolors)
    /\ \A i \in 1 .. Nc : {0, MaxSample} \subseteq {settings.map[p][i] : p \in DOMAIN settings.map}

(* The pixels of the picture a palette was made of, counted.               *)
SeenCells ==
    LET picture == client.pictures[Min({madeOf, Len(client.pictures)})]
        cells == [r \in DOMAIN picture |-> [x \in DOMAIN picture[r] |-> CellOf(picture[r][x])]]
        all == FlattenSeq(cells)
    IN [c \in Cells |-> Min({HistMax, Cardinality({n \in DOMAIN all : all[n] = c})})]

(* Each color is the mean of a box of cells that were seen: every cell is  *)
(* in exactly one, and there are no fewer boxes than are wanted as long as *)
(* one holds two cells.                                                    *)
MadeIsRight ==
    \E counted \in {SeenCells} :
    \E boxes \in {SelectBoxes(counted, client.space, client.colors)} :
        LET seen == {c \in Cells : counted[c] # 0}
            inside(b) == {c \in seen : InBox(boxes[b], c)} IN
        /\ Len(boxes) = Min({client.colors, Cardinality(seen)})
        /\ \A c \in seen : Cardinality({b \in DOMAIN boxes : InBox(boxes[b], c)}) = 1
        /\ DOMAIN settings.map = 0 .. Len(boxes) - 1
        /\ \A b \in DOMAIN boxes :
               LET total == MapThenSumSet(LAMBDA c : counted[c], inside(b))
                   sum(i) == MapThenSumSet(LAMBDA c : counted[c] * Center(c)[i], inside(b))
               IN \A i \in Axes : 2 * (settings.map[b - 1][i] * total - sum(i)) \in -total .. total

(* The palette of a pass is of the pictures's colors, or a full grid.       *)
(* (median_cut: "any split will produce two nonempty subboxes".)           *)
PalettesAreRight ==
    phase = "SCANNING" /\ ~dummy /\ codes = <<>> =>
        /\ active = 1 => GridIsRight
        /\ madeOf > 0 => MadeIsRight
=============================================================================
