----------------------------- MODULE MCJpegOutput -----------------------------
(***************************************************************************)
(* Two parts of the decompressor, side by side: each behaviour is one of   *)
(* JpegDecompress, which makes lines of the file, or of JpegQuantize,      *)
(* which makes palette codes of the pixels of the lines.                   *)
(***************************************************************************)
EXTENDS MCJpegDecompress, JpegQuantize

MCHistBits == <<2, 3, 2>>
MCBoxLogs == <<1, 1, 0>>

(* Pixels without an order, a ramp, and a picture of nearly one color.     *)
Noise(w, h, nc, seed) ==
    [r \in 1 .. h |-> [x \in 1 .. w |-> [i \in 1 .. nc |->
        (((seed + 5 * r + 3 * i) * 31 + x * 119 + (seed + 5 * r) * x * 7) * 13 + r + i) % 16]]]
Ramp == [r \in 1 .. 3 |-> [x \in 1 .. 4 |-> [i \in 1 .. 3 |-> ((r * 4 + x) * (i + 1)) % 16]]]
Flat == [r \in 1 .. 3 |-> [x \in 1 .. 3 |-> IF <<r, x>> = <<3, 3>> THEN <<12, 13, 2>> ELSE <<5, 4, 6>>]]

Given1 == (0 :> <<0, 0, 0>>) @@ (1 :> <<15, 15, 15>>) @@ (2 :> <<10, 3, 7>>)
Given2 == (0 :> <<3, 12, 9>>) @@ (1 :> <<4, 4, 2>>)

Asking(pictures, nc, colors) ==
    [pictures |-> pictures, comps |-> nc, space |-> "RGB", colors |-> colors, buffered |-> FALSE,
     one |-> FALSE, external |-> FALSE, two |-> FALSE, twopass |-> FALSE, dither |-> "none",
     given |-> NoMap, maps |-> {}, menu |-> {}, passes |-> 1]

Dithers == {"none", "ordered", "fs"}

Once ==
    {[Asking(<<picture>>, 3, colors) EXCEPT !.dither = dither, !.twopass = twopass, !.space = space] :
        picture \in {Noise(4, 3, 3, 1), Noise(4, 3, 3, 2), Ramp, Flat}, colors \in {8, 12}, dither \in Dithers,
        twopass \in BOOLEAN, space \in {"RGB", "BGR"}}
    \cup {[Asking(<<Noise(4, 3, 3, 2)>>, 3, 8) EXCEPT !.dither = dither, !.given = Given1] : dither \in {"none", "fs"}}
    \cup {[Asking(<<Noise(4, 3, 1, 3)>>, 1, colors) EXCEPT !.dither = dither] : colors \in {3, 4, 7}, dither \in Dithers}
    \cup {[Asking(<<Noise(3, 3, 4, 1)>>, 4, 30) EXCEPT !.dither = dither] : dither \in Dithers}

Ask(twopass, dither, reset) == [two |-> twopass, dither |-> dither, reset |-> reset]

(* A palette of one picture is kept for the next, changed for a grid and   *)
(* back, or for one that is given.                                         *)
Shown2 ==
    {[Asking(<<Noise(3, 2, 3, 4), Noise(3, 2, 3, 5)>>, 3, 8) EXCEPT
          !.buffered = TRUE, !.one = TRUE, !.external = TRUE, !.two = TRUE, !.passes = 3,
          !.twopass = TRUE, !.dither = dither, !.maps = {Given1, Given2},
          !.menu = {Ask(TRUE, "fs", TRUE), Ask(TRUE, "none", FALSE), Ask(FALSE, "ordered", TRUE), Ask(FALSE, "fs", FALSE)}] :
        dither \in {"none", "ordered"}}

MCClients == Once \cup Shown2

-----------------------------------------------------------------------------
OneClient == CHOOSE c \in MCClients : TRUE
OneConfig == CHOOSE k \in MCConfigs : TRUE

Quantizes == phase # "OFF"
QuantIdle ==
    /\ phase = "OFF" /\ client = OneClient
    /\ settings = NoMap /\ enabled = NoMap /\ active = 1 /\ dummy = FALSE /\ grid = NoMap /\ boxed = NoMap
    /\ hist = NoMap /\ codes = <<>> /\ pass = 0 /\ madeOf = 0

MCInit ==
    \/ Init /\ QuantIdle
    \/ Init /\ conf = OneConfig /\ QuantInit

MCNext ==
    \/ ~Quantizes /\ Next /\ UNCHANGED quantVars
    \/ Quantizes /\ QuantNext /\ UNCHANGED vars

MCSpec == MCInit /\ [][MCNext]_<<vars, quantVars>> /\ WF_vars(~Quantizes /\ Step)
===============================================================================
