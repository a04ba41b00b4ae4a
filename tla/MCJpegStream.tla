----------------------------- MODULE MCJpegStream ------------------------------
(***************************************************************************)
(* What a compressor writes, side by side: each behaviour is one of        *)
(* JpegCompress, where a file is its markers and blocks, or of JpegHeaders,*)
(* where the headers are bytes and a decompressor reads them.              *)
(***************************************************************************)
EXTENDS MCJpegCompress, JpegHeaders

MCNaturalOrder == <<1, 3, 4, 2>>
MCBasicTables == <<<<16, 11, 12, 14>>, <<17, 18, 24, 47>>>>
Table(bits, vals) == [bits |-> bits, vals |-> vals]
MCStdHuff ==
    (0 :> <<Table(<<0, 2, 1, 0>>, <<0, 1, 2>>), Table(<<0, 1, 3, 0>>, <<2, 0, 1, 3>>)>>)
    @@ (1 :> <<Table(<<1, 0, 2, 0>>, <<17, 0, 240>>), Table(<<0, 0, 1, 4>>, <<1, 0, 17, 33, 240>>)>>)

Image2(space, n, width, height) ==
    [call |-> "image", space |-> space, comps |-> n, width |-> width, height |-> height]
Defaults == [call |-> "defaults"]
Space(space) == [call |-> "space", space |-> space]
Quality(quality, force) == [call |-> "quality", quality |-> quality, force |-> force]
Restart(n, rows) == [call |-> "restart", interval |-> n, rows |-> rows]
Suppress(suppress) == [call |-> "suppress", suppress |-> suppress]

Whole(params) == [what |-> "image", params |-> params, all |-> TRUE, markers |-> <<>>]
Abbreviated(params) == [Whole(params) EXCEPT !.all = FALSE]
OnlyTables(params) == [what |-> "tables", params |-> params]
Turbo(format, subsamp, quality, width, height) ==
    [what |-> "turbo", params |-> <<>>,
     turbo |-> [format |-> format, subsamp |-> subsamp, quality |-> quality, width |-> width, height |-> height]]
Yuv(format, subsamp, width, height) == [Turbo(format, subsamp, -1, width, height) EXCEPT !.what = "yuv"]

Gray == <<Image2("GRAYSCALE", 1, 5, 3), Defaults>>
Color == <<Image2("RGB", 3, 300, 260), Defaults>>

(* Each color space, with its markers and without. *)
Spaces ==
    <<Color, <<Image2("RGB", 3, 4, 4), Defaults, Space("RGB")>>, <<Image2("YCbCr", 3, 1, 9), Defaults>>,
      <<Image2("CMYK", 4, 7, 2), Defaults>>, <<Image2("CMYK", 4, 7, 2), Defaults, Space("YCCK")>>, Gray,
      <<Image2("UNKNOWN", 2, 3, 3), Defaults>>>>
Bare == <<[call |-> "markers", jfif |-> FALSE, adobe |-> FALSE]>>
Adobe == <<[call |-> "markers", jfif |-> FALSE, adobe |-> TRUE]>>

Conditions(L, U, K) == [call |-> "arith", L |-> L, U |-> U, K |-> K]

(* A progressive image with tables made for each scan, a sequential one of two scans. *)
Sending(comps, ss, se, ah, al, tables) ==
    [comps |-> comps, ss |-> ss, se |-> se, ah |-> ah, al |-> al, tables |-> tables]
New(t, table) == [t |-> t, table |-> table]
Other == Table(<<0, 2, 0, 1>>, <<9, 8, 7>>)
Progression ==
    <<Sending(<<1, 2, 3>>, 0, 0, 0, 1, <<New(<<0, 0>>, Other)>>),
      Sending(<<2>>, 1, 2, 0, 1, <<New(<<1, 1>>, Other)>>), Sending(<<1>>, 1, 3, 0, 0, <<>>),
      Sending(<<1, 2, 3>>, 0, 0, 1, 0, <<>>), Sending(<<2>>, 1, 2, 1, 0, <<New(<<1, 1>>, Table(<<1, 1, 0, 0>>, <<4, 5>>))>>)>>
TwoScans == <<Sending(<<1, 3>>, 0, 3, 0, 0, <<>>), Sending(<<2>>, 0, 3, 0, 0, <<New(<<0, 1>>, Other)>>)>>
Script(scans) == [call |-> "scans", scans |-> scans]

UserTables ==
    <<Space("GRAYSCALE"), [call |-> "quant", which |-> 3, table |-> <<1, 40000, 99, 256>>, factor |-> 100, force |-> FALSE],
      [call |-> "huff", t |-> <<0, 2>>, table |-> Other], [call |-> "huff", t |-> <<1, 3>>, table |-> Table(<<0, 4, 0, 0>>, <<5, 6, 7, 8>>)],
      [call |-> "comps", comps |-> <<[SetComp(200, 3, 1, 3) EXCEPT !.dc = 2]>>]>>

Noted(markers) == [Whole(Gray \o <<[call |-> "density", version |-> <<1, 2>>, density |-> <<1, 300, 72>>]>>) EXCEPT !.markers = markers]
Note(before, code, n) == [before |-> before, code |-> code, data |-> [i \in 1 .. n |-> (i * 254) % 256]]

MCJobs ==
    [s \in 1 .. 7 |-> <<Whole(Spaces[s]), Whole(Spaces[(s % 7) + 1])>>]
    \o [s \in 1 .. 4 |-> <<Whole(Spaces[s] \o Bare)>>]
    \o <<<<Whole(Spaces[3] \o Adobe), Whole(Spaces[4] \o Bare)>>,
         <<Whole(Color \o <<Quality(1, FALSE)>>), Abbreviated(<<Quality(1, TRUE)>>), Abbreviated(<<Quality(30, TRUE)>>)>>,
         <<Whole(Color \o <<Conditions(0 :> 1, 0 :> 3, 1 :> 9), Restart(7, 0)>>),
           Whole(Color \o <<Conditions(1 :> 15, 1 :> 15, 0 :> 1), Restart(0, 2)>>), Whole(Color)>>,
         <<Whole(Color \o <<Script(Progression), Restart(0, 1)>>), Whole(<<Script(TwoScans)>>)>>,
         <<Whole(Color \o <<Restart(0, 3500), Script(TwoScans)>>), Whole(Color \o <<Restart(300, 0)>>)>>,
         <<Whole(Gray \o <<Restart(3, 0)>>), Whole(<<>>), Abbreviated(<<Restart(0, 0)>>)>>,
         <<OnlyTables(Color), Abbreviated(<<>>), Abbreviated(<<Quality(50, TRUE)>>), OnlyTables(<<>>)>>,
         <<Whole(Color), Abbreviated(<<Suppress(TRUE)>>), OnlyTables(UserTables), Abbreviated(<<>>), Whole(<<>>)>>,
         <<Noted(<<Note(<<>>, M_COM, 3), Note(<<255, 255>>, M_APP0, 20), Note(<<7, 255, 0, 8>>, M_APP14, 2),
                   Note(<<>>, M_APP0 + 1, 0), Note(<<255, M_RST0 + 3>>, M_DNL, 2)>>), Whole(Gray)>>,
         <<Turbo("RGB", 0, 75, 5, 3), Turbo("BGRA", 5, 75, 5, 3), Turbo("GRAY", 2, 50, 9, 9),
           Turbo("ARGB", 1, 1, 17, 16), Yuv("XRGB", 4, 16, 33), Turbo("GRAY", 3, 100, 1, 1)>>,
         <<Yuv("BGR", 0, 1, 1), Turbo("RGBX", 4, 96, 9, 31), Turbo("BGR", 2, 101, 8, 8), Turbo("XBGR", 2, 40, 300, 7),
           Turbo("ABGR", 3, 0, 8, 24)>>>>

-----------------------------------------------------------------------------
OneConfig == CHOOSE k \in MCConfigs : TRUE

ReadsHeaders == reader.event # "OFF"
HeadersIdle ==
    /\ job = 1 /\ step = 0 /\ comp = 0 /\ bytes = <<>> /\ told = <<>> /\ decomp = 0 /\ supplied = 0
    /\ reader = [pos |-> 0, unread |-> 0, hungry |-> FALSE, event |-> "OFF"]

MCInit ==
    \/ Init /\ HeadersIdle
    \/ Init /\ conf = OneConfig /\ HeadersInit

MCNext ==
    \/ ~ReadsHeaders /\ Next /\ UNCHANGED headerVars
    \/ ReadsHeaders /\ HeadersNext /\ UNCHANGED vars

MCSpec == MCInit /\ [][MCNext]_<<vars, headerVars>> /\ WF_vars(~ReadsHeaders /\ Step)
================================================================================
