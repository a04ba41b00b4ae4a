--------------------------- MODULE MCJpegCompress ----------------------------
EXTENDS JpegCompress

Comp(h, v, n) == [h |-> h, v |-> v, quant |-> n, dc |-> n, ac |-> n]

(* 4:2:0 as yuv420_to_jpeg sets it up, 4:2:2 upright, and one component. *)
Layouts == {<<Comp(2, 2, 0), Comp(1, 1, 1), Comp(1, 1, 1)>>, <<Comp(1, 2, 0), Comp(1, 1, 1)>>,
            <<Comp(2, 1, 0)>>}

(* No script, one scan a component, a component of its own, one that is    *)
(* missing, and components out of order.                                   *)
Scripts == {<<>>, <<<<1>>, <<2, 3>>>>, <<<<1>>, <<2>>>>, <<<<1>>>>, <<<<2, 1>>>>}

Base == [comps : Layouts, width : {3, 9}, height : {5}, scans : Scripts, optimize : BOOLEAN,
         interval : {0, 2}, inRows : {0, 1}, raw : BOOLEAN, dest : {"client", "stdio"},
         size : {3, 12}, all : {<<TRUE>>, <<TRUE, FALSE>>}]

Valid(c) == c.scans # <<<<2, 1>>>> /\ (c.scans = <<<<1>>>> => Len(c.comps) = 1)

(* Images with every script; restarts by the row; wide images; small       *)
(* buffers; two images with one object.                                    *)
MCConfigs == {c \in Base :
    /\ ~Valid(c) => c.raw /\ c.dest = "stdio" /\ c.interval = 0 /\ c.inRows = 0
    /\ c.inRows = 1 => c.interval = 0
    /\ c.width = 9 => c.interval = 2 /\ c.size = 12
    /\ c.size = 3 => c.dest = "stdio" /\ c.raw /\ c.interval = 2
    /\ Len(c.all) = 2 => c.width = 3 /\ c.scans = <<>> /\ c.inRows = 0 /\ Len(c.comps) = 2}
==============================================================================
