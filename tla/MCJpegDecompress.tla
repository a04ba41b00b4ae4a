--------------------------- MODULE MCJpegDecompress ---------------------------
EXTENDS JpegDecompress

Comp(h, v) == [h |-> h, v |-> v]

(* 4:2:0, 4:2:2, 4:4:0 and gray; 4:2:0 is upsampled with the rows around. *)
L420 == <<Comp(2, 2), Comp(1, 1), Comp(1, 1)>>
L422 == <<Comp(2, 1), Comp(1, 1), Comp(1, 1)>>
L440 == <<Comp(1, 2), Comp(1, 1)>>
L1 == <<Comp(1, 1)>>

All(comps) == <<[i \in DOMAIN comps |-> i]>>
Each(comps) == [i \in DOMAIN comps |-> <<i>>]

NoDamage == [kind |-> "none", scan |-> 0, n |-> 0, by |-> 0]
Damages(kinds, scans, ns, bys) == [kind : kinds, scan : scans, n : ns, by : bys]

Plain == [comps |-> L420, width |-> 5, height |-> 7, scans |-> All(L420), interval |-> 0,
          requant |-> FALSE, comment |-> 0, limit |-> 0, source |-> "stdio", damage |-> NoDamage,
          scale |-> 4, fancy |-> TRUE, raw |-> FALSE, buffered |-> FALSE, quantize |-> 0,
          passes |-> 0, images |-> 1]

Of(layouts, configs) ==
    UNION {{[k EXCEPT !.comps = comps, !.scans = scans] :
               scans \in {All(comps), Each(comps)}, k \in configs} : comps \in layouts}

(* Images of one to three rows of iMCUs, whose last one is nearly empty,   *)
(* half full or full, with every way to make lines of them. *)
Lines ==
    Of({L420}, {[Plain EXCEPT !.height = height, !.fancy = fancy, !.quantize = quantize] :
                    height \in {7, 9, 19, 24}, fancy \in BOOLEAN, quantize \in 0 .. 2})
    \cup Of({L422, L440, L1}, {[Plain EXCEPT !.height = 9, !.width = 9, !.raw = raw] : raw \in BOOLEAN})
    \cup Of({L420, L440}, {[Plain EXCEPT !.height = 13, !.width = 9, !.scale = scale, !.fancy = fancy] :
                    scale \in 1 .. 2, fancy \in BOOLEAN})

(* A client that loads the file in pieces, and saves comments. *)
Pieces ==
    Of({L420, L1}, {[Plain EXCEPT !.source = "client", !.comment = 3, !.limit = limit,
                                  !.interval = interval, !.raw = (limit = 2)] :
                        limit \in {0, 2, 5}, interval \in {0, 1}})
    \cup Of({L420}, {[Plain EXCEPT !.source = "client", !.height = 13, !.quantize = 2]})

(* Files with an error. *)
Harmed ==
    {[Plain EXCEPT !.comps = L1, !.scans = All(L1), !.width = 9, !.height = 19, !.interval = 1,
                   !.damage = damage, !.source = source] :
        source \in {"stdio", "client"},
        damage \in Damages({"lost", "again", "two lost", "less", "more"}, {1}, {2, 5}, {0})
                    \cup Damages({"other"}, {1}, {2, 5}, {1, 2, 4, 6, 7})
                    \cup Damages({"cut"}, {1}, {0, 4, 9}, {0})}
    \cup Of({L420}, {[Plain EXCEPT !.height = 19, !.interval = 2, !.damage = damage] :
        damage \in Damages({"lost", "again", "two lost", "less", "more"}, {1}, {1, 2}, {0})
                    \cup Damages({"other"}, {1}, {1}, {1, 2, 4, 6, 7})
                    \cup Damages({"cut"}, {1, 2}, {0, 1}, {0})})

(* Images shown as they come. *)
Shown ==
    {[Plain EXCEPT !.comps = L440, !.scans = Each(L440), !.height = 9, !.buffered = TRUE, !.passes = 2,
                   !.requant = requant, !.damage = damage] :
        requant \in BOOLEAN, damage \in {NoDamage} \cup Damages({"cut"}, {1, 2}, {1}, {0})}
    \cup
    {[Plain EXCEPT !.comps = L440, !.scans = Each(L440), !.buffered = TRUE, !.passes = 1,
                   !.source = "client", !.raw = raw] : raw \in BOOLEAN}

(* A second image, be the first one finished or not. *)
Again == Of({L420}, {[Plain EXCEPT !.images = 2, !.comment = 1, !.limit = 1]})

MCConfigs == Lines \cup Pieces \cup Harmed \cup Shown \cup Again
===============================================================================
