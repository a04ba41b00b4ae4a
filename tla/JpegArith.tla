------------------------------ MODULE JpegArith ------------------------------
(***************************************************************************)
(* jni/jcarith.c, jdarith.c, jaricom.c: arithmetic coding of an MCU.       *)
(*                                                                         *)
(* An MCU is a sequence of decisions, each with the statistics bin that    *)
(* says how likely it is; the encoder narrows an interval by each and puts *)
(* out the bytes it is sure of, the decoder follows it.  Neither suspends. *)
(***************************************************************************)
EXTENDS JpegEntropy

(* jpeg_aritab: size of the less probable part, next states after the less *)
(* and the more probable symbol, and whether the two change places.        *)
Aritab == <<
    <<23069, 1, 1, 1>>, <<9606, 14, 2, 0>>, <<4372, 16, 3, 0>>, <<2059, 18, 4, 0>>, <<984, 20, 5, 0>>,
    <<474, 23, 6, 0>>, <<229, 25, 7, 0>>, <<111, 28, 8, 0>>, <<54, 30, 9, 0>>, <<26, 33, 10, 0>>,
    <<13, 35, 11, 0>>, <<6, 9, 12, 0>>, <<3, 10, 13, 0>>, <<1, 12, 13, 0>>, <<23167, 15, 15, 1>>,
    <<16165, 36, 16, 0>>, <<11506, 38, 17, 0>>, <<8316, 39, 18, 0>>, <<6073, 40, 19, 0>>, <<4482, 42, 20, 0>>,
    <<3311, 43, 21, 0>>, <<2465, 45, 22, 0>>, <<1839, 46, 23, 0>>, <<1372, 48, 24, 0>>, <<1030, 49, 25, 0>>,
    <<771, 51, 26, 0>>, <<576, 52, 27, 0>>, <<433, 54, 28, 0>>, <<324, 56, 29, 0>>, <<245, 57, 30, 0>>,
    <<183, 59, 31, 0>>, <<138, 60, 32, 0>>, <<104, 62, 33, 0>>, <<78, 63, 34, 0>>, <<59, 32, 35, 0>>,
    <<44, 33, 9, 0>>, <<23265, 37, 37, 1>>, <<18508, 64, 38, 0>>, <<14861, 65, 39, 0>>, <<12017, 67, 40, 0>>,
    <<9759, 68, 41, 0>>, <<7987, 69, 42, 0>>, <<6568, 70, 43, 0>>, <<5400, 72, 44, 0>>, <<4471, 73, 45, 0>>,
    <<3700, 74, 46, 0>>, <<3067, 75, 47, 0>>, <<2552, 77, 48, 0>>, <<2145, 78, 49, 0>>, <<1798, 79, 50, 0>>,
    <<1485, 48, 51, 0>>, <<1246, 50, 52, 0>>, <<1039, 50, 53, 0>>, <<867, 51, 54, 0>>, <<724, 52, 55, 0>>,
    <<604, 53, 56, 0>>, <<504, 54, 57, 0>>, <<420, 55, 58, 0>>, <<352, 56, 59, 0>>, <<293, 57, 60, 0>>,
    <<246, 58, 61, 0>>, <<203, 59, 62, 0>>, <<171, 61, 63, 0>>, <<143, 61, 32, 0>>, <<23314, 65, 65, 1>>,
    <<19716, 80, 66, 0>>, <<16684, 81, 67, 0>>, <<14296, 82, 68, 0>>, <<12264, 83, 69, 0>>, <<10556, 84, 70, 0>>,
    <<9081, 86, 71, 0>>, <<7903, 87, 72, 0>>, <<6825, 87, 73, 0>>, <<5966, 72, 74, 0>>, <<5156, 72, 75, 0>>,
    <<4508, 74, 76, 0>>, <<3947, 74, 77, 0>>, <<3409, 75, 78, 0>>, <<2998, 77, 79, 0>>, <<2624, 77, 48, 0>>,
    <<22578, 80, 81, 1>>, <<19740, 88, 82, 0>>, <<17294, 89, 83, 0>>, <<15325, 90, 84, 0>>, <<13550, 91, 85, 0>>,
    <<11950, 92, 86, 0>>, <<10650, 93, 87, 0>>, <<9494, 86, 71, 0>>, <<21872, 88, 89, 1>>, <<19625, 95, 90, 0>>,
    <<17625, 96, 91, 0>>, <<15906, 97, 92, 0>>, <<14372, 99, 93, 0>>, <<12980, 99, 94, 0>>, <<11799, 93, 86, 0>>,
    <<22184, 95, 96, 1>>, <<20294, 101, 97, 0>>, <<18405, 102, 98, 0>>, <<16847, 103, 99, 0>>, <<15421, 104, 100, 0>>,
    <<14174, 99, 93, 0>>, <<21041, 105, 102, 0>>, <<19471, 106, 103, 0>>, <<17977, 107, 104, 0>>, <<16734, 103, 99, 0>>,
    <<22055, 105, 106, 1>>, <<20711, 108, 107, 0>>, <<19333, 109, 103, 0>>, <<21911, 110, 109, 0>>, <<20559, 111, 107, 0>>,
    <<23056, 110, 111, 1>>, <<21794, 112, 109, 0>>, <<23019, 112, 111, 1>>, <<23069, 113, 113, 0>> >>

Fixed == <<"fixed", 0, 0>>
NoBins == (Fixed :> <<113, 0>>)

(* arith_dc_L, arith_dc_U, arith_ac_K as jpeg_set_defaults leaves them. *)
DcL == 0
DcU == 1
AcK == 5

(* Bin n of a table; its state and its more probable symbol. *)
Bin(t, n) == <<t[1], t[2], n>>
State(e, st) == IF st \in DOMAIN e.bins THEN e.bins[st] ELSE <<0, 0>>
Qe(s) == Aritab[s[1] + 1][1]

Learned(e, st, lps) ==
    LET s == State(e, st)
        q == Aritab[s[1] + 1] IN
    [e EXCEPT !.bins = (st :> IF lps THEN <<q[2], (s[2] + q[4]) % 2>> ELSE <<q[3], s[2]>>) @@ @]

-----------------------------------------------------------------------------
(* The encoder.  e.buffer: the last byte that a carry may still change;    *)
(* e.sc: 255s behind it; e.zc: zeros before it, not out yet, for the last  *)
(* ones are not put out at all.                                            *)

ArithEncoder(sc) ==
    [c |-> 0, a |-> 65536, sc |-> 0, zc |-> 0, ct |-> 11, buffer |-> -1, bytes |-> <<>>,
     bins |-> NoBins, dc |-> [c \in 1 .. 4 |-> 0], context |-> [c \in 1 .. 4 |-> 0],
     togo |-> sc.interval, next |-> 0, failed |-> FALSE]

Stuffed(b) == IF b = 255 THEN <<255, 0>> ELSE <<b>>

(* Pending zeros go out before any other byte. *)
EmitBytes(e, s) == [e EXCEPT !.bytes = @ \o [z \in 1 .. e.zc |-> 0] \o s, !.zc = 0]

(* Faulty variant: the stacked 255s are forgotten when a carry comes. *)
CarryForgets(e) ==
    [IF e.buffer >= 0 THEN EmitBytes(e, Stuffed(e.buffer + 1)) ELSE e EXCEPT !.sc = 0]

(* A carry makes zeros of the stacked 255s. *)
Carry(e) ==
    [IF e.buffer >= 0 THEN EmitBytes(e, Stuffed(e.buffer + 1)) ELSE e
     EXCEPT !.zc = @ + e.sc, !.sc = 0]

NoCarry(e) ==
    LET f == IF e.buffer > 0 THEN EmitBytes(e, <<e.buffer>>)
             ELSE [e EXCEPT !.zc = @ + IF e.buffer = 0 THEN 1 ELSE 0] IN
    IF e.sc = 0 THEN f
    ELSE [EmitBytes(f, FlattenSeq([j \in 1 .. e.sc |-> <<255, 0>>])) EXCEPT !.sc = 0]

ByteOut(e) ==
    LET temp == e.c \div 2^19
        f == IF temp = 255 THEN [e EXCEPT !.sc = @ + 1]
             ELSE [IF temp > 255 THEN Carry(e) ELSE NoCarry(e) EXCEPT !.buffer = temp % 256] IN
    [f EXCEPT !.c = @ % 2^19, !.ct = @ + 8]

RECURSIVE Renormalized(_)
Renormalized(e) ==
    LET f == [e EXCEPT !.a = 2 * @, !.c = 2 * @, !.ct = @ - 1]
        g == IF f.ct = 0 THEN ByteOut(f) ELSE f IN
    IF g.a < 2^15 THEN Renormalized(g) ELSE g

(* The more probable symbol has the lower part of the interval, unless the *)
(* upper is the larger: then the two change places.                        *)
ArithEncode(e, decision) ==
    LET part(lps, qe, a) == IF lps = (a >= qe) THEN [e EXCEPT !.c = @ + a, !.a = qe] ELSE [e EXCEPT !.a = a]
        from(lps, qe, a) ==
            IF ~lps /\ a >= 2^15 THEN part(lps, qe, a)
            ELSE Renormalized(Learned(part(lps, qe, a), decision[1], lps))
        interval(s, qe) == from(decision[2] # s[2], qe, e.a - qe)
        state(s) == interval(s, Qe(s))
    IN state(State(e, decision[1]))

(* finish_pass: the number in the interval with the most zeros at its end, *)
(* without them.                                                           *)
ArithFinish(e) ==
    LET temp == ((e.a - 1 + e.c) \div 2^16) * 2^16
        c == (IF temp < e.c THEN temp + 2^15 ELSE temp) * 2^e.ct
        f == IF c >= 2^27 THEN Carry(e) ELSE NoCarry(e)
        high == (c \div 2^19) % 256
        low == (c \div 2^11) % 256 IN
    IF high = 0 /\ low = 0 THEN f
    ELSE EmitBytes(f, Stuffed(high) \o IF low = 0 THEN <<>> ELSE Stuffed(low))

(* The bins a magnitude's category is decided in: those of start, and then *)
(* one after the other from rest on.                                       *)
PathBin(path, j) ==
    IF j <= Len(path.start) THEN path.start[j] ELSE path.rest + j - Len(path.start) - 1
DcPath(st) == [start |-> <<st>>, rest |-> 20]
AcPath(k) == [start |-> <<3 * k - 1, 3 * k - 1>>, rest |-> IF k <= AcK THEN 189 ELSE 217]

MagnitudeDecisions(t, path, v) ==
    LET n == NBits(v)
        last == PathBin(path, n + 1)
        low == IF n = 0 THEN <<>> ELSE Tail(ToBits(n, v)) IN
    [j \in 1 .. n |-> <<Bin(t, PathBin(path, j)), 1>>] \o << <<Bin(t, last), 0>> >>
    \o [j \in DOMAIN low |-> <<Bin(t, last + 14), low[j]>>]

Negative(x) == IF x < 0 THEN 1 ELSE 0

(* How a difference conditions the next. *)
ContextOf(diff) ==
    LET n == NBits(Abs(diff) - 1)
        m == IF n = 0 THEN 0 ELSE 2^(n - 1)
        small == 4 + 4 * Negative(diff) IN
    IF diff = 0 \/ m < 2^DcL \div 2 THEN 0 ELSE IF m > 2^DcU \div 2 THEN small + 8 ELSE small

DcDecisions(t, context, diff) ==
    IF diff = 0 THEN << <<Bin(t, context), 0>> >>
    ELSE << <<Bin(t, context), 1>>, <<Bin(t, context + 1), Negative(diff)>> >>
         \o MagnitudeDecisions(t, DcPath(context + 2 + Negative(diff)), Abs(diff) - 1)

RECURSIVE EncodeAll(_, _)
EncodeAll(e, decisions) ==
    IF e.failed \/ decisions = <<>> THEN e
    ELSE EncodeAll(ArithEncode(e, Head(decisions)), Tail(decisions))

ArithDcFirst(e, sc, b) ==
    LET m == Shifted(b[2][0], sc.Al)
        diff == m - e.dc[b[1]] IN
    EncodeAll([e EXCEPT !.dc[b[1]] = m, !.context[b[1]] = ContextOf(diff)],
              DcDecisions(DcTable(b[1]), e.context[b[1]], diff))

(* A band up to its last coefficient that is not 0: of(k) are the          *)
(* decisions about coefficient k; where a run starts, it is decided that   *)
(* the band does not end, unless it cannot have before kex.                *)
BandDecisions(t, Ss, Se, abs(_), kex, of(_)) ==
    LET ke == Max({0} \cup {k \in 1 .. Se : abs(k) # 0})
        starts(k) == (k = Ss \/ abs(k - 1) # 0) /\ k > kex
        at == Max({ke + 1, Ss}) IN
    FlattenSeq([j \in 1 .. at - Ss |->
        LET k == Ss + j - 1 IN
        (IF starts(k) THEN << <<Bin(t, 3 * k - 3), 0>> >> ELSE <<>>)
        \o (IF abs(k) = 0 THEN << <<Bin(t, 3 * k - 2), 0>> >> ELSE of(k))])
    \o (IF at <= Se THEN << <<Bin(t, 3 * at - 3), 1>> >> ELSE <<>>)

ArithAcFirst(e, t, Ss, Se, Al, block) ==
    LET abs(k) == Abs(block[k]) \div 2^Al
        of(k) == << <<Bin(t, 3 * k - 2), 1>>, <<Fixed, Negative(block[k])>> >>
                 \o MagnitudeDecisions(t, AcPath(k), abs(k) - 1) IN
    EncodeAll(e, BandDecisions(t, Ss, Se, abs, 0, of))

ArithDcRefine(e, sc, b) == ArithEncode(e, <<Fixed, Shifted(b[2][0], sc.Al) % 2>>)

ArithAcRefine(e, sc, block) ==
    LET t == AcTable(sc.comps[1])
        abs(k) == Abs(block[k]) \div 2^sc.Al
        kex == Max({0} \cup {k \in 1 .. sc.Se : abs(k) > 1})
        of(k) == IF abs(k) > 1 THEN << <<Bin(t, 3 * k - 1), abs(k) % 2>> >>
                 ELSE << <<Bin(t, 3 * k - 2), 1>>, <<Fixed, Negative(block[k])>> >> IN
    EncodeAll(e, BandDecisions(t, sc.Ss, sc.Se, abs, kex, of))

ArithBlock(e, sc, b) ==
    CASE ~sc.progressive ->
            ArithAcFirst(ArithDcFirst(e, sc, b), AcTable(b[1]), 1, LastCoef, 0, b[2])
      [] sc.progressive /\ sc.Ss = 0 /\ sc.Ah = 0 -> ArithDcFirst(e, sc, b)
      [] sc.progressive /\ sc.Ss = 0 /\ sc.Ah > 0 -> ArithDcRefine(e, sc, b)
      [] sc.progressive /\ sc.Ss > 0 /\ sc.Ah = 0 ->
            ArithAcFirst(e, AcTable(b[1]), sc.Ss, sc.Se, sc.Al, b[2])
      [] OTHER -> ArithAcRefine(e, sc, b[2])

(* emit_restart: everything starts anew. *)
ArithRestart(e, sc) ==
    [ArithEncoder(sc) EXCEPT !.bytes = ArithFinish(e).bytes \o <<255, RST(e.next)>>,
                             !.next = (e.next + 1) % 8]

ArithEncodeMcu(e, sc, blocks) ==
    LET due == sc.interval > 0 /\ e.togo = 0
        f == FoldLeft(LAMBDA g, b : ArithBlock(g, sc, b), IF due THEN ArithRestart(e, sc) ELSE e, blocks) IN
    IF sc.interval = 0 THEN f ELSE [f EXCEPT !.togo = @ - 1]

-----------------------------------------------------------------------------
(* The decoder.                                                            *)

ArithDecoder(sc, data) ==
    [data |-> data, at |-> 1, marker |-> 0, c |-> 0, a |-> 0, ct |-> -16, bins |-> NoBins,
     dc |-> [c \in 1 .. 4 |-> 0], context |-> [c \in 1 .. 4 |-> 0], togo |-> sc.interval,
     next |-> 0, run |-> 0, warned |-> FALSE, short |-> FALSE, ok |-> TRUE, bits |-> <<>>,
     blocks |-> <<>>, new |-> {}, val |-> 0, k |-> 0]

(* A byte for the C register: 0 at a marker. *)
NextByte(d) ==
    LET q == Min({j \in d.at .. Len(d.data) : d.data[j] # 255})
        byte(b) == [d EXCEPT !.c = 256 * @ + b, !.at = q + 1] IN
    IF d.marker # 0 THEN [d EXCEPT !.c = 256 * @]
    ELSE IF q = d.at THEN byte(d.data[q])
    ELSE IF d.data[q] = 0 THEN byte(255)
    ELSE [byte(0) EXCEPT !.marker = d.data[q]]

(* At first two bytes are read. *)
RECURSIVE Renewed(_)
Renewed(d) ==
    LET ct == d.ct + 7
        f == CASE d.ct > 0 -> [d EXCEPT !.ct = @ - 1]
               [] ct >= 0 /\ d.ct <= 0 -> [NextByte(d) EXCEPT !.ct = ct]
               [] OTHER -> [NextByte(d) EXCEPT !.ct = ct + 1, !.a = IF ct = -1 THEN 2^15 ELSE @] IN
    IF d.a >= 2^15 THEN d ELSE Renewed([f EXCEPT !.a = 2 * @])

ArithDecode(d, st) ==
    LET from(e, s, qe, upper) ==
            LET a == e.a - qe
                lps == upper = (a >= qe)
                f == [e EXCEPT !.a = IF upper THEN qe ELSE a, !.c = IF upper THEN @ - a * 2^e.ct ELSE @,
                               !.val = IF lps THEN 1 - s[2] ELSE s[2]]
            IN IF ~upper /\ a >= 2^15 THEN f ELSE Learned(f, st, lps)
        interval(e, s, qe) == from(e, s, qe, e.c >= (e.a - qe) * 2^e.ct)
        state(e, s) == interval(e, s, Qe(s))
        renewed(e) == state(e, State(e, st))
    IN renewed(Renewed(d))

(* No more is decoded after an overflow. *)
Overflow(d) == [d EXCEPT !.ct = -1, !.warned = TRUE]

RECURSIVE Category(_, _, _, _)
Category(d, t, path, n) ==
    LET more(f) == IF f.val = 0 THEN <<f, n>> ELSE Category(f, t, path, n + 1) IN
    IF n = 16 THEN <<Overflow(d), 0>>
    ELSE more(ArithDecode(d, Bin(t, PathBin(path, n + 1))))

Magnitude(d, t, path) ==
    LET next(f, x) == <<f, 2 * x + f.val>>
        bits(n, cat) ==
            FoldLeft(LAMBDA f, j : next(ArithDecode(f[1], Bin(t, PathBin(path, n + 1) + 14)), f[2]),
                     <<cat[1], IF n = 0 THEN 0 ELSE 1>>, [j \in 1 .. Max({0, n - 1}) |-> j])
        low(cat) == bits(cat[2], cat)
        end(f) == [f[1] EXCEPT !.val = f[2] + 1]
    IN end(low(Category(d, t, path, 0)))

ArithDecodeDc(d, sc, n) ==
    LET c == d.blocks[n][1]
        t == DcTable(c)
        st == d.context[c]
        add(f, diff) == [f EXCEPT !.dc[c] = @ + diff, !.context[c] = ContextOf(diff),
                                  !.blocks[n][2][0] = (f.dc[c] + diff) * 2^sc.Al]
        size(m, negative) == IF m.ct = -1 THEN m ELSE add(m, (1 - 2 * negative) * m.val)
        sign(g) == size(Magnitude(g, t, DcPath(st + 2 + g.val)), g.val)
        from(f) == IF f.val = 0 THEN add(f, 0) ELSE sign(ArithDecode(f, Bin(t, st + 1)))
    IN IF d.ct = -1 THEN d ELSE from(ArithDecode(d, Bin(t, st)))

(* start: a run starts here, and the band may end. *)
RECURSIVE ArithDecodeAc(_, _, _, _, _, _)
ArithDecodeAc(d, n, k, Se, Al, start) ==
    LET t == AcTable(d.blocks[n][1])
        size(m, negative) ==
            IF m.ct = -1 THEN m
            ELSE ArithDecodeAc([m EXCEPT !.blocks[n][2][k] = (1 - 2 * negative) * m.val * 2^Al],
                               n, k + 1, Se, Al, TRUE)
        sign(g) == size(Magnitude(g, t, AcPath(k)), g.val)
        zero(f) == IF f.val = 0 THEN ArithDecodeAc(f, n, k + 1, Se, Al, FALSE) ELSE sign(ArithDecode(f, Fixed))
        run(e) == IF start /\ e.val = 1 THEN e ELSE zero(ArithDecode(e, Bin(t, 3 * k - 2)))
    IN IF d.ct = -1 THEN d
       ELSE IF k > Se THEN IF start THEN d ELSE Overflow(d)
       ELSE run(IF start THEN ArithDecode(d, Bin(t, 3 * k - 3)) ELSE d)

RECURSIVE ArithRefineAc(_, _, _, _, _)
ArithRefineAc(d, sc, k, kex, start) ==
    LET t == AcTable(d.blocks[1][1])
        x == d.blocks[1][2][k]
        asked == start /\ k > kex
        more(f) == ArithRefineAc([f EXCEPT !.blocks[1][2][k] = x + Sign(x) * f.val * 2^sc.Al], sc, k + 1, kex, TRUE)
        sign(f) == ArithRefineAc([f EXCEPT !.blocks[1][2][k] = (1 - 2 * f.val) * 2^sc.Al], sc, k + 1, kex, TRUE)
        zero(f) == IF f.val = 0 THEN ArithRefineAc(f, sc, k + 1, kex, FALSE) ELSE sign(ArithDecode(f, Fixed))
        run(e) == IF asked /\ e.val = 1 THEN e
                  ELSE IF x # 0 THEN more(ArithDecode(e, Bin(t, 3 * k - 1)))
                  ELSE zero(ArithDecode(e, Bin(t, 3 * k - 2)))
    IN IF k > sc.Se THEN IF start THEN d ELSE Overflow(d)
       ELSE run(IF asked THEN ArithDecode(d, Bin(t, 3 * k - 3)) ELSE d)

ArithRefineDc(d, sc, n) ==
    LET bit(f) == IF f.val = 1 /\ Shifted(f.blocks[n][2][0], sc.Al) % 2 = 0
                  THEN [f EXCEPT !.blocks[n][2][0] = @ + 2^sc.Al] ELSE f
    IN bit(ArithDecode(d, Fixed))

ArithDecodeBlock(d, sc, n) ==
    CASE ~sc.progressive -> ArithDecodeAc(ArithDecodeDc(d, sc, n), n, 1, LastCoef, 0, TRUE)
      [] sc.progressive /\ sc.Ss = 0 /\ sc.Ah = 0 -> ArithDecodeDc(d, sc, n)
      [] sc.progressive /\ sc.Ss = 0 /\ sc.Ah > 0 -> ArithRefineDc(d, sc, n)
      [] sc.progressive /\ sc.Ss > 0 /\ sc.Ah = 0 -> ArithDecodeAc(d, n, sc.Ss, sc.Se, sc.Al, TRUE)
      [] OTHER ->
            IF d.ct = -1 THEN d
            ELSE ArithRefineAc(d, sc, sc.Ss, Max({0} \cup {k \in 1 .. sc.Se : d.blocks[n][2][k] # 0}), TRUE)

ArithDecodeMcu(d, sc) ==
    FoldLeft(LAMBDA f, n : ArithDecodeBlock(f, sc, n), d, [n \in DOMAIN d.blocks |-> n])

(* process_restart: everything starts anew behind the marker. *)
ArithProcessRestart(d, sc) ==
    LET f == ProcessRestart(d, sc) IN
    [f EXCEPT !.c = 0, !.a = 0, !.ct = -16, !.bins = NoBins, !.context = [c \in 1 .. 4 |-> 0]]
=============================================================================
