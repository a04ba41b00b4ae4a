----------------------------- MODULE JpegEntropy -----------------------------
(***************************************************************************)
(* jni/jchuff.c, jcphuff.c, jdhuff.h, jdhuff.c, jdphuff.c: what Huffman    *)
(* coding makes of an MCU's blocks and back, sequential and progressive.   *)
(*                                                                         *)
(* The encoder makes items: a symbol of a table and bits that follow it;   *)
(* a pass counts the symbols, the next puts them out.  The decoder reads   *)
(* bits ahead of those it needs; it gives up in the middle of an MCU when  *)
(* there are no more, and is to find everything as it was when it starts   *)
(* it anew.  An MCU's blocks are pairs of a component and coefficients, in *)
(* the order they are coded in: the zigzag is left out.                    *)
(***************************************************************************)
EXTENDS Integers, SequencesExt

CONSTANTS
    LastCoef,   \* the last coefficient (DCTSIZE2 - 1: 63)
    Nibble,     \* a symbol is a run of zeros * Nibble + a size (16)
    MaxBits,    \* MAX_COEF_BITS (10)
    MaxCorr,    \* MAX_CORR_BITS (1000)
    Longest16,  \* bits a code may have (16)
    Lookahead,  \* HUFF_LOOKAHEAD (8)
    MinGet,     \* MIN_GET_BITS (25)
    BufSize     \* BUFSIZE of jdhuff.c: bytes a block never needs (128)

ASSUME SizesAssumption ==
    /\ {LastCoef, MaxCorr, Longest16, Lookahead, MinGet, BufSize} \subseteq Nat \ {0}
    /\ Nibble \in Nat /\ Nibble > MaxBits /\ MaxCorr > LastCoef /\ MinGet >= Longest16

NoSymbol == <<"none", 0>>
DcTable(c) == <<"dc", IF c = 1 THEN 0 ELSE 1>>
AcTable(c) == <<"ac", IF c = 1 THEN 0 ELSE 1>>

Zrl == (Nibble - 1) * Nibble
MaxEobrun == 2^(Nibble - 1) - 1

Abs(x) == IF x < 0 THEN -x ELSE x
Sign(x) == IF x < 0 THEN -1 ELSE 1
NBits(x) == CHOOSE n \in 0 .. 20 : x < 2^n /\ (n = 0 \/ 2^(n - 1) <= x)
ToBits(n, v) == [j \in 1 .. n |-> (v \div 2^(n - j)) % 2]
FromBits(s) == FoldLeft(LAMBDA v, b : 2 * v + b, 0, s)

(* What is left of a coefficient when its Al low bits are not sent. *)
Shifted(x, Al) == x \div 2^Al
Transformed(x, Al) == Sign(x) * (Abs(x) \div 2^Al)

-----------------------------------------------------------------------------
(* The encoder.  e.dc: last_dc_val; e.run: EOBRUN; e.corr: the BE buffered *)
(* correction bits; e.togo, e.next: restarts_to_go, next_restart_num;      *)
(* e.items: what was emitted; e.failed: ERREXIT, or a write behind the     *)
(* buffer of correction bits.                                              *)

Encoder(sc) ==
    [dc |-> [c \in 1 .. 4 |-> 0], run |-> 0, corr |-> <<>>,
     togo |-> sc.interval, next |-> 0, items |-> <<>>, failed |-> FALSE]

Item(t, s, n, v) == <<t, s, n, v>>
Emit(e, items) == [e EXCEPT !.items = @ \o items]
Raw(s) == [j \in DOMAIN s |-> Item(NoSymbol, 0, 1, s[j])]
RestartItem(n) == <<Item(<<"rst", n>>, 0, 0, 0)>>

(* A value in as many bits as its magnitude has: that of a negative one is *)
(* complemented.                                                           *)
Valued(t, s, x) == <<Item(t, s, NBits(Abs(x)), IF x < 0 THEN x - 1 ELSE x)>>

EmitEobrun(e, t) ==
    LET n == NBits(e.run) - 1 IN
    IF e.run = 0 THEN e
    ELSE [e EXCEPT !.items = @ \o <<Item(t, n * Nibble, n, e.run)>> \o Raw(e.corr),
                   !.run = 0, !.corr = <<>>, !.failed = @ \/ n > Nibble - 2]

EmitRestart(e, sc) ==
    LET f == Emit(EmitEobrun(e, AcTable(sc.comps[1])), RestartItem(e.next)) IN
    IF sc.Ss = 0 THEN [f EXCEPT !.dc = [c \in 1 .. 4 |-> 0]]
    ELSE [f EXCEPT !.run = 0, !.corr = <<>>]

DcFirst(e, sc, blocks) ==
    FoldLeft(LAMBDA f, b :
        LET v == Shifted(b[2][0], sc.Al)
            diff == v - f.dc[b[1]]
            n == NBits(Abs(diff)) IN
        [f EXCEPT !.dc[b[1]] = v, !.items = @ \o Valued(DcTable(b[1]), n, diff),
                  !.failed = @ \/ n > MaxBits + 1],
        e, blocks)

(* The coefficients that are not 0, each with the run of zeros before it:  *)
(* f[1] the encoder, f[2] the zeros at the end.                            *)
AcRuns(e, t, block, first, last, Al) ==
    FoldLeft(LAMBDA f, k :
        LET x == Transformed(block[k], Al)
            n == NBits(Abs(x))
            g == EmitEobrun(f[1], t) IN
        IF x = 0 THEN <<f[1], f[2] + 1>>
        ELSE << [Emit(g, [z \in 1 .. f[2] \div Nibble |-> Item(t, Zrl, 0, 0)]
                         \o Valued(t, (f[2] % Nibble) * Nibble + n, x))
                 EXCEPT !.failed = @ \/ n > MaxBits], 0 >>,
        <<e, 0>>, [k \in 1 .. last - first + 1 |-> first + k - 1])

AcFirst(e, sc, block) ==
    LET t == AcTable(sc.comps[1])
        f == AcRuns(e, t, block, sc.Ss, sc.Se, sc.Al)
        g == [f[1] EXCEPT !.run = @ + 1] IN
    IF f[2] = 0 THEN f[1]
    ELSE IF g.run = MaxEobrun THEN EmitEobrun(g, t) ELSE g

(* Sequential: the DC coefficient and all others of each block. *)
OneBlock(e, sc, b) ==
    LET f == AcRuns(DcFirst(e, sc, <<b>>), AcTable(b[1]), b[2], 1, LastCoef, 0) IN
    IF f[2] > 0 THEN Emit(f[1], <<Item(AcTable(b[1]), 0, 0, 0)>>) ELSE f[1]

DcRefine(e, sc, blocks) ==
    Emit(e, [j \in DOMAIN blocks |-> Item(NoSymbol, 0, 1, Shifted(blocks[j][2][0], sc.Al))])

(* f.r zeros in a row; f.BR: correction bits of this block not yet out,    *)
(* behind those of earlier blocks in the one buffer.                       *)
Zrls(f, t) ==
    LET zrl == Item(t, Zrl, 0, 0) IN
    IF f.r < Nibble THEN f
    ELSE [e |-> Emit(EmitEobrun(f.e, t), <<zrl>> \o Raw(f.BR) \o [z \in 1 .. f.r \div Nibble - 1 |-> zrl]),
          r |-> f.r % Nibble, BR |-> <<>>]

Refined(f, t, x, abs) ==
    IF abs > 1
    THEN [f EXCEPT !.BR = Append(@, abs % 2),
                   !.e.failed = @ \/ Len(f.e.corr) + Len(f.BR) + 1 > MaxCorr]
    ELSE [e |-> Emit(EmitEobrun(f.e, t),
                     <<Item(t, f.r * Nibble + 1, 1, IF x < 0 THEN 0 ELSE 1)>> \o Raw(f.BR)),
          r |-> 0, BR |-> <<>>]

(* Faulty variant: room for the next block is not looked after. *)
NoRoomKept(f, t) ==
    LET g == [f.e EXCEPT !.run = @ + 1, !.corr = @ \o f.BR] IN
    IF f.r = 0 /\ f.BR = <<>> THEN f.e
    ELSE IF g.run = MaxEobrun THEN EmitEobrun(g, t) ELSE g

(* What is buffered at the end of a block; it goes out when the next block *)
(* might have no room in the buffer.                                       *)
AfterRefine(f, t) ==
    LET g == [f.e EXCEPT !.run = @ + 1, !.corr = @ \o f.BR] IN
    IF f.r = 0 /\ f.BR = <<>> THEN f.e
    ELSE IF g.run = MaxEobrun \/ Len(g.corr) > MaxCorr - (LastCoef + 1) + 1 THEN EmitEobrun(g, t)
    ELSE g

AcRefine(e, sc, block) ==
    LET t == AcTable(sc.comps[1])
        abs(k) == Abs(block[k]) \div 2^sc.Al
        EOB == Max({0} \cup {k \in sc.Ss .. sc.Se : abs(k) = 1})
        step(f, k) ==
            IF abs(k) = 0 THEN [f EXCEPT !.r = @ + 1]
            ELSE Refined(IF k <= EOB THEN Zrls(f, t) ELSE f, t, block[k], abs(k))
    IN AfterRefine(FoldLeft(step, [e |-> e, r |-> 0, BR |-> <<>>],
                            [j \in 1 .. sc.Se - sc.Ss + 1 |-> sc.Ss + j - 1]), t)

EncodeMcu(e, sc, blocks) ==
    LET f == IF sc.interval > 0 /\ e.togo = 0 THEN EmitRestart(e, sc) ELSE e
        g == CASE ~sc.progressive -> FoldLeft(LAMBDA h, b : OneBlock(h, sc, b), f, blocks)
               [] sc.progressive /\ sc.Ss = 0 /\ sc.Ah = 0 -> DcFirst(f, sc, blocks)
               [] sc.progressive /\ sc.Ss = 0 /\ sc.Ah > 0 -> DcRefine(f, sc, blocks)
               [] sc.progressive /\ sc.Ss > 0 /\ sc.Ah = 0 -> AcFirst(f, sc, blocks[1][2])
               [] OTHER -> AcRefine(f, sc, blocks[1][2]) IN
    IF sc.interval = 0 THEN g
    ELSE IF e.togo = 0 THEN [g EXCEPT !.togo = sc.interval - 1, !.next = (@ + 1) % 8]
    ELSE [g EXCEPT !.togo = @ - 1]

FinishItems(e, sc) == EmitEobrun(e, AcTable(sc.comps[1]))

-----------------------------------------------------------------------------
(* Bytes: o.put are bits that make no byte yet.                            *)

NoBytes == [put |-> <<>>, bytes |-> <<>>, failed |-> FALSE]

PutBits(o, s) ==
    LET all == o.put \o s
        byte(j) == FromBits(SubSeq(all, 8 * j - 7, 8 * j))
        stuffed(j) == IF byte(j) = 255 THEN <<255, 0>> ELSE <<byte(j)>>
        n == Len(all) \div 8 IN
    [o EXCEPT !.bytes = @ \o FlattenSeq([j \in 1 .. n |-> stuffed(j)]),
              !.put = SubSeq(all, 8 * n + 1, Len(all))]

FlushBits(o) == [PutBits(o, ToBits(7, 127)) EXCEPT !.put = <<>>]

RST(n) == 208 + n

PutItem(o, item, table) ==
    LET t == item[1] IN
    CASE t[1] = "rst" -> [FlushBits(o) EXCEPT !.bytes = @ \o <<255, RST(t[2])>>]
      [] t = NoSymbol -> PutBits(o, ToBits(item[3], item[4]))
      [] OTHER ->
            LET n == table[t].ehufsi[item[2]] IN
            [PutBits(o, ToBits(n, table[t].ehufco[item[2]]) \o ToBits(item[3], item[4]))
             EXCEPT !.failed = @ \/ n = 0]

-----------------------------------------------------------------------------
(* The decoder.  d.data: what the source has given; d.at: the byte to read; *)
(* d.bits: get_buffer; d.marker: unread_marker; d.short:                    *)
(* insufficient_data; d.blocks: the MCU's coefficients; d.new: those made   *)
(* nonzero; d.val: what was read; d.ok: no need to suspend.                 *)

Decoder(sc) ==
    [data |-> <<>>, at |-> 1, bits |-> <<>>, marker |-> 0, short |-> FALSE, warned |-> FALSE,
     dc |-> [c \in 1 .. 4 |-> 0], run |-> 0, togo |-> sc.interval, next |-> 0,
     blocks |-> <<>>, new |-> {}, val |-> 0, ok |-> TRUE, fast |-> FALSE, k |-> 0]

(* Bytes are loaded until there are enough bits, no more bytes, or there   *)
(* is a marker.                                                            *)
RECURSIVE Load(_)
Load(d) ==
    LET rest == {q \in d.at .. Len(d.data) : d.data[q] # 255}
        q == Min(rest)
        byte(b) == Load([d EXCEPT !.bits = @ \o ToBits(8, b), !.at = q + 1]) IN
    IF Len(d.bits) >= MinGet THEN d
    ELSE IF rest = {} THEN [d EXCEPT !.ok = FALSE]
    ELSE IF q = d.at THEN byte(d.data[q])
    ELSE IF d.data[q] = 0 THEN byte(255)
    ELSE [d EXCEPT !.marker = d.data[q], !.at = q + 1]

(* At a marker 0 bits are made up for those that miss. *)
Padded(d, n) ==
    IF d.ok /\ d.marker # 0 /\ n > Len(d.bits)
    THEN [d EXCEPT !.bits = @ \o [j \in 1 .. MinGet - Len(@) |-> 0],
                   !.short = TRUE, !.warned = TRUE]
    ELSE d
FillBitBuffer(d, n) == Padded(IF d.marker = 0 THEN Load(d) ELSE d, n)

(* GET_BYTE: in front of a marker it stays, and makes up a 0 byte. *)
GetByte(d) ==
    LET c == d.data[d.at]
        stuffed == c = 255 /\ d.data[d.at + 1] = 0 IN
    IF c = 255 /\ ~stuffed
    THEN [d EXCEPT !.bits = @ \o ToBits(8, 0), !.marker = d.data[d.at + 1]]
    ELSE [d EXCEPT !.bits = @ \o ToBits(8, c), !.at = @ + (IF stuffed THEN 2 ELSE 1)]

FillFast(d) == IF Len(d.bits) < 16 THEN GetByte(GetByte(d)) ELSE d

Checked(d, n) ==
    IF d.fast THEN FillFast(d)
    ELSE IF Len(d.bits) < n THEN FillBitBuffer(d, n) ELSE d

Take(d, n) ==
    IF d.ok THEN [d EXCEPT !.val = FromBits(SubSeq(d.bits, 1, n)), !.bits = SubSeq(@, n + 1, Len(@))]
    ELSE d
GetBits(d, n) == Take(IF d.ok THEN Checked(d, n) ELSE d, n)

(* jpeg_make_d_derived_tbl: the largest code of a length, the symbol of a  *)
(* code.                                                                   *)
MaxCode(t, l) == Max({-1} \cup {t.huffcode[p] : p \in {q \in DOMAIN t.huffsize : t.huffsize[q] = l}})
SymbolOf(t, l, code) ==
    t.huffval[CHOOSE p \in DOMAIN t.huffsize : t.huffsize[p] = l /\ t.huffcode[p] = code]

(* A bit is added until it is a code. *)
RECURSIVE Longer(_, _, _)
Longer(d, t, l) ==
    LET g == IF d.fast THEN Take(d, 1) ELSE GetBits(d, 1) IN
    IF ~d.ok THEN d
    ELSE IF l > Longest16 THEN [d EXCEPT !.val = 0, !.warned = TRUE]
    ELSE IF d.val <= MaxCode(t, l) THEN [d EXCEPT !.val = SymbolOf(t, l, @)]
    ELSE Longer([g EXCEPT !.val = 2 * d.val + @], t, l + 1)

(* HUFF_DECODE: short codes are looked up. *)
LookedUp(d, t) ==
    IF Len(d.bits) < Lookahead THEN 1
    ELSE Min({Lookahead + 1} \cup
             {l \in 1 .. Lookahead : FromBits(SubSeq(d.bits, 1, l)) <= MaxCode(t, l)})
Symbol(d, t) ==
    LET from(f) == IF f.ok THEN Longer(GetBits(f, LookedUp(f, t)), t, LookedUp(f, t)) ELSE f
    IN from(IF d.ok /\ (d.fast \/ Len(d.bits) < Lookahead) THEN Checked(d, 0) ELSE d)

Extended(x, s) == IF x < 2^(s - 1) THEN x + 1 - 2^s ELSE x

(* A value of s bits. *)
Value(d, s) ==
    IF s = 0 \/ ~d.ok THEN d
    ELSE LET g == GetBits(d, s) IN [g EXCEPT !.val = Extended(@, s)]

(* DC: a difference to the block before. *)
DecodeDc(d, sc, n, c, table) ==
    LET valued(f) == Value(f, f.val)
        stored(v) == IF v.ok THEN [v EXCEPT !.dc[c] = @ + v.val, !.blocks[n][2][0] = (v.val + v.dc[c]) * 2^sc.Al]
                     ELSE v
    IN stored(valued(Symbol(d, table[DcTable(c)])))

(* EOBr: a run of blocks that end here, this one among them. *)
EobRun(d, r) == IF d.ok THEN [d EXCEPT !.run = 2^r + d.val] ELSE d

(* AC coefficients from k on: d.k is where the band ends.  Sequential      *)
(* coding has no runs of blocks.                                           *)
RECURSIVE DecodeAc(_, _, _, _, _)
DecodeAc(d, sc, n, k, t) ==
    LET stored(v, at) == IF v.ok THEN DecodeAc([v EXCEPT !.blocks[n][2][at] = v.val * 2^sc.Al], sc, n, at + 1, t)
                         ELSE v
        last(f) == IF f.ok THEN [f EXCEPT !.run = @ - 1] ELSE f
        from(s, r, size) ==
            IF ~s.ok THEN s
            ELSE IF size > 0 THEN stored(Value(s, size), k + r)
            ELSE IF r = Nibble - 1 THEN DecodeAc(s, sc, n, k + Nibble, t)
            ELSE IF ~sc.progressive THEN s
            ELSE last(EobRun(GetBits(s, r), r))
        split(s) == from(s, s.val \div Nibble, s.val % Nibble)
    IN IF ~d.ok \/ k > d.k THEN d ELSE split(Symbol(d, t))

(* A coefficient that is not 0 has one more bit: if it is set and was not  *)
(* when this MCU was given up, the coefficient grows.                      *)
Corrected(d, Al) ==
    LET grown(g, x) == IF g.ok /\ g.val = 1 /\ (x \div 2^Al) % 2 = 0
                       THEN [g EXCEPT !.blocks[1][2][d.k] = x + Sign(x) * 2^Al]
                       ELSE g
    IN grown(GetBits(d, 1), d.blocks[1][2][d.k])

(* d.k moves behind r coefficients that are 0, up to the next that is. *)
RECURSIVE Advance(_, _, _)
Advance(d, sc, r) ==
    LET on(g) == IF g.ok THEN Advance([g EXCEPT !.k = @ + 1], sc, r) ELSE g IN
    IF ~d.ok \/ d.k > sc.Se THEN d
    ELSE IF d.blocks[1][2][d.k] # 0 THEN on(Corrected(d, sc.Al))
    ELSE IF r = 0 THEN d ELSE Advance([d EXCEPT !.k = @ + 1], sc, r - 1)

(* All that are 0 stay it. *)
EndOfBand(d, sc) ==
    LET counted(f) == IF f.ok THEN [f EXCEPT !.run = @ - 1] ELSE f
    IN counted(Advance(d, sc, LastCoef + 1))

(* A new coefficient's sign comes before the bits of those it passes.      *)
RECURSIVE RefineAc(_, _, _)
RefineAc(d, sc, t) ==
    LET new(f, sign) ==
            IF f.ok THEN RefineAc([f EXCEPT !.blocks[1][2][f.k] = (2 * sign - 1) * 2^sc.Al,
                                            !.new = @ \cup {f.k}, !.k = @ + 1], sc, t)
            ELSE f
        signed(g, r) == new(Advance(g, sc, r), g.val)
        zeros(f) == IF f.ok THEN RefineAc([f EXCEPT !.k = @ + 1], sc, t) ELSE f
        from(s, r, size) ==
            IF ~s.ok THEN s
            ELSE IF size > 0 THEN signed(GetBits([s EXCEPT !.warned = @ \/ size # 1], 1), r)
            ELSE IF r = Nibble - 1 THEN zeros(Advance(s, sc, r))
            ELSE EndOfBand(EobRun(GetBits(s, r), r), sc)
        split(s) == from(s, s.val \div Nibble, s.val % Nibble)
    IN IF ~d.ok \/ d.k > sc.Se THEN d ELSE split(Symbol(d, t))

(* Faulty variant: what was made nonzero before it suspends stays so. *)
NothingUndone(d) == d

(* undoit: coefficients made nonzero are 0 again; corrections stay. *)
Undone(d) == [d EXCEPT !.blocks[1][2] = [k \in DOMAIN @ |-> IF k \in d.new THEN 0 ELSE @[k]]]

DecodeAcRefine(d, sc, t) ==
    LET f == [d EXCEPT !.k = sc.Ss]
        undo(g) == IF g.ok THEN g ELSE Undone(g)
    IN undo(IF d.run > 0 THEN EndOfBand(f, sc) ELSE RefineAc(f, sc, t))

DecodeAcFirst(d, sc, t) ==
    IF d.run > 0 THEN [d EXCEPT !.run = @ - 1]
    ELSE DecodeAc([d EXCEPT !.k = sc.Se], sc, 1, sc.Ss, t)

(* Sequential: a block's coefficients.  One at a time the blocks of an MCU *)
(* until one suspends.                                                     *)
DecodeBlock(d, sc, n, table) ==
    LET c == d.blocks[n][1] IN
    DecodeAc([DecodeDc(d, sc, n, c, table) EXCEPT !.k = LastCoef], sc, n, 1, table[AcTable(c)])

OverBlocks(op(_, _), d) ==
    FoldLeft(LAMBDA f, n : IF f.ok THEN op(f, n) ELSE f, d, [n \in DOMAIN d.blocks |-> n])

(* One more bit of the DC coefficient. *)
DecodeDcRefine(d, sc, n) ==
    LET bit(g) == IF g.ok /\ g.val = 1 /\ Shifted(g.blocks[n][2][0], sc.Al) % 2 = 0
                  THEN [g EXCEPT !.blocks[n][2][0] = @ + 2^sc.Al] ELSE g
    IN bit(GetBits(d, 1))

DecodeMcuSlow(d, sc, table) ==
    CASE ~sc.progressive -> OverBlocks(LAMBDA f, n : DecodeBlock(f, sc, n, table), d)
      [] sc.progressive /\ sc.Ss = 0 /\ sc.Ah = 0 ->
            OverBlocks(LAMBDA f, n : DecodeDc(f, sc, n, f.blocks[n][1], table), d)
      [] sc.progressive /\ sc.Ss = 0 /\ sc.Ah > 0 -> OverBlocks(LAMBDA f, n : DecodeDcRefine(f, sc, n), d)
      [] sc.progressive /\ sc.Ss > 0 /\ sc.Ah = 0 -> DecodeAcFirst(d, sc, table[AcTable(sc.comps[1])])
      [] OTHER -> DecodeAcRefine(d, sc, table[AcTable(sc.comps[1])])

(* With enough bytes at hand a sequential MCU is decoded without asking    *)
(* for more; if it came to a marker, once more and carefully.              *)
UsesFast(d, sc) ==
    /\ ~sc.progressive /\ sc.interval = 0 /\ d.marker = 0
    /\ Len(d.data) - d.at + 1 >= BufSize * Len(d.blocks)

DecodeMcu(d, sc, table) ==
    LET slow(e) == DecodeMcuSlow(e, sc, table)
        again(fast) == IF fast.marker = 0 THEN [fast EXCEPT !.fast = FALSE]
                       ELSE slow([d EXCEPT !.blocks = fast.blocks])
    IN IF d.short /\ ~(sc.Ss = 0 /\ sc.Ah > 0) THEN d
       ELSE IF UsesFast(d, sc) THEN again(slow([d EXCEPT !.fast = TRUE]))
       ELSE slow(d)

(* next_marker, unless one was come to; bytes it skips are warned of. *)
NextMarker(d) ==
    LET found == {q \in d.at + 1 .. Len(d.data) : d.data[q - 1] = 255 /\ d.data[q] \notin {0, 255}}
        q == Min(found) IN
    IF d.marker # 0 THEN d
    ELSE IF found = {} THEN [d EXCEPT !.ok = FALSE]
    ELSE [d EXCEPT !.at = q + 1, !.marker = d.data[q],
                   !.warned = @ \/ \E s \in d.at .. q - 1 : d.data[s] # 255]

(* process_restart: bits that are left are thrown away, bytes among them   *)
(* warned of, and the marker after them is the next restart marker.  What  *)
(* is done when it is another one is in JpegInput.                         *)
ProcessRestart(d, sc) ==
    LET f == NextMarker([d EXCEPT !.bits = <<>>, !.warned = @ \/ Len(d.bits) >= 8]) IN
    IF ~f.ok THEN f
    ELSE [f EXCEPT !.marker = 0, !.warned = @ \/ f.marker # RST(d.next), !.next = (@ + 1) % 8,
                   !.short = FALSE, !.dc = [c \in 1 .. 4 |-> 0], !.run = 0, !.togo = sc.interval]
=============================================================================
