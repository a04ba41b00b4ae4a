---------------------------- MODULE JpegDecompress ----------------------------
(***************************************************************************)
(* The decompressor of jni/: jdapimin.c and jdapistd.c (the calls),        *)
(* jdmaster.c (sizes and passes), the output half of jdcoefct.c (blocks to *)
(* rows), jdmainct.c (rows to row groups, with the rows around them),      *)
(* jdsample.c and jdmerge.c (row groups to lines) and jdpostct.c (the      *)
(* passes of a quantizer), over the input side of JpegInput.               *)
(*                                                                         *)
(* A sample is the block it comes from, the table it was multiplied with   *)
(* and its row in the block, or gray; a row of a component has a sample    *)
(* for each column of blocks; a line has, of each component, the row or    *)
(* the two rows it is made from.                                           *)
(***************************************************************************)
EXTENDS JpegInput

CONSTANT MaxLines       \* bound: lines of a call of jpeg_read_scanlines

VARIABLES
    state,      \* global_state
    call,       \* the loop a call is in
    starved,    \* the last call was suspended and nothing was loaded since
    out,        \* output_scan_number, output_scanline, output_iMCU_row and the call's lines
    idct,       \* of each component the table of its multipliers
    main,       \* buffer_full, rowgroup_ctr, rowgroups_avail, whichptr, context_state, iMCU_row_ctr
    lists,      \* xbuffer: the two lists of row pointers
    buf,        \* the main buffer
    up,         \* next_row_out, rows_to_go, color_buf, spare_row and spare_full
    post,       \* is_dummy_pass, starting_row, next_row and whole_image of the quantizer
    shown       \* the lines, or rows, the last step gave the client

outputVars == <<state, call, starved, out, main, post, idct, up, shown, lists, buf>>
vars == <<inputVars, outputVars>>

-----------------------------------------------------------------------------
(* jdmaster.c: the rows and lines of the output.                           *)

OutHeight == DivUp(conf.height * M, D)
DownHeight(c) == DivUp(conf.height * V(c) * S(c), MaxV * D)
DownWidth(c) == DivUp(conf.width * H(c) * S(c), MaxH * D)

(* A row group of a component has the rows of MaxV lines. *)
RowGroup(c) == (V(c) * S(c)) \div M
ColGroup(c) == (H(c) * S(c)) \div M

(* use_merged_upsample. *)
Merged ==
    /\ ~conf.fancy /\ Len(conf.comps) = 3
    /\ H(1) = 2 /\ V(1) <= 2 /\ \A c \in 2 .. 3 : H(c) = 1 /\ V(c) = 1
    /\ \A c \in Comps : S(c) = M

(* jinit_upsampler: which components' lines are made from two rows, and    *)
(* which ones from the rows of the main buffer without a copy.             *)
Fancy(c) ==
    /\ conf.fancy /\ M > 1 /\ DownWidth(c) > 2
    /\ 2 * ColGroup(c) = MaxH /\ 2 * RowGroup(c) = MaxV
FullSize(c) == ~Merged /\ ColGroup(c) = MaxH /\ RowGroup(c) = MaxV
NeedContext == ~conf.raw /\ ~Merged /\ \E c \in Comps : Fancy(c)

(* use_c_buffer *)
UseWhole == control.many \/ conf.buffered

Gray == <<"gray">>
NoRow == <<"none">>
NoPointer == -1

(* jpeg_idct: no table was there yet when the pass began, or no data. *)
Sample(c, content, y) == IF content = Zero \/ idct[c] = 0 THEN Gray ELSE <<content, idct[c], y>>

Groups == IF NeedContext THEN M + 2 ELSE M
NoBuf == [c \in Comps |-> [r \in 0 .. RowGroup(c) * Groups - 1 |->
             [x \in 0 .. WidthInBlocks(c) - 1 |-> NoRow]]]
NoLists == [w \in 0 .. 1 |-> [c \in Comps |->
               [i \in -RowGroup(c) .. RowGroup(c) * (M + 3) - 1 |-> NoPointer]]]
NoMain == [full |-> FALSE, ctr |-> 0, groups |-> 0, which |-> 0, context |-> "prepare", rows |-> 0]
NoUp == [next |-> 0, toGo |-> 0, color |-> <<>>, spare |-> <<>>]
NoPost == [dummy |-> FALSE, crank |-> FALSE, start |-> 0, next |-> 0, whole |-> <<>>]
NoOut == [scan |-> 0, line |-> 0, row |-> 0, ctr |-> 0, wanted |-> 0, passes |-> 0, images |-> 0]

Init ==
    /\ InputInit
    /\ state = "START" /\ call = "none" /\ starved = FALSE
    /\ out = NoOut /\ idct = [c \in Comps |-> 0]
    /\ main = NoMain /\ lists = NoLists /\ buf = NoBuf /\ up = NoUp /\ post = NoPost
    /\ shown = <<>>

-----------------------------------------------------------------------------
(* jdmainct.c: lists of row pointers in which the two row groups of the    *)
(* iMCU row before and the first of this one are beside each other.        *)

(* make_funny_pointers. *)
MadeLists ==
    [w \in 0 .. 1 |-> [c \in Comps |->
        LET g == RowGroup(c) IN
        [i \in DOMAIN lists[w][c] |->
            CASE i < 0 /\ w = 0 -> 0
              [] i \in 0 .. g * (M + 2) - 1 ->
                    IF w = 0 \/ i < g * (M - 2) THEN i
                    ELSE IF i < g * M THEN i + 2 * g ELSE i - 2 * g
              [] OTHER -> lists[w][c][i]]]]

(* Faulty variant: the first row group's lines stay above it. *)
NotWrapped == lists

(* set_wraparound_pointers. *)
Wrapped ==
    [w \in 0 .. 1 |-> [c \in Comps |->
        LET g == RowGroup(c) list == lists[w][c] IN
        [i \in DOMAIN list |->
            CASE i < 0 -> list[g * (M + 2) + i]
              [] i >= g * (M + 2) -> list[i - g * (M + 2)]
              [] OTHER -> list[i]]]]

RowsLeft(c) == Rest(DownHeight(c), V(c) * S(c))

(* set_bottom_pointers. *)
AtBottom ==
    [lists EXCEPT ![main.which] = [c \in Comps |->
        [i \in DOMAIN @[c] |->
            IF i \in RowsLeft(c) .. RowsLeft(c) + 2 * RowGroup(c) - 1 THEN @[c][RowsLeft(c) - 1]
            ELSE @[c][i]]]]
BottomGroups == (RowsLeft(1) - 1) \div RowGroup(1) + 1

Pointer(w, c, i) == IF NeedContext THEN lists[w][c][i] ELSE i
Row(w, c, i) == LET p == Pointer(w, c, i) IN IF p = NoPointer THEN NoRow ELSE buf[c][p]

-----------------------------------------------------------------------------
(* jdmaster.c and jdapistd.c: passes.                                      *)

(* prepare_for_output_pass, but for the second pass of a quantizer. *)
PreparePass(scan) ==
    /\ idct' = [c \in Comps |-> IF idct[c] = 0 THEN quant.latch[c] ELSE idct[c]]
    /\ out' = [out EXCEPT !.scan = scan, !.line = 0, !.row = 0, !.passes = @ + 1]
    /\ up' = [NoUp EXCEPT !.next = MaxV, !.toGo = OutHeight]
    /\ post' = [NoPost EXCEPT !.dummy = conf.quantize = 2,
                   !.whole = [n \in 0 .. RoundUp(OutHeight, MaxV) - 1 |-> NoRow]]
    /\ main' = NoMain /\ lists' = IF NeedContext THEN MadeLists ELSE lists
    /\ state' = "PRESCAN" /\ call' = "dummy"

(* The client calls again only when it has loaded more. *)
CanCall == call = "none" /\ ~starved

ReadHeader ==
    /\ CanCall /\ state \in {"START", "INHEADER"}
    /\ state = "START" => out.images < conf.images
    /\ IF state = "START" THEN ResetInput ELSE UNCHANGED inputVars
    /\ state' = "INHEADER" /\ call' = "header"
    /\ UNCHANGED <<starved, out, idct, main, lists, buf, up, post, shown>>

(* The first call, and those after a suspension. *)
StartDecompress ==
    /\ CanCall /\ shown' = <<>>
    /\ \/ /\ state = "READY" /\ FirstPass
          /\ state' = IF conf.buffered THEN "BUFIMAGE" ELSE "PRELOAD"
          /\ call' = IF conf.buffered THEN "none" ELSE "preload"
       \/ /\ state = "PRELOAD" /\ call' = "preload" /\ UNCHANGED <<inputVars, state>>
       \/ /\ state = "PRESCAN" /\ call' = "dummy" /\ UNCHANGED <<inputVars, state>>
    /\ UNCHANGED <<starved, out, idct, main, lists, buf, up, post>>

(* All scans are in the buffer, or it is not used: the output pass. *)
Preloaded ==
    /\ call = "preload" /\ (control.many => control.eoi)
    /\ PreparePass(control.scan)
    /\ UNCHANGED <<inputVars, starved, buf, shown>>

StartOutput ==
    /\ CanCall /\ state = "BUFIMAGE" /\ out.passes < conf.passes
    /\ \E scan \in 1 .. Len(conf.scans) :
           PreparePass(IF control.eoi THEN AtMost(scan, control.scan) ELSE scan)
    /\ shown' = <<>> /\ UNCHANGED <<inputVars, starved, buf>>

Reading == IF post.crank THEN "crank" ELSE IF main.full THEN "main" ELSE "fill"

(* output_pass_setup: the first pass of a quantizer is made here. *)
DummyPass ==
    /\ call = "dummy"
    /\ \/ /\ post.dummy /\ out.line < OutHeight
          /\ call' = Reading /\ out' = [out EXCEPT !.ctr = out.line, !.wanted = 0]
          /\ UNCHANGED <<state, post>>
       \/ /\ post.dummy /\ out.line >= OutHeight
          /\ post' = [post EXCEPT !.dummy = FALSE, !.crank = TRUE, !.start = 0, !.next = 0]
          /\ out' = [out EXCEPT !.line = 0] /\ UNCHANGED <<state, call>>
       \/ /\ ~post.dummy
          /\ state' = (IF conf.raw THEN "RAW_OK" ELSE "SCANNING") /\ call' = "none"
          /\ UNCHANGED <<out, post>>
    /\ UNCHANGED <<inputVars, starved, idct, main, lists, buf, up, shown>>

ReadScanlines ==
    /\ CanCall /\ state = "SCANNING" /\ out.line < OutHeight
    /\ \E n \in 1 .. MaxLines : out' = [out EXCEPT !.ctr = 0, !.wanted = n]
    /\ call' = Reading /\ shown' = <<>>
    /\ UNCHANGED <<inputVars, state, starved, idct, main, lists, buf, up, post>>

ReadRawData ==
    /\ CanCall /\ state = "RAW_OK" /\ out.line < OutHeight
    /\ call' = "fill" /\ shown' = <<>>
    /\ UNCHANGED <<inputVars, state, starved, out, idct, main, lists, buf, up, post>>

FinishOutput ==
    /\ CanCall /\ conf.buffered /\ state \in {"SCANNING", "RAW_OK", "BUFPOST"}
    /\ state' = "BUFPOST" /\ call' = "post" /\ shown' = <<>>
    /\ UNCHANGED <<inputVars, starved, out, idct, main, lists, buf, up, post>>

FinishDecompress ==
    /\ CanCall
    /\ \/ state \in {"SCANNING", "RAW_OK"} /\ ~conf.buffered /\ out.line >= OutHeight
       \/ state \in {"BUFIMAGE", "STOPPING"}
    /\ state' = "STOPPING" /\ call' = "finish" /\ shown' = <<>>
    /\ UNCHANGED <<inputVars, starved, out, idct, main, lists, buf, up, post>>

(* jpeg_consume_input, by a client that shows what has come, up to EOI. *)
ConsumeInput ==
    /\ CanCall /\ conf.buffered /\ state \in {"BUFIMAGE", "SCANNING", "RAW_OK"} /\ ~control.eoi
    /\ call' = "consume"
    /\ UNCHANGED <<inputVars, state, starved, out, idct, main, lists, buf, up, post, shown>>

-----------------------------------------------------------------------------
(* The loops over consume_input.                                           *)

(* What a call does when consume_input has returned. *)
LoopsOn ==
    \/ call = "header"
    \/ call = "consume"
    \/ call = "preload" /\ control.many /\ ~control.eoi
    \/ call = "post" /\ control.scan <= out.scan /\ ~control.eoi
    \/ call = "finish" /\ ~control.eoi
    \/ call = "fill" /\ UseWhole
          /\ (control.scan < out.scan \/ (control.scan = out.scan /\ at.row <= out.row))

(* Faulty variant: a scan that does not come is waited for. *)
ScanKept(event) == out.scan

(* consume_markers at EOI. *)
ScanAfter(event) ==
    IF event = "eoi" /\ ~control.headers THEN AtMost(out.scan, control.scan) ELSE out.scan

(* process_data returns with no more lines, for want of data. *)
Loop ==
    /\ LoopsOn
    /\ \E event \in {"more", "suspended", "sos", "eoi", "row", "scan"} :
           /\ Consume(event)
           /\ starved' = (event = "suspended")
           /\ state' = IF call = "header" /\ event = "sos" THEN "READY" ELSE state
           /\ call' = IF event = "suspended" \/ (call \in {"header", "consume"} /\ event # "more")
                      THEN "none" ELSE call
           /\ out' = [out EXCEPT !.scan = ScanAfter(event),
                        !.line = IF event = "suspended" /\ call = "fill" /\ ~conf.raw /\ ~post.dummy
                                 THEN @ + out.ctr ELSE @]
    /\ UNCHANGED <<idct, main, lists, buf, up, post, shown>>

FinishedOutput ==
    /\ call = "post" /\ ~LoopsOn
    /\ state' = "BUFIMAGE" /\ call' = "none"
    /\ UNCHANGED <<inputVars, starved, out, idct, main, lists, buf, up, post, shown>>

(* jpeg_abort: what had been allocated for the image is released. *)
Release ==
    /\ state' = "START" /\ call' = "none" /\ starved' = FALSE
    /\ out' = [NoOut EXCEPT !.images = out.images + 1]
    /\ idct' = [c \in Comps |-> 0] /\ main' = NoMain /\ lists' = NoLists /\ buf' = NoBuf
    /\ up' = NoUp /\ post' = NoPost /\ shown' = <<>>
    /\ saved' = <<>> /\ whole' = Blank
    /\ UNCHANGED <<fileVars, pos, avail, marker, restart, scanVars, dataVars>>

Finished == call = "finish" /\ ~LoopsOn /\ Release

(* jpeg_abort_decompress: the client gives the image up. *)
Abort == call = "none" /\ state # "START" /\ Release

LoadMore ==
    /\ call = "none" /\ CanSuspend /\ starved
    /\ \E n \in Loads : Load(n)
    /\ starved' = FALSE
    /\ UNCHANGED <<state, call, out, idct, main, lists, buf, up, post, shown>>

-----------------------------------------------------------------------------
(* jdcoefct.c: an iMCU row to the main buffer, or to the client's.         *)

(* The rows of list w with the blocks "put": of each component, row and    *)
(* column of blocks of the iMCU row what is there.                         *)
Filled(w, put) ==
    [c \in Comps |-> [r \in DOMAIN buf[c] |-> [x \in DOMAIN buf[c][r] |->
        LET is == {i \in 0 .. V(c) * S(c) - 1 :
                      Pointer(w, c, i) = r /\ <<c, i \div S(c), x>> \in DOMAIN put}
        IN IF is = {} THEN buf[c][r][x]
           ELSE LET i == Max(is) IN Sample(c, put[<<c, i \div S(c), x>>], i % S(c))]]]

(* The client has its rows, or the main buffer is full. *)
RowDone ==
    IF conf.raw
    THEN /\ out' = [out EXCEPT !.row = @ + 1, !.line = @ + MaxV * M] /\ call' = "none"
         /\ shown' = <<[raw |-> out.row, rows |-> buf']>>
         /\ UNCHANGED main
    ELSE /\ out' = [out EXCEPT !.row = @ + 1] /\ call' = "main"
         /\ main' = [main EXCEPT !.full = TRUE, !.rows = @ + 1]
         /\ UNCHANGED shown

BlockRows(c) == IF out.row < TotalRows - 1 THEN V(c) ELSE LastRowHeight(c)

(* decompress_data. *)
DecompressData ==
    /\ call = "fill" /\ UseWhole /\ ~LoopsOn
    /\ LET spots == UNION {{<<c, y, x>> : y \in 0 .. BlockRows(c) - 1,
                                          x \in 0 .. WidthInBlocks(c) - 1} : c \in Comps}
       IN buf' = Filled(main.which,
                        [s \in spots |-> whole[s[1]][out.row * V(s[1]) + s[2]][s[3]]])
    /\ RowDone
    /\ UNCHANGED <<inputVars, state, starved, idct, lists, up, post>>

(* The real blocks of an MCU, by their place in the iMCU row. *)
Put(blocks) ==
    LET real == {k \in DOMAIN Places : Here[k][2] < HeightInBlocks(Here[k][1])
                                       /\ Here[k][3] < WidthInBlocks(Here[k][1])}
        spot(k) == <<Here[k][1], at.vert + Places[k].y, Here[k][3]>>
    IN [s \in {spot(k) : k \in real} |-> blocks[CHOOSE k \in real : spot(k) = s]]

(* decompress_onepass, one MCU. *)
DecompressMCU ==
    /\ call = "fill" /\ ~UseWhole
    /\ \E blocks \in {McuBlocks},
          event \in {"more", "row", "scan"} :
        /\ DecodeMCU(blocks, event)
        /\ \E put \in {Put(blocks)} : buf' = Filled(main.which, put)
        /\ IF event = "more" THEN UNCHANGED <<out, call, main, shown>> ELSE RowDone
    /\ UNCHANGED <<whole, state, starved, idct, lists, up, post>>

(* The same, at a restart or where the data is not there. *)
OnepassWaits ==
    /\ call = "fill" /\ ~UseWhole
    /\ \E event \in {"more", "suspended"} :
           /\ FindRestart(event) \/ Restarts(event) \/ McuSuspends(event)
           /\ starved' = (event = "suspended")
           /\ call' = IF event = "suspended" THEN "none" ELSE call
           /\ out' = IF event = "suspended" /\ ~conf.raw /\ ~post.dummy
                     THEN [out EXCEPT !.line = @ + out.ctr] ELSE out
    /\ UNCHANGED <<state, idct, main, lists, buf, up, post, shown>>

-----------------------------------------------------------------------------
(* jdsample.c and jdmerge.c: a row group to lines.                         *)

(* Line y of row group g: of each component the rows of the list, as       *)
(* <<"in", w, i>>, if they are not copied, or what is in them.             *)
Upsampled(w, g, y) ==
    [c \in Comps |->
        LET n == RowGroup(c)
            near == g * n + (y * n) \div MaxV
        IN IF FullSize(c) THEN <<<<"in", w, near>>>>
           ELSE IF Fancy(c)
                THEN <<Row(w, c, near), Row(w, c, IF y % 2 = 0 THEN near - 1 ELSE near + 1)>>
                ELSE <<Row(w, c, near)>>]

(* color_convert *)
Converted(cells) ==
    [c \in Comps |-> IF FullSize(c) THEN <<Row(cells[c][1][2], c, cells[c][1][3])>> ELSE cells[c]]

(* Faulty variant: the bottom is not looked for. *)
EmitPastBottom(room) == AtMost(MaxV - (up.next % MaxV), room)

(* How many lines sep_upsample emits. *)
Emitted(room) == AtMost(MaxV - (up.next % MaxV), AtMost(room, up.toGo))

(* Lines, what is kept, and if the row group is done with. *)
SepUpsample(w, room) ==
    LET first == up.next % MaxV
        color == IF up.next = MaxV THEN [y \in 1 .. MaxV |-> Upsampled(w, main.ctr, y - 1)]
                 ELSE up.color
        n == Emitted(room)
        all == first + n = MaxV
    IN [lines |-> [i \in 1 .. n |-> Converted(color[first + i])],
        up |-> [up EXCEPT !.next = first + n, !.toGo = @ - n, !.color = IF all THEN <<>> ELSE color],
        ctr |-> main.ctr + IF all THEN 1 ELSE 0]

MergedUpsample(w, room) ==
    LET lines == [y \in 1 .. MaxV |-> Upsampled(w, main.ctr, y - 1)]
        n == IF MaxV = 1 THEN 1 ELSE AtMost(2, AtMost(room, up.toGo))
    IN IF up.spare # <<>>
       THEN [lines |-> up.spare, up |-> [up EXCEPT !.spare = <<>>, !.toGo = @ - 1],
             ctr |-> main.ctr + 1]
       ELSE [lines |-> SubSeq(lines, 1, n),
             up |-> [up EXCEPT !.toGo = IF MaxV = 1 THEN @ ELSE @ - n,
                               !.spare = SubSeq(lines, n + 1, MaxV)],
             ctr |-> main.ctr + IF n = MaxV THEN 1 ELSE 0]

Upsample(w, room) == IF Merged THEN MergedUpsample(w, room) ELSE SepUpsample(w, room)

(* jdpostct.c: room for lines in the client's buffer, the strip or the     *)
(* image of the quantizer.                                                 *)
Room ==
    CASE post.dummy -> MaxV - post.next
      [] conf.quantize = 1 -> AtMost(out.wanted - out.ctr, MaxV)
      [] OTHER -> out.wanted - out.ctr

NextStrip(p, n) ==
    IF p.next + n >= MaxV THEN [p EXCEPT !.start = @ + MaxV, !.next = 0]
    ELSE [p EXCEPT !.next = @ + n]

Numbered(lines) == [i \in DOMAIN lines |-> [line |-> out.line + out.ctr + i - 1, cells |-> lines[i]]]

(* post_process_data: lines to the client, or to the quantizer's image. *)
PostProcess(up1) ==
    LET n == Len(up1.lines) IN
    /\ up' = up1.up
    /\ IF post.dummy
       THEN /\ post' = NextStrip([post EXCEPT !.whole = [r \in DOMAIN @ |->
                    IF r - post.start - post.next \in 0 .. n - 1
                    THEN up1.lines[r - post.start - post.next + 1] ELSE @[r]]], n)
            /\ UNCHANGED shown
       ELSE /\ shown' = shown \o Numbered(up1.lines)
            /\ UNCHANGED post

(* process_data returns to its caller with ctr lines. *)
Returns(ctr) ==
    IF post.dummy THEN out' = [out EXCEPT !.line = ctr, !.ctr = 0] /\ call' = "dummy"
    ELSE out' = [out EXCEPT !.line = @ + ctr, !.ctr = 0] /\ call' = "none"

-----------------------------------------------------------------------------
(* jdmainct.c.                                                             *)

ProcessSimple ==
    /\ call = "main" /\ ~NeedContext
    /\ \E up1 \in {Upsample(0, Room)} :
           /\ PostProcess(up1)
           /\ main' = IF up1.ctr >= M THEN [main EXCEPT !.full = FALSE, !.ctr = 0]
                      ELSE [main EXCEPT !.ctr = up1.ctr]
           /\ Returns(out.ctr + Len(up1.lines))
    /\ UNCHANGED <<inputVars, state, starved, idct, lists, buf>>

(* The last row group of the iMCU row before. *)
ProcessPostponed ==
    /\ call = "main" /\ NeedContext /\ main.context = "postponed"
    /\ \E up1 \in {Upsample(main.which, Room)} :
           /\ PostProcess(up1)
           /\ LET ctr == out.ctr + Len(up1.lines)
                  done == up1.ctr >= main.groups
              IN /\ main' = [main EXCEPT !.ctr = up1.ctr,
                                         !.context = IF done THEN "prepare" ELSE @]
                 /\ IF done /\ ctr < out.wanted
                    THEN out' = [out EXCEPT !.ctr = ctr] /\ UNCHANGED call
                    ELSE Returns(ctr)
    /\ UNCHANGED <<inputVars, state, starved, idct, lists, buf>>

Prepare ==
    /\ call = "main" /\ NeedContext /\ main.context = "prepare"
    /\ LET bottom == main.rows = TotalRows IN
       /\ main' = [main EXCEPT !.ctr = 0, !.context = "process",
                               !.groups = IF bottom THEN BottomGroups ELSE M - 1]
       /\ lists' = IF bottom THEN AtBottom ELSE lists
    /\ UNCHANGED <<inputVars, state, call, starved, out, idct, buf, up, post, shown>>

(* All row groups but the last, and then the other list. *)
ProcessContext ==
    /\ call = "main" /\ NeedContext /\ main.context = "process"
    /\ \E up1 \in {Upsample(main.which, Room)} :
           /\ PostProcess(up1)
           /\ IF up1.ctr < main.groups
              THEN main' = [main EXCEPT !.ctr = up1.ctr] /\ UNCHANGED lists
              ELSE /\ lists' = IF main.rows = 1 THEN Wrapped ELSE lists
                   /\ main' = [main EXCEPT !.which = 1 - @, !.full = FALSE, !.ctr = M + 1,
                                           !.groups = M + 2, !.context = "postponed"]
           /\ Returns(out.ctr + Len(up1.lines))
    /\ UNCHANGED <<inputVars, state, starved, idct, buf>>

(* process_data_crank_post and post_process_2pass. *)
Crank ==
    /\ call = "crank"
    /\ LET n == AtMost(MaxV - post.next, AtMost(out.wanted - out.ctr, OutHeight - post.start))
           lines == [i \in 1 .. n |-> post.whole[post.start + post.next + i - 1]]
       IN /\ shown' = Numbered(lines)
          /\ post' = NextStrip(post, n)
          /\ Returns(out.ctr + n)
    /\ UNCHANGED <<inputVars, state, starved, idct, main, lists, buf, up>>

Step ==
    \/ ReadHeader \/ StartDecompress \/ Preloaded \/ StartOutput \/ DummyPass
    \/ ReadScanlines \/ ReadRawData \/ FinishOutput \/ FinishDecompress
    \/ Loop \/ FinishedOutput \/ Finished \/ LoadMore
    \/ DecompressData \/ DecompressMCU \/ OnepassWaits
    \/ ProcessSimple \/ ProcessPostponed \/ Prepare \/ ProcessContext \/ Crank

Next == Step \/ ConsumeInput \/ (conf.images > 1 /\ Abort)

(* A client that began an image goes on with it, and loads what it lacks. *)
Spec == Init /\ [][Next]_vars /\ WF_vars(Step)

-----------------------------------------------------------------------------
(* What the client should get.                                             *)

ScanOf(c) == CHOOSE s \in DOMAIN conf.scans : c \in ToSet(conf.scans[s])

(* The MCU of its scan a block is in. *)
McuOf(c, row, col) ==
    LET scan == conf.scans[ScanOf(c)] IN
    (row \div McuH(scan, c)) * McusPerRow(scan) + col \div McuW(scan, c)

(* The blocks that may suffer: from the damage to the next restart; where  *)
(* a restart marker is wrong, the intervals it makes one doubt of.         *)
MayBeHurt(c, row, col) ==
    LET s == ScanOf(c) m == McuOf(c, row, col) i == Interval(m) n == conf.damage.n
        by == conf.damage.by
    IN \/ Harm = "cut" /\ (s > conf.damage.scan \/ (s = conf.damage.scan /\ m >= n))
       \/ /\ s = conf.damage.scan
          /\ \/ Harm \in {"less", "more"} /\ m >= n /\ i = Interval(n)
             \/ Harm \in {"lost", "again"} /\ i = n
             \/ Harm = "two lost" /\ i \in {n - 1, n}
             \/ Harm = "other" /\ by \in {1, 2} /\ i \in n .. n + by
             \/ Harm = "other" /\ by \in {6, 7} /\ i = n

(* A pass shows at least the scans up to its own, if it was begun when     *)
(* their tables were there.                                                *)
IsShown(c) == conf.buffered => ScanOf(c) <= out.scan /\ idct[c] # 0
Table(c) == IF conf.requant THEN ScanOf(c) ELSE 1

RowIsRight(c, r, row) ==
    row # NoRow /\ \A x \in 0 .. WidthInBlocks(c) - 1 :
        LET right == <<<<c, r \div S(c), x>>, Table(c), r % S(c)>> IN
        \/ row[x] = right
        \/ row[x] = Gray /\ ~IsShown(c)
        \/ MayBeHurt(c, r \div S(c), x) /\ row[x] # NoRow

(* The rows line n is made from, the last and the first again beyond them. *)
NearRows(c, n) ==
    LET near == (n * RowGroup(c)) \div MaxV
        far == Max({0, AtMost(IF n % 2 = 0 THEN near - 1 ELSE near + 1, DownHeight(c) - 1)})
    IN IF Fancy(c) /\ ~Merged THEN <<near, far>> ELSE <<near>>

LineIsRight(n, cells) ==
    \A c \in Comps :
        LET rows == NearRows(c, n) IN
        /\ Len(cells[c]) = Len(rows)
        /\ \A k \in DOMAIN rows : RowIsRight(c, rows[k], cells[c][k])

RawIsRight(n, rows) ==
    \A c \in Comps : \A r \in 0 .. V(c) * S(c) - 1 :
        LET row == n * V(c) * S(c) + r IN
        row < HeightInBlocks(c) * S(c) => RowIsRight(c, row, rows[c][r])

TypeOK ==
    /\ state \in {"START", "INHEADER", "READY", "PRELOAD", "PRESCAN", "SCANNING", "RAW_OK",
                  "BUFIMAGE", "BUFPOST", "STOPPING"}
    /\ pos \in 1 .. Max({Len(stream) + 3, avail + 1})
    /\ out.line \in 0 .. IF conf.raw THEN TotalRows * MaxV * M ELSE OutHeight
    /\ out.row \in 0 .. TotalRows /\ at.row \in 0 .. TotalRows
    /\ up.toGo \in 0 .. OutHeight /\ main.ctr \in 0 .. M + 2 /\ post.next \in 0 .. MaxV - 1
    /\ Len(entropy.ahead) <= 1

(* However the file is cut into loads and the image into calls, passes and *)
(* scans, the client gets each line once and in order, made from the rows  *)
(* around it and from no other, the outermost ones repeated at the edges;  *)
(* a damage to the file is seen in no more than the restart intervals it   *)
(* touches; and a pass shows at least what has come up to its scan.        *)
(* (process_data_context_main; jpeg_resync_to_restart; decompress_data.)   *)
LinesAreImage ==
    \A i \in DOMAIN shown :
        IF conf.raw THEN RawIsRight(shown[i].raw, shown[i].rows)
        ELSE LineIsRight(shown[i].line, shown[i].cells)

(* When the header was read, each comment is there with as many of its     *)
(* bytes as the client wants, though it came in pieces.  (save_marker.)    *)
SavedIsWhole ==
    state \notin {"START", "INHEADER"} =>
        saved = IF conf.comment = 0 \/ conf.limit = 0 THEN <<>>
                ELSE <<[i \in 1 .. AtMost(conf.comment, conf.limit) |-> <<"C", i>>]>>

(* A client that loads what a call lacks, and goes on, gets to the end of  *)
(* the image, be the file damaged, short, or short of scans a pass asks    *)
(* for.  (decompress_data: "Prevent infinite loop in coef ctlr's".)        *)
Ends == state # "START" ~> state = "START"
===============================================================================
