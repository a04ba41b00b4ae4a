----------------------------- MODULE JpegHuffman -----------------------------
(***************************************************************************)
(* jni/jchuff.c: a Huffman table for the symbols a scan counted.           *)
(* jpeg_gen_optimal_table merges the two rarest trees until one is left,   *)
(* shortens the codes that are too long, takes the place of a              *)
(* pseudo-symbol out, and lists the symbols by length;                     *)
(* jpeg_make_c_derived_tbl makes the codes, or refuses the table.          *)
(*                                                                         *)
(* A DC table's symbols are lengths of differences, at most 15 by their    *)
(* nature: that check is left out.                                         *)
(***************************************************************************)
EXTENDS Integers, SequencesExt

CONSTANTS
    Pseudo,     \* the pseudo-symbol, above all others (256 in the code)
    MaxCLen,    \* MAX_CLEN (32)
    Limit,      \* bits a code may have (16)
    Big         \* counts above it are not seen (1000000000)

ASSUME PseudoAssumption == Pseudo \in Nat \ {0} /\ Pseudo < 2^Limit
ASSUME LengthAssumption == Limit \in Nat \ {0} /\ MaxCLen \in Nat /\ MaxCLen > Limit

VARIABLES
    phase,      \* "merge", "limit", "derive", "done", or "refused": ERREXIT;
                \* JpegScans adds those of a scan
    count,      \* history: what was counted
    freq,       \* of each tree, at the symbol that stands for it
    codesize,   \* length of each symbol's code
    others,     \* next symbol in the branch, None at its end
    bits,       \* number of codes of each length
    i,          \* the length looked at
    huffval,    \* symbols by length
    ehufsi,     \* length of each symbol's code, 0 if it has none
    ehufco      \* the code

treeVars == <<freq, codesize, others>>
tableVars == <<bits, i, huffval>>
codeVars == <<ehufsi, ehufco>>
huffVars == <<count, treeVars, tableVars, codeVars>>

Real == 0 .. Pseudo - 1
Symbols == 0 .. Pseudo
None == -1
Nothing == [c \in Real |-> 0]

(* No table is made yet. *)
NoTable ==
    /\ count = Nothing
    /\ freq = [c \in Symbols |-> 0]
    /\ codesize = [c \in Symbols |-> 0] /\ others = [c \in Symbols |-> None]
    /\ bits = [k \in 0 .. MaxCLen |-> 0] /\ i = MaxCLen /\ huffval = <<>>
    /\ ehufsi = Nothing /\ ehufco = Nothing

(* A table is to be made for these counts: at least one symbol's. *)
BeginTable(counts) ==
    /\ phase' = "merge" /\ count' = counts
    /\ freq' = [c \in Symbols |-> IF c = Pseudo THEN 1 ELSE counts[c]]
    /\ codesize' = [c \in Symbols |-> 0] /\ others' = [c \in Symbols |-> None]
    /\ bits' = [k \in 0 .. MaxCLen |-> 0] /\ i' = MaxCLen /\ huffval' = <<>>
    /\ ehufsi' = Nothing /\ ehufco' = Nothing

-----------------------------------------------------------------------------
(* jpeg_gen_optimal_table.                                                 *)

Trees == {c \in Symbols : freq[c] # 0 /\ freq[c] <= Big}

(* The rarest; of those the largest symbol. *)
Smallest(trees) ==
    CHOOSE c \in trees : \A d \in trees : freq[c] < freq[d] \/ (freq[c] = freq[d] /\ d <= c)

(* The symbols of a tree, in the order of their links. *)
Branch(c) ==
    LET from[d \in Symbols] == IF others[d] = None THEN <<d>> ELSE <<d>> \o from[others[d]]
    IN from[c]

(* Faulty variant: the merged tree is as rare as one of its parts. *)
MergeForgets ==
    /\ phase = "merge" /\ Cardinality(Trees) > 1
    /\ LET c1 == Smallest(Trees)
           c2 == Smallest(Trees \ {c1}) IN
       /\ freq' = [freq EXCEPT ![c2] = 0]
       /\ codesize' = [c \in Symbols |-> codesize[c] +
                          IF c \in ToSet(Branch(c1)) \cup ToSet(Branch(c2)) THEN 1 ELSE 0]
       /\ others' = [others EXCEPT ![Last(Branch(c1))] = c2]
    /\ UNCHANGED <<phase, count, tableVars, codeVars>>

(* The two rarest trees are one; their symbols' codes a bit longer. *)
Merge ==
    /\ phase = "merge" /\ Cardinality(Trees) > 1
    /\ LET c1 == Smallest(Trees)
           c2 == Smallest(Trees \ {c1}) IN
       /\ freq' = [freq EXCEPT ![c1] = @ + freq[c2], ![c2] = 0]
       /\ codesize' = [c \in Symbols |-> codesize[c] +
                          IF c \in ToSet(Branch(c1)) \cup ToSet(Branch(c2)) THEN 1 ELSE 0]
       /\ others' = [others EXCEPT ![Last(Branch(c1))] = c2]
    /\ UNCHANGED <<phase, count, tableVars, codeVars>>

CountLengths ==
    /\ phase = "merge" /\ Cardinality(Trees) <= 1
    /\ IF \E c \in Symbols : codesize[c] > MaxCLen
       THEN phase' = "refused" /\ UNCHANGED bits
       ELSE /\ phase' = "limit"
            /\ bits' = [k \in 0 .. MaxCLen |->
                           IF k = 0 THEN 0 ELSE Cardinality({c \in Symbols : codesize[c] = k})]
    /\ UNCHANGED <<count, treeVars, i, huffval, codeVars>>

(* Of two codes that are too long one takes their prefix; the other and a  *)
(* shorter code, which is then a prefix of both, are a bit longer than     *)
(* that.  bits is of bytes.                                                *)
Shorten ==
    /\ phase = "limit" /\ i > Limit /\ bits[i] > 0
    /\ LET shorter == {k \in 1 .. i - 2 : bits[k] > 0}
           j == Max(shorter)
           one == [bits EXCEPT ![i] = (@ - 2) % 256]
           two == [one EXCEPT ![i - 1] = @ + 1]
           three == [two EXCEPT ![j + 1] = @ + 2] IN
       IF shorter = {} THEN phase' = "refused" /\ UNCHANGED bits
       ELSE bits' = [three EXCEPT ![j] = @ - 1] /\ UNCHANGED phase
    /\ UNCHANGED <<count, treeVars, i, huffval, codeVars>>

NextLength ==
    /\ phase = "limit" /\ i > Limit /\ bits[i] = 0
    /\ i' = i - 1
    /\ UNCHANGED <<phase, count, treeVars, bits, huffval, codeVars>>

Longest == Max({k \in 1 .. Limit : bits[k] > 0})
ByLength ==
    FlattenSeq([k \in 1 .. MaxCLen |->
        SelectSeq([c \in 1 .. Pseudo |-> c - 1], LAMBDA c : codesize[c] = k)])

(* Faulty variant: the pseudo-symbol keeps its place. *)
ListsAll ==
    /\ phase = "limit" /\ i = Limit
    /\ huffval' = ByLength
    /\ phase' = "derive"
    /\ UNCHANGED <<count, treeVars, i, bits, codeVars>>

(* The pseudo-symbol gives up a place of the longest there are. *)
ListSymbols ==
    /\ phase = "limit" /\ i = Limit
    /\ bits' = [bits EXCEPT ![Longest] = @ - 1]
    /\ huffval' = ByLength
    /\ phase' = "derive"
    /\ UNCHANGED <<count, treeVars, i, codeVars>>

-----------------------------------------------------------------------------
(* jpeg_make_c_derived_tbl.                                                *)

Huffsize(number) == FlattenSeq([l \in 1 .. Limit |-> [k \in 1 .. number[l] |-> l]])

(* Codes count up, with a 0 added for each bit they get longer. *)
Huffcode(size) ==
    LET code[p \in 1 .. Len(size)] ==
            IF p = 1 THEN 0 ELSE (code[p - 1] + 1) * 2^(size[p] - size[p - 1])
    IN [p \in 1 .. Len(size) |-> code[p]]

(* It checks that there is room behind the codes of each length, and that  *)
(* no symbol is listed twice.                                              *)
IsLegal(size, val) ==
    /\ Len(size) <= Pseudo
    /\ \A p \in DOMAIN size : Huffcode(size)[p] + 1 < 2^size[p]
    /\ \A p \in DOMAIN size : \A q \in 1 .. p - 1 : val[p] # val[q]

MakeCodes ==
    /\ phase = "derive"
    /\ LET size == Huffsize(bits)
           at(c) == {p \in DOMAIN size : huffval[p] = c}
           of(c, code) == IF at(c) = {} THEN 0 ELSE code[Max(at(c))] IN
       IF IsLegal(size, huffval)
       THEN /\ ehufsi' = [c \in Real |-> of(c, size)]
            /\ ehufco' = [c \in Real |-> of(c, Huffcode(size))]
            /\ phase' = "done"
       ELSE phase' = "refused" /\ UNCHANGED codeVars
    /\ UNCHANGED <<count, treeVars, tableVars>>

MakeTable == Merge \/ CountLengths \/ Shorten \/ NextLength \/ ListSymbols \/ MakeCodes

-----------------------------------------------------------------------------
(* A code of n bits begins another of m bits. *)
Begins(code, n, other, m) == n <= m /\ other \div 2^(m - n) = code

(* Whatever is counted, the table made of it is not refused, and can be    *)
(* decoded: what was counted, and nothing else, has a code, of at most 16  *)
(* bits, that begins no other and is not all ones.                         *)
(* (jpeg_gen_optimal_table: "no real symbol is given code-value of all     *)
(* ones".)                                                                 *)
CodesAreUsable ==
    /\ phase # "refused"
    /\ phase = "done" =>
        /\ \A c \in Real : IF count[c] = 0 THEN ehufsi[c] = 0 ELSE ehufsi[c] \in 1 .. Limit
        /\ \A c \in Real : ehufsi[c] > 0 => ehufco[c] \in 0 .. 2^ehufsi[c] - 2
        /\ \A c, d \in Real : c # d /\ ehufsi[c] > 0 /\ ehufsi[d] > 0
               => ~Begins(ehufco[c], ehufsi[c], ehufco[d], ehufsi[d])

(* All lengths the codes of n symbols have in a tree with no branch left   *)
(* free, the shortest first: each is had by splitting a leaf of a smaller.  *)
Lengths ==
    LET trees[n \in 1 .. Pseudo + 1] ==
            IF n = 1 THEN {<<0>>}
            ELSE UNION {{SortSeq(RemoveAt(s, k) \o <<s[k] + 1, s[k] + 1>>, <) : k \in DOMAIN s} :
                        s \in trees[n - 1]}
    IN trees

(* The fewest bits the counted symbols and the pseudo-symbol can be coded  *)
(* with: by any lengths, longer for rarer ones.                            *)
FewestBits ==
    LET times(c) == IF c = Pseudo THEN 1 ELSE count[c]
        coded == SortSeq(SelectSeq([c \in 1 .. Pseudo + 1 |-> c - 1], LAMBDA c : times(c) > 0),
                         LAMBDA a, b : times(a) > times(b))
        cost(s) == MapThenSumSet(LAMBDA k : s[k] * times(coded[k]), DOMAIN coded)
    IN Min({cost(s) : s \in Lengths[Len(coded)]})

Bits == MapThenSumSet(LAMBDA c : codesize[c] * (IF c = Pseudo THEN 1 ELSE count[c]), Symbols)

(* Until lengths are cut no code takes fewer bits; and a symbol counted    *)
(* more often never gets the longer code, though the symbols are listed by *)
(* the lengths of before the cut: but for symbols whose lengths were the   *)
(* same, of which the cut may favour the rarer.                            *)
(* (jpeg_gen_optimal_table: "It's not real clear to me why we don't need   *)
(* to consider the codelength changes made above".)                        *)
CodesAreShort ==
    phase = "done" =>
        /\ Bits = FewestBits
        /\ (\A c \in Symbols : codesize[c] <= Limit) =>
               \A c \in Real : ehufsi[c] <= codesize[c]
        /\ \A c, d \in Real : count[c] > count[d] /\ count[d] > 0 =>
               ehufsi[c] <= ehufsi[d] \/ codesize[c] = codesize[d]

(* What a table made of any counts must be: it can be decoded, and it is   *)
(* short.  (jpeg_gen_optimal_table.)                                       *)
TablesAreRight == CodesAreUsable /\ CodesAreShort
=============================================================================
