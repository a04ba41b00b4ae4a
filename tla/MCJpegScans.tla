----------------------------- MODULE MCJpegScans -----------------------------
EXTENDS JpegScans

Sequential(comps) ==
    << [FillAScan(1, 0, LastCoef, 0, 0)[1] EXCEPT !.progressive = FALSE, !.comps = comps] >>
Simple == SimpleProgression(1, FALSE)
Both == SimpleProgression(2, FALSE)

Restarting(scans, n) == [s \in DOMAIN scans |-> [scans[s] EXCEPT !.interval = n]]
Arithmetic(scans) == [s \in DOMAIN scans |-> [scans[s] EXCEPT !.arith = TRUE]]

B(seq) == [k \in 0 .. LastCoef |-> seq[k + 1]]
Dense == B(<<7, 7, -6, 5, -7, 6, -5>>)
Gap == B(<<-8, 0, 0, 0, 0, 0, -3>>)
Mixed == B(<<3, -1, 4, 0, 2, 0, 0>>)
Small == B(<<-2, 0, 1, 0, 0, -1, 6>>)
Flat == B(<<1, 0, 0, 0, 0, 0, 0>>)

One == << <<Dense, Dense, Gap, Mixed, Small, Flat>> >>
Empty == << <<Flat, Flat, Flat, Flat, Flat, Flat, Flat, Flat, Gap>> >>
Two == << <<Gap, Small, Dense, Mixed>>, <<Mixed, Gap>> >>

Three == << <<Small, Dense>>, <<Gap>>, <<Mixed>> >>

(* n blocks without an order, most coefficients 0.  With seeds 68 and 271 *)
(* a carry meets stacked 255s.                                            *)
Noise(seed, n) ==
    LET x[j \in 0 .. n * (LastCoef + 1)] == IF j = 0 THEN seed ELSE (75 * x[j - 1] + 74) % 65537
        xs == [j \in 0 .. n * (LastCoef + 1) |-> x[j] \div 7]
        value(y) == IF y % 3 = 0 THEN ((y \div 3) % 17) - 8 ELSE 0 IN
    << [b \in 1 .. n |-> [k \in 0 .. LastCoef |-> value(xs[(b - 1) * (LastCoef + 1) + k + 1])]] >>

Job(image, scans) == [image |-> image, h |-> IF Len(image) = 1 THEN <<1>> ELSE <<2, 1, 1>>, scans |-> scans]

MCJobs ==
    {Job(One, Sequential(<<1>>)), Job(One, Simple), Job(Empty, Restarting(Simple, 2)), Job(Empty, Simple),
     Job(Two, Sequential(<<1, 2>>)), Job(Two, Both), Job(Three, SimpleProgression(3, TRUE)),
     Job(One, Restarting(Sequential(<<1>>), 3))}
    \cup {Job(One, Arithmetic(Restarting(Simple, 2))), Job(Two, Arithmetic(Sequential(<<1, 2>>))),
          Job(Two, Arithmetic(Both)), Job(One, Arithmetic(Restarting(Sequential(<<1>>), 2)))}
    \cup {Job(Noise(s, 8), Simple) : s \in 1 .. 4}
    \cup {Job(Noise(s, 16), Arithmetic(sc)) : s \in {5, 6, 7, 8, 68, 271}, sc \in {Sequential(<<1>>), Simple}}

(* Rising and falling counts of six symbols, gaps among them. *)
MCCounts ==
    LET ordered == {s \in [1 .. 6 -> {0, 1, 2, 4, 9, 20}] : s[6] > 0 /\ \A j \in 1 .. 5 : s[j] <= s[j + 1]}
    IN {[c \in Real |-> IF c % 2 = 0 /\ c < 12 THEN s[c \div 2 + 1] ELSE 0] : s \in ordered}
       \cup {[c \in Real |-> IF c < 6 THEN s[6 - c] ELSE 0] : s \in ordered}
       \cup {[c \in Real |-> 2^(IF c < 9 THEN c ELSE 9)]}
=============================================================================
