-------------------------- MODULE JpegMemoryProofs ---------------------------
(***************************************************************************)
(* Theorems about JpegMemory, for any alignment, sizes of objects and of   *)
(* slop, and any heap; and, behind them, about the files JpegTransform     *)
(* makes, for any images and transforms: their markers, and that they are  *)
(* the transforms asked for, pixel by pixel.                               *)
(***************************************************************************)
EXTENDS JpegMemory, JpegTransform, SequenceTheorems, FiniteSetTheorems, TLAPS

-----------------------------------------------------------------------------
(* Sizes.                                                                  *)

(* jround_up gives a multiple that is not less.                            *)
LEMMA RoundUpIsEnough ==
    ASSUME NEW n \in Nat, NEW m \in Nat \ {0}
    PROVE  RoundUp(n, m) \in Nat /\ n <= RoundUp(n, m)
  <1> DEFINE q == (n + m - 1) \div m
             r == (n + m - 1) % m
  <1>1. q \in Int /\ r \in 0 .. m - 1 /\ n + m - 1 = m * q + r
    OBVIOUS
  <1>2. q \in Nat
    BY n + m - 1 \in Nat
  <1>3. q * m \in Nat /\ m * q = q * m
    BY <1>2
  <1> HIDE DEF q, r
  <1>4. n <= q * m
    BY <1>1, <1>2, <1>3
  <1> QED
    BY <1>3, <1>4 DEF RoundUp, q

LEMMA SlopIsNat ==
    ASSUME NEW p \in Pools, NEW n \in Nat, Request(n) <= MaxAllocChunk, NEW slop \in Tries(Slop(p, n))
    PROVE  slop \in Nat
  <1>1. Request(n) \in Nat
    BY LayoutAssumption DEF Request
  <1>2. Slop(p, n) \in Nat
    BY <1>1, SlopAssumption DEF Slop, AtMost
  <1> QED
    BY <1>2, SlopAssumption DEF Tries

(* A sequence with one more element has that one more.                     *)
Elements(s) == {s[i] : i \in DOMAIN s}

LEMMA ElementsAppend ==
    ASSUME NEW S, NEW s \in Seq(S), NEW e \in S
    PROVE  Elements(Append(s, e)) = Elements(s) \cup {e}
  <1>1. /\ DOMAIN Append(s, e) = 1 .. Len(s) + 1 /\ DOMAIN s = 1 .. Len(s) /\ Len(s) \in Nat
        /\ \A i \in 1 .. Len(s) : Append(s, e)[i] = s[i]
        /\ Append(s, e)[Len(s) + 1] = e
    OBVIOUS
  <1>2. 1 .. Len(s) + 1 = (1 .. Len(s)) \cup {Len(s) + 1}
    BY <1>1
  <1> QED
    BY <1>1, <1>2, Zenon DEF Elements

-----------------------------------------------------------------------------
(* The heap.                                                               *)

HeapTypes ==
    /\ mem \in 0 .. MaxChunks /\ got \subseteq Chunks
    /\ chunk \in [Chunks -> [size : Nat, pad : 0 .. AlignSize - 1, used : Nat, left : Nat]]
    /\ small \in [Pools -> Seq(Chunks)] /\ large \in [Pools -> SUBSET Chunks]

(* Objects fill a chunk from its header on, and what is left of it fits.   *)
Placed ==
    /\ \A o \in objects :
           /\ o.pool \in Pools /\ o.from \in Nat /\ o.size \in Nat
           /\ o.chunk \in PoolChunks(o.pool)
           /\ Header + chunk[o.chunk].pad <= o.from
           /\ o.from + o.size <= Header + chunk[o.chunk].pad + chunk[o.chunk].used
    /\ \A o, q \in objects : o # q => Apart(o, o.size, q, q.size)

Fits ==
    \A p \in Pools : \A c \in PoolChunks(p) :
        Header + chunk[c].pad + chunk[c].used + chunk[c].left <= chunk[c].size

HeapInv == HeapTypes /\ OneOwner /\ Placed /\ Fits

(* A chunk's owner had it from malloc.                                     *)
LEMMA OwnersHave ==
    ASSUME HeapTypes, OneOwner, NEW p \in Pools, NEW c \in PoolChunks(p)
    PROVE  c \in Chunks /\ c \in got /\ c # mem
  BY DEF HeapTypes, OneOwner, Pools, PoolChunks

(* A pool gets a chunk with its first object.                              *)
Gives(p, c, size, pad, n, left) ==
    /\ c \in Chunks \ got /\ c # 0
    /\ got' = got \cup {c}
    /\ chunk' = [chunk EXCEPT ![c] = [size |-> size, pad |-> pad, used |-> n, left |-> left]]
    /\ \A q \in Pools : PoolChunks(q)' = IF q = p THEN PoolChunks(q) \cup {c} ELSE PoolChunks(q)
    /\ objects' = objects \cup {Object(p, c, Header + pad, n)}
    /\ mem' = mem

LEMMA GivesKeeps ==
    ASSUME HeapInv, HeapTypes', NEW p \in Pools, NEW c, NEW size \in Nat,
           NEW pad \in 0 .. AlignSize - 1, NEW n \in Nat, NEW left \in Nat,
           Gives(p, c, size, pad, n, left), Header + pad + n + left <= size
    PROVE  HeapInv'
  <1> USE LayoutAssumption DEF HeapInv
  <1>1. OneOwner'
    <2>1. c \notin PoolChunks("PERMANENT") \cup PoolChunks("IMAGE") /\ c # mem
      <3>1. mem = 0 \/ mem \in got
        BY DEF OneOwner
      <3> QED
        BY <3>1, OwnersHave DEF Gives, Pools
    <2>2. \/ /\ PoolChunks("PERMANENT")' = PoolChunks("PERMANENT") \cup {c}
             /\ PoolChunks("IMAGE")' = PoolChunks("IMAGE")
          \/ /\ PoolChunks("PERMANENT")' = PoolChunks("PERMANENT")
             /\ PoolChunks("IMAGE")' = PoolChunks("IMAGE") \cup {c}
      BY DEF Gives, Pools
    <2> QED
      BY <2>1, <2>2 DEF OneOwner, Gives
  <1>2. \A q \in Pools : \A d \in PoolChunks(q) :
            d # c /\ chunk'[d] = chunk[d] /\ d \in PoolChunks(q)'
    BY OwnersHave DEF Gives, HeapTypes
  <1>3. chunk'[c] = [size |-> size, pad |-> pad, used |-> n, left |-> left] /\ c \in PoolChunks(p)'
    BY DEF Gives, HeapTypes
  <1>4. Fits'
    BY <1>2, <1>3 DEF Fits, Gives
  <1> DEFINE new == Object(p, c, Header + pad, n)
  <1>5. /\ new.pool = p /\ new.chunk = c /\ new.from = Header + pad /\ new.size = n
        /\ objects' = objects \cup {new}
    BY DEF Object, Gives
  <1> HIDE DEF new
  <1>6. \A o \in objects' :
            /\ o.pool \in Pools /\ o.from \in Nat /\ o.size \in Nat
            /\ o.chunk \in PoolChunks(o.pool)'
            /\ Header + chunk'[o.chunk].pad <= o.from
            /\ o.from + o.size <= Header + chunk'[o.chunk].pad + chunk'[o.chunk].used
    BY <1>2, <1>3, <1>5 DEF Placed
  <1>7. \A o \in objects : o.chunk # c
    BY <1>2 DEF Placed
  <1>8. \A o, q \in objects' : o # q => Apart(o, o.size, q, q.size)
    BY <1>5, <1>7 DEF Placed, Apart
  <1>9. Placed'
    BY <1>6, <1>8 DEF Placed, Apart
  <1> QED
    BY <1>1, <1>4, <1>9

(* A new chunk of small objects.                                           *)
LEMMA NewPoolKeeps ==
    ASSUME HeapInv, NEW p \in Pools, NEW n \in Nat, NewPool(p, n),
           UNCHANGED <<mem, large>>
    PROVE  /\ HeapInv'
           /\ \E c \in Chunks, pad \in 0 .. AlignSize - 1, slop \in Nat :
                  /\ Gives(p, c, Request(n) + slop, pad, n, slop)
                  /\ total' = total + Request(n) + slop
  <1> USE LayoutAssumption DEF HeapInv
  <1>1. PICK c \in Chunks, pad \in Pads, slop \in Tries(Slop(p, n)) :
            /\ Malloc(c, Request(n) + slop, pad, n, slop)
            /\ small' = [small EXCEPT ![p] = Append(@, c)]
            /\ total' = total + Request(n) + slop
            /\ objects' = objects \cup {Object(p, c, Header + pad, n)}
    BY DEF NewPool
  <1>2. slop \in Nat
    BY SlopIsNat DEF NewPool
  <1>3. pad \in 0 .. AlignSize - 1
    BY Zenon
  <1>4. Request(n) + slop \in Nat /\ Header + pad + n + slop <= Request(n) + slop
    BY <1>2, <1>3 DEF Request
  <1>5. \A q \in Pools : PoolChunks(q)' = IF q = p THEN PoolChunks(q) \cup {c} ELSE PoolChunks(q)
    <2>1. ASSUME NEW q \in Pools, q # p
          PROVE  PoolChunks(q)' = PoolChunks(q)
      BY <1>1, <2>1 DEF PoolChunks, HeapTypes
    <2>2. PoolChunks(p)' = PoolChunks(p) \cup {c}
      <3> DEFINE old == small[p]
      <3>1. old \in Seq(Chunks) /\ small'[p] = Append(old, c)
        BY <1>1 DEF HeapTypes
      <3>2. /\ old \in Seq(Chunks) /\ PoolChunks(p) = Elements(old) \cup large[p]
            /\ PoolChunks(p)' = Elements(small'[p]) \cup large[p]
        BY <3>1 DEF PoolChunks, Elements
      <3> HIDE DEF old
      <3>3. Elements(Append(old, c)) = Elements(old) \cup {c}
        BY <3>2, ElementsAppend
      <3> QED
        BY <3>1, <3>2, <3>3
    <2> QED
      BY <2>1, <2>2
  <1>6. HeapTypes'
    <2>1. chunk' \in [Chunks -> [size : Nat, pad : 0 .. AlignSize - 1, used : Nat, left : Nat]]
      BY <1>1, <1>2, <1>3, <1>4 DEF Malloc, HeapTypes
    <2>2. small' \in [Pools -> Seq(Chunks)]
      BY <1>1 DEF HeapTypes
    <2>3. got' \subseteq Chunks
      BY <1>1 DEF HeapTypes, Malloc
    <2> QED
      BY <2>1, <2>2, <2>3 DEF HeapTypes
  <1>7. Gives(p, c, Request(n) + slop, pad, n, slop)
    BY <1>1, <1>5 DEF Gives, Malloc, IsFirstFree, Chunks
  <1>8. HeapInv'
    BY <1>2, <1>3, <1>4, <1>6, <1>7, GivesKeeps
  <1> QED
    BY <1>1, <1>2, <1>3, <1>7, <1>8

(* A chunk for a large object.                                             *)
LEMMA LargeObjectKeeps ==
    ASSUME HeapInv, NEW p \in Pools, NEW size \in Nat, NEW c \in Chunks, NEW pad \in Pads,
           LargeObject(p, size, c, pad), mem' = mem
    PROVE  /\ HeapInv'
           /\ c \notin got
           /\ objects' = objects \cup {Object(p, c, Header + pad, RoundUp(size, AlignSize))}
           /\ RoundUp(size, AlignSize) \in Nat /\ size <= RoundUp(size, AlignSize)
           /\ Gives(p, c, Request(RoundUp(size, AlignSize)), pad, RoundUp(size, AlignSize), 0)
  <1> USE LayoutAssumption DEF HeapInv
  <1> DEFINE n == RoundUp(size, AlignSize)
  <1>1. n \in Nat /\ size <= n
    BY RoundUpIsEnough
  <1>2. /\ Malloc(c, Request(n), pad, n, 0)
        /\ large' = [large EXCEPT ![p] = @ \cup {c}]
        /\ objects' = objects \cup {Object(p, c, Header + pad, n)}
        /\ small' = small
    BY DEF LargeObject
  <1> HIDE DEF n
  <1>3. pad \in 0 .. AlignSize - 1
    BY Zenon
  <1>4. Request(n) \in Nat /\ Header + pad + n + 0 <= Request(n)
    BY <1>1, <1>3 DEF Request
  <1>5. \A q \in Pools : PoolChunks(q)' = IF q = p THEN PoolChunks(q) \cup {c} ELSE PoolChunks(q)
    BY <1>2 DEF PoolChunks, HeapTypes
  <1>6. HeapTypes'
    <2>1. chunk' \in [Chunks -> [size : Nat, pad : 0 .. AlignSize - 1, used : Nat, left : Nat]]
      BY <1>1, <1>2, <1>3, <1>4 DEF Malloc, HeapTypes
    <2>2. got' \subseteq Chunks
      BY <1>2 DEF HeapTypes, Malloc
    <2>3. large' \in [Pools -> SUBSET Chunks]
      BY <1>2 DEF HeapTypes
    <2> QED
      BY <1>2, <2>1, <2>2, <2>3 DEF HeapTypes
  <1>7. Gives(p, c, Request(n), pad, n, 0)
    BY <1>2, <1>5 DEF Gives, Malloc, IsFirstFree, Chunks
  <1>8. HeapInv'
    BY <1>1, <1>3, <1>4, <1>6, <1>7, GivesKeeps
  <1> QED
    BY <1>1, <1>2, <1>7, <1>8 DEF n, Malloc, IsFirstFree

(* An object put where a chunk has room.                                   *)
LEMMA UsesRoomKeeps ==
    ASSUME HeapInv, NEW p \in Pools, NEW n \in Nat, UsesRoom(p, n), UNCHANGED <<mem, large>>
    PROVE  /\ HeapInv'
           /\ got' = got /\ total' = total /\ \A q \in Pools : PoolChunks(q)' = PoolChunks(q)
           /\ \A d \in Chunks : /\ chunk'[d].size = chunk[d].size
                                /\ chunk'[d].used + chunk'[d].left = chunk[d].used + chunk[d].left
  <1> USE LayoutAssumption DEF HeapInv
  <1>1. PICK i \in DOMAIN small[p] :
            LET c == small[p][i] IN
            /\ FirstRoom(p, i, n)
            /\ chunk' = [chunk EXCEPT ![c].used = @ + n, ![c].left = @ - n]
            /\ objects' = objects \cup {Object(p, c, Header + chunk[c].pad + chunk[c].used, n)}
            /\ UNCHANGED <<got, small, total>>
    BY DEF UsesRoom
  <1> DEFINE c == small[p][i]
             new == Object(p, c, Header + chunk[c].pad + chunk[c].used, n)
  <1>2. c \in PoolChunks(p)
    BY DEF PoolChunks
  <1>3. c \in Chunks /\ c \in got /\ c # mem
    BY <1>2, OwnersHave
  <1>4. /\ chunk[c] \in [size : Nat, pad : 0 .. AlignSize - 1, used : Nat, left : Nat]
        /\ chunk[c].left >= n
    BY <1>1, <1>3 DEF FirstRoom, HasRoom, HeapTypes
  <1>5. chunk' = [chunk EXCEPT ![c] = [chunk[c] EXCEPT !.used = @ + n, !.left = @ - n]]
    BY <1>1, <1>3 DEF HeapTypes
  <1>6. /\ chunk'[c] = [chunk[c] EXCEPT !.used = @ + n, !.left = @ - n]
        /\ \A d \in Chunks : d # c => chunk'[d] = chunk[d]
    BY <1>3, <1>5 DEF HeapTypes
  <1>7. /\ chunk'[c].size = chunk[c].size /\ chunk'[c].pad = chunk[c].pad
        /\ chunk'[c].used = chunk[c].used + n /\ chunk'[c].left = chunk[c].left - n
        /\ chunk'[c] \in [size : Nat, pad : 0 .. AlignSize - 1, used : Nat, left : Nat]
    <2> DEFINE old == chunk[c]
    <2>1. old \in [size : Nat, pad : 0 .. AlignSize - 1, used : Nat, left : Nat] /\ old.left >= n
      BY <1>4
    <2>2. chunk'[c] = [old EXCEPT !.used = @ + n, !.left = @ - n]
      BY <1>6
    <2> HIDE DEF old
    <2>3. chunk'[c] = [size |-> old.size, pad |-> old.pad, used |-> old.used + n, left |-> old.left - n]
      BY <2>1, <2>2
    <2>4. old.used + n \in Nat /\ old.left - n \in Nat
      BY <2>1
    <2> QED
      BY <2>1, <2>3, <2>4 DEF old
  <1>8. /\ new.pool = p /\ new.chunk = c /\ new.size = n
        /\ new.from = Header + chunk[c].pad + chunk[c].used
        /\ objects' = objects \cup {new}
    BY <1>1 DEF Object
  <1>9. \A q \in Pools : PoolChunks(q)' = PoolChunks(q)
    BY <1>1 DEF PoolChunks
  <1> HIDE DEF c, new
  <1>10. got' = got /\ small' = small /\ total' = total
    BY <1>1
  <1>11. HeapTypes'
    <2>1. chunk' \in [Chunks -> [size : Nat, pad : 0 .. AlignSize - 1, used : Nat, left : Nat]]
      BY <1>3, <1>5, <1>7, <1>6 DEF HeapTypes
    <2> QED
      BY <2>1, <1>10 DEF HeapTypes
  <1>12. OneOwner'
    BY <1>9, <1>10 DEF OneOwner, Pools
  <1>13. Fits'
    <2> SUFFICES ASSUME NEW q \in Pools, NEW d \in PoolChunks(q)
                 PROVE  Header + chunk'[d].pad + chunk'[d].used + chunk'[d].left <= chunk'[d].size
      BY <1>9 DEF Fits
    <2>1. d \in Chunks /\ Header + chunk[d].pad + chunk[d].used + chunk[d].left <= chunk[d].size
      BY OwnersHave DEF Fits
    <2>2. CASE d = c
      BY <2>1, <2>2, <1>4, <1>7
    <2>3. CASE d # c
      BY <2>1, <2>3, <1>6
    <2> QED
      BY <2>2, <2>3
  <1>14. \A o \in objects :
            /\ o.pool \in Pools /\ o.from \in Nat /\ o.size \in Nat
            /\ o.chunk \in PoolChunks(o.pool)'
            /\ Header + chunk'[o.chunk].pad <= o.from
            /\ o.from + o.size <= Header + chunk'[o.chunk].pad + chunk'[o.chunk].used
    <2> TAKE o \in objects
    <2>1. /\ o.pool \in Pools /\ o.from \in Nat /\ o.size \in Nat
          /\ o.chunk \in PoolChunks(o.pool)
          /\ Header + chunk[o.chunk].pad <= o.from
          /\ o.from + o.size <= Header + chunk[o.chunk].pad + chunk[o.chunk].used
      BY DEF Placed
    <2>2. o.chunk \in Chunks
      BY <2>1, OwnersHave
    <2>3. CASE o.chunk = c
      BY <2>1, <2>3, <1>4, <1>7, <1>9
    <2>4. CASE o.chunk # c
      BY <2>1, <2>2, <2>4, <1>6, <1>9
    <2> QED
      BY <2>3, <2>4
  <1>15. \A o \in objects : o.chunk = c => o.from + o.size <= new.from
    BY <1>8 DEF Placed
  <1>16. /\ new.pool \in Pools /\ new.from \in Nat /\ new.size \in Nat
         /\ new.chunk \in PoolChunks(p)'
         /\ Header + chunk'[new.chunk].pad <= new.from
         /\ new.from + new.size <= Header + chunk'[new.chunk].pad + chunk'[new.chunk].used
    <2>1. chunk[c].pad \in Nat /\ chunk[c].used \in Nat
      BY <1>4
    <2>2. new.from \in Nat
      BY <1>8, <2>1
    <2>3. new.chunk \in PoolChunks(p)'
      BY <1>2, <1>8, <1>9
    <2>4. /\ Header + chunk'[c].pad <= new.from
          /\ new.from + new.size <= Header + chunk'[c].pad + chunk'[c].used
      BY <1>7, <1>8, <2>1
    <2> QED
      BY <1>8, <2>2, <2>3, <2>4
  <1>17. \A o, q \in objects' : o # q => Apart(o, o.size, q, q.size)
    <2>1. \A o \in objects : Apart(o, o.size, new, new.size) /\ Apart(new, new.size, o, o.size)
      BY <1>8, <1>15 DEF Apart
    <2> QED
      BY <2>1, <1>8 DEF Placed
  <1>18. \A o \in objects' :
            /\ o.pool \in Pools /\ o.from \in Nat /\ o.size \in Nat
            /\ o.chunk \in PoolChunks(o.pool)'
            /\ Header + chunk'[o.chunk].pad <= o.from
            /\ o.from + o.size <= Header + chunk'[o.chunk].pad + chunk'[o.chunk].used
    BY <1>8, <1>14, <1>16
  <1>19. Placed'
    BY <1>17, <1>18 DEF Placed, Apart
  <1>20. \A d \in Chunks : /\ chunk'[d].size = chunk[d].size
                           /\ chunk'[d].used + chunk'[d].left = chunk[d].used + chunk[d].left
    <2>1. chunk'[c].used + chunk'[c].left = chunk[c].used + chunk[c].left
      BY <1>4, <1>7
    <2> QED
      BY <2>1, <1>6, <1>7
  <1> QED
    BY <1>9, <1>10, <1>11, <1>12, <1>13, <1>19, <1>20

LEMMA SmallObjectKeeps ==
    ASSUME HeapInv, NEW p \in Pools, NEW size \in Nat, SmallObject(p, size), mem' = mem
    PROVE  HeapInv'
  <1>1. RoundUp(size, AlignSize) \in Nat
    BY RoundUpIsEnough, LayoutAssumption
  <1> QED
    BY <1>1, UsesRoomKeeps, NewPoolKeeps DEF SmallObject

-----------------------------------------------------------------------------
(* What is given back.                                                     *)

LEMMA DestroyedKeeps ==
    ASSUME HeapInv, Destroyed
    PROVE  HeapInv'
  <1> USE LayoutAssumption DEF HeapInv
  <1>1. got' = {}
    BY DEF Destroyed, Frees, OneOwner
  <1>2. \A p \in Pools : PoolChunks(p)' = {}
    BY DEF Destroyed, PoolChunks
  <1>3. chunk' \in [Chunks -> [size : Nat, pad : 0 .. AlignSize - 1, used : Nat, left : Nat]]
    BY DEF Destroyed, Frees, HeapTypes, Empty
  <1>4. HeapTypes'
    <2>1. mem' \in 0 .. MaxChunks
      BY HeapAssumption DEF Destroyed
    <2>2. small' \in [Pools -> Seq(Chunks)] /\ large' \in [Pools -> SUBSET Chunks]
      BY DEF Destroyed
    <2> QED
      BY <1>1, <1>3, <2>1, <2>2 DEF HeapTypes
  <1>5. OneOwner'
    BY <1>1, <1>2 DEF OneOwner, Pools, Destroyed
  <1>6. Placed' /\ Fits'
    BY <1>2 DEF Placed, Fits, Destroyed
  <1> QED
    BY <1>4, <1>5, <1>6

LEMMA FreePoolKeeps ==
    ASSUME HeapInv, NEW p \in Pools, FreePool(p), mem' = mem
    PROVE  HeapInv'
  <1> USE LayoutAssumption DEF HeapInv
  <1>1. PoolChunks(p)' = {} /\ \A q \in Pools : q # p => PoolChunks(q)' = PoolChunks(q)
    BY DEF FreePool, PoolChunks, HeapTypes
  <1>2. \A q \in Pools : q # p => \A d \in PoolChunks(q) : d \notin PoolChunks(p)
    BY DEF OneOwner, Pools
  <1>3. \A q \in Pools : q # p => \A d \in PoolChunks(q) : chunk'[d] = chunk[d]
    BY <1>2, OwnersHave DEF FreePool, Frees
  <1>4. HeapTypes'
    <2>1. chunk' \in [Chunks -> [size : Nat, pad : 0 .. AlignSize - 1, used : Nat, left : Nat]]
      BY DEF FreePool, Frees, HeapTypes, Empty
    <2>2. small' \in [Pools -> Seq(Chunks)] /\ large' \in [Pools -> SUBSET Chunks]
      BY DEF FreePool, HeapTypes
    <2>3. got' \subseteq Chunks
      BY DEF FreePool, Frees, HeapTypes
    <2> QED
      BY <2>1, <2>2, <2>3 DEF HeapTypes
  <1>5. OneOwner'
    BY <1>1, <1>2 DEF OneOwner, Pools, FreePool, Frees
  <1>6. Fits'
    BY <1>1, <1>3 DEF Fits
  <1>7. \A o \in objects' : o \in objects /\ o.pool # p
    BY DEF FreePool
  <1>8. Placed'
    BY <1>1, <1>3, <1>7 DEF Placed, Apart
  <1> QED
    BY <1>4, <1>5, <1>6, <1>8

(* Nothing of the heap is touched.                                         *)
LEMMA QuietKeeps ==
    ASSUME HeapInv, UNCHANGED <<mem, heapVars, small, large, objects>>
    PROVE  HeapInv'
  BY DEF HeapInv, HeapTypes, OneOwner, Placed, Fits, PoolChunks, heapVars, Apart

-----------------------------------------------------------------------------
(* Arrays.  A virtual array's rows below undef were written or zeroed, the *)
(* others never written; it is not defined at all before it is realized.   *)

Marks == {"junk", "zero", "data"}
VirtArrays ==
    [kind : {"sarray", "barray"}, height : Nat \ {0}, width : Nat \ {0}, zero : BOOLEAN,
     undef : Nat, buffer : {<<>>} \cup UNION {[1 .. n -> Marks] : n \in Nat}]

DefinedBelow(buffer, height, undef) ==
    /\ buffer \in [1 .. height -> Marks]
    /\ \A r \in 1 .. height : /\ r < undef => buffer[r] # "junk"
                              /\ r >= undef => buffer[r] # "data"

VirtInv ==
    /\ virt \in Seq(VirtArrays) /\ junk = FALSE
    /\ \A v \in DOMAIN virt :
           /\ virt[v].undef \in 1 .. virt[v].height + 1
           /\ \/ virt[v].buffer = <<>> /\ virt[v].undef = 1
              \/ virt[v].buffer # <<>> /\ DefinedBelow(virt[v].buffer, virt[v].height, virt[v].undef)

ArrayTypes ==
    /\ array \in [pool : Pools, width : Nat, height : Nat, per : Nat,
                  rows : Seq([chunk : Chunks, from : Nat]), virt : Nat]
    /\ call \in {"idle", "rows", "realize"}

(* An array whose rows are made for a virtual one: that is not realized.   *)
Realizes ==
    call = "rows" /\ array.virt # 0 =>
        array.virt \in DOMAIN virt /\ virt[array.virt].buffer = <<>> /\ array.height = virt[array.virt].height

MemoryInv == HeapInv /\ ArrayTypes /\ RowsInPlace /\ VirtInv /\ Realizes

(* What the rows of an access look like, and who wrote them.               *)
LEMMA AccessDefines ==
    ASSUME NEW h \in Nat, NEW a, a.height = h, NEW undef \in 1 .. h + 1, a.undef = undef,
           DefinedBelow(a.buffer, h, undef),
           NEW from \in Nat, NEW to \in Nat, 1 <= from, from <= to, to <= h,
           a.zero \in BOOLEAN
    PROVE  LET z == Zeroed(a, from, to) IN
           /\ z \in [1 .. h -> Marks]
           /\ \A r \in 1 .. h : /\ r < undef => z[r] # "junk"
                                /\ r >= undef => z[r] # "data"
                                /\ a.buffer[r] = "data" => z[r] = "data"
           /\ a.zero \/ undef > to => \A r \in from .. to : z[r] # "junk"
           /\ a.zero /\ undef <= to /\ undef >= from => \A r \in undef .. to : z[r] = "zero"
  <1> DEFINE z == Zeroed(a, from, to)
             b == a.buffer
  <1>1. b \in [1 .. h -> Marks] /\ \A r \in 1 .. h : /\ r < undef => b[r] # "junk"
                                                     /\ r >= undef => b[r] # "data"
    BY DEF DefinedBelow
  <1>2. CASE a.zero /\ undef <= to
    <2>1. z = [r \in 1 .. h |-> IF r \in FirstZeroed(a, from) .. to THEN "zero" ELSE b[r]]
      BY <1>2 DEF Zeroed
    <2>2. FirstZeroed(a, from) = IF undef < from THEN from ELSE undef
      BY DEF FirstZeroed
    <2> HIDE DEF z, b
    <2>3. \A r \in 1 .. h : z[r] = IF undef <= r /\ from <= r /\ r <= to THEN "zero" ELSE b[r]
      BY <2>1, <2>2
    <2>4. z \in [1 .. h -> Marks]
      BY <2>1, <1>1 DEF Marks
    <2>5. \A r \in 1 .. h : /\ r < undef => z[r] # "junk"
                            /\ r >= undef => z[r] # "data"
                            /\ b[r] = "data" => z[r] = "data"
      BY <2>3, <1>1
    <2>6. \A r \in from .. to : z[r] # "junk"
      <3> TAKE r \in from .. to
      <3>1. r \in 1 .. h
        OBVIOUS
      <3> QED
        BY <3>1, <2>3, <1>1
    <2>7. undef >= from => \A r \in undef .. to : z[r] = "zero"
      <3> SUFFICES ASSUME undef >= from, NEW r \in undef .. to
                   PROVE  z[r] = "zero"
        OBVIOUS
      <3>1. r \in 1 .. h
        OBVIOUS
      <3> QED
        BY <3>1, <2>3
    <2> QED
      BY <2>4, <2>5, <2>6, <2>7 DEF z, b
  <1>3. CASE ~(a.zero /\ undef <= to)
    <2>1. z = [r \in 1 .. h |-> b[r]]
      BY <1>3 DEF Zeroed
    <2>2. ~a.zero \/ undef > to
      BY <1>3
    <2>3. undef > to => \A r \in from .. to : r < undef /\ r \in 1 .. h
      OBVIOUS
    <2>4. ~(a.zero /\ undef <= to)
      BY <1>3
    <2>5. undef > to \/ undef <= to
      OBVIOUS
    <2> HIDE DEF z, b
    <2>6. z = b
      BY <2>1, <1>1
    <2>7. a.zero \/ undef > to => undef > to
      BY <2>4, <2>5, Zenon
    <2>8. undef > to => \A r \in from .. to : z[r] # "junk"
      BY <2>3, <2>6, <1>1
    <2>9. \A r \in 1 .. h : /\ r < undef => z[r] # "junk"
                            /\ r >= undef => z[r] # "data"
                            /\ b[r] = "data" => z[r] = "data"
      BY <2>6, <1>1
    <2>10. z \in [1 .. h -> Marks]
      BY <2>6, <1>1
    <2> QED
      BY <2>4, <2>7, <2>8, <2>9, <2>10, Zenon DEF z, b
  <1> QED
    BY <1>2, <1>3

LEMMA BufferIsRealized ==
    ASSUME NEW h \in Nat \ {0}, NEW b \in [1 .. h -> Marks]
    PROVE  b # <<>> /\ b \in {<<>>} \cup UNION {[1 .. n -> Marks] : n \in Nat}
  <1>1. 1 \in DOMAIN b
    OBVIOUS
  <1>2. DOMAIN <<>> = {}
    OBVIOUS
  <1> QED
    BY <1>1, <1>2

(* An access that is not refused.                                          *)
LEMMA AccessedKeeps ==
    ASSUME VirtInv, NEW v \in DOMAIN virt, NEW from \in Nat, NEW to \in Nat, 1 <= from, from <= to,
           NEW writable \in BOOLEAN, ~Refused(v, from, to, writable),
           Accessed(v, from, to, writable)
    PROVE  VirtInv'
  <1> DEFINE a == virt[v]
             h == a.height
             undef == a.undef
             z == Zeroed(a, from, to)
             undef2 == IF writable /\ undef <= to THEN to + 1 ELSE undef
  <1>1. a \in VirtArrays /\ h \in Nat \ {0} /\ undef \in 1 .. h + 1 /\ a.zero \in BOOLEAN
    <2>1. a \in VirtArrays /\ undef \in 1 .. h + 1
      BY DEF VirtInv
    <2> HIDE DEF a
    <2> QED
      BY <2>1 DEF VirtArrays
  <1>2. to <= h /\ a.buffer # <<>>
    BY <1>1 DEF Refused, Unrealized
  <1>3. DefinedBelow(a.buffer, h, undef)
    BY <1>2 DEF VirtInv
  <1>4. writable => undef >= from \/ undef > to
    <2>1. ~(undef <= to /\ IF writable THEN undef < from ELSE ~a.zero)
      BY DEF Refused
    <2>2. (undef <= to \/ undef > to) /\ (undef < from \/ undef >= from)
      BY <1>1
    <2> QED
      BY <2>1, <2>2, Zenon
  <1>5. ~writable => a.zero \/ undef > to
    <2>1. ~(undef <= to /\ IF writable THEN undef < from ELSE ~a.zero)
      BY DEF Refused
    <2>2. undef <= to \/ undef > to
      BY <1>1
    <2> QED
      BY <2>1, <2>2, Zenon
  <1>6. /\ z \in [1 .. h -> Marks]
        /\ \A r \in 1 .. h : /\ r < undef => z[r] # "junk"
                             /\ r >= undef => z[r] # "data"
                             /\ a.buffer[r] = "data" => z[r] = "data"
    BY <1>1, <1>2, <1>3, AccessDefines
  <1>60. /\ a.zero \/ undef > to => \A r \in from .. to : z[r] # "junk"
         /\ a.zero /\ undef <= to /\ undef >= from => \A r \in undef .. to : z[r] = "zero"
    BY <1>1, <1>2, <1>3, AccessDefines
  <1>7. PICK written \in SUBSET (from .. to) :
            /\ IF writable THEN a.zero \/ written = from .. to ELSE written = {}
            /\ virt' = [virt EXCEPT ![v].undef = IF writable /\ @ <= to THEN to + 1 ELSE @,
                                    ![v].buffer = [r \in 1 .. a.height |->
                                        IF r \in written THEN "data" ELSE z[r]]]
    BY DEF Accessed
  <1> HIDE DEF z
  <1>8. junk' = \/ junk
                \/ ~writable /\ \E r \in from .. to : z[r] = "junk"
                \/ \E r \in 1 .. h : a.buffer[r] = "data" /\ z[r] # "data"
    BY DEF Accessed, z
  <1> DEFINE b == [r \in 1 .. h |-> IF r \in written THEN "data" ELSE z[r]]
             a2 == [a EXCEPT !.undef = undef2, !.buffer = b]
  <1>9. virt \in Seq(VirtArrays)
    BY DEF VirtInv
  <1>10. virt' = [virt EXCEPT ![v] = a2]
    BY <1>7, <1>9
  <1> HIDE DEF a
  <1>11. /\ a2.height = h /\ a2.undef = undef2 /\ a2.buffer = b
         /\ a2.kind = a.kind /\ a2.width = a.width /\ a2.zero = a.zero
         /\ a2 = [kind |-> a.kind, height |-> h, width |-> a.width, zero |-> a.zero,
                  undef |-> undef2, buffer |-> b]
    <2>1. a \in [kind : {"sarray", "barray"}, height : Nat \ {0}, width : Nat \ {0}, zero : BOOLEAN,
                 undef : Nat, buffer : {<<>>} \cup UNION {[1 .. n -> Marks] : n \in Nat}]
      BY <1>1 DEF VirtArrays
    <2> HIDE DEF undef2, b
    <2> DEFINE a1 == [a EXCEPT !.undef = undef2]
    <2>3. a1 = [kind |-> a.kind, height |-> h, width |-> a.width, zero |-> a.zero,
                undef |-> undef2, buffer |-> a.buffer]
      BY <2>1 DEF h
    <2>4. a2 = [a1 EXCEPT !.buffer = b]
      OBVIOUS
    <2> HIDE DEF a1
    <2>2. a2 = [kind |-> a.kind, height |-> h, width |-> a.width, zero |-> a.zero,
                  undef |-> undef2, buffer |-> b]
      BY <2>3, <2>4
    <2> HIDE DEF a2
    <2> QED
      BY <2>2
  <1> HIDE DEF h, undef
  <1>12. \/ writable /\ undef <= to /\ undef2 = to + 1
         \/ (~writable \/ undef > to) /\ undef2 = undef
    BY <1>1
  <1>13. undef2 \in 1 .. h + 1
    <2> HIDE DEF undef2
    <2> QED
      BY <1>1, <1>2, <1>12
  <1>14. b \in [1 .. h -> Marks]
    BY <1>6 DEF Marks
  <1>15. DefinedBelow(b, h, undef2)
    <2>1. \A r \in 1 .. h : b[r] = IF r \in written THEN "data" ELSE z[r]
      OBVIOUS
    <2> HIDE DEF b, z, undef2
    <2>2. CASE writable /\ undef <= to /\ undef2 = to + 1
      <3>1. from <= undef
        BY <2>2, <1>1, <1>4
      <3>2. \A r \in 1 .. h : r < undef2 => b[r] # "junk"
        <4> SUFFICES ASSUME NEW r \in 1 .. h, r < undef2
                     PROVE  b[r] # "junk"
          OBVIOUS
        <4>1. CASE r < undef
          <5>1. z[r] # "junk"
            BY <4>1, <1>6
          <5> QED
            BY <5>1, <2>1
        <4>2. CASE r >= undef
          <5>1. r \in undef .. to /\ r \in from .. to
            BY <4>2, <3>1, <2>2, <1>1
          <5>2. written = from .. to \/ a.zero
            BY <1>7, <2>2, Zenon
          <5>3. CASE written = from .. to
            BY <5>1, <5>3, <2>1
          <5>4. CASE a.zero
            <6>1. undef <= to /\ undef >= from
              BY <3>1, <2>2, <1>1
            <6>2. \A s \in undef .. to : z[s] = "zero"
              BY <5>4, <6>1, <1>60, Zenon
            <6> QED
              BY <6>2, <5>1, <2>1
          <5> QED
            BY <5>2, <5>3, <5>4
        <4> QED
          BY <4>1, <4>2, <1>1
      <3>3. \A r \in 1 .. h : r >= undef2 => b[r] # "data"
        <4> SUFFICES ASSUME NEW r \in 1 .. h, r >= undef2
                     PROVE  b[r] # "data"
          OBVIOUS
        <4>1. r \notin from .. to /\ r >= undef
          BY <2>2, <1>1
        <4>2. r \notin written /\ z[r] # "data"
          BY <4>1, <1>6
        <4> QED
          BY <4>2, <2>1
      <3> QED
        BY <3>2, <3>3, <1>14 DEF DefinedBelow
    <2>3. CASE (~writable \/ undef > to) /\ undef2 = undef
      <3>1. \A r \in 1 .. h : r >= undef => r \notin written
        <4> SUFFICES ASSUME NEW r \in 1 .. h, r >= undef
                     PROVE  r \notin written
          OBVIOUS
        <4>1. CASE ~writable
          BY <4>1, <1>7, Zenon
        <4>2. CASE undef > to
          BY <4>2, <1>1
        <4> QED
          BY <4>1, <4>2, <2>3
      <3> QED
        <4>1. \A r \in 1 .. h : r < undef => b[r] # "junk"
          <5> SUFFICES ASSUME NEW r \in 1 .. h, r < undef
                       PROVE  b[r] # "junk"
            OBVIOUS
          <5>1. z[r] # "junk"
            BY <1>6
          <5> QED
            BY <5>1, <2>1
        <4>2. \A r \in 1 .. h : r >= undef => b[r] # "data"
          <5> SUFFICES ASSUME NEW r \in 1 .. h, r >= undef
                       PROVE  b[r] # "data"
            OBVIOUS
          <5>1. z[r] # "data" /\ r \notin written
            BY <1>6, <3>1
          <5> QED
            BY <5>1, <2>1
        <4> QED
          BY <4>1, <4>2, <2>3, <1>14 DEF DefinedBelow
    <2> QED
      BY <1>12, <2>2, <2>3
  <1>16. junk' = FALSE
    <2>1. junk = FALSE
      BY DEF VirtInv
    <2>2. ~(~writable /\ \E r \in from .. to : z[r] = "junk")
      BY <1>5, <1>60, Zenon
    <2>3. ~(\E r \in 1 .. h : a.buffer[r] = "data" /\ z[r] # "data")
      BY <1>6, Zenon
    <2> QED
      BY <1>8, <2>1, <2>2, <2>3, Zenon
  <1> HIDE DEF b, undef2
  <1>17. b # <<>> /\ b \in {<<>>} \cup UNION {[1 .. n -> Marks] : n \in Nat}
    BY <1>1, <1>14, BufferIsRealized
  <1>18. a2 \in VirtArrays
    BY <1>1, <1>11, <1>13, <1>17 DEF VirtArrays
  <1> HIDE DEF a2
  <1>19. virt' \in Seq(VirtArrays) /\ DOMAIN virt' = DOMAIN virt
    BY <1>9, <1>10, <1>18
  <1>20. virt'[v] = a2 /\ \A w \in DOMAIN virt : w # v => virt'[w] = virt[w]
    BY <1>9, <1>10
  <1>21. \A w \in DOMAIN virt' :
            /\ virt'[w].undef \in 1 .. virt'[w].height + 1
            /\ \/ virt'[w].buffer = <<>> /\ virt'[w].undef = 1
               \/ virt'[w].buffer # <<>> /\ DefinedBelow(virt'[w].buffer, virt'[w].height, virt'[w].undef)
    <2> TAKE w \in DOMAIN virt'
    <2>1. CASE w = v
      BY <2>1, <1>11, <1>13, <1>15, <1>17, <1>20
    <2>2. CASE w # v
      BY <2>2, <1>19, <1>20 DEF VirtInv
    <2> QED
      BY <2>1, <2>2
  <1> QED
    BY <1>16, <1>19, <1>21 DEF VirtInv, DefinedBelow

-----------------------------------------------------------------------------
(* Where arrays stay.                                                      *)

LEMMA SameArray ==
    ASSUME ArrayTypes, RowsInPlace, VirtInv, Realizes,
           UNCHANGED <<arrayVars, junk>>, objects \subseteq objects'
    PROVE  ArrayTypes' /\ RowsInPlace' /\ VirtInv' /\ Realizes'
  <1> USE DEF arrayVars
  <1>1. ArrayTypes' /\ Realizes'
    BY DEF ArrayTypes, Realizes
  <1>2. VirtInv'
    BY DEF VirtInv, DefinedBelow
  <1>3. RowsInPlace'
    BY DEF RowsInPlace, Apart
  <1> QED
    BY <1>1, <1>2, <1>3

LEMMA NoArrayIsRight ==
    ASSUME array' = NoArray, virt' = <<>>, call' = "idle", junk' = FALSE
    PROVE  ArrayTypes' /\ RowsInPlace' /\ VirtInv' /\ Realizes'
  <1>1. /\ array'.rows = <<>> /\ array'.height = 0 /\ array'.virt = 0
        /\ array' \in [pool : Pools, width : Nat, height : Nat, per : Nat,
                       rows : Seq([chunk : Chunks, from : Nat]), virt : Nat]
    BY DEF NoArray, Pools
  <1>2. ArrayTypes' /\ Realizes'
    BY <1>1 DEF ArrayTypes, Realizes
  <1>3. VirtInv'
    BY DEF VirtInv
  <1>4. RowsInPlace'
    BY <1>1 DEF RowsInPlace
  <1> QED
    BY <1>2, <1>3, <1>4

LEMMA ErrorExitKeeps ==
    ASSUME MemoryInv, ErrorExit
    PROVE  MemoryInv'
  <1>1. HeapInv'
    BY DestroyedKeeps DEF ErrorExit, MemoryInv
  <1> QED
    BY <1>1, NoArrayIsRight DEF ErrorExit, Destroyed, MemoryInv

LEMMA SmallObjectAdds ==
    ASSUME NEW p \in Pools, NEW size \in Nat, SmallObject(p, size)
    PROVE  objects \subseteq objects'
  BY DEF SmallObject, UsesRoom, NewPool

(* The row pointers of an array, whose rows come next.                     *)
LEMMA BeginArrayKeeps ==
    ASSUME MemoryInv, NEW p \in Pools, NEW bytes \in Nat \ {0}, NEW height \in Nat, NEW v \in Nat,
           v # 0 => v \in DOMAIN virt /\ virt[v].buffer = <<>> /\ height = virt[v].height,
           BeginArray(p, bytes, height, v)
    PROVE  MemoryInv'
  <1>1. CASE ErrorExit
    BY <1>1, ErrorExitKeeps
  <1>2. CASE /\ RowsPerChunk(bytes, height) > 0 /\ SmallObject(p, height)
             /\ array' = [pool |-> p, width |-> bytes, height |-> height,
                          per |-> RowsPerChunk(bytes, height), rows |-> <<>>, virt |-> v]
             /\ call' = "rows"
             /\ UNCHANGED <<mem, virt, historyVars>>
    <2>1. HeapInv'
      BY <1>2, SmallObjectKeeps DEF MemoryInv
    <2>2. RowsPerChunk(bytes, height) \in Nat
      <3>1. (MaxAllocChunk - Header) \div bytes \in Int
        BY SlopAssumption, LayoutAssumption
      <3> QED
        BY <3>1, <1>2 DEF RowsPerChunk, AtMost
    <2>3. ArrayTypes'
      BY <1>2, <2>2 DEF ArrayTypes
    <2>4. Realizes'
      BY <1>2 DEF Realizes
    <2>5. RowsInPlace'
      BY <1>2 DEF RowsInPlace
    <2>6. VirtInv'
      BY <1>2 DEF VirtInv, historyVars, MemoryInv, DefinedBelow
    <2> QED
      BY <2>1, <2>3, <2>4, <2>5, <2>6 DEF MemoryInv
  <1> QED
    BY <1>1, <1>2 DEF BeginArray

LEMMA RowBytesIsNat ==
    ASSUME NEW kind, NEW width \in Nat \ {0}
    PROVE  RowBytes(kind, width) \in Nat \ {0}
  <1>1. 2 * AlignSize \in Nat \ {0} /\ Block \in Nat \ {0}
    BY LayoutAssumption
  <1>2. RoundUp(width, 2 * AlignSize) \in Nat /\ width <= RoundUp(width, 2 * AlignSize)
    BY <1>1, RoundUpIsEnough
  <1>3. width * Block \in Nat \ {0}
    BY <1>1
  <1> QED
    BY <1>2, <1>3 DEF RowBytes

-----------------------------------------------------------------------------
(* The rows of a chunk are behind each other and fill no more than was     *)
(* asked for.                                                              *)

LEMMA Products ==
    ASSUME NEW w \in Nat, NEW i \in Nat, NEW j \in Nat, i <= j
    PROVE  i * w \in Nat /\ j * w \in Nat /\ i * w <= j * w
  <1>1. i * w \in Nat /\ j * w \in Nat /\ (j - i) * w \in Nat
    BY j - i \in Nat
  <1>2. j * w = i * w + (j - i) * w
    OBVIOUS
  <1> QED
    BY <1>1, <1>2

(* k rows of w in chunk c, from base on, in n bytes.                       *)
RowsFit(f, S, c, w, k, base, n) ==
    /\ w \in Nat /\ k \in Nat /\ base \in Nat /\ n \in Nat /\ k * w <= n
    /\ f = [i \in 1 .. k |-> [chunk |-> c, from |-> base + (i - 1) * w]]
    /\ \A from \in Nat : [chunk |-> c, from |-> from] \in S

RowsLie(f, S, c, w, k, base, n) ==
    /\ f \in Seq(S) /\ Len(f) = k
    /\ \A i \in 1 .. k : /\ f[i].chunk = c /\ f[i].from \in Nat
                         /\ base <= f[i].from /\ f[i].from + w <= base + n
    /\ \A i \in 1 .. k : i + 1 \in 1 .. k => f[i + 1].from = f[i].from + w
    /\ \A i, j \in 1 .. k : i # j => Apart(f[i], w, f[j], w)

LEMMA RowsOfChunk ==
    ASSUME NEW f, NEW S, NEW c, NEW w, NEW k, NEW base, NEW n, RowsFit(f, S, c, w, k, base, n)
    PROVE  RowsLie(f, S, c, w, k, base, n)
  <1>0. /\ w \in Nat /\ k \in Nat /\ base \in Nat /\ n \in Nat /\ k * w <= n
        /\ f = [i \in 1 .. k |-> [chunk |-> c, from |-> base + (i - 1) * w]]
        /\ \A from \in Nat : [chunk |-> c, from |-> from] \in S
    BY DEF RowsFit
  <1>1. \A i \in 1 .. k : f[i].chunk = c /\ f[i].from = base + (i - 1) * w
    BY <1>0
  <1>2. \A i \in 1 .. k : (i - 1) * w \in Nat /\ (i - 1) * w + w = i * w /\ i * w <= k * w
    <2> TAKE i \in 1 .. k
    <2>1. i - 1 \in Nat /\ i \in Nat /\ i <= k
      BY <1>0
    <2>2. (i - 1) * w \in Nat /\ i * w <= k * w
      BY <2>1, <1>0, Products
    <2>3. (i - 1) * w + w = i * w
      BY <2>1, <1>0
    <2> QED
      BY <2>2, <2>3
  <1>3. k * w \in Nat
    BY <1>0
  <1>4. \A i \in 1 .. k : f[i].from \in Nat /\ base <= f[i].from /\ f[i].from + w <= base + n
    <2> TAKE i \in 1 .. k
    <2> DEFINE before == (i - 1) * w
               upto == i * w
               all == k * w
    <2>1. before \in Nat /\ before + w = upto /\ upto <= all /\ all \in Nat /\ all <= n
      BY <1>0, <1>2, <1>3
    <2>2. f[i].from = base + before
      BY <1>1
    <2> HIDE DEF before, upto, all
    <2> QED
      BY <2>1, <2>2, <1>0
  <1>5. \A i \in 1 .. k : i + 1 \in 1 .. k => f[i + 1].from = f[i].from + w
    <2> SUFFICES ASSUME NEW i \in 1 .. k, i + 1 \in 1 .. k
                 PROVE  f[i + 1].from = f[i].from + w
      OBVIOUS
    <2> DEFINE before == (i - 1) * w
               upto == i * w
    <2>1. before \in Nat /\ before + w = upto
      BY <1>2
    <2>2. f[i].from = base + before
      BY <1>1
    <2>3. f[i + 1].from = base + upto
      <3>1. (i + 1) - 1 = i
        BY <1>0
      <3>2. f[i + 1].from = base + ((i + 1) - 1) * w
        BY <1>1
      <3> QED
        BY <3>1, <3>2
    <2> HIDE DEF before, upto
    <2> QED
      BY <2>1, <2>2, <2>3, <1>0
  <1>6. ASSUME NEW i \in 1 .. k, NEW j \in 1 .. k, i < j
        PROVE  f[i].from + w <= f[j].from
    <2> DEFINE before == (i - 1) * w
               upto == i * w
               from == (j - 1) * w
    <2>1. before \in Nat /\ before + w = upto /\ from \in Nat
      BY <1>2
    <2>2. upto <= from /\ upto \in Nat
      <3>1. i \in Nat /\ j - 1 \in Nat /\ i <= j - 1
        BY <1>0, <1>6
      <3> QED
        BY <3>1, <1>0, Products
    <2>3. f[i].from = base + before /\ f[j].from = base + from
      BY <1>1
    <2> HIDE DEF before, upto, from
    <2> QED
      BY <2>1, <2>2, <2>3, <1>0
  <1>7. \A i, j \in 1 .. k : i # j => Apart(f[i], w, f[j], w)
    <2> SUFFICES ASSUME NEW i \in 1 .. k, NEW j \in 1 .. k, i # j
                 PROVE  Apart(f[i], w, f[j], w)
      OBVIOUS
    <2>1. i < j \/ j < i
      BY <1>0
    <2> QED
      BY <2>1, <1>6 DEF Apart
  <1>8. f \in Seq(S) /\ Len(f) = k
    <2>1. \A i \in 1 .. k : base + (i - 1) * w \in Nat
      <3> TAKE i \in 1 .. k
      <3> DEFINE before == (i - 1) * w
      <3>1. before \in Nat
        BY <1>2
      <3> HIDE DEF before
      <3>2. base + before \in Nat
        BY <3>1, <1>0
      <3> QED
        BY <3>2 DEF before
    <2>2. f \in [1 .. k -> S]
      BY <2>1, <1>0
    <2>3. f \in Seq(S)
      BY <2>2, <1>0, SeqDef
    <2>4. Len(f) \in Nat /\ 1 .. Len(f) = 1 .. k
      BY <2>2, <2>3, LenProperties
    <2>5. \A m, l \in Nat : 1 .. m = 1 .. l => m = l
      <3> TAKE m, l \in Nat
      <3>1. m > l => m \in 1 .. m /\ m \notin 1 .. l
        OBVIOUS
      <3>2. l > m => l \in 1 .. l /\ l \notin 1 .. m
        OBVIOUS
      <3> QED
        BY <3>1, <3>2
    <2> QED
      BY <2>3, <2>4, <2>5, <1>0
  <1> QED
    BY <1>1, <1>4, <1>5, <1>7, <1>8 DEF RowsLie

LEMMA AllocRowsKeeps ==
    ASSUME MemoryInv, AllocRows
    PROVE  MemoryInv'
  <1>1. CASE ErrorExit
    BY <1>1, ErrorExitKeeps
  <1> SUFFICES ASSUME ~ErrorExit
               PROVE  MemoryInv'
    BY <1>1
  <1> DEFINE old == array.rows
             k == ChunkRows
             w == array.width
             v == array.virt
             L == Len(array.rows)
  <1>2. /\ HeapInv /\ VirtInv /\ RowsInPlace /\ Realizes /\ ArrayTypes /\ call = "rows"
        /\ array \in [pool : Pools, width : Nat, height : Nat, per : Nat,
                      rows : Seq([chunk : Chunks, from : Nat]), virt : Nat]
    BY DEF MemoryInv, ArrayTypes, AllocRows
  <1>3. PICK c \in Chunks, pad \in Pads :
            LET rows == array.rows \o [i \in 1 .. ChunkRows |-> RowAt(c, pad, i)]
                done == Len(rows) >= array.height IN
            /\ LargeObject(array.pool, ChunkRows * array.width, c, pad)
            /\ array' = [array EXCEPT !.rows = rows]
            /\ call' = IF ~done THEN "rows" ELSE IF array.virt = 0 THEN "idle" ELSE "realize"
            /\ virt' = IF done /\ array.virt # 0
                       THEN [virt EXCEPT ![array.virt].buffer = Buffer(array.virt)] ELSE virt
            /\ UNCHANGED <<mem, historyVars>>
    BY DEF AllocRows
  <1> DEFINE new == [i \in 1 .. k |-> RowAt(c, pad, i)]
             base == Header + pad
             n == RoundUp(k * w, AlignSize)
             done == Len(old \o new) >= array.height
  <1>4. L \in Nat /\ L <= array.height /\ old \in Seq([chunk : Chunks, from : Nat])
        /\ DOMAIN old = 1 .. L
    BY <1>2 DEF RowsInPlace
  <1>5. k \in Nat /\ L + k <= array.height /\ w \in Nat /\ array.pool \in Pools
    BY <1>2, <1>4 DEF ChunkRows, AtMost
  <1>6. k * w \in Nat
    BY <1>5
  <1>7. /\ HeapInv' /\ c \notin got
        /\ objects' = objects \cup {Object(array.pool, c, base, n)}
        /\ n \in Nat /\ k * w <= n
    BY <1>2, <1>3, <1>5, <1>6, LargeObjectKeeps
  <1>8. new = [i \in 1 .. k |-> [chunk |-> c, from |-> base + (i - 1) * w]]
    BY DEF RowAt
  <1>9. base \in Nat
    <2>1. pad \in 0 .. AlignSize - 1
      BY LayoutAssumption
    <2> QED
      BY <2>1, LayoutAssumption
  <1>10. array' = [array EXCEPT !.rows = old \o new]
    BY <1>3
  <1>11. /\ call' = IF ~done THEN "rows" ELSE IF v = 0 THEN "idle" ELSE "realize"
         /\ virt' = IF done /\ v # 0 THEN [virt EXCEPT ![v].buffer = Buffer(v)] ELSE virt
         /\ junk' = junk
    BY <1>3 DEF historyVars
  <1> HIDE DEF new, base, n, k, done
  <1>12. /\ new \in Seq([chunk : Chunks, from : Nat]) /\ Len(new) = k
         /\ \A i \in 1 .. k : /\ new[i].chunk = c /\ new[i].from \in Nat
                              /\ base <= new[i].from /\ new[i].from + w <= base + n
         /\ \A i \in 1 .. k : i + 1 \in 1 .. k => new[i + 1].from = new[i].from + w
         /\ \A i, j \in 1 .. k : i # j => Apart(new[i], w, new[j], w)
    <2> DEFINE S == [chunk : Chunks, from : Nat]
    <2>1. w \in Nat /\ k \in Nat /\ base \in Nat /\ n \in Nat /\ k * w <= n
      BY <1>5, <1>7, <1>9
    <2>2. \A from \in Nat : [chunk |-> c, from |-> from] \in S
      OBVIOUS
    <2> HIDE DEF w, S
    <2>3. RowsLie(new, S, c, w, k, base, n)
      BY <2>1, <2>2, <1>8, RowsOfChunk DEF RowsFit
    <2> QED
      BY <2>3 DEF S, RowsLie
  <1> DEFINE rows == old \o new
  <1>14. /\ rows \in Seq([chunk : Chunks, from : Nat]) /\ Len(rows) = L + k
         /\ \A i \in 1 .. L + k : rows[i] = IF i <= L THEN old[i] ELSE new[i - L]
         /\ DOMAIN rows = 1 .. L + k
    <2>1. Len(new) = k /\ Len(old) = L
      BY <1>12
    <2>2. /\ rows \in Seq([chunk : Chunks, from : Nat]) /\ Len(rows) = Len(old) + Len(new)
          /\ \A i \in 1 .. Len(old) + Len(new) : rows[i] = IF i <= Len(old) THEN old[i] ELSE new[i - Len(old)]
      <3>1. old \in Seq([chunk : Chunks, from : Nat])
        BY <1>4
      <3> HIDE DEF old
      <3> QED
        BY <3>1, <1>12, ConcatProperties
    <2> HIDE DEF rows
    <2>3. DOMAIN rows = 1 .. Len(rows)
      BY <2>2, LenProperties
    <2> QED
      BY <2>1, <2>2, <2>3
  <1> HIDE DEF rows
  <1>15. array' = [array EXCEPT !.rows = rows]
    BY <1>10 DEF rows
  <1>16. /\ array'.rows = rows /\ array'.width = w /\ array'.pool = array.pool
         /\ array'.height = array.height /\ array'.virt = v
         /\ array' \in [pool : Pools, width : Nat, height : Nat, per : Nat,
                        rows : Seq([chunk : Chunks, from : Nat]), virt : Nat]
    BY <1>2, <1>14, <1>15
  <1>17. \A i \in 1 .. L :
            /\ rows[i] = old[i] /\ old[i].chunk # c
            /\ \E o \in objects : /\ o.pool = array.pool /\ o.chunk = old[i].chunk
                                  /\ o.from <= old[i].from /\ old[i].from + w <= o.from + o.size
    <2> TAKE i \in 1 .. L
    <2>1. rows[i] = old[i]
      BY <1>4, <1>5, <1>14
    <2>2. PICK o \in objects : /\ o.pool = array.pool /\ o.chunk = old[i].chunk
                               /\ o.from <= old[i].from /\ old[i].from + w <= o.from + o.size
      BY <1>2, <1>4 DEF RowsInPlace
    <2>3. o.chunk \in got
      BY <1>2, OwnersHave DEF HeapInv, Placed
    <2> QED
      BY <2>1, <2>2, <2>3, <1>7
  <1>18. \A i \in L + 1 .. L + k : i - L \in 1 .. k /\ rows[i] = new[i - L] /\ rows[i].chunk = c
    <2> TAKE i \in L + 1 .. L + k
    <2>1. i - L \in 1 .. k /\ i \in 1 .. L + k /\ ~(i <= L)
      BY <1>4, <1>5
    <2>2. rows[i] = new[i - L]
      BY <2>1, <1>14
    <2>3. new[i - L].chunk = c
      BY <2>1, <1>12
    <2> QED
      BY <2>1, <2>2, <2>3
  <1>19. \A i \in 1 .. L + k : i \in 1 .. L \/ i \in L + 1 .. L + k
    BY <1>4, <1>5
  <1>20. \A i \in 1 .. L + k :
            \E o \in objects' : /\ o.pool = array.pool /\ o.chunk = rows[i].chunk
                                /\ o.from <= rows[i].from /\ rows[i].from + w <= o.from + o.size
    <2> TAKE i \in 1 .. L + k
    <2>1. CASE i \in 1 .. L
      BY <2>1, <1>7, <1>17
    <2>2. CASE i \in L + 1 .. L + k
      <3> DEFINE o == Object(array.pool, c, base, n)
      <3>1. o \in objects' /\ o.pool = array.pool /\ o.chunk = c /\ o.from = base /\ o.size = n
        BY <1>7 DEF Object
      <3> HIDE DEF o
      <3>2. rows[i].chunk = c /\ base <= rows[i].from /\ rows[i].from + w <= base + n
        BY <2>2, <1>18, <1>12
      <3> QED
        BY <3>1, <3>2
    <2> QED
      BY <2>1, <2>2, <1>19
  <1>21. \A i \in 1 .. L + k : i + 1 \in 1 .. L + k /\ rows[i + 1].chunk = rows[i].chunk
                                  => rows[i + 1].from = rows[i].from + w
    <2> SUFFICES ASSUME NEW i \in 1 .. L + k, i + 1 \in 1 .. L + k, rows[i + 1].chunk = rows[i].chunk
                 PROVE  rows[i + 1].from = rows[i].from + w
      OBVIOUS
    <2>1. CASE i + 1 \in 1 .. L
      <3>1. i \in 1 .. L
        BY <2>1, <1>4
      <3> QED
        BY <2>1, <3>1, <1>17, <1>4, <1>2 DEF RowsInPlace
    <2>2. CASE i \in L + 1 .. L + k
      <3>1. i + 1 \in L + 1 .. L + k /\ (i + 1) - L = (i - L) + 1
        BY <2>2, <1>4, <1>5
      <3>2. rows[i + 1] = new[(i - L) + 1] /\ rows[i] = new[i - L]
            /\ i - L \in 1 .. k /\ (i - L) + 1 \in 1 .. k
        BY <3>1, <2>2, <1>18
      <3> QED
        BY <3>2, <1>12
    <2>3. CASE i \in 1 .. L /\ i + 1 \in L + 1 .. L + k
      BY <2>3, <1>17, <1>18
    <2> QED
      BY <2>1, <2>2, <2>3, <1>19
  <1>22. \A i, j \in 1 .. L + k : i # j => Apart(rows[i], w, rows[j], w)
    <2> SUFFICES ASSUME NEW i \in 1 .. L + k, NEW j \in 1 .. L + k, i # j
                 PROVE  Apart(rows[i], w, rows[j], w)
      OBVIOUS
    <2>1. CASE i \in 1 .. L /\ j \in 1 .. L
      <3>1. Apart(old[i], w, old[j], w)
        BY <2>1, <1>4, <1>2 DEF RowsInPlace
      <3> QED
        BY <3>1, <2>1, <1>17
    <2>2. CASE i \in L + 1 .. L + k /\ j \in L + 1 .. L + k
      <3>1. i - L \in 1 .. k /\ j - L \in 1 .. k /\ i - L # j - L
        BY <2>2, <1>18, <1>4
      <3>2. Apart(new[i - L], w, new[j - L], w)
        BY <3>1, <1>12
      <3> QED
        BY <3>2, <2>2, <1>18
    <2>3. CASE \/ i \in 1 .. L /\ j \in L + 1 .. L + k
               \/ j \in 1 .. L /\ i \in L + 1 .. L + k
      BY <2>3, <1>17, <1>18 DEF Apart
    <2> QED
      BY <2>1, <2>2, <2>3, <1>19
  <1>23. RowsInPlace'
    BY <1>4, <1>5, <1>14, <1>16, <1>20, <1>21, <1>22 DEF RowsInPlace, Apart
  <1>24. ArrayTypes'
    BY <1>11, <1>16 DEF ArrayTypes
  <1>25. Realizes'
    <2>1. CASE call' = "rows"
      <3>1. virt' = virt
        BY <2>1, <1>11
      <3> QED
        BY <3>1, <1>2, <1>16 DEF Realizes
    <2> QED
      BY <2>1 DEF Realizes
  <1>26. VirtInv'
    <2>1. CASE virt' = virt
      BY <2>1, <1>2, <1>11 DEF VirtInv, DefinedBelow
    <2>2. CASE v # 0 /\ virt' = [virt EXCEPT ![v].buffer = Buffer(v)]
      <3> DEFINE a == virt[v]
                 h == a.height
                 b == [r \in 1 .. h |-> "junk"]
                 a2 == [a EXCEPT !.buffer = b]
      <3>1. v \in DOMAIN virt /\ a.buffer = <<>>
        BY <2>2, <1>2 DEF Realizes
      <3>2. virt \in Seq(VirtArrays) /\ a \in VirtArrays
        BY <3>1, <1>2 DEF VirtInv
      <3>3. a.undef = 1
        BY <3>1, <1>2 DEF VirtInv
      <3>4. virt' = [virt EXCEPT ![v] = a2]
        BY <2>2, <3>1 DEF Buffer
      <3> HIDE DEF a
      <3>5. h \in Nat \ {0} /\ b \in [1 .. h -> Marks]
        BY <3>2 DEF VirtArrays, Marks
      <3>6. DefinedBelow(b, h, 1)
        BY <3>5 DEF DefinedBelow
      <3>7. b # <<>> /\ b \in {<<>>} \cup UNION {[1 .. m -> Marks] : m \in Nat}
        BY <3>5, BufferIsRealized
      <3> HIDE DEF b
      <3>8. /\ a2 \in VirtArrays /\ a2.height = h /\ a2.undef = 1 /\ a2.buffer = b
        BY <3>2, <3>3, <3>7 DEF VirtArrays
      <3> HIDE DEF a2, h
      <3>9. virt' \in Seq(VirtArrays) /\ DOMAIN virt' = DOMAIN virt
        <4>1. v \in 1 .. Len(virt)
          BY <3>1, <3>2, LenProperties
        <4>2. virt' \in Seq(VirtArrays) /\ Len(virt') = Len(virt)
          <5>1. a2 \in VirtArrays
            BY <3>8
          <5> HIDE DEF v
          <5> QED
            BY <3>2, <3>4, <4>1, <5>1, ExceptSeq
        <4> QED
          BY <3>2, <4>2, LenProperties
      <3>10. virt'[v] = a2 /\ \A u \in DOMAIN virt : u # v => virt'[u] = virt[u]
        BY <3>1, <3>2, <3>4
      <3>11. \A u \in DOMAIN virt' :
                /\ virt'[u].undef \in 1 .. virt'[u].height + 1
                /\ \/ virt'[u].buffer = <<>> /\ virt'[u].undef = 1
                   \/ /\ virt'[u].buffer # <<>>
                      /\ DefinedBelow(virt'[u].buffer, virt'[u].height, virt'[u].undef)
        <4> TAKE u \in DOMAIN virt'
        <4>1. CASE u = v
          BY <4>1, <3>5, <3>6, <3>7, <3>8, <3>10
        <4>2. CASE u # v
          BY <4>2, <3>9, <3>10, <1>2 DEF VirtInv
        <4> QED
          BY <4>1, <4>2
      <3> QED
        BY <3>9, <3>11, <1>2, <1>11 DEF VirtInv, DefinedBelow
    <2> QED
      BY <2>1, <2>2, <1>11
  <1> QED
    BY <1>7, <1>23, <1>24, <1>25, <1>26 DEF MemoryInv

LEMMA RequestVirtKeeps ==
    ASSUME MemoryInv, RequestVirt
    PROVE  MemoryInv'
  <1>1. CASE ErrorExit
    BY <1>1, ErrorExitKeeps
  <1> SUFFICES ASSUME ~ErrorExit
               PROVE  MemoryInv'
    BY <1>1
  <1>2. PICK kind \in {"sarray", "barray"}, zero \in BOOLEAN, width \in Widths, height \in Heights :
            /\ SmallObject("IMAGE", Control)
            /\ virt' = <<[kind |-> kind, height |-> height, width |-> width,
                          zero |-> zero, undef |-> 1, buffer |-> <<>>]>> \o virt
            /\ UNCHANGED <<mem, call, array, historyVars>>
    BY DEF RequestVirt
  <1>3. HeapInv'
    <2>1. Control \in Nat /\ "IMAGE" \in Pools
      BY LayoutAssumption DEF Pools
    <2> QED
      BY <1>2, <2>1, SmallObjectKeeps DEF MemoryInv
  <1>4. objects \subseteq objects'
    <2>1. Control \in Nat /\ "IMAGE" \in Pools
      BY LayoutAssumption DEF Pools
    <2> QED
      BY <1>2, <2>1, SmallObjectAdds
  <1>5. ArrayTypes' /\ RowsInPlace' /\ Realizes'
    <2>1. call # "rows" /\ call' = call /\ array' = array
      BY <1>2 DEF RequestVirt, Ready
    <2>2. ArrayTypes' /\ Realizes'
      BY <2>1 DEF MemoryInv, ArrayTypes, Realizes
    <2>3. RowsInPlace'
      BY <1>4, <2>1 DEF MemoryInv, RowsInPlace, Apart
    <2> QED
      BY <2>2, <2>3
  <1> DEFINE new == [kind |-> kind, height |-> height, width |-> width,
                     zero |-> zero, undef |-> 1, buffer |-> <<>>]
             fresh == <<new>>
  <1>6. new \in VirtArrays /\ new.undef = 1 /\ new.buffer = <<>> /\ new.height \in Nat \ {0}
    BY InputAssumption DEF VirtArrays
  <1>7. virt' = fresh \o virt /\ junk' = junk
    BY <1>2 DEF historyVars
  <1> HIDE DEF new
  <1>8. fresh \in Seq(VirtArrays) /\ Len(fresh) = 1 /\ fresh[1] = new
    BY <1>6
  <1>9. virt \in Seq(VirtArrays)
    BY DEF MemoryInv, VirtInv
  <1> HIDE DEF fresh
  <1>10. /\ virt' \in Seq(VirtArrays) /\ DOMAIN virt' = 1 .. 1 + Len(virt) /\ Len(virt) \in Nat
         /\ \A i \in 1 .. 1 + Len(virt) : virt'[i] = IF i <= 1 THEN fresh[i] ELSE virt[i - 1]
    <2>1. /\ fresh \o virt \in Seq(VirtArrays) /\ Len(fresh \o virt) = 1 + Len(virt)
          /\ \A i \in 1 .. 1 + Len(virt) : (fresh \o virt)[i] = IF i <= 1 THEN fresh[i] ELSE virt[i - 1]
      <3>1. /\ fresh \o virt \in Seq(VirtArrays) /\ Len(fresh \o virt) = Len(fresh) + Len(virt)
            /\ \A i \in 1 .. Len(fresh) + Len(virt) :
                   (fresh \o virt)[i] = IF i <= Len(fresh) THEN fresh[i] ELSE virt[i - Len(fresh)]
        <4>1. fresh \in Seq(VirtArrays)
          BY <1>8
        <4> HIDE DEF VirtArrays
        <4> QED
          BY <4>1, <1>9, ConcatProperties
      <3> QED
        BY <3>1, <1>8
    <2>2. DOMAIN (fresh \o virt) = 1 .. 1 + Len(virt)
      BY <2>1, LenProperties
    <2>3. Len(virt) \in Nat
      BY <1>9
    <2> QED
      BY <2>1, <2>2, <2>3, <1>7
  <1>11. \A i \in DOMAIN virt' :
            /\ virt'[i].undef \in 1 .. virt'[i].height + 1
            /\ \/ virt'[i].buffer = <<>> /\ virt'[i].undef = 1
               \/ virt'[i].buffer # <<>> /\ DefinedBelow(virt'[i].buffer, virt'[i].height, virt'[i].undef)
    <2> TAKE i \in DOMAIN virt'
    <2>1. CASE i = 1
      <3>1. virt'[i] = new
        BY <2>1, <1>8, <1>10
      <3> QED
        BY <3>1, <1>6
    <2>2. CASE i # 1
      <3>1. i - 1 \in 1 .. Len(virt) /\ i \in 1 .. 1 + Len(virt) /\ ~(i <= 1)
        BY <2>2, <1>10
      <3>2. virt'[i] = virt[i - 1]
        BY <3>1, <1>10
      <3>3. i - 1 \in DOMAIN virt
        BY <3>1, <1>9, LenProperties
      <3> QED
        BY <3>2, <3>3 DEF MemoryInv, VirtInv
    <2> QED
      BY <2>1, <2>2
  <1>12. VirtInv'
    BY <1>7, <1>10, <1>11 DEF MemoryInv, VirtInv, DefinedBelow
  <1> QED
    BY <1>3, <1>5, <1>12 DEF MemoryInv

LEMMA RealizeKeeps ==
    ASSUME MemoryInv, Realize
    PROVE  MemoryInv'
  <1>1. CASE /\ Unrealized = {} /\ call' = "idle"
             /\ UNCHANGED <<mem, heapVars, poolVars, virt, array, historyVars>>
    <2>1. HeapInv'
      BY <1>1, QuietKeeps DEF MemoryInv, poolVars
    <2>2. ArrayTypes' /\ Realizes'
      BY <1>1 DEF MemoryInv, ArrayTypes, Realizes
    <2>3. RowsInPlace'
      BY <1>1 DEF MemoryInv, RowsInPlace, Apart, poolVars
    <2>4. VirtInv'
      BY <1>1 DEF MemoryInv, VirtInv, DefinedBelow, historyVars
    <2> QED
      BY <2>1, <2>2, <2>3, <2>4 DEF MemoryInv
  <1>2. ASSUME NEW v \in Unrealized,
               BeginArray("IMAGE", RowBytes(virt[v].kind, virt[v].width), virt[v].height, v)
        PROVE  MemoryInv'
    <2> DEFINE bytes == RowBytes(virt[v].kind, virt[v].width)
               height == virt[v].height
    <2>1. v \in DOMAIN virt /\ virt[v].buffer = <<>> /\ virt \in Seq(VirtArrays)
      BY DEF Unrealized, MemoryInv, VirtInv
    <2>2. virt[v] \in VirtArrays /\ v \in Nat
      BY <2>1
    <2>3. height \in Nat /\ virt[v].width \in Nat \ {0}
      BY <2>2 DEF VirtArrays
    <2>4. bytes \in Nat \ {0}
      BY <2>3, RowBytesIsNat
    <2>5. BeginArray("IMAGE", bytes, height, v) /\ "IMAGE" \in Pools
          /\ (v # 0 => v \in DOMAIN virt /\ virt[v].buffer = <<>> /\ height = virt[v].height)
      BY <1>2, <2>1 DEF Pools
    <2> HIDE DEF bytes, height
    <2> QED
      BY <2>2, <2>3, <2>4, <2>5, BeginArrayKeeps
  <1> QED
    BY <1>1, <1>2 DEF Realize

LEMMA AllocArrayKeeps ==
    ASSUME MemoryInv, AllocArray
    PROVE  MemoryInv'
  <1>1. PICK p \in Pools, kind \in {"sarray", "barray"}, width \in Widths, height \in Heights :
            BeginArray(p, RowBytes(kind, width), height, 0)
    BY DEF AllocArray
  <1>2. width \in Nat \ {0} /\ height \in Nat
    BY InputAssumption
  <1>3. RowBytes(kind, width) \in Nat \ {0}
    BY <1>2, RowBytesIsNat
  <1> QED
    BY <1>1, <1>2, <1>3, BeginArrayKeeps

LEMMA AccessKeeps ==
    ASSUME MemoryInv, Access
    PROVE  MemoryInv'
  <1>1. CASE ErrorExit
    BY <1>1, ErrorExitKeeps
  <1>2. ASSUME NEW v \in DOMAIN virt, NEW from \in 1 .. Max(Heights), NEW to \in from .. Max(Heights),
               NEW writable \in BOOLEAN, ~Refused(v, from, to, writable),
               Accessed(v, from, to, writable)
        PROVE  MemoryInv'
    <2>1. from \in Nat /\ to \in Nat /\ 1 <= from /\ from <= to
      OBVIOUS
    <2>2. VirtInv'
      BY <2>1, <1>2, AccessedKeeps DEF MemoryInv
    <2>3. UNCHANGED <<mem, heapVars, poolVars, call, array>>
      BY <1>2 DEF Accessed
    <2>4. HeapInv'
      BY <2>3, QuietKeeps DEF MemoryInv, poolVars
    <2>5. ArrayTypes' /\ Realizes'
      BY <2>3 DEF MemoryInv, ArrayTypes, Realizes, Access, Ready
    <2>6. RowsInPlace'
      BY <2>3 DEF MemoryInv, RowsInPlace, Apart, poolVars
    <2> QED
      BY <2>2, <2>4, <2>5, <2>6 DEF MemoryInv
  <1> QED
    BY <1>1, <1>2 DEF Access

-----------------------------------------------------------------------------
(* Sums over finite sets.  No prover instantiates the library's induction  *)
(* theorems with a predicate, so induction is on a set of those it holds   *)
(* of.                                                                     *)

(* A set of natural numbers has a least element.                           *)
LEMMA LeastNat ==
    ASSUME NEW S \in SUBSET Nat, S # {}
    PROVE  \E n \in S : \A k \in S : n <= k
  <1> DEFINE R == OpToRel(<, Nat)
  <1>1. IsWellFoundedOn(R, Nat)
    BY NatLessThanWellFounded
  <1>2. \A x, y \in Nat : x < y => <<x, y>> \in R
    BY DEF OpToRel
  <1> HIDE DEF R
  <1>3. PICK n \in S : \A k \in S : <<k, n>> \notin R
    BY <1>1, WFMin, Zenon
  <1>4. \A k \in S : ~(k < n)
    BY <1>2, <1>3
  <1>5. \A k \in S : k \in Nat /\ n \in Nat
    OBVIOUS
  <1> QED
    BY <1>4, <1>5

(* Induction, with a set for the predicate: what holds of a set when it    *)
(* holds of all that have one element less holds of every finite set.      *)
LEMMA SetInduction ==
    ASSUME NEW S, IsFiniteSet(S), NEW Good \in SUBSET (SUBSET S),
           \A T \in SUBSET S : (\A x \in T : T \ {x} \in Good) => T \in Good
    PROVE  \A T \in SUBSET S : T \in Good
  <1> SUFFICES ASSUME (SUBSET S) \ Good # {}
               PROVE  FALSE
    OBVIOUS
  <1> DEFINE Bad == (SUBSET S) \ Good
             Counts == {Cardinality(T) : T \in Bad}
  <1>1. \A T \in Bad : IsFiniteSet(T) /\ Cardinality(T) \in Nat
    BY FS_Subset, FS_CardinalityType
  <1>2. Counts \in SUBSET Nat /\ Counts # {}
    BY <1>1
  <1>3. PICK n \in Counts : \A k \in Counts : n <= k
    <2> HIDE DEF Counts
    <2> QED
      BY <1>2, LeastNat
  <1>4. PICK T \in Bad : n = Cardinality(T)
    OBVIOUS
  <1>5. PICK x \in T : T \ {x} \notin Good
    OBVIOUS
  <1>6. T \ {x} \in Bad
    BY <1>5
  <1>7. Cardinality(T \ {x}) = Cardinality(T) - 1
    BY <1>1, <1>5, FS_RemoveElement
  <1>8. n <= Cardinality(T) - 1
    BY <1>3, <1>6, <1>7
  <1> QED
    BY <1>1, <1>4, <1>8

(* The sum as the recursion over sets that it is. *)
Pick(T) == CHOOSE x \in T : TRUE
SumFrom(f, g, T) == IF T = {} THEN 0 ELSE f[Pick(T)] + g[T \ {Pick(T)}]
Sums(f, S) == CHOOSE g : g = [T \in SUBSET S |-> SumFrom(f, g, T)]

LEMMA SumIsRecursive ==
    ASSUME NEW f, NEW S
    PROVE  SumFunctionOnSet(f, S) = Sums(f, S)[S]
  BY DEF SumFunctionOnSet, FoldFunctionOnSet, MapThenFoldSet, Sums, SumFrom, Pick

(* There is such a function: the sums of n elements are found from those   *)
(* of fewer.                                                               *)
LEMMA SumsExist ==
    ASSUME NEW f, NEW S, IsFiniteSet(S)
    PROVE  \A T \in SUBSET S : Sums(f, S)[T] = SumFrom(f, Sums(f, S), T)
  <1> DEFINE UpTo(n, g) == \A T \in SUBSET S : Cardinality(T) <= n => g[T] = SumFrom(f, g, T)
             Good == {n \in Nat : \E g : UpTo(n, g)}
  <1>1. \A T \in SUBSET S : Cardinality(T) \in Nat /\ (Cardinality(T) = 0 <=> T = {})
    BY FS_Subset, FS_CardinalityType, FS_EmptySet
  <1>2. \A T \in SUBSET S : T # {} => /\ T \ {Pick(T)} \in SUBSET S
                                      /\ Cardinality(T \ {Pick(T)}) = Cardinality(T) - 1
    <2> TAKE T \in SUBSET S
    <2>1. IsFiniteSet(T)
      BY FS_Subset
    <2>2. T # {} => Pick(T) \in T
      BY DEF Pick
    <2> QED
      BY <2>1, <2>2, FS_RemoveElement
  <1>3. 0 \in Good
    <2>1. UpTo(0, [T \in SUBSET S |-> 0])
      BY <1>1 DEF SumFrom
    <2> QED
      BY <2>1
  <1>4. ASSUME NEW n \in Good
        PROVE  n + 1 \in Good
    <2>1. PICK g : UpTo(n, g)
      OBVIOUS
    <2> DEFINE h == [T \in SUBSET S |-> IF Cardinality(T) <= n THEN g[T] ELSE SumFrom(f, g, T)]
    <2>2. ASSUME NEW T \in SUBSET S, Cardinality(T) <= n + 1
          PROVE  h[T] = SumFrom(f, g, T) /\ SumFrom(f, g, T) = SumFrom(f, h, T)
      <3>1. h[T] = SumFrom(f, g, T)
        BY <2>1
      <3>2. T # {} => h[T \ {Pick(T)}] = g[T \ {Pick(T)}]
        BY <1>1, <1>2, <2>2
      <3> QED
        BY <3>1, <3>2 DEF SumFrom
    <2>3. UpTo(n + 1, h)
      <3> HIDE DEF h
      <3> QED
        BY <2>2
    <2> HIDE DEF h
    <2> QED
      BY <2>3
  <1>5. Cardinality(S) \in Good
    <2>1. SUFFICES ASSUME Nat \ Good # {}
                   PROVE  FALSE
      BY <1>1
    <2>2. PICK n \in Nat \ Good : \A k \in Nat \ Good : n <= k
      <3> HIDE DEF Good
      <3> QED
        BY <2>1, LeastNat
    <2>3. n # 0 /\ n - 1 \in Nat /\ n - 1 \in Good
      BY <1>3, <2>2
    <2>4. (n - 1) + 1 \in Good
      <3> HIDE DEF Good
      <3> QED
        BY <1>4, <2>3
    <2> QED
      BY <2>2, <2>4
  <1>6. PICK g : UpTo(Cardinality(S), g)
    BY <1>5
  <1>7. \A T \in SUBSET S : Cardinality(T) <= Cardinality(S)
    BY FS_Subset
  <1> DEFINE h == [T \in SUBSET S |-> g[T]]
  <1>8. h = [T \in SUBSET S |-> SumFrom(f, h, T)]
    <2>1. \A T \in SUBSET S : g[T] = SumFrom(f, h, T)
      BY <1>2, <1>6, <1>7 DEF SumFrom
    <2> QED
      BY <2>1
  <1> HIDE DEF h
  <1> DEFINE s == Sums(f, S)
  <1>9. s = [T \in SUBSET S |-> SumFrom(f, s, T)]
    BY <1>8 DEF Sums
  <1> HIDE DEF s
  <1>10. \A T \in SUBSET S : s[T] = SumFrom(f, s, T)
    BY <1>9, Zenon
  <1> QED
    BY <1>10 DEF s

(* It does not depend on the set it is found for.                          *)
LEMMA SumsAgree ==
    ASSUME NEW f, NEW S, IsFiniteSet(S), NEW T \in SUBSET S
    PROVE  Sums(f, S)[T] = SumFunctionOnSet(f, T)
  <1> DEFINE Good == {U \in SUBSET T : Sums(f, S)[U] = Sums(f, T)[U]}
  <1>1. IsFiniteSet(T)
    BY FS_Subset
  <1>2. ASSUME NEW U \in SUBSET T, \A x \in U : U \ {x} \in Good
        PROVE  U \in Good
    <2>1. Sums(f, S)[U] = SumFrom(f, Sums(f, S), U)
      BY SumsExist
    <2>2. Sums(f, T)[U] = SumFrom(f, Sums(f, T), U)
      BY <1>1, SumsExist
    <2>3. U # {} => Pick(U) \in U
      BY DEF Pick
    <2> QED
      BY <1>2, <2>1, <2>2, <2>3 DEF SumFrom
  <1>3. T \in Good
    <2> HIDE DEF Good
    <2>1. Good \in SUBSET (SUBSET T)
      BY DEF Good
    <2> QED
      BY <1>1, <1>2, <2>1, SetInduction
  <1> QED
    BY <1>3, SumIsRecursive

LEMMA SumUnfolds ==
    ASSUME NEW f, NEW S, IsFiniteSet(S)
    PROVE  /\ S = {} => SumFunctionOnSet(f, S) = 0
           /\ S # {} => /\ Pick(S) \in S
                        /\ SumFunctionOnSet(f, S)
                             = f[Pick(S)] + SumFunctionOnSet(f, S \ {Pick(S)})
  <1>1. S \in SUBSET S /\ S \ {Pick(S)} \in SUBSET S
    OBVIOUS
  <1>2. Sums(f, S)[S] = SumFrom(f, Sums(f, S), S)
    BY <1>1, SumsExist
  <1>3. S # {} => Pick(S) \in S
    BY DEF Pick
  <1> QED
    BY <1>1, <1>2, <1>3, SumIsRecursive, SumsAgree DEF SumFrom

LEMMA SumType ==
    ASSUME NEW f, NEW S, IsFiniteSet(S), NEW E, 0 \in E, \A i, j \in E : i + j \in E,
           \A x \in S : f[x] \in E
    PROVE  \A T \in SUBSET S : SumFunctionOnSet(f, T) \in E
  <1> DEFINE sum(T) == SumFunctionOnSet(f, T)
             Good == {T \in SUBSET S : sum(T) \in E}
  <1> HIDE DEF sum
  <1>1. ASSUME NEW T \in SUBSET S, \A x \in T : T \ {x} \in Good
        PROVE  T \in Good
    <2>1. IsFiniteSet(T)
      BY FS_Subset
    <2>2. /\ T = {} => sum(T) = 0
          /\ T # {} => Pick(T) \in T /\ sum(T) = f[Pick(T)] + sum(T \ {Pick(T)})
      BY <2>1, SumUnfolds DEF sum
    <2> QED
      BY <1>1, <2>2
  <1>2. \A T \in SUBSET S : T \in Good
    <2>1. Good \in SUBSET (SUBSET S)
      OBVIOUS
    <2> HIDE DEF Good
    <2> QED
      BY <1>1, <2>1, SetInduction
  <1> QED
    BY <1>2 DEF sum

Summable(f, S) == IsFiniteSet(S) /\ \A x \in S : f[x] \in Int

(* Any element may be taken out first: the order does not matter.          *)
LEMMA SumRemoves ==
    ASSUME NEW f, NEW S, Summable(f, S)
    PROVE  \A T \in SUBSET S : \A x \in T :
               SumFunctionOnSet(f, T) = f[x] + SumFunctionOnSet(f, T \ {x})
  <1> USE DEF Summable
  <1> DEFINE sum(T) == SumFunctionOnSet(f, T)
             Good == {T \in SUBSET S : \A x \in T : sum(T) = f[x] + sum(T \ {x})}
  <1>1. \A T \in SUBSET S : sum(T) \in Int
    <2>1. 0 \in Int /\ \A i, j \in Int : i + j \in Int
      OBVIOUS
    <2> QED
      BY <2>1, SumType
  <1> HIDE DEF sum
  <1>2. ASSUME NEW T \in SUBSET S, \A x \in T : T \ {x} \in Good, NEW x \in T
        PROVE  sum(T) = f[x] + sum(T \ {x})
    <2> DEFINE p == Pick(T)
    <2>1. p \in T /\ sum(T) = f[p] + sum(T \ {p})
      <3>1. IsFiniteSet(T)
        BY FS_Subset
      <3> QED
        BY <3>1, SumUnfolds DEF sum
    <2> HIDE DEF p
    <2>2. CASE x = p
      BY <2>1, <2>2
    <2>3. CASE x # p
      <3> DEFINE rest == (T \ {p}) \ {x}
      <3>1. rest = (T \ {x}) \ {p} /\ rest \in SUBSET S
        OBVIOUS
      <3>2. sum(T \ {p}) = f[x] + sum(rest)
        BY <1>2, <2>1, <2>3
      <3>3. sum(T \ {x}) = f[p] + sum(rest)
        BY <1>2, <2>1, <2>3, <3>1
      <3> HIDE DEF rest
      <3>4. sum(rest) \in Int /\ f[x] \in Int /\ f[p] \in Int
        BY <1>1, <2>1, <3>1
      <3> QED
        BY <2>1, <3>2, <3>3, <3>4
    <2> QED
      BY <2>2, <2>3
  <1>3. \A T \in SUBSET S : T \in Good
    <2>1. Good \in SUBSET (SUBSET S)
      OBVIOUS
    <2>2. \A T \in SUBSET S : (\A x \in T : T \ {x} \in Good) => T \in Good
      BY <1>2
    <2> HIDE DEF Good
    <2> QED
      BY <2>1, <2>2, SetInduction
  <1> QED
    BY <1>3 DEF sum

(* What is taken out has a sum of its own.                                 *)
LEMMA SumSplits ==
    ASSUME NEW f, NEW S, IsFiniteSet(S), \A x \in S : f[x] \in Int, NEW R \in SUBSET S
    PROVE  SumFunctionOnSet(f, S) = SumFunctionOnSet(f, R) + SumFunctionOnSet(f, S \ R)
  <1> DEFINE sum(T) == SumFunctionOnSet(f, T)
             Good == {T \in SUBSET R : sum(S) = sum(T) + sum(S \ T)}
  <1>1. \A T \in SUBSET S : sum(T) \in Int
    <2>1. 0 \in Int /\ \A i, j \in Int : i + j \in Int
      OBVIOUS
    <2> QED
      BY <2>1, SumType
  <1>2. \A T \in SUBSET S : \A x \in T : sum(T) = f[x] + sum(T \ {x})
    <2> TAKE T \in SUBSET S
    <2> TAKE x \in T
    <2>1. Summable(f, S)
      BY DEF Summable
    <2> QED
      BY <2>1, SumRemoves
  <1>3. sum({}) = 0
    BY FS_EmptySet, SumUnfolds
  <1> HIDE DEF sum
  <1>4. ASSUME NEW T \in SUBSET R, \A x \in T : T \ {x} \in Good
        PROVE  sum(S) = sum(T) + sum(S \ T)
    <2>1. CASE T = {}
      <3>1. S \ T = S /\ sum(S) \in Int
        BY <2>1, <1>1
      <3> QED
        BY <2>1, <3>1, <1>3
    <2>2. ASSUME NEW x \in T
          PROVE  sum(S) = sum(T) + sum(S \ T)
      <3>1. sum(S) = sum(T \ {x}) + sum(S \ (T \ {x}))
        BY <1>4
      <3>2. sum(T) = f[x] + sum(T \ {x})
        BY <1>2
      <3>3. sum(S \ (T \ {x})) = f[x] + sum(S \ T)
        <4>1. (S \ (T \ {x})) \ {x} = S \ T /\ x \in S \ (T \ {x})
          OBVIOUS
        <4> QED
          BY <4>1, <1>2
      <3>4. f[x] \in Int /\ sum(T \ {x}) \in Int /\ sum(S \ T) \in Int
        BY <1>1
      <3> QED
        BY <3>1, <3>2, <3>3, <3>4
    <2> QED
      BY <2>1, <2>2
  <1>5. \A T \in SUBSET R : T \in Good
    <2>1. Good \in SUBSET (SUBSET R) /\ IsFiniteSet(R)
      BY FS_Subset
    <2>2. \A T \in SUBSET R : (\A x \in T : T \ {x} \in Good) => T \in Good
      BY <1>4
    <2> HIDE DEF Good
    <2> QED
      BY <2>1, <2>2, SetInduction
  <1> QED
    BY <1>5 DEF sum

(* One that is k more for each element is k more for each element.         *)
LEMMA SumShifts ==
    ASSUME NEW f, NEW g, NEW k \in Int, NEW S, IsFiniteSet(S),
           \A x \in S : f[x] \in Int /\ g[x] = f[x] + k
    PROVE  SumFunctionOnSet(g, S) = SumFunctionOnSet(f, S) + Cardinality(S) * k
  <1> DEFINE sumf(T) == SumFunctionOnSet(f, T)
             sumg(T) == SumFunctionOnSet(g, T)
             Good == {T \in SUBSET S : sumg(T) = sumf(T) + Cardinality(T) * k}
  <1>1. \A T \in SUBSET S : sumf(T) \in Int /\ IsFiniteSet(T) /\ Cardinality(T) \in Nat
    <2>1. 0 \in Int /\ \A i, j \in Int : i + j \in Int
      OBVIOUS
    <2> QED
      BY <2>1, SumType, FS_Subset, FS_CardinalityType
  <1>2. \A T \in SUBSET S : \A x \in T : sumf(T) = f[x] + sumf(T \ {x})
                                         /\ sumg(T) = g[x] + sumg(T \ {x})
    <2>1. \A T \in SUBSET S : \A x \in T : sumf(T) = f[x] + sumf(T \ {x})
      <3> TAKE T \in SUBSET S
      <3> TAKE x \in T
      <3>1. Summable(f, S)
        BY DEF Summable
      <3> QED
        BY <3>1, SumRemoves
    <2>2. \A T \in SUBSET S : \A x \in T : sumg(T) = g[x] + sumg(T \ {x})
      <3> TAKE T \in SUBSET S
      <3> TAKE x \in T
      <3>1. Summable(g, S)
        BY DEF Summable
      <3> QED
        BY <3>1, SumRemoves
    <2> QED
      BY <2>1, <2>2
  <1>3. sumf({}) = 0 /\ sumg({}) = 0 /\ Cardinality({}) = 0
    BY FS_EmptySet, SumUnfolds
  <1> HIDE DEF sumf, sumg
  <1>4. ASSUME NEW T \in SUBSET S, \A x \in T : T \ {x} \in Good
        PROVE  sumg(T) = sumf(T) + Cardinality(T) * k
    <2>1. CASE T = {}
      BY <2>1, <1>3
    <2>2. ASSUME NEW x \in T
          PROVE  sumg(T) = sumf(T) + Cardinality(T) * k
      <3>1. sumg(T \ {x}) = sumf(T \ {x}) + Cardinality(T \ {x}) * k
        BY <1>4
      <3>2. Cardinality(T \ {x}) = Cardinality(T) - 1
        BY <1>1, FS_RemoveElement
      <3>3. sumf(T) = f[x] + sumf(T \ {x}) /\ sumg(T) = (f[x] + k) + sumg(T \ {x})
        BY <1>2
      <3>4. f[x] \in Int /\ sumf(T \ {x}) \in Int /\ Cardinality(T) \in Int
        BY <1>1
      <3>5. \A c \in Int : (c - 1) * k = c * k - k /\ c * k \in Int
        OBVIOUS
      <3>6. (Cardinality(T) - 1) * k = Cardinality(T) * k - k /\ Cardinality(T) * k \in Int
        BY <3>4, <3>5
      <3>7. Cardinality(T \ {x}) * k = Cardinality(T) * k - k
        BY <3>2, <3>6
      <3> QED
        BY <3>1, <3>3, <3>4, <3>6, <3>7
    <2> QED
      BY <2>1, <2>2
  <1>5. \A T \in SUBSET S : T \in Good
    <2>1. Good \in SUBSET (SUBSET S)
      OBVIOUS
    <2>2. \A T \in SUBSET S : (\A x \in T : T \ {x} \in Good) => T \in Good
      BY <1>4
    <2> HIDE DEF Good
    <2> QED
      BY <2>1, <2>2, SetInduction
  <1> QED
    BY <1>5 DEF sumf, sumg
LEMMA SumSame ==
    ASSUME NEW f, NEW g, NEW S, IsFiniteSet(S), \A x \in S : f[x] \in Int /\ g[x] = f[x]
    PROVE  SumFunctionOnSet(g, S) = SumFunctionOnSet(f, S) /\ SumFunctionOnSet(f, S) \in Int
  <1>1. SumFunctionOnSet(g, S) = SumFunctionOnSet(f, S) + Cardinality(S) * 0
    <2>1. 0 \in Int /\ \A x \in S : f[x] \in Int /\ g[x] = f[x] + 0
      OBVIOUS
    <2> QED
      BY <2>1, SumShifts
  <1>2. Cardinality(S) * 0 = 0
    BY FS_CardinalityType
  <1>3. SumFunctionOnSet(f, S) \in Int
    <2>1. 0 \in Int /\ (\A i, j \in Int : i + j \in Int) /\ S \in SUBSET S
      OBVIOUS
    <2> QED
      BY <2>1, SumType
  <1> QED
    BY <1>1, <1>2, <1>3

LEMMA SumAdds ==
    ASSUME NEW f, NEW S, IsFiniteSet(S), \A x \in S : f[x] \in Int, NEW c, c \notin S, f[c] \in Int
    PROVE  SumFunctionOnSet(f, S \cup {c}) = f[c] + SumFunctionOnSet(f, S)
  <1> DEFINE T == S \cup {c}
  <1>1. IsFiniteSet(T) /\ c \in T /\ T \ {c} = S /\ T \in SUBSET T /\ \A x \in T : f[x] \in Int
    BY FS_AddElement
  <1> HIDE DEF T
  <1>2. SumFunctionOnSet(f, T) = f[c] + SumFunctionOnSet(f, T \ {c})
    <2>1. Summable(f, T)
      BY <1>1 DEF Summable
    <2> QED
      BY <1>1, <2>1, SumRemoves
  <1> QED
    BY <1>1, <1>2 DEF T

-----------------------------------------------------------------------------
(* What total_space_allocated counts.                                      *)

(* What a pool's chunk has that its header does not count: the header and  *)
(* ALIGN_SIZE-1, which free_pool does not subtract.                        *)
Sized ==
    \A p \in Pools : \A c \in PoolChunks(p) :
        chunk[c].size = chunk[c].used + chunk[c].left + Header + AlignSize - 1

Accounts ==
    /\ mem = 0 => got = {} /\ freed = 0 /\ call = "idle"
    /\ freed \in Nat /\ Sized
    /\ total = SumFunctionOnSet(Size, got) + freed * (AlignSize - 1)

LEMMA HeapIsFinite ==
    ASSUME HeapTypes
    PROVE  /\ IsFiniteSet(got)
           /\ \A c \in Chunks : Size[c] = chunk[c].size /\ Size[c] \in Int
  <1>1. IsFiniteSet(Chunks)
    BY HeapAssumption, FS_Interval DEF Chunks
  <1>2. IsFiniteSet(got)
    BY <1>1, FS_Subset DEF HeapTypes
  <1> QED
    BY <1>2 DEF HeapTypes, Size

(* Chunks of the same sizes have the same sum.                             *)
LEMMA SameSizes ==
    ASSUME HeapTypes, HeapTypes', NEW S, S \in SUBSET got, S \in SUBSET Chunks,
           \A c \in S : chunk'[c].size = chunk[c].size
    PROVE  SumFunctionOnSet(Size', S) = SumFunctionOnSet(Size, S) /\ SumFunctionOnSet(Size, S) \in Int
  <1> DEFINE f == Size
             g == Size'
  <1>1. IsFiniteSet(S)
    BY HeapIsFinite, FS_Subset
  <1>2. \A c \in S : f[c] \in Int /\ g[c] = f[c]
    BY DEF HeapTypes, Size
  <1> HIDE DEF f, g
  <1>3. SumFunctionOnSet(g, S) = SumFunctionOnSet(f, S) /\ SumFunctionOnSet(f, S) \in Int
    BY <1>1, <1>2, SumSame
  <1> QED
    BY <1>3 DEF f, g

(* malloc's chunk adds its size.                                           *)
LEMMA AddsSize ==
    ASSUME HeapTypes, HeapTypes', NEW c \in Chunks, c \notin got, got' = got \cup {c},
           \A d \in got : chunk'[d].size = chunk[d].size
    PROVE  /\ SumFunctionOnSet(Size', got') = chunk'[c].size + SumFunctionOnSet(Size, got)
           /\ SumFunctionOnSet(Size, got) \in Int
  <1> DEFINE g == Size'
  <1>1. IsFiniteSet(got)
    BY HeapIsFinite
  <1>2. (\A d \in got : g[d] \in Int) /\ g[c] \in Int /\ g[c] = chunk'[c].size
    BY DEF HeapTypes, Size
  <1> HIDE DEF g
  <1>3. SumFunctionOnSet(g, got \cup {c}) = g[c] + SumFunctionOnSet(g, got)
    BY <1>1, <1>2, SumAdds
  <1>4. SumFunctionOnSet(Size', got) = SumFunctionOnSet(Size, got) /\ SumFunctionOnSet(Size, got) \in Int
    BY SameSizes DEF HeapTypes
  <1> QED
    BY <1>2, <1>3, <1>4 DEF g

LEMMA TotalIsInt ==
    ASSUME HeapTypes, Accounts
    PROVE  SumFunctionOnSet(Size, got) \in Int /\ total \in Int
  <1>1. SumFunctionOnSet(Size, got) \in Int
    <2>1. 0 \in Int /\ \A i, j \in Int : i + j \in Int
      OBVIOUS
    <2>2. IsFiniteSet(got) /\ \A c \in got : Size[c] \in Int
      BY HeapIsFinite DEF HeapTypes
    <2>3. got \in SUBSET got
      OBVIOUS
    <2> QED
      BY <2>1, <2>2, <2>3, SumType
  <1>2. freed * (AlignSize - 1) \in Int
    BY LayoutAssumption DEF Accounts
  <1> QED
    BY <1>1, <1>2 DEF Accounts

LEMMA GivesAccounts ==
    ASSUME HeapInv, HeapTypes', Accounts, mem # 0, NEW p \in Pools, NEW c, NEW size \in Nat,
           NEW pad \in 0 .. AlignSize - 1, NEW n \in Nat, NEW left \in Nat,
           Gives(p, c, size, pad, n, left), size = n + left + Header + AlignSize - 1,
           total' = total + size, freed' = freed
    PROVE  Accounts'
  <1> USE LayoutAssumption
  <1>1. c \in Chunks /\ c \notin got /\ got' = got \cup {c} /\ mem' # 0
    BY DEF Gives
  <1>2. /\ chunk'[c] = [size |-> size, pad |-> pad, used |-> n, left |-> left]
        /\ \A d \in Chunks : d # c => chunk'[d] = chunk[d]
    BY <1>1 DEF Gives, HeapInv, HeapTypes
  <1>3. \A d \in got : chunk'[d].size = chunk[d].size
    BY <1>1, <1>2 DEF HeapInv, HeapTypes
  <1>4. /\ SumFunctionOnSet(Size', got') = size + SumFunctionOnSet(Size, got)
        /\ SumFunctionOnSet(Size, got) \in Int
    <2>1. chunk'[c].size = size
      BY <1>2
    <2> QED
      BY <1>1, <1>3, <2>1, AddsSize DEF HeapInv
  <1>5. total' = SumFunctionOnSet(Size', got') + freed' * (AlignSize - 1)
    <2>1. freed * (AlignSize - 1) \in Int
      BY DEF Accounts
    <2> QED
      BY <1>4, <2>1 DEF Accounts
  <1>6. Sized'
    <2> SUFFICES ASSUME NEW q \in Pools, NEW d \in PoolChunks(q)'
                 PROVE  chunk'[d].size = chunk'[d].used + chunk'[d].left + Header + AlignSize - 1
      BY DEF Sized
    <2>1. CASE d = c
      BY <2>1, <1>2
    <2>2. CASE d # c
      <3>1. d \in PoolChunks(q)
        BY <2>2 DEF Gives
      <3>2. d \in Chunks
        BY <3>1, OwnersHave DEF HeapInv
      <3> QED
        BY <2>2, <3>1, <3>2, <1>2 DEF Accounts, Sized
    <2> QED
      BY <2>1, <2>2
  <1> QED
    BY <1>1, <1>5, <1>6 DEF Accounts

(* A small object takes room that is counted, or a chunk that is.          *)
LEMMA SmallObjectAccounts ==
    ASSUME HeapInv, Accounts, mem # 0, NEW p \in Pools, NEW size \in Nat, SmallObject(p, size),
           mem' = mem, freed' = freed
    PROVE  Accounts'
  <1> USE LayoutAssumption
  <1> DEFINE n == RoundUp(size, AlignSize)
  <1>1. n \in Nat
    BY RoundUpIsEnough
  <1>2. (UsesRoom(p, n) \/ NewPool(p, n)) /\ large' = large
    BY DEF SmallObject
  <1> HIDE DEF n
  <1>3. CASE UsesRoom(p, n)
    <2>1. /\ HeapInv' /\ got' = got /\ total' = total /\ \A q \in Pools : PoolChunks(q)' = PoolChunks(q)
          /\ \A d \in Chunks : /\ chunk'[d].size = chunk[d].size
                               /\ chunk'[d].used + chunk'[d].left = chunk[d].used + chunk[d].left
      BY <1>1, <1>2, <1>3, UsesRoomKeeps
    <2>2. got \subseteq Chunks
      BY DEF HeapInv, HeapTypes
    <2>3. SumFunctionOnSet(Size', got) = SumFunctionOnSet(Size, got)
      BY <2>1, <2>2, SameSizes DEF HeapInv
    <2>4. Sized'
      <3> SUFFICES ASSUME NEW q \in Pools, NEW d \in PoolChunks(q)
                   PROVE  chunk'[d].size = chunk'[d].used + chunk'[d].left + Header + AlignSize - 1
        BY <2>1 DEF Sized
      <3>1. d \in Chunks
        BY OwnersHave DEF HeapInv
      <3>2. chunk[d].size = chunk[d].used + chunk[d].left + Header + AlignSize - 1
        BY DEF Accounts, Sized
      <3> QED
        BY <2>1, <3>1, <3>2
    <2> QED
      BY <2>1, <2>3, <2>4 DEF Accounts
  <1>4. CASE NewPool(p, n)
    <2>1. HeapInv'
      BY <1>1, <1>2, <1>4, NewPoolKeeps
    <2>2. PICK c \in Chunks, pad \in 0 .. AlignSize - 1, slop \in Nat :
              /\ Gives(p, c, Request(n) + slop, pad, n, slop)
              /\ total' = total + Request(n) + slop
      BY <1>1, <1>2, <1>4, NewPoolKeeps
    <2>3. SumFunctionOnSet(Size, got) \in Int /\ total \in Int
      BY TotalIsInt DEF HeapInv
    <2> DEFINE all == Request(n) + slop
    <2>4. all \in Nat /\ all = n + slop + Header + AlignSize - 1 /\ total' = total + all
      BY <1>1, <2>2, <2>3 DEF Request
    <2> HIDE DEF all
    <2>5. Gives(p, c, all, pad, n, slop)
      BY <2>2 DEF all
    <2>6. HeapTypes'
      BY <2>1 DEF HeapInv
    <2> QED
      BY <1>1, <2>4, <2>5, <2>6, GivesAccounts
  <1> QED
    BY <1>2, <1>3, <1>4

LEMMA LargeObjectAccounts ==
    ASSUME HeapInv, Accounts, mem # 0, NEW p \in Pools, NEW size \in Nat, NEW c \in Chunks,
           NEW pad \in Pads, LargeObject(p, size, c, pad), mem' = mem, freed' = freed
    PROVE  Accounts'
  <1> USE LayoutAssumption
  <1> DEFINE n == RoundUp(size, AlignSize)
             all == Request(n)
  <1>1. n \in Nat /\ HeapInv' /\ Gives(p, c, all, pad, n, 0)
    BY LargeObjectKeeps
  <1>2. total' = total + all
    BY DEF LargeObject
  <1> HIDE DEF n
  <1>3. pad \in 0 .. AlignSize - 1
    BY Zenon
  <1>4. all \in Nat /\ all = n + 0 + Header + AlignSize - 1
    BY <1>1 DEF Request
  <1> HIDE DEF all
  <1>5. HeapTypes'
    BY <1>1 DEF HeapInv
  <1> QED
    BY <1>1, <1>2, <1>3, <1>4, <1>5, GivesAccounts

(* free_pool takes from the total what the headers count.                  *)
LEMMA FreePoolAccounts ==
    ASSUME HeapInv, Accounts, mem # 0, NEW p \in Pools, FreePool(p), mem' = mem
    PROVE  Accounts'
  <1> USE LayoutAssumption
  <1> DEFINE P == PoolChunks(p)
             k == AlignSize - 1
             sizes(S) == SumFunctionOnSet(Size, S)
             spaces(S) == SumFunctionOnSet(Space, S)
  <1>1. HeapInv'
    BY FreePoolKeeps
  <1>2. got' = got \ P /\ freed' = freed + Cardinality(P) /\ total' = total - spaces(P)
    BY DEF FreePool, Frees
  <1>3. \A c \in Chunks : c \notin P => chunk'[c] = chunk[c]
    BY DEF FreePool, Frees
  <1>4. P \in SUBSET got /\ P \in SUBSET Chunks /\ got \ P \in SUBSET got /\ got \in SUBSET Chunks
    BY OwnersHave DEF HeapInv, HeapTypes
  <1>5. IsFiniteSet(got) /\ IsFiniteSet(P) /\ Cardinality(P) \in Nat
    BY <1>4, HeapIsFinite, FS_Subset, FS_CardinalityType DEF HeapInv
  <1>6. \A c \in got : Size[c] \in Int
    BY <1>4, HeapIsFinite DEF HeapInv
  <1>7. \A c \in P : Space[c] \in Int /\ Size[c] = Space[c] + k
    <2> TAKE c \in P
    <2>1. c \in Chunks /\ chunk[c].used \in Nat /\ chunk[c].left \in Nat
      BY <1>4 DEF HeapInv, HeapTypes
    <2>2. chunk[c].size = chunk[c].used + chunk[c].left + Header + AlignSize - 1
      BY DEF Accounts, Sized
    <2> QED
      BY <2>1, <2>2 DEF Size, Space
  <1>8. sizes(got) = sizes(P) + sizes(got \ P)
    BY <1>4, <1>5, <1>6, SumSplits
  <1>9. sizes(P) = spaces(P) + Cardinality(P) * k
    <2>1. k \in Int
      OBVIOUS
    <2> HIDE DEF P, k
    <2> QED
      BY <1>5, <1>7, <2>1, SumShifts
  <1>10. SumFunctionOnSet(Size', got') = sizes(got \ P)
    <2>1. \A c \in got \ P : chunk'[c].size = chunk[c].size
      BY <1>3, <1>4
    <2>2. got \ P \in SUBSET Chunks
      BY <1>4
    <2> HIDE DEF P
    <2> QED
      BY <1>1, <1>2, <1>4, <2>1, <2>2, SameSizes DEF HeapInv
  <1>11. sizes(P) \in Int /\ sizes(got \ P) \in Int /\ spaces(P) \in Int
    <2>1. 0 \in Int /\ \A i, j \in Int : i + j \in Int
      OBVIOUS
    <2>2. sizes(P) \in Int /\ sizes(got \ P) \in Int
      BY <1>4, <1>5, <1>6, <2>1, SumType
    <2>3. P \in SUBSET P
      OBVIOUS
    <2>4. spaces(P) \in Int
      BY <1>5, <1>7, <2>1, <2>3, SumType
    <2> QED
      BY <2>2, <2>4
  <1>12. total = sizes(got) + freed * k /\ freed \in Nat
    BY DEF Accounts
  <1>13. \A q \in Pools : PoolChunks(q)' = IF q = p THEN {} ELSE PoolChunks(q)
    BY DEF FreePool, PoolChunks, HeapInv, HeapTypes
  <1>14. Sized'
    <2> SUFFICES ASSUME NEW q \in Pools, q # p, NEW d \in PoolChunks(q)
                 PROVE  chunk'[d].size = chunk'[d].used + chunk'[d].left + Header + AlignSize - 1
      BY <1>13 DEF Sized
    <2>1. d \in Chunks
      BY OwnersHave DEF HeapInv
    <2>2. d \notin P
      BY DEF HeapInv, OneOwner, Pools
    <2>3. chunk'[d] = chunk[d]
      BY <1>3, <2>1, <2>2
    <2> QED
      BY <2>3 DEF Accounts, Sized
  <1>15. total' = SumFunctionOnSet(Size', got') + freed' * k
    <2>1. k \in Int
      OBVIOUS
    <2>2. \A a, b \in Int : (a + b) * k = a * k + b * k /\ a * k \in Int /\ b * k \in Int
      BY <2>1
    <2> HIDE DEF P, k, sizes, spaces
    <2>3. /\ (freed + Cardinality(P)) * k = freed * k + Cardinality(P) * k
          /\ freed * k \in Int /\ Cardinality(P) * k \in Int
      BY <1>5, <1>12, <2>2
    <2>4. freed' * k = freed * k + Cardinality(P) * k
      BY <1>2, <2>3
    <2> QED
      BY <1>2, <1>8, <1>9, <1>10, <1>11, <1>12, <2>3, <2>4
  <1>16. freed' \in Nat
    BY <1>2, <1>5, <1>12
  <1> QED
    BY <1>14, <1>15, <1>16 DEF Accounts

LEMMA DestroyedAccounts ==
    ASSUME HeapInv, Destroyed
    PROVE  Accounts'
  <1>1. got' = {} /\ mem' = 0 /\ total' = 0 /\ freed' = 0 /\ call' = "idle"
    BY DEF Destroyed, Frees, HeapInv, OneOwner
  <1>2. \A p \in Pools : PoolChunks(p)' = {}
    BY DEF Destroyed, PoolChunks
  <1>3. SumFunctionOnSet(Size', {}) = 0
    BY FS_EmptySet, SumUnfolds
  <1>4. 0 * (AlignSize - 1) = 0
    BY LayoutAssumption
  <1> QED
    BY <1>1, <1>2, <1>3, <1>4 DEF Accounts, Sized

-----------------------------------------------------------------------------
(* The theorems.                                                           *)

LEMMA AllocSmallKeeps ==
    ASSUME MemoryInv, AllocSmall
    PROVE  MemoryInv'
  <1>1. CASE ErrorExit
    BY <1>1, ErrorExitKeeps
  <1>2. ASSUME NEW p \in Pools, NEW size \in Sizes, SmallObject(p, size),
               UNCHANGED <<mem, arrayVars, historyVars>>
        PROVE  MemoryInv'
    <2>1. size \in Nat /\ junk' = junk /\ UNCHANGED arrayVars
      BY <1>2, InputAssumption DEF historyVars
    <2> QED
      BY <1>2, <2>1, SmallObjectKeeps, SmallObjectAdds, SameArray DEF MemoryInv
  <1> QED
    BY <1>1, <1>2 DEF AllocSmall

LEMMA AllocLargeKeeps ==
    ASSUME MemoryInv, AllocLarge
    PROVE  MemoryInv'
  <1>1. CASE ErrorExit
    BY <1>1, ErrorExitKeeps
  <1>2. ASSUME NEW p \in Pools, NEW size \in Sizes, NEW c \in Chunks, NEW pad \in Pads,
               LargeObject(p, size, c, pad), UNCHANGED <<mem, arrayVars, historyVars>>
        PROVE  MemoryInv'
    <2>1. size \in Nat /\ junk' = junk /\ UNCHANGED arrayVars
      BY <1>2, InputAssumption DEF historyVars
    <2>2. HeapInv' /\ objects \subseteq objects'
      BY <1>2, <2>1, LargeObjectKeeps DEF MemoryInv
    <2> QED
      BY <2>1, <2>2, SameArray DEF MemoryInv
  <1> QED
    BY <1>1, <1>2 DEF AllocLarge

LEMMA CreateMgrKeeps ==
    ASSUME MemoryInv, CreateMgr
    PROVE  MemoryInv'
  <1> USE LayoutAssumption DEF MemoryInv
  <1>1. PICK c \in Chunks : Malloc(c, Manager, 0, 0, 0) /\ mem' = c
    BY DEF CreateMgr
  <1>2. /\ UNCHANGED <<small, large, objects, arrayVars, junk>> /\ mem = 0
        /\ c \notin got /\ got' = got \cup {c} /\ c # 0
        /\ chunk' = [chunk EXCEPT ![c] = [size |-> Manager, pad |-> 0, used |-> 0, left |-> 0]]
    BY <1>1 DEF CreateMgr, Malloc, IsFirstFree, historyVars, Chunks
  <1>3. \A p \in Pools : PoolChunks(p)' = PoolChunks(p)
    BY <1>2 DEF PoolChunks
  <1>4. \A p \in Pools : \A d \in PoolChunks(p) : d # c /\ chunk'[d] = chunk[d]
    BY <1>2, OwnersHave DEF HeapInv, HeapTypes
  <1>5. HeapTypes'
    <2>1. chunk' \in [Chunks -> [size : Nat, pad : 0 .. AlignSize - 1, used : Nat, left : Nat]]
      BY <1>2 DEF HeapInv, HeapTypes
    <2>2. mem' \in 0 .. MaxChunks /\ got' \subseteq Chunks
      BY <1>1, <1>2, HeapAssumption DEF HeapInv, HeapTypes, Chunks
    <2> QED
      BY <1>2, <2>1, <2>2 DEF HeapInv, HeapTypes
  <1>6. OneOwner'
    BY <1>1, <1>2, <1>3, <1>4 DEF HeapInv, OneOwner, Pools
  <1>7. Fits'
    BY <1>3, <1>4 DEF HeapInv, Fits
  <1>8. Placed'
    BY <1>2, <1>3, <1>4 DEF HeapInv, Placed, Apart
  <1> QED
    BY <1>2, <1>5, <1>6, <1>7, <1>8, SameArray DEF HeapInv

LEMMA AbortKeeps ==
    ASSUME MemoryInv, Abort
    PROVE  MemoryInv'
  <1>1. HeapInv'
    BY FreePoolKeeps DEF MemoryInv, Abort, Pools
  <1>2. call' = "idle" /\ junk' = FALSE /\ virt' = <<>> /\ array' = NoArray
    BY DEF Abort, Ready, MemoryInv, VirtInv
  <1> QED
    BY <1>1, <1>2, NoArrayIsRight DEF MemoryInv

LEMMA InitIsRight ==
    ASSUME Init
    PROVE  MemoryInv
  <1> USE LayoutAssumption DEF Init
  <1>1. \A p \in Pools : PoolChunks(p) = {}
    BY DEF PoolChunks
  <1>2. HeapTypes
    BY HeapAssumption DEF HeapTypes, Empty
  <1>3. OneOwner
    BY <1>1 DEF OneOwner, Pools
  <1>4. Placed /\ Fits
    BY <1>1 DEF Placed, Fits
  <1>5. /\ array.rows = <<>> /\ array.height = 0
        /\ array \in [pool : Pools, width : Nat, height : Nat, per : Nat,
                      rows : Seq([chunk : Chunks, from : Nat]), virt : Nat]
    BY DEF NoArray, Pools
  <1>6. ArrayTypes /\ Realizes
    BY <1>5 DEF ArrayTypes, Realizes
  <1>7. RowsInPlace
    BY <1>5 DEF RowsInPlace
  <1>8. VirtInv
    BY DEF VirtInv
  <1> QED
    BY <1>2, <1>3, <1>4, <1>6, <1>7, <1>8 DEF MemoryInv, HeapInv

LEMMA StutterKeeps ==
    ASSUME MemoryInv, UNCHANGED vars
    PROVE  MemoryInv'
  <1> USE DEF vars, heapVars, poolVars, historyVars
  <1>1. HeapInv'
    BY QuietKeeps DEF MemoryInv
  <1> QED
    BY <1>1, SameArray DEF MemoryInv

(* Whatever is asked for, in whatever order, and wherever malloc puts it,  *)
(* the heap, the arrays and what is in them are as they should be.         *)
THEOREM Invariance == Spec => []MemoryInv
  <1>1. Init => MemoryInv
    BY InitIsRight
  <1>2. MemoryInv /\ [Next]_vars => MemoryInv'
    <2> SUFFICES ASSUME MemoryInv, [Next]_vars
                 PROVE  MemoryInv'
      OBVIOUS
    <2>1. CASE CreateMgr
      BY <2>1, CreateMgrKeeps
    <2>2. CASE Destroy
      BY <2>2, ErrorExitKeeps DEF Destroy, ErrorExit
    <2>3. CASE Abort
      BY <2>3, AbortKeeps
    <2>4. CASE AllocSmall
      BY <2>4, AllocSmallKeeps
    <2>5. CASE AllocLarge
      BY <2>5, AllocLargeKeeps
    <2>6. CASE AllocArray
      BY <2>6, AllocArrayKeeps
    <2>7. CASE AllocRows
      BY <2>7, AllocRowsKeeps
    <2>8. CASE RequestVirt
      BY <2>8, RequestVirtKeeps
    <2>9. CASE Realize
      BY <2>9, RealizeKeeps
    <2>10. CASE Access
      BY <2>10, AccessKeeps
    <2>11. CASE UNCHANGED vars
      BY <2>11, StutterKeeps
    <2> QED
      BY <2>1, <2>2, <2>3, <2>4, <2>5, <2>6, <2>7, <2>8, <2>9, <2>10, <2>11 DEF Next
  <1> QED
    BY <1>1, <1>2, PTL DEF Spec

(* Objects lie behind the header of a chunk that was not freed, within it, *)
(* and do not overlap.  (alloc_small, alloc_large.)                        *)
THEOREM ObjectsAreApart == Spec => []ObjectsApart
  <1>1. MemoryInv => ObjectsApart
    <2> SUFFICES ASSUME HeapInv
                 PROVE  ObjectsApart
      BY DEF MemoryInv
    <2>1. ASSUME NEW o \in objects
          PROVE  /\ o.chunk \in got \ {mem}
                 /\ Header <= o.from /\ o.from + o.size <= chunk[o.chunk].size
      <3>1. /\ o.pool \in Pools /\ o.from \in Nat /\ o.size \in Nat
            /\ o.chunk \in PoolChunks(o.pool)
            /\ Header + chunk[o.chunk].pad <= o.from
            /\ o.from + o.size <= Header + chunk[o.chunk].pad + chunk[o.chunk].used
        BY DEF HeapInv, Placed
      <3>2. o.chunk \in Chunks /\ o.chunk \in got /\ o.chunk # mem
        BY <3>1, OwnersHave DEF HeapInv
      <3>3. /\ chunk[o.chunk].pad \in Nat /\ chunk[o.chunk].used \in Nat
            /\ chunk[o.chunk].left \in Nat /\ chunk[o.chunk].size \in Nat
        BY <3>2, LayoutAssumption DEF HeapInv, HeapTypes
      <3>4. Header + chunk[o.chunk].pad + chunk[o.chunk].used + chunk[o.chunk].left
                <= chunk[o.chunk].size
        BY <3>1 DEF HeapInv, Fits
      <3> QED
        BY <3>1, <3>2, <3>3, <3>4, LayoutAssumption
    <2> QED
      BY <2>1 DEF HeapInv, Placed, ObjectsApart
  <1> QED
    BY <1>1, Invariance, PTL

(* Each chunk has one owner, so that none is freed twice and none is left. *)
(* (free_pool, self_destruct.)                                             *)
THEOREM ChunksHaveOneOwner == Spec => []OneOwner
  <1>1. MemoryInv => OneOwner
    BY DEF MemoryInv, HeapInv
  <1> QED
    BY <1>1, Invariance, PTL

(* Rows are pieces of large objects of their own, behind each other in one *)
(* chunk.  (alloc_sarray, alloc_barray.)                                   *)
THEOREM RowsAreInPlace == Spec => []RowsInPlace
  <1>1. MemoryInv => RowsInPlace
    BY DEF MemoryInv
  <1> QED
    BY <1>1, Invariance, PTL

(* A virtual array is never read where it was not written or zeroed, and   *)
(* what was written is not zeroed.  (access_virt_sarray.)                  *)
THEOREM ReadsAreDefined == Spec => []ReadsBack
  <1>1. MemoryInv => ReadsBack
    BY DEF MemoryInv, VirtInv, ReadsBack
  <1> QED
    BY <1>1, Invariance, PTL

-----------------------------------------------------------------------------
(* What is allocated is accounted, and the types.                          *)

LEMMA QuietAccounts ==
    ASSUME Accounts, UNCHANGED <<mem, heapVars, small, large, total, freed>>, mem # 0 \/ call' = call
    PROVE  Accounts'
  <1>1. Size' = Size /\ \A p \in Pools : PoolChunks(p)' = PoolChunks(p)
    BY DEF Size, PoolChunks, heapVars
  <1> QED
    BY <1>1 DEF Accounts, Sized, heapVars

LEMMA BeginArrayAccounts ==
    ASSUME HeapInv, Accounts, mem # 0, NEW p \in Pools, NEW bytes, NEW height \in Nat, NEW v,
           BeginArray(p, bytes, height, v)
    PROVE  Accounts'
  <1>1. CASE ErrorExit
    BY <1>1, DestroyedAccounts DEF ErrorExit
  <1>2. CASE SmallObject(p, height) /\ UNCHANGED <<mem, virt, historyVars>>
    BY <1>2, SmallObjectAccounts DEF historyVars
  <1> QED
    BY <1>1, <1>2 DEF BeginArray

LEMMA CreateMgrAccounts ==
    ASSUME MemoryInv, MemoryInv', Accounts, CreateMgr
    PROVE  Accounts'
  <1>1. PICK c \in Chunks : Malloc(c, Manager, 0, 0, 0) /\ mem' = c
    BY DEF CreateMgr
  <1>2. /\ UNCHANGED <<small, large, freed, call>> /\ total' = Manager
        /\ c \notin got /\ got' = got \cup {c} /\ mem' # 0
        /\ chunk' = [chunk EXCEPT ![c] = [size |-> Manager, pad |-> 0, used |-> 0, left |-> 0]]
    BY <1>1 DEF CreateMgr, Malloc, IsFirstFree, historyVars, arrayVars, Chunks
  <1>3. got = {} /\ freed = 0 /\ Manager \in Nat /\ 0 * (AlignSize - 1) = 0
    BY LayoutAssumption DEF CreateMgr, Accounts
  <1>4. chunk'[c].size = Manager
    BY <1>2 DEF MemoryInv, HeapInv, HeapTypes
  <1>5. SumFunctionOnSet(Size', got') = Manager + SumFunctionOnSet(Size, got)
    BY <1>2, <1>3, <1>4, AddsSize DEF MemoryInv, HeapInv
  <1>6. SumFunctionOnSet(Size, got) = 0
    BY <1>3, FS_EmptySet, SumUnfolds
  <1>7. \A p \in Pools : PoolChunks(p)' = {}
    <2>1. \A p \in Pools : PoolChunks(p) = {}
      BY <1>3, OwnersHave DEF MemoryInv, HeapInv
    <2> QED
      BY <1>2, <2>1 DEF PoolChunks
  <1>8. total' = SumFunctionOnSet(Size', got') + freed' * (AlignSize - 1) /\ freed' \in Nat
    BY <1>2, <1>3, <1>5, <1>6
  <1> QED
    BY <1>2, <1>7, <1>8 DEF Accounts, Sized

LEMMA NextAccounts ==
    ASSUME MemoryInv, MemoryInv', Accounts, [Next]_vars
    PROVE  Accounts'
  <1>1. HeapInv
    BY DEF MemoryInv
  <1>2. CASE Destroyed
    BY <1>1, <1>2, DestroyedAccounts
  <1> SUFFICES ASSUME ~Destroyed, ~ErrorExit
               PROVE  Accounts'
    BY <1>2 DEF ErrorExit
  <1>3. Ready \/ call # "idle" => mem # 0
    BY DEF Accounts, Ready
  <1>4. CASE CreateMgr
    BY <1>4, CreateMgrAccounts
  <1>5. CASE Abort
    BY <1>1, <1>3, <1>5, FreePoolAccounts DEF Abort, Pools
  <1>6. CASE AllocSmall
    <2>1. PICK p \in Pools, size \in Sizes :
              SmallObject(p, size) /\ UNCHANGED <<mem, arrayVars, historyVars>>
      BY <1>6 DEF AllocSmall
    <2>2. size \in Nat /\ mem # 0 /\ freed' = freed
      BY <1>3, <1>6, <2>1, InputAssumption DEF AllocSmall, historyVars
    <2> QED
      BY <1>1, <2>1, <2>2, SmallObjectAccounts
  <1>7. CASE AllocLarge
    <2>1. PICK p \in Pools, size \in Sizes, c \in Chunks, pad \in Pads :
              LargeObject(p, size, c, pad) /\ UNCHANGED <<mem, arrayVars, historyVars>>
      BY <1>7 DEF AllocLarge
    <2>2. size \in Nat /\ mem # 0 /\ freed' = freed
      BY <1>3, <1>7, <2>1, InputAssumption DEF AllocLarge, historyVars
    <2> QED
      BY <1>1, <2>1, <2>2, LargeObjectAccounts
  <1>8. CASE AllocArray
    <2>1. PICK p \in Pools, kind \in {"sarray", "barray"}, width \in Widths, height \in Heights :
              BeginArray(p, RowBytes(kind, width), height, 0)
      BY <1>8 DEF AllocArray
    <2>2. height \in Nat /\ mem # 0
      BY <1>3, <1>8, InputAssumption DEF AllocArray
    <2> QED
      BY <1>1, <2>1, <2>2, BeginArrayAccounts
  <1>9. CASE AllocRows
    <2>1. PICK c \in Chunks, pad \in Pads :
              LargeObject(array.pool, ChunkRows * array.width, c, pad) /\ UNCHANGED <<mem, historyVars>>
      BY <1>9 DEF AllocRows
    <2>2. mem # 0 /\ freed' = freed /\ array.pool \in Pools
      BY <1>3, <1>9, <2>1 DEF AllocRows, historyVars, MemoryInv, ArrayTypes
    <2>3. ChunkRows * array.width \in Nat
      <3>1. ChunkRows \in Nat
        BY DEF ChunkRows, AtMost, MemoryInv, ArrayTypes, RowsInPlace
      <3>2. array.width \in Nat
        BY DEF MemoryInv, ArrayTypes
      <3> QED
        BY <3>1, <3>2
    <2> QED
      BY <1>1, <2>1, <2>2, <2>3, LargeObjectAccounts
  <1>10. CASE RequestVirt
    <2>1. SmallObject("IMAGE", Control) /\ UNCHANGED <<mem, historyVars>> /\ mem # 0
      BY <1>3, <1>10 DEF RequestVirt
    <2>2. Control \in Nat /\ "IMAGE" \in Pools /\ freed' = freed
      BY <2>1, LayoutAssumption DEF Pools, historyVars
    <2> QED
      BY <1>1, <2>1, <2>2, SmallObjectAccounts
  <1>11. CASE Realize
    <2>1. mem # 0
      BY <1>3, <1>11 DEF Realize
    <2>2. CASE UNCHANGED <<mem, heapVars, poolVars, virt, array, historyVars>>
      BY <2>1, <2>2, QuietAccounts DEF poolVars, historyVars
    <2>3. ASSUME NEW v \in Unrealized,
                 BeginArray("IMAGE", RowBytes(virt[v].kind, virt[v].width), virt[v].height, v)
          PROVE  Accounts'
      <3>1. v \in DOMAIN virt /\ virt \in Seq(VirtArrays)
        BY DEF Unrealized, MemoryInv, VirtInv
      <3>2. virt[v].height \in Nat
        <4>1. virt[v] \in VirtArrays
          BY <3>1
        <4> QED
          BY <4>1 DEF VirtArrays
      <3>3. "IMAGE" \in Pools
        BY DEF Pools
      <3> QED
        BY <1>1, <2>1, <2>3, <3>2, <3>3, BeginArrayAccounts
    <2> QED
      BY <1>11, <2>2, <2>3 DEF Realize
  <1>12. CASE Access
    <2>1. PICK v \in DOMAIN virt, from \in 1 .. Max(Heights) :
              \E to \in from .. Max(Heights), writable \in BOOLEAN : Accessed(v, from, to, writable)
      BY <1>12 DEF Access
    <2>2. UNCHANGED <<mem, heapVars, poolVars, call, freed>>
      BY <2>1 DEF Accessed
    <2> QED
      BY <2>2, QuietAccounts DEF poolVars
  <1>13. CASE UNCHANGED vars
    BY <1>13, QuietAccounts DEF vars, poolVars, arrayVars, historyVars
  <1> QED
    BY <1>4, <1>5, <1>6, <1>7, <1>8, <1>9, <1>10, <1>11, <1>12, <1>13 DEF Next, Destroy

LEMMA AccountsInvariant == Spec => []Accounts
  <1>1. Init => Accounts
    <2> SUFFICES ASSUME Init
                 PROVE  Accounts
      OBVIOUS
    <2>1. \A p \in Pools : PoolChunks(p) = {}
      BY DEF Init, PoolChunks
    <2>2. SumFunctionOnSet(Size, {}) = 0
      BY FS_EmptySet, SumUnfolds
    <2>3. 0 * (AlignSize - 1) = 0
      BY LayoutAssumption
    <2> QED
      BY <2>1, <2>2, <2>3 DEF Init, Accounts, Sized
  <1>2. MemoryInv /\ MemoryInv' /\ Accounts /\ [Next]_vars => Accounts'
    BY NextAccounts
  <1> QED
    BY <1>1, <1>2, Invariance, PTL DEF Spec

(* total_space_allocated is the sum of the sizes of the chunks owned now,  *)
(* each with its header and ALIGN_SIZE-1, and on top of it ALIGN_SIZE-1    *)
(* for every chunk freed: it drifts upward by that, since free_pool        *)
(* subtracts used, left and header only.  (jmemmgr.c, free_pool.)          *)
THEOREM SpaceIsAccounted == Spec => []ChunksAreAccounted
  <1>1. MemoryInv /\ Accounts => ChunksAreAccounted
    BY DEF MemoryInv, HeapInv, Accounts, ChunksAreAccounted
  <1> QED
    BY <1>1, Invariance, AccountsInvariant, PTL

-----------------------------------------------------------------------------
(* Types.                                                                  *)

Bounds == frees \in 0 .. MaxFrees /\ array.virt <= Len(virt)

LEMMA SameLength ==
    ASSUME NEW s, NEW r, NEW E, s \in Seq(E), r \in Seq(E), DOMAIN r = DOMAIN s
    PROVE  Len(r) = Len(s)
  <1>1. 1 .. Len(r) = 1 .. Len(s) /\ Len(r) \in Nat /\ Len(s) \in Nat
    BY LenProperties
  <1>2. Len(r) \in 1 .. Len(s) \/ Len(r) = 0
    BY <1>1
  <1>3. Len(s) \in 1 .. Len(r) \/ Len(s) = 0
    BY <1>1
  <1> QED
    BY <1>1, <1>2, <1>3

LEMMA DestroyedBounds ==
    ASSUME Destroyed
    PROVE  Bounds'
  <1>1. frees' = 0 /\ array'.virt = 0 /\ Len(virt') = 0
    BY DEF Destroyed, NoArray
  <1> QED
    BY <1>1, InputAssumption DEF Bounds

LEMMA BeginArrayBounds ==
    ASSUME Bounds, NEW p, NEW bytes, NEW height, NEW v, v <= Len(virt), BeginArray(p, bytes, height, v)
    PROVE  Bounds'
  BY DestroyedBounds DEF BeginArray, ErrorExit, Bounds, historyVars

LEMMA NextBounds ==
    ASSUME MemoryInv, MemoryInv', Bounds, [Next]_vars
    PROVE  Bounds'
  <1>1. CASE Destroyed
    BY <1>1, DestroyedBounds
  <1> SUFFICES ASSUME ~Destroyed, ~ErrorExit
               PROVE  Bounds'
    BY <1>1 DEF ErrorExit
  <1>2. /\ virt \in Seq(VirtArrays) /\ virt' \in Seq(VirtArrays)
        /\ Len(virt) \in Nat /\ Len(virt') \in Nat /\ array.virt \in Nat
    BY DEF MemoryInv, VirtInv, ArrayTypes
  <1>3. CASE UNCHANGED <<arrayVars, frees>>
    BY <1>3 DEF Bounds, arrayVars
  <1>4. CASE CreateMgr \/ AllocSmall \/ AllocLarge \/ UNCHANGED vars
    BY <1>3, <1>4 DEF CreateMgr, AllocSmall, AllocLarge, historyVars, vars
  <1>5. CASE Abort
    <2>1. frees' = frees + 1 /\ frees < MaxFrees /\ array'.virt = 0 /\ Len(virt') = 0
      BY <1>5 DEF Abort, NoArray
    <2> QED
      BY <2>1, InputAssumption DEF Bounds
  <1>6. CASE AllocArray
    <2>1. 0 <= Len(virt)
      BY <1>2
    <2> QED
      BY <1>6, <2>1, BeginArrayBounds DEF AllocArray
  <1>7. CASE AllocRows
    <2>1. PICK rows : array' = [array EXCEPT !.rows = rows]
      BY <1>7 DEF AllocRows
    <2>2. array'.virt = array.virt
      BY <2>1 DEF MemoryInv, ArrayTypes
    <2>3. DOMAIN virt' = DOMAIN virt /\ frees' = frees
      BY <1>7 DEF AllocRows, historyVars
    <2>4. Len(virt') = Len(virt)
      BY <1>2, <2>3, SameLength
    <2> QED
      BY <2>2, <2>3, <2>4 DEF Bounds
  <1>8. CASE RequestVirt
    <2>1. PICK new : virt' = <<new>> \o virt /\ array' = array /\ frees' = frees
      BY <1>8 DEF RequestVirt, historyVars
    <2>2. Len(virt') = 1 + Len(virt)
      BY <1>2, <2>1
    <2> QED
      BY <1>2, <2>1, <2>2 DEF Bounds
  <1>9. CASE Realize
    <2>1. ASSUME NEW v \in Unrealized,
                 BeginArray("IMAGE", RowBytes(virt[v].kind, virt[v].width), virt[v].height, v)
          PROVE  Bounds'
      <3>1. v <= Len(virt)
        BY <1>2 DEF Unrealized
      <3> QED
        BY <2>1, <3>1, BeginArrayBounds
    <2>2. CASE UNCHANGED <<mem, heapVars, poolVars, virt, array, historyVars>>
      BY <2>2 DEF Bounds, historyVars
    <2> QED
      BY <1>9, <2>1, <2>2 DEF Realize
  <1>10. CASE Access
    <2>1. PICK v \in DOMAIN virt, from \in 1 .. Max(Heights) :
              \E to \in from .. Max(Heights), writable \in BOOLEAN : Accessed(v, from, to, writable)
      BY <1>10 DEF Access
    <2>2. DOMAIN virt' = DOMAIN virt /\ array' = array /\ frees' = frees
      BY <2>1 DEF Accessed
    <2>3. Len(virt') = Len(virt)
      BY <1>2, <2>2, SameLength
    <2> QED
      BY <2>2, <2>3 DEF Bounds
  <1> QED
    BY <1>4, <1>5, <1>6, <1>7, <1>8, <1>9, <1>10 DEF Next, Destroy

(* Every variable keeps its type; total_space_allocated, a size_t in the   *)
(* code, is never less than 0.                                             *)
THEOREM TypeCorrect == Spec => []TypeOK
  <1>1. Init => Bounds
    BY InputAssumption DEF Init, Bounds, NoArray
  <1>2. MemoryInv /\ MemoryInv' /\ Bounds /\ [Next]_vars => Bounds'
    BY NextBounds
  <1>3. MemoryInv /\ Bounds /\ Accounts => TypeOK
    <2> SUFFICES ASSUME MemoryInv, Bounds, Accounts
                 PROVE  TypeOK
      OBVIOUS
    <2>1. HeapTypes
      BY DEF MemoryInv, HeapInv
    <2>2. total \in Nat
      <3>1. IsFiniteSet(got) /\ (\A c \in got : Size[c] \in Nat) /\ got \in SUBSET got
        BY <2>1, HeapIsFinite DEF HeapTypes
      <3>2. 0 \in Nat /\ \A i, j \in Nat : i + j \in Nat
        OBVIOUS
      <3>3. SumFunctionOnSet(Size, got) \in Nat
        BY <3>1, <3>2, SumType
      <3>4. freed * (AlignSize - 1) \in Nat
        BY LayoutAssumption DEF Accounts
      <3> QED
        BY <3>3, <3>4 DEF Accounts
    <2>3. array.pool \in Pools /\ array.virt \in 0 .. Len(virt)
      BY DEF MemoryInv, ArrayTypes, VirtInv, Bounds
    <2>4. ASSUME NEW v \in DOMAIN virt
          PROVE  /\ virt[v].undef \in 1 .. virt[v].height + 1
                 /\ \A r \in DOMAIN virt[v].buffer : virt[v].buffer[r] \in {"junk", "zero", "data"}
      <3>1. /\ virt[v].undef \in 1 .. virt[v].height + 1
            /\ \/ virt[v].buffer = <<>>
               \/ virt[v].buffer \in [1 .. virt[v].height -> Marks]
        BY DEF MemoryInv, VirtInv, DefinedBelow
      <3> DEFINE b == virt[v].buffer
      <3>2. b = <<>> => DOMAIN b = {}
        OBVIOUS
      <3>3. \A n : b \in [1 .. n -> Marks] => \A r \in DOMAIN b : b[r] \in Marks
        OBVIOUS
      <3> HIDE DEF b
      <3>4. \A r \in DOMAIN b : b[r] \in Marks
        BY <3>1, <3>2, <3>3 DEF b
      <3> QED
        BY <3>1, <3>4 DEF Marks, b
    <2>5. \A o \in objects : o.pool \in Pools /\ o.chunk \in Chunks /\ o.from \in Nat /\ o.size \in Nat
      BY OwnersHave DEF MemoryInv, HeapInv, Placed
    <2>6. call \in {"idle", "rows", "realize"} /\ junk \in BOOLEAN /\ frees \in 0 .. MaxFrees
      BY DEF MemoryInv, ArrayTypes, VirtInv, Bounds
    <2>7. freed \in Nat
      BY DEF Accounts
    <2> QED
      BY <2>1, <2>2, <2>3, <2>4, <2>5, <2>6, <2>7 DEF TypeOK, HeapTypes
  <1> QED
    BY <1>1, <1>2, <1>3, Invariance, AccountsInvariant, PTL DEF Spec

-----------------------------------------------------------------------------
(* Markers of some kinds.                                                  *)

(* Induction over sequences, with a set for the predicate: what holds of   *)
(* the empty one and of one with an element more holds of all.             *)
LEMMA SequenceInduction ==
    ASSUME NEW M, NEW Good, <<>> \in Good,
           \A s \in Seq(M) : \A e \in M : s \in Good => Append(s, e) \in Good
    PROVE  \A s \in Seq(M) : s \in Good
  <1> DEFINE Bad == {Len(s) : s \in Seq(M) \ Good}
  <1> SUFFICES ASSUME Seq(M) \ Good # {}
               PROVE  FALSE
    OBVIOUS
  <1>1. Bad \in SUBSET Nat /\ Bad # {}
    BY LenProperties
  <1>2. PICK n \in Bad : \A k \in Bad : n <= k
    <2> HIDE DEF Bad
    <2> QED
      BY <1>1, LeastNat
  <1>3. PICK s \in Seq(M) \ Good : n = Len(s)
    OBVIOUS
  <1>4. s # <<>> /\ n \in Nat \ {0}
    BY <1>1, <1>3, EmptySeq
  <1>5. PICK t \in Seq(M), e \in M : s = Append(t, e) /\ Len(t) = n - 1
    <2>1. /\ SubSeq(s, 1, n - 1) \in Seq(M) /\ Len(SubSeq(s, 1, n - 1)) = n - 1 /\ s[n] \in M
          /\ s = Append(SubSeq(s, 1, n - 1), s[n])
      BY <1>3, <1>4
    <2> QED
      BY <2>1
  <1>6. t \notin Good
    BY <1>3, <1>5
  <1>7. n - 1 \in Bad
    BY <1>5, <1>6
  <1> QED
    BY <1>1, <1>2, <1>4, <1>7

(* A marker more: it is the last of those selected, or not among them.     *)
With(list, marker, kinds) == IF marker.kind \in kinds THEN Append(list, marker) ELSE list

(* Selected is a recursion; there is a function that satisfies it.         *)
SelectsUpTo(g, s, kinds, n) == g[0] = <<>> /\ \A k \in 1 .. n : g[k] = With(g[k - 1], s[k], kinds)

LEMMA SelectedIs ==
    ASSUME NEW M, NEW s \in Seq(M), NEW kinds
    PROVE  \E g : Selected(s, kinds) = g[Len(s)] /\ SelectsUpTo(g, s, kinds, Len(s))
  <1> DEFINE Good == {t \in Seq(M) : \E g : SelectsUpTo(g, t, kinds, Len(t))}
  <1>1. <<>> \in Good
    <2>1. SelectsUpTo([k \in {0} |-> <<>>], <<>>, kinds, Len(<<>>))
      BY DEF SelectsUpTo
    <2> QED
      BY <2>1
  <1>2. ASSUME NEW t \in Seq(M), NEW e \in M, t \in Good
        PROVE  Append(t, e) \in Good
    <2>1. PICK g : SelectsUpTo(g, t, kinds, Len(t))
      BY <1>2
    <2> DEFINE n == Len(t)
               u == Append(t, e)
               h == [k \in 0 .. n + 1 |-> IF k <= n THEN g[k] ELSE With(g[n], e, kinds)]
    <2>2. n \in Nat /\ u \in Seq(M) /\ Len(u) = n + 1 /\ u[n + 1] = e /\ \A k \in 1 .. n : u[k] = t[k]
      OBVIOUS
    <2>3. ASSUME NEW k \in 1 .. n + 1
          PROVE  h[k] = With(h[k - 1], u[k], kinds)
      <3>1. CASE k <= n
        BY <2>1, <2>2, <3>1 DEF SelectsUpTo
      <3>2. CASE k = n + 1
        BY <2>2, <3>2
      <3> QED
        BY <2>2, <3>1, <3>2
    <2>4. h[0] = <<>>
      BY <2>1, <2>2 DEF SelectsUpTo
    <2> HIDE DEF h
    <2>5. SelectsUpTo(h, u, kinds, Len(u))
      BY <2>2, <2>3, <2>4 DEF SelectsUpTo
    <2> QED
      BY <2>2, <2>5
  <1>3. s \in Good
    <2> HIDE DEF Good
    <2> QED
      BY <1>1, <1>2, SequenceInduction
  <1>4. PICK g : SelectsUpTo(g, s, kinds, Len(s))
    BY <1>3
  <1> DEFINE n == Len(s)
             Steps(f) == [k \in 0 .. n |-> IF k = 0 THEN <<>> ELSE With(f[k - 1], s[k], kinds)]
             h == [k \in 0 .. n |-> g[k]]
             chosen == CHOOSE f : f = Steps(f)
  <1>5. h = Steps(h)
    BY <1>4 DEF SelectsUpTo
  <1> HIDE DEF h
  <1>6. chosen = Steps(chosen)
    BY <1>5, Zenon
  <1>7. Selected(s, kinds) = chosen[n]
    BY Zenon DEF Selected, With
  <1> HIDE DEF chosen
  <1>8. n \in Nat
    OBVIOUS
  <1>9. \A k \in 0 .. n : chosen[k] = IF k = 0 THEN <<>> ELSE With(chosen[k - 1], s[k], kinds)
    BY <1>6, Zenon
  <1>10. SelectsUpTo(chosen, s, kinds, n)
    BY <1>8, <1>9 DEF SelectsUpTo
  <1> QED
    BY <1>7, <1>10

LEMMA SelectedEmpty == ASSUME NEW kinds PROVE Selected(<<>>, kinds) = <<>>
  <1>1. <<>> \in Seq({}) /\ Len(<<>>) = 0
    OBVIOUS
  <1> QED
    BY <1>1, SelectedIs DEF SelectsUpTo

LEMMA SelectedAppend ==
    ASSUME NEW M, NEW s \in Seq(M), NEW e \in M, NEW kinds
    PROVE  Selected(Append(s, e), kinds) = With(Selected(s, kinds), e, kinds)
  <1> DEFINE n == Len(s)
             u == Append(s, e)
  <1>1. n \in Nat /\ u \in Seq(M) /\ Len(u) = n + 1 /\ u[n + 1] = e /\ \A k \in 1 .. n : u[k] = s[k]
    OBVIOUS
  <1>2. PICK g : Selected(s, kinds) = g[n] /\ SelectsUpTo(g, s, kinds, n)
    BY SelectedIs
  <1>3. PICK h : Selected(u, kinds) = h[n + 1] /\ SelectsUpTo(h, u, kinds, n + 1)
    BY <1>1, SelectedIs
  <1> DEFINE Bad == {k \in 0 .. n : g[k] # h[k]}
  <1>4. Bad = {}
    <2> SUFFICES ASSUME Bad # {}
                 PROVE  FALSE
      OBVIOUS
    <2>1. Bad \in SUBSET Nat
      BY <1>1
    <2>2. PICK k \in Bad : \A j \in Bad : k <= j
      <3> HIDE DEF Bad
      <3> QED
        BY <2>1, LeastNat
    <2>3. k \in 1 .. n /\ k \in 1 .. n + 1
      BY <1>1, <1>2, <1>3 DEF SelectsUpTo
    <2>4. g[k - 1] = h[k - 1]
      BY <1>1, <2>2, <2>3
    <2> QED
      BY <1>1, <1>2, <1>3, <2>3, <2>4 DEF SelectsUpTo
  <1>5. g[n] = h[n]
    BY <1>1, <1>4
  <1>6. h[n + 1] = With(h[(n + 1) - 1], u[n + 1], kinds) /\ (n + 1) - 1 = n
    BY <1>1, <1>3 DEF SelectsUpTo
  <1> QED
    BY <1>1, <1>2, <1>3, <1>5, <1>6

LEMMA SelectedType ==
    ASSUME NEW M, NEW kinds
    PROVE  \A s \in Seq(M) : Selected(s, kinds) \in Seq(M)
  <1> DEFINE Good == {s \in Seq(M) : Selected(s, kinds) \in Seq(M)}
  <1>1. <<>> \in Good
    BY SelectedEmpty, EmptySeq
  <1>2. ASSUME NEW s \in Seq(M), NEW e \in M, s \in Good
        PROVE  Append(s, e) \in Good
    BY <1>2, SelectedAppend DEF With
  <1> HIDE DEF Good
  <1>3. \A s \in Seq(M) : s \in Good
    BY <1>1, <1>2, SequenceInduction
  <1> QED
    BY <1>3 DEF Good

LEMMA SelectedCat ==
    ASSUME NEW M, NEW s \in Seq(M), NEW kinds
    PROVE  \A t \in Seq(M) : Selected(s \o t, kinds) = Selected(s, kinds) \o Selected(t, kinds)
  <1> DEFINE Good == {t \in Seq(M) : Selected(s \o t, kinds) = Selected(s, kinds) \o Selected(t, kinds)}
  <1>1. Selected(s, kinds) \in Seq(M)
    BY SelectedType
  <1>2. <<>> \in Good
    <2>1. s \o <<>> = s /\ Selected(s, kinds) \o <<>> = Selected(s, kinds)
      BY <1>1, ConcatEmptySeq
    <2> QED
      BY <2>1, SelectedEmpty, EmptySeq
  <1>3. ASSUME NEW t \in Seq(M), NEW e \in M, t \in Good
        PROVE  Append(t, e) \in Good
    <2>1. s \o t \in Seq(M) /\ s \o Append(t, e) = Append(s \o t, e) /\ Append(t, e) \in Seq(M)
      OBVIOUS
    <2>2. Selected(s \o Append(t, e), kinds) = With(Selected(s, kinds) \o Selected(t, kinds), e, kinds)
      BY <1>3, <2>1, SelectedAppend
    <2>3. Selected(Append(t, e), kinds) = With(Selected(t, kinds), e, kinds)
      BY SelectedAppend
    <2>4. Selected(t, kinds) \in Seq(M)
      BY SelectedType
    <2>5. Selected(s, kinds) \o Append(Selected(t, kinds), e)
              = Append(Selected(s, kinds) \o Selected(t, kinds), e)
      BY <1>1, <2>4
    <2>6. Selected(s \o Append(t, e), kinds) = Selected(s, kinds) \o Selected(Append(t, e), kinds)
      BY <2>2, <2>3, <2>5, Zenon DEF With
    <2> QED
      BY <2>1, <2>6
  <1> HIDE DEF Good
  <1>4. \A t \in Seq(M) : t \in Good
    BY <1>2, <1>3, SequenceInduction
  <1> QED
    BY <1>4 DEF Good

LEMMA SelectedTwice ==
    ASSUME NEW M, NEW kinds, NEW more
    PROVE  \A s \in Seq(M) : Selected(Selected(s, kinds), more) = Selected(s, kinds \cap more)
  <1> DEFINE Good == {s \in Seq(M) : Selected(Selected(s, kinds), more) = Selected(s, kinds \cap more)}
  <1>1. <<>> \in Good
    BY SelectedEmpty
  <1>2. ASSUME NEW s \in Seq(M), NEW e \in M, s \in Good
        PROVE  Append(s, e) \in Good
    <2>1. Selected(s, kinds) \in Seq(M)
      BY SelectedType
    <2>2. /\ Selected(Append(s, e), kinds) = With(Selected(s, kinds), e, kinds)
          /\ Selected(Append(s, e), kinds \cap more) = With(Selected(s, kinds \cap more), e, kinds \cap more)
      BY SelectedAppend
    <2>3. Selected(Append(Selected(s, kinds), e), more) = With(Selected(Selected(s, kinds), more), e, more)
      BY <2>1, SelectedAppend
    <2>4. CASE e.kind \in kinds
      <3>1. Selected(Append(s, e), kinds) = Append(Selected(s, kinds), e)
        BY <2>2, <2>4, Zenon DEF With
      <3>2. Selected(Selected(Append(s, e), kinds), more) = With(Selected(s, kinds \cap more), e, more)
        BY <1>2, <2>3, <3>1
      <3> QED
        <4>1. e.kind \in kinds \cap more <=> e.kind \in more
          BY <2>4
        <4>2. With(Selected(s, kinds \cap more), e, kinds \cap more)
                  = With(Selected(s, kinds \cap more), e, more)
          BY <4>1, Zenon DEF With
        <4> QED
          BY <2>2, <3>2, <4>2
    <2>5. CASE e.kind \notin kinds
      <3>1. Selected(Append(s, e), kinds) = Selected(s, kinds)
        BY <2>2, <2>5, Zenon DEF With
      <3> QED
        BY <1>2, <2>2, <2>5, <3>1 DEF With
    <2> QED
      BY <2>4, <2>5
  <1> HIDE DEF Good
  <1>3. \A s \in Seq(M) : s \in Good
    BY <1>1, <1>2, SequenceInduction
  <1> QED
    BY <1>3 DEF Good

LEMMA SelectedAll ==
    ASSUME NEW M, NEW kinds, \A e \in M : e.kind \in kinds
    PROVE  \A s \in Seq(M) : Selected(s, kinds) = s
  <1> DEFINE Good == {s \in Seq(M) : Selected(s, kinds) = s}
  <1>1. <<>> \in Good
    BY SelectedEmpty
  <1>2. ASSUME NEW s \in Seq(M), NEW e \in M, s \in Good
        PROVE  Append(s, e) \in Good
    BY <1>2, SelectedAppend DEF With
  <1> HIDE DEF Good
  <1>3. \A s \in Seq(M) : s \in Good
    BY <1>1, <1>2, SequenceInduction
  <1> QED
    BY <1>3 DEF Good

LEMMA SelectedNone ==
    ASSUME NEW M
    PROVE  \A s \in Seq(M) : Selected(s, {}) = <<>>
  <1> DEFINE Good == {s \in Seq(M) : Selected(s, {}) = <<>>}
  <1>1. <<>> \in Good
    BY SelectedEmpty
  <1>2. ASSUME NEW s \in Seq(M), NEW e \in M, s \in Good
        PROVE  Append(s, e) \in Good
    BY <1>2, SelectedAppend DEF With
  <1> HIDE DEF Good
  <1>3. \A s \in Seq(M) : s \in Good
    BY <1>1, <1>2, SequenceInduction
  <1> QED
    BY <1>3 DEF Good

LEMMA SameEnd ==
    ASSUME NEW m \in Nat, NEW n \in Nat, 1 .. m = 1 .. n
    PROVE  m = n
  <1>1. m = 0 \/ m \in 1 .. n
    OBVIOUS
  <1>2. n = 0 \/ n \in 1 .. m
    OBVIOUS
  <1> QED
    BY <1>1, <1>2

LEMMA KindsAppend ==
    ASSUME NEW M, NEW s \in Seq(M), NEW t \in Seq(M), NEW d \in M, NEW e \in M,
           Kinds(s) = Kinds(t), d.kind = e.kind
    PROVE  Kinds(Append(s, d)) = Kinds(Append(t, e))
  <1> DEFINE n == Len(s)
  <1>1. n \in Nat /\ DOMAIN s = 1 .. n /\ DOMAIN t = 1 .. Len(t) /\ Len(t) \in Nat
    OBVIOUS
  <1>2. DOMAIN t = 1 .. n
    BY <1>1, Zenon DEF Kinds
  <1>3. Len(t) = n
    BY <1>1, <1>2, SameEnd
  <1>4. ASSUME NEW i \in 1 .. n + 1
        PROVE  Append(s, d)[i].kind = Append(t, e)[i].kind
    <2>1. CASE i \in 1 .. n
      <3>1. Kinds(s)[i] = s[i].kind /\ Kinds(t)[i] = t[i].kind
        BY <1>1, <1>2, <2>1 DEF Kinds
      <3> QED
        BY <1>1, <1>3, <2>1, <3>1
    <2>2. CASE i = n + 1
      <3>1. Append(s, d)[n + 1] = d /\ Append(t, e)[n + 1] = e
        BY <1>3
      <3> QED
        BY <2>2, <3>1
    <2>3. i \in 1 .. n \/ i = n + 1
      BY <1>1
    <2> QED
      BY <2>1, <2>2, <2>3, Zenon
  <1>5. DOMAIN Append(s, d) = 1 .. n + 1 /\ DOMAIN Append(t, e) = 1 .. n + 1
    BY <1>1, <1>3
  <1> QED
    BY <1>4, <1>5 DEF Kinds

LEMMA SelectedOne ==
    ASSUME NEW e, NEW kinds
    PROVE  Selected(<<e>>, kinds) = IF e.kind \in kinds THEN <<e>> ELSE <<>>
  <1>1. <<>> \in Seq({e}) /\ Append(<<>>, e) = <<e>>
    OBVIOUS
  <1>2. Selected(Append(<<>>, e), kinds) = With(Selected(<<>>, kinds), e, kinds)
    BY <1>1, SelectedAppend
  <1> QED
    BY <1>1, <1>2, SelectedEmpty DEF With

LEMMA SameKinds ==
    ASSUME NEW M, NEW s \in Seq(M), NEW t \in Seq(M), Kinds(s) = Kinds(t)
    PROVE  Len(s) = Len(t) /\ \A i \in 1 .. Len(s) : s[i].kind = t[i].kind
  <1>1. DOMAIN s = 1 .. Len(s) /\ DOMAIN t = 1 .. Len(t) /\ Len(s) \in Nat /\ Len(t) \in Nat
    OBVIOUS
  <1>2. DOMAIN t = DOMAIN s
    BY Zenon DEF Kinds
  <1>3. Len(s) = Len(t)
    BY <1>1, <1>2, SameEnd
  <1>4. \A i \in 1 .. Len(s) : Kinds(s)[i] = s[i].kind /\ Kinds(t)[i] = t[i].kind
    BY <1>1, <1>2, Zenon DEF Kinds
  <1> QED
    BY <1>3, <1>4

(* Which are selected depends on the kinds alone.                          *)
LEMMA SelectedKinds ==
    ASSUME NEW M, NEW kinds
    PROVE  \A s \in Seq(M) : \A t \in Seq(M) :
               Kinds(s) = Kinds(t) => Kinds(Selected(s, kinds)) = Kinds(Selected(t, kinds))
  <1> DEFINE Good == {s \in Seq(M) : \A t \in Seq(M) :
                 Kinds(s) = Kinds(t) => Kinds(Selected(s, kinds)) = Kinds(Selected(t, kinds))}
  <1>1. <<>> \in Good
    <2> SUFFICES ASSUME NEW t \in Seq(M), Kinds(<<>>) = Kinds(t)
                 PROVE  Kinds(Selected(<<>>, kinds)) = Kinds(Selected(t, kinds))
      OBVIOUS
    <2>1. DOMAIN t = DOMAIN <<>>
      BY DEF Kinds
    <2>2. t = <<>>
      BY <2>1, EmptySeq
    <2> QED
      BY <2>2
  <1>2. ASSUME NEW s \in Seq(M), NEW e \in M, s \in Good
        PROVE  Append(s, e) \in Good
    <2> SUFFICES ASSUME NEW t \in Seq(M), Kinds(Append(s, e)) = Kinds(t)
                 PROVE  Kinds(Selected(Append(s, e), kinds)) = Kinds(Selected(t, kinds))
      OBVIOUS
    <2> DEFINE n == Len(s)
               u == SubSeq(t, 1, n)
    <2>1. /\ n \in Nat /\ DOMAIN Append(s, e) = 1 .. n + 1 /\ DOMAIN s = 1 .. n
          /\ DOMAIN t = 1 .. Len(t) /\ Len(t) \in Nat
      OBVIOUS
    <2>2. DOMAIN t = 1 .. n + 1
      BY <2>1, Zenon DEF Kinds
    <2>3. Len(t) = n + 1
      BY <2>1, <2>2, SameEnd, n + 1 \in Nat
    <2>4. /\ u \in Seq(M) /\ Len(u) = n /\ t[n + 1] \in M /\ t = Append(u, t[n + 1])
          /\ \A i \in 1 .. n : u[i] = t[i]
      BY <2>1, <2>3
    <2>5. \A i \in 1 .. n + 1 : Append(s, e)[i].kind = t[i].kind
      <3>1. ASSUME NEW i \in 1 .. n + 1
            PROVE  Append(s, e)[i].kind = t[i].kind
        <4>1. Kinds(Append(s, e))[i] = Append(s, e)[i].kind
          BY <2>1 DEF Kinds
        <4>2. Kinds(t)[i] = t[i].kind
          BY <2>2 DEF Kinds
        <4> QED
          BY <4>1, <4>2
      <3> QED
        BY <3>1
    <2>6. e.kind = t[n + 1].kind
      BY <2>1, <2>5
    <2>7. Kinds(s) = Kinds(u)
      <3>1. \A i \in 1 .. n : s[i].kind = u[i].kind
        <4>1. ASSUME NEW i \in 1 .. n
              PROVE  s[i].kind = u[i].kind
          <5>1. Append(s, e)[i] = s[i] /\ u[i] = t[i] /\ i \in 1 .. n + 1
            BY <2>1, <2>4
          <5> QED
            BY <2>5, <5>1
        <4> QED
          BY <4>1
      <3>2. DOMAIN u = 1 .. n
        BY <2>4
      <3> QED
        BY <2>1, <3>1, <3>2 DEF Kinds
    <2>8. Kinds(Selected(s, kinds)) = Kinds(Selected(u, kinds))
      BY <1>2, <2>4, <2>7
    <2>9. /\ Selected(Append(s, e), kinds) = With(Selected(s, kinds), e, kinds)
          /\ Selected(t, kinds) = With(Selected(u, kinds), t[n + 1], kinds)
      <3> HIDE DEF u
      <3> QED
        BY <2>4, SelectedAppend, Zenon
    <2>10. Selected(s, kinds) \in Seq(M) /\ Selected(u, kinds) \in Seq(M)
      BY <2>4, SelectedType
    <2>11. CASE e.kind \in kinds
      <3>1. /\ Selected(Append(s, e), kinds) = Append(Selected(s, kinds), e)
            /\ Selected(t, kinds) = Append(Selected(u, kinds), t[n + 1])
        BY <2>6, <2>9, <2>11 DEF With
      <3> QED
        BY <2>4, <2>6, <2>8, <2>10, <3>1, KindsAppend
    <2>12. CASE e.kind \notin kinds
      BY <2>6, <2>8, <2>9, <2>12 DEF With
    <2> QED
      BY <2>11, <2>12
  <1> HIDE DEF Good
  <1>3. \A s \in Seq(M) : s \in Good
    BY <1>1, <1>2, SequenceInduction
  <1> QED
    BY <1>3 DEF Good

-----------------------------------------------------------------------------
(* Markers are copied once.                                                *)

IsList(markers) == \E M : markers \in Seq(M)

(* A list of what tells its kind.                                          *)
Told(markers) == IsList(markers) /\ \A i \in DOMAIN markers : "kind" \in DOMAIN markers[i]

LEMMA Kind == \A m \in Markers : m.kind \in MarkerKinds /\ "kind" \in DOMAIN m
  BY DEF Markers, MarkerKinds

(* What is saved is what was to be copied, but for the size in an Exif     *)
(* marker; what is not written anew is copied.                             *)
ExifFirst == Len(saved) > 0 /\ saved[1].kind = "Exif"
Plain == Image.color \in {"gray", "YCbCr"}
Marked == Image.color \in {"RGB", "CMYK", "YCCK"}

JobIs ==
    /\ Image.markers \in Seq(Markers)
    /\ job.copy \in {"all", "comments", "none"}

SavedIs ==
    pc \notin {"header", "failed"} =>
        Told(saved) /\ Kinds(saved) = Kinds(Selected(Image.markers, SavedKinds))

OwnMarkers ==
    /\ cinfo.jfif <=> Plain /\ ~ExifFirst
    /\ cinfo.adobe <=> Marked

MarkersTold == pc \in {"write", "move", "finish"} => OwnMarkers

Jfif == IF cinfo.jfif THEN <<[kind |-> "JFIF"]>> ELSE <<>>
Adobe == IF cinfo.adobe THEN <<[kind |-> "Adobe"]>> ELSE <<>>
CopiedMarkers == Selected(saved, MarkerKinds \ Rejected)
WrittenMarkers == Jfif \o Adobe \o CopiedMarkers

HeaderIs == pc \in {"move", "finish"} /\ Asked.output => MarkersAreRight(header)

MarkersInv == JobIs /\ SavedIs /\ MarkersTold /\ HeaderIs /\ MarkersOnce

LEMMA AdjustedIs ==
    ASSUME NEW m, "kind" \in DOMAIN m, NEW width, NEW height
    PROVE  "kind" \in DOMAIN AdjustedExif(m, width, height) /\ AdjustedExif(m, width, height).kind = m.kind
  <1>1. \A v : "kind" \in DOMAIN [m EXCEPT !.sub = v] /\ [m EXCEPT !.sub = v].kind = m.kind
    OBVIOUS
  <1> QED
    BY <1>1 DEF AdjustedExif

LEMMA BothLists ==
    ASSUME NEW s, NEW t, IsList(s), IsList(t)
    PROVE  \E M : s \in Seq(M) /\ t \in Seq(M)
  <1>1. PICK M, N : s \in Seq(M) /\ t \in Seq(N)
    BY DEF IsList
  <1>2. s \in Seq(M \cup N) /\ t \in Seq(M \cup N)
    BY <1>1
  <1> QED
    BY <1>2

(* The markers of kind among those written: the compressor's own and those *)
(* that are copied.                                                        *)
LEMMA HeaderIsRight ==
    ASSUME JobIs, Told(saved), Kinds(saved) = Kinds(Selected(Image.markers, SavedKinds)), OwnMarkers
    PROVE  MarkersAreRight(WrittenMarkers)
  <1> DEFINE copied == Selected(Image.markers, SavedKinds)
             others == MarkerKinds \ {"JFIF", "Adobe"}
  <1>1. copied \in Seq(Markers)
    BY SelectedType DEF JobIs
  <1>2. PICK M : saved \in Seq(M) /\ copied \in Seq(M) /\ Markers \subseteq M
    <2>1. PICK N : saved \in Seq(N)
      BY DEF Told, IsList
    <2>2. saved \in Seq(N \cup Markers) /\ copied \in Seq(N \cup Markers)
      BY <1>1, <2>1
    <2> QED
      BY <2>2
  <1>3. /\ [kind |-> "JFIF"] \in M /\ [kind |-> "Adobe"] \in M
        /\ Jfif \in Seq(M) /\ Adobe \in Seq(M) /\ CopiedMarkers \in Seq(M)
    <2>1. [kind |-> "JFIF"] \in Markers /\ [kind |-> "Adobe"] \in Markers
      BY DEF Markers, MarkerKinds
    <2> QED
      BY <1>2, <2>1, SelectedType, EmptySeq DEF Jfif, Adobe, CopiedMarkers
  <1>4. ASSUME NEW kinds
        PROVE  Selected(WrittenMarkers, kinds)
                   = Selected(Jfif, kinds) \o Selected(Adobe, kinds) \o Selected(CopiedMarkers, kinds)
    <2>1. PICK front : front = Jfif \o Adobe
      OBVIOUS
    <2>2. front \in Seq(M) /\ WrittenMarkers = front \o CopiedMarkers
      BY <1>3, <2>1 DEF WrittenMarkers
    <2>3. Selected(front \o CopiedMarkers, kinds) = Selected(front, kinds) \o Selected(CopiedMarkers, kinds)
      <3>1. \A t \in Seq(M) : Selected(front \o t, kinds) = Selected(front, kinds) \o Selected(t, kinds)
        BY <2>2, SelectedCat
      <3> QED
        BY <1>3, <3>1, Zenon
    <2>4. Selected(Jfif \o Adobe, kinds) = Selected(Jfif, kinds) \o Selected(Adobe, kinds)
      <3>1. \A t \in Seq(M) : Selected(Jfif \o t, kinds) = Selected(Jfif, kinds) \o Selected(t, kinds)
        BY <1>3, SelectedCat, SMTT(30)
      <3> QED
        BY <1>3, <3>1, Zenon
    <2> QED
      BY <2>1, <2>2, <2>3, <2>4
  <1>5. ASSUME NEW kinds
        PROVE  /\ Selected(Jfif, kinds) = IF cinfo.jfif /\ "JFIF" \in kinds THEN Jfif ELSE <<>>
               /\ Selected(Adobe, kinds) = IF cinfo.adobe /\ "Adobe" \in kinds THEN Adobe ELSE <<>>
    BY SelectedOne, SelectedEmpty DEF Jfif, Adobe
  <1>6. \A kinds : Selected(CopiedMarkers, kinds) = Selected(saved, (MarkerKinds \ Rejected) \cap kinds)
    BY <1>2, SelectedTwice DEF CopiedMarkers
  <1>7. \A kinds : Kinds(Selected(saved, kinds)) = Kinds(Selected(copied, kinds))
    BY <1>2, SelectedKinds
  <1> HIDE DEF copied
  <1>8. ASSUME NEW kinds
        PROVE  Len(Selected(saved, kinds)) = Len(Selected(copied, kinds))
    BY <1>2, <1>7, SelectedType, SameKinds
  <1>9. ASSUME NEW kind \in {"JFIF", "Adobe"}
        PROVE  \/ Len(Selected(WrittenMarkers, {kind})) <= 1
               \/ Len(Selected(WrittenMarkers, {kind})) <= Len(Selected(copied, {kind}))
    <2>0. PICK K : K = {kind}
      OBVIOUS
    <2> DEFINE ones == Selected(Jfif, K) \o Selected(Adobe, K)
    <2>1. Selected(WrittenMarkers, K) = ones \o Selected(CopiedMarkers, K)
      BY <1>4
    <2>2. CASE kind \in Rejected
      <3>1. (MarkerKinds \ Rejected) \cap K = {}
        BY <2>0, <2>2
      <3>2. Selected(CopiedMarkers, K) = <<>>
        BY <1>2, <1>6, <3>1, SelectedNone
      <3>3. ones \in Seq(M) /\ Len(ones) <= 1
        <4>1. PICK a, b : a = Selected(Jfif, K) /\ b = Selected(Adobe, K)
          OBVIOUS
        <4>2. (a = <<>> \/ a = Jfif) /\ (b = <<>> \/ b = Adobe) /\ (a = <<>> \/ b = <<>>)
          BY <1>5, <4>1 DEF OwnMarkers, Plain, Marked
        <4>3. <<>> \in Seq(M) /\ Len(<<>>) = 0 /\ Len(Jfif) <= 1 /\ Len(Adobe) <= 1
          BY EmptySeq DEF Jfif, Adobe
        <4>4. /\ Jfif \o <<>> = Jfif /\ <<>> \o Adobe = Adobe
              /\ <<>> \o <<>> = <<>>
          BY <1>3, <4>3, ConcatEmptySeq
        <4>5. a \o b = <<>> \/ a \o b = Jfif \/ a \o b = Adobe
          BY <4>2, <4>4
        <4>6. ones = <<>> \/ ones = Jfif \/ ones = Adobe
          BY <4>1, <4>5, Zenon
        <4>7. <<>> \in Seq(M) /\ Len(<<>>) <= 1
          BY <4>3
        <4> HIDE DEF ones
        <4> QED
          BY <1>3, <4>3, <4>6, <4>7, Zenon
      <3>4. Selected(WrittenMarkers, K) = ones
        <4> HIDE DEF ones
        <4> QED
          BY <2>1, <3>2, <3>3, ConcatEmptySeq
      <3> QED
        BY <2>0, <3>3, <3>4
    <2>3. CASE kind \notin Rejected
      <3>1. (MarkerKinds \ Rejected) \cap K = K
        BY <2>0, <2>3 DEF MarkerKinds
      <3>2. Selected(CopiedMarkers, K) = Selected(saved, K)
        BY <1>6, <3>1
      <3>3. Selected(Jfif, K) = <<>> /\ Selected(Adobe, K) = <<>>
        BY <1>5, <2>0, <2>3 DEF Rejected
      <3>4. Selected(saved, K) \in Seq(M)
        BY <1>2, SelectedType
      <3>5. Selected(WrittenMarkers, K) = Selected(saved, K)
        BY <2>1, <3>2, <3>3, <3>4, ConcatEmptySeq, EmptySeq
      <3>6. Len(Selected(saved, K)) \in Nat
        BY <3>4
      <3>7. Len(Selected(saved, K)) = Len(Selected(copied, K))
        BY <1>8
      <3>8. Len(Selected(WrittenMarkers, K)) <= Len(Selected(copied, K))
        BY <3>5, <3>6, <3>7
      <3> QED
        BY <2>0, <3>8, Zenon
    <2> HIDE DEF ones
    <2> QED
      BY <2>0, <2>2, <2>3
  <1>10. Kinds(Selected(WrittenMarkers, others)) = Kinds(Selected(copied, others))
    <2>1. Selected(Jfif, others) = <<>> /\ Selected(Adobe, others) = <<>>
      BY <1>5
    <2>2. (MarkerKinds \ Rejected) \cap others = others
      BY DEF Rejected
    <2>3. Selected(CopiedMarkers, others) = Selected(saved, others) /\ Selected(saved, others) \in Seq(M)
      BY <1>2, <1>6, <2>2, SelectedType
    <2> HIDE DEF others
    <2>4. Selected(WrittenMarkers, others) = Selected(saved, others)
      BY <1>4, <2>1, <2>3, ConcatEmptySeq, EmptySeq
    <2> QED
      BY <1>7, <2>4
  <1>11. ASSUME job.copy = "all", Plain, Image.markers # <<>>, Image.markers[1].kind = "Exif"
         PROVE  WrittenMarkers # <<>> /\ WrittenMarkers[1].kind = "Exif"
    <2>1. copied = Image.markers /\ Selected(copied, MarkerKinds) = copied
      <3>1. SavedKinds = MarkerKinds
        BY <1>11 DEF SavedKinds
      <3> QED
        BY <3>1, Kind, SelectedAll DEF JobIs, copied
    <2>2. Len(copied) \in Nat \ {0} /\ copied[1].kind = "Exif"
      BY <1>1, <1>11, <2>1, EmptySeq
    <2>3. ExifFirst
      <3>1. Kinds(saved) = Kinds(copied)
        BY DEF copied
      <3> QED
        BY <1>2, <2>2, <3>1, SameKinds DEF ExifFirst
    <2>4. Jfif = <<>> /\ Adobe = <<>> /\ Rejected = {}
      BY <1>11, <2>3 DEF Jfif, Adobe, Rejected, OwnMarkers, Plain, Marked
    <2>5. CopiedMarkers = Selected(saved, MarkerKinds)
      BY <2>4 DEF CopiedMarkers
    <2>6. WrittenMarkers = CopiedMarkers
      <3>1. WrittenMarkers = Jfif \o Adobe \o CopiedMarkers
        BY DEF WrittenMarkers
      <3> QED
        BY <1>3, <2>4, <3>1, ConcatEmptySeq, EmptySeq
    <2>7. Kinds(CopiedMarkers) = Kinds(copied)
      BY <1>7, <2>1, <2>5
    <2> QED
      <3>1. /\ Len(CopiedMarkers) = Len(copied)
            /\ \A i \in 1 .. Len(CopiedMarkers) : CopiedMarkers[i].kind = copied[i].kind
        BY <1>2, <1>3, <2>7, SameKinds
      <3>2. Len(CopiedMarkers) \in Nat \ {0} /\ CopiedMarkers[1].kind = "Exif"
        BY <2>2, <3>1
      <3> QED
        BY <2>6, <3>2, EmptySeq
  <1> QED
    BY <1>9, <1>10, <1>11 DEF MarkersAreRight, copied, Plain

LEMMA SavedKept ==
    ASSUME SavedIs, UNCHANGED <<job, saved>>, pc \notin {"header", "failed"}
    PROVE  SavedIs'
  BY DEF SavedIs, Told, IsList, Kinds, Image, SavedKinds

LEMMA InitMarkers == TransformInit => MarkersInv
  <1> SUFFICES ASSUME TransformInit
               PROVE  MarkersInv
    OBVIOUS
  <1>1. JobIs
    BY JobsAssumption DEF TransformInit, JobIs, Image, IsImage
  <1>2. SavedIs /\ MarkersTold /\ HeaderIs
    BY DEF TransformInit, SavedIs, MarkersTold, HeaderIs
  <1>3. MarkersOnce
    BY DEF TransformInit, MarkersOnce
  <1> QED
    BY <1>1, <1>2, <1>3 DEF MarkersInv

(* The files made stay as they are, but for the one that is finished.      *)
LEMMA OutsKept ==
    ASSUME MarkersOnce, UNCHANGED <<job, outs>>
    PROVE  MarkersOnce'
  <1>1. ASSUME NEW k \in DOMAIN outs, outs[k] # <<>>
        PROVE  MarkersAreRight(outs[k].markers)'
    BY <1>1 DEF MarkersOnce, MarkersAreRight, Image, SavedKinds
  <1> QED
    BY <1>1 DEF MarkersOnce

LEMMA HeaderKept ==
    ASSUME HeaderIs, UNCHANGED <<job, nth, header>>, pc \in {"move", "finish"}
    PROVE  HeaderIs'
  BY DEF HeaderIs, MarkersAreRight, Image, SavedKinds, Asked

LEMMA OwnKept ==
    ASSUME OwnMarkers, UNCHANGED <<job, saved, cinfo>>
    PROVE  OwnMarkers'
  BY DEF OwnMarkers, Plain, Marked, ExifFirst, Image

LEMMA StepMarkers == MarkersInv /\ [TransformNext]_transformVars => MarkersInv'
  <1> SUFFICES ASSUME MarkersInv, [TransformNext]_transformVars
               PROVE  MarkersInv'
    OBVIOUS
  <1> USE DEF MarkersInv
  <1>1. UNCHANGED job
    BY DEF TransformNext, transformVars, ReadHeader, RequestWorkspace, ReadCoefficients, AdjustParameters,
           WriteCoefficients, MoveRow, CustomFilter, Finish, Fail
  <1>2. JobIs'
    BY <1>1 DEF JobIs, Image
  <1>3. CASE UNCHANGED transformVars
    <2>1. UNCHANGED <<job, pc, nth, saved, cinfo, header, outs>>
      BY <1>3 DEF transformVars
    <2>2. SavedIs'
      BY <2>1, SavedKept DEF SavedIs
    <2>3. MarkersTold' /\ HeaderIs'
      BY <2>1, OwnKept, HeaderKept DEF MarkersTold, HeaderIs
    <2> QED
      BY <1>2, <2>1, <2>2, <2>3, OutsKept
  <1>4. CASE Fail
    <2>1. SavedIs' /\ MarkersTold' /\ HeaderIs'
      BY <1>4 DEF Fail, SavedIs, MarkersTold, HeaderIs
    <2> QED
      BY <1>2, <1>4, <2>1, OutsKept DEF Fail
  <1>5. CASE ReadHeader /\ ~Fail
    <2>1. /\ pc' = "request" /\ saved' = Selected(Image.markers, SavedKinds)
          /\ UNCHANGED <<job, nth, info, coefs, cinfo, work, at, header, outs>>
      BY <1>5 DEF ReadHeader
    <2>2. saved' \in Seq(Markers)
      BY <2>1, SelectedType DEF JobIs
    <2>3. Told(saved')
      BY <2>2, Kind DEF Told, IsList
    <2>4. SavedIs'
      BY <2>1, <2>3 DEF SavedIs, Image, SavedKinds
    <2>5. MarkersTold' /\ HeaderIs'
      BY <2>1 DEF MarkersTold, HeaderIs
    <2> QED
      BY <1>2, <2>1, <2>4, <2>5, OutsKept
  <1>6. CASE (RequestWorkspace \/ ReadCoefficients) /\ ~Fail
    <2>1. /\ pc' \in {"request", "read", "adjust"} /\ pc \in {"request", "read"}
          /\ UNCHANGED <<job, saved, cinfo, header, outs>>
      BY <1>6 DEF RequestWorkspace, ReadCoefficients
    <2>2. SavedIs'
      BY <2>1, SavedKept
    <2>3. MarkersTold' /\ HeaderIs'
      BY <2>1 DEF MarkersTold, HeaderIs
    <2> QED
      BY <1>2, <2>1, <2>2, <2>3, OutsKept
  <1>7. CASE AdjustParameters /\ ~Fail
    <2> DEFINE i == info[nth]
               one == IF Num(Asked) = 1 THEN OneComponent(Copied) ELSE Copied
               sized == [one EXCEPT !.width = i.width, !.height = i.height]
               turned == IF Asked.op \in Transposes THEN TurnedParameters(sized) ELSE sized
               resized == i.width # Image.width \/ i.height # Image.height
    <2>1. /\ cinfo' = [turned EXCEPT !.jfif = @ /\ ~ExifFirst]
          /\ saved' = IF ExifFirst /\ resized
                      THEN [saved EXCEPT ![1] = AdjustedExif(@, i.width, i.height)] ELSE saved
          /\ pc = "adjust" /\ pc' = "write"
          /\ UNCHANGED <<job, nth, info, coefs, work, at, header, outs>>
      BY <1>7 DEF AdjustParameters, ExifFirst
    <2>2. /\ DOMAIN turned = {"width", "height", "comps", "tables", "jfif", "adobe"}
          /\ turned.jfif = Plain /\ turned.adobe = Marked
      <3> DEFINE fields == {"width", "height", "comps", "tables", "jfif", "adobe"}
      <3>1. DOMAIN Copied = fields /\ Copied.jfif = Plain /\ Copied.adobe = Marked
        BY DEF Copied, Plain, Marked
      <3>2. DOMAIN one = fields /\ one.jfif = Plain /\ one.adobe = Marked
        BY <3>1 DEF OneComponent
      <3>3. DOMAIN sized = fields /\ sized.jfif = Plain /\ sized.adobe = Marked
        <4> HIDE DEF one
        <4> QED
          BY <3>2
      <3> HIDE DEF sized
      <3> QED
        BY <3>3 DEF TurnedParameters
    <2> HIDE DEF turned
    <2>3. cinfo'.jfif = (Plain /\ ~ExifFirst) /\ cinfo'.adobe = Marked
      BY <2>1, <2>2
    <2>4. PICK M : saved \in Seq(M)
      BY <2>1 DEF SavedIs, Told, IsList
    <2>5. /\ Told(saved') /\ Len(saved') = Len(saved)
          /\ \A k \in 1 .. Len(saved) : saved'[k].kind = saved[k].kind
      <3>1. CASE saved' = saved
        BY <2>1, <3>1 DEF SavedIs
      <3>2. CASE saved' # saved
        <4> DEFINE new == AdjustedExif(saved[1], i.width, i.height)
        <4>1. ExifFirst /\ saved' = [saved EXCEPT ![1] = new]
          BY <2>1, <3>2
        <4>2. 1 \in DOMAIN saved /\ DOMAIN saved = 1 .. Len(saved)
          BY <2>4, <4>1 DEF ExifFirst
        <4>3. \A k \in DOMAIN saved : "kind" \in DOMAIN saved[k]
          BY <2>1 DEF SavedIs, Told
        <4>4. "kind" \in DOMAIN new /\ new.kind = saved[1].kind
          BY <4>2, <4>3, AdjustedIs
        <4> HIDE DEF new
        <4>5. saved' \in Seq(M \cup {new}) /\ Len(saved') = Len(saved)
          BY <2>4, <4>1, <4>2
        <4>6. \A k \in DOMAIN saved : saved'[k] = IF k = 1 THEN new ELSE saved[k]
          BY <4>1, <4>2
        <4>7. DOMAIN saved' = DOMAIN saved
          BY <4>1
        <4> QED
          BY <4>2, <4>3, <4>4, <4>5, <4>6, <4>7 DEF Told, IsList
      <3> QED
        BY <3>1, <3>2
    <2>6. DOMAIN saved' = 1 .. Len(saved') /\ DOMAIN saved = 1 .. Len(saved)
      <3>1. PICK N : saved' \in Seq(N)
        BY <2>5 DEF Told, IsList
      <3> QED
        BY <2>4, <3>1
    <2>7. Kinds(saved') = Kinds(saved) /\ ExifFirst' = ExifFirst
      <3>1. Len(saved) > 0 => 1 \in 1 .. Len(saved)
        BY <2>4
      <3>2. Kinds(saved') = Kinds(saved)
        BY <2>5, <2>6 DEF Kinds
      <3> QED
        BY <2>5, <3>1, <3>2 DEF ExifFirst
    <2>8. SavedIs'
      BY <2>1, <2>5, <2>7 DEF SavedIs, Image, SavedKinds
    <2>9. MarkersTold' /\ HeaderIs'
      BY <2>1, <2>3, <2>7 DEF MarkersTold, HeaderIs, OwnMarkers, Plain, Marked, Image
    <2> QED
      BY <1>2, <2>1, <2>8, <2>9, OutsKept
  <1>8. CASE WriteCoefficients
    <2>1. /\ pc = "write" /\ pc' = "move" /\ UNCHANGED <<job, nth, info, coefs, saved, cinfo, work, outs>>
          /\ Asked.output => header' = WrittenMarkers
      BY <1>8 DEF WriteCoefficients, WrittenMarkers, Jfif, Adobe, CopiedMarkers
    <2>2. MarkersAreRight(WrittenMarkers)
      BY <2>1, HeaderIsRight DEF SavedIs, MarkersTold
    <2>3. SavedIs' /\ MarkersTold'
      BY <2>1, SavedKept, OwnKept DEF MarkersTold
    <2>4. HeaderIs'
      BY <2>1, <2>2 DEF HeaderIs, MarkersAreRight, Image, SavedKinds, Asked
    <2> QED
      BY <1>2, <2>1, <2>3, <2>4, OutsKept
  <1>9. CASE (MoveRow \/ CustomFilter) /\ ~Fail
    <2>1. /\ pc = "move" /\ pc' \in {"move", "finish"}
          /\ UNCHANGED <<job, nth, saved, cinfo, header, outs>>
      BY <1>9 DEF MoveRow, CustomFilter
    <2>2. SavedIs' /\ MarkersTold' /\ HeaderIs'
      BY <2>1, SavedKept, OwnKept, HeaderKept DEF MarkersTold
    <2> QED
      BY <1>2, <2>1, <2>2, OutsKept
  <1>10. CASE Finish
    <2>1. /\ pc \in {"move", "finish"} /\ pc' \in {"done", "adjust"}
          /\ UNCHANGED <<job, info, coefs, saved, cinfo, work, at, header>>
      BY <1>10 DEF Finish
    <2>2. PICK file : /\ outs' = IF Asked.output THEN [outs EXCEPT ![nth] = file] ELSE outs
                      /\ file.markers = header
      <3> DEFINE file == Written(IF info[nth].work THEN work[nth] ELSE coefs)
      <3>1. file.markers = header
        BY DEF Written
      <3>2. outs' = IF Asked.output THEN [outs EXCEPT ![nth] = file] ELSE outs
        BY <1>10 DEF Finish
      <3> HIDE DEF file
      <3> QED
        BY <3>1, <3>2
    <2>3. SavedIs' /\ MarkersTold' /\ HeaderIs'
      BY <2>1, SavedKept DEF MarkersTold, HeaderIs
    <2>4. ASSUME NEW k \in DOMAIN outs', outs'[k] # <<>>
          PROVE  MarkersAreRight(outs'[k].markers)
      <3>1. CASE Asked.output /\ k = nth
        BY <2>1, <2>2, <2>4, <3>1 DEF HeaderIs
      <3>2. CASE ~(Asked.output /\ k = nth)
        BY <2>2, <2>4, <3>2 DEF MarkersOnce
      <3> QED
        BY <3>1, <3>2
    <2>5. MarkersOnce'
      BY <1>1, <2>4 DEF MarkersOnce, MarkersAreRight, Image, SavedKinds
    <2> QED
      BY <1>2, <2>3, <2>5
  <1> QED
    BY <1>3, <1>4, <1>5, <1>6, <1>7, <1>8, <1>9, <1>10 DEF TransformNext

(* A file made of an image has its markers once and in order               *)
(* (jcopy_markers_execute), whatever is asked of how many images.          *)
THEOREM MarkersAreOnce == TransformSpec => []MarkersOnce
  <1>1. MarkersInv => MarkersOnce
    BY DEF MarkersInv
  <1> QED
    BY <1>1, InitMarkers, StepMarkers, PTL DEF TransformSpec

-----------------------------------------------------------------------------
(* Quotients.  Each is used by what it says of products.                   *)

LEMMA ProductOrder ==
    ASSUME NEW a \in Int, NEW b \in Int, NEW m \in Nat \ {0}
    PROVE  /\ a <= b <=> a * m <= b * m
           /\ a < b <=> a * m < b * m
  <1>1. a * m \in Int /\ b * m \in Int
    OBVIOUS
  <1>2. a <= b => a * m <= b * m
    <2>1. a <= b => b - a \in Nat
      OBVIOUS
    <2>2. a <= b => (b - a) * m \in Nat
      BY <2>1
    <2>3. (b - a) * m = b * m - a * m
      OBVIOUS
    <2> QED
      BY <1>1, <2>2, <2>3
  <1>3. b < a => b * m < a * m
    <2>1. b < a => a - b \in Nat \ {0}
      OBVIOUS
    <2>2. b < a => (a - b) * m \in Nat \ {0}
      BY <2>1
    <2>3. (a - b) * m = a * m - b * m
      OBVIOUS
    <2> QED
      BY <1>1, <2>2, <2>3
  <1>4. a < b => a * m < b * m
    <2>1. a < b => b - a \in Nat \ {0}
      OBVIOUS
    <2>2. a < b => (b - a) * m \in Nat \ {0}
      BY <2>1
    <2>3. (b - a) * m = b * m - a * m
      OBVIOUS
    <2> QED
      BY <1>1, <2>2, <2>3
  <1>5. b <= a => b * m <= a * m
    BY <1>1, <1>3
  <1> QED
    BY <1>1, <1>2, <1>3, <1>4, <1>5

LEMMA QuotientIs ==
    ASSUME NEW n \in Int, NEW m \in Nat \ {0}
    PROVE  /\ n \div m \in Int /\ n % m \in 0 .. m - 1
           /\ n = (n \div m) * m + (n % m)
           /\ n \in Nat => n \div m \in Nat
           /\ \A k \in Int : k <= n \div m <=> k * m <= n
  <1> DEFINE q == n \div m
             r == n % m
  <1>1. q \in Int /\ r \in 0 .. m - 1 /\ n = m * q + r
    OBVIOUS
  <1>2. n \in Nat => q \in Nat
    OBVIOUS
  <1> HIDE DEF q, r
  <1>3. m * q = q * m /\ q * m \in Int /\ (q + 1) * m = q * m + m
    BY <1>1
  <1>4. ASSUME NEW k \in Int
        PROVE  k <= q <=> k * m <= n
    <2>1. k * m \in Int /\ (k <= q <=> k * m <= q * m)
      BY <1>1, ProductOrder
    <2>2. k < q + 1 <=> k * m < (q + 1) * m
      BY <1>1, ProductOrder
    <2> QED
      BY <1>1, <1>3, <2>1, <2>2
  <1>5. r \in 0 .. m - 1 /\ q \in Int /\ n = q * m + r
    BY <1>1, <1>3
  <1>6. \A k \in Int : k <= q <=> k * m <= n
    BY <1>4
  <1> QED
    BY <1>2, <1>5, <1>6, Zenon DEF q, r

LEMMA QuotientUnique ==
    ASSUME NEW q \in Int, NEW m \in Nat \ {0}, NEW r \in 0 .. m - 1
    PROVE  (q * m + r) \div m = q /\ (q * m + r) % m = r
  <1> DEFINE n == q * m + r
             p == n \div m
             s == n % m
  <1>1. n \in Int /\ q * m \in Int
    OBVIOUS
  <1>2. /\ p \in Int /\ s \in 0 .. m - 1 /\ n = p * m + s
        /\ \A k \in Int : k <= p <=> k * m <= n
    <2> HIDE DEF n
    <2> QED
      BY <1>1, QuotientIs
  <1>3. n = q * m + r /\ (q + 1) * m = q * m + m
    OBVIOUS
  <1> HIDE DEF n, p, s
  <1>4. q <= p /\ ~(q + 1 <= p)
    BY <1>1, <1>2, <1>3
  <1>5. p = q
    BY <1>2, <1>4
  <1> QED
    BY <1>1, <1>2, <1>3, <1>5 DEF n, p, s

LEMMA DivUpIs ==
    ASSUME NEW n \in Int, NEW m \in Nat \ {0}
    PROVE  /\ DivUp(n, m) \in Int
           /\ n \in Nat => DivUp(n, m) \in Nat
           /\ \A k \in Int : k < DivUp(n, m) <=> k * m < n
  <1> DEFINE q == (n + m - 1) \div m
  <1>1. n + m - 1 \in Int /\ (n \in Nat => n + m - 1 \in Nat)
    OBVIOUS
  <1>2. /\ q \in Int /\ (n \in Nat => q \in Nat)
        /\ \A k \in Int : k <= q <=> k * m <= n + m - 1
    BY <1>1, QuotientIs
  <1>3. DivUp(n, m) = q
    BY DEF DivUp
  <1> HIDE DEF q
  <1>4. ASSUME NEW k \in Int
        PROVE  k < q <=> k * m < n
    <2>1. (k + 1) * m = k * m + m /\ k * m \in Int
      OBVIOUS
    <2>2. k + 1 <= q <=> (k + 1) * m <= n + m - 1
      BY <1>2
    <2> QED
      BY <1>2, <2>1, <2>2
  <1> QED
    BY <1>2, <1>3, <1>4

(* A quotient of products is that of the factors.                          *)
LEMMA DivUpCancels ==
    ASSUME NEW n \in Nat, NEW m \in Nat \ {0}, NEW k \in Nat \ {0}
    PROVE  DivUp(n * k, m * k) = DivUp(n, m)
  <1>1. n * k \in Nat /\ m * k \in Nat \ {0}
    OBVIOUS
  <1> DEFINE p == DivUp(n * k, m * k)
             q == DivUp(n, m)
  <1>2. /\ p \in Nat /\ q \in Nat
        /\ \A i \in Int : i < p <=> i * (m * k) < n * k
        /\ \A i \in Int : i < q <=> i * m < n
    <2> DEFINE a == n * k
               b == m * k
    <2>1. a \in Nat /\ b \in Nat \ {0}
      BY <1>1
    <2> HIDE DEF a, b
    <2>2. DivUp(a, b) \in Nat /\ \A i \in Int : i < DivUp(a, b) <=> i * b < a
      BY <2>1, DivUpIs
    <2>3. q \in Nat /\ \A i \in Int : i < q <=> i * m < n
      BY DivUpIs
    <2> QED
      BY <2>2, <2>3 DEF a, b
  <1>3. ASSUME NEW i \in Int
        PROVE  i * (m * k) < n * k <=> i * m < n
    <2>1. i * (m * k) = (i * m) * k /\ i * m \in Int
      OBVIOUS
    <2> QED
      BY <2>1, ProductOrder
  <1> HIDE DEF p, q
  <1>4. ~(p < q) /\ ~(q < p)
    BY <1>2, <1>3
  <1> QED
    BY <1>2, <1>4 DEF p, q

(* What is inside a strip of blocks is inside each whole cut of it.        *)
LEMMA DivUpProduct ==
    ASSUME NEW n \in Nat, NEW m \in Nat \ {0}, NEW k \in Nat \ {0}
    PROVE  DivUp(n * k, m) <= DivUp(n, m) * k
  <1> DEFINE p == DivUp(n * k, m)
             q == DivUp(n, m)
  <1>1. n * k \in Nat
    OBVIOUS
  <1>2. /\ p \in Nat /\ q \in Nat
        /\ \A i \in Int : i < p <=> i * m < n * k
        /\ \A i \in Int : i < q <=> i * m < n
    BY <1>1, DivUpIs
  <1> HIDE DEF p, q
  <1>3. q * m \in Nat /\ n <= q * m
    BY <1>2
  <1>4. n * k <= (q * m) * k
    BY <1>3, ProductOrder
  <1>5. (q * m) * k = (q * k) * m /\ q * k \in Nat /\ (q * k) * m \in Nat
    BY <1>2
  <1>6. ~((q * k) < p)
    BY <1>1, <1>2, <1>4, <1>5
  <1> QED
    BY <1>2, <1>5, <1>6 DEF p, q

(* A sample some blocks further, and its mirror image among whole blocks.  *)
LEMMA SampleFurther ==
    ASSUME NEW p \in Nat, NEW g \in Nat, NEW w \in Nat
    PROVE  /\ (p + g * D) \div D = p \div D + g /\ (p + g * D) % D = p % D
           /\ p \div D \in Nat /\ p % D \in Index
           /\ p + g * D < w * D <=> p \div D + g < w
           /\ p + g * D < w * D => /\ (w * D - 1 - (p + g * D)) \div D = w - 1 - (p \div D + g)
                                  /\ (w * D - 1 - (p + g * D)) % D = D - 1 - (p % D)
  <1> DEFINE q == p \div D
             r == p % D
  <1>1. D \in Nat \ {0} /\ p \in Int
    BY Symmetry
  <1>2. q \in Nat /\ r \in 0 .. D - 1 /\ p = q * D + r
    BY <1>1, QuotientIs, Zenon
  <1>3. r \in Index
    BY <1>2 DEF Index
  <1> HIDE DEF q, r
  <1>4. q + g \in Nat /\ (q + g) * D \in Nat /\ p + g * D = (q + g) * D + r
    BY <1>1, <1>2
  <1>5. ((q + g) * D + r) \div D = q + g /\ ((q + g) * D + r) % D = r
    BY <1>1, <1>2, <1>4, QuotientUnique
  <1>6. w * D \in Nat /\ (q + g < w <=> (q + g) * D < w * D)
    BY <1>1, <1>4, ProductOrder
  <1>7. (q + g + 1 <= w <=> (q + g + 1) * D <= w * D) /\ (q + g + 1) * D = (q + g) * D + D
    BY <1>1, <1>4, ProductOrder
  <1>8. (q + g) * D + r < w * D <=> q + g < w
    BY <1>1, <1>2, <1>4, <1>6, <1>7
  <1> DEFINE i == w - 1 - (q + g)
             j == D - 1 - r
  <1>9. i \in Int /\ j \in 0 .. D - 1 /\ w * D - 1 - ((q + g) * D + r) = i * D + j
    <2>1. i * D = w * D - D - (q + g) * D
      BY <1>1, <1>4
    <2> QED
      BY <1>1, <1>2, <1>4, <1>6, <2>1
  <1> HIDE DEF i, j
  <1>10. (i * D + j) \div D = i /\ (i * D + j) % D = j
    BY <1>1, <1>9, QuotientUnique
  <1>11. /\ (p + g * D) \div D = q + g /\ (p + g * D) % D = r
         /\ p + g * D < w * D <=> q + g < w
         /\ (w * D - 1 - (p + g * D)) \div D = w - 1 - (q + g)
         /\ (w * D - 1 - (p + g * D)) % D = D - 1 - r
    BY <1>4, <1>5, <1>8, <1>9, <1>10 DEF i, j
  <1> QED
    BY <1>2, <1>3, <1>11 DEF q, r

-----------------------------------------------------------------------------
(* More of sums.                                                           *)

LEMMA FoldIsSum ==
    ASSUME NEW s
    PROVE  FoldSeq(+, 0, s) = SumFunctionOnSet(s, DOMAIN s)
  BY DEF FoldSeq, FoldFunction, SumFunctionOnSet

(* The sum in another order: p tells where each term comes from.           *)
LEMMA SumPermuted ==
    ASSUME NEW f, NEW g, NEW p, NEW S, IsFiniteSet(S),
           \A x \in S : p[x] \in S /\ f[x] \in Int /\ g[x] = f[p[x]],
           \A x, y \in S : p[x] = p[y] => x = y,
           \A y \in S : \E x \in S : p[x] = y
    PROVE  SumFunctionOnSet(g, S) = SumFunctionOnSet(f, S)
  <1> DEFINE sumf(T) == SumFunctionOnSet(f, T)
             sumg(T) == SumFunctionOnSet(g, T)
             image(T) == {p[x] : x \in T}
             Good == {T \in SUBSET S : sumg(T) = sumf(image(T))}
  <1>1. \A T \in SUBSET S : \A x \in T : sumf(T) = f[x] + sumf(T \ {x})
                                         /\ sumg(T) = g[x] + sumg(T \ {x})
    <2>1. \A T \in SUBSET S : \A x \in T : sumf(T) = f[x] + sumf(T \ {x})
      <3> TAKE T \in SUBSET S
      <3> TAKE x \in T
      <3>1. Summable(f, S)
        BY DEF Summable
      <3> QED
        BY <3>1, SumRemoves, SMTT(20)
    <2>2. \A T \in SUBSET S : \A x \in T : sumg(T) = g[x] + sumg(T \ {x})
      <3> TAKE T \in SUBSET S
      <3> TAKE x \in T
      <3>1. Summable(g, S)
        BY DEF Summable
      <3> QED
        BY <3>1, SumRemoves, SMTT(20)
    <2> QED
      BY <2>1, <2>2
  <1>2. sumf({}) = 0 /\ sumg({}) = 0
    BY FS_EmptySet, SumUnfolds
  <1> HIDE DEF sumf, sumg
  <1>3. ASSUME NEW T \in SUBSET S, \A x \in T : T \ {x} \in Good
        PROVE  sumg(T) = sumf(image(T))
    <2>1. CASE T = {}
      <3>1. image(T) = {}
        BY <2>1
      <3> QED
        BY <1>2, <2>1, <3>1
    <2>2. ASSUME NEW x \in T
          PROVE  sumg(T) = sumf(image(T))
      <3>1. sumg(T \ {x}) = sumf(image(T \ {x}))
        BY <1>3
      <3>2. image(T \ {x}) = image(T) \ {p[x]}
        OBVIOUS
      <3>3. image(T) \in SUBSET S /\ p[x] \in image(T)
        OBVIOUS
      <3>4. sumf(image(T)) = f[p[x]] + sumf(image(T) \ {p[x]})
        BY <1>1, <3>3
      <3>5. sumg(T) = g[x] + sumg(T \ {x}) /\ g[x] = f[p[x]]
        BY <1>1
      <3> QED
        BY <3>1, <3>2, <3>4, <3>5
    <2> QED
      BY <2>1, <2>2
  <1>4. \A T \in SUBSET S : T \in Good
    <2>1. Good \in SUBSET (SUBSET S)
      OBVIOUS
    <2>2. \A T \in SUBSET S : (\A x \in T : T \ {x} \in Good) => T \in Good
      BY <1>3
    <2> HIDE DEF Good
    <2> QED
      BY <2>1, <2>2, SetInduction
  <1>5. image(S) = S
    OBVIOUS
  <1>6. S \in SUBSET S /\ sumg(S) = sumf(image(S))
    BY <1>4
  <1> QED
    BY <1>5, <1>6 DEF sumf, sumg

LEMMA SumScales ==
    ASSUME NEW f, NEW g, NEW k \in Int, NEW S, IsFiniteSet(S),
           \A x \in S : f[x] \in Int /\ g[x] = k * f[x]
    PROVE  SumFunctionOnSet(g, S) = k * SumFunctionOnSet(f, S)
  <1> DEFINE sumf(T) == SumFunctionOnSet(f, T)
             sumg(T) == SumFunctionOnSet(g, T)
             Good == {T \in SUBSET S : sumg(T) = k * sumf(T)}
  <1>1. \A T \in SUBSET S : \A x \in T : sumf(T) = f[x] + sumf(T \ {x})
                                         /\ sumg(T) = g[x] + sumg(T \ {x})
    <2>1. \A T \in SUBSET S : \A x \in T : sumf(T) = f[x] + sumf(T \ {x})
      <3> TAKE T \in SUBSET S
      <3> TAKE x \in T
      <3>1. Summable(f, S)
        BY DEF Summable
      <3> QED
        BY <3>1, SumRemoves
    <2>2. \A T \in SUBSET S : \A x \in T : sumg(T) = g[x] + sumg(T \ {x})
      <3> TAKE T \in SUBSET S
      <3> TAKE x \in T
      <3>1. Summable(g, S)
        BY DEF Summable
      <3> QED
        BY <3>1, SumRemoves
    <2> QED
      BY <2>1, <2>2
  <1>2. sumf({}) = 0 /\ sumg({}) = 0
    BY FS_EmptySet, SumUnfolds
  <1>3. \A T \in SUBSET S : sumf(T) \in Int
    <2>1. 0 \in Int /\ \A i, j \in Int : i + j \in Int
      OBVIOUS
    <2> QED
      BY <2>1, SumType
  <1> HIDE DEF sumf, sumg
  <1>4. ASSUME NEW T \in SUBSET S, \A x \in T : T \ {x} \in Good
        PROVE  sumg(T) = k * sumf(T)
    <2>1. CASE T = {}
      BY <1>2, <2>1
    <2>2. ASSUME NEW x \in T
          PROVE  sumg(T) = k * sumf(T)
      <3>1. sumg(T \ {x}) = k * sumf(T \ {x})
        BY <1>4
      <3>2. sumf(T) = f[x] + sumf(T \ {x}) /\ sumg(T) = k * f[x] + sumg(T \ {x})
        BY <1>1
      <3>3. \A a, b \in Int : k * a + k * b = k * (a + b)
        OBVIOUS
      <3>4. f[x] \in Int /\ sumf(T \ {x}) \in Int
        BY <1>3
      <3> QED
        BY <3>1, <3>2, <3>3, <3>4
    <2> QED
      BY <2>1, <2>2
  <1>5. \A T \in SUBSET S : T \in Good
    <2>1. Good \in SUBSET (SUBSET S)
      OBVIOUS
    <2>2. \A T \in SUBSET S : (\A x \in T : T \ {x} \in Good) => T \in Good
      BY <1>4
    <2> HIDE DEF Good
    <2> QED
      BY <2>1, <2>2, SetInduction
  <1> QED
    BY <1>5 DEF sumf, sumg

-----------------------------------------------------------------------------
(* Samples of a block that was mirrored, turned or doubled.                *)

Terms(block, table, y, x) ==
    [k \in 1 .. D * D |->
        LET i == (k - 1) \div D
            j == (k - 1) % D
        IN block[i][j] * table[i][j] * Basis(i, y) * Basis(j, x)]

LEMMA PlaceInBlock ==
    /\ \A k \in 1 .. D * D : /\ (k - 1) \div D \in Index /\ (k - 1) % D \in Index
                            /\ k = ((k - 1) \div D) * D + ((k - 1) % D) + 1
    /\ \A i, j \in Index : /\ i * D + j + 1 \in 1 .. D * D
                          /\ (i * D + j) \div D = i /\ (i * D + j) % D = j
  <1>1. D \in Nat \ {0} /\ D * D \in Nat
    BY Symmetry
  <1>2. ASSUME NEW k \in 1 .. D * D
        PROVE  /\ (k - 1) \div D \in Index /\ (k - 1) % D \in Index
               /\ k = ((k - 1) \div D) * D + ((k - 1) % D) + 1
    <2> DEFINE n == k - 1
               q == n \div D
               r == n % D
    <2>1. n \in Nat /\ n \in Int /\ n < D * D /\ k = n + 1
      BY <1>1
    <2> HIDE DEF n
    <2>2. q \in Nat /\ r \in 0 .. D - 1 /\ n = q * D + r
      BY <1>1, <2>1, QuotientIs, Zenon
    <2>3. D <= q <=> D * D <= n
      BY <1>1, <2>1, QuotientIs
    <2> HIDE DEF q, r
    <2>4. q \in Index /\ r \in Index
      BY <1>1, <2>1, <2>2, <2>3 DEF Index
    <2>5. k = q * D + r + 1
      BY <2>1, <2>2
    <2> QED
      BY <2>4, <2>5 DEF n, q, r
  <1>3. ASSUME NEW i \in Index, NEW j \in Index
        PROVE  /\ i * D + j + 1 \in 1 .. D * D
               /\ (i * D + j) \div D = i /\ (i * D + j) % D = j
    <2>1. i \in Nat /\ j \in 0 .. D - 1 /\ i + 1 <= D
      BY <1>1 DEF Index
    <2>2. (i + 1) * D <= D * D /\ (i + 1) * D = i * D + D /\ i * D \in Nat
      BY <1>1, <2>1, ProductOrder
    <2>3. (i * D + j) \div D = i /\ (i * D + j) % D = j
      BY <1>1, <2>1, QuotientUnique
    <2> QED
      BY <1>1, <2>1, <2>2, <2>3
  <1> QED
    BY <1>2, <1>3

LEMMA SampleIs ==
    ASSUME NEW b \in Matrices, NEW t \in Matrices, NEW y \in Index, NEW x \in Index
    PROVE  /\ Sample(b, t, y, x) = SumFunctionOnSet(Terms(b, t, y, x), 1 .. D * D)
           /\ IsFiniteSet(1 .. D * D)
           /\ \A k \in 1 .. D * D : Terms(b, t, y, x)[k] \in Int
  <1>1. Sample(b, t, y, x) = SumFunctionOnSet(Terms(b, t, y, x), DOMAIN Terms(b, t, y, x))
    BY FoldIsSum DEF Sample, Terms
  <1>2. DOMAIN Terms(b, t, y, x) = 1 .. D * D
    BY DEF Terms
  <1>3. IsFiniteSet(1 .. D * D)
    <2>1. D * D \in Int
      BY Symmetry
    <2> QED
      BY <2>1, FS_Interval
  <1>4. ASSUME NEW k \in 1 .. D * D
        PROVE  Terms(b, t, y, x)[k] \in Int
    <2> DEFINE i == (k - 1) \div D
               j == (k - 1) % D
    <2>1. i \in Index /\ j \in Index
      BY PlaceInBlock
    <2>2. Terms(b, t, y, x)[k] = b[i][j] * t[i][j] * Basis(i, y) * Basis(j, x)
      BY DEF Terms
    <2> HIDE DEF i, j
    <2>3. b[i][j] \in Int /\ t[i][j] \in Int /\ Basis(i, y) \in Int /\ Basis(j, x) \in Int
      BY <2>1, Symmetry DEF Matrices
    <2> QED
      BY <2>2, <2>3
  <1> QED
    BY <1>1, <1>2, <1>3, <1>4

LEMMA BlocksAre ==
    ASSUME NEW b \in Matrices
    PROVE  /\ NegatedColumns(b) \in Matrices /\ NegatedRows(b) \in Matrices
           /\ Transposed(b) \in Matrices /\ \A k \in Int : Scaled(b, k) \in Matrices
           /\ Transposed(Transposed(b)) = b
  <1>1. NegatedColumns(b) \in Matrices /\ NegatedRows(b) \in Matrices
    BY DEF NegatedColumns, NegatedRows, Matrices
  <1>2. Transposed(b) \in Matrices /\ \A k \in Int : Scaled(b, k) \in Matrices
    BY DEF Transposed, Scaled, Matrices
  <1>3. Transposed(Transposed(b)) = b
    BY DEF Transposed, Matrices
  <1> QED
    BY <1>1, <1>2, <1>3

(* Two signs that change leave a product as it is.                         *)
LEMMA SignsCancel ==
    ASSUME NEW a \in Int, NEW b \in Int, NEW c \in Int, NEW d \in Int
    PROVE  /\ (-a) * b * c * d = a * b * c * (-d)
           /\ (-a) * b * c * d = a * b * (-c) * d
  OBVIOUS

LEMMA MirroredIndex ==
    ASSUME NEW p \in Index
    PROVE  D - 1 - p \in Index /\ D - 1 - (D - 1 - p) = p
  BY Symmetry DEF Index

LEMMA SampleOfColumns ==
    ASSUME NEW b \in Matrices, NEW t \in Matrices, NEW y \in Index, NEW x \in Index
    PROVE  Sample(NegatedColumns(b), t, y, x) = Sample(b, t, y, D - 1 - x)
  <1> DEFINE z == D - 1 - x
             n == NegatedColumns(b)
             T == Terms(b, t, y, z)
             U == Terms(n, t, y, x)
  <1>1. z \in Index /\ n \in Matrices
    BY MirroredIndex, BlocksAre
  <1>2. ASSUME NEW k \in 1 .. D * D
        PROVE  U[k] = T[k]
    <2> DEFINE i == (k - 1) \div D
               j == (k - 1) % D
    <2>1. i \in Index /\ j \in Index
      BY PlaceInBlock
    <2>2. /\ U[k] = n[i][j] * t[i][j] * Basis(i, y) * Basis(j, x)
          /\ T[k] = b[i][j] * t[i][j] * Basis(i, y) * Basis(j, z)
      BY DEF Terms
    <2> HIDE DEF i, j
    <2>3. b[i][j] \in Int /\ t[i][j] \in Int /\ Basis(i, y) \in Int /\ Basis(j, x) \in Int
      BY <2>1, Symmetry DEF Matrices
    <2>4. n[i][j] = IF j % 2 = 1 THEN -b[i][j] ELSE b[i][j]
      BY <2>1 DEF NegatedColumns
    <2>5. Basis(j, z) = IF j % 2 = 0 THEN Basis(j, x) ELSE -Basis(j, x)
      BY <2>1, Symmetry
    <2>6. j % 2 = 0 \/ j % 2 = 1
      BY <2>1 DEF Index
    <2> HIDE DEF T, U, n, z
    <2> QED
      BY <2>2, <2>3, <2>4, <2>5, <2>6, SignsCancel
  <1> HIDE DEF n, z
  <1>3. /\ Sample(b, t, y, z) = SumFunctionOnSet(T, 1 .. D * D)
        /\ Sample(n, t, y, x) = SumFunctionOnSet(U, 1 .. D * D)
        /\ IsFiniteSet(1 .. D * D) /\ \A k \in 1 .. D * D : T[k] \in Int
    BY <1>1, SampleIs
  <1> HIDE DEF T, U
  <1>4. SumFunctionOnSet(U, 1 .. D * D) = SumFunctionOnSet(T, 1 .. D * D)
    BY <1>2, <1>3, SumSame
  <1> QED
    BY <1>3, <1>4 DEF n, z

LEMMA SampleOfRows ==
    ASSUME NEW b \in Matrices, NEW t \in Matrices, NEW y \in Index, NEW x \in Index
    PROVE  Sample(NegatedRows(b), t, y, x) = Sample(b, t, D - 1 - y, x)
  <1> DEFINE z == D - 1 - y
             n == NegatedRows(b)
             T == Terms(b, t, z, x)
             U == Terms(n, t, y, x)
  <1>1. z \in Index /\ n \in Matrices
    BY MirroredIndex, BlocksAre
  <1>2. ASSUME NEW k \in 1 .. D * D
        PROVE  U[k] = T[k]
    <2> DEFINE i == (k - 1) \div D
               j == (k - 1) % D
    <2>1. i \in Index /\ j \in Index
      BY PlaceInBlock
    <2>2. /\ U[k] = n[i][j] * t[i][j] * Basis(i, y) * Basis(j, x)
          /\ T[k] = b[i][j] * t[i][j] * Basis(i, z) * Basis(j, x)
      BY DEF Terms
    <2> HIDE DEF i, j
    <2>3. b[i][j] \in Int /\ t[i][j] \in Int /\ Basis(i, y) \in Int /\ Basis(j, x) \in Int
      BY <2>1, Symmetry DEF Matrices
    <2>4. n[i][j] = IF i % 2 = 1 THEN -b[i][j] ELSE b[i][j]
      BY <2>1 DEF NegatedRows
    <2>5. Basis(i, z) = IF i % 2 = 0 THEN Basis(i, y) ELSE -Basis(i, y)
      BY <2>1, Symmetry
    <2>6. i % 2 = 0 \/ i % 2 = 1
      BY <2>1 DEF Index
    <2> HIDE DEF T, U, n, z
    <2> QED
      BY <2>2, <2>3, <2>4, <2>5, <2>6, SignsCancel
  <1> HIDE DEF n, z
  <1>3. /\ Sample(b, t, z, x) = SumFunctionOnSet(T, 1 .. D * D)
        /\ Sample(n, t, y, x) = SumFunctionOnSet(U, 1 .. D * D)
        /\ IsFiniteSet(1 .. D * D) /\ \A k \in 1 .. D * D : T[k] \in Int
    BY <1>1, SampleIs
  <1> HIDE DEF T, U
  <1>4. SumFunctionOnSet(U, 1 .. D * D) = SumFunctionOnSet(T, 1 .. D * D)
    BY <1>2, <1>3, SumSame
  <1> QED
    BY <1>3, <1>4 DEF n, z

LEMMA SampleOfTransposed ==
    ASSUME NEW b \in Matrices, NEW t \in Matrices, NEW y \in Index, NEW x \in Index
    PROVE  Sample(Transposed(b), Transposed(t), y, x) = Sample(b, t, x, y)
  <1> DEFINE S == 1 .. D * D
             T == Terms(b, t, x, y)
             U == Terms(Transposed(b), Transposed(t), y, x)
             row(k) == (k - 1) \div D
             col(k) == (k - 1) % D
             p == [k \in S |-> col(k) * D + row(k) + 1]
  <1>1. \A k \in S : /\ row(k) \in Index /\ col(k) \in Index /\ k = row(k) * D + col(k) + 1
    BY PlaceInBlock
  <1>2. \A k \in S : p[k] \in S /\ row(p[k]) = col(k) /\ col(p[k]) = row(k)
    <2> TAKE k \in S
    <2> DEFINE i == col(k)
               j == row(k)
               n == i * D + j + 1
    <2>1. i \in Index /\ j \in Index
      BY <1>1
    <2>2. p[k] = n
      OBVIOUS
    <2> HIDE DEF i, j
    <2>3. n \in S /\ (i * D + j) \div D = i /\ (i * D + j) % D = j
      BY <2>1, PlaceInBlock
    <2>4. n - 1 = i * D + j
      BY <2>1, Symmetry DEF Index
    <2>5. row(n) = i /\ col(n) = j
      BY <2>3, <2>4
    <2> HIDE DEF p, n, row, col
    <2> QED
      BY <2>2, <2>3, <2>5 DEF i, j
  <1>3. \A k \in S : p[p[k]] = k
    <2> TAKE k \in S
    <2>1. p[p[k]] = col(p[k]) * D + row(p[k]) + 1
      BY <1>2
    <2> HIDE DEF p, row, col
    <2> QED
      BY <1>1, <1>2, <2>1
  <1>4. ASSUME NEW k \in S
        PROVE  U[k] = T[p[k]]
    <2> DEFINE i == row(k)
               j == col(k)
    <2>1. i \in Index /\ j \in Index /\ p[k] \in S /\ row(p[k]) = j /\ col(p[k]) = i
      BY <1>1, <1>2
    <2>2. U[k] = Transposed(b)[i][j] * Transposed(t)[i][j] * Basis(i, y) * Basis(j, x)
      BY DEF Terms
    <2>3. T[p[k]] = b[row(p[k])][col(p[k])] * t[row(p[k])][col(p[k])] * Basis(row(p[k]), x) * Basis(col(p[k]), y)
      <3> HIDE DEF p
      <3> QED
        BY <2>1 DEF Terms
    <2> HIDE DEF i, j, p, row, col, T, U
    <2>4. T[p[k]] = b[j][i] * t[j][i] * Basis(j, x) * Basis(i, y)
      BY <2>1, <2>3
    <2>5. b[j][i] \in Int /\ t[j][i] \in Int /\ Basis(i, y) \in Int /\ Basis(j, x) \in Int
      BY <2>1, Symmetry DEF Matrices
    <2>6. Transposed(b)[i][j] = b[j][i] /\ Transposed(t)[i][j] = t[j][i]
      BY <2>1 DEF Transposed
    <2>7. \A m, n, u, v \in Int : m * n * u * v = m * n * v * u
      OBVIOUS
    <2> QED
      BY <2>2, <2>4, <2>5, <2>6, <2>7
  <1>5. Transposed(b) \in Matrices /\ Transposed(t) \in Matrices
    BY BlocksAre
  <1>6. /\ Sample(b, t, x, y) = SumFunctionOnSet(T, S)
        /\ Sample(Transposed(b), Transposed(t), y, x) = SumFunctionOnSet(U, S)
        /\ IsFiniteSet(S) /\ \A k \in S : T[k] \in Int
    BY <1>5, SampleIs
  <1>7. SumFunctionOnSet(U, S) = SumFunctionOnSet(T, S)
    <2> HIDE DEF S, T, U, p, row, col
    <2>1. \A k \in S : p[k] \in S /\ T[k] \in Int /\ U[k] = T[p[k]]
      BY <1>2, <1>4, <1>6
    <2>2. (\A k, m \in S : p[k] = p[m] => k = m) /\ \A m \in S : \E k \in S : p[k] = m
      BY <1>2, <1>3
    <2> QED
      BY <1>6, <2>1, <2>2, SumPermuted
  <1> QED
    BY <1>6, <1>7

LEMMA SampleOfScaled ==
    ASSUME NEW b \in Matrices, NEW t \in Matrices, NEW y \in Index, NEW x \in Index, NEW m \in Int
    PROVE  Sample(Scaled(b, m), t, y, x) = m * Sample(b, t, y, x)
  <1> DEFINE n == Scaled(b, m)
             T == Terms(b, t, y, x)
             U == Terms(n, t, y, x)
  <1>1. n \in Matrices
    BY BlocksAre
  <1>2. ASSUME NEW k \in 1 .. D * D
        PROVE  U[k] = m * T[k]
    <2> DEFINE i == (k - 1) \div D
               j == (k - 1) % D
    <2>1. i \in Index /\ j \in Index
      BY PlaceInBlock
    <2>2. /\ U[k] = n[i][j] * t[i][j] * Basis(i, y) * Basis(j, x)
          /\ T[k] = b[i][j] * t[i][j] * Basis(i, y) * Basis(j, x)
      BY DEF Terms
    <2> HIDE DEF i, j
    <2>3. b[i][j] \in Int /\ t[i][j] \in Int /\ Basis(i, y) \in Int /\ Basis(j, x) \in Int
      BY <2>1, Symmetry DEF Matrices
    <2>4. n[i][j] = m * b[i][j]
      BY <2>1 DEF Scaled
    <2>5. \A u, v, w, z \in Int : (m * u) * v * w * z = m * (u * v * w * z)
      OBVIOUS
    <2> HIDE DEF T, U, n
    <2> QED
      BY <2>2, <2>3, <2>4, <2>5
  <1> HIDE DEF n
  <1>3. /\ Sample(b, t, y, x) = SumFunctionOnSet(T, 1 .. D * D)
        /\ Sample(n, t, y, x) = SumFunctionOnSet(U, 1 .. D * D)
        /\ IsFiniteSet(1 .. D * D) /\ \A k \in 1 .. D * D : T[k] \in Int
    BY <1>1, SampleIs
  <1> HIDE DEF T, U
  <1>4. SumFunctionOnSet(U, 1 .. D * D) = m * SumFunctionOnSet(T, 1 .. D * D)
    <2> DEFINE S == 1 .. D * D
    <2>1. IsFiniteSet(S) /\ \A k \in S : T[k] \in Int /\ U[k] = m * T[k]
      BY <1>2, <1>3
    <2> HIDE DEF S
    <2> QED
      BY <2>1, SumScales DEF S
  <1> QED
    BY <1>3, <1>4 DEF n

-----------------------------------------------------------------------------
(* What a transform makes of a block.                                      *)

Mirror(p, whole, mirrors) == IF mirrors /\ p < whole THEN whole - 1 - p ELSE p

(* The block of s that comes to lie at row y, column x. *)
SourceRow(op, g, y) == Mirror(y + g.y, g.h, op \in VFlips)
SourceColumn(op, g, x) == Mirror(x + g.x, g.w, op \in HFlips)
SourceBlock(op, s, g, y, x) ==
    IF op \in Transposes THEN s[SourceColumn(op, g, x)][SourceRow(op, g, y)]
    ELSE s[SourceRow(op, g, y)][SourceColumn(op, g, x)]

Signed(block, rows, columns) ==
    LET b == IF columns THEN NegatedColumns(block) ELSE block IN IF rows THEN NegatedRows(b) ELSE b

LEMMA SignedIs ==
    ASSUME NEW b \in Matrices, NEW rows \in BOOLEAN, NEW columns \in BOOLEAN
    PROVE  /\ Signed(b, rows, columns) \in Matrices
           /\ \A t \in Matrices : \A y, x \in Index :
                  Sample(Signed(b, rows, columns), t, y, x)
                  = Sample(b, t, IF rows THEN D - 1 - y ELSE y, IF columns THEN D - 1 - x ELSE x)
  <1> DEFINE n == IF columns THEN NegatedColumns(b) ELSE b
  <1>1. n \in Matrices /\ Signed(b, rows, columns) = IF rows THEN NegatedRows(n) ELSE n
    BY BlocksAre DEF Signed
  <1>2. \A t \in Matrices : \A y, x \in Index :
            Sample(n, t, y, x) = Sample(b, t, y, IF columns THEN D - 1 - x ELSE x)
    BY SampleOfColumns
  <1> HIDE DEF n
  <1>3. Signed(b, rows, columns) \in Matrices
    BY <1>1, BlocksAre
  <1>4. ASSUME NEW t \in Matrices, NEW y \in Index, NEW x \in Index
        PROVE  Sample(Signed(b, rows, columns), t, y, x)
               = Sample(b, t, IF rows THEN D - 1 - y ELSE y, IF columns THEN D - 1 - x ELSE x)
    <2>1. CASE rows
      BY <1>1, <1>2, <2>1, SampleOfRows, MirroredIndex
    <2>2. CASE ~rows
      BY <1>1, <1>2, <2>2
    <2> QED
      BY <2>1, <2>2
  <1> QED
    BY <1>3, <1>4

LEMMA MovedIs ==
    ASSUME NEW op \in Ops, NEW s, NEW g, g.w \in Nat, g.h \in Nat, g.x \in Nat, g.y \in Nat,
           NEW y \in Nat, NEW x \in Nat
    PROVE  LET right == op \in HFlips /\ x + g.x < g.w
               down == op \in VFlips /\ y + g.y < g.h
               b == SourceBlock(op, s, g, y, x)
           IN Moved(op, s, g, y, x) = IF op \in Transposes THEN Transposed(Signed(b, right, down))
                                      ELSE Signed(b, down, right)
  <1> DEFINE col == x + g.x
             row == y + g.y
  <1>1. /\ g.w - g.x - x - 1 = g.w - 1 - col /\ g.h - g.y - y - 1 = g.h - 1 - row
        /\ y + g.y = row /\ x + g.x = col
    OBVIOUS
  <1> HIDE DEF col, row
  <1> USE <1>1 DEF Moved, SourceBlock, SourceRow, SourceColumn, Mirror, Signed, HFlips, VFlips, Transposes
  <1>2. CASE op = "NONE"
    BY <1>2 DEF DoCrop
  <1>3. CASE op = "FLIP_H"
    BY <1>3 DEF DoFlipH
  <1>4. CASE op = "FLIP_V"
    BY <1>4 DEF DoFlipV
  <1>5. CASE op = "TRANSPOSE"
    BY <1>5 DEF DoTranspose
  <1>6. CASE op = "TRANSVERSE"
    BY <1>6 DEF DoTransverse
  <1>7. CASE op = "ROT_90"
    BY <1>7 DEF DoRot90
  <1>8. CASE op = "ROT_180"
    BY <1>8 DEF DoRot180
  <1>9. CASE op = "ROT_270"
    BY <1>9 DEF DoRot270
  <1> QED
    BY <1>2, <1>3, <1>4, <1>5, <1>6, <1>7, <1>8, <1>9 DEF Ops

(* Seen through a table that was turned with it, it is the source's sample *)
(* at the place that a mirror or a turn leaves or puts there.              *)
LEMMA MovedType ==
    ASSUME NEW op \in Ops, NEW s, NEW g, g.w \in Nat, g.h \in Nat, g.x \in Nat, g.y \in Nat,
           NEW y \in Nat, NEW x \in Nat, SourceBlock(op, s, g, y, x) \in Matrices
    PROVE  Moved(op, s, g, y, x) \in Matrices
  <1> DEFINE right == op \in HFlips /\ x + g.x < g.w
             down == op \in VFlips /\ y + g.y < g.h
             b == SourceBlock(op, s, g, y, x)
             m == Moved(op, s, g, y, x)
  <1>1. m = IF op \in Transposes THEN Transposed(Signed(b, right, down)) ELSE Signed(b, down, right)
    BY MovedIs
  <1>2. right \in BOOLEAN /\ down \in BOOLEAN /\ b \in Matrices
    OBVIOUS
  <1> HIDE DEF right, down, b, m
  <1>3. Signed(b, right, down) \in Matrices /\ Signed(b, down, right) \in Matrices
    BY <1>2, SignedIs
  <1>4. m \in Matrices
    BY <1>1, <1>3, BlocksAre
  <1> QED
    BY <1>4 DEF m

LEMMA SampleTurned ==
    ASSUME NEW op \in Ops, NEW s, NEW g, g.w \in Nat, g.h \in Nat, g.x \in Nat, g.y \in Nat,
           NEW y \in Nat, NEW x \in Nat, SourceBlock(op, s, g, y, x) \in Matrices,
           NEW t \in Matrices, NEW py \in Index, NEW px \in Index, op \in Transposes
    PROVE  Sample(Moved(op, s, g, y, x), Transposed(t), py, px)
           = Sample(SourceBlock(op, s, g, y, x), t, IF op \in HFlips /\ x + g.x < g.w THEN D - 1 - px ELSE px,
                    IF op \in VFlips /\ y + g.y < g.h THEN D - 1 - py ELSE py)
  <1> DEFINE right == op \in HFlips /\ x + g.x < g.w
             down == op \in VFlips /\ y + g.y < g.h
             b == SourceBlock(op, s, g, y, x)
             m == Moved(op, s, g, y, x)
  <1>1. m = IF op \in Transposes THEN Transposed(Signed(b, right, down)) ELSE Signed(b, down, right)
    BY MovedIs
  <1>2. right \in BOOLEAN /\ down \in BOOLEAN /\ b \in Matrices
    OBVIOUS
  <1> DEFINE n == Signed(b, right, down)
             i == IF right THEN D - 1 - px ELSE px
             j == IF down THEN D - 1 - py ELSE py
  <1> HIDE DEF right, down, b, m
  <1>3. n \in Matrices /\ Sample(n, t, px, py) = Sample(b, t, i, j)
    BY <1>2, SignedIs
  <1>4. m = Transposed(n)
    BY <1>1
  <1> HIDE DEF n
  <1>5. Sample(m, Transposed(t), py, px) = Sample(b, t, i, j)
    BY <1>3, <1>4, SampleOfTransposed
  <1> QED
    BY <1>5 DEF m, b, right, down

LEMMA SampleMirrored ==
    ASSUME NEW op \in Ops, NEW s, NEW g, g.w \in Nat, g.h \in Nat, g.x \in Nat, g.y \in Nat,
           NEW y \in Nat, NEW x \in Nat, SourceBlock(op, s, g, y, x) \in Matrices,
           NEW t \in Matrices, NEW py \in Index, NEW px \in Index, op \notin Transposes
    PROVE  Sample(Moved(op, s, g, y, x), t, py, px)
           = Sample(SourceBlock(op, s, g, y, x), t, IF op \in VFlips /\ y + g.y < g.h THEN D - 1 - py ELSE py,
                    IF op \in HFlips /\ x + g.x < g.w THEN D - 1 - px ELSE px)
  <1> DEFINE right == op \in HFlips /\ x + g.x < g.w
             down == op \in VFlips /\ y + g.y < g.h
             b == SourceBlock(op, s, g, y, x)
             m == Moved(op, s, g, y, x)
  <1>1. m = IF op \in Transposes THEN Transposed(Signed(b, right, down)) ELSE Signed(b, down, right)
    BY MovedIs
  <1>2. right \in BOOLEAN /\ down \in BOOLEAN /\ b \in Matrices
    OBVIOUS
  <1> HIDE DEF right, down, b, m
  <1>3. Sample(m, t, py, px) = Sample(b, t, IF down THEN D - 1 - py ELSE py, IF right THEN D - 1 - px ELSE px)
    BY <1>1, <1>2, SignedIs
  <1> QED
    BY <1>3 DEF m, b, right, down

-----------------------------------------------------------------------------
(* What is requested.                                                      *)

(* In one direction: where a region begins, rounded down to an iMCU, and   *)
(* what is kept of it.                                                     *)
Widened(first, size, mcu) == size + (first % mcu)
Trimmed(first, size, full, mcu, trims) ==
    LET wanted == Widened(first, size, mcu)
        cols == wanted \div mcu
    IN IF trims /\ cols > 0 /\ first \div mcu + cols = full \div mcu THEN cols * mcu ELSE wanted

KeepsWhole(first, size, full, mcu, trims, x) ==
    LET kept == Trimmed(first, size, full, mcu, trims)
    IN /\ kept \in Nat \ {0} /\ x * mcu + kept <= full
       /\ kept = Kept(x * mcu, first + size - x * mcu, full, mcu, trims)

LEMMA KeptIs ==
    ASSUME NEW full \in Nat, NEW mcu \in Nat \ {0}, NEW first \in Nat, NEW size \in Nat \ {0},
           first + size <= full, NEW trims \in BOOLEAN, NEW x \in Nat, x = first \div mcu
    PROVE  KeepsWhole(first, size, full, mcu, trims, x)
  <1> DEFINE r == first % mcu
             wanted == size + r
             cols == wanted \div mcu
             q == full \div mcu
             kept == Trimmed(first, size, full, mcu, trims)
  <1> SUFFICES /\ kept \in Nat \ {0} /\ x * mcu + kept <= full
               /\ kept = Kept(x * mcu, first + size - x * mcu, full, mcu, trims)
    BY Zenon DEF KeepsWhole
  <1>1. x \in Nat /\ r \in 0 .. mcu - 1 /\ first = x * mcu + r
    <2>1. first \in Int
      OBVIOUS
    <2> QED
      BY <2>1, QuotientIs, Zenon
  <1>2. kept = IF trims /\ cols > 0 /\ x + cols = q THEN cols * mcu ELSE wanted
    BY Zenon DEF Trimmed, Widened
  <1> HIDE DEF r, kept
  <1>3. wanted \in Nat \ {0}
    BY <1>1
  <1> HIDE DEF wanted
  <1>4. cols \in Nat /\ (wanted % mcu) \in 0 .. mcu - 1 /\ wanted = cols * mcu + (wanted % mcu)
    <2>1. wanted \in Int
      BY <1>3
    <2> QED
      BY <1>3, <2>1, QuotientIs, Zenon
  <1>5. q \in Nat /\ (full % mcu) \in 0 .. mcu - 1 /\ full = q * mcu + (full % mcu)
    <2>1. full \in Int
      OBVIOUS
    <2> QED
      BY <2>1, QuotientIs, Zenon
  <1> HIDE DEF cols, q
  <1>6. x * mcu \in Nat /\ cols * mcu \in Nat /\ q * mcu \in Nat /\ (x + cols) * mcu = x * mcu + cols * mcu
    BY <1>1, <1>4, <1>5
  <1>7. x * mcu + wanted <= full /\ wanted = first + size - x * mcu
    BY <1>1, <1>6 DEF wanted
  <1>8. (x < q <=> x * mcu < q * mcu) /\ (x + 1 <= q => x * mcu + mcu <= q * mcu)
    <2>1. (x + 1) * mcu = x * mcu + mcu /\ (x + 1 <= q <=> (x + 1) * mcu <= q * mcu)
      BY <1>1, <1>5, ProductOrder
    <2> QED
      BY <1>1, <1>5, <2>1, ProductOrder
  <1>9. cols > 0 => cols * mcu > 0
    BY <1>4, <1>6, ProductOrder
  <1>10. Kept(x * mcu, wanted, full, mcu, trims)
         = IF trims /\ x * mcu < q * mcu /\ x * mcu + wanted > q * mcu THEN q * mcu - x * mcu ELSE wanted
    BY Zenon DEF Kept, q
  <1>11. CASE trims /\ cols > 0 /\ x + cols = q
    <2>1. kept = cols * mcu /\ q * mcu = x * mcu + cols * mcu
      BY <1>2, <1>6, <1>11
    <2>2. kept \in Nat \ {0} /\ x * mcu + kept <= full
      BY <1>4, <1>5, <1>6, <1>9, <1>11, <2>1
    <2>3. wanted >= cols * mcu /\ x * mcu < q * mcu /\ q * mcu - x * mcu = cols * mcu
      BY <1>3, <1>4, <1>6, <1>9, <1>11, <2>1
    <2>4. x * mcu + wanted > q * mcu \/ wanted = cols * mcu
      BY <1>3, <1>6, <2>1, <2>3
    <2>5. kept = Kept(x * mcu, wanted, full, mcu, trims)
      BY <1>10, <1>11, <2>1, <2>3, <2>4
    <2> QED
      BY <1>1, <1>7, <2>2, <2>5 DEF kept
  <1>12. CASE ~(trims /\ cols > 0 /\ x + cols = q)
    <2>1. kept = wanted
      BY <1>2, <1>12
    <2>2. ~(trims /\ x * mcu < q * mcu /\ x * mcu + wanted > q * mcu)
      <3> SUFFICES ASSUME trims, x * mcu < q * mcu, x * mcu + wanted > q * mcu
                   PROVE  FALSE
        OBVIOUS
      <3>1. x + 1 <= q
        BY <1>1, <1>5, <1>8
      <3>2. ~(x + cols + 1 <= q)
        <4>1. (x + cols + 1) * mcu = x * mcu + cols * mcu + mcu
          BY <1>1, <1>4
        <4>2. x + cols + 1 <= q <=> (x + cols + 1) * mcu <= q * mcu
          BY <1>1, <1>4, <1>5, ProductOrder
        <4> QED
          BY <1>4, <1>6, <4>1, <4>2
      <3>3. ~(q + 1 <= x + cols)
        <4>1. (q + 1) * mcu = q * mcu + mcu
          BY <1>5
        <4>2. q + 1 <= x + cols <=> (q + 1) * mcu <= (x + cols) * mcu
          BY <1>1, <1>4, <1>5, ProductOrder
        <4> QED
          BY <1>4, <1>5, <1>6, <1>7, <4>1, <4>2
      <3> QED
        BY <1>1, <1>4, <1>5, <1>12, <3>1, <3>2, <3>3
    <2>3. kept = Kept(x * mcu, wanted, full, mcu, trims)
      BY <1>10, <2>1, <2>2
    <2> QED
      BY <1>1, <1>3, <1>7, <2>1, <2>3 DEF kept
  <1> QED
    BY <1>11, <1>12

-----------------------------------------------------------------------------
(* The largest of the sampling factors.                                    *)

LEMMA LargestFactor ==
    ASSUME NEW S \in SUBSET (1 .. 4), S # {}
    PROVE  Max(S) \in S /\ \A n \in S : n <= Max(S)
  <1>1. \E m \in S : \A n \in S : m >= n
    <2>1. CASE 4 \in S
      BY <2>1
    <2>2. CASE 4 \notin S /\ 3 \in S
      BY <2>2
    <2>3. CASE 4 \notin S /\ 3 \notin S /\ 2 \in S
      BY <2>3
    <2>4. CASE 4 \notin S /\ 3 \notin S /\ 2 \notin S
      <3>1. \A n \in S : n = 1
        BY <2>4
      <3>2. PICK n \in S : TRUE
        OBVIOUS
      <3> QED
        BY <3>1, <3>2
    <2> QED
      BY <2>1, <2>2, <2>3, <2>4
  <1>2. Max(S) \in S /\ \A n \in S : Max(S) >= n
    BY <1>1 DEF Max
  <1> QED
    BY <1>2

(* The job's image and one of its transforms. *)
Given(t) == job \in Jobs /\ t \in Transforms

LEMMA ImageFacts ==
    ASSUME job \in Jobs
    PROVE  /\ Image.width \in Nat \ {0} /\ Image.height \in Nat \ {0}
           /\ \A s \in DOMAIN Image.tables : Image.tables[s] \in Matrices
           /\ Len(Image.comps) \in Nat \ {0} /\ Comps(Image) = 1 .. Len(Image.comps)
           /\ \A c \in Comps(Image) :
                  /\ Image.comps[c].h \in 1 .. 4 /\ Image.comps[c].v \in 1 .. 4
                  /\ Image.comps[c].table \in DOMAIN Image.tables
                  /\ Image.comps[c].used \in Matrices
                  /\ Image.comps[c].h <= MaxH(Image) /\ Image.comps[c].v <= MaxV(Image)
           /\ MaxH(Image) \in 1 .. 4 /\ MaxV(Image) \in 1 .. 4
  <1>1. IsImage(Image)
    BY JobsAssumption DEF Image
  <1> DEFINE C == [h : 1 .. 4, v : 1 .. 4, table : DOMAIN Image.tables, used : Matrices]
             comps == Image.comps
  <1>2. comps \in Seq(C) /\ comps # <<>>
    BY <1>1 DEF IsImage
  <1>3. Len(comps) \in Nat \ {0} /\ DOMAIN comps = 1 .. Len(comps) /\ \A c \in DOMAIN comps : comps[c] \in C
    <2> HIDE DEF C, comps
    <2> QED
      BY <1>2, EmptySeq, LenProperties, ElementOfSeq
  <1>4. 1 \in DOMAIN comps
    BY <1>3
  <1> HIDE DEF comps
  <1>5. \A c \in DOMAIN comps : /\ comps[c].h \in 1 .. 4 /\ comps[c].v \in 1 .. 4
                              /\ comps[c].table \in DOMAIN Image.tables /\ comps[c].used \in Matrices
    BY <1>3
  <1>6. /\ MaxH(Image) \in {comps[c].h : c \in DOMAIN comps}
        /\ \A c \in DOMAIN comps : comps[c].h <= MaxH(Image)
    <2> DEFINE S == {comps[c].h : c \in DOMAIN comps}
    <2>1. S \in SUBSET (1 .. 4) /\ S # {} /\ \A c \in DOMAIN comps : comps[c].h \in S
      BY <1>4, <1>5
    <2>2. MaxH(Image) = Max(S)
      BY DEF MaxH, Comps, comps
    <2> HIDE DEF S
    <2>3. Max(S) \in S /\ \A c \in DOMAIN comps : comps[c].h <= Max(S)
      BY <2>1, LargestFactor
    <2> QED
      BY <2>2, <2>3 DEF S
  <1>7. /\ MaxV(Image) \in {comps[c].v : c \in DOMAIN comps}
        /\ \A c \in DOMAIN comps : comps[c].v <= MaxV(Image)
    <2> DEFINE S == {comps[c].v : c \in DOMAIN comps}
    <2>1. S \in SUBSET (1 .. 4) /\ S # {} /\ \A c \in DOMAIN comps : comps[c].v \in S
      BY <1>4, <1>5
    <2>2. MaxV(Image) = Max(S)
      BY DEF MaxV, Comps, comps
    <2> HIDE DEF S
    <2>3. Max(S) \in S /\ \A c \in DOMAIN comps : comps[c].v <= Max(S)
      BY <2>1, LargestFactor
    <2> QED
      BY <2>2, <2>3 DEF S
  <1>8. MaxH(Image) \in 1 .. 4 /\ MaxV(Image) \in 1 .. 4
    BY <1>5, <1>6, <1>7
  <1>9. Comps(Image) = DOMAIN comps
    BY DEF Comps, comps
  <1> QED
    BY <1>1, <1>3, <1>5, <1>6, <1>7, <1>8, <1>9 DEF IsImage, comps

LEMMA TransformFacts ==
    ASSUME NEW t \in Transforms
    PROVE  /\ t.op \in Ops /\ t.trim \in BOOLEAN /\ t.filter \in {"none", "doubles", "fails"}
           /\ t.crop.w \in Nat /\ t.crop.h \in Nat /\ t.crop.x \in Nat /\ t.crop.y \in Nat
  BY DEF Transforms

LEMMA UncroppedIs ==
    ASSUME NEW t, Given(t)
    PROVE  LET u == Uncropped(t)
           IN /\ u.mcuW \in Nat \ {0} /\ u.mcuH \in Nat \ {0}
              /\ u.width = (IF t.op \in Transposes THEN Image.height ELSE Image.width)
              /\ u.height = (IF t.op \in Transposes THEN Image.width ELSE Image.height)
              /\ u.mcuW = (IF Num(t) = 1 THEN 1 ELSE IF t.op \in Transposes THEN MaxV(Image) ELSE MaxH(Image)) * D
              /\ u.mcuH = (IF Num(t) = 1 THEN 1 ELSE IF t.op \in Transposes THEN MaxH(Image) ELSE MaxV(Image)) * D
              /\ u.width \in Nat \ {0} /\ u.height \in Nat \ {0} /\ u.x = 0 /\ u.y = 0 /\ u.work = FALSE
              /\ u = [width |-> u.width, height |-> u.height, mcuW |-> u.mcuW, mcuH |-> u.mcuH,
                      x |-> u.x, y |-> u.y, work |-> u.work]
  <1>1. D \in Nat \ {0} /\ 1 * D = D
    BY Symmetry
  <1>2. /\ Image.width \in Nat \ {0} /\ Image.height \in Nat \ {0}
        /\ MaxH(Image) * D \in Nat \ {0} /\ MaxV(Image) * D \in Nat \ {0}
    BY <1>1, ImageFacts DEF Given
  <1> QED
    BY <1>1, <1>2 DEF Uncropped

(* The region is in the image. *)
LEMMA RegionIs ==
    ASSUME NEW t, Given(t), ~IsRefused(t)
    PROVE  LET u == Uncropped(t)
           IN /\ CropX(t, u) \in Nat /\ CropW(t, u) \in Nat \ {0} /\ CropX(t, u) + CropW(t, u) <= u.width
              /\ CropY(t, u) \in Nat /\ CropH(t, u) \in Nat \ {0} /\ CropY(t, u) + CropH(t, u) <= u.height
              /\ ~Crops(t) => /\ CropX(t, u) = 0 /\ CropW(t, u) = u.width
                              /\ CropY(t, u) = 0 /\ CropH(t, u) = u.height
  <1> DEFINE u == Uncropped(t)
  <1>1. u.width \in Nat \ {0} /\ u.height \in Nat \ {0}
    BY UncroppedIs
  <1> HIDE DEF u
  <1>2. t.crop.w \in Nat /\ t.crop.h \in Nat /\ t.crop.x \in Nat /\ t.crop.y \in Nat
    BY TransformFacts DEF Given
  <1>3. CASE ~Crops(t)
    <2>1. t.crop = NoCrop
      BY <1>3 DEF Crops
    <2> QED
      BY <1>1, <1>3, <2>1 DEF NoCrop, CropX, CropW, CropY, CropH, u
  <1>4. CASE Crops(t)
    <2>1. ~BadCrop(t, u)
      BY <1>4 DEF IsRefused, u
    <2>2. CropX(t, u) \in Nat /\ CropW(t, u) \in Nat \ {0} /\ CropX(t, u) + CropW(t, u) <= u.width
      <3>1. t.crop.x < u.width /\ t.crop.x + CropW(t, u) <= u.width
        BY <1>1, <1>2, <2>1 DEF BadCrop, CropW
      <3>2. CropW(t, u) \in Nat \ {0}
        BY <1>1, <1>2, <3>1 DEF CropW
      <3> QED
        BY <1>1, <1>2, <3>1, <3>2 DEF CropX
    <2>3. CropY(t, u) \in Nat /\ CropH(t, u) \in Nat \ {0} /\ CropY(t, u) + CropH(t, u) <= u.height
      <3>1. t.crop.y < u.height /\ t.crop.y + CropH(t, u) <= u.height
        BY <1>1, <1>2, <2>1 DEF BadCrop, CropH
      <3>2. CropH(t, u) \in Nat \ {0}
        BY <1>1, <1>2, <3>1 DEF CropH
      <3> QED
        BY <1>1, <1>2, <3>1, <3>2 DEF CropY
    <2> QED
      BY <1>4, <2>2, <2>3 DEF u
  <1> QED
    BY <1>3, <1>4

(* What is requested, and where in the image it lies. *)
LEMMA RequestedIs ==
    ASSUME NEW t, Given(t), ~IsRefused(t)
    PROVE  LET u == Uncropped(t)
               i == Requested(t)
               left == i.x * u.mcuW
               top == i.y * u.mcuH
               right == IF t.trim /\ t.op \in HFlips THEN TRUE ELSE FALSE
               down == IF t.trim /\ t.op \in VFlips THEN TRUE ELSE FALSE
           IN /\ i.mcuW = u.mcuW /\ i.mcuH = u.mcuH
              /\ i.x = CropX(t, u) \div u.mcuW /\ i.y = CropY(t, u) \div u.mcuH
              /\ i.x \in Nat /\ i.y \in Nat /\ i.width \in Nat \ {0} /\ i.height \in Nat \ {0}
              /\ left + i.width <= u.width /\ top + i.height <= u.height
              /\ i.width = Kept(left, CropX(t, u) + CropW(t, u) - left, u.width, u.mcuW, right)
              /\ i.height = Kept(top, CropY(t, u) + CropH(t, u) - top, u.height, u.mcuH, down)
              /\ i.work = Needed(t, i)
  <1> DEFINE u == Uncropped(t)
             i == Requested(t)
             p == Cropped(t, u)
             right == IF t.trim /\ t.op \in HFlips THEN TRUE ELSE FALSE
             down == IF t.trim /\ t.op \in VFlips THEN TRUE ELSE FALSE
             q == IF right THEN TrimRightEdge(p, u.width) ELSE p
             r == IF down THEN TrimBottomEdge(q, u.height) ELSE q
             width == Trimmed(CropX(t, u), CropW(t, u), u.width, u.mcuW, right)
             height == Trimmed(CropY(t, u), CropH(t, u), u.height, u.mcuH, down)
             x == CropX(t, u) \div u.mcuW
             y == CropY(t, u) \div u.mcuH
  <1>1. right \in BOOLEAN /\ down \in BOOLEAN
    OBVIOUS
  <1>2. i = [r EXCEPT !.work = Needed(t, p)]
    BY DEF Requested
  <1>3. u = [width |-> u.width, height |-> u.height, mcuW |-> u.mcuW, mcuH |-> u.mcuH,
             x |-> u.x, y |-> u.y, work |-> u.work]
    BY UncroppedIs
  <1> HIDE DEF u, right, down, i
  <1>4. p = [width |-> Widened(CropX(t, u), CropW(t, u), u.mcuW),
             height |-> Widened(CropY(t, u), CropH(t, u), u.mcuH),
             mcuW |-> u.mcuW, mcuH |-> u.mcuH, x |-> x, y |-> y, work |-> u.work]
    <2>1. PICK w, h, m, n, a, b, d : u = [width |-> w, height |-> h, mcuW |-> m, mcuH |-> n, x |-> a, y |-> b, work |-> d]
      BY <1>3, Zenon
    <2> DEFINE cw == CropW(t, u)
               ch == CropH(t, u)
               cx == CropX(t, u)
               cy == CropY(t, u)
    <2>2. p = [u EXCEPT !.width = cw + (cx % u.mcuW), !.height = ch + (cy % u.mcuH),
                        !.x = cx \div u.mcuW, !.y = cy \div u.mcuH]
      BY Zenon DEF Cropped
    <2>3. x = cx \div u.mcuW /\ y = cy \div u.mcuH
      OBVIOUS
    <2> HIDE DEF cw, ch, cx, cy, p, x, y
    <2>4. /\ Widened(cx, cw, u.mcuW) = cw + (cx % u.mcuW) /\ Widened(cy, ch, u.mcuH) = ch + (cy % u.mcuH)
      BY Zenon DEF Widened
    <2> DEFINE e == cw + (cx % u.mcuW)
               f == ch + (cy % u.mcuH)
    <2>5. p = [u EXCEPT !.width = e, !.height = f, !.x = x, !.y = y]
      BY <2>2, <2>3, Zenon
    <2> HIDE DEF e, f
    <2>6. p = [width |-> e, height |-> f, mcuW |-> u.mcuW, mcuH |-> u.mcuH, x |-> x, y |-> y, work |-> u.work]
      BY <2>1, <2>5
    <2> QED
      BY <2>4, <2>6, Zenon DEF cw, ch, cx, cy, e, f
  <1> HIDE DEF p
  <1>5. q = [width |-> width, height |-> p.height, mcuW |-> u.mcuW, mcuH |-> u.mcuH, x |-> x, y |-> y, work |-> u.work]
    BY <1>4 DEF TrimRightEdge, Trimmed
  <1> HIDE DEF q, width
  <1>6. r = [width |-> width, height |-> height, mcuW |-> u.mcuW, mcuH |-> u.mcuH, x |-> x, y |-> y, work |-> u.work]
    BY <1>4, <1>5 DEF TrimBottomEdge, Trimmed
  <1> HIDE DEF r, height
  <1>7. i = [width |-> width, height |-> height, mcuW |-> u.mcuW, mcuH |-> u.mcuH, x |-> x, y |-> y, work |-> Needed(t, p)]
    BY <1>2, <1>6
  <1>8. Needed(t, p) = Needed(t, i)
    BY <1>4, <1>7 DEF Needed
  <1>9. /\ u.width \in Nat /\ u.height \in Nat /\ u.mcuW \in Nat \ {0} /\ u.mcuH \in Nat \ {0}
    BY UncroppedIs DEF u
  <1>10. /\ CropX(t, u) \in Nat /\ CropW(t, u) \in Nat \ {0} /\ CropX(t, u) + CropW(t, u) <= u.width
         /\ CropY(t, u) \in Nat /\ CropH(t, u) \in Nat \ {0} /\ CropY(t, u) + CropH(t, u) <= u.height
    BY RegionIs DEF u
  <1>11. /\ x \in Nat /\ width \in Nat \ {0} /\ x * u.mcuW + width <= u.width
         /\ width = Kept(x * u.mcuW, CropX(t, u) + CropW(t, u) - x * u.mcuW, u.width, u.mcuW, right)
    <2>1. PICK first \in Nat, size \in Nat \ {0}, full \in Nat, mcu \in Nat \ {0}, trims \in BOOLEAN :
              /\ first = CropX(t, u) /\ size = CropW(t, u) /\ full = u.width /\ mcu = u.mcuW /\ trims = right
              /\ first + size <= full
      BY <1>1, <1>9, <1>10, Zenon
    <2>2. width = Trimmed(first, size, full, mcu, trims) /\ x = first \div mcu
      BY <2>1, Zenon DEF width
    <2>3. PICK k \in Nat : k = first \div mcu
      <3>1. first \in Int
        OBVIOUS
      <3> QED
        BY <3>1, QuotientIs, Zenon
    <2>4. KeepsWhole(first, size, full, mcu, trims, k)
      <3>1. first + size <= full
        BY <2>1, Zenon
      <3> QED
        BY <2>3, <3>1, KeptIs, Zenon
    <2> QED
      BY <2>1, <2>2, <2>3, <2>4, Zenon DEF KeepsWhole
  <1>12. /\ y \in Nat /\ height \in Nat \ {0} /\ y * u.mcuH + height <= u.height
         /\ height = Kept(y * u.mcuH, CropY(t, u) + CropH(t, u) - y * u.mcuH, u.height, u.mcuH, down)
    <2>1. PICK first \in Nat, size \in Nat \ {0}, full \in Nat, mcu \in Nat \ {0}, trims \in BOOLEAN :
              /\ first = CropY(t, u) /\ size = CropH(t, u) /\ full = u.height /\ mcu = u.mcuH /\ trims = down
              /\ first + size <= full
      BY <1>1, <1>9, <1>10, Zenon
    <2>2. height = Trimmed(first, size, full, mcu, trims) /\ y = first \div mcu
      BY <2>1, Zenon DEF height
    <2>3. PICK k \in Nat : k = first \div mcu
      <3>1. first \in Int
        OBVIOUS
      <3> QED
        BY <3>1, QuotientIs, Zenon
    <2>4. KeepsWhole(first, size, full, mcu, trims, k)
      <3>1. first + size <= full
        BY <2>1, Zenon
      <3> QED
        BY <2>3, <3>1, KeptIs, Zenon
    <2> QED
      BY <2>1, <2>2, <2>3, <2>4, Zenon DEF KeepsWhole
  <1> HIDE DEF x, y
  <1>13. /\ i.x = x /\ i.y = y /\ i.width = width /\ i.height = height /\ i.mcuW = u.mcuW /\ i.mcuH = u.mcuH
         /\ i.work = Needed(t, p)
    BY <1>7
  <1> QED
    BY <1>8, <1>11, <1>12, <1>13 DEF x, y, u, i, right, down

-----------------------------------------------------------------------------
(* The frame of the file, and where its blocks come from.                  *)

FrameIs(f, t) ==
    /\ f.width = Requested(t).width /\ f.height = Requested(t).height
    /\ f.comps = [c \in 1 .. Num(t) |->
                     [h |-> Factors(t, c).h, v |-> Factors(t, c).v, table |-> Image.comps[c].table]]
    /\ f.tables = IF t.op \in Transposes
                  THEN [s \in DOMAIN Image.tables |-> Transposed(Image.tables[s])] ELSE Image.tables
    /\ ~Mismatched
    /\ Num(t) = 1 => Image.comps[1].h = MaxH(Image) /\ Image.comps[1].v = MaxV(Image)

LEMMA NumIs ==
    ASSUME NEW t, Given(t)
    PROVE  Num(t) \in Nat \ {0} /\ Num(t) <= Len(Image.comps) /\ (Num(t) = 1 \/ Num(t) = Len(Image.comps))
  BY ImageFacts DEF Given, Num

LEMMA FactorsAre ==
    ASSUME NEW t, Given(t), NEW f, FrameIs(f, t), NEW c \in 1 .. Num(t)
    PROVE  /\ c \in Comps(Image)
           /\ f.comps[c].h \in 1 .. 4 /\ f.comps[c].v \in 1 .. 4
           /\ f.comps[c].h = (IF Num(t) = 1 THEN 1 ELSE IF t.op \in Transposes THEN Image.comps[c].v ELSE Image.comps[c].h)
           /\ f.comps[c].v = (IF Num(t) = 1 THEN 1 ELSE IF t.op \in Transposes THEN Image.comps[c].h ELSE Image.comps[c].v)
           /\ f.comps[c].table = Image.comps[c].table
  <1>1. c \in Comps(Image)
    BY NumIs, ImageFacts DEF Given
  <1>2. f.comps[c] = [h |-> Factors(t, c).h, v |-> Factors(t, c).v, table |-> Image.comps[c].table]
    BY DEF FrameIs
  <1>3. Image.comps[c].h \in 1 .. 4 /\ Image.comps[c].v \in 1 .. 4
    BY <1>1, ImageFacts DEF Given
  <1> QED
    BY <1>1, <1>2, <1>3 DEF Factors

LEMMA FrameFacts ==
    ASSUME NEW t, Given(t), NEW f, FrameIs(f, t)
    PROVE  LET u == Uncropped(t)
           IN /\ Len(f.comps) = Num(t) /\ Comps(f) = 1 .. Num(t) /\ Comps(f) \subseteq Comps(Image)
              /\ MaxH(f) \in 1 .. 4 /\ MaxV(f) \in 1 .. 4
              /\ MaxH(f) * D = u.mcuW /\ MaxV(f) * D = u.mcuH
              /\ MaxH(f) * D \in Nat \ {0} /\ MaxV(f) * D \in Nat \ {0}
              /\ \A c \in Comps(f) : f.comps[c].h \in 1 .. 4 /\ f.comps[c].v \in 1 .. 4
  <1> DEFINE n == Num(t)
             u == Uncropped(t)
             H == IF n = 1 THEN 1 ELSE IF t.op \in Transposes THEN MaxV(Image) ELSE MaxH(Image)
             V == IF n = 1 THEN 1 ELSE IF t.op \in Transposes THEN MaxH(Image) ELSE MaxV(Image)
  <1>1. n \in Nat \ {0} /\ n <= Len(Image.comps) /\ (n = 1 \/ n = Len(Image.comps))
    BY NumIs
  <1>2. Len(f.comps) = n /\ Comps(f) = 1 .. n
    <2>1. f.comps = [c \in 1 .. n |-> [h |-> Factors(t, c).h, v |-> Factors(t, c).v, table |-> Image.comps[c].table]]
      BY DEF FrameIs
    <2>2. DOMAIN f.comps = 1 .. n
      BY <2>1
    <2>3. Len(f.comps) = n
      BY <1>1, <2>1
    <2> QED
      BY <2>2, <2>3 DEF Comps
  <1>3. Comps(Image) = 1 .. Len(Image.comps)
    BY ImageFacts DEF Given
  <1>4. \A c \in 1 .. n : /\ f.comps[c].h \in 1 .. 4 /\ f.comps[c].v \in 1 .. 4
                         /\ f.comps[c].h = (IF n = 1 THEN 1 ELSE IF t.op \in Transposes THEN Image.comps[c].v ELSE Image.comps[c].h)
                         /\ f.comps[c].v = (IF n = 1 THEN 1 ELSE IF t.op \in Transposes THEN Image.comps[c].h ELSE Image.comps[c].v)
    BY FactorsAre
  <1>5. MaxH(f) = H /\ MaxV(f) = V
    <2>1. CASE n = 1
      <3>1. \A c \in Comps(f) : f.comps[c].h = 1 /\ f.comps[c].v = 1
        BY <1>2, <1>4, <2>1
      <3>2. {f.comps[c].h : c \in Comps(f)} = {1} /\ {f.comps[c].v : c \in Comps(f)} = {1}
        BY <1>1, <1>2, <3>1
      <3>3. Max({1}) = 1
        BY LargestFactor
      <3> QED
        BY <2>1, <3>2, <3>3 DEF MaxH, MaxV
    <2>2. CASE n # 1
      <3>1. Comps(f) = Comps(Image)
        BY <1>1, <1>2, <1>3, <2>2
      <3>2. CASE t.op \in Transposes
        <4>1. \A c \in Comps(Image) : f.comps[c].h = Image.comps[c].v /\ f.comps[c].v = Image.comps[c].h
          BY <1>2, <1>4, <2>2, <3>1, <3>2
        <4>2. /\ {f.comps[c].h : c \in Comps(f)} = {Image.comps[c].v : c \in Comps(Image)}
              /\ {f.comps[c].v : c \in Comps(f)} = {Image.comps[c].h : c \in Comps(Image)}
          BY <3>1, <4>1
        <4> QED
          BY <2>2, <3>2, <4>2 DEF MaxH, MaxV
      <3>3. CASE t.op \notin Transposes
        <4>1. \A c \in Comps(Image) : f.comps[c].h = Image.comps[c].h /\ f.comps[c].v = Image.comps[c].v
          BY <1>2, <1>4, <2>2, <3>1, <3>3
        <4>2. /\ {f.comps[c].h : c \in Comps(f)} = {Image.comps[c].h : c \in Comps(Image)}
              /\ {f.comps[c].v : c \in Comps(f)} = {Image.comps[c].v : c \in Comps(Image)}
          BY <3>1, <4>1
        <4> QED
          BY <2>2, <3>3, <4>2 DEF MaxH, MaxV
      <3> QED
        BY <3>2, <3>3
    <2> QED
      BY <2>1, <2>2
  <1>6. H \in 1 .. 4 /\ V \in 1 .. 4
    BY ImageFacts DEF Given
  <1>7. u.mcuW = H * D /\ u.mcuH = V * D /\ u.mcuW \in Nat \ {0} /\ u.mcuH \in Nat \ {0}
    BY UncroppedIs
  <1>8. Comps(f) \subseteq Comps(Image)
    BY <1>1, <1>2, <1>3
  <1> HIDE DEF H, V, n, u
  <1> QED
    BY <1>2, <1>4, <1>5, <1>6, <1>7, <1>8 DEF n, u

(* In one direction: a block of the region comes from the strip it is of.  *)
LEMMA InStrip ==
    ASSUME NEW width \in Nat, NEW factor \in Nat \ {0}, NEW mcu \in Nat \ {0}, NEW first \in Nat, NEW full \in Nat,
           first * mcu + width <= full, NEW p \in Nat, p < DivUp(width * factor, mcu), NEW mirrors \in BOOLEAN
    PROVE  /\ p + first * factor \in Nat
           /\ Mirror(p + first * factor, (full \div mcu) * factor, mirrors) \in Nat
           /\ Mirror(p + first * factor, (full \div mcu) * factor, mirrors) < DivUp(full * factor, mcu)
           /\ (full \div mcu) * factor \in Nat
  <1> DEFINE a == width * factor
             b == full * factor
             n == DivUp(b, mcu)
             q == full \div mcu
             k == p + first * factor
  <1>1. a \in Nat /\ b \in Nat /\ first * factor \in Nat /\ k \in Nat /\ first * mcu \in Nat
    OBVIOUS
  <1>2. p * mcu < a /\ p * mcu \in Nat
    <2>1. PICK e \in Nat : e = width * factor
      OBVIOUS
    <2>2. \A i \in Int : i < DivUp(e, mcu) <=> i * mcu < e
      <3>1. e \in Int
        OBVIOUS
      <3> QED
        BY <3>1, DivUpIs, Zenon
    <2>3. p < DivUp(e, mcu)
      BY <2>1
    <2> QED
      BY <2>1, <2>2, <2>3
  <1>3. n \in Nat /\ \A i \in Int : i < n <=> i * mcu < b
    <2>1. PICK e \in Nat : e = full * factor
      OBVIOUS
    <2>2. DivUp(e, mcu) \in Nat /\ \A i \in Int : i < DivUp(e, mcu) <=> i * mcu < e
      <3>1. e \in Int
        OBVIOUS
      <3> QED
        BY <3>1, DivUpIs, Zenon
    <2> QED
      BY <2>1, <2>2
  <1>4. q \in Nat /\ q * mcu <= full
    <2>1. full \in Int
      OBVIOUS
    <2>2. q \in Nat /\ \A i \in Int : i <= q <=> i * mcu <= full
      BY <2>1, QuotientIs, Zenon
    <2> HIDE DEF q
    <2> QED
      BY <2>2
  <1> HIDE DEF q
  <1>5. k * mcu = p * mcu + (first * mcu) * factor
    OBVIOUS
  <1>6. (first * mcu + width) * factor <= b
    BY <1>1, ProductOrder
  <1>7. (first * mcu + width) * factor = (first * mcu) * factor + a
    BY <1>1
  <1>8. (first * mcu) * factor \in Nat
    BY <1>1
  <1>9. k < n
    <2>1. k * mcu < b
      <3> HIDE DEF a, b, k
      <3> QED
        BY <1>1, <1>2, <1>5, <1>6, <1>7, <1>8
    <2> HIDE DEF n, k
    <2> QED
      BY <1>1, <1>3, <2>1
  <1>10. q * factor \in Nat /\ (q * factor) * mcu <= b
    <2>1. (q * factor) * mcu = (q * mcu) * factor /\ q * mcu \in Int /\ q * factor \in Nat
      BY <1>4
    <2>2. (q * mcu) * factor <= full * factor
      BY <1>4, <2>1, ProductOrder
    <2> QED
      BY <2>1, <2>2
  <1>11. q * factor <= n
    <2> DEFINE w == q * factor
    <2> HIDE DEF w, n, b
    <2>1. w \in Nat /\ w * mcu <= b /\ (n < w => n * mcu < w * mcu) /\ ~(n < n)
      BY <1>3, <1>10, ProductOrder DEF w
    <2>2. n * mcu \in Int /\ w * mcu \in Int /\ ~(n * mcu < b)
      BY <1>3, <2>1
    <2> QED
      BY <1>1, <1>3, <2>1, <2>2 DEF w
  <1> DEFINE w == q * factor
  <1> HIDE DEF k, n, w
  <1>12. w \in Nat /\ w <= n
    BY <1>10, <1>11 DEF w
  <1>13. Mirror(k, w, mirrors) \in Nat /\ Mirror(k, w, mirrors) < n
    BY <1>1, <1>3, <1>9, <1>12 DEF Mirror
  <1> QED
    BY <1>1, <1>12, <1>13 DEF k, n, w, q

LEMMA FullSizes ==
    ASSUME NEW t, Given(t), NEW f, FrameIs(f, t), NEW c \in Comps(f)
    PROVE  LET u == Uncropped(t)
           IN /\ DivUp(u.width * f.comps[c].h, u.mcuW)
                 = (IF t.op \in Transposes THEN HeightInBlocks(Image, c) ELSE WidthInBlocks(Image, c))
              /\ DivUp(u.height * f.comps[c].v, u.mcuH)
                 = (IF t.op \in Transposes THEN WidthInBlocks(Image, c) ELSE HeightInBlocks(Image, c))
  <1> DEFINE u == Uncropped(t)
             n == Num(t)
             comp == Image.comps[c]
  <1>1. c \in 1 .. n
    BY FrameFacts
  <1>2. /\ f.comps[c].h = (IF n = 1 THEN 1 ELSE IF t.op \in Transposes THEN comp.v ELSE comp.h)
        /\ f.comps[c].v = (IF n = 1 THEN 1 ELSE IF t.op \in Transposes THEN comp.h ELSE comp.v)
    BY <1>1, FactorsAre
  <1>3. /\ u.width = (IF t.op \in Transposes THEN Image.height ELSE Image.width)
        /\ u.height = (IF t.op \in Transposes THEN Image.width ELSE Image.height)
        /\ u.mcuW = (IF n = 1 THEN 1 ELSE IF t.op \in Transposes THEN MaxV(Image) ELSE MaxH(Image)) * D
        /\ u.mcuH = (IF n = 1 THEN 1 ELSE IF t.op \in Transposes THEN MaxH(Image) ELSE MaxV(Image)) * D
    BY UncroppedIs
  <1>4. /\ WidthInBlocks(Image, c) = DivUp(Image.width * comp.h, MaxH(Image) * D)
        /\ HeightInBlocks(Image, c) = DivUp(Image.height * comp.v, MaxV(Image) * D)
    BY DEF WidthInBlocks, HeightInBlocks
  <1> HIDE DEF u
  <1>5. CASE n = 1
    <2>1. c = 1 /\ comp.h = MaxH(Image) /\ comp.v = MaxV(Image)
      BY <1>1, <1>5 DEF FrameIs
    <2>2. PICK H \in Nat \ {0}, V \in Nat \ {0}, w \in Nat, h \in Nat, d \in Nat \ {0} :
              H = MaxH(Image) /\ V = MaxV(Image) /\ w = Image.width /\ h = Image.height /\ d = D
      BY ImageFacts, Symmetry DEF Given
    <2>3. DivUp(w * H, d * H) = DivUp(w, d) /\ DivUp(h * V, d * V) = DivUp(h, d)
      BY DivUpCancels
    <2>4. d * H = H * d /\ d * V = V * d /\ w * 1 = w /\ h * 1 = h /\ 1 * d = d
      OBVIOUS
    <2>5. WidthInBlocks(Image, c) = DivUp(w, d) /\ HeightInBlocks(Image, c) = DivUp(h, d)
      BY <1>4, <2>1, <2>2, <2>3, <2>4
    <2>6. f.comps[c].h = 1 /\ f.comps[c].v = 1 /\ u.mcuW = d /\ u.mcuH = d
      BY <1>2, <1>3, <1>5, <2>2, <2>4
    <2>7. CASE t.op \in Transposes
      BY <1>3, <2>2, <2>4, <2>5, <2>6, <2>7 DEF u
    <2>8. CASE t.op \notin Transposes
      BY <1>3, <2>2, <2>4, <2>5, <2>6, <2>8 DEF u
    <2> QED
      BY <2>7, <2>8
  <1>6. CASE n # 1
    <2>1. CASE t.op \in Transposes
      BY <1>2, <1>3, <1>4, <1>6, <2>1 DEF u
    <2>2. CASE t.op \notin Transposes
      BY <1>2, <1>3, <1>4, <1>6, <2>2 DEF u
    <2> QED
      BY <2>1, <2>2
  <1> QED
    BY <1>5, <1>6

LEMMA BlockCounts ==
    ASSUME NEW f, NEW c, f.width \in Nat, f.height \in Nat, f.comps[c].h \in 1 .. 4, f.comps[c].v \in 1 .. 4,
           MaxH(f) \in 1 .. 4, MaxV(f) \in 1 .. 4
    PROVE  /\ WidthInBlocks(f, c) \in Nat /\ HeightInBlocks(f, c) \in Nat
           /\ Columns(f, c) \in Nat /\ Rows(f, c) \in Nat
           /\ WidthInBlocks(f, c) <= Columns(f, c) /\ HeightInBlocks(f, c) <= Rows(f, c)
  <1>1. \A n \in Nat, m \in Nat \ {0} : DivUp(n, m) \in Nat /\ DivUp(n, m) * m \in Nat /\ n <= DivUp(n, m) * m
    <2> TAKE n \in Nat, m \in Nat \ {0}
    <2>1. DivUp(n, m) \in Nat /\ \A k \in Int : k < DivUp(n, m) <=> k * m < n
      BY DivUpIs
    <2> DEFINE q == DivUp(n, m)
    <2> HIDE DEF q
    <2>2. q \in Nat /\ ~(q * m < n)
      BY <2>1 DEF q
    <2> QED
      BY <2>2 DEF q
  <1>2. PICK w \in Nat, h \in Nat, x \in Nat \ {0}, y \in Nat \ {0}, m \in Nat \ {0}, n \in Nat \ {0}, d \in Nat \ {0} :
            /\ w = f.width /\ h = f.height /\ x = f.comps[c].h /\ y = f.comps[c].v
            /\ m = MaxH(f) /\ n = MaxV(f) /\ d = D
    <2>1. /\ f.comps[c].h \in Nat \ {0} /\ f.comps[c].v \in Nat \ {0}
          /\ MaxH(f) \in Nat \ {0} /\ MaxV(f) \in Nat \ {0}
      OBVIOUS
    <2> QED
      BY <2>1, Symmetry, Zenon
  <1>3. w * x \in Nat /\ h * y \in Nat /\ m * d \in Nat \ {0} /\ n * d \in Nat \ {0}
    OBVIOUS
  <1>4. WidthInBlocks(f, c) = DivUp(w * x, m * d) /\ HeightInBlocks(f, c) = DivUp(h * y, n * d)
    BY <1>2 DEF WidthInBlocks, HeightInBlocks
  <1>5. WidthInBlocks(f, c) \in Nat /\ HeightInBlocks(f, c) \in Nat
    BY <1>1, <1>3, <1>4, Zenon
  <1>6. Columns(f, c) = DivUp(WidthInBlocks(f, c), x) * x /\ Rows(f, c) = DivUp(HeightInBlocks(f, c), y) * y
    BY <1>2 DEF Columns, Rows
  <1> QED
    BY <1>1, <1>5, <1>6, Zenon

LEMMA ImageBlockIs ==
    ASSUME NEW c \in Nat, NEW y \in Nat, NEW x \in Nat
    PROVE  ImageBlock(c, y, x) \in Matrices
  <1> DEFINE tag == 100 * c + 10 * y + x
             place(i, j) == 1 + D * i + j
  <1>1. D \in Nat /\ tag \in Nat
    BY Symmetry
  <1>2. \A i, j \in Index : place(i, j) \in Nat
    BY <1>1 DEF Index
  <1> HIDE DEF tag, place
  <1>3. \A i, j \in Index : tag * place(i, j) * place(i, j) + i + j \in Int
    <2> TAKE i, j \in Index
    <2>1. PICK a \in Nat, b \in Nat : a = tag /\ b = place(i, j)
      BY <1>1, <1>2
    <2>2. i \in Nat /\ j \in Nat
      BY <1>1 DEF Index
    <2>3. a * b * b + i + j \in Int
      BY <2>2
    <2> QED
      BY <2>1, <2>3
  <1>4. ImageBlock(c, y, x) = [i \in Index |-> [j \in Index |-> tag * place(i, j) * place(i, j) + i + j]]
    BY DEF ImageBlock, tag, place
  <1> QED
    BY <1>3, <1>4 DEF Matrices

(* The geometry of component c, as Geometry gives it. *)
GeometryOf(f, t, c) ==
    [w |-> (Uncropped(t).width \div (MaxH(f) * D)) * f.comps[c].h,
     h |-> (Uncropped(t).height \div (MaxV(f) * D)) * f.comps[c].v,
     x |-> Requested(t).x * f.comps[c].h, y |-> Requested(t).y * f.comps[c].v]

(* The blocks of the image that are moved into the file's. *)
LEMMA SourceIs ==
    ASSUME NEW t, Given(t), ~IsRefused(t), NEW f, FrameIs(f, t), NEW c \in Comps(f),
           NEW y \in Nat, y < HeightInBlocks(f, c), NEW x \in Nat, x < WidthInBlocks(f, c)
    PROVE  LET g == GeometryOf(f, t, c)
               turned == t.op \in Transposes
               row == SourceRow(t.op, g, y)
               col == SourceColumn(t.op, g, x)
           IN /\ g.w \in Nat /\ g.h \in Nat /\ g.x \in Nat /\ g.y \in Nat /\ row \in Nat /\ col \in Nat
              /\ row < (IF turned THEN WidthInBlocks(Image, c) ELSE HeightInBlocks(Image, c))
              /\ col < (IF turned THEN HeightInBlocks(Image, c) ELSE WidthInBlocks(Image, c))
  <1> DEFINE u == Uncropped(t)
             i == Requested(t)
             g == GeometryOf(f, t, c)
  <1>1. /\ i.x \in Nat /\ i.y \in Nat /\ i.width \in Nat /\ i.height \in Nat
        /\ i.x * u.mcuW + i.width <= u.width /\ i.y * u.mcuH + i.height <= u.height
    BY RequestedIs
  <1>2. u.width \in Nat /\ u.height \in Nat /\ u.mcuW \in Nat \ {0} /\ u.mcuH \in Nat \ {0}
    BY UncroppedIs
  <1>3. /\ MaxH(f) * D = u.mcuW /\ MaxV(f) * D = u.mcuH
        /\ f.comps[c].h \in 1 .. 4 /\ f.comps[c].v \in 1 .. 4
    BY FrameFacts
  <1>4. f.width = i.width /\ f.height = i.height
    BY DEF FrameIs
  <1>5. /\ g.w = (u.width \div u.mcuW) * f.comps[c].h /\ g.h = (u.height \div u.mcuH) * f.comps[c].v
        /\ g.x = i.x * f.comps[c].h /\ g.y = i.y * f.comps[c].v
    BY <1>3 DEF GeometryOf
  <1>6. /\ x < DivUp(i.width * f.comps[c].h, u.mcuW)
        /\ y < DivUp(i.height * f.comps[c].v, u.mcuH)
    BY <1>3, <1>4 DEF WidthInBlocks, HeightInBlocks
  <1> HIDE DEF u, i, g
  <1>7. /\ g.w \in Nat /\ g.x \in Nat /\ SourceColumn(t.op, g, x) \in Nat
        /\ SourceColumn(t.op, g, x) < DivUp(u.width * f.comps[c].h, u.mcuW)
    <2>1. PICK width \in Nat, factor \in Nat \ {0}, mcu \in Nat \ {0}, first \in Nat, full \in Nat, m \in BOOLEAN :
              /\ width = i.width /\ factor = f.comps[c].h /\ mcu = u.mcuW /\ first = i.x /\ full = u.width
              /\ m = (t.op \in HFlips)
      <3>1. f.comps[c].h \in Nat \ {0}
        BY <1>3
      <3>2. (t.op \in HFlips) \in BOOLEAN
        OBVIOUS
      <3> QED
        BY <1>1, <1>2, <3>1, <3>2, Zenon
    <2>2. first * mcu + width <= full /\ x < DivUp(width * factor, mcu)
      BY <1>1, <1>6, <2>1
    <2>3. /\ x + first * factor \in Nat
          /\ Mirror(x + first * factor, (full \div mcu) * factor, m) \in Nat
          /\ Mirror(x + first * factor, (full \div mcu) * factor, m) < DivUp(full * factor, mcu)
          /\ (full \div mcu) * factor \in Nat
      BY <2>2, InStrip
    <2>4. g.w = (full \div mcu) * factor /\ g.x = first * factor
      BY <1>5, <2>1
    <2>5. SourceColumn(t.op, g, x) = Mirror(x + first * factor, (full \div mcu) * factor, m)
      BY <2>1, <2>4 DEF SourceColumn, Mirror
    <2>6. g.x \in Nat
      BY <2>4
    <2> QED
      BY <2>1, <2>3, <2>4, <2>5, <2>6, Zenon
  <1>8. /\ g.h \in Nat /\ g.y \in Nat /\ SourceRow(t.op, g, y) \in Nat
        /\ SourceRow(t.op, g, y) < DivUp(u.height * f.comps[c].v, u.mcuH)
    <2>1. PICK width \in Nat, factor \in Nat \ {0}, mcu \in Nat \ {0}, first \in Nat, full \in Nat, m \in BOOLEAN :
              /\ width = i.height /\ factor = f.comps[c].v /\ mcu = u.mcuH /\ first = i.y /\ full = u.height
              /\ m = (t.op \in VFlips)
      <3>1. f.comps[c].v \in Nat \ {0}
        BY <1>3
      <3>2. (t.op \in VFlips) \in BOOLEAN
        OBVIOUS
      <3> QED
        BY <1>1, <1>2, <3>1, <3>2, Zenon
    <2>2. first * mcu + width <= full /\ y < DivUp(width * factor, mcu)
      BY <1>1, <1>6, <2>1
    <2>3. /\ y + first * factor \in Nat
          /\ Mirror(y + first * factor, (full \div mcu) * factor, m) \in Nat
          /\ Mirror(y + first * factor, (full \div mcu) * factor, m) < DivUp(full * factor, mcu)
          /\ (full \div mcu) * factor \in Nat
      BY <2>2, InStrip
    <2>4. g.h = (full \div mcu) * factor /\ g.y = first * factor
      BY <1>5, <2>1
    <2>5. SourceRow(t.op, g, y) = Mirror(y + first * factor, (full \div mcu) * factor, m)
      BY <2>1, <2>4 DEF SourceRow, Mirror
    <2>6. g.y \in Nat
      BY <2>4
    <2> QED
      BY <2>1, <2>3, <2>4, <2>5, <2>6, Zenon
  <1>9. /\ DivUp(u.width * f.comps[c].h, u.mcuW)
           = (IF t.op \in Transposes THEN HeightInBlocks(Image, c) ELSE WidthInBlocks(Image, c))
        /\ DivUp(u.height * f.comps[c].v, u.mcuH)
           = (IF t.op \in Transposes THEN WidthInBlocks(Image, c) ELSE HeightInBlocks(Image, c))
    BY FullSizes DEF u
  <1> QED
    BY <1>7, <1>8, <1>9 DEF g

-----------------------------------------------------------------------------
(* A file with the right blocks is the transform.                          *)

LEMMA SampleType ==
    ASSUME NEW b \in Matrices, NEW t \in Matrices, NEW y \in Index, NEW x \in Index
    PROVE  Sample(b, t, y, x) \in Int
  <1> DEFINE T == Terms(b, t, y, x)
             S == 1 .. D * D
  <1>1. Sample(b, t, y, x) = SumFunctionOnSet(T, S) /\ IsFiniteSet(S) /\ \A k \in S : T[k] \in Int
    BY SampleIs
  <1> HIDE DEF T, S
  <1>2. \A k \in S : T[k] \in Int /\ T[k] = T[k]
    BY <1>1
  <1> QED
    BY <1>1, <1>2, SumSame

(* Where a sample comes from, in one direction. *)
LEMMA PlaceIs ==
    ASSUME NEW p \in Nat, NEW g \in Nat, NEW w \in Nat, NEW mirrors \in BOOLEAN
    PROVE  LET a == p + g * D
               m == IF mirrors THEN MirroredIn(a, w * D) ELSE a
           IN /\ m \div D = Mirror(p \div D + g, w, mirrors)
              /\ m % D = IF mirrors /\ p \div D + g < w THEN D - 1 - (p % D) ELSE p % D
  <1> DEFINE a == p + g * D
             e == w * D
             q == p \div D + g
             r == p % D
  <1>1. /\ a \div D = q /\ a % D = r
        /\ a < e <=> q < w
        /\ a < e => (e - 1 - a) \div D = w - 1 - q /\ (e - 1 - a) % D = D - 1 - r
    BY SampleFurther
  <1> HIDE DEF a, e, q, r
  <1>2. CASE mirrors /\ q < w
    BY <1>1, <1>2 DEF MirroredIn, Mirror, a, e, q, r
  <1>3. CASE ~(mirrors /\ q < w)
    BY <1>1, <1>3 DEF MirroredIn, Mirror, a, e, q, r
  <1> QED
    BY <1>2, <1>3

LEMMA BlockOfSample ==
    ASSUME NEW n \in Nat, NEW m \in Nat \ {0}, NEW p \in Nat, p < DivUp(n, m)
    PROVE  p \div D \in Nat /\ p \div D < DivUp(n, m * D) /\ p % D \in Index
  <1>1. PICK d \in Nat \ {0} : d = D
    BY Symmetry
  <1>2. p * m < n
    <2>1. n \in Int
      OBVIOUS
    <2> QED
      BY <2>1, DivUpIs
  <1>3. PICK q \in Nat, r \in 0 .. d - 1 : q = p \div d /\ r = p % d /\ p = q * d + r
    <2>1. p \in Int
      OBVIOUS
    <2> QED
      BY <2>1, QuotientIs, Zenon
  <1>4. q * d <= p /\ q * d \in Nat
    BY <1>3
  <1>5. (q * d) * m <= p * m /\ (q * d) * m \in Nat /\ (q * d) * m = q * (m * d)
    BY <1>4, ProductOrder
  <1>6. q * (m * d) < n
    BY <1>2, <1>5
  <1>7. PICK k \in Nat \ {0} : k = m * d
    OBVIOUS
  <1>8. q < DivUp(n, k)
    <2>1. n \in Int /\ q \in Int
      OBVIOUS
    <2>2. \A i \in Int : i < DivUp(n, k) <=> i * k < n
      BY <2>1, DivUpIs, Zenon
    <2> QED
      BY <1>6, <1>7, <2>1, <2>2
  <1>9. r \in Index
    BY <1>1 DEF Index
  <1> QED
    BY <1>1, <1>3, <1>7, <1>8, <1>9

(* Of what is cut off at the left, a component has a part. *)
LEMMA CutOff ==
    ASSUME NEW first \in Nat, NEW most \in Nat \ {0}, NEW factor \in Nat \ {0}
    PROVE  ((first * (most * D)) * factor) \div most = (first * factor) * D
  <1>1. PICK d \in Nat \ {0} : d = D
    BY Symmetry
  <1>2. PICK q \in Nat : q = (first * factor) * d
    OBVIOUS
  <1>3. (first * (most * d)) * factor = ((first * factor) * d) * most
    OBVIOUS
  <1>4. (first * (most * d)) * factor = q * most + 0
    BY <1>2, <1>3
  <1>5. (q * most + 0) \div most = q
    <2>1. q \in Int /\ 0 \in 0 .. most - 1
      OBVIOUS
    <2> QED
      BY <2>1, QuotientUnique
  <1> QED
    BY <1>1, <1>2, <1>4, <1>5

Doubled(t, b) == IF t.filter = "doubles" THEN Scaled(b, 2) ELSE b
RightBlock(f, t, c, y, x) == Doubled(t, Moved(t.op, Coefficients(Image)[c], GeometryOf(f, t, c), y, x))
BlocksAreRight(f, t) ==
    \A c \in Comps(f) : \A y \in 0 .. HeightInBlocks(f, c) - 1, x \in 0 .. WidthInBlocks(f, c) - 1 :
        BlockIn(f, c, y, x) = RightBlock(f, t, c, y, x)

LEMMA ImageBlocks ==
    ASSUME NEW c \in Comps(Image), job \in Jobs,
           NEW y \in Nat, y < HeightInBlocks(Image, c), NEW x \in Nat, x < WidthInBlocks(Image, c)
    PROVE  Coefficients(Image)[c][y][x] = ImageBlock(c, y, x) /\ ImageBlock(c, y, x) \in Matrices
  <1>1. /\ Columns(Image, c) \in Nat /\ Rows(Image, c) \in Nat
        /\ HeightInBlocks(Image, c) \in Nat /\ WidthInBlocks(Image, c) \in Nat
        /\ WidthInBlocks(Image, c) <= Columns(Image, c) /\ HeightInBlocks(Image, c) <= Rows(Image, c)
    BY ImageFacts, BlockCounts
  <1>2. y \in 0 .. Rows(Image, c) - 1 /\ x \in 0 .. Columns(Image, c) - 1
    BY <1>1
  <1>3. c \in Nat
    BY ImageFacts
  <1> QED
    BY <1>2, <1>3, ImageBlockIs DEF Coefficients

(* The block that is moved, and that it is one.                            *)
LEMMA SourceBlockIs ==
    ASSUME NEW t, Given(t), ~IsRefused(t), NEW f, FrameIs(f, t), NEW c \in Comps(f),
           NEW y \in Nat, y < HeightInBlocks(f, c), NEW x \in Nat, x < WidthInBlocks(f, c)
    PROVE  LET g == GeometryOf(f, t, c)
               row == SourceRow(t.op, g, y)
               col == SourceColumn(t.op, g, x)
               b == SourceBlock(t.op, Coefficients(Image)[c], g, y, x)
           IN b \in Matrices /\ b = IF t.op \in Transposes THEN ImageBlock(c, col, row) ELSE ImageBlock(c, row, col)
  <1> DEFINE g == GeometryOf(f, t, c)
             row == SourceRow(t.op, g, y)
             col == SourceColumn(t.op, g, x)
  <1>1. /\ row \in Nat /\ col \in Nat
        /\ row < (IF t.op \in Transposes THEN WidthInBlocks(Image, c) ELSE HeightInBlocks(Image, c))
        /\ col < (IF t.op \in Transposes THEN HeightInBlocks(Image, c) ELSE WidthInBlocks(Image, c))
    BY SourceIs
  <1>2. c \in Comps(Image) /\ job \in Jobs
    BY FrameFacts DEF Given
  <1>3. SourceBlock(t.op, Coefficients(Image)[c], g, y, x)
        = IF t.op \in Transposes THEN Coefficients(Image)[c][col][row] ELSE Coefficients(Image)[c][row][col]
    BY DEF SourceBlock
  <1> HIDE DEF g, row, col
  <1>4. CASE t.op \in Transposes
    <2>1. row < WidthInBlocks(Image, c) /\ col < HeightInBlocks(Image, c)
      BY <1>1, <1>4
    <2>2. Coefficients(Image)[c][col][row] = ImageBlock(c, col, row) /\ ImageBlock(c, col, row) \in Matrices
      BY <1>1, <1>2, <2>1, ImageBlocks, Zenon
    <2> QED
      BY <1>3, <1>4, <2>2 DEF g, row, col
  <1>5. CASE t.op \notin Transposes
    <2>1. row < HeightInBlocks(Image, c) /\ col < WidthInBlocks(Image, c)
      BY <1>1, <1>5
    <2>2. Coefficients(Image)[c][row][col] = ImageBlock(c, row, col) /\ ImageBlock(c, row, col) \in Matrices
      BY <1>1, <1>2, <2>1, ImageBlocks, Zenon
    <2> QED
      BY <1>3, <1>5, <2>2 DEF g, row, col
  <1> QED
    BY <1>4, <1>5

LEMMA TableIs ==
    ASSUME NEW t, Given(t), NEW f, FrameIs(f, t), NEW c \in Comps(f)
    PROVE  /\ Image.comps[c].used \in Matrices
           /\ f.tables[f.comps[c].table]
              = IF t.op \in Transposes THEN Transposed(Image.comps[c].used) ELSE Image.comps[c].used
  <1> DEFINE s == Image.comps[c].table
  <1>1. c \in Comps(Image) /\ c \in 1 .. Num(t)
    BY FrameFacts
  <1>2. s \in DOMAIN Image.tables /\ Image.comps[c].used \in Matrices
    BY <1>1, ImageFacts DEF Given
  <1>3. f.comps[c].table = s
    BY <1>1, FactorsAre
  <1>4. Image.comps[c].used = Image.tables[s]
    BY <1>1 DEF FrameIs, Mismatched
  <1>5. f.tables = IF t.op \in Transposes
                   THEN [k \in DOMAIN Image.tables |-> Transposed(Image.tables[k])] ELSE Image.tables
    BY DEF FrameIs
  <1> QED
    BY <1>2, <1>3, <1>4, <1>5

LEMMA PixelIs ==
    ASSUME NEW t, Given(t), ~IsRefused(t), NEW f, FrameIs(f, t), BlocksAreRight(f, t), NEW c \in Comps(f),
           NEW y \in Nat, y < SamplesDown(f, c), NEW x \in Nat, x < SamplesAcross(f, c)
    PROVE  Decoded(f, c, y, x)
           = Belongs(t, f, c, Requested(t).x * (MaxH(f) * D), Requested(t).y * (MaxV(f) * D), y, x)
  <1> DEFINE s == Coefficients(Image)[c]
             i == Requested(t)
             g == GeometryOf(f, t, c)
             u == Uncropped(t)
             by == y \div D
             bx == x \div D
             py == y % D
             px == x % D
             used == Image.comps[c].used
             turned == t.op \in Transposes
             row == SourceRow(t.op, g, by)
             col == SourceColumn(t.op, g, bx)
             qx == IF t.op \in HFlips /\ bx + g.x < g.w THEN D - 1 - px ELSE px
             qy == IF t.op \in VFlips /\ by + g.y < g.h THEN D - 1 - py ELSE py
             h == f.comps[c].h
             v == f.comps[c].v
  <1>1. /\ MaxH(f) \in Nat \ {0} /\ MaxV(f) \in Nat \ {0} /\ h \in Nat \ {0} /\ v \in Nat \ {0}
    <2>1. MaxH(f) \in 1 .. 4 /\ MaxV(f) \in 1 .. 4 /\ h \in 1 .. 4 /\ v \in 1 .. 4
      BY FrameFacts
    <2> QED
      BY <2>1
  <1>2. i.width \in Nat /\ i.height \in Nat /\ i.x \in Nat /\ i.y \in Nat
    BY RequestedIs
  <1>3. f.width = i.width /\ f.height = i.height
    BY DEF FrameIs
  <1>4. bx \in Nat /\ bx < WidthInBlocks(f, c) /\ px \in Index
    <2>1. PICK n \in Nat, m \in Nat \ {0} : n = f.width * h /\ m = MaxH(f)
      BY <1>1, <1>2, <1>3
    <2>2. x < DivUp(n, m)
      BY <2>1 DEF SamplesAcross
    <2>3. x \div D \in Nat /\ x \div D < DivUp(n, m * D) /\ x % D \in Index
      BY <2>2, BlockOfSample
    <2> QED
      BY <2>1, <2>3 DEF WidthInBlocks
  <1>5. by \in Nat /\ by < HeightInBlocks(f, c) /\ py \in Index
    <2>1. PICK n \in Nat, m \in Nat \ {0} : n = f.height * v /\ m = MaxV(f)
      BY <1>1, <1>2, <1>3
    <2>2. y < DivUp(n, m)
      BY <2>1 DEF SamplesDown
    <2>3. y \div D \in Nat /\ y \div D < DivUp(n, m * D) /\ y % D \in Index
      BY <2>2, BlockOfSample
    <2> QED
      BY <2>1, <2>3 DEF HeightInBlocks
  <1>6. used \in Matrices
        /\ f.tables[f.comps[c].table] = IF turned THEN Transposed(used) ELSE used
    BY TableIs
  <1>7. /\ g.w \in Nat /\ g.h \in Nat /\ g.x \in Nat /\ g.y \in Nat /\ row \in Nat /\ col \in Nat
    BY <1>4, <1>5, SourceIs
  <1>8. SourceBlock(t.op, s, g, by, bx) \in Matrices
        /\ SourceBlock(t.op, s, g, by, bx)
           = IF turned THEN ImageBlock(c, col, row) ELSE ImageBlock(c, row, col)
    BY <1>4, <1>5, SourceBlockIs
  <1> DEFINE b == SourceBlock(t.op, s, g, by, bx)
             moved == Moved(t.op, s, g, by, bx)
  <1>9. /\ moved \in Matrices
        /\ IF turned THEN Sample(moved, Transposed(used), py, px) = Sample(b, used, qx, qy)
           ELSE Sample(moved, used, py, px) = Sample(b, used, qy, qx)
    <2>1. t.op \in Ops
      BY TransformFacts DEF Given
    <2> HIDE DEF s, g, by, bx, px, py, used
    <2>2. g.w \in Nat /\ g.h \in Nat /\ g.x \in Nat /\ g.y \in Nat /\ b \in Matrices /\ by \in Nat /\ bx \in Nat
      BY <1>4, <1>5, <1>7, <1>8
    <2>3. py \in Index /\ px \in Index /\ used \in Matrices
      BY <1>4, <1>5, <1>6
    <2>4. moved \in Matrices
      BY <2>1, <2>2, MovedType
    <2>5. PICK op \in Ops, a \in Nat, d \in Nat, z \in Matrices, m \in Index, n \in Index :
              op = t.op /\ a = by /\ d = bx /\ z = used /\ m = py /\ n = px
      BY <2>1, <2>2, <2>3, Zenon
    <2>6. SourceBlock(op, s, g, a, d) \in Matrices
      BY <2>2, <2>5
    <2>7. ASSUME op \in Transposes
          PROVE  Sample(Moved(op, s, g, a, d), Transposed(z), m, n)
             = Sample(SourceBlock(op, s, g, a, d), z, IF op \in HFlips /\ d + g.x < g.w THEN D - 1 - n ELSE n,
                      IF op \in VFlips /\ a + g.y < g.h THEN D - 1 - m ELSE m)
      BY <2>2, <2>6, <2>7, SampleTurned
    <2>8. ASSUME op \notin Transposes
          PROVE  Sample(Moved(op, s, g, a, d), z, m, n)
             = Sample(SourceBlock(op, s, g, a, d), z, IF op \in VFlips /\ a + g.y < g.h THEN D - 1 - m ELSE m,
                      IF op \in HFlips /\ d + g.x < g.w THEN D - 1 - n ELSE n)
      BY <2>2, <2>6, <2>8, SampleMirrored
    <2> QED
      BY <2>4, <2>5, <2>7, <2>8
  <1>10. qx \in Index /\ qy \in Index
    BY <1>4, <1>5, MirroredIndex
  <1> DEFINE S == IF turned THEN Sample(b, used, qx, qy) ELSE Sample(b, used, qy, qx)
             table == IF turned THEN Transposed(used) ELSE used
             k == IF t.filter = "doubles" THEN 2 ELSE 1
  <1>11. S \in Int /\ Sample(moved, table, py, px) = S /\ table \in Matrices
    <2>1. b \in Matrices
      BY <1>8
    <2> HIDE DEF b, moved, qx, qy, py, px, used
    <2> QED
      BY <1>6, <1>9, <1>10, <2>1, SampleType, BlocksAre
  <1>12. Decoded(f, c, y, x) = k * S
    <2>1. by \in 0 .. HeightInBlocks(f, c) - 1 /\ bx \in 0 .. WidthInBlocks(f, c) - 1
      <3>1. WidthInBlocks(f, c) \in Nat /\ HeightInBlocks(f, c) \in Nat
        BY <1>2, <1>3, FrameFacts, BlockCounts
      <3> QED
        BY <1>4, <1>5, <3>1
    <2>2. BlockIn(f, c, by, bx) = Doubled(t, moved)
      BY <2>1 DEF BlocksAreRight, RightBlock
    <2>3. Decoded(f, c, y, x) = Sample(Doubled(t, moved), table, py, px)
      BY <1>6, <2>2 DEF Decoded
    <2> HIDE DEF moved, S, py, px, table
    <2>4. moved \in Matrices
      BY <1>9
    <2>5. Sample(Doubled(t, moved), table, py, px) = k * S
      <3>1. CASE t.filter = "doubles"
        BY <1>4, <1>5, <1>11, <2>4, <3>1, SampleOfScaled DEF Doubled
      <3>2. CASE t.filter # "doubles"
        BY <1>11, <3>2 DEF Doubled
      <3> QED
        BY <3>1, <3>2
    <2> QED
      BY <2>3, <2>5
  <1> DEFINE across == x + ((i.x * (MaxH(f) * D)) * h) \div MaxH(f)
             down == y + ((i.y * (MaxV(f) * D)) * v) \div MaxV(f)
             right == IF t.op \in HFlips THEN MirroredIn(across, g.w * D) ELSE across
             below == IF t.op \in VFlips THEN MirroredIn(down, g.h * D) ELSE down
  <1>13. g.x = i.x * h /\ g.y = i.y * v /\ g.w = (u.width \div (MaxH(f) * D)) * h /\ g.h = (u.height \div (MaxV(f) * D)) * v
    BY DEF GeometryOf
  <1>14. across = x + g.x * D /\ down = y + g.y * D
    <2>1. ((i.x * (MaxH(f) * D)) * h) \div MaxH(f) = (i.x * h) * D
      <3>1. i.x \in Nat /\ MaxH(f) \in Nat \ {0} /\ h \in Nat \ {0}
        BY <1>1, <1>2, Zenon
      <3> HIDE DEF i, h
      <3> QED
        BY <3>1, CutOff, Zenon
    <2>2. ((i.y * (MaxV(f) * D)) * v) \div MaxV(f) = (i.y * v) * D
      <3>1. i.y \in Nat /\ MaxV(f) \in Nat \ {0} /\ v \in Nat \ {0}
        BY <1>1, <1>2, Zenon
      <3> HIDE DEF i, v
      <3> QED
        BY <3>1, CutOff, Zenon
    <2> QED
      BY <1>13, <2>1, <2>2, Zenon
  <1>15. right \div D = col /\ right % D = qx
    <2>1. PICK m \in BOOLEAN, e \in Nat, w \in Nat : m = (t.op \in HFlips) /\ e = g.x /\ w = g.w
      <3>1. (t.op \in HFlips) \in BOOLEAN
        OBVIOUS
      <3> QED
        BY <1>7, <3>1, Zenon
    <2>2. LET a == x + e * D
              n == IF m THEN MirroredIn(a, w * D) ELSE a
          IN /\ n \div D = Mirror(x \div D + e, w, m)
             /\ n % D = IF m /\ x \div D + e < w THEN D - 1 - (x % D) ELSE x % D
      BY PlaceIs
    <2> HIDE DEF across, g
    <2> QED
      BY <1>14, <2>1, <2>2, Zenon DEF SourceColumn
  <1>16. below \div D = row /\ below % D = qy
    <2>1. PICK m \in BOOLEAN, e \in Nat, w \in Nat : m = (t.op \in VFlips) /\ e = g.y /\ w = g.h
      <3>1. (t.op \in VFlips) \in BOOLEAN
        OBVIOUS
      <3> QED
        BY <1>7, <3>1, Zenon
    <2>2. LET a == y + e * D
              n == IF m THEN MirroredIn(a, w * D) ELSE a
          IN /\ n \div D = Mirror(y \div D + e, w, m)
             /\ n % D = IF m /\ y \div D + e < w THEN D - 1 - (y % D) ELSE y % D
      BY PlaceIs
    <2> HIDE DEF down, g
    <2> QED
      BY <1>14, <2>1, <2>2, Zenon DEF SourceRow
  <1>17. S = IF turned THEN Original(c, right, below) ELSE Original(c, below, right)
    <2>1. b = IF turned THEN ImageBlock(c, col, row) ELSE ImageBlock(c, row, col)
      BY <1>8
    <2> HIDE DEF b, col, row, qx, qy, right, below
    <2> QED
      BY <1>15, <1>16, <2>1 DEF Original
  <1>18. Belongs(t, f, c, i.x * (MaxH(f) * D), i.y * (MaxV(f) * D), y, x)
         = k * (IF turned THEN Original(c, right, below) ELSE Original(c, below, right))
    <2>1. /\ right = IF t.op \in HFlips THEN MirroredIn(across, (u.width \div (MaxH(f) * D)) * h * D) ELSE across
          /\ below = IF t.op \in VFlips THEN MirroredIn(down, (u.height \div (MaxV(f) * D)) * v * D) ELSE down
      BY <1>13, Zenon
    <2> HIDE DEF right, below, g
    <2> QED
      BY <2>1, Zenon DEF Belongs
  <1> QED
    BY <1>12, <1>17, <1>18

LEMMA FileIsTransform ==
    ASSUME NEW t, Given(t), ~IsRefused(t), NEW f, FrameIs(f, t), BlocksAreRight(f, t)
    PROVE  IsTransform(f, t)
  <1> DEFINE u == Uncropped(t)
             i == Requested(t)
             mcuW == MaxH(f) * D
             mcuH == MaxV(f) * D
             left == IF Crops(t) THEN (CropX(t, u) \div mcuW) * mcuW ELSE 0
             top == IF Crops(t) THEN (CropY(t, u) \div mcuH) * mcuH ELSE 0
             right == IF Crops(t) THEN CropX(t, u) + CropW(t, u) ELSE u.width
             bottom == IF Crops(t) THEN CropY(t, u) + CropH(t, u) ELSE u.height
             hor == IF t.trim /\ t.op \in HFlips THEN TRUE ELSE FALSE
             ver == IF t.trim /\ t.op \in VFlips THEN TRUE ELSE FALSE
  <1>1. mcuW = u.mcuW /\ mcuH = u.mcuH /\ mcuW \in Nat \ {0} /\ mcuH \in Nat \ {0} /\ Len(f.comps) = Num(t)
        /\ MaxH(f) \in 1 .. 4 /\ MaxV(f) \in 1 .. 4 /\ \A c \in Comps(f) : f.comps[c].h \in 1 .. 4 /\ f.comps[c].v \in 1 .. 4
    BY FrameFacts
  <1>2. /\ i.x = CropX(t, u) \div mcuW /\ i.y = CropY(t, u) \div mcuH /\ i.x \in Nat /\ i.y \in Nat
        /\ i.width \in Nat /\ i.height \in Nat
        /\ i.width = Kept(i.x * mcuW, CropX(t, u) + CropW(t, u) - i.x * mcuW, u.width, mcuW, hor)
        /\ i.height = Kept(i.y * mcuH, CropY(t, u) + CropH(t, u) - i.y * mcuH, u.height, mcuH, ver)
    BY <1>1, RequestedIs
  <1>3. /\ CropX(t, u) \in Nat /\ CropW(t, u) \in Nat /\ CropY(t, u) \in Nat /\ CropH(t, u) \in Nat
        /\ ~Crops(t) => /\ CropX(t, u) = 0 /\ CropW(t, u) = u.width
                        /\ CropY(t, u) = 0 /\ CropH(t, u) = u.height
    BY RegionIs
  <1>4. u.width \in Nat /\ u.height \in Nat
    BY UncroppedIs
  <1> HIDE DEF u, i, mcuW, mcuH
  <1>5. left = i.x * mcuW /\ top = i.y * mcuH
        /\ right = CropX(t, u) + CropW(t, u) /\ bottom = CropY(t, u) + CropH(t, u)
    <2>1. CASE Crops(t)
      BY <1>2, <2>1
    <2>2. CASE ~Crops(t)
      <3>1. 0 \div mcuW = 0 /\ 0 \div mcuH = 0
        <4>1. 0 \in Int /\ 0 \in 0 .. mcuW - 1 /\ 0 \in 0 .. mcuH - 1 /\ 0 * mcuW + 0 = 0 /\ 0 * mcuH + 0 = 0
          BY <1>1
        <4>2. (0 * mcuW + 0) \div mcuW = 0 /\ (0 * mcuH + 0) \div mcuH = 0
          <5>1. PICK z \in Int : z = 0
            OBVIOUS
          <5>2. z \in 0 .. mcuW - 1 /\ z \in 0 .. mcuH - 1
            BY <4>1, <5>1
          <5>3. (z * mcuW + z) \div mcuW = z /\ (z * mcuH + z) \div mcuH = z
            BY <1>1, <5>2, QuotientUnique, Zenon
          <5> QED
            BY <5>1, <5>3, Zenon
        <4> QED
          BY <4>1, <4>2
      <3>2. i.x = 0 /\ i.y = 0 /\ 0 * mcuW = 0 /\ 0 * mcuH = 0
        BY <1>1, <1>2, <1>3, <2>2, <3>1
      <3> QED
        BY <1>3, <1>4, <2>2, <3>2
    <2> QED
      BY <2>1, <2>2
  <1> HIDE DEF left, top, right, bottom
  <1>6. f.width = Kept(left, right - left, u.width, mcuW, t.trim /\ t.op \in HFlips)
    <2>1. Kept(left, right - left, u.width, mcuW, t.trim /\ t.op \in HFlips) = Kept(left, right - left, u.width, mcuW, hor)
      BY DEF Kept
    <2>2. f.width = i.width
      BY DEF FrameIs, i
    <2> QED
      <3>1. right - left = CropX(t, u) + CropW(t, u) - i.x * mcuW
        BY <1>1, <1>2, <1>3, <1>5
      <3>2. Kept(left, right - left, u.width, mcuW, hor) = i.width
        BY <1>2, <1>5, <3>1, Zenon
      <3> QED
        BY <2>1, <2>2, <3>2, Zenon
  <1>7. f.height = Kept(top, bottom - top, u.height, mcuH, t.trim /\ t.op \in VFlips)
    <2>1. Kept(top, bottom - top, u.height, mcuH, t.trim /\ t.op \in VFlips) = Kept(top, bottom - top, u.height, mcuH, ver)
      BY DEF Kept
    <2>2. f.height = i.height
      BY DEF FrameIs, i
    <2> QED
      <3>1. bottom - top = CropY(t, u) + CropH(t, u) - i.y * mcuH
        BY <1>1, <1>2, <1>3, <1>5
      <3>2. Kept(top, bottom - top, u.height, mcuH, ver) = i.height
        BY <1>2, <1>5, <3>1, Zenon
      <3> QED
        BY <2>1, <2>2, <3>2, Zenon
  <1>8. ASSUME NEW c \in Comps(f), NEW y \in 0 .. SamplesDown(f, c) - 1, NEW x \in 0 .. SamplesAcross(f, c) - 1
        PROVE  Decoded(f, c, y, x) = Belongs(t, f, c, left, top, y, x)
    <2>1. SamplesDown(f, c) \in Nat /\ SamplesAcross(f, c) \in Nat
      <3>1. PICK n \in Nat, m \in Nat, a \in Nat \ {0}, b \in Nat \ {0} :
                n = f.height * f.comps[c].v /\ m = f.width * f.comps[c].h /\ a = MaxV(f) /\ b = MaxH(f)
        <4>1. f.width \in Nat /\ f.height \in Nat
          BY <1>2 DEF FrameIs, i
        <4>2. MaxV(f) \in Nat \ {0} /\ MaxH(f) \in Nat \ {0} /\ f.comps[c].v \in Nat /\ f.comps[c].h \in Nat
          <5>1. MaxV(f) \in 1 .. 4 /\ MaxH(f) \in 1 .. 4 /\ f.comps[c].v \in 1 .. 4 /\ f.comps[c].h \in 1 .. 4
            BY <1>1, Zenon
          <5>2. \A k \in 1 .. 4 : k \in Nat /\ k \in Nat \ {0}
            OBVIOUS
          <5> QED
            BY <5>1, <5>2, Zenon
        <4>3. f.height * f.comps[c].v \in Nat /\ f.width * f.comps[c].h \in Nat
          BY <4>1, <4>2
        <4> QED
          BY <4>2, <4>3, Zenon
      <3>2. DivUp(n, a) \in Nat /\ DivUp(m, b) \in Nat
        BY DivUpIs
      <3> QED
        BY <3>1, <3>2 DEF SamplesDown, SamplesAcross
    <2>2. y \in Nat /\ y < SamplesDown(f, c) /\ x \in Nat /\ x < SamplesAcross(f, c)
      BY <2>1
    <2>3. Decoded(f, c, y, x) = Belongs(t, f, c, i.x * mcuW, i.y * mcuH, y, x)
      BY <2>2, PixelIs DEF i, mcuW, mcuH
    <2> QED
      BY <1>5, <2>3, Zenon
  <1> QED
    BY <1>1, <1>6, <1>7, <1>8 DEF IsTransform, u, mcuW, mcuH, left, top, right, bottom

-----------------------------------------------------------------------------
(* The places of a row of sequences that are joined.                       *)

LEMMA CountInduction ==
    ASSUME NEW n \in Nat \ {0}, NEW Good, 1 \in Good, \A k \in 1 .. n - 1 : k \in Good => k + 1 \in Good
    PROVE  \A k \in 1 .. n : k \in Good
  <1> DEFINE Bad == {k \in 1 .. n : k \notin Good}
  <1> SUFFICES ASSUME Bad # {}
               PROVE  FALSE
    OBVIOUS
  <1>1. Bad \in SUBSET Nat
    OBVIOUS
  <1>2. PICK m \in Bad : \A k \in Bad : m <= k
    <2> HIDE DEF Bad
    <2> QED
      BY <1>1, LeastNat
  <1>3. m \in 2 .. n
    BY <1>2
  <1>4. m - 1 \in 1 .. n - 1 /\ m - 1 \notin Bad /\ (m - 1) + 1 = m
    BY <1>2, <1>3
  <1>5. m - 1 \in Good
    BY <1>4
  <1> QED
    BY <1>2, <1>4, <1>5

(* FlattenSeq is a recursion; there is a function that satisfies it.       *)
Joined(a, b) == a \o b
JoinsUpTo(g, s, n) == g[1] = s[1] /\ \A k \in 2 .. n : g[k] = Joined(g[k - 1], s[k])

LEMMA FlattenIs ==
    ASSUME NEW s, NEW n \in Nat \ {0}, Len(s) = n
    PROVE  \E g : FlattenSeq(s) = g[n] /\ JoinsUpTo(g, s, n)
  <1> DEFINE Good == {k \in Nat : \E g : JoinsUpTo(g, s, k)}
  <1>1. 1 \in Good
    <2>1. JoinsUpTo([k \in {1} |-> s[1]], s, 1)
      BY DEF JoinsUpTo
    <2> QED
      BY <2>1
  <1>2. ASSUME NEW k \in 1 .. n - 1, k \in Good
        PROVE  k + 1 \in Good
    <2>1. PICK g : JoinsUpTo(g, s, k)
      BY <1>2
    <2> DEFINE h == [m \in 1 .. k + 1 |-> IF m <= k THEN g[m] ELSE Joined(g[k], s[k + 1])]
    <2>2. h[1] = s[1]
      BY <2>1 DEF JoinsUpTo
    <2>3. ASSUME NEW m \in 2 .. k + 1
          PROVE  h[m] = Joined(h[m - 1], s[m])
      <3>1. CASE m <= k
        BY <2>1, <3>1 DEF JoinsUpTo
      <3>2. CASE m = k + 1
        BY <3>2
      <3> QED
        BY <3>1, <3>2
    <2> HIDE DEF h
    <2>4. JoinsUpTo(h, s, k + 1)
      BY <2>2, <2>3 DEF JoinsUpTo
    <2> QED
      BY <2>4
  <1>3. n \in Good
    <2>1. \A k \in 1 .. n - 1 : k \in Good => k + 1 \in Good
      BY <1>2
    <2> HIDE DEF Good
    <2>2. \A k \in 1 .. n : k \in Good
      BY <1>1, <2>1, CountInduction, Zenon
    <2> QED
      BY <2>2
  <1>4. PICK g : JoinsUpTo(g, s, n)
    BY <1>3
  <1> DEFINE Steps(f) == [k \in 1 .. n |-> IF k = 1 THEN s[k] ELSE Joined(f[k - 1], s[k])]
             h == [k \in 1 .. n |-> g[k]]
             chosen == CHOOSE f : f = Steps(f)
  <1>5. h = Steps(h)
    <2>1. ASSUME NEW k \in 1 .. n
          PROVE  g[k] = IF k = 1 THEN s[k] ELSE Joined(h[k - 1], s[k])
      BY <1>4 DEF JoinsUpTo
    <2> QED
      BY <2>1
  <1> HIDE DEF h
  <1>6. chosen = Steps(chosen)
    BY <1>5, Zenon
  <1>7. FlattenSeq(s) = chosen[n]
    <2>1. Len(s) # 0 /\ Len(s) = n
      OBVIOUS
    <2> QED
      BY <2>1, Zenon DEF FlattenSeq, Joined
  <1> HIDE DEF chosen
  <1>8. \A k \in 1 .. n : chosen[k] = IF k = 1 THEN s[k] ELSE Joined(chosen[k - 1], s[k])
    BY <1>6, Zenon
  <1>9. JoinsUpTo(chosen, s, n)
    BY <1>8 DEF JoinsUpTo
  <1> QED
    BY <1>7, <1>9

(* Element j of sequence k lies behind before[k] others.                   *)
InPlaces(flat, s, before, n) ==
    /\ DOMAIN flat = 1 .. before[n + 1]
    /\ \A k \in 1 .. n : \A j \in 1 .. Len(s[k]) :
           before[k] + j \in DOMAIN flat /\ flat[before[k] + j] = s[k][j]

LEMMA JoinedPlaces ==
    ASSUME NEW M, NEW n \in Nat \ {0}, NEW s \in [1 .. n -> Seq(M)], Len(s) = n, NEW before \in [1 .. n + 1 -> Nat],
           before[1] = 0, \A k \in 1 .. n : before[k + 1] = before[k] + Len(s[k])
    PROVE  InPlaces(FlattenSeq(s), s, before, n)
  <1>shift. \A p \in Nat, q \in Nat, r \in Nat, j \in Int : r = p + q /\ j \in 1 .. q => p + j \in 1 .. r
    OBVIOUS
  <1>below. \A p \in Nat, q \in Nat, r \in Nat : r = p + q => \A z \in 1 .. p : z \in 1 .. r
    OBVIOUS
  <1>1. PICK g : FlattenSeq(s) = g[n] /\ JoinsUpTo(g, s, n)
    BY FlattenIs
  <1> DEFINE Right(m) ==
                 /\ g[m] \in Seq(M) /\ Len(g[m]) = before[m + 1]
                 /\ \A k \in 1 .. m : \A j \in 1 .. Len(s[k]) :
                        before[k] + j \in 1 .. before[m + 1] /\ g[m][before[k] + j] = s[k][j]
             Good == {m \in 1 .. n : Right(m)}
  <1>2. 1 \in Good
    <2>1. g[1] = s[1] /\ s[1] \in Seq(M) /\ 1 \in 1 .. n
      BY <1>1 DEF JoinsUpTo
    <2>2. Len(s[1]) \in Nat /\ before[1 + 1] = before[1] + Len(s[1])
      BY <2>1
    <2>3. before[2] = Len(s[1])
      BY <2>2
    <2>4. \A k \in 1 .. 1 : \A j \in 1 .. Len(s[k]) : before[k] + j = j /\ k = 1
      BY <2>2
    <2> QED
      BY <2>1, <2>2, <2>3, <2>4
  <1>3. ASSUME NEW m \in 1 .. n - 1, m \in Good
        PROVE  m + 1 \in Good
    <2> DEFINE a == g[m]
               b == s[m + 1]
    <2>0. m + 1 \in 2 .. n /\ m + 1 \in 1 .. n /\ (m + 1) - 1 = m /\ m \in 1 .. n
      OBVIOUS
    <2>1. g[m + 1] = a \o b /\ b \in Seq(M) /\ a \in Seq(M) /\ m + 1 \in 1 .. n
      BY <1>1, <1>3, <2>0 DEF JoinsUpTo, Joined
    <2>2. Len(a) = before[m + 1] /\ Len(b) \in Nat /\ Len(a) \in Nat /\ before[(m + 1) + 1] = before[m + 1] + Len(b)
      <3>1. Len(a) = before[m + 1] /\ Len(a) \in Nat /\ Len(b) \in Nat
        <4>1. Len(a) = before[m + 1]
          BY <1>3
        <4> HIDE DEF a, b
        <4> QED
          BY <2>1, <4>1
      <3>2. before[(m + 1) + 1] = before[m + 1] + Len(s[m + 1])
        BY <2>0
      <3> QED
        BY <3>1, <3>2
    <2>3. a \o b \in Seq(M) /\ Len(a \o b) = Len(a) + Len(b)
          /\ (\A j \in 1 .. Len(a) : (a \o b)[j] = a[j]) /\ (\A j \in 1 .. Len(b) : (a \o b)[Len(a) + j] = b[j])
      <3> HIDE DEF a, b
      <3>1. \A u, v \in Seq(M) : /\ u \o v \in Seq(M) /\ Len(u \o v) = Len(u) + Len(v)
                                 /\ \A j \in 1 .. Len(u) : (u \o v)[j] = u[j]
                                 /\ \A j \in 1 .. Len(v) : (u \o v)[Len(u) + j] = v[j]
        OBVIOUS
      <3> QED
        BY <2>1, <3>1
    <2> DEFINE c == a \o b
    <2> HIDE DEF a, b, c
    <2>7. PICK p \in Nat, q \in Nat, r \in Nat :
              p = Len(a) /\ q = Len(b) /\ r = before[(m + 1) + 1] /\ r = p + q /\ p = before[m + 1]
      <3>1. Len(a) + Len(b) \in Nat /\ before[(m + 1) + 1] = Len(a) + Len(b) /\ Len(a) = before[m + 1]
        BY <2>2
      <3> QED
        BY <2>2, <3>1, Zenon
    <2>4. c \in Seq(M) /\ Len(c) = before[(m + 1) + 1]
      BY <2>2, <2>3 DEF c
    <2>5. ASSUME NEW k \in 1 .. m + 1, NEW j \in 1 .. Len(s[k])
          PROVE  before[k] + j \in 1 .. before[(m + 1) + 1] /\ c[before[k] + j] = s[k][j]
      <3>1. CASE k = m + 1
        <4>1. before[k] = Len(a) /\ j \in 1 .. Len(b) /\ s[k] = b
          BY <2>2, <3>1 DEF b
        <4>2. c[Len(a) + j] = b[j]
          BY <2>3, <4>1 DEF c
        <4>3. p + j \in 1 .. r
          <5>1. j \in 1 .. q /\ j \in Int
            BY <2>7, <4>1
          <5> QED
            BY <1>shift, <2>7, <5>1, Zenon
        <4> QED
          BY <2>7, <4>1, <4>2, <4>3
      <3>2. CASE k \in 1 .. m
        <4>1. before[k] + j \in 1 .. before[m + 1] /\ a[before[k] + j] = s[k][j]
          BY <1>3, <3>2 DEF a
        <4>2. c[before[k] + j] = a[before[k] + j]
          BY <2>2, <2>3, <4>1 DEF c
        <4>3. before[k] + j \in 1 .. before[(m + 1) + 1]
          <5>1. before[k] + j \in 1 .. p
            BY <2>7, <4>1
          <5>2. before[k] + j \in 1 .. r
            BY <1>below, <2>7, <5>1, Zenon
          <5> QED
            BY <2>7, <5>2, Zenon
        <4> QED
          BY <2>7, <4>1, <4>2, <4>3
      <3> QED
        BY <3>1, <3>2
    <2>6. g[m + 1] = c
      BY <2>1 DEF c
    <2> QED
      BY <2>0, <2>4, <2>5, <2>6
  <1>4. n \in Good
    <2>1. \A k \in 1 .. n - 1 : k \in Good => k + 1 \in Good
      BY <1>3
    <2> HIDE DEF Good
    <2>2. \A k \in 1 .. n : k \in Good
      BY <1>2, <2>1, CountInduction, Zenon
    <2> QED
      BY <2>2
  <1> DEFINE flat == FlattenSeq(s)
  <1>5. flat = g[n] /\ flat \in Seq(M) /\ Len(flat) = before[n + 1]
    <2>1. Right(n)
      <3> HIDE DEF Right
      <3> QED
        BY <1>4, Zenon
    <2> QED
      BY <1>1, <2>1, Zenon
  <1>6. \A k \in 1 .. n : \A j \in 1 .. Len(s[k]) :
            before[k] + j \in 1 .. before[n + 1] /\ flat[before[k] + j] = s[k][j]
    <2>1. Right(n)
      <3> HIDE DEF Right
      <3> QED
        BY <1>4, Zenon
    <2> HIDE DEF flat
    <2> QED
      BY <1>5, <2>1, Zenon
  <1> HIDE DEF flat
  <1>7. DOMAIN flat = 1 .. before[n + 1]
    BY <1>5
  <1>8. InPlaces(flat, s, before, n)
    BY <1>6, <1>7, Zenon DEF InPlaces
  <1> QED
    BY <1>8 DEF flat

-----------------------------------------------------------------------------
(* A block of a file is the one of the arrays it was written from.         *)

LEMMA BeforeIs ==
    ASSUME NEW f, NEW n \in Nat \ {0}, Comps(f) = 1 .. n,
           \A c \in Comps(f) : f.comps[c].h \in 1 .. 4 /\ f.comps[c].v \in 1 .. 4
    PROVE  /\ Before(f, 1) = 0 /\ \A c \in 1 .. n + 1 : Before(f, c) \in Nat
           /\ \A c \in 1 .. n : Before(f, c + 1) = Before(f, c) + f.comps[c].h * f.comps[c].v
  <1> DEFINE w == [b \in 1 .. n |-> f.comps[b].h * f.comps[b].v]
             sum(T) == SumFunctionOnSet(w, T)
  <1>1. \A b \in 1 .. n : w[b] \in Nat /\ w[b] = f.comps[b].h * f.comps[b].v
    <2> TAKE b \in 1 .. n
    <2>1. PICK h \in Nat, v \in Nat : h = f.comps[b].h /\ v = f.comps[b].v
      <3>1. f.comps[b].h \in 1 .. 4 /\ f.comps[b].v \in 1 .. 4
        BY Zenon
      <3> QED
        BY <3>1
    <2>2. h * v \in Nat
      OBVIOUS
    <2> QED
      BY <2>1, <2>2
  <1>2. ASSUME NEW c \in 1 .. n + 1
        PROVE  Before(f, c) = sum(1 .. c - 1) /\ IsFiniteSet(1 .. c - 1) /\ sum(1 .. c - 1) \in Nat
    <2> DEFINE S == 1 .. c - 1
               v == [b \in S |-> f.comps[b].h * f.comps[b].v]
    <2>1. IsFiniteSet(S)
      <3>1. c - 1 \in Int
        OBVIOUS
      <3> QED
        BY <3>1, FS_Interval
    <2>2. \A b \in S : w[b] \in Int /\ v[b] = w[b] /\ w[b] \in Nat
      BY <1>1
    <2>3. Before(f, c) = SumFunctionOnSet(v, S)
      <3>1. Before(f, c) = FoldSeq(+, 0, v) /\ DOMAIN v = S
        BY DEF Before
      <3> HIDE DEF v
      <3> QED
        BY <3>1, FoldIsSum
    <2> HIDE DEF v, S, w
    <2>4. SumFunctionOnSet(v, S) = SumFunctionOnSet(w, S)
      BY <2>1, <2>2, SumSame
    <2>5. SumFunctionOnSet(w, S) \in Nat
      <3>1. 0 \in Nat /\ \A i, j \in Nat : i + j \in Nat
        OBVIOUS
      <3> QED
        BY <2>1, <2>2, <3>1, SumType
    <2> QED
      BY <2>1, <2>3, <2>4, <2>5 DEF S
  <1>3. sum({}) = 0
    BY FS_EmptySet, SumUnfolds
  <1> HIDE DEF w
  <1>4. Before(f, 1) = 0
    <2>1. 1 \in 1 .. n + 1 /\ 1 .. 1 - 1 = {}
      OBVIOUS
    <2> QED
      BY <1>2, <1>3, <2>1
  <1>5. ASSUME NEW c \in 1 .. n
        PROVE  Before(f, c + 1) = Before(f, c) + f.comps[c].h * f.comps[c].v
    <2> DEFINE S == 1 .. c - 1
    <2>1. c \in 1 .. n + 1 /\ c + 1 \in 1 .. n + 1 /\ (c + 1) - 1 = c /\ 1 .. c = S \cup {c} /\ c \notin S
      OBVIOUS
    <2>2. IsFiniteSet(S) /\ Before(f, c) = sum(S) /\ Before(f, c + 1) = sum(1 .. c)
      BY <1>2, <2>1
    <2>3. (\A x \in S : w[x] \in Int) /\ w[c] \in Int
      BY <1>1
    <2> HIDE DEF S
    <2>4. sum(S \cup {c}) = w[c] + sum(S)
      BY <2>1, <2>2, <2>3, SumAdds
    <2>5. sum(S) \in Nat /\ w[c] \in Nat
      BY <1>1, <1>2, <2>1 DEF S
    <2>6. PICK a \in Nat, b \in Nat : a = sum(S) /\ b = w[c]
      BY <2>5, Zenon
    <2>7. b + a = a + b /\ b = f.comps[c].h * f.comps[c].v
      BY <1>1, <2>6
    <2> QED
      BY <2>1, <2>2, <2>4, <2>6, <2>7, Zenon
  <1>6. \A c \in 1 .. n + 1 : Before(f, c) \in Nat
    BY <1>2
  <1> QED
    BY <1>4, <1>5, <1>6

HasPlace(f, c, i, j) ==
    LET k == Before(f, c) + i * f.comps[c].h + j + 1
    IN k \in DOMAIN Places(f) /\ Places(f)[k] = [c |-> c, y |-> i, x |-> j]

LEMMA PlacesAre ==
    ASSUME NEW f, NEW n \in Nat \ {0}, Comps(f) = 1 .. n, Len(f.comps) = n, n # 1,
           \A c \in Comps(f) : f.comps[c].h \in 1 .. 4 /\ f.comps[c].v \in 1 .. 4,
           NEW c \in Comps(f), NEW i \in 0 .. f.comps[c].v - 1, NEW j \in 0 .. f.comps[c].h - 1
    PROVE  HasPlace(f, c, i, j)
  <1> DEFINE Record == [c : Comps(f), y : Int, x : Int]
             list(b) == [k \in 1 .. f.comps[b].h * f.comps[b].v |->
                            [c |-> b, y |-> (k - 1) \div f.comps[b].h, x |-> (k - 1) % f.comps[b].h]]
             lists == [b \in Comps(f) |-> list(b)]
             sums == [b \in 1 .. n + 1 |-> Before(f, b)]
  <1>1. Places(f) = FlattenSeq(lists)
    BY DEF Places
  <1>2. ASSUME NEW b \in Comps(f)
        PROVE  list(b) \in Seq(Record) /\ Len(list(b)) = f.comps[b].h * f.comps[b].v
    <2>1. PICK h \in Nat \ {0}, v \in Nat : h = f.comps[b].h /\ v = f.comps[b].v
      <3> HIDE DEF list, Record
      <3>1. f.comps[b].h \in 1 .. 4 /\ f.comps[b].v \in 1 .. 4
        OBVIOUS
      <3>2. \A k \in 1 .. 4 : k \in Nat \ {0} /\ k \in Nat
        OBVIOUS
      <3> QED
        BY <3>1, <3>2, Zenon
    <2>2. PICK m \in Nat : m = h * v
      OBVIOUS
    <2>3. \A k \in 1 .. m : (k - 1) \div h \in Int /\ (k - 1) % h \in Int
      OBVIOUS
    <2>4. list(b) = [k \in 1 .. m |-> [c |-> b, y |-> (k - 1) \div h, x |-> (k - 1) % h]]
      BY <2>1, <2>2
    <2>5. list(b) \in [1 .. m -> Record]
      BY <2>3, <2>4
    <2> HIDE DEF list, Record
    <2>6. list(b) \in Seq(Record) /\ Len(list(b)) = m
      BY <2>5
    <2> QED
      BY <2>1, <2>2, <2>6
  <1>3. lists \in [1 .. n -> Seq(Record)] /\ Len(lists) = n /\ \A b \in 1 .. n : lists[b] = list(b)
    <2> HIDE DEF list, Record
    <2>1. lists \in [1 .. n -> Seq(Record)] /\ \A b \in 1 .. n : lists[b] = list(b)
      BY <1>2
    <2> HIDE DEF lists
    <2> QED
      BY <2>1
  <1>4. /\ sums \in [1 .. n + 1 -> Nat] /\ sums[1] = 0
        /\ \A b \in 1 .. n : sums[b + 1] = sums[b] + Len(lists[b]) /\ sums[b] = Before(f, b)
    <2>1. /\ Before(f, 1) = 0 /\ \A b \in 1 .. n + 1 : Before(f, b) \in Nat
          /\ \A b \in 1 .. n : Before(f, b + 1) = Before(f, b) + f.comps[b].h * f.comps[b].v
      BY BeforeIs
    <2>2. \A b \in 1 .. n : Len(lists[b]) = f.comps[b].h * f.comps[b].v
      BY <1>2, <1>3
    <2> HIDE DEF list, Record, lists
    <2>3. \A b \in 1 .. n : b \in 1 .. n + 1 /\ b + 1 \in 1 .. n + 1
      OBVIOUS
    <2>4. \A b \in 1 .. n + 1 : sums[b] = Before(f, b)
      OBVIOUS
    <2>5. sums \in [1 .. n + 1 -> Nat] /\ sums[1] = 0
      BY <2>1
    <2> HIDE DEF sums
    <2> QED
      BY <2>1, <2>2, <2>3, <2>4, <2>5
  <1>5. InPlaces(FlattenSeq(lists), lists, sums, n)
    <2> HIDE DEF lists, sums, Record
    <2>1. \A k \in 1 .. n : sums[k + 1] = sums[k] + Len(lists[k])
      BY <1>4
    <2>2. lists \in [1 .. n -> Seq(Record)] /\ Len(lists) = n /\ sums \in [1 .. n + 1 -> Nat] /\ sums[1] = 0
      BY <1>3, <1>4
    <2> QED
      BY <2>1, <2>2, JoinedPlaces, Zenon
  <1> DEFINE flat == FlattenSeq(lists)
  <1>6. PICK h \in Nat \ {0}, v \in Nat \ {0} : h = f.comps[c].h /\ v = f.comps[c].v
    <2>1. f.comps[c].h \in 1 .. 4 /\ f.comps[c].v \in 1 .. 4
      OBVIOUS
    <2> QED
      BY <2>1
  <1>7. i * h + j + 1 \in 1 .. h * v /\ (i * h + j) \div h = i /\ (i * h + j) % h = j
    <2>1. i \in Nat /\ i + 1 <= v /\ j \in 0 .. h - 1
      BY <1>6
    <2>2. (i + 1) * h <= v * h /\ (i + 1) * h = i * h + h /\ i * h \in Nat /\ v * h = h * v /\ h * v \in Nat
      BY <2>1, ProductOrder
    <2>3. (i * h + j) \div h = i /\ (i * h + j) % h = j
      <3>1. i \in Int
        BY <2>1
      <3> QED
        BY <2>1, <3>1, QuotientUnique, Zenon
    <2> QED
      BY <2>1, <2>2, <2>3
  <1>8. PICK e \in Int, d \in Int : e = i * h + j + 1 /\ d = i * h + j /\ e - 1 = d
    <2>1. i * h \in Int /\ j \in Int
      <3>1. i \in Int /\ j \in Int
        OBVIOUS
      <3> QED
        BY <3>1
    <2>2. i * h + j + 1 \in Int /\ i * h + j \in Int /\ (i * h + j + 1) - 1 = i * h + j
      BY <2>1
    <2> QED
      BY <2>2, Zenon
  <1>9. lists[c][e] = [c |-> c, y |-> i, x |-> j] /\ e \in 1 .. Len(lists[c])
    <2>1. e \in 1 .. h * v /\ d \div h = i /\ d % h = j
      BY <1>7, <1>8, Zenon
    <2>2. lists[c] = list(c) /\ Len(lists[c]) = h * v
      BY <1>2, <1>3, <1>6
    <2>3. list(c)[e] = [c |-> c, y |-> (e - 1) \div h, x |-> (e - 1) % h]
      BY <1>6, <2>1
    <2> HIDE DEF list, lists, Record
    <2> QED
      BY <1>8, <2>1, <2>2, <2>3, Zenon
  <1>10. sums[c] = Before(f, c) /\ sums[c] \in Nat
    <2> HIDE DEF lists, Record, sums
    <2>1. c \in 1 .. n /\ c \in 1 .. n + 1
      OBVIOUS
    <2> QED
      BY <1>4, <1>5, <2>1
  <1> HIDE DEF lists, Record, sums, flat
  <1>11. sums[c] + e \in DOMAIN flat /\ flat[sums[c] + e] = [c |-> c, y |-> i, x |-> j]
    <2>1. c \in 1 .. n
      OBVIOUS
    <2> QED
      BY <1>5, <1>9, <2>1, Zenon DEF flat, InPlaces
  <1>12. sums[c] + e = Before(f, c) + i * f.comps[c].h + j + 1
    <2>1. PICK p \in Nat, q \in Nat : p = sums[c] /\ q = i * h
      BY <1>6, <1>10
    <2>2. e = q + j + 1 /\ p + (q + j + 1) = p + q + j + 1
      BY <1>8, <2>1
    <2> QED
      BY <1>6, <1>10, <2>1, <2>2, Zenon
  <1> QED
    BY <1>1, <1>11, <1>12, Zenon DEF flat, HasPlace

(* In one direction: which MCU a block is in, and where in it.             *)
InMcu(x, k, w) == x \div k \in 0 .. w - 1 /\ x % k \in 0 .. k - 1 /\ (x \div k) * k + (x % k) = x

LEMMA McuOf ==
    ASSUME NEW n \in Nat, NEW m \in Nat \ {0}, NEW k \in Nat \ {0}, NEW x \in Nat, x < DivUp(n * k, m)
    PROVE  InMcu(x, k, DivUp(n, m))
  <1>1. PICK q \in Nat, r \in 0 .. k - 1 : q = x \div k /\ r = x % k /\ x = q * k + r
    <2>1. x \in Int
      OBVIOUS
    <2> QED
      BY <2>1, QuotientIs, Zenon
  <1>2. PICK a \in Nat, w \in Nat : a = DivUp(n * k, m) /\ w = DivUp(n, m) /\ a <= w * k
    <2>1. n * k \in Nat
      OBVIOUS
    <2>2. \A a \in Nat : DivUp(a, m) \in Nat
      <3> TAKE a \in Nat
      <3>1. a \in Int
        OBVIOUS
      <3> QED
        BY <3>1, DivUpIs, Zenon
    <2> QED
      BY <2>1, <2>2, DivUpProduct, Zenon
  <1>3. q < w
    <2>1. x < w * k /\ q * k <= x
      BY <1>1, <1>2
    <2>2. q < w <=> q * k < w * k
      BY ProductOrder
    <2>3. q * k \in Nat /\ w * k \in Nat
      OBVIOUS
    <2> QED
      BY <2>1, <2>2, <2>3
  <1>4. q \in 0 .. w - 1
    BY <1>3
  <1> QED
    BY <1>1, <1>2, <1>4, Zenon DEF InMcu

LEMMA McuNumber ==
    ASSUME NEW w \in Nat, NEW h \in Nat, NEW row \in 0 .. h - 1, NEW col \in 0 .. w - 1
    PROVE  /\ row * w + col \in 0 .. w * h - 1
           /\ (row * w + col) \div w = row /\ (row * w + col) % w = col
  <1>1. w \in Nat \ {0} /\ row \in Nat /\ row + 1 <= h /\ col < w
    OBVIOUS
  <1>2. (row + 1) * w <= h * w /\ (row + 1) * w = row * w + w /\ h * w = w * h /\ row * w \in Nat /\ w * h \in Nat
    BY <1>1, ProductOrder
  <1>3. (row * w + col) \div w = row /\ (row * w + col) % w = col
    BY <1>1, QuotientUnique
  <1> QED
    BY <1>1, <1>2, <1>3

(* A file of one component has MCUs of one block, like any other of        *)
(* sampling factors of one.                                                *)
LEMMA FactorsOf ==
    ASSUME NEW t, Given(t), NEW f, FrameIs(f, t), f.width \in Nat, f.height \in Nat, NEW c \in Comps(f)
    PROVE  /\ McusPerRow(f) = DivUp(f.width, MaxH(f) * D) /\ McuRows(f) = DivUp(f.height, MaxV(f) * D)
           /\ Len(f.comps) = 1 => c = 1 /\ f.comps[c].h = 1 /\ f.comps[c].v = 1
           /\ Factor(f, c).h = f.comps[c].h /\ Factor(f, c).v = f.comps[c].v
           /\ f.comps[c].h \in Nat \ {0} /\ f.comps[c].v \in Nat \ {0}
  <1>1. Len(f.comps) = Num(t) /\ Comps(f) = 1 .. Num(t)
    BY FrameFacts
  <1>2. f.comps[c].h \in 1 .. 4 /\ f.comps[c].v \in 1 .. 4
    BY FrameFacts
  <1>3. CASE Num(t) = 1
    <2>1. c = 1 /\ 1 \in 1 .. Num(t)
      BY <1>1, <1>3
    <2>2. f.comps[1].h = 1 /\ f.comps[1].v = 1
      BY <1>3, <2>1, FactorsAre
    <2>3. f.width * 1 = f.width /\ f.height * 1 = f.height
      OBVIOUS
    <2>4. WidthInBlocks(f, 1) = DivUp(f.width, MaxH(f) * D) /\ HeightInBlocks(f, 1) = DivUp(f.height, MaxV(f) * D)
      BY <2>2, <2>3, Zenon DEF WidthInBlocks, HeightInBlocks
    <2> QED
      BY <1>1, <1>3, <2>1, <2>2, <2>4 DEF McusPerRow, McuRows, Factor
  <1>4. CASE Num(t) # 1
    BY <1>1, <1>2, <1>4 DEF McusPerRow, McuRows, Factor
  <1> QED
    BY <1>3, <1>4

LEMMA PlaceOf ==
    ASSUME NEW t, Given(t), NEW f, FrameIs(f, t), f.width \in Nat, f.height \in Nat, NEW c \in Comps(f),
           NEW i \in 0 .. f.comps[c].v - 1, NEW j \in 0 .. f.comps[c].h - 1
    PROVE  HasPlace(f, c, i, j)
  <1>1. Len(f.comps) = Num(t) /\ Comps(f) = 1 .. Num(t) /\ Num(t) \in Nat \ {0}
        /\ \A b \in Comps(f) : f.comps[b].h \in 1 .. 4 /\ f.comps[b].v \in 1 .. 4
    BY FrameFacts, NumIs
  <1>2. CASE Num(t) = 1
    <2>1. c = 1 /\ f.comps[c].h = 1 /\ f.comps[c].v = 1
      BY <1>1, <1>2, FactorsOf
    <2>2. i = 0 /\ j = 0 /\ i * f.comps[c].h = 0
      BY <2>1
    <2>3. Before(f, 1) = 0
      BY <1>1, BeforeIs
    <2>4. Before(f, c) + i * f.comps[c].h + j + 1 = 1
      BY <2>1, <2>2, <2>3
    <2>5. Places(f) = <<[c |-> 1, y |-> 0, x |-> 0]>>
      BY <1>1, <1>2 DEF Places
    <2> QED
      BY <2>1, <2>2, <2>4, <2>5 DEF HasPlace
  <1>3. CASE Num(t) # 1
    <2>1. PICK n \in Nat \ {0} : n = Num(t)
      BY <1>1
    <2>2. Comps(f) = 1 .. n /\ Len(f.comps) = n /\ n # 1
      BY <1>1, <1>3, <2>1
    <2>3. \A b \in Comps(f) : f.comps[b].h \in 1 .. 4 /\ f.comps[b].v \in 1 .. 4
      BY <1>1
    <2> QED
      BY <2>2, <2>3, PlacesAre, Zenon
  <1> QED
    BY <1>2, <1>3

LEMMA WrittenBlock ==
    ASSUME NEW t, Given(t), FrameIs(cinfo, t), cinfo.width \in Nat, cinfo.height \in Nat,
           NEW arrays, NEW c \in Comps(cinfo),
           NEW y \in Nat, y < HeightInBlocks(cinfo, c), NEW x \in Nat, x < WidthInBlocks(cinfo, c)
    PROVE  BlockIn(Written(arrays), c, y, x) = arrays[c][y][x]
  <1> DEFINE f == Written(arrays)
             W == McusPerRow(cinfo)
             R == McuRows(cinfo)
             h == cinfo.comps[c].h
             v == cinfo.comps[c].v
             row == y \div v
             col == x \div h
             i == y % v
             j == x % h
             n == row * W + col
             k == Before(cinfo, c) + i * h + j + 1
  <1>1. /\ f.comps = cinfo.comps /\ f.width = cinfo.width /\ f.height = cinfo.height
        /\ f.mcus = [m \in 0 .. W * R - 1 |-> Mcu(arrays, m \div W, m % W)]
    BY DEF Written
  <1>2. /\ W = DivUp(cinfo.width, MaxH(cinfo) * D) /\ R = DivUp(cinfo.height, MaxV(cinfo) * D)
        /\ Factor(cinfo, c).h = h /\ Factor(cinfo, c).v = v
        /\ h \in Nat \ {0} /\ v \in Nat \ {0}
        /\ Len(cinfo.comps) = 1 => h = 1 /\ v = 1
    BY FactorsOf
  <1>3. MaxH(cinfo) * D \in Nat \ {0} /\ MaxV(cinfo) * D \in Nat \ {0}
    BY FrameFacts
  <1>4. col \in 0 .. W - 1 /\ j \in 0 .. h - 1 /\ col * h + j = x
    <2>1. PICK a \in Nat, m \in Nat \ {0}, b \in Nat \ {0} : a = cinfo.width /\ m = MaxH(cinfo) * D /\ b = h
      BY <1>2, <1>3, Zenon
    <2>2. x < DivUp(a * b, m)
      BY <2>1 DEF WidthInBlocks
    <2>3. InMcu(x, b, DivUp(a, m))
      BY <2>2, McuOf, Zenon
    <2> QED
      BY <1>2, <2>1, <2>3, Zenon DEF InMcu
  <1>5. row \in 0 .. R - 1 /\ i \in 0 .. v - 1 /\ row * v + i = y
    <2>1. PICK a \in Nat, m \in Nat \ {0}, b \in Nat \ {0} : a = cinfo.height /\ m = MaxV(cinfo) * D /\ b = v
      BY <1>2, <1>3, Zenon
    <2>2. y < DivUp(a * b, m)
      BY <2>1 DEF HeightInBlocks
    <2>3. InMcu(y, b, DivUp(a, m))
      BY <2>2, McuOf, Zenon
    <2> QED
      BY <1>2, <2>1, <2>3, Zenon DEF InMcu
  <1>6. n \in 0 .. W * R - 1 /\ n \div W = row /\ n % W = col
    <2>1. W \in Nat /\ R \in Nat
      <3>1. \A a \in Nat, m \in Nat \ {0} : DivUp(a, m) \in Nat
        <4> TAKE a \in Nat, m \in Nat \ {0}
        <4>1. a \in Int
          OBVIOUS
        <4> QED
          BY <4>1, DivUpIs, Zenon
      <3> QED
        BY <1>2, <1>3, <3>1, Zenon
    <2> HIDE DEF W, R, row, col
    <2> QED
      BY <1>4, <1>5, <2>1, McuNumber
  <1>7. k \in DOMAIN Places(cinfo) /\ Places(cinfo)[k] = [c |-> c, y |-> i, x |-> j]
    <2>1. HasPlace(cinfo, c, i, j)
      <3> HIDE DEF i, j
      <3> QED
        BY <1>4, <1>5, PlaceOf
    <2> QED
      BY <2>1, Zenon DEF HasPlace
  <1>8. Mcu(arrays, row, col)[k] = arrays[c][y][x]
    <2> HIDE DEF row, col, i, j, k
    <2> DEFINE place == [c |-> c, y |-> i, x |-> j]
               step(d) == IF Len(cinfo.comps) = 1 THEN [h |-> 1, v |-> 1] ELSE cinfo.comps[d]
               real(q) == LET p == Places(cinfo)[q] IN
                   row * step(p.c).v + p.y < HeightInBlocks(cinfo, p.c) /\ col * step(p.c).h + p.x < WidthInBlocks(cinfo, p.c)
               block(p) == arrays[p.c][row * step(p.c).v + p.y][col * step(p.c).h + p.x]
    <2>1. step(c).h = h /\ step(c).v = v
      BY <1>2
    <2>2. place.c = c /\ place.y = i /\ place.x = j
      OBVIOUS
    <2> HIDE DEF place, step
    <2>3. real(k)
      BY <1>4, <1>5, <1>7, <2>1, <2>2 DEF place
    <2>4. block(Places(cinfo)[k]) = arrays[c][y][x]
      BY <1>4, <1>5, <1>7, <2>1, <2>2 DEF place
    <2>5. Mcu(arrays, row, col)[k] = block(Places(cinfo)[k])
      BY <1>7, <2>3, Zenon DEF Mcu, step
    <2> QED
      BY <2>4, <2>5
  <1>9. /\ Factor(f, c) = Factor(cinfo, c) /\ McusPerRow(f) = W /\ Before(f, c) = Before(cinfo, c)
    <2> HIDE DEF f
    <2>1. Comps(f) = Comps(cinfo) /\ Factor(f, c) = Factor(cinfo, c)
      BY <1>1 DEF Comps, Factor
    <2>2. MaxH(f) = MaxH(cinfo)
      <3> DEFINE largest(cs) == Max({cs[b].h : b \in DOMAIN cs})
      <3>1. MaxH(f) = largest(f.comps) /\ MaxH(cinfo) = largest(cinfo.comps)
        BY Zenon DEF MaxH, Comps
      <3> HIDE DEF largest
      <3> QED
        BY <1>1, <3>1
    <2>3. Before(f, c) = Before(cinfo, c)
      <3> DEFINE count(cs) == FoldSeq(+, 0, [b \in 1 .. c - 1 |-> cs[b].h * cs[b].v])
      <3>1. Before(f, c) = count(f.comps) /\ Before(cinfo, c) = count(cinfo.comps)
        BY Zenon DEF Before
      <3> HIDE DEF count
      <3> QED
        BY <1>1, <3>1
    <2>4. McusPerRow(f) = W
      BY <1>1, <2>2 DEF McusPerRow, WidthInBlocks
    <2> QED
      BY <2>1, <2>3, <2>4
  <1>10. BlockIn(f, c, y, x) = f.mcus[n][k]
    <2> HIDE DEF f, W
    <2>1. BlockIn(f, c, y, x)
          = f.mcus[(y \div Factor(f, c).v) * McusPerRow(f) + x \div Factor(f, c).h]
                  [Before(f, c) + (y % Factor(f, c).v) * Factor(f, c).h + (x % Factor(f, c).h) + 1]
      BY Zenon DEF BlockIn
    <2> QED
      BY <1>2, <1>9, <2>1, Zenon
  <1>11. f.mcus[n] = Mcu(arrays, row, col)
    <2> HIDE DEF f, W, R, n, row, col
    <2> QED
      BY <1>1, <1>6, Zenon
  <1> QED
    BY <1>8, <1>10, <1>11, Zenon

-----------------------------------------------------------------------------
(* The state of a client between its calls.                                *)

Transformation(k) == job.transforms[k]
Every == DOMAIN job.transforms

(* Arrays of as many rows and columns.                                     *)
Alike(v, w) ==
    /\ DOMAIN v = DOMAIN w
    /\ \A c \in DOMAIN w : /\ DOMAIN v[c] = DOMAIN w[c]
                          /\ \A y \in DOMAIN w[c] : DOMAIN v[c][y] = DOMAIN w[c][y]

Prepared(k) ==
    LET t == Transformation(k) IN
    /\ ~IsRefused(t) /\ info[k] = Requested(t)
    /\ info[k].work => Alike(work[k], Workspace(t, Requested(t)))

AllPrepared ==
    /\ pc = "header" => nth = 1
    /\ pc = "request" => \A k \in 1 .. nth - 1 : Prepared(k)
    /\ pc \in {"read", "adjust", "write", "move", "finish"} => \A k \in Every : Prepared(k)

FrameTold == pc \in {"write", "move", "finish"} => FrameIs(cinfo, Asked)

Pristine == coefs = Coefficients(Image)
ImageKept == pc \in {"adjust", "write"} /\ Unfiltered(nth) => Pristine

(* Of the blocks of the file, those of the rows that are done.             *)
Result == IF info[nth].work THEN work[nth] ELSE coefs
BlockRows(c) == 0 .. HeightInBlocks(cinfo, c) - 1
BlockColumns(c) == 0 .. WidthInBlocks(cinfo, c) - 1
MovedBlock(t, c, y, x) == Moved(t.op, Coefficients(Image)[c], GeometryOf(cinfo, t, c), y, x)
RowIsDone(c, y) == c < at.c \/ (c = at.c /\ y < at.row)
DoneAreMoved ==
    \A c \in Comps(cinfo) : \A y \in BlockRows(c), x \in BlockColumns(c) :
        RowIsDone(c, y) => Result[c][y][x] = MovedBlock(Asked, c, y, x)

(* A row that is mirrored in place is as it was until then.                *)
OthersAreKept ==
    /\ Alike(coefs, Coefficients(Image))
    /\ \A c \in Comps(cinfo) : \A y \in BlockRows(c) :
           ~RowIsDone(c, y) => coefs[c][y] = Coefficients(Image)[c][y]

MovesAreRight ==
    Unfiltered(nth) =>
        /\ info[nth].work \/ Asked.op = "NONE" => Pristine
        /\ MovesAnything => DoneAreMoved
        /\ MovesAnything /\ ~info[nth].work => OthersAreKept
Moving == pc = "move" => at \in [c : Nat \ {0}, row : Nat] /\ MovesAreRight

(* With every row done, and filtered.                                      *)
AllMoves(t) ==
    \A c \in Comps(cinfo) : \A y \in BlockRows(c), x \in BlockColumns(c) :
        Result[c][y][x] = MovedBlock(t, c, y, x)
ResultIsRight(t) ==
    \A c \in Comps(cinfo) : \A y \in BlockRows(c), x \in BlockColumns(c) :
        Result[c][y][x] = RightBlock(cinfo, t, c, y, x)
Made == Unfiltered(nth) => (info[nth].work => Pristine) /\ ResultIsRight(Asked)
AllMade == pc = "finish" => Asked.filter = "doubles" /\ Made

JobTyped ==
    /\ job \in Jobs /\ nth \in Every
    /\ DOMAIN info = Every /\ DOMAIN work = Every /\ DOMAIN outs = Every

TransformInv ==
    /\ JobTyped /\ AllPrepared /\ FrameTold /\ ImageKept /\ Moving /\ AllMade
    /\ OutputsAreTransforms

LEMMA JobFacts ==
    ASSUME job \in Jobs
    PROVE  /\ Len(job.transforms) \in Nat \ {0} /\ Every = 1 .. Len(job.transforms)
           /\ \A k \in Every : Given(Transformation(k))
           /\ job.client = "jpegtran" => Len(job.transforms) = 1
           /\ job.client \in {"jpegtran", "tjTransform"}
  BY JobsAssumption DEF Every, Given, Transformation

-----------------------------------------------------------------------------
(* What follows from the job alone does not change.                        *)

LEMMA SameUncropped ==
    ASSUME UNCHANGED job, NEW t
    PROVE  /\ Image' = Image /\ Num(t)' = Num(t) /\ Uncropped(t)' = Uncropped(t)
           /\ MaxH(Image)' = MaxH(Image) /\ MaxV(Image)' = MaxV(Image)
  <1>1. Image' = Image
    BY DEF Image
  <1>2. Num(t)' = Num(t)
    BY <1>1 DEF Num
  <1>3. MaxH(Image)' = MaxH(Image) /\ MaxV(Image)' = MaxV(Image)
    BY <1>1 DEF MaxH, MaxV, Comps
  <1>4. Uncropped(t)' = Uncropped(t)
    BY <1>1, <1>2, <1>3 DEF Uncropped
  <1> QED
    BY <1>1, <1>2, <1>3, <1>4

LEMMA SameRequest ==
    ASSUME UNCHANGED job, NEW t
    PROVE  Requested(t)' = Requested(t) /\ IsRefused(t)' = IsRefused(t)
  <1>1. /\ Image' = Image /\ Num(t)' = Num(t) /\ Uncropped(t)' = Uncropped(t)
        /\ MaxH(Image)' = MaxH(Image) /\ MaxV(Image)' = MaxV(Image)
    BY SameUncropped
  <1>2. \A i : Needed(t, i)' = Needed(t, i)
    BY DEF Needed, SlowHFlip
  <1>3. Requested(t)' = Requested(t)
    BY <1>1, <1>2 DEF Requested
  <1>4. IsPerfect(t)' = IsPerfect(t)
    BY <1>1 DEF IsPerfect
  <1>5. \A i : Aligned(t, i)' = Aligned(t, i)
    BY DEF Aligned
  <1>6. IsRefused(t)' = IsRefused(t)
    BY <1>1, <1>3, <1>4, <1>5 DEF IsRefused
  <1> QED
    BY <1>3, <1>6

LEMMA SameWorkspace ==
    ASSUME UNCHANGED job, NEW t, NEW i
    PROVE  Workspace(t, i)' = Workspace(t, i) /\ \A c : Factors(t, c)' = Factors(t, c)
  <1>1. Image' = Image /\ Num(t)' = Num(t)
    BY SameUncropped
  <1>2. \A c : Factors(t, c)' = Factors(t, c)
    BY <1>1 DEF Factors
  <1>3. Workspace(t, i)' = Workspace(t, i)
    BY <1>1, <1>2 DEF Workspace
  <1> QED
    BY <1>2, <1>3

LEMMA SameFrame ==
    ASSUME UNCHANGED job, NEW f, NEW t
    PROVE  FrameIs(f, t)' = FrameIs(f, t)
  <1> DEFINE comps == [c \in 1 .. Num(t) |->
                         [h |-> Factors(t, c).h, v |-> Factors(t, c).v, table |-> Image.comps[c].table]]
             tables == [s \in DOMAIN Image.tables |-> Transposed(Image.tables[s])]
  <1>1. /\ Image' = Image /\ Num(t)' = Num(t) /\ MaxH(Image)' = MaxH(Image) /\ MaxV(Image)' = MaxV(Image)
        /\ Requested(t)' = Requested(t)
    BY SameUncropped, SameRequest
  <1>2. Mismatched' = Mismatched
    BY <1>1 DEF Mismatched, Comps
  <1>3. comps' = comps
    BY <1>1, SameWorkspace
  <1>4. tables' = tables
    BY <1>1
  <1>5. FrameIs(f, t)
        <=> /\ f.width = Requested(t).width /\ f.height = Requested(t).height /\ f.comps = comps
            /\ f.tables = IF t.op \in Transposes THEN tables ELSE Image.tables
            /\ ~Mismatched
            /\ Num(t) = 1 => Image.comps[1].h = MaxH(Image) /\ Image.comps[1].v = MaxV(Image)
    BY DEF FrameIs
  <1>6. FrameIs(f, t)'
        <=> /\ f.width = Requested(t).width' /\ f.height = Requested(t).height' /\ f.comps = comps'
            /\ f.tables = IF t.op \in Transposes THEN tables' ELSE Image.tables'
            /\ ~Mismatched'
            /\ Num(t)' = 1 => (Image.comps[1].h)' = MaxH(Image)' /\ (Image.comps[1].v)' = MaxV(Image)'
    BY Zenon DEF FrameIs
  <1> HIDE DEF comps, tables
  <1>7. FrameIs(f, t)' <=> FrameIs(f, t)
    BY <1>1, <1>2, <1>3, <1>4, <1>5, <1>6
  <1> QED
    BY <1>7 DEF FrameIs

LEMMA SameUnfiltered ==
    ASSUME UNCHANGED job, NEW k
    PROVE  Unfiltered(k)' = Unfiltered(k)
  BY SameRequest DEF Unfiltered

LEMMA SameImage ==
    ASSUME UNCHANGED job
    PROVE  Coefficients(Image)' = Coefficients(Image)
  <1>1. Image' = Image
    BY SameUncropped
  <1> QED
    BY <1>1, Zenon DEF Coefficients

LEMMA SameGeometry ==
    ASSUME UNCHANGED job, NEW f, NEW t, NEW c
    PROVE  GeometryOf(f, t, c)' = GeometryOf(f, t, c)
  <1>1. Uncropped(t)' = Uncropped(t) /\ Requested(t)' = Requested(t)
    BY SameUncropped, SameRequest
  <1> QED
    BY <1>1 DEF GeometryOf

LEMMA SameRightBlock ==
    ASSUME UNCHANGED job, NEW f, NEW t, NEW c, NEW y, NEW x
    PROVE  RightBlock(f, t, c, y, x)' = RightBlock(f, t, c, y, x)
  <1>1. Coefficients(Image)' = Coefficients(Image) /\ GeometryOf(f, t, c)' = GeometryOf(f, t, c)
    BY SameImage, SameGeometry
  <1> QED
    BY <1>1 DEF RightBlock

LEMMA SameTransform ==
    ASSUME UNCHANGED job, NEW f, NEW t
    PROVE  IsTransform(f, t)' = IsTransform(f, t)
  <1>1. Image' = Image /\ Num(t)' = Num(t) /\ Uncropped(t)' = Uncropped(t)
    BY SameUncropped
  <1>2. \A c, y, x : Original(c, y, x)' = Original(c, y, x)
    BY <1>1 DEF Original
  <1>3. \A c, left, top, y, x : Belongs(t, f, c, left, top, y, x)' = Belongs(t, f, c, left, top, y, x)
    BY <1>1, <1>2 DEF Belongs
  <1> QED
    BY <1>1, <1>3 DEF IsTransform

-----------------------------------------------------------------------------
(* The arrays have room for the blocks of the file.                        *)

LEMMA FrameSizes ==
    ASSUME NEW t, Given(t), ~IsRefused(t), NEW f, FrameIs(f, t)
    PROVE  /\ f.width \in Nat /\ f.height \in Nat
           /\ \A c \in Comps(f) : /\ WidthInBlocks(f, c) \in Nat /\ HeightInBlocks(f, c) \in Nat
                                  /\ WidthInBlocks(f, c) <= Columns(f, c) /\ HeightInBlocks(f, c) <= Rows(f, c)
                                  /\ Columns(f, c) \in Nat /\ Rows(f, c) \in Nat
  <1>1. f.width \in Nat /\ f.height \in Nat
    BY RequestedIs DEF FrameIs
  <1>2. ASSUME NEW c \in Comps(f)
        PROVE  /\ WidthInBlocks(f, c) \in Nat /\ HeightInBlocks(f, c) \in Nat
               /\ WidthInBlocks(f, c) <= Columns(f, c) /\ HeightInBlocks(f, c) <= Rows(f, c)
               /\ Columns(f, c) \in Nat /\ Rows(f, c) \in Nat
    <2>1. MaxH(f) \in 1 .. 4 /\ MaxV(f) \in 1 .. 4 /\ f.comps[c].h \in 1 .. 4 /\ f.comps[c].v \in 1 .. 4
      BY FrameFacts
    <2> QED
      BY <1>1, <2>1, BlockCounts
  <1> QED
    BY <1>1, <1>2

IsBlock(v, c, y, x) == c \in DOMAIN v /\ y \in DOMAIN v[c] /\ x \in DOMAIN v[c][y]

LEMMA RoomOfAlike ==
    ASSUME NEW v, NEW w, Alike(v, w), NEW c, NEW y, NEW x, IsBlock(w, c, y, x)
    PROVE  IsBlock(v, c, y, x)
  BY DEF IsBlock, Alike

LEMMA RoomInWorkspace ==
    ASSUME NEW t, Given(t), ~IsRefused(t), NEW f, FrameIs(f, t), NEW c \in Comps(f),
           NEW y \in Nat, y < HeightInBlocks(f, c), NEW x \in Nat, x < WidthInBlocks(f, c)
    PROVE  IsBlock(Workspace(t, Requested(t)), c, y, x)
  <1> DEFINE i == Requested(t)
             w == Workspace(t, i)
  <1>1. i.width \in Nat /\ i.height \in Nat /\ i.mcuW = MaxH(f) * D /\ i.mcuH = MaxV(f) * D
    BY RequestedIs, FrameFacts
  <1>2. MaxH(f) * D \in Nat \ {0} /\ MaxV(f) * D \in Nat \ {0}
    BY FrameFacts
  <1>3. f.comps[c].h \in 1 .. 4 /\ f.comps[c].v \in 1 .. 4 /\ c \in 1 .. Num(t)
    BY FrameFacts
  <1>4. f.comps[c].h = Factors(t, c).h /\ f.comps[c].v = Factors(t, c).v /\ f.width = i.width /\ f.height = i.height
    BY <1>3 DEF FrameIs
  <1> HIDE DEF i
  <1>5. PICK width \in Nat, height \in Nat, mcuW \in Nat \ {0}, mcuH \in Nat \ {0}, h \in Nat \ {0}, v \in Nat \ {0} :
            /\ width = i.width /\ height = i.height /\ mcuW = i.mcuW /\ mcuH = i.mcuH
            /\ h = Factors(t, c).h /\ v = Factors(t, c).v
    <2>1. f.comps[c].h \in Nat \ {0} /\ f.comps[c].v \in Nat \ {0}
      BY <1>3
    <2> QED
      BY <1>1, <1>2, <1>4, <2>1, Zenon
  <1>6. x < DivUp(width * h, mcuW) /\ y < DivUp(height * v, mcuH)
    BY <1>1, <1>4, <1>5 DEF WidthInBlocks, HeightInBlocks
  <1>7. DivUp(width * h, mcuW) <= DivUp(width, mcuW) * h /\ DivUp(height * v, mcuH) <= DivUp(height, mcuH) * v
    BY DivUpProduct
  <1>8. /\ DivUp(width * h, mcuW) \in Int /\ DivUp(height * v, mcuH) \in Int
        /\ DivUp(width, mcuW) \in Int /\ DivUp(height, mcuH) \in Int
    <2>1. \A n \in Int, m \in Nat \ {0} : DivUp(n, m) \in Int
      BY DivUpIs
    <2>2. width * h \in Int /\ height * v \in Int /\ width \in Int /\ height \in Int
      OBVIOUS
    <2> QED
      BY <2>1, <2>2, Zenon
  <1>9. y \in 0 .. DivUp(height, mcuH) * v - 1 /\ x \in 0 .. DivUp(width, mcuW) * h - 1
    BY <1>6, <1>7, <1>8
  <1>10. w = [b \in 1 .. Num(t) |-> [r \in 0 .. DivUp(i.height, i.mcuH) * Factors(t, b).v - 1 |->
                [q \in 0 .. DivUp(i.width, i.mcuW) * Factors(t, b).h - 1 |-> Unset]]]
    BY Zenon DEF Workspace
  <1> HIDE DEF w
  <1>11. c \in DOMAIN w /\ DOMAIN w[c] = 0 .. DivUp(height, mcuH) * v - 1
         /\ \A r \in DOMAIN w[c] : DOMAIN w[c][r] = 0 .. DivUp(width, mcuW) * h - 1
    BY <1>3, <1>5, <1>10
  <1>12. IsBlock(w, c, y, x)
    BY <1>9, <1>11 DEF IsBlock
  <1> QED
    BY <1>12 DEF w, i

LEMMA RoomInImage ==
    ASSUME job \in Jobs, NEW c \in Comps(Image),
           NEW y \in Nat, y < HeightInBlocks(Image, c), NEW x \in Nat, x < WidthInBlocks(Image, c)
    PROVE  IsBlock(Coefficients(Image), c, y, x)
  <1>1. /\ WidthInBlocks(Image, c) \in Nat /\ HeightInBlocks(Image, c) \in Nat
        /\ Columns(Image, c) \in Nat /\ Rows(Image, c) \in Nat
        /\ WidthInBlocks(Image, c) <= Columns(Image, c) /\ HeightInBlocks(Image, c) <= Rows(Image, c)
    <2>1. /\ Image.width \in Nat /\ Image.height \in Nat /\ MaxH(Image) \in 1 .. 4 /\ MaxV(Image) \in 1 .. 4
          /\ Image.comps[c].h \in 1 .. 4 /\ Image.comps[c].v \in 1 .. 4
      BY ImageFacts
    <2> QED
      BY <2>1, BlockCounts
  <1>2. y \in 0 .. Rows(Image, c) - 1 /\ x \in 0 .. Columns(Image, c) - 1
    BY <1>1
  <1> QED
    BY <1>2 DEF IsBlock, Coefficients

(* Where blocks stay in their rows and columns, or are only mirrored.      *)
LEMMA StaysInImage ==
    ASSUME NEW t, Given(t), ~IsRefused(t), NEW f, FrameIs(f, t), NEW c \in Comps(f),
           NEW y \in Nat, y < HeightInBlocks(f, c), NEW x \in Nat, x < WidthInBlocks(f, c),
           t.op \in {"NONE", "FLIP_H"}
    PROVE  LET g == GeometryOf(f, t, c)
           IN /\ g.w \in Nat /\ g.h \in Nat /\ g.x \in Nat /\ g.y \in Nat
              /\ y + g.y < HeightInBlocks(Image, c) /\ x + g.x < WidthInBlocks(Image, c)
  <1> DEFINE u == Uncropped(t)
             i == Requested(t)
             g == GeometryOf(f, t, c)
             h == f.comps[c].h
  <1>1. t.op \notin Transposes /\ t.op \notin VFlips
    BY DEF Transposes, VFlips
  <1>2. /\ g.w \in Nat /\ g.h \in Nat /\ g.x \in Nat /\ g.y \in Nat
        /\ SourceRow(t.op, g, y) < HeightInBlocks(Image, c)
    BY <1>1, SourceIs
  <1>3. y + g.y < HeightInBlocks(Image, c)
    BY <1>1, <1>2 DEF SourceRow, Mirror
  <1>4. /\ i.x \in Nat /\ i.width \in Nat /\ i.x * u.mcuW + i.width <= u.width
        /\ u.width \in Nat /\ u.mcuW \in Nat \ {0} /\ h \in Nat \ {0}
    <2>1. i.x \in Nat /\ i.width \in Nat /\ i.x * u.mcuW + i.width <= u.width
      BY RequestedIs
    <2>2. u.width \in Nat /\ u.mcuW \in Nat \ {0}
      BY UncroppedIs
    <2>3. h \in 1 .. 4
      BY FrameFacts
    <2> QED
      BY <2>1, <2>2, <2>3
  <1>5. /\ x < DivUp(i.width * h, u.mcuW) /\ g.x = i.x * h
        /\ DivUp(u.width * h, u.mcuW) = WidthInBlocks(Image, c)
    <2>1. MaxH(f) * D = u.mcuW /\ f.width = i.width
      BY FrameFacts DEF FrameIs
    <2>2. DivUp(u.width * h, u.mcuW) = WidthInBlocks(Image, c)
      BY <1>1, FullSizes
    <2> QED
      BY <2>1, <2>2 DEF WidthInBlocks, GeometryOf
  <1> HIDE DEF u, i, g, h
  <1>6. x + g.x < WidthInBlocks(Image, c)
    <2>1. PICK width \in Nat, factor \in Nat \ {0}, mcu \in Nat \ {0}, first \in Nat, full \in Nat, m \in BOOLEAN :
              /\ width = i.width /\ factor = h /\ mcu = u.mcuW /\ first = i.x /\ full = u.width /\ m = FALSE
      BY <1>4, Zenon
    <2>2. first * mcu + width <= full /\ x < DivUp(width * factor, mcu)
      BY <1>4, <1>5, <2>1
    <2>3. Mirror(x + first * factor, (full \div mcu) * factor, m) < DivUp(full * factor, mcu)
      BY <2>2, InStrip
    <2>4. Mirror(x + first * factor, (full \div mcu) * factor, m) = x + first * factor
      BY <2>1 DEF Mirror
    <2> QED
      BY <1>5, <2>1, <2>3, <2>4
  <1> QED
    BY <1>2, <1>3, <1>6 DEF g

(* What is moved is a block.                                               *)
LEMMA MovedIsBlock ==
    ASSUME NEW t, Given(t), ~IsRefused(t), FrameIs(cinfo, t), NEW c \in Comps(cinfo),
           NEW y \in Nat, y < HeightInBlocks(cinfo, c), NEW x \in Nat, x < WidthInBlocks(cinfo, c)
    PROVE  MovedBlock(t, c, y, x) \in Matrices
  <1> DEFINE g == GeometryOf(cinfo, t, c)
             s == Coefficients(Image)[c]
  <1>1. g.w \in Nat /\ g.h \in Nat /\ g.x \in Nat /\ g.y \in Nat
    BY SourceIs
  <1>2. SourceBlock(t.op, s, g, y, x) \in Matrices
    BY SourceBlockIs
  <1>3. t.op \in Ops
    BY TransformFacts DEF Given
  <1> HIDE DEF g, s
  <1>4. Moved(t.op, s, g, y, x) \in Matrices
    BY <1>1, <1>2, <1>3, MovedType
  <1> QED
    BY <1>4 DEF g, s, MovedBlock

(* What is done without a workspace.                                       *)
LEMMA WithoutWorkspace ==
    ASSUME NEW t, Given(t), ~IsRefused(t), ~Requested(t).work
    PROVE  /\ t.op \in {"NONE", "FLIP_H"} /\ Requested(t).y = 0
           /\ t.op = "NONE" => Requested(t).x = 0
           /\ t.op = "FLIP_H" => ~SlowHFlip(t)
  <1> DEFINE i == Requested(t)
  <1>1. i.work = Needed(t, i) /\ i.x \in Nat /\ i.y \in Nat
    BY RequestedIs
  <1> HIDE DEF i
  <1>2. ~Needed(t, i)
    BY <1>1 DEF i
  <1>3. t.op \in {"NONE", "FLIP_H"} /\ i.y = 0 /\ (t.op = "NONE" => i.x = 0) /\ (t.op = "FLIP_H" => ~SlowHFlip(t))
    BY <1>1, <1>2 DEF Needed
  <1> QED
    BY <1>3 DEF i

LEMMA CopiedBlock ==
    ASSUME NEW t, Given(t), ~IsRefused(t), FrameIs(cinfo, t), ~Requested(t).work, t.op = "NONE",
           NEW c \in Comps(cinfo),
           NEW y \in Nat, NEW x \in Nat
    PROVE  MovedBlock(t, c, y, x) = Coefficients(Image)[c][y][x]
  <1>1. Requested(t).x = 0 /\ Requested(t).y = 0
    BY WithoutWorkspace
  <1>2. cinfo.comps[c].h \in 1 .. 4 /\ cinfo.comps[c].v \in 1 .. 4
    BY FrameFacts
  <1> DEFINE g == GeometryOf(cinfo, t, c)
             s == Coefficients(Image)[c]
  <1>3. g.x = Requested(t).x * cinfo.comps[c].h /\ g.y = Requested(t).y * cinfo.comps[c].v
    BY DEF GeometryOf
  <1>4. g.x = 0 /\ g.y = 0
    <2> HIDE DEF g
    <2> QED
      BY <1>1, <1>2, <1>3
  <1> HIDE DEF g, s
  <1>5. y + g.y = y /\ x + g.x = x
    BY <1>4
  <1>6. Moved(t.op, s, g, y, x) = s[y][x]
    BY <1>5 DEF Moved, DoCrop
  <1> QED
    BY <1>6 DEF MovedBlock, g, s

(* One row of a component, mirrored in place.                              *)
LEMMA MirroredInPlace ==
    ASSUME NEW t, Given(t), ~IsRefused(t), FrameIs(cinfo, t), ~Requested(t).work, t.op = "FLIP_H",
           NEW c \in Comps(cinfo), NEW row, NEW y \in Nat, y < HeightInBlocks(cinfo, c),
           row = Coefficients(Image)[c][y],
           NEW x \in Nat, x < WidthInBlocks(cinfo, c)
    PROVE  DoFlipHNoCrop(row, GeometryOf(cinfo, t, c), WidthInBlocks(cinfo, c))[x] = MovedBlock(t, c, y, x)
  <1> DEFINE g == GeometryOf(cinfo, t, c)
             s == Coefficients(Image)[c]
             width == WidthInBlocks(cinfo, c)
             z == x + g.x
             mirrored == [p \in DOMAIN row |-> IF p < g.w THEN NegatedColumns(row[g.w - p - 1]) ELSE row[p]]
  <1>1. Requested(t).y = 0
    BY WithoutWorkspace
  <1>2. cinfo.comps[c].v \in 1 .. 4 /\ c \in Comps(Image)
    BY FrameFacts
  <1>3. g.y = 0
    BY <1>1, <1>2 DEF GeometryOf
  <1>4. /\ g.w \in Nat /\ g.x \in Nat
        /\ y + g.y < HeightInBlocks(Image, c) /\ x + g.x < WidthInBlocks(Image, c)
    BY StaysInImage
  <1> HIDE DEF g
  <1>5. y + g.y = y /\ x \in Nat /\ z \in Nat /\ x <= z /\ (g.x = 0 => z = x)
    BY <1>3, <1>4
  <1>6. IsBlock(Coefficients(Image), c, y, z)
    <2>1. y < HeightInBlocks(Image, c) /\ z < WidthInBlocks(Image, c)
      BY <1>4, <1>5
    <2> QED
      BY <1>2, <1>5, <2>1, RoomInImage DEF Given
  <1>7. IsBlock(Coefficients(Image), c, y, x)
    <2>1. WidthInBlocks(Image, c) \in Nat
      <3>1. /\ Image.width \in Nat /\ Image.height \in Nat /\ MaxH(Image) \in 1 .. 4 /\ MaxV(Image) \in 1 .. 4
            /\ Image.comps[c].h \in 1 .. 4 /\ Image.comps[c].v \in 1 .. 4
        BY <1>2, ImageFacts DEF Given
      <3> QED
        BY <3>1, BlockCounts
    <2>2. y < HeightInBlocks(Image, c) /\ x < WidthInBlocks(Image, c)
      <3> HIDE DEF z
      <3> QED
        BY <1>4, <1>5, <2>1 DEF z
    <2> QED
      BY <1>2, <2>2, RoomInImage DEF Given
  <1>8. x \in DOMAIN row /\ z \in DOMAIN row
    BY <1>6, <1>7 DEF IsBlock
  <1> HIDE DEF s, width
  <1>9. DoFlipHNoCrop(row, g, width)[x] = IF g.x > 0 /\ x < width THEN mirrored[x + g.x] ELSE mirrored[x]
    BY <1>8 DEF DoFlipHNoCrop
  <1>10. mirrored[z] = IF z < g.w THEN NegatedColumns(row[g.w - z - 1]) ELSE row[z]
    BY <1>8
  <1>11. x < width
    BY DEF width
  <1> HIDE DEF mirrored
  <1>12. DoFlipHNoCrop(row, g, width)[x] = mirrored[z]
    BY <1>4, <1>5, <1>9, <1>11
  <1>13. g.w - z - 1 = g.w - g.x - x - 1
    BY <1>4
  <1>14. row = s[y + g.y]
    BY <1>5 DEF s
  <1>15. Moved(t.op, s, g, y, x) = mirrored[z]
    <2>1. Moved(t.op, s, g, y, x) = DoFlipH(s, g, y, x)
      BY DEF Moved
    <2> QED
      BY <1>10, <1>13, <1>14, <2>1 DEF DoFlipH
  <1> QED
    BY <1>12, <1>15 DEF MovedBlock, g, s, width

-----------------------------------------------------------------------------
(* Before the file is written.                                             *)

(* What is known of the transform at hand.                                 *)
LEMMA AskedIs ==
    ASSUME JobTyped, AllPrepared, pc \in {"read", "adjust", "write", "move", "finish"}
    PROVE  /\ Given(Asked) /\ ~IsRefused(Asked) /\ info[nth] = Requested(Asked)
           /\ info[nth].work => Alike(work[nth], Workspace(Asked, Requested(Asked)))
  <1>1. Given(Transformation(nth)) /\ nth \in Every
    BY JobFacts DEF JobTyped
  <1>2. Prepared(nth)
    BY <1>1 DEF AllPrepared
  <1>3. Transformation(nth) = Asked
    BY DEF Transformation, Asked
  <1> QED
    BY <1>1, <1>2, <1>3 DEF Prepared

LEMMA RoomInResult ==
    ASSUME JobTyped, AllPrepared, pc = "move", FrameTold, ~info[nth].work => Alike(coefs, Coefficients(Image)),
           NEW c \in Comps(cinfo),
           NEW y \in Nat, y < HeightInBlocks(cinfo, c), NEW x \in Nat, x < WidthInBlocks(cinfo, c)
    PROVE  IsBlock(Result, c, y, x)
  <1>1. /\ Given(Asked) /\ ~IsRefused(Asked) /\ info[nth] = Requested(Asked) /\ FrameIs(cinfo, Asked)
        /\ info[nth].work => Alike(work[nth], Workspace(Asked, Requested(Asked)))
    BY AskedIs DEF FrameTold
  <1>2. CASE info[nth].work
    <2>1. IsBlock(Workspace(Asked, Requested(Asked)), c, y, x)
      BY <1>1, RoomInWorkspace
    <2> QED
      BY <1>1, <1>2, <2>1, RoomOfAlike DEF Result
  <1>3. CASE ~info[nth].work
    <2>1. Asked.op \in {"NONE", "FLIP_H"}
      BY <1>1, <1>3, WithoutWorkspace
    <2> DEFINE g == GeometryOf(cinfo, Asked, c)
    <2>2. /\ g.x \in Nat /\ g.y \in Nat
          /\ y + g.y < HeightInBlocks(Image, c) /\ x + g.x < WidthInBlocks(Image, c)
      BY <1>1, <2>1, StaysInImage
    <2>3. c \in Comps(Image) /\ job \in Jobs
      BY <1>1, FrameFacts DEF Given
    <2>4. WidthInBlocks(Image, c) \in Nat /\ HeightInBlocks(Image, c) \in Nat
      <3>1. /\ Image.width \in Nat /\ Image.height \in Nat /\ MaxH(Image) \in 1 .. 4 /\ MaxV(Image) \in 1 .. 4
            /\ Image.comps[c].h \in 1 .. 4 /\ Image.comps[c].v \in 1 .. 4
        BY <2>3, ImageFacts
      <3> QED
        BY <3>1, BlockCounts
    <2>5. y < HeightInBlocks(Image, c) /\ x < WidthInBlocks(Image, c)
      <3> HIDE DEF g
      <3> QED
        BY <2>2, <2>4
    <2>6. IsBlock(Coefficients(Image), c, y, x)
      BY <2>3, <2>5, RoomInImage
    <2> QED
      BY <1>3, <2>6, RoomOfAlike DEF Result
  <1> QED
    BY <1>2, <1>3

LEMMA AllIsMoved ==
    ASSUME JobTyped, AllPrepared, pc = "move", FrameTold, Moving, AllMoved, Unfiltered(nth)
    PROVE  AllMoves(Asked)
  <1>1. /\ Given(Asked) /\ ~IsRefused(Asked) /\ info[nth] = Requested(Asked) /\ FrameIs(cinfo, Asked)
    BY AskedIs DEF FrameTold
  <1>2. SUFFICES ASSUME NEW c \in Comps(cinfo), NEW y \in BlockRows(c), NEW x \in BlockColumns(c)
                 PROVE  Result[c][y][x] = MovedBlock(Asked, c, y, x)
    BY DEF AllMoves
  <1>3. Comps(cinfo) = 1 .. Num(Asked) /\ Num(Asked) \in Nat
    BY <1>1, FrameFacts, NumIs
  <1>4. CASE MovesAnything
    <2>1. at.c \notin Comps(cinfo) /\ at.c \in Nat \ {0} /\ DoneAreMoved
      BY <1>4 DEF AllMoved, Moving, MovesAreRight
    <2>2. c < at.c
      BY <1>3, <2>1
    <2> QED
      BY <2>1, <2>2 DEF DoneAreMoved, RowIsDone
  <1>5. CASE ~MovesAnything
    <2>1. Asked.op = "NONE" /\ ~info[nth].work
      BY <1>5 DEF MovesAnything
    <2>2. Pristine
      BY <2>1 DEF Moving, MovesAreRight
    <2>3. y \in Nat /\ x \in Nat
      BY DEF BlockRows, BlockColumns
    <2>4. MovedBlock(Asked, c, y, x) = Coefficients(Image)[c][y][x]
      BY <1>1, <2>1, <2>3, CopiedBlock
    <2> QED
      BY <2>1, <2>2, <2>4 DEF Result, Pristine
  <1> QED
    BY <1>4, <1>5

(* The file written of a right result is the transform.                    *)
LEMMA WrittenIsTransform ==
    ASSUME NEW t, Given(t), ~IsRefused(t), FrameIs(cinfo, t), NEW arrays,
           \A c \in Comps(cinfo) : \A y \in BlockRows(c), x \in BlockColumns(c) :
               arrays[c][y][x] = RightBlock(cinfo, t, c, y, x)
    PROVE  IsTransform(Written(arrays), t)
  <1> DEFINE f == Written(arrays)
  <1>1. f.comps = cinfo.comps /\ f.width = cinfo.width /\ f.height = cinfo.height /\ f.tables = cinfo.tables
    BY DEF Written
  <1>2. cinfo.width \in Nat /\ cinfo.height \in Nat
    BY FrameSizes
  <1> HIDE DEF f
  <1>3. FrameIs(f, t)
    BY <1>1 DEF FrameIs
  <1>4. Comps(f) = Comps(cinfo) /\ MaxH(f) = MaxH(cinfo) /\ MaxV(f) = MaxV(cinfo)
    <2> DEFINE across(cs) == Max({cs[b].h : b \in DOMAIN cs})
               down(cs) == Max({cs[b].v : b \in DOMAIN cs})
    <2>1. /\ MaxH(f) = across(f.comps) /\ MaxH(cinfo) = across(cinfo.comps)
          /\ MaxV(f) = down(f.comps) /\ MaxV(cinfo) = down(cinfo.comps)
      BY Zenon DEF MaxH, MaxV, Comps
    <2> HIDE DEF across, down
    <2> QED
      BY <1>1, <2>1 DEF Comps
  <1>5. ASSUME NEW c \in Comps(f)
        PROVE  /\ HeightInBlocks(f, c) = HeightInBlocks(cinfo, c) /\ WidthInBlocks(f, c) = WidthInBlocks(cinfo, c)
               /\ GeometryOf(f, t, c) = GeometryOf(cinfo, t, c)
    BY <1>1, <1>4 DEF HeightInBlocks, WidthInBlocks, GeometryOf
  <1>6. BlocksAreRight(f, t)
    <2> SUFFICES ASSUME NEW c \in Comps(f),
                        NEW y \in 0 .. HeightInBlocks(f, c) - 1, NEW x \in 0 .. WidthInBlocks(f, c) - 1
                 PROVE  BlockIn(f, c, y, x) = RightBlock(f, t, c, y, x)
      BY DEF BlocksAreRight
    <2>1. c \in Comps(cinfo) /\ HeightInBlocks(cinfo, c) \in Nat /\ WidthInBlocks(cinfo, c) \in Nat
      BY <1>4, FrameSizes
    <2>2. y \in BlockRows(c) /\ x \in BlockColumns(c)
      BY <1>5 DEF BlockRows, BlockColumns
    <2>3. y \in Nat /\ y < HeightInBlocks(cinfo, c) /\ x \in Nat /\ x < WidthInBlocks(cinfo, c)
      BY <2>1, <2>2 DEF BlockRows, BlockColumns
    <2>4. BlockIn(f, c, y, x) = arrays[c][y][x]
      BY <1>2, <2>1, <2>3, WrittenBlock DEF f
    <2>5. arrays[c][y][x] = RightBlock(cinfo, t, c, y, x)
      BY <2>1, <2>2
    <2>6. RightBlock(f, t, c, y, x) = RightBlock(cinfo, t, c, y, x)
      BY <1>5 DEF RightBlock
    <2> QED
      BY <2>4, <2>5, <2>6
  <1> QED
    BY <1>3, <1>6, FileIsTransform DEF f

-----------------------------------------------------------------------------
(* What a step leaves alone stays right.                                   *)

LEMMA PreparedKept ==
    ASSUME UNCHANGED <<job, info, work>>, NEW k, Prepared(k)
    PROVE  Prepared(k)'
  <1> DEFINE t == Transformation(k)
  <1>1. t' = t
    BY DEF Transformation
  <1>2. /\ Requested(t)' = Requested(t) /\ IsRefused(t)' = IsRefused(t)
        /\ Workspace(t, Requested(t))' = Workspace(t, Requested(t))
    BY <1>1, SameRequest, SameWorkspace
  <1> QED
    BY <1>1, <1>2 DEF Prepared

LEMMA AllPreparedKept ==
    ASSUME AllPrepared, UNCHANGED <<job, info, work>>, pc' \notin {"header", "request"},
           pc \in {"read", "adjust", "write", "move", "finish"} \/ pc' \in {"done", "failed"}
    PROVE  AllPrepared'
  BY PreparedKept DEF AllPrepared, Every

LEMMA OutputsKept ==
    ASSUME OutputsAreTransforms, UNCHANGED <<job, outs>>
    PROVE  OutputsAreTransforms'
  <1>1. ASSUME NEW k \in DOMAIN outs, outs[k] # <<>>, Unfiltered(k)'
        PROVE  IsTransform(outs[k], job.transforms[k])'
    <2>1. Unfiltered(k)
      BY <1>1, SameUnfiltered
    <2>2. IsTransform(outs[k], job.transforms[k])
      BY <1>1, <2>1 DEF OutputsAreTransforms
    <2> QED
      BY <2>2, SameTransform
  <1> QED
    BY <1>1 DEF OutputsAreTransforms

LEMMA SameMovedBlock ==
    ASSUME UNCHANGED <<job, cinfo>>, NEW t, NEW c, NEW y, NEW x
    PROVE  MovedBlock(t, c, y, x)' = MovedBlock(t, c, y, x)
  <1>1. Coefficients(Image)' = Coefficients(Image) /\ GeometryOf(cinfo, t, c)' = GeometryOf(cinfo, t, c)
    BY SameImage, SameGeometry
  <1> QED
    BY <1>1 DEF MovedBlock

LEMMA PristineKept ==
    ASSUME Pristine, UNCHANGED <<job, coefs>>
    PROVE  Pristine'
  BY SameImage DEF Pristine

LEMMA MovesKept ==
    ASSUME MovesAreRight, UNCHANGED <<job, nth, info, work, coefs, cinfo, at>>
    PROVE  MovesAreRight'
  <1> SUFFICES ASSUME Unfiltered(nth)'
               PROVE  /\ info'[nth'].work \/ Asked'.op = "NONE" => Pristine'
                      /\ MovesAnything' => DoneAreMoved'
                      /\ MovesAnything' /\ ~info'[nth'].work => OthersAreKept'
    BY DEF MovesAreRight
  <1>1. Unfiltered(nth) /\ Asked' = Asked /\ Coefficients(Image)' = Coefficients(Image)
    BY SameUnfiltered, SameImage DEF Asked
  <1>2. MovesAnything' = MovesAnything
    BY <1>1 DEF MovesAnything
  <1>3. \A c, y, x : MovedBlock(Asked, c, y, x)' = MovedBlock(Asked, c, y, x)
    BY <1>1, SameMovedBlock
  <1>4. DoneAreMoved => DoneAreMoved'
    BY <1>3 DEF DoneAreMoved, BlockRows, BlockColumns, RowIsDone, Result
  <1>5. OthersAreKept => OthersAreKept'
    BY <1>1 DEF OthersAreKept, BlockRows, RowIsDone
  <1> QED
    BY <1>1, <1>2, <1>4, <1>5, PristineKept DEF MovesAreRight

LEMMA MadeKept ==
    ASSUME Made, UNCHANGED <<job, nth, info, work, coefs, cinfo>>
    PROVE  Made'
  <1>1. Unfiltered(nth)' = Unfiltered(nth) /\ Asked' = Asked
    BY SameUnfiltered DEF Asked
  <1>2. \A c, y, x : RightBlock(cinfo, Asked, c, y, x)' = RightBlock(cinfo, Asked, c, y, x)
    BY <1>1, SameRightBlock
  <1>3. ResultIsRight(Asked) => ResultIsRight(Asked)'
    BY <1>1, <1>2 DEF ResultIsRight, BlockRows, BlockColumns, Result
  <1> QED
    BY <1>1, <1>3, PristineKept DEF Made

LEMMA JobTypedKept ==
    ASSUME JobTyped, UNCHANGED job, nth' \in Every,
           DOMAIN info' = Every, DOMAIN work' = Every, DOMAIN outs' = Every
    PROVE  JobTyped'
  BY DEF JobTyped, Every

LEMMA FrameKept ==
    ASSUME FrameTold, UNCHANGED <<job, nth, cinfo>>, pc \in {"write", "move", "finish"}
    PROVE  FrameTold'
  BY SameFrame DEF FrameTold, Asked

-----------------------------------------------------------------------------
(* The first state, and the steps.                                         *)

LEMMA InitTransforms == TransformInit => TransformInv
  <1> SUFFICES ASSUME TransformInit
               PROVE  TransformInv
    OBVIOUS
  <1>1. job \in Jobs /\ nth = 1 /\ pc = "header"
    BY DEF TransformInit
  <1>2. nth \in Every
    BY <1>1, JobFacts
  <1>3. JobTyped
    BY <1>1, <1>2 DEF TransformInit, JobTyped, Every
  <1>4. AllPrepared /\ FrameTold /\ ImageKept /\ Moving /\ AllMade
    BY <1>1 DEF AllPrepared, FrameTold, ImageKept, Moving, AllMade
  <1>5. OutputsAreTransforms
    BY DEF TransformInit, OutputsAreTransforms
  <1> QED
    BY <1>3, <1>4, <1>5 DEF TransformInv

LEMMA StutterTransforms ==
    ASSUME TransformInv, UNCHANGED transformVars
    PROVE  TransformInv'
  <1>1. UNCHANGED <<job, pc, nth, info, coefs, saved, cinfo, work, at, header, outs>>
    BY DEF transformVars
  <1>2. JobTyped'
    BY <1>1, JobTypedKept DEF TransformInv, JobTyped
  <1>3. AllPrepared'
    BY <1>1, PreparedKept DEF TransformInv, AllPrepared, Every
  <1>4. FrameTold'
    BY <1>1, SameFrame DEF TransformInv, FrameTold, Asked
  <1>5. ImageKept'
    BY <1>1, PristineKept, SameUnfiltered DEF TransformInv, ImageKept
  <1>6. Moving'
    BY <1>1, MovesKept DEF TransformInv, Moving
  <1>7. AllMade'
    <2>1. Asked' = Asked
      BY <1>1 DEF Asked
    <2> QED
      BY <1>1, <2>1, MadeKept DEF TransformInv, AllMade
  <1> QED
    BY <1>1, <1>2, <1>3, <1>4, <1>5, <1>6, <1>7, OutputsKept DEF TransformInv

LEMMA FailTransforms ==
    ASSUME TransformInv, Fail
    PROVE  TransformInv'
  <1>1. pc' = "failed" /\ UNCHANGED <<job, nth, info, coefs, saved, cinfo, work, at, header, outs>>
    BY DEF Fail
  <1>2. JobTyped'
    BY <1>1, JobTypedKept DEF TransformInv, JobTyped
  <1>3. AllPrepared' /\ FrameTold' /\ ImageKept' /\ Moving' /\ AllMade'
    BY <1>1 DEF AllPrepared, FrameTold, ImageKept, Moving, AllMade
  <1> QED
    BY <1>1, <1>2, <1>3, OutputsKept DEF TransformInv

LEMMA ReadHeaderTransforms ==
    ASSUME TransformInv, ReadHeader, ~Fail
    PROVE  TransformInv'
  <1>1. /\ pc = "header" /\ pc' = "request"
        /\ UNCHANGED <<job, nth, info, coefs, cinfo, work, at, header, outs>>
    BY DEF ReadHeader
  <1>2. JobTyped'
    BY <1>1, JobTypedKept DEF TransformInv, JobTyped
  <1>3. nth' = 1
    BY <1>1 DEF TransformInv, AllPrepared
  <1>4. AllPrepared' /\ FrameTold' /\ ImageKept' /\ Moving' /\ AllMade'
    BY <1>1, <1>3 DEF AllPrepared, FrameTold, ImageKept, Moving, AllMade
  <1> QED
    BY <1>1, <1>2, <1>4, OutputsKept DEF TransformInv

LEMMA RequestTransforms ==
    ASSUME TransformInv, RequestWorkspace, ~Fail
    PROVE  TransformInv'
  <1> DEFINE n == Len(job.transforms)
             new == IF Requested(Asked).work THEN Workspace(Asked, Requested(Asked)) ELSE <<>>
  <1>1. /\ pc = "request" /\ ~IsRefused(Asked)
        /\ info' = [info EXCEPT ![nth] = Requested(Asked)]
        /\ work' = [work EXCEPT ![nth] = new]
        /\ pc' = IF LastOne THEN "read" ELSE "request"
        /\ nth' = IF LastOne THEN 1 ELSE nth + 1
        /\ UNCHANGED <<job, coefs, saved, cinfo, at, header, outs>>
    BY DEF RequestWorkspace
  <1>2. /\ job \in Jobs /\ nth \in Every
        /\ DOMAIN info = Every /\ DOMAIN work = Every /\ DOMAIN outs = Every
        /\ n \in Nat \ {0} /\ Every = 1 .. n
    BY JobFacts DEF TransformInv, JobTyped
  <1>3. nth' \in Every /\ nth \in 1 .. n
    BY <1>1, <1>2 DEF LastOne
  <1>4. JobTyped'
    BY <1>1, <1>2, <1>3, JobTypedKept DEF TransformInv
  <1>5. ASSUME NEW k \in 1 .. nth
        PROVE  Prepared(k)'
    <2> DEFINE t == Transformation(k)
    <2>1. t' = t /\ Requested(t)' = Requested(t) /\ IsRefused(t)' = IsRefused(t)
          /\ Workspace(t, Requested(t))' = Workspace(t, Requested(t))
      <3>1. t' = t
        BY <1>1 DEF Transformation
      <3> QED
        BY <1>1, <3>1, SameRequest, SameWorkspace
    <2>2. /\ ~IsRefused(t) /\ info'[k] = Requested(t)
          /\ info'[k].work => Alike(work'[k], Workspace(t, Requested(t)))
      <3>1. CASE k = nth
        <4>1. t = Asked
          BY <3>1 DEF Transformation, Asked
        <4>2. info'[k] = Requested(t) /\ work'[k] = new
          BY <1>1, <1>2, <3>1, <4>1
        <4> QED
          BY <1>1, <4>1, <4>2 DEF Alike
      <3>2. CASE k # nth
        <4>1. k \in 1 .. nth - 1
          BY <1>3, <3>2
        <4>2. Prepared(k)
          BY <1>1, <4>1 DEF TransformInv, AllPrepared
        <4>3. info'[k] = info[k] /\ work'[k] = work[k]
          <5>1. k \in Every
            BY <1>2, <1>3
          <5> QED
            BY <1>1, <1>2, <3>2, <5>1
        <4> QED
          BY <4>2, <4>3 DEF Prepared
      <3> QED
        BY <3>1, <3>2
    <2> HIDE DEF t
    <2>3. (info[k].work)' = info'[k].work
      OBVIOUS
    <2> QED
      BY <2>1, <2>2 DEF Prepared, t
  <1>6. AllPrepared'
    <2>1. CASE LastOne
      <3>1. \A k \in Every' : Prepared(k)'
        BY <1>1, <1>2, <1>5, <2>1 DEF Every, LastOne
      <3> QED
        BY <1>1, <2>1, <3>1 DEF AllPrepared
    <2>2. CASE ~LastOne
      <3>1. nth' = nth + 1 /\ nth' - 1 = nth
        BY <1>1, <1>3, <2>2
      <3>2. \A k \in 1 .. nth' - 1 : Prepared(k)'
        BY <1>5, <3>1
      <3> QED
        BY <1>1, <2>2, <3>2 DEF AllPrepared
    <2> QED
      BY <2>1, <2>2
  <1>7. FrameTold' /\ ImageKept' /\ Moving' /\ AllMade'
    BY <1>1 DEF FrameTold, ImageKept, Moving, AllMade
  <1> QED
    BY <1>1, <1>4, <1>6, <1>7, OutputsKept DEF TransformInv

LEMMA ReadTransforms ==
    ASSUME TransformInv, ReadCoefficients
    PROVE  TransformInv'
  <1>1. /\ pc = "read" /\ pc' = "adjust" /\ coefs' = Coefficients(Image)
        /\ UNCHANGED <<job, nth, info, saved, cinfo, work, at, header, outs>>
    BY DEF ReadCoefficients
  <1>2. JobTyped'
    BY <1>1, JobTypedKept DEF TransformInv, JobTyped
  <1>3. AllPrepared'
    BY <1>1, AllPreparedKept DEF TransformInv
  <1>4. Pristine'
    BY <1>1, SameImage DEF Pristine
  <1>5. FrameTold' /\ ImageKept' /\ Moving' /\ AllMade'
    BY <1>1, <1>4 DEF FrameTold, ImageKept, Moving, AllMade
  <1> QED
    BY <1>1, <1>2, <1>3, <1>5, OutputsKept DEF TransformInv

LEMMA Exchanged ==
    ASSUME NEW a, NEW b, NEW d, NEW r, r = [h |-> a, v |-> b, table |-> d]
    PROVE  [r EXCEPT !.h = r.v, !.v = r.h] = [h |-> b, v |-> a, table |-> d]
  <1> DEFINE m == [r EXCEPT !.h = r.v]
             e == [m EXCEPT !.v = r.h]
  <1>1. r.v = b /\ r.h = a
    OBVIOUS
  <1>2. m = [h |-> b, v |-> b, table |-> d]
    BY <1>1
  <1> HIDE DEF m
  <1>3. e = [h |-> b, v |-> a, table |-> d]
    BY <1>1, <1>2
  <1> HIDE DEF e
  <1>4. [r EXCEPT !.h = r.v, !.v = r.h] = e
    BY Zenon DEF e, m
  <1> QED
    BY <1>3, <1>4

LEMMA AdjustedFrame ==
    ASSUME NEW t, Given(t), ~Mismatched, ~(t.gray /\ ~CanForceGray), NEW jfif,
           NEW f,
           LET one == IF Num(t) = 1 THEN OneComponent(Copied) ELSE Copied
               sized == [one EXCEPT !.width = Requested(t).width, !.height = Requested(t).height]
               turned == IF t.op \in Transposes THEN TurnedParameters(sized) ELSE sized
           IN f = [turned EXCEPT !.jfif = jfif]
    PROVE  FrameIs(f, t)
  <1> DEFINE one == IF Num(t) = 1 THEN OneComponent(Copied) ELSE Copied
             sized == [one EXCEPT !.width = Requested(t).width, !.height = Requested(t).height]
             turned == IF t.op \in Transposes THEN TurnedParameters(sized) ELSE sized
             fields == {"width", "height", "comps", "tables", "jfif", "adobe"}
             told(c) == [h |-> Factors(t, c).h, v |-> Factors(t, c).v, table |-> Image.comps[c].table]
             plain(c) == [h |-> IF Num(t) = 1 THEN 1 ELSE Image.comps[c].h,
                          v |-> IF Num(t) = 1 THEN 1 ELSE Image.comps[c].v, table |-> Image.comps[c].table]
  <1>1. /\ Num(t) \in Nat \ {0} /\ (Num(t) = 1 \/ Num(t) = Len(Image.comps))
        /\ Comps(Image) = 1 .. Len(Image.comps) /\ Len(Image.comps) \in Nat \ {0}
    BY NumIs, ImageFacts DEF Given
  <1>2. /\ DOMAIN Copied = fields /\ Copied.tables = Image.tables
        /\ Copied.comps = [c \in Comps(Image) |->
               [h |-> Image.comps[c].h, v |-> Image.comps[c].v, table |-> Image.comps[c].table]]
    BY DEF Copied
  <1>3. /\ DOMAIN one = fields /\ one.tables = Image.tables
        /\ one.comps = [c \in 1 .. Num(t) |-> plain(c)]
    <2>1. CASE Num(t) = 1
      <3> DEFINE r == [h |-> 1, v |-> 1, table |-> Copied.comps[1].table]
      <3>1. DOMAIN one = fields /\ one.tables = Image.tables /\ one.comps = <<r>>
        BY <1>2, <2>1 DEF OneComponent
      <3>2. r = plain(1)
        BY <1>1, <1>2, <2>1
      <3> HIDE DEF r
      <3>3. \A c \in 1 .. Num(t) : c = 1
        BY <2>1
      <3>4. one.comps = [c \in 1 .. Num(t) |-> r]
        BY <2>1, <3>1
      <3> QED
        BY <3>1, <3>2, <3>3, <3>4
    <2>2. CASE Num(t) # 1
      BY <1>1, <1>2, <2>2
    <2> QED
      BY <2>1, <2>2
  <1> HIDE DEF one
  <1>4. /\ DOMAIN sized = fields /\ sized.tables = Image.tables /\ sized.comps = one.comps
        /\ sized.width = Requested(t).width /\ sized.height = Requested(t).height
    BY <1>3
  <1> HIDE DEF sized
  <1>5. /\ DOMAIN turned = fields
        /\ turned.width = Requested(t).width /\ turned.height = Requested(t).height
        /\ turned.tables = (IF t.op \in Transposes
                            THEN [s \in DOMAIN Image.tables |-> Transposed(Image.tables[s])] ELSE Image.tables)
        /\ turned.comps = [c \in 1 .. Num(t) |-> told(c)]
    <2>1. CASE t.op \in Transposes
      <3>1. /\ DOMAIN turned = fields
            /\ turned.width = Requested(t).width /\ turned.height = Requested(t).height
            /\ turned.tables = [s \in DOMAIN Image.tables |-> Transposed(Image.tables[s])]
            /\ turned.comps = [c \in Comps(sized) |-> [sized.comps[c] EXCEPT !.h = sized.comps[c].v, !.v = sized.comps[c].h]]
        BY <1>4, <2>1 DEF TurnedParameters
      <3>2. Comps(sized) = 1 .. Num(t)
        BY <1>3, <1>4 DEF Comps
      <3>3. ASSUME NEW c \in 1 .. Num(t)
            PROVE  [sized.comps[c] EXCEPT !.h = sized.comps[c].v, !.v = sized.comps[c].h] = told(c)
        <4>1. sized.comps[c] = plain(c)
          BY <1>3, <1>4
        <4> DEFINE r == sized.comps[c]
        <4>2. [r EXCEPT !.h = r.v, !.v = r.h] = [h |-> plain(c).v, v |-> plain(c).h, table |-> Image.comps[c].table]
          <5>1. r = [h |-> plain(c).h, v |-> plain(c).v, table |-> Image.comps[c].table]
            BY <4>1
          <5>2. PICK a, b, d, q : a = plain(c).h /\ b = plain(c).v /\ d = Image.comps[c].table /\ q = r
            OBVIOUS
          <5> HIDE DEF r, plain
          <5>3. q = [h |-> a, v |-> b, table |-> d]
            BY <5>1, <5>2, Zenon
          <5>4. [q EXCEPT !.h = q.v, !.v = q.h] = [h |-> b, v |-> a, table |-> d]
            BY <5>3, Exchanged
          <5> QED
            BY <5>2, <5>4, Zenon
        <4>3. Factors(t, c).h = plain(c).v /\ Factors(t, c).v = plain(c).h
          BY <2>1 DEF Factors
        <4> QED
          BY <4>2, <4>3
      <3> HIDE DEF turned, told
      <3> QED
        BY <2>1, <3>1, <3>2, <3>3
    <2>2. CASE t.op \notin Transposes
      <3>1. turned = sized
        BY <2>2
      <3>2. \A c \in 1 .. Num(t) : plain(c) = told(c)
        BY <2>2 DEF Factors
      <3> HIDE DEF turned, told, plain
      <3> QED
        BY <1>3, <1>4, <2>2, <3>1, <3>2
    <2> QED
      BY <2>1, <2>2
  <1>6. f = [turned EXCEPT !.jfif = jfif]
    BY DEF one, sized
  <1> HIDE DEF turned, told
  <1>7. /\ f.width = turned.width /\ f.height = turned.height /\ f.comps = turned.comps /\ f.tables = turned.tables
    BY <1>5, <1>6
  <1>8. ASSUME Num(t) = 1
        PROVE  Image.comps[1].h = MaxH(Image) /\ Image.comps[1].v = MaxV(Image)
    <2>1. CASE t.gray
      BY <2>1 DEF CanForceGray
    <2>2. CASE ~t.gray
      <3>1. Comps(Image) = {1} /\ job \in Jobs
        <4>1. Num(t) = Len(Image.comps)
          BY <2>2 DEF Num
        <4>2. Comps(Image) = 1 .. 1
          BY <1>1, <1>8, <4>1
        <4> QED
          BY <4>2 DEF Given
      <3>2. /\ {Image.comps[c].h : c \in Comps(Image)} = {Image.comps[1].h}
            /\ {Image.comps[c].v : c \in Comps(Image)} = {Image.comps[1].v}
            /\ Image.comps[1].h \in 1 .. 4 /\ Image.comps[1].v \in 1 .. 4
        BY <3>1, ImageFacts
      <3>3. \A n \in 1 .. 4 : Max({n}) = n
        BY LargestFactor
      <3> QED
        BY <3>2, <3>3 DEF MaxH, MaxV
    <2> QED
      BY <2>1, <2>2
  <1> QED
    BY <1>5, <1>7, <1>8 DEF FrameIs, told

LEMMA AdjustTransforms ==
    ASSUME TransformInv, AdjustParameters, ~Fail
    PROVE  TransformInv'
  <1> DEFINE i == info[nth]
             one == IF Num(Asked) = 1 THEN OneComponent(Copied) ELSE Copied
             sized == [one EXCEPT !.width = i.width, !.height = i.height]
             turned == IF Asked.op \in Transposes THEN TurnedParameters(sized) ELSE sized
             exif == Len(saved) > 0 /\ saved[1].kind = "Exif"
  <1>1. /\ pc = "adjust" /\ pc' = "write" /\ ~Mismatched /\ ~(Asked.gray /\ ~CanForceGray)
        /\ cinfo' = [turned EXCEPT !.jfif = @ /\ ~exif]
        /\ UNCHANGED <<job, nth, info, coefs, work, at, header, outs>>
    BY DEF AdjustParameters
  <1>2. Given(Asked) /\ ~IsRefused(Asked) /\ info[nth] = Requested(Asked)
    BY <1>1, AskedIs DEF TransformInv
  <1>3. PICK t, f : t = Asked /\ f = cinfo'
    OBVIOUS
  <1>4. FrameIs(f, t)
    <2>1. Given(t) /\ ~(t.gray /\ ~CanForceGray)
      BY <1>1, <1>2, <1>3
    <2>2. f = LET one_ == IF Num(t) = 1 THEN OneComponent(Copied) ELSE Copied
                  sized_ == [one_ EXCEPT !.width = Requested(t).width, !.height = Requested(t).height]
                  turned_ == IF t.op \in Transposes THEN TurnedParameters(sized_) ELSE sized_
              IN [turned_ EXCEPT !.jfif = turned.jfif /\ ~exif]
      BY <1>1, <1>2, <1>3
    <2> HIDE DEF turned, exif
    <2> QED
      BY <1>1, <2>1, <2>2, AdjustedFrame
  <1>5. FrameTold'
    <2>1. FrameIs(f, t)'
      BY <1>1, <1>4, SameFrame
    <2>2. Asked' = t /\ cinfo' = f
      BY <1>1, <1>3 DEF Asked
    <2> QED
      BY <2>1, <2>2 DEF FrameTold
  <1>6. JobTyped'
    BY <1>1, JobTypedKept DEF TransformInv, JobTyped
  <1>7. AllPrepared'
    BY <1>1, AllPreparedKept DEF TransformInv
  <1>8. ImageKept'
    BY <1>1, PristineKept, SameUnfiltered DEF TransformInv, ImageKept
  <1>9. Moving' /\ AllMade'
    BY <1>1 DEF Moving, AllMade
  <1> QED
    BY <1>1, <1>5, <1>6, <1>7, <1>8, <1>9, OutputsKept DEF TransformInv

LEMMA WriteTransforms ==
    ASSUME TransformInv, WriteCoefficients
    PROVE  TransformInv'
  <1>1. /\ pc = "write" /\ pc' = "move" /\ at' = [c |-> 1, row |-> 0]
        /\ UNCHANGED <<job, nth, info, coefs, saved, cinfo, work, outs>>
    BY DEF WriteCoefficients
  <1>2. JobTyped'
    BY <1>1, JobTypedKept DEF TransformInv, JobTyped
  <1>3. AllPrepared' /\ FrameTold'
    BY <1>1, AllPreparedKept, FrameKept DEF TransformInv
  <1>4. Given(Asked) /\ FrameIs(cinfo, Asked) /\ ~IsRefused(Asked)
    BY <1>1, AskedIs DEF TransformInv, FrameTold
  <1>5. Comps(cinfo) = 1 .. Num(Asked) /\ Num(Asked) \in Nat
    BY <1>4, FrameFacts, NumIs
  <1>6. MovesAreRight'
    <2> SUFFICES ASSUME Unfiltered(nth)'
                 PROVE  Pristine' /\ DoneAreMoved' /\ OthersAreKept'
      BY DEF MovesAreRight
    <2>1. Pristine
      BY <1>1, SameUnfiltered DEF TransformInv, ImageKept
    <2>2. Pristine'
      BY <1>1, <2>1, PristineKept
    <2>3. \A c \in Comps(cinfo) : \A y \in BlockRows(c) : ~RowIsDone(c, y)'
      BY <1>1, <1>5 DEF BlockRows, RowIsDone
    <2>4. DoneAreMoved'
      BY <1>1, <2>3 DEF DoneAreMoved, BlockRows
    <2>5. OthersAreKept'
      BY <2>2 DEF OthersAreKept, Pristine, Alike
    <2> QED
      BY <2>2, <2>4, <2>5
  <1>7. ImageKept' /\ Moving' /\ AllMade'
    BY <1>1, <1>6 DEF ImageKept, Moving, AllMade
  <1> QED
    BY <1>1, <1>2, <1>3, <1>7, OutputsKept DEF TransformInv

LEMMA GeometryIs ==
    ASSUME NEW c, info[nth] = Requested(Asked)
    PROVE  Geometry(c) = GeometryOf(cinfo, Asked, c)
  <1>1. /\ Uncropped(Asked).width = IF Asked.op \in Transposes THEN Image.height ELSE Image.width
        /\ Uncropped(Asked).height = IF Asked.op \in Transposes THEN Image.width ELSE Image.height
    BY DEF Uncropped
  <1> QED
    BY <1>1, Zenon DEF Geometry, GeometryOf

LEMMA ReachIs ==
    ASSUME Given(Asked), ~IsRefused(Asked), FrameIs(cinfo, Asked), NEW c \in Comps(cinfo)
    PROVE  WidthInBlocks(cinfo, c) <= Reach(c) /\ WidthInBlocks(cinfo, c) \in Nat /\ Reach(c) \in Nat
  BY FrameSizes DEF Reach

(* The rows of the iMCU are done then, and no other.                       *)
LEMMA DoneNow ==
    ASSUME JobTyped, AllPrepared, pc = "move", FrameTold, at.c \in Comps(cinfo),
           at \in [c : Nat \ {0}, row : Nat],
           at' = IF at.row + cinfo.comps[at.c].v < HeightInBlocks(cinfo, at.c)
                 THEN [at EXCEPT !.row = @ + cinfo.comps[at.c].v] ELSE [c |-> at.c + 1, row |-> 0],
           NEW c \in Comps(cinfo), NEW y \in BlockRows(c)
    PROVE  /\ RowIsDone(c, y)' <=> RowIsDone(c, y) \/ (c = at.c /\ y \in RowDone(c))
           /\ at' \in [c : Nat \ {0}, row : Nat]
           /\ y \in RowDone(c) /\ c = at.c => ~RowIsDone(c, y)
  <1> DEFINE v == cinfo.comps[at.c].v
             height == HeightInBlocks(cinfo, c)
  <1>1. /\ Given(Asked) /\ ~IsRefused(Asked) /\ FrameIs(cinfo, Asked)
    BY AskedIs DEF FrameTold
  <1>2. /\ Comps(cinfo) = 1 .. Num(Asked) /\ Num(Asked) \in Nat /\ v \in Nat \ {0}
    BY <1>1, FrameFacts, NumIs
  <1>3. height \in Nat /\ y \in 0 .. height - 1
    BY <1>1, FrameSizes DEF BlockRows
  <1>4. at.c \in Nat \ {0} /\ c \in Nat \ {0}
    BY <1>2
  <1>5. RowDone(at.c) = at.row .. at.row + v - 1
    BY DEF RowDone
  <1> HIDE DEF v, height
  <1>6. CASE at.row + v < HeightInBlocks(cinfo, at.c)
    <2>1. at' = [at EXCEPT !.row = at.row + v]
      BY <1>6 DEF v
    <2>2. at'.c = at.c /\ at'.row = at.row + v
      BY <2>1
    <2>3. at' \in [c : Nat \ {0}, row : Nat]
      BY <1>2, <2>1
    <2>4. at.row \in Nat /\ y \in Nat
      BY <1>3
    <2>5. (y < at.row + v <=> y < at.row \/ y \in at.row .. at.row + v - 1)
          /\ (y \in at.row .. at.row + v - 1 => ~(y < at.row))
      BY <1>2, <2>4
    <2>6. RowIsDone(c, y)' <=> c < at.c \/ (c = at.c /\ y < at.row + v)
      BY <2>2, Zenon DEF RowIsDone
    <2>7. c = at.c => ~(c < at.c)
      BY <1>4
    <2> QED
      BY <1>5, <2>3, <2>5, <2>6, <2>7, Zenon DEF RowIsDone
  <1>7. CASE ~(at.row + v < HeightInBlocks(cinfo, at.c))
    <2>1. at'.c = at.c + 1 /\ at'.row = 0
      BY <1>7 DEF v
    <2>2. c = at.c => y < at.row + v
      BY <1>2, <1>3, <1>7 DEF height
    <2>3. at' \in [c : Nat \ {0}, row : Nat]
      BY <1>4, <1>7 DEF v
    <2> QED
      BY <1>2, <1>3, <1>4, <1>5, <2>1, <2>2, <2>3 DEF RowIsDone
  <1> QED
    BY <1>6, <1>7

(* A row of a component's blocks moved into the workspace.                 *)
LEMMA RowIntoWorkspace ==
    ASSUME JobTyped, AllPrepared, pc = "move", FrameTold, info[nth].work,
           at.c \in Comps(cinfo), UNCHANGED <<job, nth, info, cinfo>>,
           work' = [work EXCEPT ![nth][at.c] = [y \in DOMAIN @ |->
                       IF y \in RowDone(at.c)
                       THEN [x \in DOMAIN @[y] |->
                                IF x < Reach(at.c) THEN Moved(Asked.op, coefs[at.c], Geometry(at.c), y, x) ELSE @[y][x]]
                       ELSE @[y]]]
    PROVE  /\ DOMAIN work' = Every /\ \A k \in Every : k # nth => work'[k] = work[k]
           /\ Alike(work'[nth], work[nth])
           /\ \A c \in DOMAIN work[nth] : c # at.c => work'[nth][c] = work[nth][c]
           /\ \A y \in DOMAIN work[nth][at.c] :
                  /\ y \notin RowDone(at.c) => work'[nth][at.c][y] = work[nth][at.c][y]
                  /\ y \in RowDone(at.c) => \A x \in DOMAIN work[nth][at.c][y] : x < Reach(at.c) =>
                         work'[nth][at.c][y][x] = Moved(Asked.op, coefs[at.c], Geometry(at.c), y, x)
  <1> DEFINE row(y, old) == [x \in DOMAIN old |->
                 IF x < Reach(at.c) THEN Moved(Asked.op, coefs[at.c], Geometry(at.c), y, x) ELSE old[x]]
             grid(old) == [y \in DOMAIN old |-> IF y \in RowDone(at.c) THEN row(y, old[y]) ELSE old[y]]
             w == work[nth]
             new == grid(w[at.c])
  <1>1. Given(Asked) /\ ~IsRefused(Asked) /\ FrameIs(cinfo, Asked) /\ Alike(w, Workspace(Asked, Requested(Asked)))
    BY AskedIs DEF FrameTold
  <1>2. DOMAIN w = 1 .. Num(Asked) /\ Comps(cinfo) = 1 .. Num(Asked)
    BY <1>1, FrameFacts DEF Alike, Workspace
  <1>3. work' = [work EXCEPT ![nth] = [w EXCEPT ![at.c] = new]]
    OBVIOUS
  <1>4. nth \in DOMAIN work /\ at.c \in DOMAIN w /\ DOMAIN work = Every
    BY <1>2 DEF JobTyped
  <1>5. /\ DOMAIN new = DOMAIN w[at.c]
        /\ \A y \in DOMAIN w[at.c] : new[y] = IF y \in RowDone(at.c) THEN row(y, w[at.c][y]) ELSE w[at.c][y]
    OBVIOUS
  <1>6. \A y, old : /\ DOMAIN row(y, old) = DOMAIN old
                    /\ \A x \in DOMAIN old : x < Reach(at.c) =>
                           row(y, old)[x] = Moved(Asked.op, coefs[at.c], Geometry(at.c), y, x)
    OBVIOUS
  <1> HIDE DEF row, new
  <1>7. \A y \in DOMAIN w[at.c] : DOMAIN new[y] = DOMAIN w[at.c][y]
    BY <1>5, <1>6
  <1>8. work'[nth] = [w EXCEPT ![at.c] = new] /\ DOMAIN work' = Every /\ \A k \in Every : k # nth => work'[k] = work[k]
    BY <1>3, <1>4
  <1> HIDE DEF w
  <1>9. work'[nth][at.c] = new /\ DOMAIN work'[nth] = DOMAIN w /\ \A c \in DOMAIN w : c # at.c => work'[nth][c] = w[c]
    BY <1>4, <1>8
  <1>10. Alike(work'[nth], w)
    BY <1>5, <1>7, <1>9 DEF Alike
  <1>11. ASSUME NEW y \in DOMAIN w[at.c], y \notin RowDone(at.c)
         PROVE  new[y] = w[at.c][y]
    BY <1>5, <1>11
  <1>12. ASSUME NEW y \in DOMAIN w[at.c], y \in RowDone(at.c), NEW x \in DOMAIN w[at.c][y], x < Reach(at.c)
         PROVE  new[y][x] = Moved(Asked.op, coefs[at.c], Geometry(at.c), y, x)
    <2>1. new[y] = row(y, w[at.c][y])
      BY <1>5, <1>12
    <2> QED
      BY <1>6, <1>12, <2>1, Zenon
  <1>13. /\ DOMAIN work' = Every /\ \A k \in Every : k # nth => work'[k] = work[k]
         /\ \A c \in DOMAIN w : c # at.c => work'[nth][c] = w[c]
    BY <1>8, <1>9, Zenon
  <1>14. \A y \in DOMAIN w[at.c] :
             /\ y \notin RowDone(at.c) => work'[nth][at.c][y] = w[at.c][y]
             /\ y \in RowDone(at.c) => \A x \in DOMAIN w[at.c][y] : x < Reach(at.c) =>
                    work'[nth][at.c][y][x] = Moved(Asked.op, coefs[at.c], Geometry(at.c), y, x)
    BY <1>9, <1>11, <1>12, Zenon
  <1> QED
    BY <1>10, <1>13, <1>14, Zenon DEF w

(* No component is without columns.                                        *)
LEMMA HasColumns ==
    ASSUME Given(Asked), ~IsRefused(Asked), FrameIs(cinfo, Asked), NEW c \in Comps(cinfo)
    PROVE  0 \in BlockColumns(c)
  <1>1. cinfo.width \in Nat \ {0}
    BY RequestedIs DEF FrameIs
  <1>2. cinfo.comps[c].h \in Nat \ {0} /\ MaxH(cinfo) * D \in Nat \ {0}
    BY FrameFacts
  <1>3. PICK n \in Int, m \in Nat \ {0} : n = cinfo.width * cinfo.comps[c].h /\ m = MaxH(cinfo) * D /\ n > 0
    <2>1. \A a, b \in Nat \ {0} : a * b \in Int /\ a * b > 0
      OBVIOUS
    <2>2. cinfo.width * cinfo.comps[c].h \in Int /\ cinfo.width * cinfo.comps[c].h > 0
      BY <1>1, <1>2, <2>1, Zenon
    <2> QED
      BY <1>2, <2>2, Zenon
  <1>4. DivUp(n, m) \in Int /\ \A k \in Int : k < DivUp(n, m) <=> k * m < n
    BY DivUpIs
  <1>5. 0 < DivUp(n, m)
    BY <1>3, <1>4
  <1>6. WidthInBlocks(cinfo, c) = DivUp(n, m)
    BY <1>3, Zenon DEF WidthInBlocks
  <1> QED
    BY <1>4, <1>5, <1>6 DEF BlockColumns

LEMMA AlikeTrans ==
    ASSUME NEW u, NEW v, NEW w, Alike(u, v), Alike(v, w)
    PROVE  Alike(u, w)
  BY DEF Alike

(* A row moved into the workspace.                                         *)
LEMMA MoveIntoWorkspace ==
    ASSUME TransformInv, MoveRow, info[nth].work
    PROVE  AllPrepared' /\ MovesAreRight'
  <1>1. /\ pc = "move" /\ pc' = "move" /\ MovesAnything /\ at.c \in Comps(cinfo)
        /\ UNCHANGED <<job, nth, info, cinfo, coefs>>
        /\ work' = [work EXCEPT ![nth][at.c] = [y \in DOMAIN @ |->
                       IF y \in RowDone(at.c)
                       THEN [x \in DOMAIN @[y] |->
                                IF x < Reach(at.c) THEN Moved(Asked.op, coefs[at.c], Geometry(at.c), y, x) ELSE @[y][x]]
                       ELSE @[y]]]
        /\ at' = IF at.row + cinfo.comps[at.c].v < HeightInBlocks(cinfo, at.c)
                 THEN [at EXCEPT !.row = @ + cinfo.comps[at.c].v] ELSE [c |-> at.c + 1, row |-> 0]
    BY DEF MoveRow
  <1>2. JobTyped /\ AllPrepared /\ FrameTold /\ at \in [c : Nat \ {0}, row : Nat] /\ MovesAreRight
    BY <1>1 DEF TransformInv, Moving
  <1>3. /\ Given(Asked) /\ ~IsRefused(Asked) /\ info[nth] = Requested(Asked) /\ FrameIs(cinfo, Asked)
        /\ Alike(work[nth], Workspace(Asked, Requested(Asked)))
    BY <1>1, <1>2, AskedIs DEF FrameTold
  <1>4. /\ DOMAIN work' = Every /\ \A k \in Every : k # nth => work'[k] = work[k]
        /\ Alike(work'[nth], work[nth])
        /\ \A c \in DOMAIN work[nth] : c # at.c => work'[nth][c] = work[nth][c]
        /\ \A y \in DOMAIN work[nth][at.c] :
               /\ y \notin RowDone(at.c) => work'[nth][at.c][y] = work[nth][at.c][y]
               /\ y \in RowDone(at.c) => \A x \in DOMAIN work[nth][at.c][y] : x < Reach(at.c) =>
                      work'[nth][at.c][y][x] = Moved(Asked.op, coefs[at.c], Geometry(at.c), y, x)
    BY <1>1, <1>2, RowIntoWorkspace
  <1>5. ASSUME NEW k \in Every
        PROVE  Prepared(k)'
    <2> DEFINE t == Transformation(k)
    <2>1. t' = t /\ Requested(t)' = Requested(t) /\ IsRefused(t)' = IsRefused(t)
          /\ Workspace(t, Requested(t))' = Workspace(t, Requested(t)) /\ info'[k] = info[k]
      <3>1. t' = t
        BY <1>1 DEF Transformation
      <3> QED
        BY <1>1, <3>1, SameRequest, SameWorkspace
    <2>2. Prepared(k)
      BY <1>1, <1>2 DEF AllPrepared
    <2>3. info[k].work => Alike(work'[k], Workspace(t, Requested(t)))
      <3>1. CASE k = nth
        <4>1. t = Asked
          BY <3>1 DEF Transformation, Asked
        <4> QED
          BY <1>3, <1>4, <3>1, <4>1, AlikeTrans
      <3>2. CASE k # nth
        BY <1>4, <2>2, <3>2 DEF Prepared
      <3> QED
        BY <3>1, <3>2
    <2> QED
      BY <2>1, <2>2, <2>3 DEF Prepared
  <1>6. AllPrepared'
    BY <1>1, <1>5 DEF AllPrepared, Every
  <1>7. MovesAreRight'
    <2> SUFFICES ASSUME Unfiltered(nth)'
                 PROVE  Pristine' /\ DoneAreMoved'
      BY <1>1 DEF MovesAreRight
    <2>1. Unfiltered(nth) /\ Asked' = Asked
      BY <1>1, SameUnfiltered DEF Asked
    <2>2. Pristine /\ DoneAreMoved
      BY <1>1, <1>2, <2>1 DEF MovesAreRight
    <2>3. Pristine'
      BY <1>1, <2>2, PristineKept
    <2>4. ASSUME NEW c \in Comps(cinfo), NEW y \in BlockRows(c), NEW x \in BlockColumns(c), RowIsDone(c, y)'
          PROVE  work'[nth][c][y][x] = MovedBlock(Asked, c, y, x)
      <3>1. RowIsDone(c, y) \/ (c = at.c /\ y \in RowDone(at.c))
        BY <1>1, <1>2, <2>4, DoneNow
      <3>2. /\ y \in Nat /\ y < HeightInBlocks(cinfo, c) /\ x \in Nat /\ x < WidthInBlocks(cinfo, c)
            /\ WidthInBlocks(cinfo, c) \in Nat
        <4>1. WidthInBlocks(cinfo, c) \in Nat /\ HeightInBlocks(cinfo, c) \in Nat
          BY <1>3, FrameSizes
        <4> QED
          BY <4>1 DEF BlockRows, BlockColumns
      <3>3. IsBlock(work[nth], c, y, x)
        BY <1>3, <3>2, RoomInWorkspace, RoomOfAlike
      <3>4. CASE c = at.c /\ y \in RowDone(at.c)
        <4>1. x < Reach(at.c)
          <5>1. WidthInBlocks(cinfo, c) <= Reach(c) /\ Reach(c) \in Nat
            BY <1>3, ReachIs
          <5> QED
            BY <3>2, <3>4, <5>1
        <4>2. work'[nth][c][y][x] = Moved(Asked.op, coefs[c], Geometry(c), y, x)
          BY <1>4, <3>3, <3>4, <4>1 DEF IsBlock
        <4>3. Geometry(c) = GeometryOf(cinfo, Asked, c) /\ coefs[c] = Coefficients(Image)[c]
          BY <1>3, <2>2, GeometryIs DEF Pristine
        <4> QED
          BY <4>2, <4>3 DEF MovedBlock
      <3>5. CASE ~(c = at.c /\ y \in RowDone(at.c))
        <4>1. work'[nth][c][y] = work[nth][c][y]
          BY <1>4, <3>3, <3>5 DEF IsBlock
        <4>2. work[nth][c][y][x] = MovedBlock(Asked, c, y, x)
          BY <2>2, <3>1, <3>5 DEF DoneAreMoved, Result
        <4> QED
          BY <4>1, <4>2
      <3> QED
        BY <3>4, <3>5
    <2>5. \A c, y, x : MovedBlock(Asked, c, y, x)' = MovedBlock(Asked, c, y, x)
      BY <1>1, <2>1, SameMovedBlock
    <2>6. Result' = work'[nth]
      BY <1>1 DEF Result
    <2>7. DoneAreMoved'
      <3>1. \A c : BlockRows(c)' = BlockRows(c) /\ BlockColumns(c)' = BlockColumns(c)
        BY <1>1 DEF BlockRows, BlockColumns
      <3>2. Comps(cinfo)' = Comps(cinfo) /\ Asked' = Asked
        BY <1>1, <2>1
      <3>3. ASSUME NEW c \in Comps(cinfo), NEW y \in BlockRows(c), NEW x \in BlockColumns(c), RowIsDone(c, y)'
            PROVE  Result'[c][y][x] = MovedBlock(Asked, c, y, x)'
        <4>1. work'[nth][c][y][x] = MovedBlock(Asked, c, y, x)
          BY <2>4, <3>3
        <4>2. MovedBlock(Asked, c, y, x)' = MovedBlock(Asked, c, y, x)
          BY <2>5
        <4> QED
          BY <2>6, <4>1, <4>2
      <3> QED
        BY <3>1, <3>2, <3>3 DEF DoneAreMoved
    <2> QED
      BY <2>3, <2>7
  <1> QED
    BY <1>6, <1>7

(* A row mirrored in place.                                                *)
LEMMA MoveInPlace ==
    ASSUME TransformInv, MoveRow, ~info[nth].work
    PROVE  AllPrepared' /\ MovesAreRight'
  <1>1. /\ pc = "move" /\ pc' = "move" /\ MovesAnything /\ at.c \in Comps(cinfo)
        /\ UNCHANGED <<job, nth, info, cinfo, work>>
        /\ coefs' = [coefs EXCEPT ![at.c] = [y \in DOMAIN @ |->
                        IF y \in RowDone(at.c) THEN DoFlipHNoCrop(@[y], Geometry(at.c), WidthInBlocks(cinfo, at.c)) ELSE @[y]]]
        /\ at' = IF at.row + cinfo.comps[at.c].v < HeightInBlocks(cinfo, at.c)
                 THEN [at EXCEPT !.row = @ + cinfo.comps[at.c].v] ELSE [c |-> at.c + 1, row |-> 0]
    BY DEF MoveRow
  <1>2. JobTyped /\ AllPrepared /\ FrameTold /\ at \in [c : Nat \ {0}, row : Nat] /\ MovesAreRight
    BY <1>1 DEF TransformInv, Moving
  <1>3. /\ Given(Asked) /\ ~IsRefused(Asked) /\ info[nth] = Requested(Asked) /\ FrameIs(cinfo, Asked)
    BY <1>1, <1>2, AskedIs DEF FrameTold
  <1>4. AllPrepared'
    BY <1>1, <1>2, AllPreparedKept
  <1>5. Asked.op = "FLIP_H"
    BY <1>1, <1>3, WithoutWorkspace DEF MovesAnything
  <1>6. MovesAreRight'
    <2> SUFFICES ASSUME Unfiltered(nth)'
                 PROVE  DoneAreMoved' /\ OthersAreKept'
      <3>1. Asked'.op = "FLIP_H" /\ ~info'[nth'].work
        BY <1>1, <1>5 DEF Asked
      <3> QED
        BY <3>1 DEF MovesAreRight
    <2>1. Unfiltered(nth) /\ Asked' = Asked
      BY <1>1, SameUnfiltered DEF Asked
    <2>2. DoneAreMoved /\ OthersAreKept
      BY <1>1, <1>2, <2>1 DEF MovesAreRight
    <2> DEFINE image == Coefficients(Image)
               mirrored(row) == DoFlipHNoCrop(row, Geometry(at.c), WidthInBlocks(cinfo, at.c))
               grid(old) == [y \in DOMAIN old |-> IF y \in RowDone(at.c) THEN mirrored(old[y]) ELSE old[y]]
               new == grid(coefs[at.c])
    <2>3. image' = image /\ Alike(coefs, image)
      BY <1>1, <2>2, SameImage DEF OthersAreKept
    <2>4. at.c \in DOMAIN coefs
      <3>1. at.c \in Comps(Image)
        BY <1>1, <1>3, FrameFacts
      <3> QED
        BY <2>3, <3>1 DEF Alike, Coefficients
    <2>5. \A row : DOMAIN mirrored(row) = DOMAIN row
      BY DEF DoFlipHNoCrop
    <2>6. coefs' = [coefs EXCEPT ![at.c] = new]
      BY <1>1
    <2> HIDE DEF mirrored, image
    <2>7. /\ DOMAIN new = DOMAIN coefs[at.c]
          /\ \A y \in DOMAIN new : new[y] = IF y \in RowDone(at.c) THEN mirrored(coefs[at.c][y]) ELSE coefs[at.c][y]
      OBVIOUS
    <2> HIDE DEF new
    <2>8. coefs'[at.c] = new /\ DOMAIN coefs' = DOMAIN coefs /\ \A c \in DOMAIN coefs : c # at.c => coefs'[c] = coefs[c]
      BY <2>4, <2>6
    <2>9. Alike(coefs', coefs)
      BY <2>5, <2>7, <2>8 DEF Alike
    <2>10. Alike(coefs', image)
      BY <2>3, <2>9, AlikeTrans
    <2>11. ASSUME NEW c \in Comps(cinfo), NEW y \in BlockRows(c)
           PROVE  /\ RowIsDone(c, y)' <=> RowIsDone(c, y) \/ (c = at.c /\ y \in RowDone(at.c))
                  /\ c = at.c /\ y \in RowDone(at.c) => ~RowIsDone(c, y)
      BY <1>1, <1>2, DoneNow
    <2>12. ASSUME NEW c \in Comps(cinfo), NEW y \in BlockRows(c), ~(c = at.c /\ y \in RowDone(at.c)),
                  NEW x \in BlockColumns(c)
           PROVE  coefs'[c][y] = coefs[c][y]
      <3>1. y \in Nat /\ y < HeightInBlocks(cinfo, c) /\ x \in Nat /\ x < WidthInBlocks(cinfo, c)
        <4>1. WidthInBlocks(cinfo, c) \in Nat /\ HeightInBlocks(cinfo, c) \in Nat
          BY <1>3, FrameSizes
        <4> QED
          BY <4>1 DEF BlockRows, BlockColumns
      <3>2. IsBlock(Result, c, y, x)
        BY <1>1, <1>2, <2>3, <3>1, RoomInResult DEF image
      <3>3. c \in DOMAIN coefs /\ y \in DOMAIN coefs[c]
        BY <1>1, <3>2 DEF IsBlock, Result
      <3> QED
        BY <2>7, <2>8, <2>12, <3>3
    <2>13. ASSUME NEW c \in Comps(cinfo), NEW y \in BlockRows(c), NEW x \in BlockColumns(c), RowIsDone(c, y)'
           PROVE  coefs'[c][y][x] = MovedBlock(Asked, c, y, x)
      <3>1. CASE c = at.c /\ y \in RowDone(at.c)
        <4>1. y \in Nat /\ y < HeightInBlocks(cinfo, c) /\ x \in Nat /\ x < WidthInBlocks(cinfo, c)
          <5>1. WidthInBlocks(cinfo, c) \in Nat /\ HeightInBlocks(cinfo, c) \in Nat
            BY <1>3, FrameSizes
          <5> QED
            BY <5>1 DEF BlockRows, BlockColumns
        <4>2. IsBlock(coefs, c, y, x)
          BY <1>1, <1>2, <2>3, <4>1, RoomInResult DEF image, Result
        <4>3. coefs'[c][y] = mirrored(coefs[c][y])
          BY <2>7, <2>8, <3>1, <4>2 DEF IsBlock
        <4>4. coefs[c][y] = image[c][y]
          BY <2>2, <2>11, <3>1 DEF OthersAreKept, image
        <4>5. ~Requested(Asked).work /\ Geometry(c) = GeometryOf(cinfo, Asked, c)
          BY <1>1, <1>3, GeometryIs
        <4>6. DoFlipHNoCrop(image[c][y], GeometryOf(cinfo, Asked, c), WidthInBlocks(cinfo, c))[x]
              = MovedBlock(Asked, c, y, x)
          BY <1>3, <1>5, <4>1, <4>5, MirroredInPlace DEF image
        <4> QED
          BY <3>1, <4>3, <4>4, <4>5, <4>6 DEF mirrored
      <3>2. CASE ~(c = at.c /\ y \in RowDone(at.c))
        <4>1. RowIsDone(c, y)
          BY <2>11, <2>13, <3>2
        <4>2. coefs[c][y][x] = MovedBlock(Asked, c, y, x)
          BY <1>1, <2>2, <4>1 DEF DoneAreMoved, Result
        <4> QED
          BY <2>12, <3>2, <4>2
      <3> QED
        BY <3>1, <3>2
    <2>14. \A c, y, x : MovedBlock(Asked, c, y, x)' = MovedBlock(Asked, c, y, x)
      BY <1>1, <2>1, SameMovedBlock
    <2>15. Result' = coefs'
      BY <1>1 DEF Result
    <2>16. DoneAreMoved'
      BY <1>1, <2>13, <2>14, <2>15 DEF DoneAreMoved, BlockRows, BlockColumns
    <2>17. OthersAreKept'
      <3>1. ASSUME NEW c \in Comps(cinfo), NEW y \in BlockRows(c), ~RowIsDone(c, y)'
            PROVE  coefs'[c][y] = image[c][y]
        <4>1. ~RowIsDone(c, y) /\ ~(c = at.c /\ y \in RowDone(at.c))
          BY <2>11, <3>1
        <4>2. coefs[c][y] = image[c][y]
          BY <2>2, <4>1 DEF OthersAreKept, image
        <4>3. 0 \in BlockColumns(c)
          BY <1>3, HasColumns
        <4> QED
          BY <2>12, <4>1, <4>2, <4>3
      <3> QED
        BY <1>1, <2>3, <2>10, <3>1 DEF OthersAreKept, BlockRows, image
    <2> QED
      BY <2>16, <2>17
  <1> QED
    BY <1>4, <1>6

LEMMA MoveTransforms ==
    ASSUME TransformInv, MoveRow
    PROVE  TransformInv'
  <1>1. /\ pc = "move" /\ pc' = "move" /\ MovesAnything /\ at.c \in Comps(cinfo)
        /\ at' = IF at.row + cinfo.comps[at.c].v < HeightInBlocks(cinfo, at.c)
                 THEN [at EXCEPT !.row = @ + cinfo.comps[at.c].v] ELSE [c |-> at.c + 1, row |-> 0]
        /\ UNCHANGED <<job, nth, info, saved, cinfo, header, outs>>
    BY DEF MoveRow
  <1>2. JobTyped /\ AllPrepared /\ FrameTold /\ at \in [c : Nat \ {0}, row : Nat]
    BY <1>1 DEF TransformInv, Moving
  <1>3. AllPrepared' /\ MovesAreRight'
    BY MoveIntoWorkspace, MoveInPlace
  <1>4. at' \in [c : Nat \ {0}, row : Nat]
    <2>1. HeightInBlocks(cinfo, at.c) \in Nat /\ cinfo.comps[at.c].v \in 1 .. 4
      <3>1. Given(Asked) /\ ~IsRefused(Asked) /\ FrameIs(cinfo, Asked)
        BY <1>1, <1>2, AskedIs DEF FrameTold
      <3> QED
        BY <1>1, <3>1, FrameSizes, FrameFacts
    <2> QED
      BY <1>1, <1>2, <2>1
  <1>5. DOMAIN work' = DOMAIN work
    BY DEF MoveRow
  <1>6. JobTyped'
    BY <1>1, <1>2, <1>5, JobTypedKept DEF JobTyped
  <1>7. FrameTold' /\ ImageKept' /\ Moving' /\ AllMade'
    BY <1>1, <1>2, <1>3, <1>4, FrameKept DEF ImageKept, Moving, AllMade
  <1> QED
    BY <1>1, <1>3, <1>6, <1>7, OutputsKept DEF TransformInv

LEMMA MatrixIsSet ==
    ASSUME NEW b \in Matrices
    PROVE  b # Unset
  <1>1. 0 \in DOMAIN b
    BY Symmetry DEF Matrices, Index
  <1>2. DOMAIN Unset = {}
    BY DEF Unset
  <1> QED
    BY <1>1, <1>2

LEMMA DoubledAlike ==
    ASSUME NEW v, NEW w, DOMAIN w = DOMAIN v, \A c \in DOMAIN v : w[c] = v[c] \/ w[c] = DoubledArray(v[c], c)
    PROVE  Alike(w, v)
  <1>1. ASSUME NEW grid, NEW c
        PROVE  /\ DOMAIN DoubledArray(grid, c) = DOMAIN grid
               /\ \A y \in DOMAIN grid : DOMAIN DoubledArray(grid, c)[y] = DOMAIN grid[y]
    <2> DEFINE row(r) == [x \in DOMAIN r |->
                   IF x < WidthInBlocks(cinfo, c) /\ r[x] # Unset THEN Scaled(r[x], 2) ELSE r[x]]
    <2>1. \A r : DOMAIN row(r) = DOMAIN r
      OBVIOUS
    <2>2. DoubledArray(grid, c) = [y \in DOMAIN grid |-> IF y >= Rows(cinfo, c) THEN grid[y] ELSE row(grid[y])]
      BY DEF DoubledArray
    <2> HIDE DEF row
    <2> QED
      BY <2>1, <2>2
  <1> QED
    BY <1>1 DEF Alike

(* What the filter makes of a block that was moved.                        *)
LEMMA DoubledBlock ==
    ASSUME NEW t, Given(t), ~IsRefused(t), FrameIs(cinfo, t), t.filter = "doubles", NEW c \in Comps(cinfo),
           NEW y \in BlockRows(c), NEW x \in BlockColumns(c), NEW grid,
           y \in DOMAIN grid, x \in DOMAIN grid[y], grid[y][x] = MovedBlock(t, c, y, x)
    PROVE  DoubledArray(grid, c)[y][x] = RightBlock(cinfo, t, c, y, x)
  <1> DEFINE b == MovedBlock(t, c, y, x)
  <1>1. /\ WidthInBlocks(cinfo, c) \in Nat /\ HeightInBlocks(cinfo, c) \in Nat
        /\ Rows(cinfo, c) \in Nat /\ HeightInBlocks(cinfo, c) <= Rows(cinfo, c)
    BY FrameSizes
  <1>2. /\ y \in Nat /\ y < HeightInBlocks(cinfo, c) /\ x \in Nat /\ x < WidthInBlocks(cinfo, c)
        /\ ~(y >= Rows(cinfo, c))
    BY <1>1 DEF BlockRows, BlockColumns
  <1>3. b \in Matrices
    BY <1>2, MovedIsBlock
  <1>4. b # Unset
    BY <1>3, MatrixIsSet
  <1> HIDE DEF b
  <1>5. grid[y][x] = b
    BY DEF b
  <1>6. DoubledArray(grid, c)[y][x] = Scaled(b, 2)
    BY <1>2, <1>4, <1>5 DEF DoubledArray
  <1>7. RightBlock(cinfo, t, c, y, x) = Scaled(b, 2)
    BY DEF RightBlock, Doubled, b, MovedBlock
  <1> QED
    BY <1>6, <1>7

(* ... and of the whole result.                                            *)
LEMMA DoubledResult ==
    ASSUME TransformInv, pc = "move", AllMoved, Asked.filter = "doubles", Unfiltered(nth),
           NEW arrays, DOMAIN arrays = DOMAIN Result,
           \A c \in Comps(cinfo) : arrays[c] = DoubledArray(Result[c], c)
    PROVE  \A c \in Comps(cinfo) : \A y \in BlockRows(c), x \in BlockColumns(c) :
               arrays[c][y][x] = RightBlock(cinfo, Asked, c, y, x)
  <1>1. JobTyped /\ AllPrepared /\ FrameTold /\ Moving /\ MovesAreRight
    BY DEF TransformInv, Moving
  <1>2. Given(Asked) /\ ~IsRefused(Asked) /\ info[nth] = Requested(Asked) /\ FrameIs(cinfo, Asked)
    BY <1>1, AskedIs DEF FrameTold
  <1>3. AllMoves(Asked)
    BY <1>1, AllIsMoved
  <1>4. ~info[nth].work => Alike(coefs, Coefficients(Image))
    BY <1>1 DEF MovesAreRight, MovesAnything, OthersAreKept, Pristine, Alike
  <1>5. ASSUME NEW c \in Comps(cinfo), NEW y \in BlockRows(c), NEW x \in BlockColumns(c)
        PROVE  arrays[c][y][x] = RightBlock(cinfo, Asked, c, y, x)
    <2>1. y \in Nat /\ y < HeightInBlocks(cinfo, c) /\ x \in Nat /\ x < WidthInBlocks(cinfo, c)
      <3>1. WidthInBlocks(cinfo, c) \in Nat /\ HeightInBlocks(cinfo, c) \in Nat
        BY <1>2, FrameSizes
      <3> QED
        BY <3>1 DEF BlockRows, BlockColumns
    <2>2. IsBlock(Result, c, y, x)
      BY <1>1, <1>4, <2>1, RoomInResult
    <2>3. Result[c][y][x] = MovedBlock(Asked, c, y, x)
      BY <1>3 DEF AllMoves
    <2>4. DoubledArray(Result[c], c)[y][x] = RightBlock(cinfo, Asked, c, y, x)
      BY <1>2, <2>2, <2>3, DoubledBlock DEF IsBlock
    <2> QED
      BY <2>4
  <1> QED
    BY <1>5

LEMMA FilterTransforms ==
    ASSUME TransformInv, CustomFilter, ~Fail
    PROVE  TransformInv'
  <1> DEFINE t == Asked
             doubled == [c \in DOMAIN work[nth] |-> DoubledArray(work[nth][c], c)]
             image == [c \in DOMAIN coefs |-> IF c \in Comps(cinfo) THEN DoubledArray(coefs[c], c) ELSE coefs[c]]
  <1>1. /\ pc = "move" /\ AllMoved /\ t.filter \notin {"none", "fails"} /\ pc' = "finish"
        /\ IF info[nth].work THEN work' = [work EXCEPT ![nth] = doubled] /\ UNCHANGED coefs
           ELSE coefs' = image /\ UNCHANGED work
        /\ UNCHANGED <<job, nth, info, saved, cinfo, at, header, outs>>
    BY DEF CustomFilter
  <1>2. JobTyped /\ AllPrepared /\ FrameTold /\ MovesAreRight
    BY <1>1 DEF TransformInv, Moving
  <1>3. /\ Given(t) /\ ~IsRefused(t) /\ info[nth] = Requested(t) /\ FrameIs(cinfo, t)
        /\ info[nth].work => Alike(work[nth], Workspace(t, Requested(t)))
    BY <1>1, <1>2, AskedIs DEF FrameTold
  <1>4. t.filter = "doubles" /\ t' = t
    <2>1. t.filter \in {"none", "doubles", "fails"}
      BY <1>3, TransformFacts DEF Given
    <2> QED
      BY <1>1, <2>1 DEF Asked
  <1>5. /\ DOMAIN work' = Every /\ \A k \in Every : k # nth => work'[k] = work[k]
        /\ info[nth].work => work'[nth] = doubled /\ Alike(work'[nth], work[nth])
    <2>1. Alike(doubled, work[nth])
      BY DoubledAlike
    <2> HIDE DEF doubled
    <2> QED
      BY <1>1, <1>2, <2>1 DEF JobTyped
  <1> HIDE DEF t
  <1>6. ASSUME NEW k \in Every
        PROVE  Prepared(k)'
    <2> DEFINE s == Transformation(k)
    <2>1. s' = s /\ Requested(s)' = Requested(s) /\ IsRefused(s)' = IsRefused(s)
          /\ Workspace(s, Requested(s))' = Workspace(s, Requested(s)) /\ info'[k] = info[k]
      <3>1. s' = s
        BY <1>1 DEF Transformation
      <3> QED
        BY <1>1, <3>1, SameRequest, SameWorkspace
    <2>2. Prepared(k)
      BY <1>1, <1>2 DEF AllPrepared
    <2>3. info[k].work => Alike(work'[k], Workspace(s, Requested(s)))
      <3>1. CASE k = nth
        <4>1. s = t
          BY <3>1 DEF Transformation, Asked, t
        <4> QED
          BY <1>3, <1>5, <3>1, <4>1, AlikeTrans
      <3>2. CASE k # nth
        BY <1>5, <2>2, <3>2 DEF Prepared
      <3> QED
        BY <3>1, <3>2
    <2> QED
      BY <2>1, <2>2, <2>3 DEF Prepared
  <1>7. AllPrepared'
    BY <1>1, <1>6 DEF AllPrepared, Every
  <1>8. Made'
    <2> SUFFICES ASSUME Unfiltered(nth)'
                 PROVE  (info'[nth'].work => Pristine') /\ ResultIsRight(Asked)'
      BY DEF Made
    <2>1. Unfiltered(nth)
      BY <1>1, SameUnfiltered
    <2>2. info'[nth'].work => Pristine'
      <3>1. info[nth].work => Pristine
        BY <1>2, <2>1 DEF MovesAreRight
      <3> QED
        BY <1>1, <3>1, PristineKept
    <2>3. /\ DOMAIN Result' = DOMAIN Result
          /\ \A c \in Comps(cinfo) : c \in DOMAIN Result => Result'[c] = DoubledArray(Result[c], c)
      BY <1>1, <1>5 DEF Result
    <2>4. Comps(cinfo) \subseteq DOMAIN Result
      <3>1. Comps(cinfo) = 1 .. Num(t) /\ Comps(cinfo) \subseteq Comps(Image)
        BY <1>3, FrameFacts
      <3>2. info[nth].work => DOMAIN work[nth] = 1 .. Num(t)
        BY <1>3 DEF Alike, Workspace
      <3>3. ~info[nth].work => DOMAIN coefs = Comps(Image)
        BY <1>2, <2>1 DEF MovesAreRight, MovesAnything, OthersAreKept, Pristine, Alike, Coefficients
      <3> QED
        BY <3>1, <3>2, <3>3 DEF Result
    <2>5. \A c \in Comps(cinfo) : \A y \in BlockRows(c), x \in BlockColumns(c) :
              Result'[c][y][x] = RightBlock(cinfo, t, c, y, x)
      <3>1. PICK arrays : arrays = Result'
        OBVIOUS
      <3>2. DOMAIN arrays = DOMAIN Result /\ \A c \in Comps(cinfo) : arrays[c] = DoubledArray(Result[c], c)
        BY <2>3, <2>4, <3>1
      <3>3. \A c \in Comps(cinfo) : \A y \in BlockRows(c), x \in BlockColumns(c) :
                arrays[c][y][x] = RightBlock(cinfo, Asked, c, y, x)
        BY <1>1, <1>4, <2>1, <3>2, DoubledResult DEF t
      <3> QED
        BY <3>1, <3>3 DEF t
    <2>6. \A c, y, x : RightBlock(cinfo, Asked, c, y, x)' = RightBlock(cinfo, t, c, y, x)
      BY <1>1, <1>4, SameRightBlock DEF t
    <2>7. ResultIsRight(Asked)'
      <3>1. \A c : BlockRows(c)' = BlockRows(c) /\ BlockColumns(c)' = BlockColumns(c)
        BY <1>1 DEF BlockRows, BlockColumns
      <3>2. Comps(cinfo)' = Comps(cinfo)
        BY <1>1
      <3>3. ASSUME NEW c \in Comps(cinfo), NEW y \in BlockRows(c), NEW x \in BlockColumns(c)
            PROVE  Result'[c][y][x] = RightBlock(cinfo, Asked, c, y, x)'
        BY <2>5, <2>6
      <3> QED
        BY <3>1, <3>2, <3>3 DEF ResultIsRight
    <2> QED
      BY <2>2, <2>7
  <1>9. AllMade'
    BY <1>1, <1>4, <1>8 DEF AllMade, t
  <1>10. JobTyped'
    BY <1>1, <1>2, <1>5, JobTypedKept DEF JobTyped
  <1>11. FrameTold' /\ ImageKept' /\ Moving'
    BY <1>1, <1>2, FrameKept DEF ImageKept, Moving
  <1> QED
    BY <1>1, <1>7, <1>9, <1>10, <1>11, OutputsKept DEF TransformInv

(* The image's own arrays are as they were for the transform after this.   *)
LEMMA NextIsPristine ==
    ASSUME TransformInv, Finish, ~LastOne, Unfiltered(nth + 1)
    PROVE  Pristine
  <1>1. \/ pc = "finish"
        \/ pc = "move" /\ AllMoved /\ Asked.filter = "none"
    BY DEF Finish
  <1>2. JobTyped /\ AllPrepared
    BY DEF TransformInv
  <1>3. Given(Asked) /\ ~IsRefused(Asked) /\ info[nth] = Requested(Asked)
    BY <1>1, <1>2, AskedIs
  <1>4. /\ Every = 1 .. Len(job.transforms) /\ nth \in Every
        /\ job.client = "jpegtran" => Len(job.transforms) = 1
        /\ job.client \in {"jpegtran", "tjTransform"} /\ Len(job.transforms) \in Nat \ {0}
    BY <1>2, JobFacts DEF JobTyped
  <1>5. Unfiltered(nth) /\ (Asked.filter = "doubles" => info[nth].work)
    <2>1. nth \in Nat /\ 1 .. nth - 1 \subseteq 1 .. (nth + 1) - 1 /\ nth \in 1 .. (nth + 1) - 1
      BY <1>4
    <2> QED
      BY <1>3, <2>1 DEF Unfiltered, Asked
  <1>6. CASE pc = "finish"
    BY <1>5, <1>6 DEF TransformInv, AllMade, Made
  <1>7. CASE pc = "move" /\ AllMoved
    <2>1. info[nth].work \/ Asked.op = "NONE" => Pristine
      BY <1>5, <1>7 DEF TransformInv, Moving, MovesAreRight
    <2>2. ~info[nth].work => Asked.op = "NONE" \/ ~SlowHFlip(Asked)
      BY <1>3, WithoutWorkspace
    <2>3. ~info[nth].work /\ Asked.op # "NONE" => Asked.op = "FLIP_H"
      BY <1>3, WithoutWorkspace
    <2>4. Len(job.transforms) > 1 /\ job.client = "tjTransform"
      <3>1. PICK n \in Nat \ {0} : n = Len(job.transforms)
        BY <1>4
      <3>2. nth \in 1 .. n /\ nth # n
        BY <1>4, <3>1 DEF LastOne
      <3>3. n > 1 /\ n # 1
        BY <3>2
      <3>4. job.client # "jpegtran"
        BY <1>4, <3>1, <3>3, Zenon
      <3>5. job.client = "tjTransform"
        BY <1>4, <3>4
      <3> QED
        BY <3>1, <3>3, <3>5, Zenon
    <2> QED
      BY <2>1, <2>2, <2>3, <2>4 DEF SlowHFlip
  <1> QED
    BY <1>1, <1>6, <1>7

LEMMA FinishTransforms ==
    ASSUME TransformInv, Finish
    PROVE  TransformInv'
  <1>1. /\ \/ pc = "finish"
           \/ pc = "move" /\ AllMoved /\ Asked.filter = "none"
        /\ outs' = IF Asked.output THEN [outs EXCEPT ![nth] = Written(Result)] ELSE outs
        /\ pc' = IF LastOne THEN "done" ELSE "adjust"
        /\ nth' = IF LastOne THEN nth ELSE nth + 1
        /\ UNCHANGED <<job, info, coefs, saved, cinfo, work, at, header>>
    BY DEF Finish, Result
  <1>2. JobTyped /\ AllPrepared /\ FrameTold
    BY DEF TransformInv
  <1>3. Given(Asked) /\ ~IsRefused(Asked) /\ info[nth] = Requested(Asked) /\ FrameIs(cinfo, Asked)
    BY <1>1, <1>2, AskedIs DEF FrameTold
  <1>4. Every = 1 .. Len(job.transforms) /\ Len(job.transforms) \in Nat \ {0} /\ nth \in Every
    BY <1>2, JobFacts DEF JobTyped
  <1>5. nth' \in Every /\ DOMAIN outs' = Every
    BY <1>1, <1>2, <1>4 DEF LastOne, JobTyped
  <1>6. JobTyped'
    BY <1>1, <1>2, <1>5, JobTypedKept DEF JobTyped
  <1>7. AllPrepared'
    BY <1>1, <1>2, AllPreparedKept
  <1>8. ImageKept'
    <2> SUFFICES ASSUME pc' = "adjust", Unfiltered(nth)'
                 PROVE  Pristine'
      BY <1>1 DEF ImageKept
    <2>1. ~LastOne /\ nth' = nth + 1
      BY <1>1
    <2>2. Unfiltered(nth + 1)
      <3>1. PICK k : k = nth + 1
        OBVIOUS
      <3>2. Unfiltered(k)' = Unfiltered(k)
        BY <1>1, SameUnfiltered
      <3>3. Unfiltered(nth)' = Unfiltered(k)'
        BY <2>1, <3>1 DEF Unfiltered
      <3> QED
        BY <3>1, <3>2, <3>3
    <2>3. Pristine
      BY <2>1, <2>2, NextIsPristine
    <2> QED
      BY <1>1, <2>3, PristineKept
  <1>9. FrameTold' /\ Moving' /\ AllMade'
    BY <1>1 DEF FrameTold, Moving, AllMade
  <1>10. Unfiltered(nth) => IsTransform(Written(Result), Asked)
    <2> SUFFICES ASSUME Unfiltered(nth)
                 PROVE  IsTransform(Written(Result), Asked)
      OBVIOUS
    <2>1. ResultIsRight(Asked)
      <3>1. CASE pc = "finish"
        BY <3>1 DEF TransformInv, AllMade, Made
      <3>2. CASE pc = "move" /\ AllMoved /\ Asked.filter = "none"
        <4>1. AllMoves(Asked)
          BY <1>2, <3>2, AllIsMoved DEF TransformInv
        <4>2. \A c, y, x : MovedBlock(Asked, c, y, x) = RightBlock(cinfo, Asked, c, y, x)
          BY <3>2, Zenon DEF MovedBlock, RightBlock, Doubled
        <4> QED
          BY <4>1, <4>2 DEF AllMoves, ResultIsRight
      <3> QED
        BY <1>1, <3>1, <3>2
    <2>2. PICK t, arrays : t = Asked /\ arrays = Result
      OBVIOUS
    <2>3. /\ Given(t) /\ ~IsRefused(t) /\ FrameIs(cinfo, t)
          /\ \A c \in Comps(cinfo) : \A y \in BlockRows(c), x \in BlockColumns(c) :
                 arrays[c][y][x] = RightBlock(cinfo, t, c, y, x)
      BY <1>3, <2>1, <2>2 DEF ResultIsRight
    <2>4. IsTransform(Written(arrays), t)
      BY <2>3, WrittenIsTransform
    <2> QED
      BY <2>2, <2>4
  <1>11. OutputsAreTransforms'
    <2>1. ASSUME NEW k \in Every, outs'[k] # <<>>, Unfiltered(k)'
          PROVE  IsTransform(outs[k], job.transforms[k])'
      <3>1. Unfiltered(k) /\ job' = job
        BY <1>1, <2>1, SameUnfiltered
      <3>2. IsTransform(outs'[k], job.transforms[k])
        <4>1. CASE k = nth /\ Asked.output
          <5>1. outs'[k] = Written(Result) /\ job.transforms[k] = Asked
            BY <1>1, <1>2, <4>1 DEF JobTyped, Asked
          <5> QED
            BY <1>10, <3>1, <4>1, <5>1
        <4>2. CASE ~(k = nth /\ Asked.output)
          <5>1. outs'[k] = outs[k] /\ k \in DOMAIN outs
            BY <1>1, <1>2, <4>2 DEF JobTyped
          <5> QED
            BY <2>1, <3>1, <5>1 DEF TransformInv, OutputsAreTransforms
        <4> QED
          BY <4>1, <4>2
      <3>3. PICK f, t : f = outs'[k] /\ t = job.transforms[k]
        OBVIOUS
      <3>4. IsTransform(f, t)' = IsTransform(f, t)
        BY <3>1, SameTransform
      <3>5. IsTransform(f, t)
        BY <3>2, <3>3
      <3> QED
        BY <3>1, <3>3, <3>4, <3>5
    <2> QED
      BY <1>5, <2>1 DEF OutputsAreTransforms
  <1> QED
    BY <1>6, <1>7, <1>8, <1>9, <1>11 DEF TransformInv

LEMMA StepTransforms == TransformInv /\ [TransformNext]_transformVars => TransformInv'
  <1> SUFFICES ASSUME TransformInv, [TransformNext]_transformVars
               PROVE  TransformInv'
    OBVIOUS
  <1>1. CASE UNCHANGED transformVars
    BY <1>1, StutterTransforms
  <1>2. CASE Fail
    BY <1>2, FailTransforms
  <1>3. CASE ReadHeader /\ ~Fail
    BY <1>3, ReadHeaderTransforms
  <1>4. CASE RequestWorkspace /\ ~Fail
    BY <1>4, RequestTransforms
  <1>5. CASE ReadCoefficients
    BY <1>5, ReadTransforms
  <1>6. CASE AdjustParameters /\ ~Fail
    BY <1>6, AdjustTransforms
  <1>7. CASE WriteCoefficients
    BY <1>7, WriteTransforms
  <1>8. CASE MoveRow
    BY <1>8, MoveTransforms
  <1>9. CASE CustomFilter /\ ~Fail
    BY <1>9, FilterTransforms
  <1>10. CASE Finish
    BY <1>10, FinishTransforms
  <1> QED
    BY <1>1, <1>2, <1>3, <1>4, <1>5, <1>6, <1>7, <1>8, <1>9, <1>10 DEF TransformNext

(* Every file made of an image shows what was asked of it, pixel by pixel  *)
(* (jtransform_execute_transform and the calls around it), for any image,  *)
(* factors, crop and list of transforms.                                   *)
THEOREM OutputsAreRight == TransformSpec => []OutputsAreTransforms
  <1>1. TransformInv => OutputsAreTransforms
    BY DEF TransformInv
  <1> QED
    BY <1>1, InitTransforms, StepTransforms, PTL DEF TransformSpec
=============================================================================
