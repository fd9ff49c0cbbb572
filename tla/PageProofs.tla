----------------------------- MODULE PageProofs -----------------------------
(***************************************************************************)
(* Proofs about the way of a page to a prompt: PageBlocks, what the reader *)
(* makes of a page file, and Attachments, what is staged and sent of it.   *)
(*                                                                         *)
(* Of a file with any blocks, cut anywhere, the reader makes the page of   *)
(* the whole blocks, and leaves nothing over of a clean one. The argument  *)
(* is that it is on a block boundary whenever it takes a header: boundaries*)
(* grow, so the block it takes is the next one, and the page so far is the *)
(* page of the blocks before it. Of a notebook with any pages, the files   *)
(* staged carry the pages that name and label say: the loops over a range  *)
(* keep order.                                                             *)
(***************************************************************************)
EXTENDS PageBlocks, Attachments, FiniteSetTheorems, SequenceTheorems, Iteration

Pages == [strokes : Seq(Nat), hasText : BOOLEAN]
------------------------------------------------------------------------------
(* The two functions that are loops over a file's blocks, unrolled.        *)
LEMMA EndsUnroll ==
  ASSUME NEW blocks \in Seq(Block)
  PROVE  /\ Ends(blocks)[0] = HeaderLen
         /\ \A n \in 1 .. Len(blocks) :
              Ends(blocks)[n] = Ends(blocks)[n - 1] + BlockHead + blocks[n].length
<1> DEFINE N == Len(blocks)
           g == [n \in 1 .. N |-> [x \in Nat |-> x + BlockHead + blocks[n].length]]
           Def(f) == [n \in 0 .. N |->
                        IF n = 0 THEN HeaderLen
                        ELSE f[n - 1] + BlockHead + blocks[n].length]
           end == CHOOSE f : f = Def(f)
<1>1. N \in Nat /\ HeaderLen \in Nat /\ BlockHead \in Nat
  BY BlocksAssumption
<1>2. \A n \in 1 .. N : blocks[n].length \in Nat
  <2>1. \A n \in 1 .. N : blocks[n] \in Block
    OBVIOUS
  <2> QED BY <2>1 DEF Block
<1>3. g \in [1 .. N -> [Nat -> Nat]]
  BY <1>1, <1>2
<1>4. PICK f \in [0 .. N -> Nat] : IsIteration(f, HeaderLen, g, N)
  <2> HIDE DEF g, N
  <2> QED BY <1>1, <1>3, Iterates
<1>5. f = Def(f)
  <2>1. f[0] = HeaderLen
    BY <1>4 DEF IsIteration
  <2>2. ASSUME NEW n \in 1 .. N
        PROVE  f[n] = f[n - 1] + BlockHead + blocks[n].length
    <3>1. n - 1 \in 0 .. N /\ f[n - 1] \in Nat
      BY <1>1
    <3> QED BY <1>4, <3>1 DEF IsIteration
  <2>3. \A n \in 0 .. N : n = 0 \/ n \in 1 .. N
    BY <1>1
  <2> QED BY <2>1, <2>2, <2>3
<1>6. end = Def(end)
  <2> HIDE DEF Def
  <2> QED BY <1>5
<1>7. Ends(blocks) = end
  BY DEF Ends
<1> HIDE DEF end, g
<1>8. 0 \in 0 .. N /\ \A n \in 1 .. N : n \in 0 .. N /\ n # 0
  BY <1>1
<1> QED BY <1>6, <1>7, <1>8

(* What a block adds leaves a page.                                        *)
LEMMA PointsCounted ==
  ASSUME NEW b \in Block
  PROVE  /\ PointsOf(b) \in Nat
         /\ PointsOf(b) > 0 <=>
              b.clean /\ \E k \in 1 .. b.points : b.points = k * PointSize(b)
<1>1. b.points \in Nat /\ b.room \in Nat
  BY DEF Block
<1>2. CASE b.version >= 2
  <2>1. PointSize(b) = 14
    BY <1>2 DEF PointSize
  <2> DEFINE p == b.points
             there == b.room \div 14
  <2>2. p \in Nat /\ there \in Nat
    <3> DEFINE r == b.room
    <3>1. r \in Nat
      BY <1>1
    <3>2. r \div 14 \in Nat
      <4> HIDE DEF r
      <4> QED BY <3>1
    <3> QED BY <1>1, <3>2
  <2>6. PointsRead(b) = IF p \div 14 <= there THEN p \div 14 ELSE there + 1
    BY <2>1 DEF PointsRead
  <2> HIDE DEF p, there
  <2>3. p \div 14 \in Nat /\ (p % 14 = 0 <=> p = 14 * (p \div 14))
    BY <2>2
  <2>4. \A k \in 1 .. p : p = k * 14 => p % 14 = 0 /\ p \div 14 = k
    BY <2>2
  <2>5. p = 14 * (p \div 14) /\ p \div 14 > 0 => p \div 14 \in 1 .. p
    BY <2>2, <2>3
  <2>7. PointsRead(b) \in Nat /\ (PointsRead(b) > 0 <=> p \div 14 > 0)
    BY <2>2, <2>3, <2>6
  <2>8. PointsOf(b) = IF b.clean /\ p % 14 = 0 THEN PointsRead(b) ELSE 0
    BY <2>1 DEF PointsOf, p
  <2>9. p % 14 = 0 /\ p \div 14 > 0 <=> \E k \in 1 .. p : p = k * 14
    BY <2>3, <2>4, <2>5
  <2> QED BY <2>1, <2>7, <2>8, <2>9 DEF p
<1>3. CASE ~ (b.version >= 2)
  <2>1. PointSize(b) = 24
    BY <1>3 DEF PointSize
  <2> DEFINE p == b.points
             there == b.room \div 24
  <2>2. p \in Nat /\ there \in Nat
    <3> DEFINE r == b.room
    <3>1. r \in Nat
      BY <1>1
    <3>2. r \div 24 \in Nat
      <4> HIDE DEF r
      <4> QED BY <3>1
    <3> QED BY <1>1, <3>2
  <2>6. PointsRead(b) = IF p \div 24 <= there THEN p \div 24 ELSE there + 1
    BY <2>1 DEF PointsRead
  <2> HIDE DEF p, there
  <2>3. p \div 24 \in Nat /\ (p % 24 = 0 <=> p = 24 * (p \div 24))
    BY <2>2
  <2>4. \A k \in 1 .. p : p = k * 24 => p % 24 = 0 /\ p \div 24 = k
    BY <2>2
  <2>5. p = 24 * (p \div 24) /\ p \div 24 > 0 => p \div 24 \in 1 .. p
    BY <2>2, <2>3
  <2>7. PointsRead(b) \in Nat /\ (PointsRead(b) > 0 <=> p \div 24 > 0)
    BY <2>2, <2>3, <2>6
  <2>8. PointsOf(b) = IF b.clean /\ p % 24 = 0 THEN PointsRead(b) ELSE 0
    BY <2>1 DEF PointsOf, p
  <2>9. p % 24 = 0 /\ p \div 24 > 0 <=> \E k \in 1 .. p : p = k * 24
    BY <2>3, <2>4, <2>5
  <2> QED BY <2>1, <2>7, <2>8, <2>9 DEF p
<1> QED BY <1>2, <1>3

(* The blocks that give a page content.                                    *)
Draws(b) == b.type = "line" /\ b.valued /\ PointsOf(b) > 0

LEMMA DecodedPage ==
  ASSUME NEW pg \in Pages, NEW b \in Block
  PROVE  /\ Decoded(pg, b) \in Pages
         /\ HasPoints(Decoded(pg, b)) <=> HasPoints(pg) \/ Draws(b)
<1>1. PointsOf(b) \in Nat
  BY PointsCounted
<1>2. b.valued \in BOOLEAN /\ (b.clean /\ b.typed) \in BOOLEAN
  BY DEF Block
<1>3. pg.strokes \in Seq(Nat) /\ pg.hasText \in BOOLEAN
  BY DEF Pages
<1>4. CASE b.type = "line" /\ b.valued
  <2> DEFINE s == Append(pg.strokes, PointsOf(b))
             q == [pg EXCEPT !.strokes = s]
  <2>1. Decoded(pg, b) = q
    BY <1>4 DEF Decoded
  <2>2. /\ s \in Seq(Nat) /\ Len(s) = Len(pg.strokes) + 1
        /\ \A k \in 1 .. Len(pg.strokes) : s[k] = pg.strokes[k]
        /\ s[Len(s)] = PointsOf(b)
    <3> DEFINE t == pg.strokes
               x == PointsOf(b)
    <3>1. t \in Seq(Nat) /\ x \in Nat
      BY <1>1, <1>3
    <3>2. s = Append(t, x)
      OBVIOUS
    <3> HIDE DEF t, x, s
    <3>3. /\ s \in Seq(Nat) /\ Len(s) = Len(t) + 1
          /\ \A k \in 1 .. Len(t) : s[k] = t[k]
          /\ s[Len(s)] = x
      BY <3>1, <3>2, AppendProperties
    <3> QED BY <3>3 DEF t, x
  <2>3. q \in Pages /\ q.strokes = s
    <3> HIDE DEF s
    <3> QED BY <1>3, <2>2 DEF Pages
  <2>4. DOMAIN s = 1 .. Len(pg.strokes) + 1 /\ DOMAIN pg.strokes = 1 .. Len(pg.strokes)
        /\ Len(pg.strokes) \in Nat
    BY <1>3, <2>2
  <2>5. (\E k \in DOMAIN s : s[k] > 0)
          <=> (\E k \in DOMAIN pg.strokes : pg.strokes[k] > 0) \/ PointsOf(b) > 0
    <3> HIDE DEF s
    <3>1. \A k \in DOMAIN s : k \in DOMAIN pg.strokes \/ k = Len(s)
      BY <2>2, <2>4
    <3>2. Len(s) \in DOMAIN s /\ \A k \in DOMAIN pg.strokes : k \in DOMAIN s
      BY <2>2, <2>4
    <3>3. \A k \in DOMAIN pg.strokes : s[k] = pg.strokes[k]
      BY <2>2, <2>4
    <3> QED BY <2>2, <3>1, <3>2, <3>3
  <2> HIDE DEF s, q
  <2> QED BY <1>4, <2>1, <2>3, <2>5 DEF HasPoints, Draws
<1>5. CASE b.type = "text" /\ b.valued
  <2> DEFINE v == b.clean /\ b.typed
             q == [pg EXCEPT !.hasText = v]
  <2>1. Decoded(pg, b) = q
    BY <1>5 DEF Decoded
  <2>2. v \in BOOLEAN
    BY <1>2
  <2> HIDE DEF v
  <2>3. q \in Pages /\ q.strokes = pg.strokes
    BY <1>3, <2>2 DEF Pages
  <2> HIDE DEF q
  <2> QED BY <1>5, <2>1, <2>3 DEF HasPoints, Draws
<1>6. CASE ~ (b.type = "line" /\ b.valued) /\ ~ (b.type = "text" /\ b.valued)
  <2>1. Decoded(pg, b) = pg
    BY <1>6 DEF Decoded
  <2> QED BY <1>6, <2>1 DEF Draws
<1> QED BY <1>4, <1>5, <1>6

LEMMA BlankPage == Blank \in Pages /\ ~ HasPoints(Blank)
<1>1. <<>> \in Seq(Nat)
  OBVIOUS
<1>2. Blank \in Pages /\ Blank.strokes = <<>>
  BY <1>1 DEF Blank, Pages
<1> QED BY <1>2 DEF HasPoints

LEMMA DrawnUnroll ==
  ASSUME NEW blocks \in Seq(Block)
  PROVE  /\ Drawn(blocks)[0] = Blank
         /\ \A n \in 1 .. Len(blocks) :
              Drawn(blocks)[n] = Decoded(Drawn(blocks)[n - 1], blocks[n])
<1> DEFINE N == Len(blocks)
           g == [n \in 1 .. N |-> [pg \in Pages |-> Decoded(pg, blocks[n])]]
           Def(f) == [n \in 0 .. N |->
                        IF n = 0 THEN Blank ELSE Decoded(f[n - 1], blocks[n])]
           after == CHOOSE f : f = Def(f)
<1>1. N \in Nat /\ \A n \in 1 .. N : blocks[n] \in Block
  OBVIOUS
<1>2. g \in [1 .. N -> [Pages -> Pages]]
  BY <1>1, DecodedPage
<1>3. PICK f \in [0 .. N -> Pages] : IsIteration(f, Blank, g, N)
  <2> HIDE DEF g, N
  <2> QED BY <1>1, <1>2, BlankPage, Iterates
<1>4. f = Def(f)
  <2>1. f[0] = Blank
    BY <1>3 DEF IsIteration
  <2>2. ASSUME NEW n \in 1 .. N PROVE f[n] = Decoded(f[n - 1], blocks[n])
    <3>1. n - 1 \in 0 .. N /\ f[n - 1] \in Pages
      BY <1>1
    <3> QED BY <1>3, <3>1 DEF IsIteration
  <2>3. \A n \in 0 .. N : n = 0 \/ n \in 1 .. N
    BY <1>1
  <2> QED BY <2>1, <2>2, <2>3
<1>5. after = Def(after)
  <2> HIDE DEF Def
  <2> QED BY <1>4
<1>6. Drawn(blocks) = after
  BY DEF Drawn
<1> HIDE DEF after, g
<1>7. 0 \in 0 .. N /\ \A n \in 1 .. N : n \in 0 .. N /\ n # 0
  BY <1>1
<1> QED BY <1>5, <1>6, <1>7
------------------------------------------------------------------------------
(* A boundary is at least a block header behind each one before it.        *)
LEMMA EndsGrow ==
  ASSUME NEW blocks \in Seq(Block)
  PROVE  /\ \A n \in 0 .. Len(blocks) : Ends(blocks)[n] \in Nat
         /\ \A i, n \in 0 .. Len(blocks) :
              i < n => Ends(blocks)[i] + BlockHead <= Ends(blocks)[n]
<1> DEFINE N == Len(blocks)
           E == Ends(blocks)
           I == [n \in 0 .. N |->
                   {x \in Nat : \A i \in 0 .. n :
                               i < n => E[i] \in Nat /\ E[i] + BlockHead <= x}]
<1>1. N \in Nat /\ HeaderLen \in Nat /\ BlockHead \in Nat
  BY BlocksAssumption
<1>2. \A n \in 1 .. N : blocks[n].length \in Nat
  <2>1. \A n \in 1 .. N : blocks[n] \in Block
    OBVIOUS
  <2> QED BY <2>1 DEF Block
<1>3. E[0] = HeaderLen
      /\ \A n \in 1 .. N : E[n] = E[n - 1] + BlockHead + blocks[n].length
  BY EndsUnroll
<1> HIDE DEF E
<1>4. \A n \in 0 .. N :
        I[n] = {x \in Nat : \A i \in 0 .. n :
                  i < n => E[i] \in Nat /\ E[i] + BlockHead <= x}
  OBVIOUS
<1> HIDE DEF I
<1>5. E[0] \in I[0]
  BY <1>1, <1>3, <1>4
<1>6. ASSUME NEW n \in 1 .. N, E[n - 1] \in I[n - 1] PROVE E[n] \in I[n]
  <2>1. n - 1 \in 0 .. N /\ n \in 0 .. N
    BY <1>1
  <2>2. /\ E[n - 1] \in Nat
        /\ \A i \in 0 .. n - 1 :
             i < n - 1 => E[i] \in Nat /\ E[i] + BlockHead <= E[n - 1]
    BY <1>4, <1>6, <2>1
  <2>3. blocks[n].length \in Nat /\ E[n] = E[n - 1] + BlockHead + blocks[n].length
    BY <1>2, <1>3
  <2>4. E[n] \in Nat /\ E[n - 1] + BlockHead <= E[n]
    BY <1>1, <2>2, <2>3
  <2>5. ASSUME NEW i \in 0 .. n, i < n PROVE E[i] \in Nat /\ E[i] + BlockHead <= E[n]
    <3>1. CASE i = n - 1
      BY <2>2, <2>4, <3>1
    <3>2. CASE i # n - 1
      <4>1. i \in 0 .. n - 1 /\ i < n - 1
        BY <1>1, <2>5, <3>2
      <4>2. E[i] \in Nat /\ E[i] + BlockHead <= E[n - 1] /\ E[n - 1] <= E[n]
        BY <1>1, <2>2, <2>3, <4>1
      <4> QED BY <1>1, <2>2, <2>4, <4>2
    <3> QED BY <3>1, <3>2
  <2> QED BY <1>4, <2>1, <2>4, <2>5
<1>7. \A n \in 0 .. N : E[n] \in I[n]
  BY <1>1, <1>5, <1>6, TurnByTurn
<1>8. ASSUME NEW n \in 0 .. N
      PROVE  E[n] \in Nat /\ \A i \in 0 .. N : i < n => E[i] + BlockHead <= E[n]
  <2>1. \A i \in 0 .. N : i < n => i \in 0 .. n
    BY <1>1
  <2> QED BY <1>4, <1>7, <2>1
<1> QED BY <1>8 DEF E

(* The page of the first n blocks.                                         *)
LEMMA DrawnTells ==
  ASSUME NEW blocks \in Seq(Block), NEW n \in 0 .. Len(blocks)
  PROVE  /\ Drawn(blocks)[n] \in Pages
         /\ HasPoints(Drawn(blocks)[n]) <=> \E k \in 1 .. n : Draws(blocks[k])
<1> DEFINE N == Len(blocks)
           D == Drawn(blocks)
           Made(m) == {pg \in Pages :
                         HasPoints(pg) <=> \E k \in 1 .. m : Draws(blocks[k])}
           I == [m \in 0 .. N |-> Made(m)]
<1>1. N \in Nat /\ \A m \in 1 .. N : blocks[m] \in Block
  OBVIOUS
<1>2. D[0] = Blank /\ \A m \in 1 .. N : D[m] = Decoded(D[m - 1], blocks[m])
  BY DrawnUnroll
<1> HIDE DEF D
<1>3. \A m \in 0 .. N : I[m] = Made(m)
  OBVIOUS
<1> HIDE DEF I
<1>4. D[0] \in I[0]
  <2>1. ~ \E k \in 1 .. 0 : Draws(blocks[k])
    OBVIOUS
  <2>2. Blank \in Made(0)
    BY <2>1, BlankPage
  <2> QED BY <1>1, <1>2, <1>3, <2>2
<1>5. ASSUME NEW m \in 1 .. N, D[m - 1] \in I[m - 1] PROVE D[m] \in I[m]
  <2>1. m - 1 \in 0 .. N /\ m \in 0 .. N
        /\ \A k : k \in 1 .. m <=> k \in 1 .. m - 1 \/ k = m
    BY <1>1
  <2>2. D[m - 1] \in Made(m - 1)
    BY <1>3, <1>5, <2>1
  <2>3. /\ D[m] \in Pages
        /\ HasPoints(D[m]) <=> HasPoints(D[m - 1]) \/ Draws(blocks[m])
    BY <1>1, <1>2, <2>2, DecodedPage
  <2>4. D[m] \in Made(m)
    BY <2>1, <2>2, <2>3
  <2> QED BY <1>3, <2>1, <2>4
<1>6. \A m \in 0 .. N : D[m] \in I[m]
  BY <1>1, <1>4, <1>5, TurnByTurn
<1>7. D[n] \in Made(n)
  BY <1>3, <1>6
<1> QED BY <1>7 DEF D
------------------------------------------------------------------------------
(* The invariant: the reader is where its last whole block ends, and a     *)
(* parse is over when the next one is not there.                           *)
FileOK ==
  /\ file.supported \in BOOLEAN /\ file.blocks \in Seq(Bodies)
  /\ Len(file.blocks) <= MaxBlocks
  /\ size \in Nat /\ size <= End(Len(file.blocks))
BlocksInv ==
  /\ FileOK
  /\ phase \in {"header", "blocks", "parsed", "refused"} /\ reader.ok
  /\ reader \in [pos : Nat, ok : BOOLEAN]
  /\ count \in 0 .. Len(file.blocks) /\ page = Drawn(file.blocks)[count]
  /\ reader.pos <= size
  /\ phase \in {"header", "refused"} => count = 0
  /\ phase = "refused" => size < HeaderLen \/ ~ file.supported
  /\ phase \in {"blocks", "parsed"} =>
       size >= HeaderLen /\ file.supported /\ End(count) <= size
  /\ phase = "blocks" => reader.pos = End(count)
  /\ phase = "parsed" =>
       \/ /\ reader.pos = End(count) /\ size < End(count) + BlockHead
       \/ /\ reader.pos = End(count) + BlockHead /\ count < Len(file.blocks)
          /\ size < End(count + 1)

(* What is known of the boundaries of a file.                              *)
LEMMA Boundaries ==
  ASSUME FileOK
  PROVE  /\ file.blocks \in Seq(Block) /\ Len(file.blocks) \in Nat
         /\ \A n \in 1 .. Len(file.blocks) :
              file.blocks[n] \in Block /\ file.blocks[n].length \in Nat
         /\ End(0) = HeaderLen
         /\ \A n \in 1 .. Len(file.blocks) :
              End(n) = End(n - 1) + BlockHead + file.blocks[n].length
         /\ \A n \in 0 .. Len(file.blocks) : End(n) \in Nat
         /\ \A i, n \in 0 .. Len(file.blocks) :
              i < n => End(i) + BlockHead <= End(n)
<1>1. file.blocks \in Seq(Block) /\ Len(file.blocks) \in Nat
  BY BlocksAssumption DEF FileOK
<1>2. \A n \in 1 .. Len(file.blocks) : file.blocks[n] \in Block
  BY <1>1
<1>3. \A n \in 1 .. Len(file.blocks) : file.blocks[n].length \in Nat
  BY <1>2 DEF Block
<1>4. /\ End(0) = HeaderLen
      /\ \A n \in 1 .. Len(file.blocks) :
           End(n) = End(n - 1) + BlockHead + file.blocks[n].length
  BY <1>1, EndsUnroll DEF End
<1>5. /\ \A n \in 0 .. Len(file.blocks) : End(n) \in Nat
      /\ \A i, n \in 0 .. Len(file.blocks) :
           i < n => End(i) + BlockHead <= End(n)
  BY <1>1, EndsGrow DEF End
<1> QED BY <1>1, <1>2, <1>3, <1>4, <1>5

(* On a boundary with a block header's bytes left, the reader takes the    *)
(* header of the next block: there is one.                                 *)
LEMMA NextBlock ==
  ASSUME FileOK, count \in 0 .. Len(file.blocks), reader.pos = End(count),
         reader.pos <= size, HeaderLeft
  PROVE  /\ count + 1 \in 1 .. Len(file.blocks)
         /\ BlockAt(reader.pos) = file.blocks[count + 1]
         /\ End(count + 1)
              = reader.pos + BlockHead + BlockAt(reader.pos).length
         /\ End(count) + BlockHead <= size
<1> DEFINE N == Len(file.blocks)
<1>1. N \in Nat /\ BlockHead \in Nat \ {0} /\ size \in Nat /\ size <= End(N)
  BY Boundaries, BlocksAssumption DEF FileOK
<1>2. /\ \A n \in 0 .. N : End(n) \in Nat
      /\ \A i, n \in 0 .. N : i < n => End(i) + BlockHead <= End(n)
  BY Boundaries
<1>3. End(count) + BlockHead <= size
  BY <1>1, <1>2 DEF HeaderLeft, Remaining
<1>4. count # N
  BY <1>1, <1>2, <1>3
<1>5. count + 1 \in 1 .. N /\ (count + 1) - 1 = count
  BY <1>1, <1>4
<1>6. DOMAIN file.blocks = 1 .. N
  BY Boundaries
<1>7. \A n \in 1 .. N : End(n - 1) = End(count) => n = count + 1
  <2> SUFFICES ASSUME NEW n \in 1 .. N, n # count + 1 PROVE End(n - 1) # End(count)
    OBVIOUS
  <2>1. n - 1 \in 0 .. N /\ count \in 0 .. N /\ (n - 1 < count \/ count < n - 1)
    BY <1>1
  <2>2. /\ n - 1 < count => End(n - 1) + BlockHead <= End(count)
        /\ count < n - 1 => End(count) + BlockHead <= End(n - 1)
    BY <1>2, <2>1
  <2>3. End(n - 1) \in Nat /\ End(count) \in Nat /\ BlockHead \in Nat \ {0}
    BY <1>1, <1>2, <2>1
  <2>4. \A x, y \in Nat : x + BlockHead <= y => x # y
    BY <2>3
  <2> QED BY <2>1, <2>2, <2>3, <2>4
<1>8. BlockAt(reader.pos) = file.blocks[count + 1]
  <2>1. \E n \in DOMAIN file.blocks : End(n - 1) = reader.pos
    BY <1>5, <1>6
  <2>2. (CHOOSE n \in DOMAIN file.blocks : End(n - 1) = reader.pos) = count + 1
    BY <1>5, <1>6, <1>7
  <2> QED BY <2>1, <2>2 DEF BlockAt
<1>9. End(count + 1) = End(count) + BlockHead + file.blocks[count + 1].length
  BY <1>5, Boundaries
<1> QED BY <1>3, <1>5, <1>8, <1>9

LEMMA BlocksStart == BlocksInit => BlocksInv
<1> SUFFICES ASSUME BlocksInit PROVE BlocksInv
  OBVIOUS
<1>1. file.supported \in BOOLEAN /\ file.blocks \in SeqOf(Bodies, MaxBlocks)
  BY DEF BlocksInit
<1>2. PICK m \in 0 .. MaxBlocks : file.blocks \in [1 .. m -> Bodies]
  BY <1>1 DEF SeqOf
<1>3. m \in Nat /\ m <= MaxBlocks
  BY BlocksAssumption
<1>4. file.blocks \in Seq(Bodies) /\ Len(file.blocks) = m
  BY <1>2, <1>3, FunctionIsSeq
<1>5. file.blocks \in Seq(Block)
  BY <1>4, BlocksAssumption
<1>6. End(Len(file.blocks)) \in Nat
  BY <1>3, <1>4, <1>5, EndsGrow DEF End
<1>7. size \in Nat /\ size <= End(Len(file.blocks))
  BY <1>6 DEF BlocksInit
<1>8. FileOK
  BY <1>1, <1>3, <1>4, <1>7 DEF FileOK
<1>9. Drawn(file.blocks)[0] = Blank
  BY <1>5, DrawnUnroll
<1> QED BY <1>3, <1>4, <1>7, <1>8, <1>9 DEF BlocksInit, BlocksInv

LEMMA BlocksStep == BlocksInv /\ [BlocksNext]_blockVars => BlocksInv'
<1> SUFFICES ASSUME BlocksInv, [BlocksNext]_blockVars PROVE BlocksInv'
  OBVIOUS
<1>1. FileOK /\ HeaderLen \in Nat \ {0} /\ BlockHead \in Nat \ {0}
  BY BlocksAssumption DEF BlocksInv
<1>2. UNCHANGED <<file, size>> => FileOK'
  BY <1>1 DEF FileOK, End
<1>3. CASE ReadHeader
  <2>1. UNCHANGED <<file, size, page, count>> /\ phase = "header" /\ count = 0
    BY <1>3 DEF ReadHeader, BlocksInv
  <2>2. End(0) = HeaderLen /\ size \in Nat
    BY <1>1, Boundaries DEF FileOK
  <2>3. CASE size < HeaderLen \/ ~ file.supported
    <3>1. phase' = "refused" /\ UNCHANGED reader
      BY <1>3, <2>3 DEF ReadHeader
    <3> QED BY <1>2, <2>1, <2>3, <3>1 DEF BlocksInv
  <2>4. CASE size >= HeaderLen /\ file.supported
    <3>1. ~ (size < HeaderLen \/ ~ file.supported)
      BY <1>1, <2>2, <2>4
    <3>2. phase' = "blocks" /\ reader' = [reader EXCEPT !.pos = HeaderLen]
      BY <1>3, <3>1 DEF ReadHeader
    <3>3. reader' \in [pos : Nat, ok : BOOLEAN] /\ reader'.pos = HeaderLen
          /\ reader'.ok
      BY <1>1, <3>2 DEF BlocksInv
    <3>4. End(0)' = HeaderLen
      BY <2>1, <2>2 DEF End
    <3> QED BY <1>1, <1>2, <2>1, <2>2, <2>4, <3>2, <3>3, <3>4 DEF BlocksInv
  <2> QED BY <1>1, <2>2, <2>3, <2>4 DEF BlocksInv, FileOK
<1>4. CASE ReadBlock
  <2> DEFINE b == BlockAt(reader.pos)
             bodyEnd == reader.pos + BlockHead + b.length
  <2>1. phase = "blocks" /\ HeaderLeft /\ UNCHANGED <<file, size>>
    BY <1>4 DEF ReadBlock
  <2>2. /\ count \in 0 .. Len(file.blocks) /\ reader.pos = End(count)
        /\ reader.pos <= size /\ reader.ok
        /\ reader \in [pos : Nat, ok : BOOLEAN]
        /\ size >= HeaderLen /\ file.supported
        /\ page = Drawn(file.blocks)[count]
    BY <2>1 DEF BlocksInv
  <2>3. /\ count + 1 \in 1 .. Len(file.blocks) /\ b = file.blocks[count + 1]
        /\ End(count + 1) = bodyEnd /\ End(count) + BlockHead <= size
    BY <1>1, <2>1, <2>2, NextBlock
  <2>4. Len(file.blocks) \in Nat /\ size \in Nat /\ End(count + 1) \in Nat
    BY <1>1, <2>3, Boundaries DEF FileOK
  <2>5. \A n : End(n)' = End(n)
    BY <2>1 DEF End
  <2>6. CASE Beyond(bodyEnd)
    <3>1. /\ reader' = [reader EXCEPT !.pos = @ + BlockHead]
          /\ phase' = "parsed" /\ UNCHANGED <<page, count>>
      BY <1>4, <2>6 DEF ReadBlock
    <3>2. /\ reader' \in [pos : Nat, ok : BOOLEAN] /\ reader'.ok
          /\ reader'.pos = End(count) + BlockHead
      BY <1>1, <2>2, <3>1
    <3>3. size < End(count + 1) /\ count < Len(file.blocks)
      BY <2>2, <2>3, <2>4, <2>6 DEF Beyond
    <3>4. count' = count /\ End(count)' = End(count) /\ End(count + 1)' = End(count + 1)
      BY <2>5, <3>1
    <3> QED BY <1>2, <2>1, <2>2, <2>3, <3>1, <3>2, <3>3, <3>4 DEF BlocksInv, End
  <2>7. CASE ~ Beyond(bodyEnd)
    <3>1. /\ page' = Decoded(page, b) /\ count' = count + 1
          /\ reader' = [reader EXCEPT !.pos = bodyEnd] /\ UNCHANGED phase
      BY <1>4, <2>7 DEF ReadBlock
    <3>2. /\ reader' \in [pos : Nat, ok : BOOLEAN] /\ reader'.ok
          /\ reader'.pos = End(count + 1) /\ End(count + 1) <= size
      BY <2>2, <2>3, <2>4, <2>7, <3>1 DEF Beyond
    <3>3. page' = Drawn(file.blocks)[count + 1]
      <4>1. Drawn(file.blocks)[count + 1]
              = Decoded(Drawn(file.blocks)[(count + 1) - 1], file.blocks[count + 1])
        BY <1>1, <2>3, Boundaries, DrawnUnroll
      <4>2. (count + 1) - 1 = count
        BY <2>2, <2>4
      <4> QED BY <2>2, <2>3, <3>1, <4>1, <4>2
    <3>4. count' \in 0 .. Len(file.blocks)
      BY <2>3, <2>4, <3>1
    <3>5. End(count)' = End(count + 1)
      BY <2>1, <3>1 DEF End
    <3>6. /\ file' = file /\ size' = size /\ phase' = "blocks" /\ FileOK'
      BY <1>2, <2>1, <3>1
    <3>7. page' = Drawn(file.blocks)[count']
      BY <3>1, <3>3
    <3> HIDE DEF b, bodyEnd
    <3> QED BY <2>2, <3>2, <3>4, <3>5, <3>6, <3>7 DEF BlocksInv
  <2> QED BY <2>6, <2>7
<1>5. CASE EndOfData
  <2>1. /\ phase = "blocks" /\ ~ HeaderLeft /\ phase' = "parsed"
        /\ UNCHANGED <<file, size, reader, page, count>>
    BY <1>5 DEF EndOfData
  <2>2. /\ count \in 0 .. Len(file.blocks) /\ reader.pos = End(count)
        /\ reader.pos <= size /\ size \in Nat /\ End(count) \in Nat
    BY <1>1, <2>1, Boundaries DEF BlocksInv, FileOK
  <2>3. size < End(count) + BlockHead
    BY <1>1, <2>1, <2>2 DEF HeaderLeft, Remaining
  <2>4. End(count)' = End(count)
    BY <2>1 DEF End
  <2> QED BY <1>2, <2>1, <2>2, <2>3, <2>4 DEF BlocksInv
<1>6. CASE UNCHANGED blockVars
  BY <1>6 DEF blockVars, BlocksInv, FileOK, End
<1> QED BY <1>3, <1>4, <1>5, <1>6 DEF BlocksNext

(* The invariant of the specification: at every step of a parse the page   *)
(* is that of the blocks passed, and the reader at the end of the last.    *)
THEOREM BlocksInvariant == BlocksSpec => []BlocksInv
  BY BlocksStart, BlocksStep, PTL DEF BlocksSpec

(* Types, for blocks of any length: no length taken from the file moves    *)
(* the reader beyond the data (rm/RmParser.cpp lines 206-209).             *)
THEOREM BlocksTypes == BlocksSpec => []BlocksTypeOK
<1>1. BlocksInv => BlocksTypeOK
  <2> SUFFICES ASSUME BlocksInv PROVE BlocksTypeOK
    OBVIOUS
  <2>1. FileOK /\ MaxBlocks \in Nat
    BY BlocksAssumption DEF BlocksInv
  <2>2. page \in [strokes : Seq(Nat), hasText : BOOLEAN]
    <3>1. page = Drawn(file.blocks)[count] /\ count \in 0 .. Len(file.blocks)
      BY DEF BlocksInv
    <3> QED BY <2>1, <3>1, Boundaries, DrawnTells DEF Pages
  <2>3. reader \in [pos : 0 .. size, ok : BOOLEAN]
    BY <2>1 DEF BlocksInv, FileOK
  <2>4. count \in 0 .. MaxBlocks
    <3>1. Len(file.blocks) \in Nat /\ Len(file.blocks) <= MaxBlocks
      BY <2>1, Boundaries DEF FileOK
    <3> QED BY <2>1, <3>1 DEF BlocksInv
  <2> QED BY <2>1, <2>2, <2>3, <2>4 DEF BlocksTypeOK, BlocksInv, FileOK
<1> QED BY <1>1, BlocksInvariant, PTL

(* The blocks a parse has counted are those that the file held to the end. *)
LEMMA WholeCounted ==
  ASSUME BlocksInv, phase = "parsed"
  PROVE  Whole = count
<1> DEFINE N == Len(file.blocks)
<1>1. /\ count \in 0 .. N /\ End(count) <= size
      /\ count < N => size < End(count + 1)
  <2>1. FileOK /\ count \in 0 .. N /\ End(count) <= size
    BY DEF BlocksInv
  <2>2. ASSUME count < N PROVE size < End(count + 1)
    <3>1. N \in Nat /\ count + 1 \in 0 .. N /\ count < count + 1 /\ size \in Nat
          /\ BlockHead \in Nat
      BY <2>1, <2>2, Boundaries, BlocksAssumption DEF FileOK
    <3>2. End(count) + BlockHead <= End(count + 1) /\ End(count + 1) \in Nat
          /\ End(count) \in Nat
      BY <2>1, <3>1, Boundaries
    <3> QED BY <3>1, <3>2 DEF BlocksInv
  <2> QED BY <2>1, <2>2
<1>2. FileOK /\ N \in Nat /\ DOMAIN file.blocks = 1 .. N /\ size \in Nat
      /\ BlockHead \in Nat
  BY Boundaries, BlocksAssumption DEF BlocksInv, FileOK
<1>3. /\ \A n \in 0 .. N : End(n) \in Nat
      /\ \A i, n \in 0 .. N : i < n => End(i) + BlockHead <= End(n)
  BY <1>2, Boundaries
<1>4. ASSUME NEW n \in 1 .. N PROVE End(n) <= size <=> n <= count
  <2>1. CASE n <= count
    <3>1. n = count \/ End(n) + BlockHead <= End(count)
      BY <1>1, <1>2, <1>3, <2>1
    <3> QED BY <1>1, <1>2, <1>3, <2>1, <3>1
  <2>2. CASE n > count
    <3>1. count < N /\ count + 1 \in 0 .. N
      BY <1>1, <1>2, <2>2
    <3>2. n = count + 1 \/ End(count + 1) + BlockHead <= End(n)
      BY <1>1, <1>2, <1>3, <2>2, <3>1
    <3>3. size < End(count + 1) /\ End(count + 1) \in Nat /\ End(n) \in Nat
      BY <1>1, <1>2, <1>3, <3>1
    <3>4. count \in Int /\ n \in Int
      BY <1>1, <1>2
    <3> QED BY <1>2, <2>2, <3>2, <3>3, <3>4
  <2>3. n <= count \/ n > count
    BY <1>1, <1>2
  <2> QED BY <2>1, <2>2, <2>3
<1>5. {n \in DOMAIN file.blocks : End(n) <= size} = 1 .. count
  BY <1>1, <1>2, <1>4
<1>6. Cardinality(1 .. count) = count
  BY <1>1, <1>2, FS_Interval
<1> QED BY <1>5, <1>6 DEF Whole

(* A file cut anywhere yields the page of its whole blocks, and a block    *)
(* that cannot be read costs itself only (rm/RmParser.h lines 5-8), for    *)
(* any blocks and any number of them.                                      *)
THEOREM CutsCostOneBlock == BlocksSpec => []WholeBlocksDecoded
<1>1. BlocksInv => WholeBlocksDecoded
  <2> SUFFICES ASSUME BlocksInv PROVE WholeBlocksDecoded
    OBVIOUS
  <2>1. phase = "refused" => size < HeaderLen \/ ~ file.supported
    BY DEF BlocksInv
  <2>2. ASSUME phase = "parsed"
        PROVE  /\ size >= HeaderLen /\ file.supported
               /\ count = Whole /\ page = Drawn(file.blocks)[Whole]
    BY <2>2, WholeCounted DEF BlocksInv
  <2>3. ASSUME phase = "parsed"
        PROVE  HasPoints(page) <=>
                 \E n \in 1 .. Whole :
                   LET b == file.blocks[n]
                   IN /\ b.type = "line" /\ b.valued /\ b.clean
                      /\ \E k \in 1 .. b.points : b.points = k * PointSize(b)
    <3>1. FileOK /\ Whole \in 0 .. Len(file.blocks)
      BY <2>3, WholeCounted DEF BlocksInv
    <3>2. HasPoints(page) <=> \E n \in 1 .. Whole : Draws(file.blocks[n])
      BY <2>2, <2>3, <3>1, Boundaries, DrawnTells
    <3>3. \A n \in 1 .. Whole : file.blocks[n] \in Block
      <4>1. \A n \in 1 .. Whole : n \in 1 .. Len(file.blocks)
        BY <3>1, Boundaries
      <4> QED BY <3>1, <4>1, Boundaries
    <3> QED BY <3>2, <3>3, PointsCounted DEF Draws
  <2> QED BY <2>1, <2>2, <2>3 DEF WholeBlocksDecoded
<1> QED BY <1>1, BlocksInvariant, PTL

(* A clean file parses with zero leftover bytes (rm/RmParser.h lines 7-8), *)
(* for any blocks and any number of them: the round a block header's bytes *)
(* are left for is never missed.                                           *)
THEOREM CleanFilesLeaveNothing == BlocksSpec => []CleanFilesExact
<1>1. BlocksInv => CleanFilesExact
  <2> SUFFICES ASSUME BlocksInv, phase = "parsed", size = End(Whole)
               PROVE  Remaining = 0
    BY DEF CleanFilesExact
  <2>1. Whole = count
    BY WholeCounted
  <2>2. FileOK /\ size \in Nat /\ BlockHead \in Nat \ {0} /\ End(count) \in Nat
        /\ reader.pos <= size
    BY Boundaries, BlocksAssumption DEF BlocksInv, FileOK
  <2>3. CASE reader.pos = End(count) /\ size < End(count) + BlockHead
    BY <2>1, <2>2, <2>3 DEF Remaining
  <2>4. CASE reader.pos = End(count) + BlockHead
    BY <2>1, <2>2, <2>4
  <2> QED BY <2>3, <2>4 DEF BlocksInv
<1> QED BY <1>1, BlocksInvariant, PTL
------------------------------------------------------------------------------
(* FlattenSeq, of parts with an element at most: what a loop appends that  *)
(* takes something of some of its items, in their order.                   *)
Ordered(s, R) == \A i, j \in DOMAIN s : i < j => <<s[i], s[j]>> \in R

LEMMA PartAppended ==
  ASSUME NEW S, NEW s \in Seq(S), NEW p \in Seq(S), Len(p) <= 1,
         NEW R, Ordered(s, R), \A x \in ToSet(s), y \in ToSet(p) : <<x, y>> \in R
  PROVE  /\ s \o p \in Seq(S)
         /\ \A x : x \in ToSet(s \o p) <=> x \in ToSet(s) \/ x \in ToSet(p)
         /\ Ordered(s \o p, R)
<1> DEFINE t == s \o p
<1>1. /\ t \in Seq(S) /\ Len(t) = Len(s) + Len(p)
      /\ \A i \in 1 .. Len(s) : t[i] = s[i]
      /\ \A i \in 1 .. Len(p) : t[Len(s) + i] = p[i]
  BY ConcatProperties
<1> HIDE DEF t
<1>2. /\ Len(s) \in Nat /\ Len(p) \in {0, 1}
      /\ DOMAIN s = 1 .. Len(s) /\ DOMAIN p = 1 .. Len(p) /\ DOMAIN t = 1 .. Len(t)
  <2>1. Len(s) \in Nat /\ DOMAIN s = 1 .. Len(s)
    OBVIOUS
  <2>2. Len(p) \in Nat /\ Len(p) <= 1 /\ DOMAIN p = 1 .. Len(p)
    OBVIOUS
  <2>3. DOMAIN t = 1 .. Len(t)
    BY <1>1
  <2> QED BY <2>1, <2>2, <2>3
<1>3. /\ \A i \in DOMAIN s : i \in DOMAIN t /\ t[i] = s[i]
      /\ \A i \in DOMAIN p : Len(s) + i \in DOMAIN t /\ t[Len(s) + i] = p[i]
      /\ \A i \in DOMAIN t : i \in DOMAIN s \/ (i = Len(s) + 1 /\ 1 \in DOMAIN p)
  BY <1>1, <1>2
<1>4. ASSUME NEW x PROVE x \in ToSet(t) <=> x \in ToSet(s) \/ x \in ToSet(p)
  BY <1>3 DEF ToSet
<1>5. Ordered(t, R)
  <2> SUFFICES ASSUME NEW i \in DOMAIN t, NEW j \in DOMAIN t, i < j
               PROVE  <<t[i], t[j]>> \in R
    BY DEF Ordered
  <2>1. CASE j \in DOMAIN s
    <3>1. i \in DOMAIN s
      BY <1>1, <1>2, <2>1
    <3> QED BY <1>3, <2>1, <3>1 DEF Ordered
  <2>2. CASE j = Len(s) + 1 /\ 1 \in DOMAIN p
    <3>1. i \in DOMAIN s
      BY <1>1, <1>2, <2>2
    <3>2. t[i] \in ToSet(s) /\ t[j] \in ToSet(p)
      BY <1>3, <2>2, <3>1 DEF ToSet
    <3> QED BY <3>2
  <2> QED BY <1>3, <2>1, <2>2
<1> QED BY <1>1, <1>4, <1>5 DEF t

Flat(parts, n, S, R) ==
  {s \in Seq(S) : /\ \A x \in S : x \in ToSet(s) <=>
                       \E k \in 1 .. n : x \in ToSet(parts[k])
                  /\ Ordered(s, R)}

LEMMA Flattened ==
  ASSUME NEW S, NEW N \in Nat, NEW parts \in [1 .. N -> Seq(S)], NEW R,
         \A k \in 1 .. N : Len(parts[k]) <= 1,
         \A k, l \in 1 .. N : k < l =>
           \A x \in ToSet(parts[k]), y \in ToSet(parts[l]) : <<x, y>> \in R
  PROVE  FlattenSeq(parts) \in Flat(parts, N, S, R)
<1>1. <<>> \in Flat(parts, 0, S, R)
  <2>1. <<>> \in Seq(S) /\ DOMAIN <<>> = {}
    OBVIOUS
  <2> QED BY <2>1 DEF Flat, ToSet, Ordered
<1>2. parts \in Seq(Seq(S)) /\ Len(parts) = N
  BY FunctionIsSeq
<1>3. CASE N = 0
  <2>1. FlattenSeq(parts) = parts /\ parts = <<>>
    BY <1>2, <1>3 DEF FlattenSeq
  <2> QED BY <1>1, <1>3, <2>1
<1>4. CASE N # 0
  <2> DEFINE g == [n \in 1 .. N |-> [s \in Seq(S) |-> s \o parts[n]]]
             Def(f) == [i \in 1 .. N |-> IF i = 1 THEN parts[i] ELSE f[i - 1] \o parts[i]]
             flatten == CHOOSE f : f = Def(f)
             all == [n \in 0 .. N |-> IF n = 0 THEN <<>> ELSE flatten[n]]
             I == [n \in 0 .. N |-> Flat(parts, n, S, R)]
  <2>1. <<>> \in Seq(S) /\ \A n \in 1 .. N : parts[n] \in Seq(S)
    OBVIOUS
  <2>2. \A s, p \in Seq(S) : s \o p \in Seq(S)
    BY ConcatProperties
  <2>3. g \in [1 .. N -> [Seq(S) -> Seq(S)]]
    BY <2>1, <2>2
  <2>4. PICK f \in [0 .. N -> Seq(S)] : IsIteration(f, <<>>, g, N)
    <3> HIDE DEF g
    <3> QED BY <2>1, <2>3, Iterates
  <2> DEFINE h == [i \in 1 .. N |-> f[i]]
  <2>5. h = Def(h)
    <3>1. ASSUME NEW n \in 1 .. N PROVE f[n] = f[n - 1] \o parts[n]
      <4>1. n - 1 \in 0 .. N /\ f[n - 1] \in Seq(S)
        OBVIOUS
      <4> QED BY <2>4, <4>1 DEF IsIteration
    <3>2. f[1] = parts[1]
      <4>1. 1 \in 1 .. N /\ 1 - 1 = 0 /\ f[0] = <<>>
        BY <1>4, <2>4 DEF IsIteration
      <4>2. parts[1] \in Seq(S) /\ <<>> \o parts[1] = parts[1]
        BY <2>1, <4>1, ConcatEmptySeq
      <4> QED BY <3>1, <4>1, <4>2
    <3>3. \A n \in 1 .. N : n # 1 => n - 1 \in 1 .. N
      OBVIOUS
    <3> QED BY <3>1, <3>2, <3>3
  <2>6. flatten = Def(flatten)
    <3> HIDE DEF Def, h
    <3> QED BY <2>5
  <2>7. FlattenSeq(parts) = flatten[N]
    BY <1>2, <1>4 DEF FlattenSeq
  <2> HIDE DEF flatten, g
  <2>8. \A n \in 1 .. N :
          flatten[n] = IF n = 1 THEN parts[n] ELSE flatten[n - 1] \o parts[n]
    BY <2>6
  <2>9. /\ all[0] = <<>>
        /\ \A n \in 1 .. N : all[n] = flatten[n]
        /\ \A n \in 1 .. N : n # 1 => all[n - 1] = flatten[n - 1]
    OBVIOUS
  <2> HIDE DEF all
  <2>10. \A n \in 1 .. N : all[n] = all[n - 1] \o parts[n]
    <3> SUFFICES ASSUME NEW n \in 1 .. N PROVE all[n] = all[n - 1] \o parts[n]
      OBVIOUS
    <3>1. CASE n = 1
      <4>1. parts[1] \in Seq(S) /\ <<>> \o parts[1] = parts[1]
        BY <2>1, <3>1, ConcatEmptySeq
      <4>2. all[n] = flatten[1] /\ flatten[1] = parts[1]
        BY <2>8, <2>9, <3>1
      <4>3. all[n - 1] = <<>>
        BY <2>9, <3>1
      <4> QED BY <3>1, <4>1, <4>2, <4>3
    <3>2. CASE n # 1
      <4>1. flatten[n] = flatten[n - 1] \o parts[n]
        BY <2>8, <3>2
      <4>2. all[n] = flatten[n] /\ all[n - 1] = flatten[n - 1]
        BY <2>9, <3>2
      <4> QED BY <4>1, <4>2
    <3> QED BY <3>1, <3>2
  <2>11. \A n \in 0 .. N : I[n] = Flat(parts, n, S, R)
    OBVIOUS
  <2> HIDE DEF I
  <2>12. all[0] \in I[0]
    BY <1>1, <2>9, <2>11
  <2>13. ASSUME NEW n \in 1 .. N, all[n - 1] \in I[n - 1] PROVE all[n] \in I[n]
    <3> DEFINE s == all[n - 1]
               p == parts[n]
    <3>1. /\ n - 1 \in 0 .. N /\ n \in 0 .. N
          /\ \A k : k \in 1 .. n <=> k \in 1 .. n - 1 \/ k = n
          /\ \A k \in 1 .. n - 1 : k \in 1 .. N /\ k < n
      OBVIOUS
    <3>2. s \in Flat(parts, n - 1, S, R)
      BY <2>11, <2>13, <3>1
    <3>3. s \in Seq(S) /\ Ordered(s, R)
          /\ \A x \in S : x \in ToSet(s) <=> \E k \in 1 .. n - 1 : x \in ToSet(parts[k])
      BY <3>2 DEF Flat
    <3>4. p \in Seq(S) /\ Len(p) <= 1
      BY <2>1
    <3>5. \A x \in ToSet(s) : x \in S
      <4>1. \A i \in DOMAIN s : s[i] \in S
        BY <3>3
      <4> QED BY <4>1 DEF ToSet
    <3>6. \A x \in ToSet(s), y \in ToSet(p) : <<x, y>> \in R
      BY <3>1, <3>3, <3>5
    <3>7. all[n] = s \o p
      BY <2>10
    <3> HIDE DEF s, p
    <3>8. /\ s \o p \in Seq(S)
          /\ \A x : x \in ToSet(s \o p) <=> x \in ToSet(s) \/ x \in ToSet(p)
          /\ Ordered(s \o p, R)
      BY ONLY <3>3, <3>4, <3>6, PartAppended
    <3>9. \A x \in S : x \in ToSet(s \o p) <=> \E k \in 1 .. n : x \in ToSet(parts[k])
      BY <3>1, <3>3, <3>8 DEF p
    <3>10. s \o p \in Flat(parts, n, S, R)
      BY <3>8, <3>9 DEF Flat
    <3> QED BY <2>11, <3>1, <3>7, <3>10
  <2>14. \A n \in 0 .. N : all[n] \in I[n]
    BY <2>12, <2>13, TurnByTurn
  <2>15. all[N] = flatten[N] /\ N \in 0 .. N
    BY <1>4, <2>9
  <2> QED BY <2>7, <2>11, <2>14, <2>15
<1> QED BY <1>3, <1>4
------------------------------------------------------------------------------
NoteRows == [page : PageNumbers, rm : BOOLEAN, thumb : BOOLEAN]
InOrder(rows) == \A i, j \in DOMAIN rows : i < j => rows[i].page < rows[j].page

(* scan(): the pages of a notebook, in its order.                          *)
LEMMA ScanKeepsOrder ==
  ASSUME NEW d \in Devices
  PROVE  Scan(d) \in Seq(NoteRows) /\ InOrder(Scan(d))
<1> DEFINE row(p) == [page |-> p, rm |-> d[p].rm # "none", thumb |-> d[p].thumb]
           parts == [p \in 1 .. PageCount |->
                       IF d[p].rm = "none" /\ ~ d[p].thumb THEN <<>> ELSE <<row(p)>>]
           R == {r \in NoteRows \X NoteRows : r[1].page < r[2].page}
<1>1. PageCount \in Nat
  BY AttachmentAssumption
<1>2. \A p \in 1 .. PageCount : row(p) \in NoteRows /\ row(p).page = p
  BY DEF Devices, PageNumbers, NoteRows
<1> HIDE DEF row
<1>3. \A p \in 1 .. PageCount :
        /\ parts[p] \in Seq(NoteRows) /\ Len(parts[p]) <= 1
        /\ \A x \in ToSet(parts[p]) : x = row(p)
  BY <1>2 DEF ToSet
<1>4. parts \in [1 .. PageCount -> Seq(NoteRows)]
  BY <1>3
<1> HIDE DEF parts
<1>5. \A k, l \in 1 .. PageCount : k < l =>
        \A x \in ToSet(parts[k]), y \in ToSet(parts[l]) : <<x, y>> \in R
  BY <1>2, <1>3
<1>6. \A k \in 1 .. PageCount : Len(parts[k]) <= 1
  BY <1>3
<1> HIDE DEF R
<1>7. FlattenSeq(parts) \in Flat(parts, PageCount, NoteRows, R)
  BY ONLY <1>1, <1>4, <1>5, <1>6, Flattened
<1>8. Scan(d) = FlattenSeq(parts)
  BY DEF Scan, parts, row, PageNumbers
<1> QED BY <1>7, <1>8 DEF Flat, Ordered, R, InOrder

(* A range of them.                                                        *)
LEMMA RangeKeepsOrder ==
  ASSUME NEW rows \in Seq(NoteRows), InOrder(rows),
         NEW from \in DOMAIN rows, NEW to \in DOMAIN rows, to \in PageNumbers,
         from <= to
  PROVE  LET range == SubSeq(rows, from, to)
         IN range \in Seq(NoteRows) /\ Len(range) <= PageCount /\ InOrder(range)
<1> DEFINE range == SubSeq(rows, from, to)
<1>1. Len(rows) \in Nat /\ from \in 1 .. Len(rows) /\ to \in 1 .. Len(rows)
      /\ PageCount \in Nat /\ to <= PageCount
  BY AttachmentAssumption DEF PageNumbers
<1>2. /\ range \in Seq(NoteRows) /\ Len(range) = to - from + 1
      /\ \A i \in 1 .. to - from + 1 : range[i] = rows[from + i - 1]
  BY <1>1, SubSeqProperties
<1> HIDE DEF range
<1>3. InOrder(range)
  <2> SUFFICES ASSUME NEW i \in DOMAIN range, NEW j \in DOMAIN range, i < j
               PROVE  range[i].page < range[j].page
    BY DEF InOrder
  <2>1. /\ i \in 1 .. to - from + 1 /\ j \in 1 .. to - from + 1
        /\ from + i - 1 \in DOMAIN rows /\ from + j - 1 \in DOMAIN rows
        /\ from + i - 1 < from + j - 1
    BY <1>1, <1>2
  <2>2. range[i] = rows[from + i - 1] /\ range[j] = rows[from + j - 1]
    BY <1>2, <2>1
  <2> QED BY <2>1, <2>2 DEF InOrder
<1> QED BY <1>1, <1>2, <1>3 DEF range

(* The PNG branch: a file is of the page at the position it is named for.  *)
OfPosition(range) ==
  {f \in Staged : f.name \in DOMAIN range /\ f.pages = <<range[f.name].page>>}

LEMMA PngsStaged ==
  ASSUME NEW range \in Seq(NoteRows), Len(range) <= PageCount, NEW saved
  PROVE  StagePngs(range, saved) \in Seq(OfPosition(range))
<1> DEFINE N == Len(range)
           S == OfPosition(range)
           parts == [k \in 1 .. N |-> StagePng(range[k], k, saved)]
           R == S \X S
<1>1. N \in Nat /\ DOMAIN range = 1 .. N /\ N <= PageCount /\ PageCount \in Nat
  BY AttachmentAssumption
<1>2. ASSUME NEW k \in 1 .. N
      PROVE  parts[k] \in Seq(S) /\ Len(parts[k]) <= 1
  <2>0. range[k] \in NoteRows
    BY <1>1
  <2>1. range[k].page \in PageNumbers /\ k \in 0 .. PageCount
    BY <1>1, <2>0 DEF NoteRows
  <2>2. <<range[k].page>> \in Seq(PageNumbers)
    BY <2>1
  <2>3. \A b \in BOOLEAN :
          [rendered |-> b, name |-> k, pages |-> <<range[k].page>>] \in S
    BY <1>1, <2>1, <2>2 DEF Staged, OfPosition
  <2>4. parts[k] = StagePng(range[k], k, saved)
    OBVIOUS
  <2> HIDE DEF parts, S
  <2>5. StagePng(range[k], k, saved) \in
          {<<[rendered |-> TRUE, name |-> k, pages |-> <<range[k].page>>]>>,
           <<[rendered |-> FALSE, name |-> k, pages |-> <<range[k].page>>]>>, <<>>}
    BY DEF StagePng
  <2>6. <<>> \in Seq(S) /\ Len(<<>>) <= 1
    OBVIOUS
  <2>7. \A x \in S : <<x>> \in Seq(S) /\ Len(<<x>>) <= 1
    OBVIOUS
  <2>8. /\ [rendered |-> TRUE, name |-> k, pages |-> <<range[k].page>>] \in S
        /\ [rendered |-> FALSE, name |-> k, pages |-> <<range[k].page>>] \in S
    BY <2>3
  <2> QED BY <2>4, <2>5, <2>6, <2>7, <2>8
<1>3. parts \in [1 .. N -> Seq(S)]
  BY <1>2
<1>4. \A k \in 1 .. N : Len(parts[k]) <= 1
  BY <1>2
<1>5. StagePngs(range, saved) = FlattenSeq(parts)
  BY <1>1 DEF StagePngs
<1> HIDE DEF parts, S
<1>6. \A k, l \in 1 .. N : k < l =>
        \A x \in ToSet(parts[k]), y \in ToSet(parts[l]) : <<x, y>> \in R
  <2>1. \A k \in 1 .. N : \A x \in ToSet(parts[k]) : x \in S
    <3> SUFFICES ASSUME NEW k \in 1 .. N PROVE \A x \in ToSet(parts[k]) : x \in S
      OBVIOUS
    <3>1. parts[k] \in Seq(S)
      BY <1>2
    <3>2. \A i \in DOMAIN parts[k] : parts[k][i] \in S
      BY <3>1
    <3> QED BY <3>2 DEF ToSet
  <2> QED BY <2>1
<1> HIDE DEF N, R
<1>7. FlattenSeq(parts) \in Flat(parts, N, S, R)
  BY ONLY <1>1, <1>3, <1>4, <1>6, Flattened
<1> QED BY <1>5, <1>7 DEF Flat, S

(* The PDF branch: one file or none, with the pages of the range that show *)
(* something, in their order.                                              *)
LEMMA PdfStaged ==
  ASSUME NEW range \in Seq(NoteRows), InOrder(range), NEW saved
  PROVE  \/ StagePdf(range, saved) = <<>>
         \/ \E pages \in Seq(PageNumbers) :
              /\ StagePdf(range, saved)
                   = <<[rendered |-> TRUE, name |-> 0, pages |-> pages]>>
              /\ \A i, j \in DOMAIN pages : i < j => pages[i] < pages[j]
              /\ \A i \in DOMAIN pages :
                   \E n \in DOMAIN range : range[n].page = pages[i]
              /\ Printable(range, PageNumbers) \subseteq ToSet(pages)
<1> DEFINE N == Len(range)
           parts == [k \in 1 .. N |->
                       IF Drawable(range[k]) THEN <<range[k].page>> ELSE <<>>]
           R == {r \in PageNumbers \X PageNumbers : r[1] < r[2]}
           drawn == FlattenSeq(parts)
<1>1. N \in Nat /\ DOMAIN range = 1 .. N
      /\ \A k \in 1 .. N : range[k].page \in PageNumbers
  <2>1. N \in Nat /\ DOMAIN range = 1 .. N /\ \A k \in 1 .. N : range[k] \in NoteRows
    OBVIOUS
  <2> QED BY <2>1 DEF NoteRows
<1>2. \A k \in 1 .. N :
        /\ parts[k] \in Seq(PageNumbers) /\ Len(parts[k]) <= 1
        /\ \A x : x \in ToSet(parts[k]) <=> Drawable(range[k]) /\ x = range[k].page
  BY <1>1 DEF ToSet
<1>3. parts \in [1 .. N -> Seq(PageNumbers)]
  BY <1>2
<1>4. StagePdf(range, saved) =
        IF drawn = <<>> \/ saved = {} THEN <<>>
        ELSE <<[rendered |-> TRUE, name |-> 0, pages |-> drawn]>>
  BY <1>1 DEF StagePdf
<1> HIDE DEF parts
<1>5. \A k, l \in 1 .. N : k < l =>
        \A x \in ToSet(parts[k]), y \in ToSet(parts[l]) : <<x, y>> \in R
  BY <1>1, <1>2 DEF InOrder
<1>6. \A k \in 1 .. N : Len(parts[k]) <= 1
  BY <1>2
<1> HIDE DEF R, N
<1>7. drawn \in Flat(parts, N, PageNumbers, R)
  BY ONLY <1>1, <1>3, <1>5, <1>6, Flattened
<1> HIDE DEF drawn
<1>8. /\ drawn \in Seq(PageNumbers)
      /\ \A x \in PageNumbers :
           x \in ToSet(drawn) <=> \E k \in 1 .. N : x \in ToSet(parts[k])
      /\ \A i, j \in DOMAIN drawn : i < j => drawn[i] < drawn[j]
  BY <1>7 DEF Flat, Ordered, R
<1>9. \A i \in DOMAIN drawn : \E n \in DOMAIN range : range[n].page = drawn[i]
  <2>1. \A i \in DOMAIN drawn : drawn[i] \in PageNumbers /\ drawn[i] \in ToSet(drawn)
    BY <1>8 DEF ToSet
  <2> QED BY <1>1, <1>2, <1>8, <2>1
<1>10. Printable(range, PageNumbers) \subseteq ToSet(drawn)
  <2> SUFFICES ASSUME NEW k \in DOMAIN range, Drawable(range[k])
               PROVE  range[k].page \in ToSet(drawn)
    BY DEF Printable, Drawable
  <2> QED BY <1>1, <1>2, <1>8
<1> QED BY <1>4, <1>8, <1>9, <1>10
------------------------------------------------------------------------------
(* The inductive invariant of Attachments: the notebook is in order, so    *)
(* that ranges of it are, whatever the device does to the files meanwhile. *)
AttachInv ==
  /\ AttachTypeOK /\ AttachedAsLabelled
  /\ InOrder(notes)

LEMMA AttachStart == AttachInit => AttachInv
<1> SUFFICES ASSUME AttachInit PROVE AttachInv
  OBVIOUS
<1>1. device \in Devices /\ notes = Scan(device) /\ temp = {}
      /\ staging = NothingStaged /\ selection = Nobody /\ published = Unpublished
  BY DEF AttachInit
<1>2. notes \in Seq(NoteRows) /\ InOrder(notes)
  BY <1>1, ScanKeepsOrder
<1>3. NothingStaged \in Stagings
  <2>1. <<>> \in Seq(Staged)
    OBVIOUS
  <2> QED BY <2>1 DEF NothingStaged, Stagings
<1>4. Nobody \in [agent : Agents \cup {NoAgent}, accepts : BOOLEAN,
                  limit : Limits \cup {0}]
      /\ Unpublished \in [to : Agents \cup {NoAgent}, owner : Agents \cup {NoAgent}]
  BY DEF Nobody, Unpublished
<1>5. AttachTypeOK
  BY <1>1, <1>2, <1>3, <1>4 DEF AttachTypeOK, NoteRows
<1>6. NothingStaged.files = <<>> /\ NothingStaged.label = NoLabel
      /\ Rendered(<<>>) = {}
  BY DEF NothingStaged, Rendered
<1>8. AttachedAsLabelled
  BY <1>1, <1>6 DEF AttachedAsLabelled
<1> QED BY <1>2, <1>5, <1>8 DEF AttachInv

(* clearAttachment() leaves nothing staged and no file.                    *)
LEMMA ClearKeeps ==
  ASSUME AttachInv, Clear, UNCHANGED notes, device' \in Devices,
         selection' \in [agent : Agents \cup {NoAgent}, accepts : BOOLEAN,
                         limit : Limits \cup {0}],
         published' \in [to : Agents \cup {NoAgent}, owner : Agents \cup {NoAgent}]
  PROVE  AttachInv'
<1>1. staging' = NothingStaged /\ temp' = {}
  BY DEF Clear
<1>2. NothingStaged \in Stagings
  <2>1. <<>> \in Seq(Staged)
    OBVIOUS
  <2> QED BY <2>1 DEF NothingStaged, Stagings
<1>3. NothingStaged.files = <<>> /\ NothingStaged.label = NoLabel
      /\ Rendered(<<>>) = {}
  BY DEF NothingStaged, Rendered
<1>4. AttachTypeOK'
  BY <1>1, <1>2 DEF AttachInv, AttachTypeOK
<1>6. AttachedAsLabelled'
  BY <1>1, <1>3 DEF AttachedAsLabelled
<1> QED BY <1>4, <1>6 DEF AttachInv, InOrder

(* stageNotePages(), in either format, of any range.                       *)
LEMMA StageKeeps ==
  ASSUME AttachInv, NEW from \in PageNumbers, NEW to \in PageNumbers,
         NEW pdf \in BOOLEAN, NEW saved \in SUBSET PageNumbers,
         StagePages(from, to, pdf, saved)
  PROVE  AttachInv'
<1> DEFINE range == SubSeq(notes, from, to)
           files == IF pdf THEN StagePdf(range, saved) ELSE StagePngs(range, saved)
           label == IF files = <<>> THEN NoLabel
                    ELSE [from |-> from, to |-> to, pdf |-> pdf]
           printable == IF pdf /\ saved = {} THEN {}
                        ELSE Printable(range, IF pdf THEN PageNumbers ELSE saved)
<1>1. /\ from \in DOMAIN notes /\ to \in DOMAIN notes /\ from <= to
      /\ temp' = Rendered(files)
      /\ staging' = [files |-> files, label |-> label,
                     owner |-> selection.agent, printable |-> printable]
      /\ UNCHANGED <<device, notes, selection, published>>
  BY DEF StagePages
<1>2. notes \in Seq(NoteRows) /\ InOrder(notes) /\ AttachTypeOK
  BY DEF AttachInv, AttachTypeOK, NoteRows
<1>3. range \in Seq(NoteRows) /\ Len(range) <= PageCount /\ InOrder(range)
  BY <1>1, <1>2, RangeKeepsOrder
<1>4. printable \in SUBSET PageNumbers
  <2>1. \A k \in DOMAIN range : range[k].page \in PageNumbers
    <3>1. \A k \in DOMAIN range : range[k] \in NoteRows
      BY <1>3
    <3> QED BY <3>1 DEF NoteRows
  <2> HIDE DEF range
  <2>2. \A s : Printable(range, s) \in SUBSET PageNumbers
    BY <2>1 DEF Printable
  <2> QED BY <2>2
<1>5. label \in Labels \cup {NoLabel}
  BY DEF Labels
<1>7. files # <<>> => label.from = from /\ label.to = to /\ label.pdf = pdf
  <2> HIDE DEF files
  <2> QED OBVIOUS
<1>8. staging'.files = files /\ staging'.label = label
      /\ staging'.printable = printable /\ staging'.owner = selection.agent
  <2> HIDE DEF files, label, printable
  <2> QED BY <1>1
<1> HIDE DEF label
<1>9. CASE pdf
  <2>1. files = StagePdf(range, saved)
    BY <1>9
  <2>2. CASE files = <<>>
    <3>1. files \in Seq(Staged)
      <4>1. <<>> \in Seq(Staged)
        OBVIOUS
      <4> HIDE DEF files
      <4> QED BY <2>2, <4>1
    <3> HIDE DEF files, range, printable
    <3>2. Rendered(files) = {}
      BY <2>2 DEF Rendered
    <3>3. staging' \in Stagings
      BY <1>1, <1>2, <1>4, <1>5, <3>1 DEF Stagings, AttachTypeOK
    <3>4. AttachTypeOK'
      BY <1>1, <1>2, <3>2, <3>3 DEF AttachTypeOK
    <3>6. AttachedAsLabelled'
      BY <1>8, <2>2 DEF AttachedAsLabelled
    <3> QED BY <1>1, <1>2, <3>4, <3>6 DEF AttachInv, InOrder
  <2>3. CASE files # <<>>
    <3> DEFINE theFile(pages) == [rendered |-> TRUE, name |-> 0, pages |-> pages]
    <3>1. PICK pages \in Seq(PageNumbers) :
            /\ files = <<theFile(pages)>>
            /\ \A i, j \in DOMAIN pages : i < j => pages[i] < pages[j]
            /\ \A i \in DOMAIN pages :
                 \E n \in DOMAIN range : range[n].page = pages[i]
            /\ Printable(range, PageNumbers) \subseteq ToSet(pages)
      <4> HIDE DEF files, range, printable
      <4> QED BY <1>3, <2>1, <2>3, PdfStaged
    <3>2. printable \subseteq ToSet(pages)
      <4> HIDE DEF range
      <4> QED BY <1>9, <3>1
    <3>3. 0 \in 0 .. PageCount
      BY AttachmentAssumption
    <3>4. theFile(pages) \in Staged
      BY <3>3 DEF Staged
    <3>5. files \in Seq(Staged)
      <4> HIDE DEF files, range, printable, theFile
      <4> QED BY <3>1, <3>4
    <3>6. Rendered(files) \subseteq 0 .. PageCount
      <4>1. \A k \in DOMAIN files : files[k] \in Staged
        <5> HIDE DEF files
        <5> QED BY <3>5
      <4> HIDE DEF files
      <4> QED BY <4>1 DEF Rendered, Staged
    <3> HIDE DEF files, range, printable
    <3>7. staging' \in Stagings
      BY <1>1, <1>2, <1>4, <1>5, <3>5 DEF Stagings, AttachTypeOK
    <3>8. AttachTypeOK'
      BY <1>1, <1>2, <3>6, <3>7 DEF AttachTypeOK
    <3>10. \A k \in DOMAIN files : files[k] = theFile(pages) /\ files[k].pages = pages
      <4>1. theFile(pages).pages = pages
        OBVIOUS
      <4> HIDE DEF theFile
      <4>2. \A k \in DOMAIN files : files[k] = theFile(pages)
        BY <3>1
      <4> QED BY <4>1, <4>2
    <3> HIDE DEF theFile
    <3>11. AttachedAsLabelled'
      <4>1. label.pdf /\ label.from = from /\ label.to = to
        BY <1>7, <1>9, <2>3
      <4>2. range = SubSeq(notes', label.from, label.to)
        BY <1>1, <4>1 DEF range
      <4> SUFFICES ASSUME NEW k \in DOMAIN files
          PROVE  /\ \A i, j \in DOMAIN files[k].pages :
                      i < j => files[k].pages[i] < files[k].pages[j]
                 /\ \A i \in DOMAIN files[k].pages :
                      \E n \in DOMAIN range : range[n].page = files[k].pages[i]
                 /\ printable \subseteq ToSet(files[k].pages)
        BY <1>8, <4>1, <4>2 DEF AttachedAsLabelled
      <4> QED BY <3>1, <3>2, <3>10
    <3> QED BY <1>1, <1>2, <3>8, <3>11 DEF AttachInv, InOrder
  <2> QED BY <2>2, <2>3
<1>10. CASE ~ pdf
  <2>1. files = StagePngs(range, saved)
    BY <1>10
  <2>2. files \in Seq(OfPosition(range))
    <3> HIDE DEF files, range, printable
    <3> QED BY <1>3, <2>1, PngsStaged
  <2> HIDE DEF files, range, printable
  <2>3. \A k \in DOMAIN files : files[k] \in OfPosition(range)
    BY <2>2
  <2>4. files \in Seq(Staged)
    BY <2>2 DEF OfPosition
  <2>5. Rendered(files) \subseteq 0 .. PageCount
    BY <2>3 DEF Rendered, Staged, OfPosition
  <2>6. staging' \in Stagings
    BY <1>1, <1>2, <1>4, <1>5, <2>4 DEF Stagings, AttachTypeOK
  <2>7. AttachTypeOK'
    BY <1>1, <1>2, <2>5, <2>6 DEF AttachTypeOK
  <2>9. AttachedAsLabelled'
    <3> SUFFICES ASSUME NEW k \in DOMAIN files
        PROVE  /\ ~ label.pdf
               /\ files[k].name \in DOMAIN SubSeq(notes', label.from, label.to)
               /\ files[k].pages =
                    <<SubSeq(notes', label.from, label.to)[files[k].name].page>>
      BY <1>8 DEF AttachedAsLabelled
    <3>1. files # <<>>
      BY <2>2
    <3>2. ~ label.pdf /\ label.from = from /\ label.to = to
      BY <1>7, <1>10, <3>1
    <3>3. range = SubSeq(notes', label.from, label.to)
      BY <1>1, <3>2 DEF range
    <3> QED BY <2>3, <3>2, <3>3 DEF OfPosition
  <2> QED BY <1>1, <1>2, <2>7, <2>9 DEF AttachInv, InOrder
<1> QED BY <1>9, <1>10

LEMMA AttachStep == AttachInv /\ [AttachNext]_attachVars => AttachInv'
<1> SUFFICES ASSUME AttachInv, [AttachNext]_attachVars PROVE AttachInv'
  OBVIOUS
<1>1. AttachTypeOK
  BY DEF AttachInv
<1>2. ASSUME NEW k \in Agents, NEW accepts \in BOOLEAN, NEW limit \in Limits,
             SelectAgent(k, accepts, limit)
      PROVE  AttachInv'
  <2>1. selection' \in [agent : Agents \cup {NoAgent}, accepts : BOOLEAN,
                        limit : Limits \cup {0}]
    BY <1>2 DEF SelectAgent
  <2> QED BY <1>1, <1>2, <2>1, ClearKeeps DEF SelectAgent, AttachTypeOK
<1>3. ASSUME NEW from \in PageNumbers, NEW to \in PageNumbers, NEW pdf \in BOOLEAN,
             NEW saved \in SUBSET PageNumbers, StagePages(from, to, pdf, saved)
      PROVE  AttachInv'
  BY <1>3, StageKeeps
<1>4. CASE RemoveAttachment
  BY <1>1, <1>4, ClearKeeps DEF RemoveAttachment, AttachTypeOK
<1>5. CASE SendPrompt
  <2>1. published' \in [to : Agents \cup {NoAgent}, owner : Agents \cup {NoAgent}]
    BY <1>1, <1>5 DEF SendPrompt, AttachTypeOK, Stagings
  <2> QED BY <1>1, <1>5, <2>1, ClearKeeps DEF SendPrompt, AttachTypeOK
<1>6. ASSUME NEW p \in PageNumbers, NEW rm \in PageFiles, NEW thumb \in BOOLEAN,
             DeviceChanges(p, rm, thumb)
      PROVE  AttachInv'
  <2>1. device' \in Devices /\ UNCHANGED <<notes, temp, staging, selection, published>>
    BY <1>1, <1>6 DEF DeviceChanges, AttachTypeOK, Devices
  <2>2. AttachTypeOK'
    BY <1>1, <2>1 DEF AttachInv, AttachTypeOK
  <2>3. AttachedAsLabelled'
    BY <2>1 DEF AttachInv, AttachedAsLabelled
  <2> QED BY <2>1, <2>2, <2>3 DEF AttachInv, InOrder
<1>7. CASE UNCHANGED attachVars
  <2>1. UNCHANGED <<device, notes, temp, staging, selection, published>>
    BY <1>7 DEF attachVars
  <2>2. AttachTypeOK'
    BY <1>1, <2>1 DEF AttachInv, AttachTypeOK
  <2>3. AttachedAsLabelled'
    BY <2>1 DEF AttachInv, AttachedAsLabelled
  <2> QED BY <2>1, <2>2, <2>3 DEF AttachInv, InOrder
<1> QED BY <1>2, <1>3, <1>4, <1>5, <1>6, <1>7 DEF AttachNext

(* The invariant of the specification, for any notebook and agents, and    *)
(* whatever the device writes or deletes between the scan and the sending. *)
THEOREM AttachInvariant == AttachSpec => []AttachInv
  BY AttachStart, AttachStep, PTL DEF AttachSpec

(* Types of what is staged, selected and sent.                             *)
THEOREM AttachTypes == AttachSpec => []AttachTypeOK
<1>1. AttachInv => AttachTypeOK
  BY DEF AttachInv
<1> QED BY <1>1, AttachInvariant, PTL

(* page-N.png is the N-th page of the range on the label, and a PDF has    *)
(* the range's pages that show something, all of them and in their order   *)
(* (stageNotePages), for any range, skipped pages and failed renderings.   *)
THEOREM NamesTellPages == AttachSpec => []AttachedAsLabelled
<1>1. AttachInv => AttachedAsLabelled
  BY DEF AttachInv
<1> QED BY <1>1, AttachInvariant, PTL

(* Pages go to the agent they were staged for (selectAgent() clears them). *)
THEOREM PagesKeepAddressee == AttachSpec => []NoCarryOver
<1>1. AttachInit => NoCarryOver
  BY DEF AttachInit, NothingStaged, Unpublished, NoCarryOver
<1>2. NoCarryOver /\ [AttachNext]_attachVars => NoCarryOver'
  <2> SUFFICES ASSUME NoCarryOver, [AttachNext]_attachVars PROVE NoCarryOver'
    OBVIOUS
  <2>1. ASSUME NEW k \in Agents, NEW accepts \in BOOLEAN, NEW limit \in Limits,
               SelectAgent(k, accepts, limit)
        PROVE  NoCarryOver'
    BY <2>1 DEF SelectAgent, Clear, NothingStaged, NoCarryOver
  <2>2. ASSUME NEW from \in PageNumbers, NEW to \in PageNumbers, NEW pdf \in BOOLEAN,
               NEW saved \in SUBSET PageNumbers, StagePages(from, to, pdf, saved)
        PROVE  NoCarryOver'
    BY <2>2 DEF StagePages, NoCarryOver
  <2>3. CASE RemoveAttachment
    BY <2>3 DEF RemoveAttachment, Clear, NothingStaged, NoCarryOver
  <2>4. CASE SendPrompt
    BY <2>4 DEF SendPrompt, Clear, NothingStaged, NoCarryOver
  <2>5. ASSUME NEW p \in PageNumbers, NEW rm \in PageFiles, NEW thumb \in BOOLEAN,
               DeviceChanges(p, rm, thumb)
        PROVE  NoCarryOver'
    BY <2>5 DEF DeviceChanges, NoCarryOver
  <2>6. CASE UNCHANGED attachVars
    BY <2>6 DEF attachVars, NoCarryOver
  <2> QED BY <2>1, <2>2, <2>3, <2>4, <2>5, <2>6 DEF AttachNext
<1> QED BY <1>1, <1>2, PTL DEF AttachSpec
=============================================================================
