----------------------------- MODULE PageBlocks -----------------------------
(***************************************************************************)
(* rm/RmParser::parse: the block loop over a page file, and what a stroke  *)
(* or text block adds to the page. The device may be writing the file when *)
(* the app reads it, so that the app has any prefix of it.                 *)
(*                                                                         *)
(* A file is the blocks the device writes; the reader's position is a      *)
(* number of bytes, as in rm/RmTaggedReader. Of a block's body the model   *)
(* keeps its declared length and what decides the outcome: the version,    *)
(* whether the optional value is there, the length the point array says it *)
(* has, the room the body has for it, and whether the tags before it are   *)
(* the expected ones. Coordinates, colours and the characters of a text    *)
(* are left out.                                                           *)
(***************************************************************************)
EXTENDS Naturals, Sequences, FiniteSets, SequencesExt

CONSTANTS Bodies,      \* the blocks that page files are made of
          MaxBlocks,   \* bound: blocks of a file
          HeaderLen,   \* kHeaderLen: 43
          BlockHead    \* length, unknown, two versions, type: 8 bytes

MaxInt == 2147483647   \* the counts of points are the code's int
Types == {"line", "text", "other"}
Block == [type : Types, length : Nat, version : Nat, valued : BOOLEAN,
          clean : BOOLEAN, points : Nat, room : Nat, typed : BOOLEAN]

ASSUME BlocksAssumption ==
  /\ Bodies \subseteq Block
  /\ \A b \in Bodies : b.room <= b.length /\ b.points <= MaxInt
  /\ MaxBlocks \in Nat /\ {HeaderLen, BlockHead} \subseteq Nat \ {0}

VARIABLES file,    \* what the device writes: version and blocks
          size,    \* data.size(): how much of it the app has read
          phase,   \* where parse() is
          reader,  \* m_pos of the outer reader, and ok()
          page,    \* out: points of each stroke, and hasText
          count    \* ParseStats::blocks

blockVars == <<file, size, phase, reader, page, count>>
------------------------------------------------------------------------------
(* Where the n-th block ends; after n = 0 comes the first one.             *)
Ends(blocks) ==
  LET end[n \in 0 .. Len(blocks)] ==
        IF n = 0 THEN HeaderLen ELSE end[n - 1] + BlockHead + blocks[n].length
  IN end
End(n) == Ends(file.blocks)[n]

(* The block whose header the reader takes at p. Off a boundary it takes   *)
(* body bytes for a header: zeros, say.                                    *)
Zeros == [type |-> "other", length |-> 0, version |-> 0, valued |-> FALSE,
          clean |-> FALSE, points |-> 0, room |-> 0, typed |-> FALSE]
BlockAt(p) ==
  IF \E n \in DOMAIN file.blocks : End(n - 1) = p
  THEN file.blocks[CHOOSE n \in DOMAIN file.blocks : End(n - 1) = p]
  ELSE Zeros

Remaining == IF reader.pos <= size THEN size - reader.pos ELSE 0
HeaderLeftStrict == Remaining > BlockHead
HeaderLeft == Remaining >= BlockHead
BeyondLate(end) == end > size + 1
Beyond(end) == end > size

(* Points are 14 bytes since version 2 and were 24. An array of any other  *)
(* length is passed over, and a tag that was not the expected one latched  *)
(* the error that ends the loop before the first point. An array longer    *)
(* than the body yields the points there is room for and one of defaults:  *)
(* its read latches the error, and the loop looks at the error first. The  *)
(* loop over the items of a text ends in the same way.                     *)
PointSize(b) == IF b.version >= 2 THEN 14 ELSE 24
PointsRead(b) ==
  LET said == b.points \div PointSize(b)
      there == b.room \div PointSize(b)
  IN IF said <= there THEN said ELSE there + 1
PointsRounded(b) == IF b.clean THEN PointsRead(b) ELSE 0
PointsOf(b) ==
  IF b.clean /\ b.points % PointSize(b) = 0 THEN PointsRead(b) ELSE 0

(* A stroke item may have no value (a deleted stroke). A text block with a *)
(* value replaces the text of an earlier one, also by an empty one.        *)
Decoded(pg, b) ==
  CASE b.type = "line" /\ b.valued ->
         [pg EXCEPT !.strokes = Append(@, PointsOf(b))]
    [] b.type = "text" /\ b.valued ->
         [pg EXCEPT !.hasText = b.clean /\ b.typed]
    [] OTHER -> pg

Blank == [strokes |-> <<>>, hasText |-> FALSE]
HasPoints(pg) == \E k \in DOMAIN pg.strokes : pg.strokes[k] > 0
------------------------------------------------------------------------------
BlocksInit ==
  /\ file \in [supported : BOOLEAN, blocks : SeqOf(Bodies, MaxBlocks)]
  /\ size \in 0 .. End(Len(file.blocks))
  /\ phase = "header" /\ reader = [pos |-> 0, ok |-> TRUE]
  /\ page = Blank /\ count = 0

(* Too short for the header, another prefix or version: refused.           *)
ReadHeader ==
  /\ phase = "header"
  /\ IF size < HeaderLen \/ ~ file.supported
     THEN phase' = "refused" /\ UNCHANGED reader
     ELSE phase' = "blocks" /\ reader' = [reader EXCEPT !.pos = HeaderLen]
  /\ UNCHANGED <<file, size, page, count>>

(* One round of the loop. A body that the file does not hold to its end    *)
(* stops it, behind the block's header; else the body goes through a       *)
(* reader of its own, and this one is put on the declared boundary.        *)
ReadBlock ==
  /\ phase = "blocks" /\ HeaderLeft
  /\ LET b == BlockAt(reader.pos)
         bodyEnd == reader.pos + BlockHead + b.length
     IN IF Beyond(bodyEnd)
        THEN /\ reader' = [reader EXCEPT !.pos = @ + BlockHead]
             /\ phase' = "parsed" /\ UNCHANGED <<page, count>>
        ELSE /\ page' = Decoded(page, b) /\ count' = count + 1
             /\ reader' = [reader EXCEPT !.pos = bodyEnd]
             /\ UNCHANGED phase
  /\ UNCHANGED <<file, size>>

(* Fewer bytes than a block header: the loop is over.                      *)
EndOfData ==
  /\ phase = "blocks" /\ ~ HeaderLeft
  /\ phase' = "parsed"
  /\ UNCHANGED <<file, size, reader, page, count>>

BlocksNext == ReadHeader \/ ReadBlock \/ EndOfData
BlocksSpec == BlocksInit /\ [][BlocksNext]_blockVars
------------------------------------------------------------------------------
(* Types: the reader never goes beyond the data, so that no length taken   *)
(* from the file is read past its end.                                     *)
BlocksTypeOK ==
  /\ file.supported \in BOOLEAN /\ file.blocks \in Seq(Bodies)
  /\ size \in Nat
  /\ phase \in {"header", "blocks", "parsed", "refused"}
  /\ reader \in [pos : 0 .. size, ok : BOOLEAN]
  /\ page \in [strokes : Seq(Nat), hasText : BOOLEAN]
  /\ count \in 0 .. MaxBlocks

(* How many blocks of the file were there to the end when it was read, and *)
(* the page that the first n blocks make.                                  *)
Whole == Cardinality({n \in DOMAIN file.blocks : End(n) <= size})
Drawn(blocks) ==
  LET after[n \in 0 .. Len(blocks)] ==
        IF n = 0 THEN Blank ELSE Decoded(after[n - 1], blocks[n])
  IN after

(* A parse is stopped by the header and by nothing after it: an unknown,   *)
(* garbled or value-less block costs itself and no other, and a file cut   *)
(* anywhere yields exactly the page of its whole blocks (rm/RmParser.h     *)
(* lines 5-8, RmParser.cpp 211-213). The page has content exactly if one   *)
(* of them is a stroke item, with a value, behind whose expected tags is   *)
(* an array of a whole number of points, be they there or not.             *)
WholeBlocksDecoded ==
  /\ phase = "refused" => size < HeaderLen \/ ~ file.supported
  /\ phase = "parsed" =>
       /\ size >= HeaderLen /\ file.supported
       /\ count = Whole
       /\ page = Drawn(file.blocks)[Whole]
       /\ HasPoints(page) <=>
            \E n \in 1 .. Whole :
              LET b == file.blocks[n]
              IN /\ b.type = "line" /\ b.valued /\ b.clean
                 /\ \E k \in 1 .. b.points : b.points = k * PointSize(b)

(* "A clean file parses with zero leftover bytes" (rm/RmParser.h lines     *)
(* 7-8): of whole blocks, however many and empty ones among them, the loop *)
(* leaves nothing over.                                                    *)
CleanFilesExact == phase = "parsed" /\ size = End(Whole) => Remaining = 0

(* A cut file is told from a whole one, by the result of the parse (rm/    *)
(* RmTaggedReader.h lines 7-9: "a malformed or truncated file fails the    *)
(* parse cleanly") or at least by what is left over (rm/RmParser.h line    *)
(* 28: "0 == byte-exact").                                                 *)
TruncationTells ==
  phase = "parsed" /\ reader.ok /\ Remaining = 0 => size = End(Whole)
=============================================================================
