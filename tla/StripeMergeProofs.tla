--------------------------- MODULE StripeMergeProofs ---------------------------
(***************************************************************************)
(* What holds of a merge for every number of clusters and nodes, every code *)
(* with positive parameters and every number of stripes of a group.         *)
(*                                                                          *)
(* The argument: placement gives the blocks of a group ids of their own; the *)
(* numbering of a mergeable code leaves no slot of the larger stripe empty   *)
(* (Covered), so that no two slots have one id (SlotIds); then the moves can *)
(* be followed block by block, in the plan (TrailInv) and on the disks       *)
(* (DiskInv), and the deletion of the old parity blocks meets none of them.  *)
(*                                                                          *)
(* That the larger stripe is one of the merged code, exactly when the setup  *)
(* is mergeable, is the last part.  When it is, every kept block and every   *)
(* new parity block has a slot of its own (Numbered, Seated), a new parity   *)
(* block is computed from the blocks of its equation (Computes) and a kept   *)
(* one covers what it did before (StillCovers).  When it is not, one slot    *)
(* refutes it: with uneven local groups the first data block of the second   *)
(* stripe comes into a group of the first one (UnevenIsWrong), and a vertical *)
(* merge of a product code with several column parities leaves a slot empty, *)
(* whose id is then 0 like that of the first block (OverlapIsWrong); a stripe *)
(* of type HV_PC is written past its end.                                    *)
(*                                                                          *)
(* Then the relief.  Every cluster in use has its turn once (QueueInv); what  *)
(* it may lose is said of each kind of code (RsReliefInv, PcReliefInv,        *)
(* LrcReliefInv).  For Azure LRC that rests on the placement: no cluster gets *)
(* more than g + 1 blocks of a group (SpreadInv), or every cluster gets some  *)
(* and no group can leave one (FullInv).                                      *)
(***************************************************************************)
EXTENDS StripeMerge, CodeLemmas

----------------------------------------------------------------------------
(* The sizes of codes.                                                      *)

AllCodes == RsCodes \cup LrCodes \cup PcCodes

\* How many blocks a product code has, as a product rather than by counting cells.
LEMMA PcSize ==
  ASSUME NEW c \in PcCodes
  PROVE  /\ Size(c) \in Nat
         /\ c.type = "PC" => Size(c) = (c.k2 + c.m2) * (c.k1 + c.m1)
         /\ c.type = "HV_PC" => Size(c) = c.k2 * (c.k1 + c.m1) + c.m2 * c.k1
<1>1. c.type \in PcTypes /\ c.type # "RS"
  BY PcParts DEF PcTypes
<1> QED
  BY <1>1, CellCount DEF Size

\* Every code has a number of blocks.
LEMMA SizeType ==
  ASSUME NEW c \in AllCodes
  PROVE  Size(c) \in Nat
<1>1. CASE c \in RsCodes
  BY <1>1 DEF Size, RsCodes, Pos, PcTypes
<1>2. CASE c \in LrCodes
  BY <1>2 DEF Size, LrCodes, Pos, PcTypes
<1>3. CASE c \in PcCodes
  BY <1>3, PcSize
<1> QED
  BY <1>1, <1>2, <1>3 DEF AllCodes

\* What a setup says, and the code that the merge makes.
LEMMA SetupType ==
  ASSUME NEW su \in Setups
  PROVE  /\ su.code \in AllCodes /\ MergedCode(su) \in AllCodes
         /\ su.x \in Nat /\ su.x > 1 /\ su.rule \in Rules
         /\ MergedCode(su).type = su.code.type
<1>1. /\ su.code \in AllCodes /\ su.x \in Nat /\ su.x > 1 /\ su.rule \in Rules
  BY SetupsAssumption DEF AllCodes
<1>2. CASE su.code \in RsCodes
  BY <1>1, <1>2 DEF RsCodes, Pos, MergedCode, AllCodes
<1>3. CASE su.code \in LrCodes
  <2>1. /\ su.code.k \in Pos /\ su.code.l \in Pos /\ su.code.type = "AZURE_LRC"
        /\ su.code.k * su.x \in Pos /\ su.code.l * su.x \in Pos
    BY <1>1, <1>3 DEF LrCodes, Pos
  <2>2. MergedCode(su) = [su.code EXCEPT !.k = @ * su.x, !.l = @ * su.x]
    BY <2>1 DEF MergedCode, PcTypes
  <2>3. MergedCode(su) \in LrCodes
    BY <1>3, <2>1, <2>2 DEF LrCodes
  <2> QED
    BY <1>1, <2>1, <2>2, <2>3, <1>3 DEF AllCodes, LrCodes
<1>4. CASE su.code \in PcCodes
  BY <1>1, <1>4 DEF PcCodes, Pos, MergedCode, AllCodes, PcTypes
<1> QED
  BY <1>1, <1>2, <1>3, <1>4 DEF AllCodes

----------------------------------------------------------------------------
(* The grid of a product code.                                              *)

\* A cell has a number of its own, and the number is one of a block.
LEMMA GridTrip ==
  ASSUME NEW c \in PcCodes, NEW row \in Rows(c), NEW col \in Columns(c)
  PROVE  /\ rowcol2bid(c, row, col) \in Nat
         /\ bid2rowcol(c, rowcol2bid(c, row, col)) = <<row, col>>
         /\ c.type = "PC" => rowcol2bid(c, row, col) \in BlocksOf(c)
<1>1. /\ c.k1 \in Nat \ {0} /\ c.m1 \in Nat \ {0} /\ c.k2 \in Nat \ {0} /\ c.m2 \in Nat \ {0}
  BY PcParts DEF Pos
<1>2. PICK b : b = rowcol2bid(c, row, col)
  OBVIOUS
<1>3. b \in Nat /\ bid2rowcol(c, b) = <<row, col>> /\ b < (c.k1 + c.m1) * c.k2 + c.k1 * c.m2 + c.m1 * c.m2
  BY <1>1, <1>2, CellTrip
<1>4. c.type = "PC" => b < Size(c)
  <2>1. (c.k2 + c.m2) * (c.k1 + c.m1) = (c.k1 + c.m1) * c.k2 + c.k1 * c.m2 + c.m1 * c.m2
    BY <1>1
  <2> QED
    BY <1>3, <2>1, PcSize
<1> QED
  BY <1>2, <1>3, <1>4, PcSize DEF BlocksOf

----------------------------------------------------------------------------
(* The numbering of the larger stripe.                                      *)

\* The blocks of the stripes of a merge group.
OldBlocks(su) == (0 .. su.x - 1) \X BlocksOf(su.code)
\* Nothing is written past the end of the larger stripe.
Fits(su) == DOMAIN OriginTable[su] \subseteq BlocksOf(MergedCode(su))
\* Where the new parity blocks go.
ParitySlots(su) == {q.slot : q \in NewParities(su)}

\* What the merge makes of a product code.
LEMMA MergedPc ==
  ASSUME NEW su \in Setups, su.code \in PcCodes
  PROVE  /\ MergedCode(su) \in PcCodes /\ MergedCode(su).type = su.code.type
         /\ MergedCode(su).m1 = su.code.m1 /\ MergedCode(su).m2 = su.code.m2
         /\ Vertical(su) => /\ MergedCode(su).k1 = su.code.k1
                            /\ MergedCode(su).k2 = su.code.k2 * su.x
         /\ ~Vertical(su) => /\ MergedCode(su).k1 = su.code.k1 * su.x
                             /\ MergedCode(su).k2 = su.code.k2
<1>1. /\ su.x \in Pos /\ su.code.type \in PcTypes /\ su.code.type # "RS"
      /\ su.code.k1 * su.x \in Pos /\ su.code.k2 * su.x \in Pos
  BY SetupType, PcParts DEF Pos, PcTypes
<1>2. MergedCode(su) = IF su.rule = "VERTICAL" THEN [su.code EXCEPT !.k2 = @ * su.x]
                                               ELSE [su.code EXCEPT !.k1 = @ * su.x]
  BY <1>1 DEF MergedCode
<1> QED
  BY <1>1, <1>2 DEF PcCodes, Vertical

\* The type of a code tells its parameters.
LEMMA KindOfCode ==
  ASSUME NEW su \in Setups
  PROVE  /\ su.code.type = "RS" <=> su.code \in RsCodes
         /\ su.code.type = "AZURE_LRC" <=> su.code \in LrCodes
         /\ su.code.type \in PcTypes <=> su.code \in PcCodes
BY SetupsAssumption DEF RsCodes, LrCodes, PcCodes, PcTypes

\* The tables hold what they are tables of.
LEMMA TableDomains ==
  ASSUME NEW su \in Setups
  PROVE  /\ DOMAIN OriginTable[su] = Filled(su)
         /\ DOMAIN FromTable[su] = ParitySlots(su)
         /\ ParityTable[su] = NewParities(su)
         /\ \A slot \in Filled(su) : OriginTable[su][slot] = Origin(su, slot)
         /\ ParitySlots(su) \subseteq Filled(su)
BY DEF OriginTable, FromTable, ParityTable, ParitySlots, Filled

\* The fields of a new parity block.
LEMMA ParityFields ==
  ASSUME NEW su \in Setups, NEW a, NEW i
  PROVE  /\ RsParity(su, i).slot = su.x * su.code.k + i
         /\ RsParity(su, i).node = <<0, su.code.k + i>>
         /\ PcRowParity(su, a, i).slot = RowParitySlot(MergedCode(su), a, i)
         /\ PcRowParity(su, a, i).node =
              <<su.x - 1, rowcol2bid(su.code, a, su.code.k1 + i)>>
         /\ PcColumnParity(su, a, i).slot =
              MergedCode(su).k2 * (MergedCode(su).k1 + MergedCode(su).m1)
                + i * MergedCode(su).k1 + a
         /\ PcColumnParity(su, a, i).node =
              <<su.x - 1, rowcol2bid(su.code, su.code.k2 + i, a)>>
BY DEF RsParity, PcRowParity, PcColumnParity

\* A product code without parities of parities is always written past its end.
LEMMA FitsPc ==
  ASSUME NEW su \in Setups, su.code \in PcCodes, Fits(su)
  PROVE  su.code.type = "PC"
<1> DEFINE c == su.code
           new == MergedCode(su)
<1>1. /\ ParitySlots(su) \subseteq BlocksOf(new) /\ su.code.type \in PcTypes
      /\ NewParities(su) = IF Vertical(su) THEN PcColumnParities(su) ELSE PcRowParities(su)
  BY TableDomains, PcParts DEF Fits, NewParities
<1>2. /\ c.k1 \in Nat /\ c.m1 \in Nat /\ c.k2 \in Nat /\ c.m2 \in Nat
      /\ c.k1 > 0 /\ c.m1 > 0 /\ c.k2 > 0 /\ c.m2 > 0
      /\ new.k1 \in Nat /\ new.m1 \in Nat /\ new.k2 \in Nat /\ new.m2 \in Nat
  BY PcParts, MergedPc
<1> SUFFICES ASSUME c.type = "HV_PC" PROVE FALSE
  BY PcParts
<1>3. PICK n \in Nat : n = new.k2 * (new.k1 + new.m1) + new.m2 * new.k1
  BY <1>2
<1>4. BlocksOf(new) = 0 .. n - 1
  BY <1>3, PcSize, MergedPc DEF BlocksOf
<1>5. n \in ParitySlots(su)
  <2>1. CASE Vertical(su)
    <3>1. /\ new.k1 = c.k1 /\ new.m2 = c.m2
      BY <2>1, MergedPc
    <3>2. PICK i \in 0 .. c.m2 - 1 : i = c.m2 - 1
      BY <1>2
    <3>3. PICK col \in Columns(c) : col = c.k1
      BY <1>2 DEF Columns
    <3>4. c.m2 * c.k1 = (c.m2 - 1) * c.k1 + c.k1
      BY <1>2
    <3>5. PICK K \in Nat : K = new.k2 * (new.k1 + new.m1)
      BY <1>2
    <3>6. K + i * new.k1 + col = n
      BY <1>2, <1>3, <3>1, <3>2, <3>3, <3>4, <3>5
    <3>7. PcColumnParity(su, col, i) \in NewParities(su)
      BY <1>1, <2>1, <3>2, <3>3 DEF PcColumnParities
    <3>8. PcColumnParity(su, col, i).slot = n
      BY <3>5, <3>6, ParityFields
    <3> QED
      BY <3>7, <3>8 DEF ParitySlots
  <2>2. CASE ~Vertical(su)
    <3>1. /\ new.k2 = c.k2 /\ new.m2 = c.m2
      BY <2>2, MergedPc
    <3>2. PICK i \in 0 .. c.m1 - 1 : i = 0
      BY <1>2
    <3>3. PICK row \in Rows(c) : row = c.k2
      BY <1>2 DEF Rows
    <3>4. n = new.k2 * (new.k1 + new.m1) + new.m2 * new.k1 + (row - new.k2) * new.m1 + i
      BY <1>2, <1>3, <3>1, <3>2, <3>3
    <3>5. ~(row < new.k2)
      BY <1>2, <3>1, <3>3
    <3>6. RowParitySlot(new, row, i) = n
      BY <3>4, <3>5 DEF RowParitySlot
    <3>7. PcRowParity(su, row, i) \in NewParities(su)
      BY <1>1, <2>2, <3>2, <3>3 DEF PcRowParities
    <3>8. PcRowParity(su, row, i).slot = n
      BY <3>6, ParityFields
    <3> QED
      BY <3>7, <3>8 DEF ParitySlots
  <2> QED
    BY <2>1, <2>2
<1> QED
  BY <1>1, <1>3, <1>4, <1>5

\* A new parity block takes the node of an old one.
LEMMA ParityNodes ==
  ASSUME NEW su \in Setups, Fits(su), NEW q \in NewParities(su)
  PROVE  q.node \in OldBlocks(su)
<1>1. su.x \in Nat /\ su.x > 1
  BY SetupType
<1>2. CASE su.code \in RsCodes
  <2>1. su.code.type = "RS" /\ su.code.k \in Nat /\ su.code.m \in Nat
    BY <1>2 DEF RsCodes, Pos
  <2>2. PICK i \in 0 .. su.code.m - 1 : q.node = <<0, su.code.k + i>>
    <3>1. q \in RsParities(su)
      BY <2>1 DEF NewParities, PcTypes
    <3>2. PICK i \in 0 .. su.code.m - 1 : q = RsParity(su, i)
      BY <2>1, <3>1 DEF RsParities
    <3> QED
      BY <3>2, ParityFields
  <2>3. su.code.k + i \in BlocksOf(su.code)
    BY <2>1, <2>2 DEF BlocksOf, Size, PcTypes
  <2> QED
    BY <1>1, <2>2, <2>3 DEF OldBlocks
<1>3. CASE su.code \in LrCodes
  <2>1. /\ su.code.type = "AZURE_LRC" /\ su.code.k \in Nat /\ su.code.g \in Nat
        /\ su.code.l \in Nat /\ su.code.type \notin PcTypes
    BY <1>3 DEF LrCodes, Pos, PcTypes
  <2>2. PICK i \in 0 .. su.code.g - 1 : q.node = <<0, su.code.k + i>>
    <3>1. q \in RsParities(su)
      BY <2>1 DEF NewParities
    <3>2. PICK i \in 0 .. su.code.g - 1 : q = RsParity(su, i)
      BY <2>1, <3>1 DEF RsParities
    <3> QED
      BY <3>2, ParityFields
  <2>3. su.code.k + i \in BlocksOf(su.code)
    BY <2>1, <2>2 DEF BlocksOf, Size
  <2> QED
    BY <1>1, <2>2, <2>3 DEF OldBlocks
<1>4. CASE su.code \in PcCodes
  <2>1. /\ su.code.type = "PC" /\ su.code.type \in PcTypes
    BY <1>4, FitsPc, PcParts
  <2>2. /\ su.code.k1 \in Nat /\ su.code.m1 \in Nat /\ su.code.k2 \in Nat /\ su.code.m2 \in Nat
    BY <1>4, PcParts
  <2>3. CASE Vertical(su)
    <3>1. PICK col \in Columns(su.code), i \in 0 .. su.code.m2 - 1 :
            q.node = <<su.x - 1, rowcol2bid(su.code, su.code.k2 + i, col)>>
      BY <2>1, <2>3, ParityFields DEF NewParities, PcColumnParities
    <3>2. PICK row \in Rows(su.code) : row = su.code.k2 + i
      BY <2>2 DEF Rows
    <3>3. rowcol2bid(su.code, row, col) \in BlocksOf(su.code)
      BY <1>4, <2>1, GridTrip
    <3> QED
      BY <1>1, <3>1, <3>2, <3>3 DEF OldBlocks
  <2>4. CASE ~Vertical(su)
    <3>1. PICK row \in Rows(su.code), i \in 0 .. su.code.m1 - 1 :
            q.node = <<su.x - 1, rowcol2bid(su.code, row, su.code.k1 + i)>>
      BY <2>1, <2>4, ParityFields DEF NewParities, PcRowParities
    <3>2. PICK col \in Columns(su.code) : col = su.code.k1 + i
      <4>1. su.code.k1 + i \in Columns(su.code)
        BY <2>2 DEF Columns
      <4> QED
        BY <4>1
    <3>3. rowcol2bid(su.code, row, col) \in BlocksOf(su.code)
      BY <1>4, <2>1, GridTrip
    <3> QED
      BY <1>1, <3>1, <3>2, <3>3 DEF OldBlocks
  <2> QED
    BY <2>3, <2>4
<1> QED
  BY <1>2, <1>3, <1>4, SetupType DEF AllCodes

\* There are finitely many new parity blocks.
LEMMA ParitiesFinite ==
  ASSUME NEW su \in Setups
  PROVE  IsFiniteSet(NewParities(su))
<1>1. CASE su.code.type \notin PcTypes
  <2>1. PICK n \in Nat : n = IF su.code.type = "RS" THEN su.code.m ELSE su.code.g
    BY <1>1, SetupType, KindOfCode DEF AllCodes, RsCodes, LrCodes
  <2>2. IsFiniteSet(0 .. n - 1)
    BY Intervals
  <2> DEFINE f == [i \in 0 .. n - 1 |-> RsParity(su, i)]
  <2>3. NewParities(su) = {RsParity(su, i) : i \in 0 .. n - 1}
    BY <1>1, <2>1 DEF NewParities, RsParities
  <2>4. f \in Surjection(0 .. n - 1, NewParities(su))
    BY <2>3 DEF Surjection
  <2> QED
    BY <2>2, <2>4, FS_Surjection
<1>2. CASE su.code.type \in PcTypes /\ Vertical(su)
  <2>1. su.code \in PcCodes
    BY <1>2, KindOfCode
  <2>2. PICK m \in Nat, n \in Nat : m = su.code.k1 + su.code.m1 /\ n = su.code.m2
    BY <2>1, PcParts
  <2>3. IsFiniteSet(Columns(su.code)) /\ IsFiniteSet(0 .. n - 1)
    BY <2>1, <2>2, PcParts, Intervals, Columns(su.code) = 0 .. m - 1 DEF Columns
  <2>4. IsFiniteSet(Columns(su.code) \X (0 .. n - 1))
    BY <2>3, FS_Product
  <2> DEFINE f == [x \in Columns(su.code) \X (0 .. n - 1) |-> PcColumnParity(su, x[1], x[2])]
  <2>5. NewParities(su) = {PcColumnParity(su, col, i) : col \in Columns(su.code), i \in 0 .. n - 1}
    BY <1>2, <2>2 DEF NewParities, PcColumnParities
  <2>6. f \in Surjection(Columns(su.code) \X (0 .. n - 1), NewParities(su))
    <3>1. f \in [Columns(su.code) \X (0 .. n - 1) -> NewParities(su)]
      BY <2>5
    <3>2. ASSUME NEW q \in NewParities(su)
          PROVE  \E x \in Columns(su.code) \X (0 .. n - 1) : f[x] = q
      <4>1. PICK col \in Columns(su.code), i \in 0 .. n - 1 : q = PcColumnParity(su, col, i)
        BY <2>5
      <4>2. <<col, i>> \in Columns(su.code) \X (0 .. n - 1) /\ f[<<col, i>>] = q
        BY <4>1
      <4> QED
        BY <4>2
    <3> QED
      BY <3>1, <3>2 DEF Surjection
  <2> QED
    BY <2>4, <2>6, FS_Surjection
<1>3. CASE su.code.type \in PcTypes /\ ~Vertical(su)
  <2>1. su.code \in PcCodes
    BY <1>3, KindOfCode
  <2>2. PICK m \in Nat, n \in Nat : m = su.code.k2 + su.code.m2 /\ n = su.code.m1
    BY <2>1, PcParts
  <2>3. IsFiniteSet(Rows(su.code)) /\ IsFiniteSet(0 .. n - 1)
    BY <2>1, <2>2, PcParts, Intervals, Rows(su.code) = 0 .. m - 1 DEF Rows
  <2>4. IsFiniteSet(Rows(su.code) \X (0 .. n - 1))
    BY <2>3, FS_Product
  <2> DEFINE f == [x \in Rows(su.code) \X (0 .. n - 1) |-> PcRowParity(su, x[1], x[2])]
  <2>5. NewParities(su) = {PcRowParity(su, row, i) : row \in Rows(su.code), i \in 0 .. n - 1}
    BY <1>3, <2>2 DEF NewParities, PcRowParities
  <2>6. f \in Surjection(Rows(su.code) \X (0 .. n - 1), NewParities(su))
    <3>1. f \in [Rows(su.code) \X (0 .. n - 1) -> NewParities(su)]
      BY <2>5
    <3>2. ASSUME NEW q \in NewParities(su)
          PROVE  \E x \in Rows(su.code) \X (0 .. n - 1) : f[x] = q
      <4>1. PICK row \in Rows(su.code), i \in 0 .. n - 1 : q = PcRowParity(su, row, i)
        BY <2>5
      <4>2. <<row, i>> \in Rows(su.code) \X (0 .. n - 1) /\ f[<<row, i>>] = q
        BY <4>1
      <4> QED
        BY <4>2
    <3> QED
      BY <3>1, <3>2 DEF Surjection
  <2> QED
    BY <2>4, <2>6, FS_Surjection
<1> QED
  BY <1>1, <1>2, <1>3

\* The new numbers: one for each slot, and no more than there are parity blocks.
NumberOf(su, slot) == Cardinality({t \in ParitySlots(su) : t < slot})

\* Every new parity block gets a number of its own (cur_block_id_++).
LEMMA NewNumbers ==
  ASSUME NEW su \in Setups, Fits(su)
  PROVE  /\ Cardinality(NewParities(su)) \in Nat
         /\ \A slot \in ParitySlots(su) :
              NumberOf(su, slot) \in 0 .. Cardinality(NewParities(su)) - 1
         /\ \A s, t \in ParitySlots(su) : NumberOf(su, s) = NumberOf(su, t) => s = t
<1> DEFINE P == ParitySlots(su)
           f == [q \in NewParities(su) |-> q.slot]
<1>1. f \in Surjection(NewParities(su), P)
  BY DEF ParitySlots, Surjection
<1>2. /\ IsFiniteSet(P) /\ Cardinality(P) <= Cardinality(NewParities(su))
      /\ Cardinality(NewParities(su)) \in Nat /\ Cardinality(P) \in Nat
  BY <1>1, ParitiesFinite, FS_Surjection, FS_CardinalityType
<1>3. P \subseteq Int
  <2>1. P \subseteq BlocksOf(MergedCode(su))
    BY TableDomains DEF Fits
  <2> QED
    BY <2>1 DEF BlocksOf
<1> DEFINE Below(s) == {t \in P : t < s}
<1>4. ASSUME NEW s \in P
      PROVE  IsFiniteSet(Below(s)) /\ Cardinality(Below(s)) \in 0 .. Cardinality(P) - 1
  <2>1. Below(s) \in SUBSET P /\ s \notin Below(s)
    BY <1>3
  <2> HIDE DEF P, Below
  <2>2. /\ IsFiniteSet(Below(s)) /\ Cardinality(Below(s)) <= Cardinality(P)
        /\ Cardinality(Below(s)) # Cardinality(P)
    BY <1>2, <1>4, <2>1, FS_Subset
  <2> QED
    BY <1>2, <2>2, FS_CardinalityType
<1>5. ASSUME NEW s \in P, NEW t \in P, s < t
      PROVE  Cardinality(Below(s)) # Cardinality(Below(t))
  <2>1. Below(s) \in SUBSET Below(t) /\ s \in Below(t) /\ s \notin Below(s)
    BY <1>3, <1>5
  <2>2. IsFiniteSet(Below(t))
    BY <1>4
  <2> HIDE DEF P, Below
  <2> QED
    BY <2>1, <2>2, FS_Subset
<1>6. \A s, t \in P : s = t \/ s < t \/ t < s
  BY <1>3
<1>7. \A s \in P : NumberOf(su, s) = Cardinality(Below(s))
  BY DEF NumberOf
<1> HIDE DEF P, Below
<1>8. \A s, t \in P : Cardinality(Below(s)) = Cardinality(Below(t)) => s = t
  BY <1>5, <1>6
<1>9. \A s \in P : Cardinality(Below(s)) \in 0 .. Cardinality(NewParities(su)) - 1
  <2> SUFFICES ASSUME NEW s \in P
               PROVE  Cardinality(Below(s)) \in 0 .. Cardinality(NewParities(su)) - 1
    OBVIOUS
  <2>1. Cardinality(Below(s)) \in 0 .. Cardinality(P) - 1
    BY <1>4
  <2> QED
    BY <1>2, <2>1
<1> QED
  BY <1>2, <1>7, <1>8, <1>9 DEF P

\* Where a slot's node comes from, and where its block does unless it is new.
LEMMA Origins ==
  ASSUME NEW su \in Setups, Fits(su), NEW slot \in Filled(su)
  PROVE  /\ Origin(su, slot) \in OldBlocks(su)
         /\ slot \notin ParitySlots(su) =>
              /\ Origin(su, slot) \in (0 .. su.x - 1) \X Kept(su)
              /\ Slot(su, Origin(su, slot)[1], Origin(su, slot)[2]) = slot
<1>1. Kept(su) \subseteq BlocksOf(su.code)
  BY KindOfCode, SetupType
     DEF Kept, BlocksOf, Size, AllCodes, RsCodes, LrCodes, PcCodes, Pos, PcTypes
<1>2. CASE slot \in ParitySlots(su)
  <2>1. ParityAt(su, slot) # {}
    BY <1>2 DEF ParitySlots, ParityAt
  <2>2. Origin(su, slot) = (CHOOSE q \in ParityAt(su, slot) : TRUE).node
    BY <2>1 DEF Origin
  <2>3. PICK q \in NewParities(su) : Origin(su, slot) = q.node
    BY <2>1, <2>2 DEF ParityAt
  <2> QED
    BY <1>2, <2>3, ParityNodes
<1>3. CASE slot \notin ParitySlots(su)
  <2>1. ParityAt(su, slot) = {}
    BY <1>3 DEF ParitySlots, ParityAt
  <2>2. KeptAt(su, slot) # {}
    <3>1. PICK s \in 0 .. su.x - 1, b \in Kept(su) : slot = Slot(su, s, b)
      BY <1>3 DEF Filled, ParitySlots
    <3>2. <<s, b>> \in KeptAt(su, slot)
      BY <3>1 DEF KeptAt
    <3> QED
      BY <3>2
  <2>3. Origin(su, slot) \in KeptAt(su, slot)
    BY <2>1, <2>2 DEF Origin
  <2> QED
    BY <1>1, <2>3 DEF KeptAt, OldBlocks
<1> QED
  BY <1>2, <1>3

\* A kept block fills its slot.
LEMMA KeptFills ==
  ASSUME NEW su \in Setups, NEW s \in 0 .. su.x - 1, NEW b \in Kept(su)
  PROVE  Slot(su, s, b) \in Filled(su)
BY DEF Filled

\* Reed-Solomon: data and parities fill the larger stripe.
LEMMA RsCovered ==
  ASSUME NEW su \in Setups, su.code \in RsCodes
  PROVE  BlocksOf(MergedCode(su)) \subseteq Filled(su)
<1>1. /\ su.code.k \in Pos /\ su.code.k \in Nat /\ su.code.m \in Nat /\ su.code.type = "RS"
      /\ su.x \in Nat /\ su.code.type \notin PcTypes
  BY SetupType DEF RsCodes, Pos, PcTypes
<1>2. MergedCode(su).k = su.code.k * su.x /\ MergedCode(su).m = su.code.m
  BY <1>1 DEF MergedCode, RsCodes
<1>3. PICK n \in Nat : n = su.x * su.code.k /\ n = su.code.k * su.x
  BY <1>1, ProdNat
<1>4. BlocksOf(MergedCode(su)) = 0 .. n + su.code.m - 1
  <2>1. MergedCode(su).type = "RS"
    BY <1>1, SetupType
  <2>2. Size(MergedCode(su)) = MergedCode(su).k + MergedCode(su).m
    BY <2>1 DEF Size, PcTypes
  <2> QED
    BY <1>1, <1>2, <1>3, <2>2 DEF BlocksOf
<1> SUFFICES ASSUME NEW slot \in 0 .. n + su.code.m - 1
             PROVE  slot \in Filled(su)
  BY <1>4
<1>5. CASE slot < n
  <2>1. PICK s \in 0 .. su.x - 1, b \in 0 .. su.code.k - 1 : slot = s * su.code.k + b
    <3>1. slot \in Nat /\ slot < su.x * su.code.k
      BY <1>3, <1>5
    <3> QED
      BY <1>1, <3>1, DivPair
  <2>2. b \in Kept(su) /\ s \in 0 .. su.x - 1
    BY <1>1, <2>1 DEF Kept
  <2>3. Slot(su, s, b) = slot
    BY <1>1, <2>1 DEF Slot
  <2> QED
    BY <2>2, <2>3, KeptFills
<1>6. CASE ~(slot < n)
  <2>1. PICK i \in 0 .. su.code.m - 1 : i = slot - n
    BY <1>1, <1>3, <1>6
  <2>3. slot = su.x * su.code.k + i
    BY <1>3, <2>1
  <2>2. RsParity(su, i) \in NewParities(su) /\ RsParity(su, i).slot = slot
    BY <1>1, <2>1, <2>3, ParityFields DEF NewParities, RsParities
  <2> QED
    BY <2>2 DEF Filled
<1> QED
  BY <1>5, <1>6

\* Azure LRC with even groups: data, global and local parities fill it.
LEMMA LrCovered ==
  ASSUME NEW su \in Setups, su.code \in LrCodes
  PROVE  BlocksOf(MergedCode(su)) \subseteq Filled(su)
<1>1. /\ su.code.k \in Pos /\ su.code.k \in Nat /\ su.code.g \in Nat
      /\ su.code.l \in Pos /\ su.code.l \in Nat /\ su.code.type = "AZURE_LRC"
      /\ su.x \in Nat /\ su.code.type \notin PcTypes /\ su.code.type # "RS"
  BY SetupType DEF LrCodes, Pos, PcTypes
<1>2. /\ MergedCode(su).k = su.code.k * su.x /\ MergedCode(su).l = su.code.l * su.x
      /\ MergedCode(su).g = su.code.g
  BY <1>1 DEF MergedCode, LrCodes
<1>3. PICK n \in Nat, h \in Nat : /\ n = su.x * su.code.k /\ n = su.code.k * su.x
                                  /\ h = su.x * su.code.l /\ h = su.code.l * su.x
  BY <1>1, ProdNat
<1>4. BlocksOf(MergedCode(su)) = 0 .. n + su.code.g + h - 1
  <2>1. MergedCode(su).type = "AZURE_LRC"
    BY <1>1, SetupType
  <2>2. Size(MergedCode(su)) = MergedCode(su).k + MergedCode(su).g + MergedCode(su).l
    BY <2>1 DEF Size, PcTypes
  <2> QED
    BY <1>1, <1>2, <1>3, <2>2 DEF BlocksOf
<1> SUFFICES ASSUME NEW slot \in 0 .. n + su.code.g + h - 1
             PROVE  slot \in Filled(su)
  BY <1>4
<1>5. CASE slot < n
  <2>1. PICK s \in 0 .. su.x - 1, b \in 0 .. su.code.k - 1 : slot = s * su.code.k + b
    <3>1. slot \in Nat /\ slot < su.x * su.code.k
      BY <1>3, <1>5
    <3> QED
      BY <1>1, <3>1, DivPair
  <2>2. b \in Kept(su) /\ s \in 0 .. su.x - 1 /\ b \notin Locals(su.code)
    BY <1>1, <2>1 DEF Kept, BlocksOf, Size, Globals, Locals
  <2>3. Slot(su, s, b) = slot
    BY <1>1, <2>1, <2>2 DEF Slot
  <2> QED
    BY <2>2, <2>3, KeptFills
<1>6. CASE ~(slot < n) /\ slot < n + su.code.g
  <2>1. PICK i \in 0 .. su.code.g - 1 : i = slot - n
    BY <1>1, <1>3, <1>6
  <2>3. slot = su.x * su.code.k + i
    BY <1>3, <2>1
  <2>2. RsParity(su, i) \in NewParities(su) /\ RsParity(su, i).slot = slot
    BY <1>1, <2>1, <2>3, ParityFields DEF NewParities, RsParities
  <2> QED
    BY <2>2 DEF Filled
<1>7. CASE ~(slot < n + su.code.g)
  <2>1. PICK t \in Nat : t = slot - n - su.code.g /\ t < su.x * su.code.l
    BY <1>1, <1>3, <1>7
  <2>2. PICK s \in 0 .. su.x - 1, j \in 0 .. su.code.l - 1 : t = s * su.code.l + j
    BY <1>1, <2>1, DivPair
  <2>3. PICK b \in Nat : b = su.code.k + su.code.g + j
    BY <1>1, <2>2
  <2>4. b \in Kept(su) /\ s \in 0 .. su.x - 1 /\ b \in Locals(su.code)
    BY <1>1, <2>2, <2>3 DEF Kept, BlocksOf, Size, Globals, Locals
  <2>5. Slot(su, s, b) = su.x * su.code.k + su.code.g + s * su.code.l + (b - su.code.k - su.code.g)
    BY <1>1, <2>4 DEF Slot
  <2>7. b - su.code.k - su.code.g = j
    BY <1>1, <2>2, <2>3
  <2>8. PICK e \in Nat : e = s * su.code.l
    BY <1>1, <2>2
  <2>6. Slot(su, s, b) = slot
    BY <1>1, <1>3, <2>1, <2>2, <2>5, <2>7, <2>8
  <2> QED
    BY <2>4, <2>6, KeptFills
<1> QED
  BY <1>5, <1>6, <1>7

\* The number of a cell of the merged grid, and the slot of a kept block.
LEMMA PcSlot ==
  ASSUME NEW su \in Setups, su.code \in PcCodes, NEW s,
         NEW row \in Rows(su.code), NEW col \in Columns(su.code)
  PROVE  Slot(su, s, rowcol2bid(su.code, row, col)) =
           IF Vertical(su) THEN rowcol2bid(MergedCode(su), row + s * su.code.k2, col)
                           ELSE rowcol2bid(MergedCode(su), row, col + s * su.code.k1)
<1>1. su.code.type \in PcTypes
  BY PcParts
<1>2. /\ Row(su, rowcol2bid(su.code, row, col)) = row
      /\ Col(su, rowcol2bid(su.code, row, col)) = col
  <2>1. bid2rowcol(su.code, rowcol2bid(su.code, row, col)) = <<row, col>>
    BY GridTrip
  <2> QED
    BY <2>1 DEF Row, Col
<1> DEFINE b == rowcol2bid(su.code, row, col)
<1> HIDE DEF b
<1>3. Slot(su, s, b) = oldbid2newbid_for_merge(su, s, b)
  BY <1>1 DEF Slot, PcTypes
<1>4. Row(su, b) = row /\ Col(su, b) = col
  BY <1>2 DEF b
<1>5. Slot(su, s, b) = IF Vertical(su) THEN rowcol2bid(MergedCode(su), row + s * su.code.k2, col)
                           ELSE rowcol2bid(MergedCode(su), row, col + s * su.code.k1)
  BY <1>3, <1>4 DEF oldbid2newbid_for_merge
<1> QED
  BY <1>5 DEF b

\* A product code merged row by row.
LEMMA HorizontalCovered ==
  ASSUME NEW su \in Setups, su.code \in PcCodes, su.code.type = "PC", ~Vertical(su)
  PROVE  BlocksOf(MergedCode(su)) \subseteq Filled(su)
<1> DEFINE c == su.code
           new == MergedCode(su)
<1>1. /\ c.k1 \in Pos /\ c.m1 \in Pos /\ c.k2 \in Pos /\ c.m2 \in Pos
      /\ c.k1 \in Nat /\ c.m1 \in Nat /\ c.k2 \in Nat /\ c.m2 \in Nat
      /\ su.x \in Nat /\ su.x > 1
  BY PcParts, SetupType
<1>2. PICK w \in Pos : w = su.x * c.k1 /\ new.k1 = w
  BY <1>1, MergedPc, ProdNat DEF Pos
<1>3. new.k2 = c.k2 /\ new.m1 = c.m1 /\ new.m2 = c.m2 /\ new.type = "PC" /\ new \in PcCodes
  BY MergedPc
<1>40. w \in Nat /\ w \in Pos
  BY DEF Pos
<1>41. /\ c.k2 * w \in Nat /\ c.k2 * c.m1 \in Nat /\ c.m2 * w \in Nat /\ c.m2 * c.m1 \in Nat
  BY ONLY <1>1, <1>40, ProdNat
<1>4. PICK A \in Nat, F \in Nat, D \in Nat, E \in Nat :
        A = c.k2 * w /\ F = c.k2 * c.m1 /\ D = c.m2 * w /\ E = c.m2 * c.m1
  BY ONLY <1>41
<1>42. A \in Nat /\ F \in Nat /\ D \in Nat /\ E \in Nat
  OBVIOUS
<1>5. new.k2 * new.k1 = A /\ new.k1 * new.k2 = A /\ (new.k1 + new.m1) * new.k2 = A + F
      /\ new.k2 * (new.k1 + new.m1) = A + F /\ new.m2 * new.k1 = D /\ new.k1 * new.m2 = D
      /\ Size(new) = A + F + D + E
  <2>1. Size(new) = (c.k2 + c.m2) * (w + c.m1)
    BY <1>2, <1>3, PcSize
  <2> QED
    BY <1>1, <1>2, <1>3, <1>4, <2>1 DEF Pos
<1> SUFFICES ASSUME NEW slot \in Nat, slot < A + F + D + E
             PROVE  slot \in Filled(su)
  BY <1>4, <1>5 DEF BlocksOf
<1>6. \A row \in Rows(c), i \in 0 .. c.m1 - 1 : RowParitySlot(new, row, i) \in Filled(su)
  <2> SUFFICES ASSUME NEW row \in Rows(c), NEW i \in 0 .. c.m1 - 1
               PROVE  RowParitySlot(new, row, i) \in Filled(su)
    OBVIOUS
  <2>1. PcRowParity(su, row, i) \in NewParities(su)
    BY PcParts DEF NewParities, PcRowParities
  <2>2. PcRowParity(su, row, i).slot = RowParitySlot(new, row, i)
    BY ParityFields
  <2> QED
    BY <2>1, <2>2 DEF Filled
<1>7. ASSUME NEW row \in Rows(c), NEW s \in 0 .. su.x - 1, NEW b \in 0 .. c.k1 - 1,
             NEW j, j = s * c.k1 + b
      PROVE  rowcol2bid(new, row, j) \in Filled(su)
  <2>1. b \in Columns(c) /\ b < c.k1
    BY <1>1 DEF Columns
  <2>2. rowcol2bid(c, row, b) \in Kept(su)
    <3>1. rowcol2bid(c, row, b) \in BlocksOf(c)
      BY <2>1, GridTrip
    <3>2. Col(su, rowcol2bid(c, row, b)) = b
      BY <2>1, GridTrip DEF Col
    <3>3. c.type # "RS" /\ c.type \in PcTypes
      BY PcParts
    <3> QED
      BY <2>1, <3>1, <3>2, <3>3 DEF Kept
  <2>3. Slot(su, s, rowcol2bid(c, row, b)) = rowcol2bid(new, row, b + s * c.k1)
    BY <2>1, PcSlot
  <2>4. b + s * c.k1 = j
    BY <1>1, <1>7
  <2> QED
    BY <2>2, <2>3, <2>4, KeptFills
<1>8. CASE slot < A
  <2>1. PICK row \in 0 .. c.k2 - 1, j \in 0 .. w - 1 : slot = row * w + j
    <3>1. slot < c.k2 * w
      BY <1>4, <1>8
    <3>2. c.k2 \in Nat /\ w \in Pos /\ slot \in Nat
      BY <1>1, <1>40
    <3> QED
      BY ONLY <3>1, <3>2, DivPair, Zenon
  <2>2. PICK s \in 0 .. su.x - 1, b \in 0 .. c.k1 - 1 : j = s * c.k1 + b
    <3>1. j \in Nat /\ j < su.x * c.k1
      BY <1>2, <2>1 DEF Pos
    <3> QED
      BY ONLY <1>1, <3>1, DivPair, Zenon
  <2>3. row \in Rows(c)
    BY <1>1 DEF Rows
  <2>4. rowcol2bid(new, row, j) = slot
    BY <1>1, <1>2, <1>3, <2>1 DEF rowcol2bid, Pos
  <2> QED
    BY <1>7, <2>2, <2>3, <2>4
<1>9. CASE ~(slot < A) /\ slot < A + F
  <2>1. PICK d \in Nat : d = slot - A /\ d < F
    BY ONLY <1>42, <1>9, slot \in Nat
  <2>2. PICK row \in 0 .. c.k2 - 1, i \in 0 .. c.m1 - 1 : d = row * c.m1 + i
    <3>1. d \in Nat /\ d < c.k2 * c.m1
      BY <1>4, <2>1
    <3> QED
      BY ONLY <1>1, <3>1, DivPair, Zenon
  <2>3. row \in Rows(c) /\ row < new.k2
    BY <1>1, <1>3 DEF Rows
  <2>4. RowParitySlot(new, row, i) = new.k2 * new.k1 + row * c.m1 + i
    BY <1>3, <2>3 DEF RowParitySlot
  <2>5. PICK e \in Nat : e = row * c.m1
    BY <1>1, <2>2
  <2>6. RowParitySlot(new, row, i) = slot
    BY <1>4, <1>5, <2>1, <2>2, <2>4, <2>5
  <2> QED
    BY <1>6, <2>3, <2>6
<1>10. CASE ~(slot < A + F) /\ slot < A + F + D
  <2>1. PICK d \in Nat : d = slot - (A + F) /\ d < D
    BY ONLY <1>42, <1>10, slot \in Nat
  <2>2. PICK e \in 0 .. c.m2 - 1, j \in 0 .. w - 1 : d = e * w + j
    <3>1. d \in Nat /\ d < c.m2 * w
      BY <1>4, <2>1
    <3>2. c.m2 \in Nat /\ w \in Pos
      BY <1>1, <1>40
    <3> QED
      BY ONLY <3>1, <3>2, DivPair, Zenon
  <2>3. PICK s \in 0 .. su.x - 1, b \in 0 .. c.k1 - 1 : j = s * c.k1 + b
    <3>1. j \in Nat /\ j < su.x * c.k1
      BY <1>2, <2>2 DEF Pos
    <3> QED
      BY ONLY <1>1, <3>1, DivPair, Zenon
  <2>4. PICK row \in Rows(c) : row = c.k2 + e
    BY <1>1, <2>2 DEF Rows
  <2>5. ~(row < new.k2) /\ j < new.k1 /\ row - new.k2 = e
    BY <1>1, <1>2, <1>3, <2>2, <2>4 DEF Pos
  <2>6. rowcol2bid(new, row, j) = (new.k1 + new.m1) * new.k2 + e * new.k1 + j
    <3>1. ~(j >= new.k1) /\ row >= new.k2
      BY <1>1, <1>2, <1>3, <2>2, <2>4 DEF Pos
    <3> QED
      BY <2>5, <3>1 DEF rowcol2bid
  <2>7. PICK f \in Nat : f = e * w
    BY <1>2, <2>2 DEF Pos
  <2>8. rowcol2bid(new, row, j) = slot
    BY <1>2, <1>4, <1>5, <2>1, <2>2, <2>6, <2>7
  <2> QED
    BY <1>7, <2>3, <2>8
<1>11. CASE ~(slot < A + F + D)
  <2>1. PICK d \in Nat : d = slot - (A + F + D) /\ d < E
    BY ONLY <1>42, <1>11, slot \in Nat, slot < A + F + D + E
  <2>2. PICK e \in 0 .. c.m2 - 1, i \in 0 .. c.m1 - 1 : d = e * c.m1 + i
    <3>1. d \in Nat /\ d < c.m2 * c.m1
      BY <1>4, <2>1
    <3> QED
      BY ONLY <1>1, <3>1, DivPair, Zenon
  <2>3. PICK row \in Rows(c) : row = c.k2 + e
    BY <1>1, <2>2 DEF Rows
  <2>4. ~(row < new.k2) /\ row - new.k2 = e
    BY <1>1, <1>3, <2>2, <2>3
  <2>5. RowParitySlot(new, row, i) =
          new.k2 * (new.k1 + new.m1) + new.m2 * new.k1 + e * c.m1 + i
    BY <1>3, <2>4 DEF RowParitySlot
  <2>6. PICK f \in Nat : f = e * c.m1
    BY <1>1, <2>2
  <2>7. RowParitySlot(new, row, i) = slot
    BY <1>4, <1>5, <2>1, <2>2, <2>5, <2>6
  <2> QED
    BY <1>6, <2>3, <2>7
<1> QED
  BY <1>8, <1>9, <1>10, <1>11

\* A product code merged column by column.
LEMMA VerticalCovered ==
  ASSUME NEW su \in Setups, su.code \in PcCodes, su.code.type = "PC", Vertical(su),
         su.code.m2 = 1
  PROVE  BlocksOf(MergedCode(su)) \subseteq Filled(su)
<1> DEFINE c == su.code
           new == MergedCode(su)
<1>1. /\ c.k1 \in Pos /\ c.m1 \in Pos /\ c.k2 \in Pos
      /\ c.k1 \in Nat /\ c.m1 \in Nat /\ c.k2 \in Nat
      /\ su.x \in Nat /\ su.x > 1
  BY PcParts, SetupType
<1>2. PICK h \in Pos : h = su.x * c.k2 /\ new.k2 = h
  BY <1>1, MergedPc, ProdNat DEF Pos
<1>3. new.k1 = c.k1 /\ new.m1 = c.m1 /\ new.m2 = 1 /\ new.type = "PC" /\ new \in PcCodes
  BY MergedPc
<1>40. h \in Nat /\ h \in Pos
  BY DEF Pos
<1>41. h * c.k1 \in Nat /\ h * c.m1 \in Nat
  BY ONLY <1>1, <1>40, ProdNat
<1>4. PICK A \in Nat, F \in Nat : A = h * c.k1 /\ F = h * c.m1
  BY ONLY <1>41
<1>42. A \in Nat /\ F \in Nat
  OBVIOUS
<1>5. /\ new.k1 * new.k2 = A /\ new.k2 * (new.k1 + new.m1) = A + F
      /\ Size(new) = A + F + (c.k1 + c.m1)
  <2>1. Size(new) = (h + 1) * (c.k1 + c.m1)
    BY <1>2, <1>3, PcSize
  <2> QED
    BY <1>1, <1>2, <1>3, <1>4, <2>1 DEF Pos
<1> SUFFICES ASSUME NEW slot \in Nat, slot < A + F + (c.k1 + c.m1)
             PROVE  slot \in Filled(su)
  BY <1>1, <1>4, <1>5 DEF BlocksOf
<1>6. ASSUME NEW s \in 0 .. su.x - 1, NEW row \in 0 .. c.k2 - 1, NEW col \in Columns(c),
             NEW j, j = s * c.k2 + row
      PROVE  rowcol2bid(new, j, col) \in Filled(su)
  <2>1. row \in Rows(c) /\ row < c.k2
    BY <1>1, PcParts DEF Rows
  <2>2. rowcol2bid(c, row, col) \in Kept(su)
    <3>1. rowcol2bid(c, row, col) \in BlocksOf(c)
      BY <2>1, GridTrip
    <3>2. Row(su, rowcol2bid(c, row, col)) = row
      BY <2>1, GridTrip DEF Row
    <3>3. c.type # "RS" /\ c.type \in PcTypes
      BY PcParts
    <3> QED
      BY <2>1, <3>1, <3>2, <3>3 DEF Kept
  <2>3. Slot(su, s, rowcol2bid(c, row, col)) = rowcol2bid(new, row + s * c.k2, col)
    BY <2>1, PcSlot
  <2>4. row + s * c.k2 = j
    BY <1>1, <1>6
  <2> QED
    BY <2>2, <2>3, <2>4, KeptFills
<1>8. CASE slot < A
  <2>1. PICK j \in 0 .. h - 1, col \in 0 .. c.k1 - 1 : slot = j * c.k1 + col
    <3>1. slot < h * c.k1
      BY <1>4, <1>8
    <3> QED
      BY ONLY <1>1, <1>40, <3>1, slot \in Nat, DivPair, Zenon
  <2>2. PICK s \in 0 .. su.x - 1, row \in 0 .. c.k2 - 1 : j = s * c.k2 + row
    <3>1. j \in Nat /\ j < su.x * c.k2
      BY <1>2, <2>1 DEF Pos
    <3> QED
      BY ONLY <1>1, <3>1, DivPair, Zenon
  <2>3. col \in Columns(c)
    BY <1>1 DEF Columns
  <2>4. rowcol2bid(new, j, col) = slot
    BY <1>1, <1>2, <1>3, <2>1 DEF rowcol2bid, Pos
  <2> QED
    BY <1>6, <2>2, <2>3, <2>4
<1>9. CASE ~(slot < A) /\ slot < A + F
  <2>1. PICK d \in Nat : d = slot - A /\ d < F
    BY ONLY <1>42, <1>9, slot \in Nat
  <2>2. PICK j \in 0 .. h - 1, i \in 0 .. c.m1 - 1 : d = j * c.m1 + i
    <3>1. d \in Nat /\ d < h * c.m1
      BY <1>4, <2>1
    <3> QED
      BY ONLY <1>1, <1>40, <3>1, DivPair, Zenon
  <2>3. PICK s \in 0 .. su.x - 1, row \in 0 .. c.k2 - 1 : j = s * c.k2 + row
    <3>1. j \in Nat /\ j < su.x * c.k2
      BY <1>2, <2>2 DEF Pos
    <3> QED
      BY ONLY <1>1, <3>1, DivPair, Zenon
  <2>4. PICK col \in Columns(c) : col = c.k1 + i
    BY <1>1, <2>2 DEF Columns
  <2>5. j < new.k2 /\ ~(col < new.k1) /\ col >= new.k1 /\ col - new.k1 = i
    BY <1>1, <1>2, <1>3, <2>2, <2>4 DEF Pos
  <2>6. rowcol2bid(new, j, col) = new.k1 * new.k2 + j * new.m1 + i
    BY <2>5 DEF rowcol2bid
  <2>7. PICK e \in Nat : e = j * c.m1
    BY <1>1, <2>2
  <2>8. rowcol2bid(new, j, col) = slot
    BY <1>3, <1>4, <1>5, <2>1, <2>2, <2>6, <2>7
  <2> QED
    BY <1>6, <2>3, <2>8
<1>10. CASE ~(slot < A + F)
  <2>1. PICK col \in Columns(c) : col = slot - (A + F)
    BY <1>1, <1>4, <1>10 DEF Columns
  <2>2. PICK i \in 0 .. c.m2 - 1 : i = 0
    OBVIOUS
  <2>3. PcColumnParity(su, col, i) \in NewParities(su)
    BY <2>1, <2>2, PcParts DEF NewParities, PcColumnParities
  <2>4. PcColumnParity(su, col, i).slot = new.k2 * (new.k1 + new.m1) + i * new.k1 + col
    BY ParityFields
  <2>5. i * new.k1 = 0
    BY <1>1, <1>3, <2>2
  <2>6. PcColumnParity(su, col, i).slot = slot
    BY <1>4, <1>5, <2>1, <2>4, <2>5
  <2> QED
    BY <2>3, <2>6 DEF Filled
<1> QED
  BY <1>8, <1>9, <1>10

\* Where the numbering is right it leaves no slot empty.
LEMMA Covered ==
  ASSUME NEW su \in Setups, Mergeable(su)
  PROVE  BlocksOf(MergedCode(su)) \subseteq Filled(su)
<1>1. CASE su.code \in PcCodes
  <2>1. su.code.type = "PC" /\ (Vertical(su) => su.code.m2 = 1)
    BY <1>1, PcParts DEF Mergeable, PcTypes
  <2> QED
    BY <1>1, <2>1, HorizontalCovered, VerticalCovered
<1> QED
  BY <1>1, RsCovered, LrCovered, SetupType DEF AllCodes

----------------------------------------------------------------------------
(* The invariant.                                                           *)

Underway  == {"count", "relieve", "part", "move", "update"}
Working   == {"place"} \cup Underway
Choosing  == {"place", "count", "relieve", "part"}
StripeBlocks == BlocksOf(setup.code)
Slots     == BlocksOf(New)
Placed   == 0 .. Len(group) - 1
From(b)   == Origin(setup, b)
Home(b)   == OldNode(From(b))
Holders(x) == {n \in AllNodes : <<n, x>> \in disk}

\* Numbers and types, in every step.
TypeInv ==
  /\ setup \in Setups /\ step \in Steps
  /\ newStripe \in Nat /\ newBlock \in Nat
  /\ lucky \in Clusters /\ apart \subseteq Clusters
  /\ disk \subseteq AllNodes \X (0 .. newBlock - 1)
  /\ DOMAIN moved \subseteq DOMAIN moves
  /\ moves \in Seq([block : 0 .. newBlock - 1, from : AllNodes, to : AllNodes])
  /\ \A i \in DOMAIN stripes : ToSet(stripes[i].nodes) \subseteq AllNodes
  /\ DOMAIN stripes \subseteq 0 .. newStripe - 1
  /\ ToSet(group) \subseteq DOMAIN stripes

\* The stripes of the merge group: numbered in order, no two blocks with one id.
PlacedInv ==
  step \in Working =>
    /\ group \in Seq(Nat) /\ Len(group) <= setup.x
    /\ newStripe = IF step = "place" THEN Len(group) ELSE Len(group) + 1
    /\ step \in Underway => Len(group) = setup.x
    /\ \A i \in 1 .. Len(group) : group[i] = i - 1
    /\ DOMAIN stripes = Placed
    /\ \A s \in Placed : /\ stripes[s].ids \in [StripeBlocks -> 0 .. newBlock - 1]
                          /\ stripes[s].nodes \in [StripeBlocks -> AllNodes]
    /\ \A s, t \in Placed : \A b, c \in StripeBlocks :
         stripes[s].ids[b] = stripes[t].ids[c] => s = t /\ b = c
    /\ step = "place" => moves = <<>>
    /\ step \in Choosing => moved = <<>> /\
         disk = {<<stripes[x[1]].nodes[x[2]], stripes[x[1]].ids[x[2]]>> : x \in Placed \X StripeBlocks}

\* The larger stripe: kept blocks have their ids, the new parity blocks new ones.
LargerInv ==
  step \in Underway =>
    /\ Fits(setup)
    /\ DOMAIN larger = {"ids", "nodes"}
    /\ larger.ids \in [Slots -> 0 .. newBlock - 1]
    /\ larger.nodes \in [Slots -> AllNodes]
    /\ DOMAIN made = ParitySlots(setup)
    /\ \A b \in Filled(setup) \ ParitySlots(setup) : larger.ids[b] = OldId(From(b))
    /\ \A b \in ParitySlots(setup) : \A s \in Placed : \A c \in StripeBlocks :
         stripes[s].ids[c] < larger.ids[b]
    /\ \A a, b \in ParitySlots(setup) : larger.ids[a] = larger.ids[b] => a = b

\* The search for blocks to move: the relief, and the pass, which leaves no block
\* behind that shares its node.
SearchInv ==
  /\ step = "relieve" =>
       /\ DOMAIN reloc = DOMAIN NoReloc
       /\ reloc.order \in Seq(DOMAIN reloc.blocks) /\ reloc.at \in Nat \ {0}
       /\ DOMAIN reloc.blocks \subseteq Clusters
       /\ \A c \in DOMAIN reloc.blocks : reloc.blocks[c] \in Seq(Slots)
       /\ reloc.rest \in Seq(Seq(Slots))
       /\ reloc.free \subseteq Clusters
  /\ step = "part" =>
       /\ DOMAIN reloc = DOMAIN NoReloc /\ reloc.look \in Nat
       /\ \A b \in Slots : b < reloc.look => OnNode(larger.nodes[b]) = {b}

MovesOf(b) == {i \in DOMAIN moves : moves[i].block = larger.ids[b]}

\* What the moves say of a block that is moved at most once.
TrailInv ==
  step \in Underway /\ Mergeable(setup) =>
    \A b \in Slots :
      /\ MovesOf(b) = {} => larger.nodes[b] = Home(b)
      /\ \A i \in DOMAIN moves :
           MovesOf(b) = {i} => moves[i].from = Home(b) /\ moves[i].to = larger.nodes[b]

\* Where such a block is while the moves are carried out.
DiskInv ==
  step \in {"move", "update"} =>
    /\ IsInjective(larger.nodes)
    /\ moved \in [DOMAIN moves -> {"no", "copied", "yes"}]
    /\ step = "update" => \A i \in DOMAIN moves : moved[i] = "yes"
    /\ Mergeable(setup) =>
       \A b \in Slots :
         /\ MovesOf(b) = {} => Holders(larger.ids[b]) = {Home(b)}
         /\ \A i \in DOMAIN moves :
              MovesOf(b) = {i} /\ moves[i].from # moves[i].to =>
                Holders(larger.ids[b]) = CASE moved[i] = "no"     -> {moves[i].from}
                                           [] moved[i] = "copied" -> {moves[i].from, moves[i].to}
                                           [] moved[i] = "yes"    -> {moves[i].to}

IInv == TypeInv /\ PlacedInv /\ LargerInv /\ SearchInv /\ TrailInv /\ DiskInv

----------------------------------------------------------------------------
(* Clusters and nodes.                                                      *)

\* There are clusters and nodes.
LEMMA Nodes ==
  /\ NumClusters \in Nat /\ NumClusters > 0 /\ NodesPerCluster \in Pos
  /\ NodesPerCluster \in Nat /\ 0 \in Clusters /\ 0 \in AllNodes
  /\ IsFiniteSet(AllNodes) /\ IsFiniteSet(Clusters)
<1>1. /\ NumClusters \in Nat /\ NumClusters > 0
      /\ NodesPerCluster \in Pos /\ NodesPerCluster \in Nat /\ NodesPerCluster > 0
  BY SetupsAssumption DEF Pos
<1>2. PICK n \in Nat : n = NumClusters * NodesPerCluster
  BY <1>1, ProdNat
<1>3. n > 0
  <2>1. 0 * NodesPerCluster + NodesPerCluster <= NumClusters * NodesPerCluster
    BY <1>1, ProdMono
  <2> QED
    BY <1>1, <1>2, <2>1
<1>4. IsFiniteSet(AllNodes)
  BY <1>2, Intervals DEF AllNodes
<1>5. IsFiniteSet(Clusters)
  BY <1>1, Intervals DEF Clusters
<1> QED
  BY <1>1, <1>2, <1>3, <1>4, <1>5 DEF Clusters, AllNodes

\* The cluster of a node is one of the clusters.
LEMMA ClusterOfNode ==
  ASSUME NEW n \in AllNodes
  PROVE  ClusterOf(n) \in Clusters
<1>0. PICK a \in Nat : a = NumClusters * NodesPerCluster
  BY Nodes, ProdNat
<1>1. n \in Nat /\ n < NumClusters * NodesPerCluster
  BY <1>0 DEF AllNodes
<1>2. n \div NodesPerCluster \in Nat /\ n \div NodesPerCluster < NumClusters
  BY <1>1, Nodes, DivMod, DivLess
<1> QED
  BY <1>2, Nodes DEF ClusterOf, Clusters

\* The j-th node of a cluster is one of the nodes.
LEMMA NodeOfCluster ==
  ASSUME NEW c \in Clusters, NEW j \in 0 .. NodesPerCluster - 1
  PROVE  c * NodesPerCluster + j \in AllNodes
<1>1. c \in Nat /\ c < NumClusters /\ j \in Nat /\ j < NodesPerCluster
  BY Nodes DEF Clusters
<1>2. /\ c * NodesPerCluster \in Nat /\ NumClusters * NodesPerCluster \in Nat
      /\ c * NodesPerCluster + NodesPerCluster <= NumClusters * NodesPerCluster
  BY <1>1, Nodes, ProdMono
<1>3. PICK a \in Nat, b \in Nat : a = c * NodesPerCluster /\ b = NumClusters * NodesPerCluster
  BY <1>2
<1>4. a + j \in 0 .. b - 1
  BY ONLY <1>1, <1>2, <1>3, Nodes
<1> QED
  BY <1>3, <1>4 DEF AllNodes

\* Every code has a block.
LEMMA SizePos ==
  ASSUME NEW c \in AllCodes
  PROVE  /\ Size(c) \in Nat /\ Size(c) > 0 /\ 0 \in BlocksOf(c)
         /\ IsFiniteSet(BlocksOf(c)) /\ BlocksOf(c) \subseteq Nat
<1>1. Size(c) \in Nat
  BY SizeType
<1>2. Size(c) > 0
  <2>1. CASE c \in RsCodes
    BY <2>1 DEF Size, RsCodes, Pos, PcTypes
  <2>2. CASE c \in LrCodes
    BY <2>2 DEF Size, LrCodes, Pos, PcTypes
  <2>3. CASE c \in PcCodes
    <3>1. /\ c.k1 \in Nat /\ c.m1 \in Nat /\ c.k2 \in Nat /\ c.m2 \in Nat
          /\ c.k1 > 0 /\ c.m1 > 0 /\ c.k2 > 0 /\ c.m2 > 0
      BY <2>3, PcParts
    <3>2. CASE c.type = "PC"
      <4>1. Size(c) = (c.k2 + c.m2) * (c.k1 + c.m1)
        BY <2>3, <3>2, PcSize
      <4>2. PICK a \in Nat, b \in Nat : a = c.k2 + c.m2 /\ b = c.k1 + c.m1
        BY <3>1
      <4>3. a * b \in Nat /\ a * b > 0
        BY <3>1, <4>2, ProdPos
      <4> QED
        BY <4>1, <4>2, <4>3
    <3>3. CASE c.type = "HV_PC"
      <4>1. Size(c) = c.k2 * (c.k1 + c.m1) + c.m2 * c.k1
        BY <2>3, <3>3, PcSize
      <4>2. PICK b \in Nat : b = c.k1 + c.m1
        BY <3>1
      <4>3. /\ c.m2 * c.k1 \in Nat
            /\ c.k2 * b \in Nat /\ c.k2 * b > 0
        BY <3>1, <4>2, ProdPos
      <4>4. PICK p \in Nat, q \in Nat : p = c.k2 * b /\ q = c.m2 * c.k1
        BY <4>3
      <4>5. Size(c) = p + q
        BY <4>1, <4>2, <4>4
      <4>6. p > 0
        BY <4>3, <4>4
      <4> QED
        BY <4>4, <4>5, <4>6
    <3> QED
      BY <2>3, <3>2, <3>3, PcParts
  <2> QED
    BY <2>1, <2>2, <2>3 DEF AllCodes
<1> QED
  BY <1>1, <1>2, Intervals DEF BlocksOf

----------------------------------------------------------------------------
(* Placement.                                                               *)

\* Placement chooses nodes of the system.
LEMMA NodeAtType ==
  ASSUME setup \in Setups, NEW cl \in [1 .. PartitionNum -> Clusters],
         NEW first \in setup.first, NEW b \in StripeBlocks
  PROVE  NodeAt(cl, first, b) \in AllNodes
<1> DEFINE parts == PartitionTable[setup.code]
           i == CHOOSE i \in DOMAIN parts : b \in ToSet(parts[i])
           j == CHOOSE j \in DOMAIN parts[i] : parts[i][j] = b
<1>1. parts = Partitions(setup.code)
  BY DEF PartitionTable
<1>2. /\ parts \in Seq(Seq(StripeBlocks))
      /\ \E n \in DOMAIN parts : b \in ToSet(parts[n])
  BY <1>1, LayoutsCover DEF StripeBlocks
<1>3. DOMAIN parts = 1 .. PartitionNum
  BY <1>2, LenProperties DEF PartitionNum
<1> HIDE DEF parts
<1>4. i \in DOMAIN parts /\ b \in ToSet(parts[i])
  BY <1>2
<1>5. parts[i] \in Seq(StripeBlocks)
  BY <1>2, <1>3, <1>4, LenProperties
<1>6. \E n \in DOMAIN parts[i] : parts[i][n] = b
  BY <1>4 DEF ToSet
<1> HIDE DEF i
<1>7. j \in DOMAIN parts[i]
  BY <1>6
<1>8. j \in Nat /\ j >= 1
  BY <1>5, <1>7, LenProperties
<1>9. cl[i] \in Clusters
  BY <1>3, <1>4
<1>10. first \in Nat
  BY SetupsAssumption
<1> HIDE DEF j
<1>11. (first + j - 1) % NodesPerCluster \in 0 .. NodesPerCluster - 1
  <2>1. first + j - 1 \in Nat
    BY <1>8, <1>10
  <2> QED
    BY <2>1, Nodes, DivMod
<1>12. NodeAt(cl, first, b) = cl[i] * NodesPerCluster + ((first + j - 1) % NodesPerCluster)
  BY DEF NodeAt, parts, i, j
<1> QED
  BY <1>9, <1>11, <1>12, NodeOfCluster

\* What placing a stripe does, whichever nodes it takes.
LEMMA PutEffect ==
  ASSUME setup \in Setups, NEW cl \in [1 .. PartitionNum -> Clusters], Put(cl)
  PROVE  /\ newStripe' = newStripe + 1 /\ newBlock' = newBlock + Size(setup.code)
         /\ group' = Append(group, newStripe)
         /\ UNCHANGED <<setup, step, larger, made, reloc, moves, moved>>
         /\ \E f \in [StripeBlocks -> AllNodes] :
              /\ stripes' = [i \in DOMAIN stripes \cup {newStripe} |->
                   IF i = newStripe
                   THEN [ids |-> [b \in StripeBlocks |-> newBlock + b], nodes |-> f]
                   ELSE stripes[i]]
              /\ disk' = disk \cup {<<f[b], newBlock + b>> : b \in StripeBlocks}
<1>1. PICK first \in setup.first :
        LET ids   == [b \in StripeBlocks |-> newBlock + b]
            nodes == [b \in StripeBlocks |-> NodeAt(cl, first, b)]
        IN /\ stripes' = [i \in DOMAIN stripes \cup {newStripe} |->
                IF i = newStripe THEN [ids |-> ids, nodes |-> nodes] ELSE stripes[i]]
           /\ disk' = disk \cup {<<nodes[b], ids[b]>> : b \in StripeBlocks}
           /\ group' = Append(group, newStripe)
           /\ newStripe' = newStripe + 1 /\ newBlock' = newBlock + Size(setup.code)
           /\ UNCHANGED <<setup, step, larger, made, reloc, moves, moved>>
  BY Zenon DEF Put, StripeBlocks
<1>2. PICK f : f = [b \in StripeBlocks |-> NodeAt(cl, first, b)]
  OBVIOUS
<1>3. f \in [StripeBlocks -> AllNodes]
  BY <1>2, NodeAtType
<1>4. {<<[b \in StripeBlocks |-> NodeAt(cl, first, b)][c],
         [b \in StripeBlocks |-> newBlock + b][c]>> : c \in StripeBlocks}
        = {<<f[c], newBlock + c>> : c \in StripeBlocks}
  BY <1>2
<1>5. /\ stripes' = [i \in DOMAIN stripes \cup {newStripe} |->
           IF i = newStripe
           THEN [ids |-> [b \in StripeBlocks |-> newBlock + b], nodes |-> f]
           ELSE stripes[i]]
      /\ disk' = disk \cup {<<f[b], newBlock + b>> : b \in StripeBlocks}
  BY <1>1, <1>2, <1>4
<1> QED
  BY <1>1, <1>3, <1>5, Zenon

\* However the clusters are chosen, every partition gets one.
LEMMA PlaceEffect ==
  ASSUME TypeInv, Place
  PROVE  /\ step = "place" /\ Len(group) < setup.x
         /\ lucky' \in Clusters /\ apart' \subseteq Clusters
         /\ \E cl \in [1 .. PartitionNum -> Clusters] : Put(cl)
<1> USE DEF TypeInv
<1>1. setup \in Setups /\ lucky \in Clusters /\ apart \subseteq Clusters
  OBVIOUS
<1>2. CASE PlaceRandom
  BY <1>1, <1>2 DEF PlaceRandom, Placing, Distinct, placement
<1>3. CASE PlaceDispersed
  <2> DEFINE left == IF NewGroup THEN Clusters ELSE apart
  <2>1. left \subseteq Clusters
    BY <1>1
  <2>2. PICK cl \in Distinct(PartitionNum, left) : Put(cl) /\ apart' = left \ ToSet(cl)
    BY <1>3 DEF PlaceDispersed
  <2>3. cl \in [1 .. PartitionNum -> Clusters]
    BY <2>1, <2>2 DEF Distinct
  <2> QED
    BY <1>1, <1>3, <2>1, <2>2, <2>3 DEF PlaceDispersed, Placing
<1>4. CASE PlaceInOrder
  <2>1. PICK l \in Clusters :
          lucky' = l /\ Put([i \in 1 .. PartitionNum |-> (l + i - 1) % NumClusters])
    BY <1>1, <1>4 DEF PlaceInOrder
  <2>2. ASSUME NEW i \in 1 .. PartitionNum PROVE (l + i - 1) % NumClusters \in Clusters
    <3>1. l + i - 1 \in Nat /\ i \in Int
      BY Nodes DEF Clusters
    <3> QED
      BY <3>1, Nodes DEF Clusters
  <2> QED
    BY <1>1, <1>4, <2>1, <2>2 DEF PlaceInOrder, Placing
<1>5. CASE PlaceHorizontal
  <2>1. PICK l \in Clusters : LET left == IF NewGroup THEN Clusters \ {l} ELSE apart
          IN \E cl \in Distinct(PartitionNum - 1, left) :
               Put(Append(cl, l)) /\ lucky' = l /\ apart' = left \ ToSet(cl)
    BY <1>1, <1>5 DEF PlaceHorizontal
  <2> DEFINE left == IF NewGroup THEN Clusters \ {l} ELSE apart
  <2>2. left \subseteq Clusters
    BY <1>1
  <2>3. PICK cl \in Distinct(PartitionNum - 1, left) :
          Put(Append(cl, l)) /\ lucky' = l /\ apart' = left \ ToSet(cl)
    BY <2>1
  <2>4. PartitionNum \in Nat /\ PartitionNum >= 1
    <3>1. PartitionTable[setup.code] = Partitions(setup.code)
      BY DEF PartitionTable
    <3>2. /\ PartitionTable[setup.code] \in Seq(Seq(StripeBlocks)) /\ 0 \in StripeBlocks
          /\ \A b \in StripeBlocks : \E n \in DOMAIN PartitionTable[setup.code] :
               b \in ToSet(PartitionTable[setup.code][n])
      BY <3>1, LayoutsCover, SetupType, SizePos DEF StripeBlocks
    <3>3. DOMAIN PartitionTable[setup.code] = 1 .. PartitionNum /\ PartitionNum \in Nat
      BY <3>2, LenProperties DEF PartitionNum
    <3> QED
      BY <3>2, <3>3
  <2>5. cl \in [1 .. PartitionNum - 1 -> Clusters] /\ PartitionNum - 1 \in Nat
    BY <2>2, <2>3, <2>4 DEF Distinct
  <2>6. cl \in Seq(Clusters) /\ Len(cl) = PartitionNum - 1
    <3>1. cl \in Seq(Clusters)
      BY <2>5, SeqDef
    <3> QED
      BY <2>4, <2>5, <3>1, LenProperties
  <2>7. Append(cl, l) \in Seq(Clusters) /\ Len(Append(cl, l)) = PartitionNum
    BY <2>4, <2>6, AppendProperties
  <2>8. Append(cl, l) \in [1 .. PartitionNum -> Clusters]
    BY <2>7, LenProperties
  <2> QED
    BY <1>1, <1>5, <2>1, <2>2, <2>3, <2>8 DEF PlaceHorizontal, Placing
<1> QED
  BY <1>2, <1>3, <1>4, <1>5 DEF Place

\* A placed stripe has new ids, and the disks hold it.
LEMMA PlaceKeeps ==
  ASSUME TypeInv, PlacedInv, Place
  PROVE  TypeInv' /\ PlacedInv'
<1> DEFINE n == Len(group)
           N == Size(setup.code)
           ids == [b \in StripeBlocks |-> newBlock + b]
<1>1. /\ setup \in Setups /\ newStripe \in Nat /\ newBlock \in Nat
      /\ disk \subseteq AllNodes \X (0 .. newBlock - 1)
      /\ DOMAIN moved \subseteq DOMAIN moves
      /\ \A i \in DOMAIN stripes : ToSet(stripes[i].nodes) \subseteq AllNodes
      /\ DOMAIN stripes \subseteq 0 .. newStripe - 1 /\ ToSet(group) \subseteq DOMAIN stripes
      /\ moves \in Seq([block : 0 .. newBlock - 1, from : AllNodes, to : AllNodes])
  BY DEF TypeInv
<1>2. step = "place" /\ n < setup.x /\ lucky' \in Clusters /\ apart' \subseteq Clusters
  BY PlaceEffect
<1>3. /\ newStripe' = newStripe + 1 /\ newBlock' = newBlock + N
      /\ group' = Append(group, newStripe)
      /\ UNCHANGED <<setup, step, larger, made, reloc, moves, moved>>
  BY PlaceEffect, PutEffect DEF TypeInv
<1>4. PICK f \in [StripeBlocks -> AllNodes] :
        /\ stripes' = [i \in DOMAIN stripes \cup {newStripe} |->
             IF i = newStripe THEN [ids |-> ids, nodes |-> f] ELSE stripes[i]]
        /\ disk' = disk \cup {<<f[b], newBlock + b>> : b \in StripeBlocks}
  BY PlaceEffect, PutEffect DEF TypeInv
<1>40. /\ disk' = disk \cup {<<f[b], newBlock + b>> : b \in StripeBlocks}
       /\ f \in [StripeBlocks -> AllNodes]
  BY <1>4
<1>5. /\ group \in Seq(Nat) /\ newStripe = n /\ n \in Nat
      /\ \A i \in 1 .. n : group[i] = i - 1
      /\ DOMAIN stripes = Placed
      /\ \A s \in Placed : /\ stripes[s].ids \in [StripeBlocks -> 0 .. newBlock - 1]
                           /\ stripes[s].nodes \in [StripeBlocks -> AllNodes]
      /\ \A s, t \in Placed : \A b, c \in StripeBlocks :
           stripes[s].ids[b] = stripes[t].ids[c] => s = t /\ b = c
      /\ moves = <<>> /\ moved = <<>>
      /\ disk = {<<stripes[x[1]].nodes[x[2]], stripes[x[1]].ids[x[2]]>> : x \in Placed \X StripeBlocks}
  BY <1>2, LenProperties DEF PlacedInv, Working, Choosing
<1>6. N \in Nat /\ StripeBlocks = 0 .. N - 1 /\ setup.x \in Nat
  BY <1>1, SetupType, SizeType DEF StripeBlocks, BlocksOf
<1>7. StripeBlocks' = StripeBlocks
  BY <1>3 DEF StripeBlocks
<1> HIDE DEF N
<1>8. /\ ids \in [StripeBlocks -> 0 .. newBlock + N - 1]
      /\ \A b \in StripeBlocks : ids[b] >= newBlock /\ ids[b] = newBlock + b
      /\ \A b, c \in StripeBlocks : ids[b] = ids[c] => b = c
  BY <1>1, <1>6
<1> HIDE DEF ids
<1>9. /\ group' \in Seq(Nat) /\ Len(group') = n + 1
      /\ \A i \in 1 .. n : group'[i] = group[i]
      /\ group'[n + 1] = n
      /\ DOMAIN group' = 1 .. n + 1
  <2>1. /\ group' \in Seq(Nat) /\ Len(group') = n + 1
        /\ \A i \in 1 .. n : group'[i] = group[i] /\ group'[n + 1] = n
    BY <1>3, <1>5, AppendProperties
  <2>2. group'[n + 1] = n
    BY <1>3, <1>5, AppendProperties
  <2> QED
    BY <2>1, <2>2, LenProperties
<1>10. Placed' = 0 .. n
  BY <1>5, <1>9 DEF Placed
<1>11. Placed = 0 .. n - 1
  BY DEF Placed
<1>12. /\ DOMAIN stripes' = 0 .. n
       /\ \A s \in 0 .. n - 1 : stripes'[s] = stripes[s]
       /\ stripes'[n].ids = ids /\ stripes'[n].nodes = f
  <2>1. PICK rec : rec = [ids |-> ids, nodes |-> f]
    OBVIOUS
  <2>2. stripes' = [i \in DOMAIN stripes \cup {n} |->
          IF i = n THEN rec ELSE stripes[i]]
    BY <1>4, <1>5, <2>1
  <2>3. /\ DOMAIN stripes' = DOMAIN stripes \cup {n}
        /\ \A x \in DOMAIN stripes \cup {n} :
             stripes'[x] = IF x = n THEN rec ELSE stripes[x]
    BY <2>2
  <2>4. 0 .. n = (0 .. n - 1) \cup {n} /\ n \notin 0 .. n - 1
    BY <1>5
  <2>5. DOMAIN stripes = 0 .. n - 1
    BY <1>5, <1>11
  <2>6. rec.ids = ids /\ rec.nodes = f
    BY <2>1
  <2> QED
    BY <2>3, <2>4, <2>5, <2>6
<1>13. \A s \in 0 .. n : /\ stripes'[s].ids \in [StripeBlocks -> 0 .. newBlock' - 1]
                         /\ stripes'[s].nodes \in [StripeBlocks -> AllNodes]
  <2> SUFFICES ASSUME NEW s \in 0 .. n
               PROVE  /\ stripes'[s].ids \in [StripeBlocks -> 0 .. newBlock' - 1]
                      /\ stripes'[s].nodes \in [StripeBlocks -> AllNodes]
    OBVIOUS
  <2>1. CASE s = n
    <3>1. newBlock' = newBlock + N
      BY <1>3
    <3>2. stripes'[s].ids = ids /\ stripes'[s].nodes = f
      BY <1>12, <2>1
    <3>3. ids \in [StripeBlocks -> 0 .. newBlock' - 1]
      BY <1>1, <1>6, <1>8, <3>1
    <3> QED
      BY <1>40, <3>2, <3>3, Zenon
  <2>2. CASE s # n
    <3>1. s \in 0 .. n - 1 /\ 0 .. newBlock - 1 \subseteq 0 .. newBlock' - 1
      BY <1>1, <1>3, <1>5, <1>6, <2>2
    <3> QED
      BY <1>5, <1>11, <1>12, <3>1
  <2> QED
    BY <2>1, <2>2
<1>14. ASSUME NEW s \in 0 .. n, NEW t \in 0 .. n, NEW b \in StripeBlocks, NEW c \in StripeBlocks,
              stripes'[s].ids[b] = stripes'[t].ids[c]
       PROVE  s = t /\ b = c
  <2>1. \A q \in 0 .. n - 1 : \A e \in StripeBlocks :
          stripes'[q].ids[e] = stripes[q].ids[e] /\ stripes[q].ids[e] < newBlock
    BY <1>1, <1>5, <1>11, <1>12
  <2>2. s = n \/ s \in 0 .. n - 1
    BY <1>5
  <2>3. t = n \/ t \in 0 .. n - 1
    BY <1>5
  <2>4. CASE s = n /\ t = n
    BY <1>8, <1>12, <1>14, <2>4
  <2>5. CASE s \in 0 .. n - 1 /\ t \in 0 .. n - 1
    BY <1>5, <1>11, <1>14, <2>1, <2>5
  <2>6. CASE s = n /\ t \in 0 .. n - 1
    <3>1. ids[b] = stripes[t].ids[c] /\ stripes[t].ids[c] \in 0 .. newBlock - 1
      BY <1>5, <1>11, <1>12, <1>14, <2>1, <2>6
    <3> QED
      BY <1>1, <1>8, <3>1
  <2>7. CASE s \in 0 .. n - 1 /\ t = n
    <3>1. ids[c] = stripes[s].ids[b] /\ stripes[s].ids[b] \in 0 .. newBlock - 1
      BY <1>5, <1>11, <1>12, <1>14, <2>1, <2>7
    <3> QED
      BY <1>1, <1>8, <3>1
  <2> QED
    BY <2>2, <2>3, <2>4, <2>5, <2>6, <2>7
<1>15. disk' = {<<stripes'[x[1]].nodes[x[2]], stripes'[x[1]].ids[x[2]]>> : x \in (0 .. n) \X StripeBlocks}
  <2> DEFINE All == {<<stripes'[x[1]].nodes[x[2]], stripes'[x[1]].ids[x[2]]>> : x \in (0 .. n) \X StripeBlocks}
  <2>1. ASSUME NEW p \in disk' PROVE p \in All
    <3>1. CASE p \in disk
      <4>1. PICK x \in Placed \X StripeBlocks :
              p = <<stripes[x[1]].nodes[x[2]], stripes[x[1]].ids[x[2]]>>
        BY <1>5, <3>1
      <4>2. x \in (0 .. n) \X StripeBlocks /\ stripes'[x[1]] = stripes[x[1]]
        BY <1>5, <1>11, <1>12
      <4> QED
        BY <4>1, <4>2
    <3>2. CASE p \notin disk
      <4>1. PICK b \in StripeBlocks : p = <<f[b], newBlock + b>>
        BY <1>40, <3>2
      <4>2. p = <<stripes'[n].nodes[b], stripes'[n].ids[b]>>
        BY <1>8, <1>12, <4>1
      <4>3. <<n, b>> \in (0 .. n) \X StripeBlocks
        BY <1>5
      <4>4. \E x \in (0 .. n) \X StripeBlocks : p = <<stripes'[x[1]].nodes[x[2]], stripes'[x[1]].ids[x[2]]>>
        BY <4>2, <4>3
      <4> QED
        BY <4>4
    <3> QED
      BY <3>1, <3>2
  <2>2. ASSUME NEW s \in 0 .. n, NEW b \in StripeBlocks
        PROVE  <<stripes'[s].nodes[b], stripes'[s].ids[b]>> \in disk'
    <3>1. CASE s = n
      <4>1. <<stripes'[s].nodes[b], stripes'[s].ids[b]>> = <<f[b], newBlock + b>>
        BY <1>8, <1>12, <3>1
      <4> QED
        BY <1>40, <4>1
    <3>2. CASE s # n
      <4>1. s \in Placed /\ stripes'[s] = stripes[s]
        BY <1>5, <1>11, <1>12, <3>2
      <4>2. <<s, b>> \in Placed \X StripeBlocks
        BY <4>1
      <4>3. <<stripes[s].nodes[b], stripes[s].ids[b]>> \in disk
        BY <1>5, <4>2
      <4> QED
        BY <1>40, <4>1, <4>3
    <3> QED
      BY <3>1, <3>2
  <2>3. ASSUME NEW p \in All PROVE p \in disk'
    <3>1. PICK x \in (0 .. n) \X StripeBlocks : p = <<stripes'[x[1]].nodes[x[2]], stripes'[x[1]].ids[x[2]]>>
      OBVIOUS
    <3>2. x[1] \in 0 .. n /\ x[2] \in StripeBlocks
      BY <3>1
    <3> QED
      BY <2>2, <3>1, <3>2
  <2> QED
    BY <2>1, <2>3
<1>16. disk' \subseteq AllNodes \X (0 .. newBlock' - 1)
  <2> SUFFICES ASSUME NEW p \in disk' PROVE p \in AllNodes \X (0 .. newBlock' - 1)
    OBVIOUS
  <2>1. PICK x \in (0 .. n) \X StripeBlocks : p = <<stripes'[x[1]].nodes[x[2]], stripes'[x[1]].ids[x[2]]>>
    BY <1>15
  <2>2. x[1] \in 0 .. n /\ x[2] \in StripeBlocks
    BY <2>1
  <2> QED
    BY <1>13, <2>1, <2>2
<1>17. TypeInv'
  <2>1. \A i \in DOMAIN stripes' : ToSet(stripes'[i].nodes) \subseteq AllNodes
    BY <1>12, <1>13 DEF ToSet
  <2>2. ToSet(group') \subseteq 0 .. n
    BY <1>5, <1>9 DEF ToSet
  <2>3. DOMAIN stripes' \subseteq 0 .. newStripe' - 1
    BY <1>3, <1>5, <1>12
  <2>4. moves' = <<>> /\ moves' \in Seq([block : 0 .. newBlock' - 1, from : AllNodes, to : AllNodes])
    BY <1>3, <1>5, EmptySeq
  <2>5. newStripe' \in Nat /\ newBlock' \in Nat /\ setup' \in Setups /\ step' \in Steps
    BY <1>1, <1>2, <1>3, <1>6 DEF Steps
  <2>6. DOMAIN moved' \subseteq DOMAIN moves'
    BY <1>1, <1>3
  <2>7. ToSet(group)' \subseteq DOMAIN stripes'
    BY <1>12, <2>2 DEF ToSet
  <2>8. \A i \in DOMAIN stripes' : ToSet(stripes[i].nodes)' \subseteq AllNodes
    BY <2>1 DEF ToSet
  <2> QED
    BY <1>2, <1>16, <2>3, <2>4, <2>5, <2>6, <2>7, <2>1 DEF TypeInv
<1>18. PlacedInv'
  <2>1. step' = "place" /\ Len(group') <= setup'.x /\ newStripe' = Len(group')
    BY <1>2, <1>3, <1>5, <1>6, <1>9
  <2>2. \A i \in 1 .. n + 1 : group'[i] = i - 1
    <3> SUFFICES ASSUME NEW i \in 1 .. n + 1 PROVE group'[i] = i - 1
      OBVIOUS
    <3>1. i = n + 1 \/ i \in 1 .. n
      BY <1>5
    <3> QED
      BY <1>5, <1>9, <3>1
  <2>3. moves' = <<>> /\ moved' = <<>>
    BY <1>3, <1>5
  <2> QED
    BY <1>7, <1>9, <1>10, <1>12, <1>13, <1>14, <1>15, <2>1, <2>2, <2>3
       DEF PlacedInv, Underway, Working
<1> QED
  BY <1>17, <1>18

----------------------------------------------------------------------------
(* The larger stripe.                                                       *)

\* Where the ids and nodes of an old block are.
LEMMA OldBlockFacts ==
  ASSUME TypeInv, PlacedInv, step \in Working, Len(group) = setup.x,
         NEW x \in OldBlocks(setup)
  PROVE  /\ x[1] \in Placed /\ x[2] \in StripeBlocks
         /\ OldId(x) = stripes[x[1]].ids[x[2]] /\ OldNode(x) = stripes[x[1]].nodes[x[2]]
         /\ OldId(x) \in 0 .. newBlock - 1 /\ OldNode(x) \in AllNodes
<1>1. setup.x \in Nat
  BY SetupType DEF TypeInv
<1>2. x[1] \in 0 .. setup.x - 1 /\ x[2] \in StripeBlocks
  BY DEF OldBlocks, StripeBlocks
<1>3. x[1] \in Placed /\ x[1] + 1 \in 1 .. Len(group)
  BY <1>1, <1>2 DEF Placed
<1>7. \A i \in 1 .. Len(group) : group[i] = i - 1
  BY DEF PlacedInv
<1>5. group[x[1] + 1] = x[1]
  <2>1. PICK i \in 1 .. Len(group) : x[1] + 1 = i /\ x[1] = i - 1
    BY <1>1, <1>2, <1>3
  <2>2. group[i] = i - 1
    BY <1>7
  <2> QED
    BY <2>1, <2>2
<1>6. /\ stripes[x[1]].ids \in [StripeBlocks -> 0 .. newBlock - 1]
      /\ stripes[x[1]].nodes \in [StripeBlocks -> AllNodes]
  BY <1>3 DEF PlacedInv
<1> QED
  BY <1>2, <1>3, <1>5, <1>6 DEF OldId, OldNode

\* No two old blocks have one id.
LEMMA OldIdsDiffer ==
  ASSUME TypeInv, PlacedInv, step \in Working, Len(group) = setup.x,
         NEW x \in OldBlocks(setup), NEW y \in OldBlocks(setup), OldId(x) = OldId(y)
  PROVE  x = y
<1>1. /\ x[1] \in Placed /\ x[2] \in StripeBlocks /\ OldId(x) = stripes[x[1]].ids[x[2]]
      /\ y[1] \in Placed /\ y[2] \in StripeBlocks /\ OldId(y) = stripes[y[1]].ids[y[2]]
  BY OldBlockFacts
<1>2. x[1] = y[1] /\ x[2] = y[2]
  <2>1. \A s, t \in Placed : \A b, c \in StripeBlocks :
          stripes[s].ids[b] = stripes[t].ids[c] => s = t /\ b = c
    BY DEF PlacedInv
  <2>2. PICK s \in Placed, t \in Placed, b \in StripeBlocks, c \in StripeBlocks :
          /\ s = x[1] /\ b = x[2] /\ t = y[1] /\ c = y[2]
          /\ stripes[s].ids[b] = stripes[t].ids[c]
    BY <1>1
  <2> QED
    BY ONLY <2>1, <2>2
<1> QED
  BY <1>2 DEF OldBlocks

\* The setup of a behaviour and the code it merges to.
LEMMA SetupBasics ==
  ASSUME TypeInv
  PROVE  /\ setup \in Setups /\ setup.x \in Nat /\ setup.code \in AllCodes /\ New \in AllCodes
         /\ Slots \subseteq Nat /\ IsFiniteSet(Slots) /\ Slots = BlocksOf(MergedCode(setup))
  BY SetupType, SizePos DEF TypeInv, New, Slots

\* The larger stripe is numbered and every slot has its old node.
LEMMA StartMergeKeeps ==
  ASSUME TypeInv, PlacedInv, StartMerge
  PROVE  TypeInv' /\ PlacedInv' /\ LargerInv' /\ TrailInv' /\ step' = "count"
<1> DEFINE origin == OriginTable[setup]
           from   == FromTable[setup]
           P      == ParitySlots(setup)
           n      == Cardinality(NewParities(setup))
<1>1. /\ setup \in Setups /\ newStripe \in Nat /\ newBlock \in Nat
      /\ lucky \in Clusters /\ apart \subseteq Clusters
      /\ disk \subseteq AllNodes \X (0 .. newBlock - 1)
      /\ DOMAIN moved \subseteq DOMAIN moves
      /\ \A i \in DOMAIN stripes : ToSet(stripes[i].nodes) \subseteq AllNodes
      /\ DOMAIN stripes \subseteq 0 .. newStripe - 1 /\ ToSet(group) \subseteq DOMAIN stripes
  BY DEF TypeInv
<1>2. /\ step = "place" /\ Len(group) = setup.x /\ Fits(setup)
      /\ newStripe' = newStripe + 1 /\ newBlock' = newBlock + n /\ step' = "count"
      /\ UNCHANGED <<setup, group, stripes, lucky, apart, reloc, moves, moved, disk>>
  BY TableDomains, SetupBasics
     DEF StartMerge, Merging, PastEnd, Fits, Slots, New, placement, moving
<1>3. /\ DOMAIN origin = Filled(setup) /\ DOMAIN from = P
      /\ \A slot \in Filled(setup) : origin[slot] = From(slot)
      /\ P \subseteq Filled(setup) /\ Filled(setup) \subseteq Slots /\ Slots \subseteq Nat
  BY <1>1, <1>2, TableDomains, SetupBasics DEF Fits, From
<1> DEFINE NewId(slot) == newBlock + Cardinality({t \in DOMAIN from : t < slot})
<1>4. /\ larger' =
             [ids |-> [slot \in Slots |->
                CASE slot \notin DOMAIN origin -> 0
                  [] slot \in DOMAIN from      -> NewId(slot)
                  [] OTHER                     -> OldId(origin[slot])],
              nodes |-> [slot \in Slots |->
                IF slot \in DOMAIN origin THEN OldNode(origin[slot]) ELSE 0]]
      /\ made' = [slot \in DOMAIN from |->
             [p \in DOMAIN from[slot] |-> OldId(from[slot][p])]]
  BY DEF StartMerge, Slots
<1>5. DOMAIN made' = P
  BY <1>3, <1>4
<1>6. \A slot \in P : NewId(slot) = newBlock + NumberOf(setup, slot)
  BY <1>3 DEF NumberOf
<1>7. /\ n \in Nat /\ \A slot \in P : NumberOf(setup, slot) \in 0 .. n - 1
      /\ \A s, t \in P : NumberOf(setup, s) = NumberOf(setup, t) => s = t
  BY <1>1, <1>2, NewNumbers
<1> HIDE DEF NewId, n
<1>8. larger'.ids = [slot \in Slots |->
                CASE slot \notin DOMAIN origin -> 0
                  [] slot \in DOMAIN from      -> NewId(slot)
                  [] OTHER                     -> OldId(origin[slot])]
  BY <1>4
<1>9. larger'.nodes = [slot \in Slots |->
                IF slot \in DOMAIN origin THEN OldNode(origin[slot]) ELSE 0]
  BY <1>4
<1>10. \A slot \in P : larger'.ids[slot] = newBlock + NumberOf(setup, slot)
  BY <1>3, <1>6, <1>8
<1>11. \A slot \in Filled(setup) \ P : larger'.ids[slot] = OldId(From(slot))
  BY <1>3, <1>8
<1>12. \A slot \in Slots \ Filled(setup) : larger'.ids[slot] = 0 /\ larger'.nodes[slot] = 0
  BY <1>3, <1>8, <1>9
<1>13. \A slot \in Filled(setup) : larger'.nodes[slot] = Home(slot)
  BY <1>3, <1>9 DEF Home
<1>14. DOMAIN larger'.ids = Slots /\ DOMAIN larger'.nodes = Slots
  BY <1>8, <1>9
<1>15. \A slot \in Filled(setup) : /\ From(slot) \in OldBlocks(setup)
                                   /\ OldId(From(slot)) \in 0 .. newBlock - 1
                                   /\ Home(slot) \in AllNodes
  BY <1>1, <1>2, Origins, OldBlockFacts DEF From, Home, Working
<1>16. newBlock > 0
  <2>1. setup.x > 1 /\ setup.x \in Nat /\ 0 \in BlocksOf(setup.code)
    BY <1>1, SetupType, SizePos
  <2>2. 0 \in 0 .. setup.x - 1
    BY <2>1
  <2>3. <<0, 0>> \in OldBlocks(setup)
    BY <2>1, <2>2 DEF OldBlocks
  <2>4. OldId(<<0, 0>>) \in 0 .. newBlock - 1
    BY <1>2, <2>3, OldBlockFacts DEF Working
  <2> QED
    BY <1>1, <2>4
<1>17. newBlock' \in Nat /\ newBlock <= newBlock'
  BY <1>1, <1>2, <1>7
<1>18. \A slot \in Slots : larger'.ids[slot] \in 0 .. newBlock' - 1
  <2> SUFFICES ASSUME NEW slot \in Slots PROVE larger'.ids[slot] \in 0 .. newBlock' - 1
    OBVIOUS
  <2>1. CASE slot \in P
    <3>1. larger'.ids[slot] = newBlock + NumberOf(setup, slot) /\ NumberOf(setup, slot) \in 0 .. n - 1
      BY <1>7, <1>10, <2>1
    <3> QED
      BY <1>1, <1>2, <1>7, <3>1
  <2>2. CASE slot \in Filled(setup) \ P
    <3>1. larger'.ids[slot] \in 0 .. newBlock - 1
      BY <1>11, <1>15, <2>2
    <3> QED
      BY <1>1, <1>17, <3>1
  <2>3. CASE slot \notin Filled(setup)
    BY <1>12, <1>1, <1>16, <1>17, <2>3
  <2> QED
    BY <2>1, <2>2, <2>3
<1>19. \A slot \in Slots : larger'.nodes[slot] \in AllNodes
  BY <1>12, <1>13, <1>15, Nodes
<1>20. larger'.ids \in [Slots -> 0 .. newBlock' - 1] /\ larger'.nodes \in [Slots -> AllNodes]
  BY <1>8, <1>9, <1>18, <1>19
<1>21. /\ Slots' = Slots /\ Placed' = Placed /\ StripeBlocks' = StripeBlocks
       /\ \A b : From(b)' = From(b) /\ OldId(From(b))' = OldId(From(b)) /\ Home(b)' = Home(b)
  BY <1>2 DEF Slots, New, Placed, StripeBlocks, From, OldId, OldNode, Home
<1>22. TypeInv'
  <2>1. 0 .. newBlock - 1 \subseteq 0 .. newBlock' - 1
    BY <1>1, <1>17
  <2>2. disk' \subseteq AllNodes \X (0 .. newBlock' - 1)
    BY <1>1, <1>2, <2>1
  <2>3. moves' = <<>> /\ moves' \in Seq([block : 0 .. newBlock' - 1, from : AllNodes, to : AllNodes])
    BY <1>2, EmptySeq DEF PlacedInv, Working
  <2>4. DOMAIN stripes' \subseteq 0 .. newStripe' - 1
    BY <1>1, <1>2
  <2>5. ToSet(group)' = ToSet(group) /\ \A i : ToSet(stripes[i].nodes)' = ToSet(stripes[i].nodes)
    BY <1>2 DEF ToSet
  <2>6. newStripe' \in Nat /\ step' \in Steps /\ setup' \in Setups
    BY <1>1, <1>2 DEF Steps
  <2>7. lucky' \in Clusters /\ apart' \subseteq Clusters /\ DOMAIN moved' \subseteq DOMAIN moves'
    BY <1>1, <1>2
  <2>8. \A i \in DOMAIN stripes' : ToSet(stripes[i].nodes)' \subseteq AllNodes
    BY <1>1, <1>2, <2>5
  <2>9. ToSet(group)' \subseteq DOMAIN stripes'
    BY <1>1, <1>2, <2>5
  <2> QED
    BY <1>17, <2>2, <2>3, <2>4, <2>6, <2>7, <2>8, <2>9 DEF TypeInv
<1>23. PlacedInv'
  <2>1. 0 .. newBlock - 1 \subseteq 0 .. newBlock' - 1
    BY <1>1, <1>17
  <2>2. /\ group \in Seq(Nat) /\ newStripe = Len(group)
        /\ \A i \in 1 .. Len(group) : group[i] = i - 1
        /\ DOMAIN stripes = Placed
        /\ \A s \in Placed : /\ stripes[s].ids \in [StripeBlocks -> 0 .. newBlock - 1]
                             /\ stripes[s].nodes \in [StripeBlocks -> AllNodes]
        /\ \A s, t \in Placed : \A b, c \in StripeBlocks :
             stripes[s].ids[b] = stripes[t].ids[c] => s = t /\ b = c
        /\ moved = <<>>
        /\ disk = {<<stripes[x[1]].nodes[x[2]], stripes[x[1]].ids[x[2]]>> : x \in Placed \X StripeBlocks}
    BY <1>2 DEF PlacedInv, Working, Choosing
  <2>3. \A s \in Placed : stripes[s].ids \in [StripeBlocks -> 0 .. newBlock' - 1]
    BY <2>1, <2>2
  <2>4. Len(group)' = Len(group) /\ Len(group) <= setup.x
    BY <1>2, SetupBasics
  <2> QED
    BY <1>2, <1>21, <2>2, <2>3, <2>4 DEF PlacedInv
<1>24. LargerInv'
  <2>1. Fits(setup)' /\ ParitySlots(setup)' = P /\ Filled(setup)' = Filled(setup)
    BY <1>2
  <2>2. \A b \in P : \A s \in Placed : \A c \in StripeBlocks : stripes[s].ids[c] < larger'.ids[b]
    <3> SUFFICES ASSUME NEW b \in P, NEW s \in Placed, NEW c \in StripeBlocks
                 PROVE  stripes[s].ids[c] < larger'.ids[b]
      OBVIOUS
    <3>1. stripes[s].ids[c] \in 0 .. newBlock - 1
      BY <1>2 DEF PlacedInv, Working
    <3>2. larger'.ids[b] = newBlock + NumberOf(setup, b) /\ NumberOf(setup, b) \in 0 .. n - 1
      BY <1>7, <1>10
    <3> QED
      BY <1>1, <1>7, <3>1, <3>2
  <2>3. \A a, b \in P : larger'.ids[a] = larger'.ids[b] => a = b
    <3> SUFFICES ASSUME NEW a \in P, NEW b \in P, larger'.ids[a] = larger'.ids[b] PROVE a = b
      OBVIOUS
    <3>1. NumberOf(setup, a) \in 0 .. n - 1 /\ NumberOf(setup, b) \in 0 .. n - 1
      BY <1>7
    <3>2. newBlock + NumberOf(setup, a) = newBlock + NumberOf(setup, b)
      BY <1>10
    <3>3. NumberOf(setup, a) = NumberOf(setup, b)
      BY <1>1, <1>7, <3>1, <3>2
    <3> QED
      BY <1>7, <3>3
  <2>4. \A b \in Filled(setup) \ P : larger'.ids[b] = OldId(From(b))'
    BY <1>11, <1>21
  <2> QED
    BY <1>2, <1>4, <1>5, <1>20, <1>21, <2>1, <2>2, <2>3, <2>4 DEF LargerInv
<1>25. TrailInv'
  <2>1. DOMAIN moves' = {}
    BY <1>2 DEF PlacedInv, Working
  <2>2. Mergeable(setup)' => Slots \subseteq Filled(setup)
    BY <1>1, <1>2, Covered, SetupBasics DEF Mergeable, Vertical
  <2>3. ASSUME Mergeable(setup)' PROVE \A b \in Slots : larger'.nodes[b] = Home(b)'
    BY <1>13, <1>21, <2>2, <2>3
  <2> QED
    BY <1>21, <2>1, <2>3 DEF TrailInv
<1> QED
  BY <1>2, <1>22, <1>23, <1>24, <1>25

\* In a larger stripe of the merged code no two slots have one block.
LEMMA SlotIds ==
  ASSUME TypeInv, PlacedInv, LargerInv, step \in Underway, Mergeable(setup)
  PROVE  /\ \A b \in Slots : From(b) \in OldBlocks(setup) /\ Home(b) \in AllNodes
         /\ \A a, b \in Slots : larger.ids[a] = larger.ids[b] => a = b
         /\ \A b \in Slots : b \notin ParitySlots(setup) =>
              larger.ids[b] = OldId(From(b)) /\ From(b)[2] \in Kept(setup)
<1>1. /\ Fits(setup) /\ Slots \subseteq Filled(setup) /\ Len(group) = setup.x
      /\ step \in Working
  BY Covered, SetupBasics DEF LargerInv, PlacedInv, Working
<1>2. \A b \in Slots : From(b) \in OldBlocks(setup) /\ Home(b) \in AllNodes
  BY <1>1, Origins, SetupBasics, OldBlockFacts DEF From, Home
<1>3. \A b \in Slots \ ParitySlots(setup) :
        /\ Slot(setup, From(b)[1], From(b)[2]) = b
        /\ From(b)[2] \in Kept(setup)
  BY <1>1, Origins, SetupBasics DEF From
<1>4. \A b \in Slots \ ParitySlots(setup) : larger.ids[b] = OldId(From(b))
  BY <1>1 DEF LargerInv
<1>5. ASSUME NEW a \in Slots, NEW b \in Slots, larger.ids[a] = larger.ids[b] PROVE a = b
  <2>1. CASE a \in ParitySlots(setup) /\ b \in ParitySlots(setup)
    BY <1>5, <2>1 DEF LargerInv
  <2>2. CASE a \notin ParitySlots(setup) /\ b \notin ParitySlots(setup)
    <3>1. From(a) = From(b)
      BY <1>1, <1>2, <1>4, <1>5, <2>2, OldIdsDiffer
    <3> QED
      BY <1>3, <2>2, <3>1
  <2>3. \A p \in ParitySlots(setup) : \A q \in Slots \ ParitySlots(setup) :
          larger.ids[p] # larger.ids[q]
    <3> SUFFICES ASSUME NEW p \in ParitySlots(setup), NEW q \in Slots \ ParitySlots(setup)
                 PROVE  larger.ids[p] # larger.ids[q]
      OBVIOUS
    <3>1. /\ larger.ids[q] = stripes[From(q)[1]].ids[From(q)[2]]
          /\ From(q)[1] \in Placed /\ From(q)[2] \in StripeBlocks
          /\ larger.ids[q] \in 0 .. newBlock - 1
      BY <1>1, <1>2, <1>4, OldBlockFacts
    <3>2. larger.ids[q] < larger.ids[p]
      BY <3>1 DEF LargerInv
    <3> QED
      BY <3>1, <3>2
  <2> QED
    BY <1>5, <2>1, <2>2, <2>3
<1> QED
  BY <1>2, <1>3, <1>4, <1>5

----------------------------------------------------------------------------
(* Steps that keep most of the state.                                       *)

\* Nothing changes.
LEMMA Still ==
  ASSUME IInv, UNCHANGED vars
  PROVE  IInv'
<1>1. UNCHANGED <<setup, step, group, stripes, newStripe, newBlock, lucky, apart,
                  larger, made, reloc, moves, moved, disk>>
  BY DEF vars
<1>2. TypeInv'
  BY <1>1 DEF IInv, TypeInv, ToSet
<1>3. PlacedInv'
  BY <1>1 DEF IInv, PlacedInv, Placed, StripeBlocks
<1>4. LargerInv'
  BY <1>1 DEF IInv, LargerInv, Slots, New, Placed, StripeBlocks, From, OldId
<1>5. SearchInv'
  BY <1>1 DEF IInv, SearchInv, Slots, New, OnNode
<1>6. TrailInv'
  BY <1>1 DEF IInv, TrailInv, Slots, New, From, Home, OldNode, MovesOf
<1>7. DiskInv'
  BY <1>1 DEF IInv, DiskInv, Slots, New, From, Home, OldNode, MovesOf, Holders
<1> QED
  BY <1>2, <1>3, <1>4, <1>5, <1>6, <1>7 DEF IInv

\* Only the step and the search change.
LEMMA TypeFrame ==
  ASSUME TypeInv, step' \in Steps,
         UNCHANGED <<setup, tables, placement, moves, moved, disk>>
  PROVE  TypeInv'
BY DEF TypeInv, tables, placement, ToSet

\* The program may do anything: nothing is claimed any more.
LEMMA Stops ==
  ASSUME IInv, step' = "undefined",
         UNCHANGED <<setup, tables, placement, larger, made, reloc, moving>>
  PROVE  IInv'
<1>1. TypeInv'
  BY TypeFrame DEF IInv, moving, Steps
<1> QED
  BY <1>1 DEF IInv, PlacedInv, LargerInv, SearchInv, TrailInv, DiskInv, Working, Underway

\* The tables do not change.
LEMMA PlacedFrame ==
  ASSUME PlacedInv, step \in Underway, step' \in Underway, UNCHANGED <<setup, tables>>,
         step' \in Choosing => step \in Choosing /\ UNCHANGED <<disk, moved>>
  PROVE  PlacedInv'
<1>1. UNCHANGED <<setup, group, stripes, newStripe, newBlock>>
  BY DEF tables
<1>2. step # "place" /\ step' # "place"
  BY DEF Underway
<1>3. Placed' = Placed /\ StripeBlocks' = StripeBlocks
  BY <1>1 DEF Placed, StripeBlocks
<1>4. CASE step' \in Choosing
  <2>1. UNCHANGED <<disk, moved>>
    BY <1>4
  <2> QED
    BY <1>1, <1>2, <1>3, <1>4, <2>1 DEF PlacedInv, Working
<1>5. CASE step' \notin Choosing
  BY <1>1, <1>2, <1>3, <1>5 DEF PlacedInv, Working
<1> QED
  BY <1>4, <1>5

\* Only nodes of the larger stripe change.
LEMMA LargerFrame ==
  ASSUME LargerInv, step \in Underway, UNCHANGED <<setup, tables, made>>,
         DOMAIN larger' = DOMAIN larger,
         larger'.ids = larger.ids, larger'.nodes \in [Slots -> AllNodes]
  PROVE  LargerInv'
<1>1. UNCHANGED <<setup, group, stripes, newStripe, newBlock, made>>
  BY DEF tables
<1>2. /\ Placed' = Placed /\ StripeBlocks' = StripeBlocks /\ Slots' = Slots
      /\ \A b : OldId(From(b))' = OldId(From(b))
  BY <1>1 DEF Placed, StripeBlocks, Slots, New, OldId, From
<1> QED
  BY <1>1, <1>2 DEF LargerInv

\* Neither the larger stripe nor the plan changes.
LEMMA TrailFrame ==
  ASSUME TrailInv, step \in Underway, UNCHANGED <<setup, tables, larger, moves>>
  PROVE  TrailInv'
<1>1. UNCHANGED <<setup, group, stripes, newStripe, newBlock, larger, moves>>
  BY DEF tables
<1>2. /\ Slots' = Slots
      /\ \A b : Home(b)' = Home(b) /\ MovesOf(b)' = MovesOf(b)
  BY <1>1 DEF Slots, New, OldNode, From, Home, MovesOf
<1>3. Mergeable(setup)' <=> Mergeable(setup)
  BY <1>1
<1> QED
  BY <1>1, <1>2, <1>3 DEF TrailInv

\* Only the step and the search change, before the moves begin.
LEMMA Frame ==
  ASSUME IInv, step \in {"count", "relieve", "part"}, step' \in {"count", "relieve", "part"},
         UNCHANGED <<setup, tables, placement, larger, made, moving>>
  PROVE  TypeInv' /\ PlacedInv' /\ LargerInv' /\ TrailInv' /\ DiskInv'
<1>1. step \in Underway /\ step' \in Underway /\ step \in Choosing /\ step' \in Steps
  BY DEF Underway, Choosing, Steps
<1>2. UNCHANGED <<moves, moved, disk, larger, made>>
  BY DEF moving
<1>3. TypeInv'
  BY <1>1, <1>2, TypeFrame DEF IInv
<1>4. PlacedInv'
  BY <1>1, <1>2, PlacedFrame DEF IInv
<1>5. LargerInv'
  <2>1. larger.nodes \in [Slots -> AllNodes]
    BY <1>1 DEF IInv, LargerInv
  <2> QED
    BY <1>1, <1>2, <2>1, LargerFrame DEF IInv
<1>6. TrailInv'
  BY <1>1, <1>2, TrailFrame DEF IInv
<1>7. DiskInv'
  BY DEF DiskInv
<1> QED
  BY <1>3, <1>4, <1>5, <1>6, <1>7

\* A batch gets nodes: what a step does that moves blocks.
LEMMA TrailStep ==
  ASSUME IInv, step \in {"relieve", "part"}, step' = step,
         UNCHANGED <<setup, tables, placement, made, moved, disk>>,
         NEW slots \in Seq(Slots), NEW node \in [1 .. Len(slots) -> AllNodes],
         DOMAIN larger' = DOMAIN larger,
         larger'.ids = larger.ids, larger'.nodes \in [Slots -> AllNodes],
         \A b \in Slots : (\A j \in 1 .. Len(slots) : slots[j] # b) =>
           larger'.nodes[b] = larger.nodes[b],
         \A j \in 1 .. Len(slots) : (\A k \in 1 .. Len(slots) : slots[k] = slots[j] => k = j) =>
           larger'.nodes[slots[j]] = node[j],
         DOMAIN moves' = 1 .. Len(moves) + Len(slots),
         moves' \in Seq([block : 0 .. newBlock - 1, from : AllNodes, to : AllNodes]),
         \A i \in 1 .. Len(moves) : moves'[i] = moves[i],
         \A j \in 1 .. Len(slots) : moves'[Len(moves) + j] =
           [block |-> larger.ids[slots[j]], from |-> larger.nodes[slots[j]], to |-> node[j]]
  PROVE  TypeInv' /\ PlacedInv' /\ LargerInv' /\ TrailInv' /\ DiskInv'
<1>1. /\ step \in Underway /\ step' \in Underway /\ step \in Choosing /\ step' \in Steps
      /\ step \in Working
  BY DEF Underway, Choosing, Steps, Working
<1>2. TypeInv /\ PlacedInv /\ LargerInv /\ TrailInv
  BY DEF IInv
<1>3. UNCHANGED <<setup, group, stripes, newStripe, newBlock, lucky, apart>>
  BY DEF tables, placement
<1>4. DOMAIN moves = 1 .. Len(moves) /\ Len(moves) \in Nat /\ Len(slots) \in Nat
  BY <1>2, LenProperties DEF TypeInv
<1>5. TypeInv'
  <2>1. DOMAIN moved' \subseteq DOMAIN moves'
    BY <1>1, <1>2, <1>4 DEF TypeInv
  <2>2. ToSet(group)' = ToSet(group) /\ \A i : ToSet(stripes[i].nodes)' = ToSet(stripes[i].nodes)
    BY <1>3 DEF ToSet
  <2> QED
    BY <1>1, <1>2, <1>3, <2>1, <2>2 DEF TypeInv
<1>6. PlacedInv'
  BY <1>1, <1>2, PlacedFrame
<1>7. LargerInv'
  BY <1>1, <1>2, LargerFrame
<1>8. ASSUME Mergeable(setup), NEW b \in Slots
      PROVE  /\ MovesOf(b)' = {} => larger'.nodes[b] = Home(b)
             /\ \A i \in DOMAIN moves' :
                  MovesOf(b)' = {i} => moves'[i].from = Home(b) /\ moves'[i].to = larger'.nodes[b]
  <2>1. \A a \in Slots : larger.ids[a] = larger.ids[b] => a = b
    BY <1>1, <1>2, <1>8, SlotIds
  <2>2. /\ MovesOf(b) = {} => larger.nodes[b] = Home(b)
        /\ \A i \in DOMAIN moves :
             MovesOf(b) = {i} => moves[i].from = Home(b) /\ moves[i].to = larger.nodes[b]
    BY <1>1, <1>2, <1>8 DEF TrailInv
  <2>3. MovesOf(b)' = {i \in DOMAIN moves' : moves'[i].block = larger.ids[b]}
    BY DEF MovesOf
  <2>4. \A j \in 1 .. Len(slots) : slots[j] \in Slots
    BY <1>4, ElementOfSeq
  <2>5. \A j \in 1 .. Len(slots) : /\ Len(moves) + j \in DOMAIN moves'
                                   /\ Len(moves) + j \notin DOMAIN moves
    BY <1>4
  <2>6. \A j \in 1 .. Len(slots) : moves'[Len(moves) + j].block = larger.ids[b] <=> slots[j] = b
    <3> SUFFICES ASSUME NEW j \in 1 .. Len(slots)
                 PROVE  moves'[Len(moves) + j].block = larger.ids[b] <=> slots[j] = b
      OBVIOUS
    <3>1. moves'[Len(moves) + j] =
            [block |-> larger.ids[slots[j]], from |-> larger.nodes[slots[j]], to |-> node[j]]
      OBVIOUS
    <3>2. moves'[Len(moves) + j].block = larger.ids[slots[j]]
      BY <3>1
    <3> QED
      BY <2>1, <2>4, <3>2
  <2>7. CASE \A j \in 1 .. Len(slots) : slots[j] # b
    <3>1. larger'.nodes[b] = larger.nodes[b]
      BY <2>7
    <3>2. MovesOf(b)' = MovesOf(b)
      <4>1. ASSUME NEW i \in DOMAIN moves' PROVE i \in MovesOf(b)' <=> i \in MovesOf(b)
        <5>1. CASE i \in 1 .. Len(moves)
          BY <1>4, <2>3, <5>1 DEF MovesOf
        <5>2. CASE i \notin 1 .. Len(moves)
          <6>1. PICK j \in 1 .. Len(slots) : i = Len(moves) + j
            <7>1. i - Len(moves) \in 1 .. Len(slots) /\ i = Len(moves) + (i - Len(moves))
              BY <1>4, <5>2
            <7> QED
              BY <7>1
          <6>2. moves'[i].block # larger.ids[b]
            BY <2>6, <2>7, <6>1
          <6> QED
            BY <1>4, <2>3, <5>2, <6>2 DEF MovesOf
        <5> QED
          BY <5>1, <5>2
      <4>2. MovesOf(b) \subseteq DOMAIN moves'
        BY <1>4 DEF MovesOf
      <4> QED
        BY <2>3, <4>1, <4>2
    <3>3. \A i \in MovesOf(b) : i \in DOMAIN moves /\ moves'[i] = moves[i]
      BY <1>4 DEF MovesOf
    <3>4. ASSUME NEW i \in DOMAIN moves', MovesOf(b)' = {i}
          PROVE  moves'[i].from = Home(b) /\ moves'[i].to = larger'.nodes[b]
      <4>1. MovesOf(b) = {i} /\ i \in DOMAIN moves /\ moves'[i] = moves[i]
        BY <3>2, <3>3, <3>4
      <4>2. moves[i].from = Home(b) /\ moves[i].to = larger.nodes[b]
        BY <2>2, <4>1
      <4> QED
        BY <3>1, <4>1, <4>2
    <3>5. MovesOf(b)' = {} => larger'.nodes[b] = Home(b)
      BY <2>2, <3>1, <3>2
    <3> QED
      BY <3>4, <3>5
  <2>8. CASE \E j \in 1 .. Len(slots) : slots[j] = b
    <3>1. PICK j \in 1 .. Len(slots) : slots[j] = b
      BY <2>8
    <3>2. Len(moves) + j \in MovesOf(b)'
      BY <2>3, <2>5, <2>6, <3>1
    <3>3. ASSUME NEW i \in DOMAIN moves', MovesOf(b)' = {i}
          PROVE  moves'[i].from = Home(b) /\ moves'[i].to = larger'.nodes[b]
      <4>1. i = Len(moves) + j
        BY <3>2, <3>3
      <4>2. \A k \in 1 .. Len(slots) : slots[k] = b => k = j
        <5> SUFFICES ASSUME NEW k \in 1 .. Len(slots), slots[k] = b PROVE k = j
          OBVIOUS
        <5>1. Len(moves) + k \in MovesOf(b)'
          BY <2>3, <2>5, <2>6
        <5>2. Len(moves) + k = Len(moves) + j
          BY <3>3, <4>1, <5>1
        <5> QED
          BY <1>4, <5>2
      <4>3. larger'.nodes[b] = node[j]
        BY <3>1, <4>2
      <4>4. MovesOf(b) = {}
        <5> SUFFICES ASSUME NEW k \in MovesOf(b) PROVE FALSE
          OBVIOUS
        <5>1. k \in 1 .. Len(moves) /\ moves[k].block = larger.ids[b]
          BY <1>4 DEF MovesOf
        <5>2. k \in DOMAIN moves' /\ moves'[k].block = larger.ids[b]
          BY <1>4, <5>1
        <5>3. k \in MovesOf(b)'
          BY <2>3, <5>2
        <5> QED
          BY <1>4, <3>3, <4>1, <5>1, <5>3
      <4>5. larger.nodes[b] = Home(b)
        BY <2>2, <4>4
      <4>6. moves'[i] = [block |-> larger.ids[b], from |-> larger.nodes[b], to |-> node[j]]
        BY <3>1, <4>1
      <4> QED
        BY <4>3, <4>5, <4>6
    <3> QED
      BY <3>2, <3>3
  <2> QED
    BY <2>7, <2>8
<1>9. TrailInv'
  <2>1. Slots' = Slots /\ \A b : Home(b)' = Home(b)
    BY <1>3 DEF Slots, New, OldNode, From, Home
  <2>2. Mergeable(setup)' <=> Mergeable(setup)
    BY <1>3
  <2> QED
    BY <1>8, <2>1, <2>2 DEF TrailInv
<1>10. DiskInv'
  BY DEF DiskInv
<1> QED
  BY <1>5, <1>6, <1>7, <1>9, <1>10

----------------------------------------------------------------------------
(* The search for blocks to move.                                           *)

\* The slots in a cluster are slots.
LEMMA SlotsInSeq ==
  ASSUME TypeInv, NEW nodes \in [Slots -> AllNodes], NEW c
  PROVE  SlotsIn(nodes, c) \in Seq(Slots) /\ Len(SlotsIn(nodes, c)) \in Nat
<1> DEFINE S == {b \in DOMAIN nodes : ClusterOf(nodes[b]) = c}
<1>1. S \subseteq Slots /\ IsFiniteSet(S) /\ S \subseteq Int
  BY SetupBasics, FS_Subset
<1>2. Ordered(S) \in Seq(S)
  BY <1>1, OrderedSeq
<1>3. Ordered(S) \in Seq(Slots)
  BY <1>1, <1>2, SeqMonotonic
<1> QED
  BY <1>3, LenProperties DEF SlotsIn

\* The search begins with the clusters in use, each one once.
LEMMA CountBlocksKeeps ==
  ASSUME IInv, CountBlocks
  PROVE  IInv'
<1> DEFINE used == {ClusterOf(larger.nodes[b]) : b \in DOMAIN larger.nodes}
           counts == [c \in used |-> Len(SlotsIn(larger.nodes, c))]
           n == Cardinality(used)
<1>1. /\ step = "count" /\ step' = "relieve"
      /\ UNCHANGED <<setup, tables, placement, larger, made, moving>>
  BY DEF CountBlocks
<1>2. larger.nodes \in [Slots -> AllNodes] /\ TypeInv
  BY <1>1 DEF IInv, LargerInv, Underway
<1>3. used \subseteq Clusters /\ Clusters \subseteq Nat
  BY <1>2, ClusterOfNode DEF Clusters
<1>4. IsFiniteSet(used) /\ n \in Nat
  BY <1>3, Nodes, FS_Subset, FS_CardinalityType
<1>5. \A c \in used : counts[c] \in Nat /\ SlotsIn(larger.nodes, c) \in Seq(Slots)
  BY <1>2, SlotsInSeq
<1> HIDE DEF used
<1>6. PICK up \in BOOLEAN :
        reloc' = [NoReloc EXCEPT
            !.order  = InOrder(used, LAMBDA c, d :
                         \/ counts[c] > counts[d]
                         \/ counts[c] = counts[d] /\ (IF up THEN c < d ELSE d < c)),
            !.counts = counts,
            !.blocks = [c \in used |-> SlotsIn(larger.nodes, c)],
            !.free   = Clusters \ used]
  BY DEF CountBlocks, used
<1> HIDE DEF counts, n
<1> DEFINE Ahead(y, x) == \/ counts[y] > counts[x]
                          \/ counts[y] = counts[x] /\ (IF up THEN y < x ELSE x < y)
           R == {p \in used \X used : Ahead(p[1], p[2])}
           At(i) == CHOOSE x \in used : Cardinality({y \in used :
                         \/ counts[y] > counts[x]
                         \/ counts[y] = counts[x] /\ (IF up THEN y < x ELSE x < y)}) = i - 1
<1>7. \A x, y \in used : <<y, x>> \in R <=> Ahead(y, x)
  OBVIOUS
<1> HIDE DEF R, Ahead
<1>8. Orders(R, used)
  <2>1. \A x \in used : counts[x] \in Nat /\ x \in Nat
    BY <1>3, <1>5
  <2>2. \A x \in used : <<x, x>> \notin R
    BY <1>7, <2>1 DEF Ahead
  <2>3. ASSUME NEW x \in used, NEW y \in used, NEW z \in used, <<x, y>> \in R, <<y, z>> \in R
        PROVE  <<x, z>> \in R
    <3>0. PICK a \in Nat, b \in Nat, c \in Nat :
            a = counts[x] /\ b = counts[y] /\ c = counts[z]
      BY <2>1
    <3>1. x \in Nat /\ y \in Nat /\ z \in Nat
      BY <2>1
    <3>2. /\ a > b \/ (a = b /\ (IF up THEN x < y ELSE y < x))
          /\ b > c \/ (b = c /\ (IF up THEN y < z ELSE z < y))
      <4>1. Ahead(x, y) /\ Ahead(y, z)
        BY <1>7, <2>3
      <4> QED
        BY <3>0, <4>1 DEF Ahead
    <3>3. a > c \/ (a = c /\ (IF up THEN x < z ELSE z < x))
      BY ONLY <3>1, <3>2, up \in BOOLEAN
    <3>4. Ahead(x, z)
      BY <3>0, <3>3 DEF Ahead
    <3> QED
      BY <1>7, <3>4
  <2>4. \A x, y \in used : x = y \/ <<x, y>> \in R \/ <<y, x>> \in R
    <3> SUFFICES ASSUME NEW x \in used, NEW y \in used
                 PROVE  x = y \/ <<x, y>> \in R \/ <<y, x>> \in R
      OBVIOUS
    <3>0. PICK a \in Nat, b \in Nat : a = counts[x] /\ b = counts[y]
      BY <2>1
    <3>1. x \in Nat /\ y \in Nat
      BY <2>1
    <3>2. a > b \/ b > a \/ (a = b /\ b = a)
      OBVIOUS
    <3>3. x = y \/ x < y \/ y < x
      BY <3>1
    <3>4. x = y \/ Ahead(x, y) \/ Ahead(y, x)
      BY <3>0, <3>2, <3>3 DEF Ahead
    <3> QED
      BY <1>7, <3>4
  <2> QED
    BY <2>2, <2>3, <2>4 DEF Orders
<1>9. ASSUME NEW i \in 1 .. n PROVE At(i) \in used
  <2>1. PICK x \in used : Cardinality(Before(R, used, x)) = i - 1
    BY <1>4, <1>8, Ranking DEF n
  <2>2. Before(R, used, x) = {y \in used :
                         \/ counts[y] > counts[x]
                         \/ counts[y] = counts[x] /\ (IF up THEN y < x ELSE x < y)}
    BY <1>7 DEF Before, Ahead
  <2> QED
    BY <2>1, <2>2
<1>10. reloc'.order = [i \in 1 .. n |-> At(i)]
  BY <1>6 DEF InOrder, n, NoReloc
<1> HIDE DEF At
<1>11. reloc'.order \in Seq(used)
  <2>1. reloc'.order \in [1 .. n -> used]
    BY <1>9, <1>10
  <2> QED
    BY <1>4, <2>1, SeqDef
<1>12. /\ reloc'.at = 1 /\ reloc'.blocks = [c \in used |-> SlotsIn(larger.nodes, c)]
       /\ reloc'.rest = <<>> /\ reloc'.free = Clusters \ used
       /\ DOMAIN reloc' = DOMAIN NoReloc
  BY <1>6 DEF NoReloc
<1>13. SearchInv'
  <2>1. Slots' = Slots
    BY <1>1 DEF Slots, New
  <2>2. DOMAIN reloc'.blocks = used /\ \A c \in used : reloc'.blocks[c] \in Seq(Slots)
    BY <1>5, <1>12
  <2>3. reloc'.rest \in Seq(Seq(Slots))
    BY <1>12, EmptySeq
  <2> QED
    <3>1. reloc'.order \in Seq(DOMAIN reloc'.blocks) /\ reloc'.free \subseteq Clusters
      BY <1>11, <1>12, <2>2
    <3>2. (DOMAIN NoReloc)' = DOMAIN NoReloc
      BY DEF NoReloc
    <3>3. DOMAIN reloc'.blocks \subseteq Clusters /\ reloc'.at \in Nat \ {0}
      BY <1>3, <1>12, <2>2
    <3>4. \A c \in DOMAIN reloc'.blocks : reloc'.blocks[c] \in Seq(Slots')
      BY <2>1, <2>2
    <3> QED
      BY <1>1, <1>12, <2>1, <2>2, <2>3, <3>1, <3>2, <3>3, <3>4 DEF SearchInv
<1> QED
  BY <1>1, <1>13, Frame DEF IInv

\* A cluster that needs no relief changes nothing.
LEMMA NextClusterKeeps ==
  ASSUME IInv, NextCluster
  PROVE  IInv'
<1>1. /\ step = "relieve" /\ step' = "relieve" /\ reloc' = [reloc EXCEPT !.at = @ + 1]
      /\ UNCHANGED <<setup, tables, placement, larger, made, moving>>
  BY DEF NextCluster, Relieving
<1>2. SearchInv'
  BY <1>1 DEF IInv, SearchInv, Slots, New
<1> QED
  BY <1>1, <1>2, Frame DEF IInv

\* The relief ends.
LEMMA EndReliefKeeps ==
  ASSUME IInv, EndRelief
  PROVE  IInv'
<1>1. /\ step = "relieve" /\ step' = "part" /\ reloc' = [reloc EXCEPT !.look = 0]
      /\ UNCHANGED <<setup, tables, placement, larger, made, moving>>
  BY DEF EndRelief
<1>2. DOMAIN reloc' = DOMAIN NoReloc /\ reloc'.look = 0
  BY <1>1 DEF IInv, SearchInv, NoReloc
<1>3. Slots' = Slots /\ Slots \subseteq Nat
  BY <1>1, SetupBasics DEF Slots, New, IInv
<1>4. SearchInv'
  BY <1>1, <1>2, <1>3 DEF SearchInv, NoReloc
<1> QED
  BY <1>1, <1>4, Frame DEF IInv

\* A set of slots makes a batch.
LEMMA SubBatch ==
  ASSUME TypeInv, NEW S \in SUBSET Slots
  PROVE  Ordered(S) \in Seq(Slots)
<1>1. IsFiniteSet(S) /\ S \subseteq Int
  BY SetupBasics, FS_Subset
<1>2. Ordered(S) \in Seq(S)
  BY <1>1, OrderedSeq
<1> QED
  BY <1>2, SeqMonotonic

\* The slots of a batch are slots.
LEMMA ToSetSlots ==
  ASSUME NEW s \in Seq(Slots)
  PROVE  ToSet(s) \subseteq Slots
BY LenProperties DEF ToSet

\* The groups of a cluster's blocks: their numbers, and the blocks of each.
LEMMA GroupsOf ==
  ASSUME TypeInv, New.type # "RS", New.type \notin PcTypes, NEW s \in Seq(Slots)
  PROVE  /\ IsFiniteSet(DOMAIN GroupBlocks(New, s)) /\ DOMAIN GroupBlocks(New, s) \subseteq Int
         /\ \A i \in DOMAIN GroupBlocks(New, s) : GroupBlocks(New, s)[i] \in Seq(Slots)
<1> DEFINE T == ToSet(s)
           G == {bid2gid(New, b) : b \in T}
           f == [b \in T |-> bid2gid(New, b)]
<1>1. T \subseteq Slots /\ IsFiniteSet(T) /\ Slots \subseteq Nat
  BY ToSetSlots, SetupBasics, FS_Subset
<1>2. New \in LrCodes
  BY SetupBasics DEF AllCodes, RsCodes, PcCodes
<1>3. /\ New.k \in Nat /\ New.k > 0 /\ New.l \in Nat /\ New.l > 0 /\ New.g \in Nat
      /\ New.type = "AZURE_LRC"
  BY <1>2 DEF LrCodes, Pos
<1>4. r(New) \in Pos
  <2>1. r(New) = (New.k + New.l - 1) \div New.l
    BY <1>3 DEF r, DividedUp
  <2>2. PICK a \in Nat : a = New.k + New.l - 1 /\ a >= New.l
    BY <1>3
  <2>3. New.l \in Pos
    BY <1>3 DEF Pos
  <2>4. /\ a \div New.l \in Nat /\ (a % New.l) < New.l /\ (a % New.l) \in Nat
        /\ a = (a \div New.l) * New.l + (a % New.l)
    <3>1. PICK k \in Pos : k = New.l
      BY <2>3
    <3>2. a \div k \in Nat /\ a % k \in 0 .. k - 1 /\ a = (a \div k) * k + (a % k)
      BY DivMod
    <3> QED
      BY <1>3, <3>1, <3>2
  <2>5. a \div New.l # 0
    <3> SUFFICES ASSUME a \div New.l = 0 PROVE FALSE
      OBVIOUS
    <3>1. a = a % New.l
      BY <1>3, <2>4
    <3> QED
      BY <1>3, <2>2, <2>4, <3>1
  <2> QED
    BY <2>1, <2>2, <2>4, <2>5 DEF Pos
<1>5. ASSUME NEW b \in T PROVE bid2gid(New, b) \in Int
  <2>1. b \in Nat
    BY <1>1
  <2>2. bid2gid(New, b) = AzuBid2gid(New, b)
    BY <1>3 DEF bid2gid
  <2>3. b \div r(New) \in Int /\ New.l \in Int /\ b - New.k - New.g \in Int
    <3>1. PICK k \in Pos : k = r(New)
      BY <1>4
    <3>2. b \div k \in Nat
      BY <2>1, DivMod
    <3> QED
      BY <1>3, <2>1, <3>1, <3>2
  <2>4. AzuBid2gid(New, b) \in {b \div r(New), New.l, b - New.k - New.g}
    BY <1>3, <2>1 DEF AzuBid2gid, Data, Globals
  <2> QED
    BY <2>2, <2>3, <2>4
<1>6. f \in Surjection(T, G)
  BY DEF Surjection
<1>7. IsFiniteSet(G) /\ G \subseteq Int
  BY <1>1, <1>5, <1>6, FS_Surjection
<1>8. DOMAIN GroupBlocks(New, s) = G
  BY DEF GroupBlocks
<1>9. ASSUME NEW i \in G PROVE GroupBlocks(New, s)[i] \in Seq(Slots)
  <2>1. GroupBlocks(New, s)[i] = Ordered({b \in T : bid2gid(New, b) = i})
    BY <1>9 DEF GroupBlocks
  <2>2. {b \in T : bid2gid(New, b) = i} \in SUBSET Slots
    BY <1>1
  <2> QED
    BY <2>1, <2>2, SubBatch
<1> QED
  BY <1>7, <1>8, <1>9

\* The batches of local groups hold slots.
LEMMA GroupBatchesSeq ==
  ASSUME TypeInv, New.type # "RS", New.type \notin PcTypes, NEW s \in Seq(Slots),
         NEW up \in BOOLEAN
  PROVE  GroupBatches(s, up) \in Seq(Seq(Slots))
<1> DEFINE groups == GroupBlocks(New, s)
           order  == Ordered(DOMAIN groups)
           way    == IF up THEN order ELSE Reverse(order)
<1>1. order \in Seq(DOMAIN groups)
  BY GroupsOf, OrderedSeq
<1> HIDE DEF order
<1>2. way \in Seq(DOMAIN groups) /\ Len(way) = Len(order)
  BY <1>1, ReverseSeq
<1> HIDE DEF way
<1>3. DOMAIN order = 1 .. Len(way) /\ Len(way) \in Nat /\ way \in [1 .. Len(way) -> DOMAIN groups]
  BY <1>1, <1>2, LenProperties
<1>4. GroupBatches(s, up) = [i \in DOMAIN order |-> groups[way[i]]]
  BY DEF GroupBatches, order, way
<1>5. \A i \in DOMAIN order : groups[way[i]] \in Seq(Slots)
  BY <1>3, GroupsOf
<1> HIDE DEF groups
<1>6. GroupBatches(s, up) \in [1 .. Len(way) -> Seq(Slots)]
  BY <1>3, <1>4, <1>5
<1> QED
  BY <1>3, <1>6, SeqDef

\* The batches of columns hold slots, also where a column is looked up in vain.
LEMMA ColumnBatchesSeq ==
  ASSUME TypeInv, New.type \in PcTypes, NEW s \in Seq(Slots)
  PROVE  ColumnBatches(s) \in Seq(Seq(Slots))
<1> DEFINE T      == ToSet(s)
           cols   == ColumnBlocks(New, s)
           In(j)  == IF j \in DOMAIN cols THEN cols[j] ELSE <<>>
           n      == Cardinality(0 .. Cardinality(DOMAIN cols) - 1)
           sorted == InOrder(0 .. Cardinality(DOMAIN cols) - 1, LAMBDA i, j :
                       \/ Len(In(i)) > Len(In(j))
                       \/ Len(In(i)) = Len(In(j)) /\ i < j)
           leave  == Reverse(SubSeq(sorted, New.m1 + 1, Len(sorted)))
<1>1. T \subseteq Slots /\ IsFiniteSet(T)
  BY ToSetSlots, SetupBasics, FS_Subset
<1>2. \A j \in DOMAIN cols : cols[j] \in Seq(Slots)
  <2> SUFFICES ASSUME NEW j \in DOMAIN cols PROVE cols[j] \in Seq(Slots)
    OBVIOUS
  <2>1. cols[j] = Ordered({b \in T : bid2rowcol(New, b)[2] = j})
    BY DEF ColumnBlocks
  <2>2. {b \in T : bid2rowcol(New, b)[2] = j} \in SUBSET Slots
    BY <1>1
  <2> QED
    BY <2>1, <2>2, SubBatch
<1>3. \A j : In(j) \in Seq(Slots)
  BY <1>2, EmptySeq
<1>4. n \in Nat
  <2>1. DOMAIN cols = {bid2rowcol(New, b)[2] : b \in T}
    BY DEF ColumnBlocks
  <2> DEFINE f == [b \in T |-> bid2rowcol(New, b)[2]]
  <2>2. f \in Surjection(T, DOMAIN cols)
    BY <2>1 DEF Surjection
  <2>3. IsFiniteSet(DOMAIN cols)
    BY <1>1, <2>2, FS_Surjection
  <2>4. Cardinality(DOMAIN cols) \in Nat
    BY <2>3, FS_CardinalityType
  <2> QED
    BY <2>4, Intervals
<1>5. DOMAIN sorted = 1 .. n
  BY DEF InOrder
<1>6. ColumnBatches(s) = [i \in DOMAIN leave |-> In(leave[i])]
  BY DEF ColumnBatches
<1> HIDE DEF cols, In, n
<1>7. PICK S : S = {sorted[i] : i \in 1 .. n}
  OBVIOUS
<1>8. sorted \in [1 .. n -> S]
  BY <1>5, <1>7 DEF InOrder, n
<1> HIDE DEF sorted
<1>9. sorted \in Seq(S) /\ Len(sorted) \in Nat /\ DOMAIN sorted = 1 .. Len(sorted)
  <2>1. sorted \in Seq(S)
    BY <1>4, <1>8, SeqDef
  <2> QED
    BY <2>1, LenProperties
<1>10. New.m1 + 1 \in Nat
  <2>1. New \in PcCodes
    BY SetupBasics DEF AllCodes, RsCodes, LrCodes, PcTypes
  <2> QED
    BY <2>1, PcParts
<1>11. SubSeq(sorted, New.m1 + 1, Len(sorted)) \in Seq(S)
  <2>1. New.m1 + 1 \in Int /\ Len(sorted) \in Int
    BY <1>9, <1>10
  <2>2. \A i \in New.m1 + 1 .. Len(sorted) : sorted[i] \in S
    <3> SUFFICES ASSUME NEW i \in New.m1 + 1 .. Len(sorted) PROVE sorted[i] \in S
      OBVIOUS
    <3>1. New.m1 \in Nat
      BY SetupBasics, PcParts DEF AllCodes, RsCodes, LrCodes, PcTypes
    <3>2. i \in 1 .. Len(sorted)
      BY <1>9, <3>1
    <3> QED
      BY <1>9, <3>2, ElementOfSeq
  <2> QED
    BY <2>1, <2>2, SubSeqProperties
<1>12. leave \in Seq(S)
  BY <1>11, ReverseSeq
<1> HIDE DEF leave
<1>13. DOMAIN leave = 1 .. Len(leave) /\ Len(leave) \in Nat
  BY <1>12, LenProperties
<1>14. ColumnBatches(s) \in [1 .. Len(leave) -> Seq(Slots)]
  BY <1>3, <1>6, <1>13
<1> QED
  BY <1>13, <1>14, SeqDef

\* The cluster that is relieved has slots of the larger stripe.
LEMMA CrowdedBlocks ==
  ASSUME SearchInv, Relieving
  PROVE  Crowded \in DOMAIN reloc.blocks /\ reloc.blocks[Crowded] \in Seq(Slots)
<1>1. step = "relieve" /\ reloc.at \in 1 .. Len(reloc.order)
  BY LenProperties DEF Relieving, SearchInv
<1>2. reloc.order[reloc.at] \in DOMAIN reloc.blocks
  BY <1>1, ElementOfSeq DEF SearchInv
<1> QED
  BY <1>1, <1>2 DEF Crowded, SearchInv

\* Batches of slots are made.
LEMMA MakeBatchesKeeps ==
  ASSUME IInv, MakeBatches
  PROVE  IInv'
<1>1. PICK up \in BOOLEAN :
        reloc' = [reloc EXCEPT !.treated = 0, !.cnt = 0,
         !.rest = IF New.type \in PcTypes THEN ColumnBatches(reloc.blocks[Crowded])
                  ELSE GroupBatches(reloc.blocks[Crowded], up)]
  BY DEF MakeBatches
<1>2. /\ step = "relieve" /\ step' = "relieve" /\ Relieving /\ New.type # "RS"
      /\ UNCHANGED <<setup, tables, placement, larger, made, moving>>
  BY DEF MakeBatches, Relieving
<1>3. reloc.blocks[Crowded] \in Seq(Slots) /\ TypeInv
  BY <1>2, CrowdedBlocks DEF IInv
<1>4. reloc'.rest \in Seq(Seq(Slots))
  <2>1. CASE New.type \in PcTypes
    BY <1>1, <1>3, <2>1, ColumnBatchesSeq DEF IInv, SearchInv
  <2>2. CASE New.type \notin PcTypes
    BY <1>1, <1>2, <1>3, <2>2, GroupBatchesSeq DEF IInv, SearchInv
  <2> QED
    BY <2>1, <2>2
<1>5. /\ reloc'.order = reloc.order /\ reloc'.at = reloc.at /\ reloc'.blocks = reloc.blocks
      /\ reloc'.free = reloc.free /\ DOMAIN reloc' = DOMAIN NoReloc
  BY <1>1, <1>2 DEF IInv, SearchInv, NoReloc
<1>6. SearchInv'
  BY <1>2, <1>4, <1>5 DEF IInv, SearchInv, Slots, New
<1> QED
  BY <1>2, <1>6, Frame DEF IInv

\* Slots that get free nodes.
LEMMA MoveToKeeps ==
  ASSUME IInv, step = "relieve", step' = step,
         UNCHANGED <<setup, tables, placement, made, moved, disk>>,
         NEW slots \in Seq(Slots), NEW free \in SUBSET AllNodes, MoveTo(slots, free)
  PROVE  TypeInv' /\ PlacedInv' /\ LargerInv' /\ TrailInv' /\ DiskInv'
<1>1. /\ DOMAIN larger = {"ids", "nodes"} /\ larger.ids \in [Slots -> 0 .. newBlock - 1]
      /\ larger.nodes \in [Slots -> AllNodes]
  BY DEF IInv, LargerInv, Underway
<1>2. PICK to \in kSubset(Len(slots), free) :
        /\ larger' = [larger EXCEPT !.nodes = [b \in DOMAIN @ |->
             IF b \in ToSet(slots)
             THEN Ordered(to)[CHOOSE j \in DOMAIN slots : slots[j] = b] ELSE @[b]]]
        /\ moves' = moves \o [j \in DOMAIN slots |->
             [block |-> larger.ids[slots[j]], from |-> larger.nodes[slots[j]],
              to |-> Ordered(to)[j]]]
  BY DEF MoveTo
<1> DEFINE node == Ordered(to)
           At(b) == CHOOSE j \in DOMAIN slots : slots[j] = b
           Rec == [block : 0 .. newBlock - 1, from : AllNodes, to : AllNodes]
           new == [j \in DOMAIN slots |->
             [block |-> larger.ids[slots[j]], from |-> larger.nodes[slots[j]], to |-> node[j]]]
           n == Len(slots)
<1>3. n \in Nat /\ DOMAIN slots = 1 .. n /\ \A j \in 1 .. n : slots[j] \in Slots
  BY LenProperties
<1>4. node \in [1 .. n -> AllNodes]
  <2>1. to \subseteq AllNodes /\ Cardinality(to) = n
    BY DEF kSubset
  <2>2. IsFiniteSet(to) /\ to \subseteq Int
    <3>1. IsFiniteSet(to)
      BY <2>1, Nodes, FS_Subset
    <3>2. AllNodes \subseteq Int
      BY DEF AllNodes
    <3> QED
      BY <2>1, <3>1, <3>2
  <2>3. node \in Seq(to) /\ DOMAIN node = 1 .. n
    BY <2>1, <2>2, OrderedSeq
  <2> QED
    BY <2>1, <2>3
<1> HIDE DEF node
<1>5. /\ larger' = [larger EXCEPT !.nodes = [b \in DOMAIN larger.nodes |->
             IF b \in ToSet(slots) THEN node[At(b)] ELSE larger.nodes[b]]]
      /\ moves' = moves \o new
  BY <1>2 DEF node
<1>6. \A b \in ToSet(slots) : At(b) \in 1 .. n /\ slots[At(b)] = b
  BY <1>3 DEF ToSet
<1> HIDE DEF At
<1>7. /\ larger'.ids = larger.ids /\ DOMAIN larger' = DOMAIN larger
      /\ larger'.nodes = [b \in Slots |-> IF b \in ToSet(slots) THEN node[At(b)] ELSE larger.nodes[b]]
  BY <1>1, <1>5
<1>8. larger'.nodes \in [Slots -> AllNodes]
  BY <1>1, <1>4, <1>6, <1>7
<1>9. ASSUME NEW b \in Slots, \A j \in 1 .. n : slots[j] # b
      PROVE  larger'.nodes[b] = larger.nodes[b]
  <2>1. b \notin ToSet(slots)
    BY <1>3, <1>9 DEF ToSet
  <2> QED
    BY <1>7, <2>1
<1>10. ASSUME NEW j \in 1 .. n, \A k \in 1 .. n : slots[k] = slots[j] => k = j
       PROVE  larger'.nodes[slots[j]] = node[j]
  <2>1. slots[j] \in ToSet(slots) /\ slots[j] \in Slots
    BY <1>3 DEF ToSet
  <2>2. At(slots[j]) = j
    BY <1>6, <1>10, <2>1
  <2> QED
    BY <1>7, <2>1, <2>2
<1>11. moves \in Seq(Rec) /\ Len(moves) \in Nat
  BY LenProperties DEF IInv, TypeInv
<1>12. new \in Seq(Rec) /\ Len(new) = n
  <2>1. new \in [1 .. n -> Rec]
    BY <1>1, <1>3, <1>4
  <2>2. new \in Seq(Rec)
    BY <1>3, <2>1, SeqDef
  <2> QED
    BY <1>3, <2>1, <2>2, LenProperties
<1>13. \A j \in 1 .. n : new[j] =
         [block |-> larger.ids[slots[j]], from |-> larger.nodes[slots[j]], to |-> node[j]]
  BY <1>3
<1> HIDE DEF new, Rec
<1>14. /\ moves' \in Seq(Rec) /\ Len(moves') = Len(moves) + n
       /\ \A i \in 1 .. Len(moves) + n :
            moves'[i] = IF i <= Len(moves) THEN moves[i] ELSE new[i - Len(moves)]
  <2>1. /\ moves \o new \in Seq(Rec) /\ Len(moves \o new) = Len(moves) + Len(new)
        /\ \A i \in 1 .. Len(moves) + Len(new) :
             (moves \o new)[i] = IF i <= Len(moves) THEN moves[i] ELSE new[i - Len(moves)]
    BY <1>11, <1>12, ConcatProperties, Zenon
  <2> QED
    BY ONLY <1>5, <1>12, <2>1, Zenon
<1>15. DOMAIN moves' = 1 .. Len(moves) + n
  BY <1>14, LenProperties
<1>16. \A i \in 1 .. Len(moves) : moves'[i] = moves[i]
  BY <1>3, <1>11, <1>14
<1>17. \A j \in 1 .. n : moves'[Len(moves) + j] =
         [block |-> larger.ids[slots[j]], from |-> larger.nodes[slots[j]], to |-> node[j]]
  <2> SUFFICES ASSUME NEW j \in 1 .. n
               PROVE  moves'[Len(moves) + j] = new[j]
    BY <1>13
  <2>1. PICK i \in 1 .. Len(moves) + n : i = Len(moves) + j
    BY <1>3, <1>11
  <2>2. ~(i <= Len(moves)) /\ i - Len(moves) = j
    BY <1>3, <1>11, <2>1
  <2> QED
    BY <1>14, <2>1, <2>2
<1> QED
  BY <1>4, <1>7, <1>8, <1>9, <1>10, <1>14, <1>15, <1>16, <1>17, TrailStep DEF Rec

\* The nodes of a cluster are nodes, whatever the cluster.
LEMMA InNodes ==
  ASSUME NEW c
  PROVE  NodesIn(c) \subseteq AllNodes
BY DEF NodesIn

\* All but m slots of a crowded cluster are slots.
LEMMA SurplusSeq ==
  ASSUME TypeInv, SearchInv, CrowdedRs
  PROVE  Surplus \in Seq(Slots)
<1>1. Relieving /\ New.type = "RS"
  BY DEF CrowdedRs
<1>2. reloc.blocks[Crowded] \in Seq(Slots)
  BY <1>1, CrowdedBlocks
<1>3. New.m \in Nat
  BY <1>1, SetupBasics DEF AllCodes, RsCodes, LrCodes, PcCodes, PcTypes
<1> DEFINE here == reloc.blocks[Crowded]
<1>4. Len(here) \in Nat /\ New.m + 1 \in Int /\ Len(here) \in Int
  BY <1>2, <1>3, LenProperties
<1>5. \A i \in New.m + 1 .. Len(here) : here[i] \in Slots
  <2> SUFFICES ASSUME NEW i \in New.m + 1 .. Len(here) PROVE here[i] \in Slots
    OBVIOUS
  <2>1. i \in 1 .. Len(here)
    BY <1>3, <1>4
  <2> QED
    BY <1>2, <2>1, ElementOfSeq
<1>6. SubSeq(here, New.m + 1, Len(here)) \in Seq(Slots)
  BY <1>4, <1>5, SubSeqProperties
<1> QED
  BY <1>6 DEF Surplus

\* Reed-Solomon, to a smaller cluster.
LEMMA MoveToSmallerKeeps ==
  ASSUME IInv, MoveToSmaller
  PROVE  IInv'
<1>1. /\ step = "relieve" /\ step' = step /\ CrowdedRs
      /\ UNCHANGED <<setup, tables, placement, made, moved, disk>>
      /\ MoveTo(Surplus, Vacant(Taker))
      /\ reloc' = [reloc EXCEPT !.at = @ + 1, !.counts[Taker] = @ + Len(Surplus)]
  BY DEF MoveToSmaller, CrowdedRs, Relieving
<1>2. Surplus \in Seq(Slots)
  BY <1>1, SurplusSeq DEF IInv
<1>3. Vacant(Taker) \in SUBSET AllNodes
  BY InNodes DEF Vacant
<1>4. TypeInv' /\ PlacedInv' /\ LargerInv' /\ TrailInv' /\ DiskInv'
  BY <1>1, <1>2, <1>3, MoveToKeeps
<1>5. SearchInv'
  BY <1>1 DEF IInv, SearchInv, Slots, New, NoReloc
<1> QED
  BY <1>4, <1>5 DEF IInv

\* Reed-Solomon, to a free cluster.
LEMMA MoveToFreeKeeps ==
  ASSUME IInv, MoveToFree
  PROVE  IInv'
<1>1. /\ step = "relieve" /\ step' = step /\ CrowdedRs
      /\ UNCHANGED <<setup, tables, placement, made, moved, disk>>
  BY DEF MoveToFree, CrowdedRs, Relieving
<1>2. PICK des \in reloc.free :
        /\ MoveTo(Surplus, NodesIn(des))
        /\ reloc' = [reloc EXCEPT !.at = @ + 1, !.free = @ \ {des}]
  BY DEF MoveToFree
<1>3. Surplus \in Seq(Slots)
  BY <1>1, SurplusSeq DEF IInv
<1>4. TypeInv' /\ PlacedInv' /\ LargerInv' /\ TrailInv' /\ DiskInv'
  BY <1>1, <1>2, <1>3, InNodes, MoveToKeeps
<1>5. SearchInv'
  BY <1>1, <1>2 DEF IInv, SearchInv, Slots, New, NoReloc
<1> QED
  BY <1>4, <1>5 DEF IInv

\* What the two steps that move a batch have in common.
LEMMA BatchKeeps ==
  ASSUME IInv, step = "relieve", step' = step, reloc.rest # <<>>, NEW des, NEW last,
         UNCHANGED <<setup, tables, placement, made, moved, disk>>,
         MoveTo(Batch, NodesIn(des)), Moved(des, last)
  PROVE  IInv'
<1>1. reloc.rest \in Seq(Seq(Slots))
  BY DEF IInv, SearchInv
<1>2. Batch \in Seq(Slots) /\ Tail(reloc.rest) \in Seq(Seq(Slots))
  BY <1>1, HeadTailProperties DEF Batch
<1>3. TypeInv' /\ PlacedInv' /\ LargerInv' /\ TrailInv' /\ DiskInv'
  BY <1>2, InNodes, MoveToKeeps
<1>4. /\ reloc'.at = IF last THEN reloc.at + 1 ELSE reloc.at
      /\ reloc'.rest = IF last THEN <<>> ELSE Tail(reloc.rest)
      /\ reloc'.order = reloc.order /\ reloc'.blocks = reloc.blocks
      /\ reloc'.free = IF Draws THEN reloc.free \ {des} ELSE reloc.free
      /\ DOMAIN reloc' = DOMAIN reloc
  BY DEF Moved, IInv, SearchInv, NoReloc
<1>5. <<>> \in Seq(Seq(Slots)) /\ Slots' = Slots
  BY EmptySeq DEF Slots, New
<1>6. SearchInv'
  BY <1>2, <1>4, <1>5 DEF IInv, SearchInv, NoReloc
<1> QED
  BY <1>3, <1>6 DEF IInv

\* A local group moves.
LEMMA MoveGroupKeeps ==
  ASSUME IInv, MoveGroup
  PROVE  IInv'
<1>1. /\ step = "relieve" /\ step' = step /\ reloc.rest # <<>>
      /\ UNCHANGED <<setup, tables, placement, made, moved, disk>>
  BY DEF MoveGroup, Relieving
<1>2. PICK des \in IF DrawsForGroup THEN reloc.free ELSE {0} :
       /\ MoveTo(Batch, NodesIn(des))
       /\ Moved(des, \/ reloc.counts[Crowded] - Len(Batch) <= New.g + Len(Tail(reloc.rest))
                     \/ Tail(reloc.rest) = <<>>)
  BY Zenon DEF MoveGroup
<1> QED
  BY <1>1, <1>2, BatchKeeps

\* A column moves.
LEMMA MoveColumnKeeps ==
  ASSUME IInv, MoveColumn
  PROVE  IInv'
<1>1. /\ step = "relieve" /\ step' = step /\ reloc.rest # <<>>
      /\ UNCHANGED <<setup, tables, placement, made, moved, disk>>
  BY DEF MoveColumn, Relieving
<1>2. PICK des \in IF DrawsForColumn THEN reloc.free ELSE {reloc.des} :
       MoveTo(Batch, NodesIn(des)) /\ Moved(des, Tail(reloc.rest) = <<>>)
  BY Zenon DEF MoveColumn
<1> QED
  BY <1>1, <1>2, BatchKeeps

----------------------------------------------------------------------------
(* Two blocks on one node.                                                  *)

\* A block that does not share its node is alone on it.
LEMMA AloneOnNode ==
  ASSUME TypeInv, larger.nodes \in [Slots -> AllNodes], NEW a \in Slots, a \notin Crowding
  PROVE  OnNode(larger.nodes[a]) = {a}
<1> SUFFICES ASSUME NEW b \in Slots, larger.nodes[b] = larger.nodes[a], a # b
             PROVE  FALSE
  BY DEF OnNode
<1>1. IsFiniteSet(Slots)
  BY SetupBasics
<1> DEFINE n == larger.nodes[a]
           Both == {a} \cup {b}
<1>2. OnNode(n) \in SUBSET Slots /\ Both \in SUBSET OnNode(n)
  BY DEF OnNode
<1>3. IsFiniteSet(OnNode(n)) /\ Cardinality(OnNode(n)) \in Nat
  BY <1>1, <1>2, FS_Subset, FS_CardinalityType
<1>4. Cardinality(Both) = 2
  <2>1. IsFiniteSet({a}) /\ Cardinality({a}) = 1
    BY FS_Singleton
  <2>2. Cardinality({a} \cup {b}) = IF b \in {a} THEN Cardinality({a}) ELSE Cardinality({a}) + 1
    BY ONLY <2>1, FS_AddElement, Zenon
  <2>3. b \notin {a}
    OBVIOUS
  <2> QED
    BY <2>1, <2>2, <2>3
<1>5. Cardinality(OnNode(n)) > 1
  BY <1>2, <1>3, <1>4, FS_Subset
<1> QED
  BY <1>5 DEF Crowding

\* One of two blocks on a node moves: a batch of one slot.
LEMMA PartBlocksKeeps ==
  ASSUME IInv, PartBlocks
  PROVE  IInv'
<1>1. /\ step = "part" /\ step' = step /\ ToPart # {}
      /\ reloc' = [reloc EXCEPT !.look = Turn + 1]
      /\ UNCHANGED <<setup, tables, placement, made, moved, disk>>
  BY DEF PartBlocks
<1> DEFINE b == Turn
<1>2. /\ DOMAIN larger = {"ids", "nodes"} /\ larger.ids \in [Slots -> 0 .. newBlock - 1]
      /\ larger.nodes \in [Slots -> AllNodes] /\ TypeInv
  BY <1>1 DEF IInv, LargerInv, Underway
<1>3. b \in Slots /\ \A a \in ToPart : b <= a
  <2>1. ToPart \subseteq Slots
    BY <1>2 DEF ToPart, Crowding
  <2>2. IsFiniteSet(ToPart) /\ ToPart \subseteq Int
    BY <1>2, <2>1, SetupBasics, FS_Subset
  <2> QED
    BY <1>1, <2>1, <2>2, MinMember DEF Turn
<1>4. PICK n \in AllNodes :
        /\ OnNode(n) = {}
        /\ larger' = [larger EXCEPT !.nodes[b] = n]
        /\ moves' = Append(moves, [block |-> larger.ids[b], from |-> larger.nodes[b], to |-> n])
  BY DEF PartBlocks
<1> HIDE DEF b
<1> DEFINE slots == <<b>>
           node  == <<n>>
           Rec   == [block : 0 .. newBlock - 1, from : AllNodes, to : AllNodes]
           rec   == [block |-> larger.ids[b], from |-> larger.nodes[b], to |-> n]
<1>5. slots \in Seq(Slots) /\ Len(slots) = 1 /\ node \in [1 .. 1 -> AllNodes]
      /\ slots[1] = b /\ node[1] = n
  BY <1>3
<1>6. /\ larger'.ids = larger.ids /\ DOMAIN larger' = DOMAIN larger
      /\ larger'.nodes = [larger.nodes EXCEPT ![b] = n]
  BY <1>2, <1>4
<1>7. larger'.nodes \in [Slots -> AllNodes] /\ larger'.nodes[b] = n
      /\ \A a \in Slots : a # b => larger'.nodes[a] = larger.nodes[a]
  BY <1>2, <1>3, <1>6
<1>8. moves \in Seq(Rec) /\ Len(moves) \in Nat
  BY LenProperties DEF IInv, TypeInv
<1>9. rec \in Rec
  BY <1>2, <1>3
<1> HIDE DEF Rec, rec
<1>10. /\ moves' \in Seq(Rec) /\ Len(moves') = Len(moves) + 1
       /\ \A i \in 1 .. Len(moves) : moves'[i] = moves[i]
       /\ moves'[Len(moves) + 1] = rec
  BY <1>4, <1>8, <1>9, AppendProperties DEF rec
<1>11. DOMAIN moves' = 1 .. Len(moves) + 1
  BY <1>10, LenProperties
<1> HIDE DEF slots, node
<1>12. TypeInv' /\ PlacedInv' /\ LargerInv' /\ TrailInv' /\ DiskInv'
  <2>1. \A a \in Slots : (\A j \in 1 .. Len(slots) : slots[j] # a) =>
           larger'.nodes[a] = larger.nodes[a]
    BY <1>5, <1>7
  <2>2. \A j \in 1 .. Len(slots) : larger'.nodes[slots[j]] = node[j]
    BY <1>5, <1>7
  <2>3. \A j \in 1 .. Len(slots) : moves'[Len(moves) + j] =
           [block |-> larger.ids[slots[j]], from |-> larger.nodes[slots[j]], to |-> node[j]]
    BY <1>5, <1>10 DEF rec
  <2>4. DOMAIN moves' = 1 .. Len(moves) + Len(slots) /\ node \in [1 .. Len(slots) -> AllNodes]
    BY <1>5, <1>11
  <2> QED
    <3>1. \A j \in 1 .. Len(slots) :
            (\A k \in 1 .. Len(slots) : slots[k] = slots[j] => k = j) =>
              larger'.nodes[slots[j]] = node[j]
      BY <2>2
    <3>2. moves' \in Seq([block : 0 .. newBlock - 1, from : AllNodes, to : AllNodes])
      BY <1>10 DEF Rec
    <3>3. step \in {"relieve", "part"} /\ UNCHANGED <<setup, tables, placement, made, moved, disk>>
      BY <1>1
    <3> QED
      BY <1>1, <1>5, <1>6, <1>7, <1>10, <2>1, <2>3, <2>4, <3>1, <3>2, <3>3, TrailStep
<1>13. SearchInv'
  <2>1. /\ DOMAIN reloc = DOMAIN NoReloc /\ reloc.look \in Nat /\ Slots' = Slots /\ Slots \subseteq Nat
        /\ \A a \in Slots : a < reloc.look => OnNode(larger.nodes[a]) = {a}
    BY <1>1, <1>2, SetupBasics DEF IInv, SearchInv, Slots, New
  <2>2. DOMAIN reloc' = DOMAIN NoReloc /\ reloc'.look = b + 1
    BY <1>1, <2>1 DEF NoReloc, b
  <2>3. ASSUME NEW a \in Slots, a < b + 1 PROVE OnNode(larger.nodes[a])' = {a}
    <3>1. ASSUME a # b, ~(a < reloc.look) PROVE a \notin Crowding
      <4>1. a >= reloc.look /\ ~(b <= a)
        BY <1>3, <2>1, <2>3, <3>1
      <4> QED
        BY <1>3, <4>1 DEF ToPart
    <3>2. a # b => OnNode(larger.nodes[a]) = {a}
      BY <1>2, <2>1, <3>1, AloneOnNode
    <3> QED
      BY <1>2, <1>4, <1>7, <3>2 DEF OnNode
  <2> QED
    BY <1>1, <1>3, <2>1, <2>2, <2>3 DEF SearchInv, NoReloc
<1> QED
  BY <1>12, <1>13 DEF IInv

----------------------------------------------------------------------------
(* The new parity blocks, the moves and the deletion.                       *)

\* The new parity blocks are stored; no two blocks are on one node.
LEMMA RecalculateKeeps ==
  ASSUME IInv, Recalculate
  PROVE  IInv'
<1>1. /\ step = "part" /\ step' = "move" /\ ToPart = {}
      /\ disk' = disk \cup {<<NewParityNode(slot), larger.ids[slot]>> : slot \in DOMAIN made}
      /\ moved' = [i \in DOMAIN moves |-> "no"]
      /\ UNCHANGED <<setup, tables, placement, larger, made, reloc, moves>>
  BY DEF Recalculate
<1>2. TypeInv /\ PlacedInv /\ LargerInv /\ TrailInv
  BY DEF IInv
<1>3. /\ step \in Underway /\ step' \in Underway /\ step \in Working /\ step \in Choosing
      /\ step' \in Steps /\ step' \notin Choosing
  BY <1>1 DEF Underway, Working, Choosing, Steps
<1>4. /\ Len(group) = setup.x /\ setup \in Setups /\ Fits(setup)
      /\ larger.ids \in [Slots -> 0 .. newBlock - 1] /\ larger.nodes \in [Slots -> AllNodes]
      /\ DOMAIN made = ParitySlots(setup) /\ Filled(setup) \subseteq Slots
      /\ ParitySlots(setup) \subseteq Filled(setup)
      /\ \A s \in Filled(setup) : OriginTable[setup][s] = From(s)
  BY <1>2, <1>3, TableDomains, SetupBasics DEF PlacedInv, LargerInv, Fits, From
<1>5. \A s \in ParitySlots(setup) : NewParityNode(s) = Home(s) /\ Home(s) \in AllNodes
  <2> SUFFICES ASSUME NEW s \in ParitySlots(setup)
               PROVE  NewParityNode(s) = Home(s) /\ Home(s) \in AllNodes
    OBVIOUS
  <2>1. From(s) \in OldBlocks(setup)
    BY <1>4, Origins DEF From
  <2>2. OldNode(From(s)) \in AllNodes
    BY <1>2, <1>3, <1>4, <2>1, OldBlockFacts
  <2> QED
    BY <1>4, <2>2 DEF NewParityNode, Home
<1>6. disk' = disk \cup {<<Home(s), larger.ids[s]>> : s \in ParitySlots(setup)}
  BY <1>1, <1>4, <1>5
<1>7. /\ disk \subseteq AllNodes \X (0 .. newBlock - 1)
      /\ disk = {<<stripes[x[1]].nodes[x[2]], stripes[x[1]].ids[x[2]]>> : x \in Placed \X StripeBlocks}
  BY <1>2, <1>3 DEF TypeInv, PlacedInv
<1>8. TypeInv'
  <2>1. disk' \subseteq AllNodes \X (0 .. newBlock - 1)
    BY <1>4, <1>5, <1>6, <1>7
  <2>2. DOMAIN moved' \subseteq DOMAIN moves'
    BY <1>1
  <2> QED
    BY <1>1, <1>2, <1>3, <2>1, <2>2 DEF TypeInv, tables, placement, ToSet
<1>9. PlacedInv'
  BY <1>1, <1>2, <1>3, PlacedFrame
<1>10. LargerInv'
  BY <1>1, <1>2, <1>3, <1>4, LargerFrame
<1>11. TrailInv'
  BY <1>1, <1>2, <1>3, TrailFrame
<1>12. SearchInv'
  BY <1>1 DEF SearchInv
<1>13. IsInjective(larger.nodes)
  <2>1. ASSUME NEW b \in Slots PROVE OnNode(larger.nodes[b]) = {b}
    <3>1. b \in Nat /\ reloc.look \in Nat
      BY <1>1, <1>2, SetupBasics DEF IInv, SearchInv
    <3>2. b < reloc.look => OnNode(larger.nodes[b]) = {b}
      BY <1>1 DEF IInv, SearchInv
    <3>3. ~(b < reloc.look) => b \notin Crowding
      BY <1>1, <3>1 DEF ToPart
    <3> QED
      BY <1>2, <1>4, <3>2, <3>3, AloneOnNode
  <2> QED
    BY <1>4, <2>1 DEF IsInjective, OnNode
\* Every block of the larger stripe is where its slot came from.
<1>14. ASSUME Mergeable(setup), NEW b \in Slots
       PROVE  Holders(larger.ids[b])' = {Home(b)}
  <2>1. /\ From(b) \in OldBlocks(setup) /\ Home(b) \in AllNodes
        /\ \A a \in Slots : larger.ids[a] = larger.ids[b] => a = b
        /\ b \notin ParitySlots(setup) => larger.ids[b] = OldId(From(b))
    BY <1>2, <1>3, <1>14, SlotIds
  <2>2. Holders(larger.ids[b])' = {n \in AllNodes : <<n, larger.ids[b]>> \in disk'}
    BY <1>1 DEF Holders
  <2>3. CASE b \in ParitySlots(setup)
    <3>1. ASSUME NEW n PROVE <<n, larger.ids[b]>> \notin disk
      <4> SUFFICES ASSUME <<n, larger.ids[b]>> \in disk PROVE FALSE
        OBVIOUS
      <4>1. PICK s \in Placed, c \in StripeBlocks : larger.ids[b] = stripes[s].ids[c]
        BY <1>7
      <4>2. stripes[s].ids[c] < larger.ids[b] /\ larger.ids[b] \in 0 .. newBlock - 1
        BY <1>2, <1>3, <1>4, <2>3 DEF LargerInv
      <4> QED
        BY <4>1, <4>2
    <3>2. ASSUME NEW n, <<n, larger.ids[b]>> \in disk' PROVE n = Home(b)
      <4>1. PICK s \in ParitySlots(setup) : <<n, larger.ids[b]>> = <<Home(s), larger.ids[s]>>
        BY <1>6, <3>1, <3>2
      <4> QED
        BY <1>4, <2>1, <4>1
    <3>3. <<Home(b), larger.ids[b]>> \in disk'
      BY <1>6, <2>3
    <3> QED
      BY <2>1, <2>2, <3>2, <3>3
  <2>4. CASE b \notin ParitySlots(setup)
    <3> DEFINE x == From(b)
    <3>1. /\ x[1] \in Placed /\ x[2] \in StripeBlocks
          /\ OldId(x) = stripes[x[1]].ids[x[2]] /\ OldNode(x) = stripes[x[1]].nodes[x[2]]
          /\ larger.ids[b] = OldId(x) /\ Home(b) = OldNode(x)
      BY <1>2, <1>3, <1>4, <2>1, <2>4, OldBlockFacts DEF Home
    <3> HIDE DEF x
    <3>2. <<Home(b), larger.ids[b]>> \in disk'
      <4>1. <<x[1], x[2]>> \in Placed \X StripeBlocks
        BY <3>1
      <4>2. <<stripes[x[1]].nodes[x[2]], stripes[x[1]].ids[x[2]]>> \in disk
        BY <1>7, <4>1
      <4> QED
        BY <1>6, <3>1, <4>2
    <3>3. ASSUME NEW n, <<n, larger.ids[b]>> \in disk' PROVE n = Home(b)
      <4>1. CASE <<n, larger.ids[b]>> \in disk
        <5>1. PICK s \in Placed, c \in StripeBlocks :
                n = stripes[s].nodes[c] /\ larger.ids[b] = stripes[s].ids[c]
          BY <1>7, <4>1
        <5>2. s = x[1] /\ c = x[2]
          <6>1. \A t, u \in Placed : \A d, e \in StripeBlocks :
                  stripes[t].ids[d] = stripes[u].ids[e] => t = u /\ d = e
            BY <1>2, <1>3 DEF PlacedInv
          <6>2. PICK u \in Placed, e \in StripeBlocks : u = x[1] /\ e = x[2]
            BY <3>1
          <6>3. stripes[s].ids[c] = stripes[u].ids[e]
            BY <3>1, <5>1, <6>2
          <6> QED
            BY <6>1, <6>2, <6>3
        <5> QED
          BY <3>1, <5>1, <5>2
      <4>2. CASE <<n, larger.ids[b]>> \notin disk
        <5>1. PICK s \in ParitySlots(setup) : <<n, larger.ids[b]>> = <<Home(s), larger.ids[s]>>
          BY <1>6, <3>3, <4>2
        <5>2. s = b
          BY <1>4, <2>1, <5>1
        <5> QED
          BY <2>4, <5>2
      <4> QED
        BY <4>1, <4>2
    <3> QED
      BY <2>1, <2>2, <3>2, <3>3
  <2> QED
    BY <2>3, <2>4
<1>15. DiskInv'
  <2>1. /\ Slots' = Slots /\ \A b : Home(b)' = Home(b) /\ MovesOf(b)' = MovesOf(b)
        /\ (Mergeable(setup)' <=> Mergeable(setup))
    BY <1>1 DEF Slots, New, From, Home, OldNode, MovesOf, tables
  <2>2. moved' \in [DOMAIN moves -> {"no", "copied", "yes"}]
    BY <1>1
  <2>3. ASSUME Mergeable(setup), NEW b \in Slots, NEW i \in DOMAIN moves, MovesOf(b) = {i}
        PROVE  moved'[i] = "no" /\ {moves[i].from} = {Home(b)}
    BY <1>1, <1>2, <1>3, <2>3 DEF TrailInv
  <2>4. ASSUME Mergeable(setup)
        PROVE  \A b \in Slots :
         /\ MovesOf(b) = {} => Holders(larger.ids[b])' = {Home(b)}
         /\ \A i \in DOMAIN moves :
              MovesOf(b) = {i} /\ moves[i].from # moves[i].to =>
                Holders(larger.ids[b])' = CASE moved'[i] = "no"     -> {moves[i].from}
                                            [] moved'[i] = "copied" -> {moves[i].from, moves[i].to}
                                            [] moved'[i] = "yes"    -> {moves[i].to}
    <3> SUFFICES ASSUME NEW b \in Slots, NEW i \in DOMAIN moves, MovesOf(b) = {i}
                 PROVE  Holders(larger.ids[b])' = CASE moved'[i] = "no"     -> {moves[i].from}
                                            [] moved'[i] = "copied" -> {moves[i].from, moves[i].to}
                                            [] moved'[i] = "yes"    -> {moves[i].to}
      BY <1>14, <2>4
    <3>1. moved'[i] = "no" /\ {moves[i].from} = {Home(b)}
      BY <2>3, <2>4
    <3>2. Holders(larger.ids[b])' = {Home(b)}
      BY <1>14, <2>4
    <3> QED
      BY <3>1, <3>2
  <2> QED
    BY <1>1, <1>13, <2>1, <2>2, <2>4 DEF DiskInv
<1> QED
  BY <1>8, <1>9, <1>10, <1>11, <1>12, <1>15 DEF IInv

\* The moves are under way: nothing but the disks and how far they are changes.
LEMMA MoveFrame ==
  ASSUME IInv, step = "move", step' \in {"move", "update"},
         UNCHANGED <<setup, tables, placement, larger, made, reloc, moves>>,
         disk' \subseteq AllNodes \X (0 .. newBlock - 1), DOMAIN moved' \subseteq DOMAIN moves
  PROVE  /\ TypeInv' /\ PlacedInv' /\ LargerInv' /\ SearchInv' /\ TrailInv'
         /\ Slots' = Slots /\ (Mergeable(setup)' <=> Mergeable(setup))
         /\ \A b : Home(b)' = Home(b) /\ MovesOf(b)' = MovesOf(b)
         /\ IsInjective(larger.nodes) /\ larger' = larger /\ moves' = moves
<1>1. TypeInv /\ PlacedInv /\ LargerInv /\ TrailInv /\ DiskInv
  BY DEF IInv
<1>2. step \in Underway /\ step' \in Underway /\ step' \in Steps /\ step' \notin Choosing
  BY DEF Underway, Choosing, Steps
<1>3. TypeInv'
  BY <1>1, <1>2 DEF TypeInv, tables, placement, ToSet
<1>4. PlacedInv'
  BY <1>1, <1>2, PlacedFrame
<1>5. LargerInv'
  <2>1. larger.nodes \in [Slots -> AllNodes]
    BY <1>1, <1>2 DEF LargerInv
  <2> QED
    BY <1>1, <1>2, <2>1, LargerFrame
<1>6. TrailInv'
  BY <1>1, <1>2, TrailFrame
<1>7. SearchInv'
  BY DEF SearchInv
<1>8. /\ Slots' = Slots /\ (Mergeable(setup)' <=> Mergeable(setup))
      /\ \A b : Home(b)' = Home(b) /\ MovesOf(b)' = MovesOf(b)
  BY DEF Slots, New, From, Home, OldNode, MovesOf, tables
<1>9. IsInjective(larger.nodes)
  BY <1>1 DEF DiskInv
<1> QED
  BY <1>3, <1>4, <1>5, <1>6, <1>7, <1>8, <1>9

\* Where the disks have a block whose only move is j.
Rests(j) ==
  IF moved[j] = "no" THEN {moves[j].from}
  ELSE IF moved[j] = "copied" THEN {moves[j].from, moves[j].to} ELSE {moves[j].to}

\* What DiskInv says of a block.
LEMMA DiskFacts ==
  ASSUME IInv, step = "move", Mergeable(setup), NEW b \in Slots
  PROVE  /\ MovesOf(b) = {} => Holders(larger.ids[b]) = {Home(b)}
         /\ \A j \in DOMAIN moves : MovesOf(b) = {j} /\ moves[j].from # moves[j].to =>
              Holders(larger.ids[b]) = Rests(j)
<1>1. moved \in [DOMAIN moves -> {"no", "copied", "yes"}]
  BY DEF IInv, DiskInv
<1>2. MovesOf(b) = {} => Holders(larger.ids[b]) = {Home(b)}
  BY DEF IInv, DiskInv
<1>3. \A j \in DOMAIN moves : MovesOf(b) = {j} /\ moves[j].from # moves[j].to =>
        Holders(larger.ids[b]) = CASE moved[j] = "no"     -> {moves[j].from}
                                   [] moved[j] = "copied" -> {moves[j].from, moves[j].to}
                                   [] moved[j] = "yes"    -> {moves[j].to}
  BY DEF IInv, DiskInv
<1> QED
  BY <1>1, <1>2, <1>3 DEF Rests

\* The same, to be shown of the next state.
LEMMA DiskShown ==
  ASSUME step' \in {"move", "update"}, IsInjective(larger.nodes),
         UNCHANGED <<larger, moves>>, Slots' = Slots, Mergeable(setup)' <=> Mergeable(setup),
         \A b : Home(b)' = Home(b) /\ MovesOf(b)' = MovesOf(b),
         moved' \in [DOMAIN moves -> {"no", "copied", "yes"}],
         step' = "update" => \A i \in DOMAIN moves : moved'[i] = "yes",
         Mergeable(setup) => \A b \in Slots :
           /\ MovesOf(b) = {} => Holders(larger.ids[b])' = {Home(b)}
           /\ \A j \in DOMAIN moves : MovesOf(b) = {j} /\ moves[j].from # moves[j].to =>
                Holders(larger.ids[b])' = Rests(j)'
  PROVE  DiskInv'
<1>1. ASSUME Mergeable(setup), NEW b \in Slots
      PROVE  /\ MovesOf(b)' = {} => Holders(larger.ids[b])' = {Home(b)'}
             /\ \A j \in DOMAIN moves' : MovesOf(b)' = {j} /\ moves'[j].from # moves'[j].to =>
                  Holders(larger.ids[b])' = CASE moved'[j] = "no"     -> {moves'[j].from}
                                              [] moved'[j] = "copied" -> {moves'[j].from, moves'[j].to}
                                              [] moved'[j] = "yes"    -> {moves'[j].to}
  <2>1. MovesOf(b)' = {} => Holders(larger.ids[b])' = {Home(b)'}
    BY <1>1
  <2>2. ASSUME NEW j \in DOMAIN moves', MovesOf(b)' = {j}, moves'[j].from # moves'[j].to
        PROVE  Holders(larger.ids[b])' = CASE moved'[j] = "no"     -> {moves'[j].from}
                                           [] moved'[j] = "copied" -> {moves'[j].from, moves'[j].to}
                                           [] moved'[j] = "yes"    -> {moves'[j].to}
    <3>1. Holders(larger.ids[b])' = Rests(j)'
      BY <1>1, <2>2
    <3>2. moved'[j] \in {"no", "copied", "yes"}
      BY <2>2
    <3> QED
      BY <3>1, <3>2 DEF Rests
  <2> QED
    BY <2>1, <2>2
<1> QED
  BY <1>1 DEF DiskInv

\* A block with one move is at both ends after the copy.
LEMMA CopyKeeps ==
  ASSUME IInv, NEW i \in DOMAIN moves, Copy(i)
  PROVE  IInv'
<1>1. /\ step = "move" /\ step' = "move" /\ moved[i] = "no"
      /\ disk' = IF <<moves[i].from, moves[i].block>> \in disk
                 THEN disk \cup {<<moves[i].to, moves[i].block>>} ELSE disk
      /\ moved' = [moved EXCEPT ![i] = "copied"]
      /\ UNCHANGED <<setup, tables, placement, larger, made, reloc, moves>>
  BY DEF Copy
<1>2. /\ disk \subseteq AllNodes \X (0 .. newBlock - 1)
      /\ moved \in [DOMAIN moves -> {"no", "copied", "yes"}]
      /\ moves[i] \in [block : 0 .. newBlock - 1, from : AllNodes, to : AllNodes]
  <2>1. /\ disk \subseteq AllNodes \X (0 .. newBlock - 1)
        /\ moved \in [DOMAIN moves -> {"no", "copied", "yes"}]
        /\ moves \in Seq([block : 0 .. newBlock - 1, from : AllNodes, to : AllNodes])
    BY <1>1 DEF IInv, TypeInv, DiskInv
  <2>2. i \in 1 .. Len(moves)
    BY <2>1, LenProperties
  <2> QED
    BY <2>1, <2>2, ElementOfSeq
<1>3. /\ moved' \in [DOMAIN moves -> {"no", "copied", "yes"}]
      /\ disk' \subseteq AllNodes \X (0 .. newBlock - 1)
  BY <1>1, <1>2
<1>4. /\ TypeInv' /\ PlacedInv' /\ LargerInv' /\ SearchInv' /\ TrailInv'
      /\ Slots' = Slots /\ (Mergeable(setup)' <=> Mergeable(setup))
      /\ \A b : Home(b)' = Home(b) /\ MovesOf(b)' = MovesOf(b)
      /\ IsInjective(larger.nodes) /\ larger' = larger /\ moves' = moves
  BY <1>1, <1>3, MoveFrame
<1>5. ASSUME Mergeable(setup), NEW b \in Slots
      PROVE  /\ MovesOf(b) = {} => Holders(larger.ids[b])' = {Home(b)}
             /\ \A j \in DOMAIN moves : MovesOf(b) = {j} /\ moves[j].from # moves[j].to =>
                  Holders(larger.ids[b])' = Rests(j)'
  <2>1. /\ MovesOf(b) = {} => Holders(larger.ids[b]) = {Home(b)}
        /\ \A j \in DOMAIN moves : MovesOf(b) = {j} /\ moves[j].from # moves[j].to =>
             Holders(larger.ids[b]) = Rests(j)
    BY <1>1, <1>5, DiskFacts
  <2>2. CASE moves[i].block # larger.ids[b]
    <3>1. Holders(larger.ids[b])' = Holders(larger.ids[b])
      BY <1>1, <2>2 DEF Holders
    <3>2. \A j \in DOMAIN moves : MovesOf(b) = {j} => Rests(j)' = Rests(j)
      BY <1>1, <1>2, <2>2 DEF MovesOf, Rests
    <3> QED
      BY <2>1, <3>1, <3>2
  <2>3. CASE moves[i].block = larger.ids[b]
    <3>1. i \in MovesOf(b)
      BY <2>3 DEF MovesOf
    <3>2. ASSUME MovesOf(b) = {i}, moves[i].from # moves[i].to
          PROVE  Holders(larger.ids[b])' = Rests(i)'
      <4>1. Holders(larger.ids[b]) = {moves[i].from}
        BY <1>1, <2>1, <3>2 DEF Rests
      <4>2. <<moves[i].from, larger.ids[b]>> \in disk
        BY <4>1 DEF Holders
      <4>3. Holders(larger.ids[b])' = Holders(larger.ids[b]) \cup {moves[i].to}
        BY <1>1, <1>2, <2>3, <4>2 DEF Holders
      <4>4. Rests(i)' = {moves[i].from, moves[i].to}
        BY <1>1, <1>2 DEF Rests
      <4> QED
        BY <4>1, <4>3, <4>4
    <3> QED
      BY <3>1, <3>2
  <2> QED
    BY <2>2, <2>3
<1>6. DiskInv'
  BY <1>1, <1>3, <1>4, <1>5, DiskShown
<1> QED
  BY <1>4, <1>6 DEF IInv

\* And at the destination alone after the deletion.
LEMMA DropKeeps ==
  ASSUME IInv, NEW i \in DOMAIN moves, Drop(i)
  PROVE  IInv'
<1>1. /\ step = "move" /\ step' = "move" /\ moved[i] = "copied"
      /\ disk' = disk \ {<<moves[i].from, moves[i].block>>}
      /\ moved' = [moved EXCEPT ![i] = "yes"]
      /\ UNCHANGED <<setup, tables, placement, larger, made, reloc, moves>>
  BY DEF Drop
<1>2. /\ disk \subseteq AllNodes \X (0 .. newBlock - 1)
      /\ moved \in [DOMAIN moves -> {"no", "copied", "yes"}]
      /\ moves[i] \in [block : 0 .. newBlock - 1, from : AllNodes, to : AllNodes]
  <2>1. /\ disk \subseteq AllNodes \X (0 .. newBlock - 1)
        /\ moved \in [DOMAIN moves -> {"no", "copied", "yes"}]
        /\ moves \in Seq([block : 0 .. newBlock - 1, from : AllNodes, to : AllNodes])
    BY <1>1 DEF IInv, TypeInv, DiskInv
  <2>2. i \in 1 .. Len(moves)
    BY <2>1, LenProperties
  <2> QED
    BY <2>1, <2>2, ElementOfSeq
<1>3. /\ moved' \in [DOMAIN moves -> {"no", "copied", "yes"}]
      /\ disk' \subseteq AllNodes \X (0 .. newBlock - 1)
  BY <1>1, <1>2
<1>4. /\ TypeInv' /\ PlacedInv' /\ LargerInv' /\ SearchInv' /\ TrailInv'
      /\ Slots' = Slots /\ (Mergeable(setup)' <=> Mergeable(setup))
      /\ \A b : Home(b)' = Home(b) /\ MovesOf(b)' = MovesOf(b)
      /\ IsInjective(larger.nodes) /\ larger' = larger /\ moves' = moves
  BY <1>1, <1>3, MoveFrame
<1>5. ASSUME Mergeable(setup), NEW b \in Slots
      PROVE  /\ MovesOf(b) = {} => Holders(larger.ids[b])' = {Home(b)}
             /\ \A j \in DOMAIN moves : MovesOf(b) = {j} /\ moves[j].from # moves[j].to =>
                  Holders(larger.ids[b])' = Rests(j)'
  <2>1. /\ MovesOf(b) = {} => Holders(larger.ids[b]) = {Home(b)}
        /\ \A j \in DOMAIN moves : MovesOf(b) = {j} /\ moves[j].from # moves[j].to =>
             Holders(larger.ids[b]) = Rests(j)
    BY <1>1, <1>5, DiskFacts
  <2>2. CASE moves[i].block # larger.ids[b]
    <3>1. Holders(larger.ids[b])' = Holders(larger.ids[b])
      BY <1>1, <2>2 DEF Holders
    <3>2. \A j \in DOMAIN moves : MovesOf(b) = {j} => Rests(j)' = Rests(j)
      BY <1>1, <1>2, <2>2 DEF MovesOf, Rests
    <3> QED
      BY <2>1, <3>1, <3>2
  <2>3. CASE moves[i].block = larger.ids[b]
    <3>1. i \in MovesOf(b)
      BY <2>3 DEF MovesOf
    <3>2. ASSUME MovesOf(b) = {i}, moves[i].from # moves[i].to
          PROVE  Holders(larger.ids[b])' = Rests(i)'
      <4>1. Holders(larger.ids[b]) = {moves[i].from, moves[i].to}
        BY <1>1, <2>1, <3>2 DEF Rests
      <4>2. Holders(larger.ids[b])' = Holders(larger.ids[b]) \ {moves[i].from}
        BY <1>1, <2>3 DEF Holders
      <4>3. Rests(i)' = {moves[i].to}
        BY <1>1, <1>2 DEF Rests
      <4> QED
        BY <3>2, <4>1, <4>2, <4>3
    <3> QED
      BY <3>1, <3>2
  <2> QED
    BY <2>2, <2>3
<1>6. DiskInv'
  BY <1>1, <1>3, <1>4, <1>5, DiskShown
<1> QED
  BY <1>4, <1>6 DEF IInv

\* The deletion meets no block of the larger stripe.
LEMMA DeleteOldParitiesKeeps ==
  ASSUME IInv, DeleteOldParities
  PROVE  IInv'
<1>1. /\ step = "move" /\ step' = "update" /\ AllMoved
      /\ disk' = disk \ OldParities
      /\ UNCHANGED <<setup, tables, placement, larger, made, reloc, moves, moved>>
  BY DEF DeleteOldParities
<1>2. TypeInv /\ PlacedInv /\ LargerInv /\ step \in Underway /\ step \in Working
  BY <1>1 DEF IInv, Underway, Working
<1>3. /\ disk' \subseteq AllNodes \X (0 .. newBlock - 1)
      /\ moved' \in [DOMAIN moves -> {"no", "copied", "yes"}]
      /\ DOMAIN moved' \subseteq DOMAIN moves
  BY <1>1 DEF IInv, TypeInv, DiskInv
<1>4. /\ TypeInv' /\ PlacedInv' /\ LargerInv' /\ SearchInv' /\ TrailInv'
      /\ Slots' = Slots /\ (Mergeable(setup)' <=> Mergeable(setup))
      /\ \A b : Home(b)' = Home(b) /\ MovesOf(b)' = MovesOf(b)
      /\ IsInjective(larger.nodes) /\ larger' = larger /\ moves' = moves
  BY <1>1, <1>3, MoveFrame
\* None of the blocks that are deleted is in the larger stripe.
<1>5. ASSUME Mergeable(setup), NEW b \in Slots
      PROVE  Holders(larger.ids[b])' = Holders(larger.ids[b])
  <2>1. ASSUME NEW n PROVE <<n, larger.ids[b]>> \notin OldParities
    <3> SUFFICES ASSUME <<n, larger.ids[b]>> \in OldParities PROVE FALSE
      OBVIOUS
    <3>1. PICK s \in 0 .. setup.x - 1, c \in BlocksOf(setup.code) \ Kept(setup) :
            <<n, larger.ids[b]>> = <<OldNode(<<s, c>>), OldId(<<s, c>>)>>
      BY DEF OldParities
    <3> DEFINE x == <<s, c>>
    <3>2. larger.ids[b] = OldId(x) /\ x \in OldBlocks(setup) /\ Len(group) = setup.x
      BY <1>2, <3>1 DEF OldBlocks, PlacedInv
    <3>3. /\ x[1] \in Placed /\ x[2] \in StripeBlocks
          /\ OldId(x) = stripes[x[1]].ids[x[2]] /\ OldId(x) \in 0 .. newBlock - 1
      BY <1>2, <3>2, OldBlockFacts
    <3>4. x[2] \notin Kept(setup)
      BY <3>1
    <3> HIDE DEF x
    <3>5. CASE b \in ParitySlots(setup)
      <4>1. stripes[x[1]].ids[x[2]] < larger.ids[b]
        BY <1>2, <3>3, <3>5 DEF LargerInv
      <4> QED
        BY <3>2, <3>3, <4>1
    <3>6. CASE b \notin ParitySlots(setup)
      <4>1. /\ From(b) \in OldBlocks(setup) /\ larger.ids[b] = OldId(From(b))
            /\ From(b)[2] \in Kept(setup)
        BY <1>2, <1>5, <3>6, SlotIds
      <4>2. From(b) = x
        BY <1>2, <3>2, <4>1, OldIdsDiffer
      <4> QED
        BY <3>4, <4>1, <4>2
    <3> QED
      BY <3>5, <3>6
  <2> QED
    BY <1>1, <2>1 DEF Holders
<1>6. ASSUME Mergeable(setup), NEW b \in Slots
      PROVE  /\ MovesOf(b) = {} => Holders(larger.ids[b])' = {Home(b)}
             /\ \A j \in DOMAIN moves : MovesOf(b) = {j} /\ moves[j].from # moves[j].to =>
                  Holders(larger.ids[b])' = Rests(j)'
  <2>1. \A j : Rests(j)' = Rests(j)
    BY <1>1 DEF Rests
  <2> QED
    BY <1>1, <1>5, <1>6, <2>1, DiskFacts
<1>7. \A i \in DOMAIN moves : moved'[i] = "yes"
  BY <1>1 DEF AllMoved
<1>8. DiskInv'
  BY <1>1, <1>3, <1>4, <1>6, <1>7, DiskShown
<1> QED
  BY <1>4, <1>8 DEF IInv

\* The larger stripe takes the place of the group.
LEMMA UpdateTablesKeeps ==
  ASSUME IInv, UpdateTables
  PROVE  IInv'
<1>1. /\ step = "update" /\ step' = "done"
      /\ stripes' = [i \in {newStripe - 1} |-> larger]
      /\ group' = <<newStripe - 1>> /\ moves' = <<>> /\ moved' = <<>>
      /\ UNCHANGED <<setup, newStripe, newBlock, lucky, apart, disk>>
  BY DEF UpdateTables, MergedGroup, placement
<1>2. newStripe \in Nat /\ newStripe > 0 /\ larger.nodes \in [Slots -> AllNodes]
  <2>1. Len(group) \in Nat /\ newStripe = Len(group) + 1
    BY <1>1, LenProperties DEF IInv, PlacedInv, Working, Underway
  <2> QED
    BY <1>1, <2>1 DEF IInv, LargerInv, Underway
<1>3. DOMAIN stripes' = {newStripe - 1} /\ \A i \in DOMAIN stripes' : stripes'[i] = larger
  BY <1>1
<1>4. DOMAIN stripes' \subseteq 0 .. newStripe - 1
  BY <1>2, <1>3
<1>5. \A i \in DOMAIN stripes' : ToSet(stripes'[i].nodes) \subseteq AllNodes
  BY <1>2, <1>3 DEF ToSet
<1>6. ToSet(group') \subseteq DOMAIN stripes'
  BY <1>1, <1>3 DEF ToSet
<1>7. /\ moves' \in Seq([block : 0 .. newBlock - 1, from : AllNodes, to : AllNodes])
      /\ DOMAIN moved' \subseteq DOMAIN moves'
  BY <1>1, EmptySeq
<1>8. ToSet(group)' \subseteq DOMAIN stripes' /\ \A i : ToSet(stripes[i].nodes)' = ToSet(stripes'[i].nodes)
  BY <1>6
<1>9. TypeInv'
  BY <1>1, <1>2, <1>4, <1>5, <1>7, <1>8 DEF IInv, TypeInv, Steps
<1> QED
  BY <1>1, <1>9 DEF IInv, PlacedInv, LargerInv, SearchInv, TrailInv, DiskInv, Working, Underway

----------------------------------------------------------------------------
(* The theorems.                                                            *)

\* The initial states.
LEMMA InitHolds ==
  ASSUME Init
  PROVE  IInv
<1>1. /\ setup \in Setups /\ step = "place" /\ group = <<>> /\ stripes = <<>>
      /\ newStripe = 0 /\ newBlock = 0 /\ lucky = 0 /\ apart = {}
      /\ moves = <<>> /\ moved = <<>> /\ disk = {}
  BY DEF Init
<1>2. /\ Len(group) = 0 /\ DOMAIN stripes = {} /\ ToSet(group) = {}
      /\ moves \in Seq([block : 0 .. newBlock - 1, from : AllNodes, to : AllNodes])
      /\ group \in Seq(Nat)
  BY <1>1, EmptySeq DEF ToSet
<1>3. TypeInv
  BY <1>1, <1>2, Nodes DEF TypeInv, Steps
<1>4. Placed = {}
  BY <1>2 DEF Placed
<1>5. PlacedInv
  <2>1. disk = {<<stripes[x[1]].nodes[x[2]], stripes[x[1]].ids[x[2]]>> : x \in Placed \X StripeBlocks}
    BY <1>1, <1>4
  <2>2. 0 <= setup.x
    BY <1>1, SetupType
  <2>3. \A i \in 1 .. Len(group) : group[i] = i - 1
    BY <1>2
  <2> QED
    BY <1>1, <1>2, <1>4, <2>1, <2>2, <2>3 DEF PlacedInv, Underway
<1> QED
  BY <1>1, <1>3, <1>5 DEF IInv, LargerInv, SearchInv, TrailInv, DiskInv, Underway

\* A stripe is placed; no merge is under way.
LEMMA PlaceHolds ==
  ASSUME IInv, Place
  PROVE  IInv'
<1>1. step = "place" /\ step' = "place"
  <2>1. PICK cl \in [1 .. PartitionNum -> Clusters] : Put(cl)
    BY PlaceEffect DEF IInv
  <2> QED
    BY <2>1, PlaceEffect, PutEffect DEF IInv, TypeInv
<1>2. TypeInv' /\ PlacedInv'
  BY PlaceKeeps DEF IInv
<1> QED
  BY <1>1, <1>2 DEF IInv, LargerInv, SearchInv, TrailInv, DiskInv, Underway

\* The merge begins; no search and no moves are under way.
LEMMA StartMergeHolds ==
  ASSUME IInv, StartMerge
  PROVE  IInv'
<1>1. TypeInv' /\ PlacedInv' /\ LargerInv' /\ TrailInv' /\ step' = "count"
  BY StartMergeKeeps DEF IInv
<1> QED
  BY <1>1 DEF IInv, SearchInv, DiskInv

\* Every step keeps the invariant.
LEMMA NextKeeps ==
  ASSUME IInv, [Next]_vars
  PROVE  IInv'
<1>1. CASE Place
  BY <1>1, PlaceHolds
<1>2. CASE StartMerge
  BY <1>2, StartMergeHolds
<1>3. CASE WritePastEnd
  BY <1>3, Stops DEF WritePastEnd
<1>4. CASE Relieve
  <2>1. CASE CountBlocks
    BY <2>1, CountBlocksKeeps
  <2>2. CASE NextCluster
    BY <2>2, NextClusterKeeps
  <2>3. CASE MoveToSmaller
    BY <2>3, MoveToSmallerKeeps
  <2>4. CASE MoveToFree
    BY <2>4, MoveToFreeKeeps
  <2>5. CASE MakeBatches
    BY <2>5, MakeBatchesKeeps
  <2>6. CASE MoveGroup
    BY <2>6, MoveGroupKeeps
  <2>7. CASE MoveColumn
    BY <2>7, MoveColumnKeeps
  <2>8. CASE DrawFromNothing
    BY <2>8, Stops DEF DrawFromNothing
  <2>9. CASE EndRelief
    BY <2>9, EndReliefKeeps
  <2> QED
    BY <1>4, <2>1, <2>2, <2>3, <2>4, <2>5, <2>6, <2>7, <2>8, <2>9 DEF Relieve
<1>5. CASE PartBlocks
  BY <1>5, PartBlocksKeeps
<1>6. CASE SearchForever
  BY <1>6, Still DEF SearchForever
<1>7. CASE ReadPastEnd
  BY <1>7, Stops DEF ReadPastEnd
<1>8. CASE Recalculate
  BY <1>8, RecalculateKeeps
<1>9. ASSUME NEW i \in DOMAIN moves, Copy(i) \/ Drop(i) PROVE IInv'
  BY <1>9, CopyKeeps, DropKeeps
<1>10. CASE DeleteOldParities
  BY <1>10, DeleteOldParitiesKeeps
<1>11. CASE UpdateTables
  BY <1>11, UpdateTablesKeeps
<1>12. CASE Stay \/ UNCHANGED vars
  BY <1>12, Still DEF Stay
<1> QED
  BY <1>1, <1>2, <1>3, <1>4, <1>5, <1>6, <1>7, <1>8, <1>9, <1>10, <1>11, <1>12 DEF Next

\* The invariant holds in every state.
THEOREM Invariance == Spec => []IInv
<1>1. Init => IInv
  BY InitHolds
<1>2. IInv /\ [Next]_vars => IInv'
  BY NextKeeps
<1> QED
  BY <1>1, <1>2, PTL DEF Spec

\* Types: nodes and clusters are those of the system, ids are below the counters
\* of generate_placement and do_stripe_merge, and the stripes of the merge group
\* are in stripe_table_.
THEOREM TypeCorrect == Spec => []TypeOK
<1>1. IInv => TypeOK
  <2> SUFFICES ASSUME IInv PROVE TypeOK
    OBVIOUS
  <2>1. \A i \in DOMAIN moves : {moves[i].from, moves[i].to} \subseteq AllNodes
    <3> SUFFICES ASSUME NEW i \in DOMAIN moves
                 PROVE  {moves[i].from, moves[i].to} \subseteq AllNodes
      OBVIOUS
    <3>1. moves \in Seq([block : 0 .. newBlock - 1, from : AllNodes, to : AllNodes])
      BY DEF IInv, TypeInv
    <3>2. moves[i] \in [block : 0 .. newBlock - 1, from : AllNodes, to : AllNodes]
      BY <3>1, ElementOfSeq, LenProperties
    <3> QED
      BY <3>2
  <2> QED
    BY <2>1 DEF IInv, TypeInv, TypeOK
<1> QED
  BY <1>1, Invariance, PTL

\* When blocks are moved no two blocks of the larger stripe are on one node,
\* whatever the relief of the clusters did: one pass is enough, since none that it
\* leaves behind comes to share its node again.
THEOREM OneBlockPerNodeHolds == Spec => []OneBlockPerNode
<1>1. IInv => OneBlockPerNode
  BY DEF IInv, DiskInv, OneBlockPerNode
<1> QED
  BY <1>1, Invariance, PTL

\* When all moves are done, in whatever order they were, and the old parity blocks
\* are deleted, every block that is moved at most once, and not to its own node, is
\* on the node that the tables say and on no other.
THEOREM BlocksInPlaceHolds == Spec => []BlocksInPlace
<1>1. IInv => BlocksInPlace
  <2> SUFFICES ASSUME IInv, step = "update", Mergeable(setup), NEW x \in Live, ~Astray(x[2])
               PROVE  {n \in AllNodes : <<n, x[2]>> \in disk} = {x[1]}
    BY DEF BlocksInPlace
  <2>1. DOMAIN larger.ids = Slots
    BY DEF IInv, LargerInv, Underway
  <2>2. PICK b \in Slots : x[1] = larger.nodes[b] /\ x[2] = larger.ids[b]
    BY <2>1 DEF Live
  <2>3. \A i \in DOMAIN moves : moved[i] = "yes"
    BY DEF IInv, DiskInv
  <2>4. /\ MovesOf(b) = {} => Holders(larger.ids[b]) = {Home(b)}
        /\ \A i \in DOMAIN moves : MovesOf(b) = {i} /\ moves[i].from # moves[i].to =>
             Holders(larger.ids[b]) = {moves[i].to}
    BY <2>3 DEF IInv, DiskInv
  <2>5. /\ MovesOf(b) = {} => larger.nodes[b] = Home(b)
        /\ \A i \in DOMAIN moves : MovesOf(b) = {i} => moves[i].to = larger.nodes[b]
    BY DEF IInv, TrailInv, Underway
  <2>6. \A i, j \in MovesOf(b) : i = j /\ moves[i].from # moves[i].to
    BY <2>2 DEF Astray, MovesOf
  <2>7. Holders(larger.ids[b]) = {larger.nodes[b]}
    <3>1. CASE MovesOf(b) = {}
      BY <2>4, <2>5, <3>1
    <3>2. CASE MovesOf(b) # {}
      <4>1. PICK i \in MovesOf(b) : TRUE
        BY <3>2
      <4>2. MovesOf(b) = {i} /\ i \in DOMAIN moves /\ moves[i].from # moves[i].to
        BY <2>6, <4>1 DEF MovesOf
      <4> QED
        BY <2>4, <2>5, <4>2
    <3> QED
      BY <3>1, <3>2
  <2> QED
    BY <2>2, <2>7 DEF Holders
<1> QED
  BY <1>1, Invariance, PTL

----------------------------------------------------------------------------
(* The slots of a code whose blocks are in a line.                          *)

\* The blocks of the merge group that are kept, and their slots.
KeptBlocks(su) == (0 .. su.x - 1) \X Kept(su)
SlotOf(su, x)  == Slot(su, x[1], x[2])

\* Every kept block has a slot of its own, and no new parity block gets it.
Numbered(su) ==
  /\ \A x \in KeptBlocks(su) :
       SlotOf(su, x) \in BlocksOf(MergedCode(su)) /\ SlotOf(su, x) \notin ParitySlots(su)
  /\ \A x, y \in KeptBlocks(su) : SlotOf(su, x) = SlotOf(su, y) => x = y

\* Every new parity block has a slot of its own.
Seated(su) ==
  /\ ParitySlots(su) \subseteq BlocksOf(MergedCode(su))
  /\ \A p, q \in NewParities(su) : p.slot = q.slot => p = q

\* The sizes of a code whose blocks are in a line.
LEMMA FlatCode ==
  ASSUME NEW su \in Setups, su.code \in RsCodes \cup LrCodes
  PROVE  /\ su.code.k \in Nat /\ su.code.k \in Pos /\ su.code.k > 0 /\ su.x \in Nat
         /\ su.code.type \in {"RS", "AZURE_LRC"} /\ su.code.type \notin PcTypes
         /\ MergedCode(su).k = su.x * su.code.k /\ su.x * su.code.k \in Nat
         /\ MergedCode(su).type = su.code.type
         /\ su.code.type = "RS" => /\ su.code.m \in Nat /\ MergedCode(su).m = su.code.m
                                   /\ Kept(su) = 0 .. su.code.k - 1
         /\ su.code.type = "AZURE_LRC" =>
              /\ su.code.l \in Nat /\ su.code.l \in Pos /\ su.code.g \in Nat
              /\ MergedCode(su).l = su.x * su.code.l /\ su.x * su.code.l \in Nat
              /\ MergedCode(su).g = su.code.g
              /\ Kept(su) = (0 .. su.code.k - 1) \cup Locals(su.code)
<1>1. su.x \in Nat /\ su.code.k \in Pos /\ su.code.k \in Nat /\ MergedCode(su).type = su.code.type
  BY SetupType DEF RsCodes, LrCodes, Pos
<1>2. CASE su.code \in RsCodes
  <2>1. su.code.type = "RS" /\ su.code.m \in Nat
    BY <1>2 DEF RsCodes
  <2>2. MergedCode(su) = [su.code EXCEPT !.k = @ * su.x]
    BY <2>1 DEF MergedCode, PcTypes
  <2>3. MergedCode(su).k = su.code.k * su.x /\ MergedCode(su).m = su.code.m
    BY <1>2, <2>2 DEF RsCodes
  <2>4. Kept(su) = 0 .. su.code.k - 1
    BY <2>1 DEF Kept, PcTypes
  <2> QED
    BY <1>1, <2>1, <2>3, <2>4, ProdNat DEF Pos, PcTypes
<1>3. CASE su.code \in LrCodes
  <2>1. su.code.type = "AZURE_LRC" /\ su.code.l \in Pos /\ su.code.l \in Nat /\ su.code.g \in Nat
    BY <1>3 DEF LrCodes, Pos
  <2>2. MergedCode(su) = [su.code EXCEPT !.k = @ * su.x, !.l = @ * su.x]
    BY <2>1 DEF MergedCode, PcTypes
  <2>3. /\ MergedCode(su).k = su.code.k * su.x /\ MergedCode(su).l = su.code.l * su.x
        /\ MergedCode(su).g = su.code.g
    BY <1>3, <2>2 DEF LrCodes
  <2>4. Kept(su) = BlocksOf(su.code) \ Globals(su.code)
    BY <2>1 DEF Kept, PcTypes
  <2>5. BlocksOf(su.code) = 0 .. su.code.k + su.code.g + su.code.l - 1
    <3>1. Size(su.code) = su.code.k + su.code.g + su.code.l
      BY <2>1 DEF Size, PcTypes
    <3> QED
      BY <1>1, <2>1, <3>1 DEF BlocksOf
  <2>6. Kept(su) = (0 .. su.code.k - 1) \cup Locals(su.code)
    BY <1>1, <2>1, <2>4, <2>5 DEF Globals, Locals, Pos
  <2> QED
    BY <1>1, <2>1, <2>3, <2>6, ProdNat DEF Pos, PcTypes
<1> QED
  BY <1>2, <1>3

\* The slot of a data block.
LEMMA DataSlot ==
  ASSUME NEW su \in Setups, su.code \in RsCodes \cup LrCodes,
         NEW s \in 0 .. su.x - 1, NEW b \in 0 .. su.code.k - 1
  PROVE  /\ Slot(su, s, b) = s * su.code.k + b
         /\ Slot(su, s, b) \in Nat /\ Slot(su, s, b) < su.x * su.code.k
         /\ b \in Kept(su)
<1>1. /\ su.code.k \in Nat /\ su.x \in Nat /\ su.code.type \in {"RS", "AZURE_LRC"}
      /\ su.code.type \notin PcTypes /\ su.x * su.code.k \in Nat /\ b \in Kept(su)
  BY FlatCode
<1>2. su.code.type = "AZURE_LRC" => b \notin Locals(su.code)
  BY FlatCode DEF Locals
<1>3. Slot(su, s, b) = s * su.code.k + b
  BY <1>1, <1>2 DEF Slot
<1>4. s \in Nat /\ s < su.x /\ b \in Nat /\ b < su.code.k
  BY <1>1
<1>5. s * su.code.k \in Nat /\ s * su.code.k + su.code.k <= su.x * su.code.k
  BY <1>1, <1>4, ProdMono
<1>6. PICK a \in Nat, n \in Nat : a = s * su.code.k /\ n = su.x * su.code.k
  BY <1>1, <1>5
<1>7. a + su.code.k <= n
  BY <1>5, <1>6
<1> QED
  BY <1>1, <1>3, <1>4, <1>6, <1>7

\* The slot of a local parity block.
LEMMA LocalSlot ==
  ASSUME NEW su \in Setups, su.code \in LrCodes,
         NEW s \in 0 .. su.x - 1, NEW j \in 0 .. su.code.l - 1
  PROVE  /\ su.code.k + su.code.g + j \in Locals(su.code)
         /\ Slot(su, s, su.code.k + su.code.g + j) =
              su.x * su.code.k + su.code.g + (s * su.code.l + j)
         /\ s * su.code.l + j \in Nat /\ s * su.code.l + j < su.x * su.code.l
<1>1. /\ su.code.k \in Nat /\ su.x \in Nat /\ su.code.type = "AZURE_LRC"
      /\ su.code.g \in Nat /\ su.code.l \in Nat /\ su.code.type \notin PcTypes
      /\ su.x * su.code.k \in Nat /\ su.x * su.code.l \in Nat
  BY FlatCode DEF LrCodes
<1>2. su.code.k + su.code.g + j \in Locals(su.code)
  BY <1>1 DEF Locals
<1>3. Slot(su, s, su.code.k + su.code.g + j) =
        su.x * su.code.k + su.code.g + s * su.code.l + ((su.code.k + su.code.g + j) - su.code.k - su.code.g)
  BY <1>1, <1>2 DEF Slot
<1>4. s \in Nat /\ s < su.x /\ j \in Nat /\ j < su.code.l
  BY <1>1
<1>5. s * su.code.l \in Nat /\ s * su.code.l + su.code.l <= su.x * su.code.l
  BY <1>1, <1>4, ProdMono
<1>6. PICK a \in Nat, n \in Nat, h \in Nat :
        a = s * su.code.l /\ n = su.x * su.code.k /\ h = su.x * su.code.l
  BY <1>1, <1>5
<1>7. a + su.code.l <= h
  BY <1>5, <1>6
<1>8. Slot(su, s, su.code.k + su.code.g + j) = n + su.code.g + (a + j)
  <2>1. (su.code.k + su.code.g + j) - su.code.k - su.code.g = j
    BY <1>1, <1>4
  <2>2. Slot(su, s, su.code.k + su.code.g + j) = n + su.code.g + a + j
    BY <1>3, <1>6, <2>1
  <2> QED
    BY <1>1, <1>4, <2>2
<1>9. a + j \in Nat /\ a + j < h
  BY <1>1, <1>4, <1>7
<1> QED
  BY <1>2, <1>6, <1>8, <1>9

\* A local parity block has a number among them.
LEMMA LocalNumber ==
  ASSUME NEW su \in Setups, su.code \in LrCodes, NEW b \in Locals(su.code)
  PROVE  \E j \in 0 .. su.code.l - 1 : b = su.code.k + su.code.g + j
<1>1. su.code.k \in Nat /\ su.code.g \in Nat /\ su.code.l \in Nat
  BY FlatCode DEF LrCodes
<1>2. PICK j \in 0 .. su.code.l - 1 : j = b - su.code.k - su.code.g
  BY <1>1 DEF Locals
<1> QED
  BY <1>1, <1>2 DEF Locals

\* The blocks of the merged code, data first.
LEMMA FlatBlocks ==
  ASSUME NEW su \in Setups, su.code \in RsCodes \cup LrCodes
  PROVE  BlocksOf(MergedCode(su)) =
           IF su.code.type = "RS" THEN 0 .. su.x * su.code.k + su.code.m - 1
           ELSE 0 .. su.x * su.code.k + su.code.g + su.x * su.code.l - 1
<1>1. /\ MergedCode(su).type = su.code.type /\ su.code.type \in {"RS", "AZURE_LRC"}
      /\ MergedCode(su).k = su.x * su.code.k
      /\ su.code.type = "RS" => MergedCode(su).m = su.code.m
      /\ su.code.type = "AZURE_LRC" => /\ MergedCode(su).l = su.x * su.code.l
                                       /\ MergedCode(su).g = su.code.g
  BY FlatCode
<1>2. Size(MergedCode(su)) = IF su.code.type = "RS" THEN MergedCode(su).k + MergedCode(su).m
                             ELSE MergedCode(su).k + MergedCode(su).g + MergedCode(su).l
  BY <1>1 DEF Size, PcTypes
<1>3. CASE su.code.type = "RS"
  <2>1. Size(MergedCode(su)) = su.x * su.code.k + su.code.m
    BY <1>1, <1>2, <1>3
  <2> QED
    BY <1>3, <2>1, FlatCode DEF BlocksOf
<1>4. CASE su.code.type = "AZURE_LRC"
  <2>1. Size(MergedCode(su)) = su.x * su.code.k + su.code.g + su.x * su.code.l
    BY <1>1, <1>2, <1>4
  <2> QED
    <3>1. PICK n \in Nat, h \in Nat, g \in Nat :
            n = su.x * su.code.k /\ h = su.x * su.code.l /\ g = su.code.g
      BY <1>4, FlatCode
    <3> QED
      BY <1>4, <2>1, <3>1 DEF BlocksOf
<1> QED
  BY <1>1, <1>3, <1>4

\* The new parity blocks of a code whose blocks are in a line.
LEMMA FlatParity ==
  ASSUME NEW su \in Setups, su.code \in RsCodes \cup LrCodes, NEW q \in NewParities(su)
  PROVE  \E i \in 0 .. (IF su.code.type = "RS" THEN su.code.m ELSE su.code.g) - 1 :
           q = RsParity(su, i) /\ q.slot = su.x * su.code.k + i
<1>1. su.code.type \notin PcTypes
  BY FlatCode
<1>2. NewParities(su) = RsParities(su)
  BY <1>1 DEF NewParities
<1>3. PICK i \in 0 .. (IF su.code.type = "RS" THEN su.code.m ELSE su.code.g) - 1 :
        q = RsParity(su, i)
  BY <1>2 DEF RsParities
<1> QED
  BY <1>3, ParityFields

\* Reed-Solomon and Azure LRC: every new parity block has a slot of its own.
LEMMA FlatSeated ==
  ASSUME NEW su \in Setups, su.code \in RsCodes \cup LrCodes
  PROVE  Seated(su)
<1>1. /\ su.code.k \in Nat /\ su.x * su.code.k \in Nat /\ su.code.type \in {"RS", "AZURE_LRC"}
      /\ su.code.type = "RS" => su.code.m \in Nat
      /\ su.code.type = "AZURE_LRC" => su.code.g \in Nat /\ su.x * su.code.l \in Nat
  BY FlatCode
<1>2. PICK n \in Nat : n = su.x * su.code.k
  BY <1>1
<1>3. ParitySlots(su) \subseteq BlocksOf(MergedCode(su))
  <2> SUFFICES ASSUME NEW q \in NewParities(su)
               PROVE  q.slot \in BlocksOf(MergedCode(su))
    BY DEF ParitySlots
  <2>1. PICK i \in 0 .. (IF su.code.type = "RS" THEN su.code.m ELSE su.code.g) - 1 : q.slot = n + i
    BY <1>2, FlatParity
  <2>2. CASE su.code.type = "RS"
    BY <1>1, <1>2, <2>1, <2>2, FlatBlocks
  <2>3. CASE su.code.type = "AZURE_LRC"
    <3>1. PICK h \in Nat : h = su.x * su.code.l
      BY <1>1, <2>3
    <3>2. BlocksOf(MergedCode(su)) = 0 .. n + su.code.g + h - 1
      BY <1>2, <2>3, <3>1, FlatBlocks
    <3> QED
      BY <1>1, <2>1, <2>3, <3>2
  <2> QED
    BY <1>1, <2>2, <2>3
<1>4. ASSUME NEW p \in NewParities(su), NEW q \in NewParities(su), p.slot = q.slot PROVE p = q
  <2> DEFINE N == IF su.code.type = "RS" THEN su.code.m ELSE su.code.g
  <2>1. PICK i \in 0 .. N - 1 : p = RsParity(su, i) /\ p.slot = n + i
    BY <1>2, FlatParity
  <2>2. PICK j \in 0 .. N - 1 : q = RsParity(su, j) /\ q.slot = n + j
    BY <1>2, FlatParity
  <2>3. N \in Nat
    BY <1>1
  <2> HIDE DEF N
  <2>4. i = j
    BY <1>4, <2>1, <2>2, <2>3
  <2> QED
    BY <2>1, <2>2, <2>4
<1> QED
  BY <1>3, <1>4 DEF Seated

\* Reed-Solomon and Azure LRC: every kept block has a slot of its own.
LEMMA FlatNumbered ==
  ASSUME NEW su \in Setups, su.code \in RsCodes \cup LrCodes
  PROVE  Numbered(su)
<1>1. /\ su.code.k \in Nat /\ su.code.k \in Pos /\ su.x \in Nat
      /\ su.x * su.code.k \in Nat /\ su.code.type \in {"RS", "AZURE_LRC"}
      /\ su.code.type = "RS" => su.code.m \in Nat /\ Kept(su) = 0 .. su.code.k - 1
      /\ su.code.type = "AZURE_LRC" =>
           /\ su.code.g \in Nat /\ su.x * su.code.l \in Nat /\ su.code.l \in Pos
           /\ Kept(su) = (0 .. su.code.k - 1) \cup Locals(su.code)
  BY FlatCode
<1>2. PICK n \in Nat : n = su.x * su.code.k
  BY <1>1
<1>3. ASSUME NEW x \in KeptBlocks(su)
      PROVE  \/ /\ x[2] \in 0 .. su.code.k - 1 /\ SlotOf(su, x) = x[1] * su.code.k + x[2]
                /\ SlotOf(su, x) \in 0 .. n - 1
             \/ /\ su.code \in LrCodes
                /\ \E j \in 0 .. su.code.l - 1 :
                     /\ x[2] = su.code.k + su.code.g + j
                     /\ SlotOf(su, x) = n + su.code.g + (x[1] * su.code.l + j)
                     /\ x[1] * su.code.l + j \in Nat /\ x[1] * su.code.l + j < su.x * su.code.l
  <2>1. PICK s \in 0 .. su.x - 1, b \in Kept(su) : x = <<s, b>> /\ SlotOf(su, x) = Slot(su, s, b)
    BY DEF KeptBlocks, SlotOf
  <2>2. CASE b \in 0 .. su.code.k - 1
    BY <1>1, <1>2, <2>1, <2>2, DataSlot
  <2>3. CASE b \notin 0 .. su.code.k - 1
    <3>1. su.code.type = "AZURE_LRC" /\ su.code \in LrCodes /\ b \in Locals(su.code)
      BY <1>1, <2>3, KindOfCode
    <3>2. PICK j \in 0 .. su.code.l - 1 : b = su.code.k + su.code.g + j
      BY <3>1, LocalNumber
    <3> QED
      BY <1>2, <2>1, <3>1, <3>2, LocalSlot
  <2> QED
    BY <2>2, <2>3
<1>4. ASSUME NEW x \in KeptBlocks(su)
      PROVE  SlotOf(su, x) \in BlocksOf(MergedCode(su)) /\ SlotOf(su, x) \notin ParitySlots(su)
  <2>1. \A p \in ParitySlots(su) :
          \E i \in 0 .. (IF su.code.type = "RS" THEN su.code.m ELSE su.code.g) - 1 : p = n + i
    BY <1>2, FlatParity DEF ParitySlots
  <2>2. CASE SlotOf(su, x) \in 0 .. n - 1
    <3>1. SlotOf(su, x) \notin ParitySlots(su)
      BY <1>1, <2>1, <2>2
    <3>2. CASE su.code.type = "RS"
      BY <1>1, <1>2, <2>2, <3>1, <3>2, FlatBlocks
    <3>3. CASE su.code.type = "AZURE_LRC"
      <4>1. PICK h \in Nat : h = su.x * su.code.l
        BY <1>1, <3>3
      <4>2. BlocksOf(MergedCode(su)) = 0 .. n + su.code.g + h - 1
        BY <1>2, <3>3, <4>1, FlatBlocks
      <4> QED
        BY <1>1, <2>2, <3>1, <3>3, <4>2
    <3> QED
      BY <1>1, <3>2, <3>3
  <2>3. CASE SlotOf(su, x) \notin 0 .. n - 1
    <3>1. PICK j \in 0 .. su.code.l - 1 :
                     /\ SlotOf(su, x) = n + su.code.g + (x[1] * su.code.l + j)
                     /\ x[1] * su.code.l + j \in Nat /\ x[1] * su.code.l + j < su.x * su.code.l
      BY <1>3, <2>3
    <3>2. su.code.type = "AZURE_LRC"
      BY <1>3, <2>3, KindOfCode
    <3>3. PICK h \in Nat, t \in Nat : h = su.x * su.code.l /\ t = x[1] * su.code.l + j
      BY <1>1, <3>1, <3>2
    <3>4. BlocksOf(MergedCode(su)) = 0 .. n + su.code.g + h - 1
      BY <1>2, <3>2, <3>3, FlatBlocks
    <3>5. SlotOf(su, x) = n + su.code.g + t /\ t < h /\ su.code.g \in Nat
      BY <1>1, <3>1, <3>2, <3>3
    <3>6. SlotOf(su, x) \notin ParitySlots(su)
      BY <2>1, <3>2, <3>5
    <3> QED
      BY <3>4, <3>5, <3>6
  <2> QED
    BY <2>2, <2>3
<1>5. ASSUME NEW x \in KeptBlocks(su), NEW y \in KeptBlocks(su), SlotOf(su, x) = SlotOf(su, y)
      PROVE  x = y
  <2>0. x = <<x[1], x[2]>> /\ y = <<y[1], y[2]>> /\ x[1] \in Nat /\ y[1] \in Nat
    BY <1>1 DEF KeptBlocks
  <2>1. CASE SlotOf(su, x) \in 0 .. n - 1
    <3>1. /\ x[2] \in 0 .. su.code.k - 1 /\ SlotOf(su, x) = x[1] * su.code.k + x[2]
          /\ y[2] \in 0 .. su.code.k - 1 /\ SlotOf(su, y) = y[1] * su.code.k + y[2]
      <4>1. \A t : su.code \in LrCodes /\ t \in Nat => n + su.code.g + t \notin 0 .. n - 1
        BY <1>1, KindOfCode
      <4> QED
        BY <1>3, <1>5, <2>1, <4>1
    <3>2. x[1] * su.code.k + x[2] = y[1] * su.code.k + y[2]
      BY <1>5, <3>1
    <3>3. x[1] = y[1] /\ x[2] = y[2]
      BY ONLY <1>1, <2>0, <3>1, <3>2, DivDiffer
    <3> QED
      BY <2>0, <3>3
  <2>2. CASE SlotOf(su, x) \notin 0 .. n - 1
    <3>1. PICK i \in 0 .. su.code.l - 1 :
                     /\ x[2] = su.code.k + su.code.g + i /\ su.code \in LrCodes
                     /\ SlotOf(su, x) = n + su.code.g + (x[1] * su.code.l + i)
                     /\ x[1] * su.code.l + i \in Nat
      BY <1>3, <2>2
    <3>2. PICK j \in 0 .. su.code.l - 1 :
                     /\ y[2] = su.code.k + su.code.g + j
                     /\ SlotOf(su, y) = n + su.code.g + (y[1] * su.code.l + j)
                     /\ y[1] * su.code.l + j \in Nat
      BY <1>3, <1>5, <2>2
    <3>3. su.code.g \in Nat /\ su.code.l \in Pos
      BY <1>1, <3>1, KindOfCode
    <3>4. x[1] * su.code.l + i = y[1] * su.code.l + j
      <4>1. PICK a \in Nat, b \in Nat : a = x[1] * su.code.l + i /\ b = y[1] * su.code.l + j
        BY <3>1, <3>2
      <4>2. n + su.code.g + a = n + su.code.g + b
        BY <1>5, <3>1, <3>2, <4>1
      <4>3. a = b
        BY ONLY <3>3, <4>2, n \in Nat, a \in Nat, b \in Nat
      <4> QED
        BY <4>1, <4>3
    <3>5. x[1] = y[1] /\ i = j
      BY <2>0, <3>3, <3>4, DivDiffer
    <3> QED
      BY <2>0, <3>1, <3>2, <3>5
  <2> QED
    BY <2>1, <2>2
<1> QED
  BY <1>4, <1>5 DEF Numbered

----------------------------------------------------------------------------
(* The slots of a grid.                                                     *)

\* Every block of a full grid is in a cell.
LEMMA CellOfBlock ==
  ASSUME NEW c \in PcCodes, c.type = "PC", NEW b \in BlocksOf(c)
  PROVE  \E row \in Rows(c), col \in Columns(c) : b = rowcol2bid(c, row, col)
<1>1. /\ c.k1 \in Nat /\ c.m1 \in Nat /\ c.k2 \in Nat /\ c.m2 \in Nat
  BY PcParts
<1>2. PICK h \in Nat, w \in Nat : h = c.k2 + c.m2 /\ w = c.k1 + c.m1
  BY <1>1
<1>3. Rows(c) = 0 .. h - 1 /\ Columns(c) = 0 .. w - 1
  <2>1. Rows(c) = 0 .. h - 1
    BY <1>1, <1>2 DEF Rows
  <2>2. Columns(c) = 0 .. w - 1
    BY <1>1, <1>2 DEF Columns
  <2> QED
    BY <2>1, <2>2
<1>4. /\ IsFiniteSet(Rows(c)) /\ Cardinality(Rows(c)) = h
      /\ IsFiniteSet(Columns(c)) /\ Cardinality(Columns(c)) = w
  BY <1>2, <1>3, Intervals
<1>5. PICK n \in Nat : n = Size(c) /\ n = h * w
  BY <1>2, PcSize
<1>6. IsFiniteSet(BlocksOf(c)) /\ Cardinality(BlocksOf(c)) = n
  BY <1>5, Intervals DEF BlocksOf
<1> DEFINE G == Rows(c) \X Columns(c)
           f == [x \in G |-> rowcol2bid(c, x[1], x[2])]
<1>7. IsFiniteSet(G) /\ Cardinality(G) = Cardinality(Rows(c)) * Cardinality(Columns(c))
  BY <1>4, FS_Product
<1>8. Cardinality(G) = Cardinality(BlocksOf(c))
  BY <1>4, <1>5, <1>6, <1>7
<1>9. f \in [G -> BlocksOf(c)]
  BY GridTrip
<1>10. ASSUME NEW x \in G, NEW y \in G, f[x] = f[y] PROVE x = y
  <2>1. bid2rowcol(c, f[x]) = <<x[1], x[2]>> /\ bid2rowcol(c, f[y]) = <<y[1], y[2]>>
    BY GridTrip
  <2> QED
    BY <1>10, <2>1
<1>11. f \in Injection(G, BlocksOf(c))
  BY <1>9, <1>10 DEF Injection, IsInjective
<1>12. f \in Surjection(G, BlocksOf(c))
  BY <1>6, <1>7, <1>8, <1>11, FS_Injection
<1>13. PICK x \in G : f[x] = b
  BY <1>12 DEF Surjection
<1> QED
  BY <1>13

\* Where a cell of the s-th stripe is in the merged grid.
MergedRow(su, s, row) == IF Vertical(su) THEN row + s * su.code.k2 ELSE row
MergedCol(su, s, col) == IF Vertical(su) THEN col ELSE col + s * su.code.k1

\* The cells of a stripe that are kept, by their coordinates.
KeptCell(su, row, col) ==
  /\ row \in Rows(su.code) /\ col \in Columns(su.code)
  /\ IF Vertical(su) THEN row < su.code.k2 ELSE col < su.code.k1

\* A kept cell and where it goes: it stays among the rows, or columns, with data.
LEMMA CellSlot ==
  ASSUME NEW su \in Setups, su.code \in PcCodes, su.code.type = "PC",
         NEW s \in 0 .. su.x - 1, NEW row, NEW col, KeptCell(su, row, col)
  PROVE  /\ rowcol2bid(su.code, row, col) \in Kept(su)
         /\ Slot(su, s, rowcol2bid(su.code, row, col)) =
              rowcol2bid(MergedCode(su), MergedRow(su, s, row), MergedCol(su, s, col))
         /\ MergedRow(su, s, row) \in Rows(MergedCode(su))
         /\ MergedCol(su, s, col) \in Columns(MergedCode(su))
         /\ IF Vertical(su) THEN MergedRow(su, s, row) < MergedCode(su).k2
                            ELSE MergedCol(su, s, col) < MergedCode(su).k1
<1> DEFINE c == su.code
           new == MergedCode(su)
<1>1. /\ c.k1 \in Nat /\ c.m1 \in Nat /\ c.k2 \in Nat /\ c.m2 \in Nat /\ su.x \in Nat
      /\ c.k1 > 0 /\ c.m1 > 0 /\ c.k2 > 0 /\ c.m2 > 0 /\ c.type \in PcTypes /\ c.type # "RS"
  BY PcParts, SetupType DEF PcTypes
<1>2. /\ new.m1 = c.m1 /\ new.m2 = c.m2
      /\ Vertical(su) => new.k1 = c.k1 /\ new.k2 = c.k2 * su.x
      /\ ~Vertical(su) => new.k1 = c.k1 * su.x /\ new.k2 = c.k2
  BY MergedPc
<1>3. row \in Rows(c) /\ col \in Columns(c)
  BY DEF KeptCell
<1>4. rowcol2bid(c, row, col) \in Kept(su)
  <2>1. rowcol2bid(c, row, col) \in BlocksOf(c)
    BY <1>3, GridTrip
  <2>2. Row(su, rowcol2bid(c, row, col)) = row /\ Col(su, rowcol2bid(c, row, col)) = col
    BY <1>3, GridTrip DEF Row, Col
  <2>3. Kept(su) = {b \in BlocksOf(c) : IF Vertical(su) THEN Row(su, b) < c.k2 ELSE Col(su, b) < c.k1}
    BY <1>1 DEF Kept
  <2> QED
    BY <2>1, <2>2, <2>3 DEF KeptCell
<1>5. Slot(su, s, rowcol2bid(c, row, col)) = rowcol2bid(new, MergedRow(su, s, row), MergedCol(su, s, col))
  BY <1>3, PcSlot DEF MergedRow, MergedCol
<1>6. s \in Nat /\ s < su.x
  BY <1>1
<1>7. CASE Vertical(su)
  <2>1. row \in Nat /\ row < c.k2
    BY <1>1, <1>3, <1>7 DEF KeptCell, Rows
  <2>2. s * c.k2 \in Nat /\ s * c.k2 + c.k2 <= su.x * c.k2
    BY <1>1, <1>6, ProdMono
  <2>3. PICK a \in Nat, n \in Nat : a = s * c.k2 /\ n = su.x * c.k2 /\ n = c.k2 * su.x
    BY <1>1, <2>2, ProdNat
  <2>4. MergedRow(su, s, row) = row + a /\ a + c.k2 <= n /\ new.k2 = n /\ new.m2 = c.m2
    BY <1>2, <1>7, <2>2, <2>3 DEF MergedRow
  <2>5. MergedRow(su, s, row) \in Rows(new) /\ MergedRow(su, s, row) < new.k2
    BY <1>1, <2>1, <2>4 DEF Rows
  <2>6. MergedCol(su, s, col) \in Columns(new)
    BY <1>2, <1>3, <1>7 DEF MergedCol, Columns
  <2> QED
    BY <1>4, <1>5, <1>7, <2>5, <2>6
<1>8. CASE ~Vertical(su)
  <2>1. col \in Nat /\ col < c.k1
    BY <1>1, <1>3, <1>8 DEF KeptCell, Columns
  <2>2. s * c.k1 \in Nat /\ s * c.k1 + c.k1 <= su.x * c.k1
    BY <1>1, <1>6, ProdMono
  <2>3. PICK a \in Nat, n \in Nat : a = s * c.k1 /\ n = su.x * c.k1 /\ n = c.k1 * su.x
    BY <1>1, <2>2, ProdNat
  <2>4. MergedCol(su, s, col) = col + a /\ a + c.k1 <= n /\ new.k1 = n /\ new.m1 = c.m1
    BY <1>2, <1>8, <2>2, <2>3 DEF MergedCol
  <2>5. MergedCol(su, s, col) \in Columns(new) /\ MergedCol(su, s, col) < new.k1
    BY <1>1, <2>1, <2>4 DEF Columns
  <2>6. MergedRow(su, s, row) \in Rows(new)
    BY <1>2, <1>3, <1>8 DEF MergedRow, Rows
  <2> QED
    BY <1>4, <1>5, <1>8, <2>5, <2>6
<1> QED
  BY <1>7, <1>8

\* Every kept block is in a kept cell.
LEMMA CellOfKept ==
  ASSUME NEW su \in Setups, su.code \in PcCodes, su.code.type = "PC", NEW b \in Kept(su)
  PROVE  \E row \in Rows(su.code), col \in Columns(su.code) :
           b = rowcol2bid(su.code, row, col) /\ KeptCell(su, row, col)
<1>1. su.code.type \in PcTypes /\ su.code.type # "RS"
  BY DEF PcTypes
<1>2. /\ b \in BlocksOf(su.code)
      /\ IF Vertical(su) THEN Row(su, b) < su.code.k2 ELSE Col(su, b) < su.code.k1
  BY <1>1 DEF Kept
<1>3. PICK row \in Rows(su.code), col \in Columns(su.code) : b = rowcol2bid(su.code, row, col)
  BY <1>2, CellOfBlock
<1>4. Row(su, b) = row /\ Col(su, b) = col
  BY <1>3, GridTrip DEF Row, Col
<1> QED
  BY <1>2, <1>3, <1>4 DEF KeptCell

\* No two kept blocks of a product code have one slot.
LEMMA CellsDiffer ==
  ASSUME NEW su \in Setups, su.code \in PcCodes, su.code.type = "PC",
         NEW x \in KeptBlocks(su), NEW y \in KeptBlocks(su), SlotOf(su, x) = SlotOf(su, y)
  PROVE  x = y
<1> DEFINE c == su.code
           new == MergedCode(su)
<1>1. /\ c.k1 \in Nat /\ c.m1 \in Nat /\ c.k2 \in Nat /\ c.m2 \in Nat
      /\ c.k1 \in Pos /\ c.k2 \in Pos /\ su.x \in Nat /\ new \in PcCodes
  BY PcParts, SetupType, MergedPc
<1>2. /\ x = <<x[1], x[2]>> /\ x[1] \in 0 .. su.x - 1 /\ x[2] \in Kept(su)
      /\ y = <<y[1], y[2]>> /\ y[1] \in 0 .. su.x - 1 /\ y[2] \in Kept(su)
  BY DEF KeptBlocks
<1>3. PICK s \in Nat, t \in Nat : s = x[1] /\ t = y[1]
  BY <1>1, <1>2
<1>4. PICK row \in Rows(c), col \in Columns(c) : x[2] = rowcol2bid(c, row, col) /\ KeptCell(su, row, col)
  BY <1>2, CellOfKept
<1>5. PICK row2 \in Rows(c), col2 \in Columns(c) : y[2] = rowcol2bid(c, row2, col2) /\ KeptCell(su, row2, col2)
  BY <1>2, CellOfKept
<1>6. /\ SlotOf(su, x) = rowcol2bid(new, MergedRow(su, s, row), MergedCol(su, s, col))
      /\ MergedRow(su, s, row) \in Rows(new) /\ MergedCol(su, s, col) \in Columns(new)
  BY <1>2, <1>3, <1>4, CellSlot DEF SlotOf
<1>7. /\ SlotOf(su, y) = rowcol2bid(new, MergedRow(su, t, row2), MergedCol(su, t, col2))
      /\ MergedRow(su, t, row2) \in Rows(new) /\ MergedCol(su, t, col2) \in Columns(new)
  BY <1>2, <1>3, <1>5, CellSlot DEF SlotOf
<1>8. /\ MergedRow(su, s, row) = MergedRow(su, t, row2)
      /\ MergedCol(su, s, col) = MergedCol(su, t, col2)
  <2>1. bid2rowcol(new, SlotOf(su, x)) = <<MergedRow(su, s, row), MergedCol(su, s, col)>>
    BY <1>1, <1>6, GridTrip
  <2>2. bid2rowcol(new, SlotOf(su, y)) = <<MergedRow(su, t, row2), MergedCol(su, t, col2)>>
    BY <1>1, <1>7, GridTrip
  <2> QED
    BY <2>1, <2>2
<1>9. CASE Vertical(su)
  <2>1. row + s * c.k2 = row2 + t * c.k2 /\ col = col2
    BY <1>8, <1>9 DEF MergedRow, MergedCol
  <2>2. row \in 0 .. c.k2 - 1 /\ row2 \in 0 .. c.k2 - 1
    BY <1>1, <1>4, <1>5, <1>9 DEF KeptCell, Rows
  <2>3. s * c.k2 + row = t * c.k2 + row2
    BY <1>1, <2>1, <2>2
  <2>4. s = t /\ row = row2
    BY ONLY <1>1, <2>2, <2>3, s \in Nat, t \in Nat, DivDiffer
  <2> QED
    BY <1>2, <1>3, <1>4, <1>5, <2>1, <2>4
<1>10. CASE ~Vertical(su)
  <2>1. col + s * c.k1 = col2 + t * c.k1 /\ row = row2
    BY <1>8, <1>10 DEF MergedRow, MergedCol
  <2>2. col \in 0 .. c.k1 - 1 /\ col2 \in 0 .. c.k1 - 1
    BY <1>1, <1>4, <1>5, <1>10 DEF KeptCell, Columns
  <2>3. s * c.k1 + col = t * c.k1 + col2
    BY <1>1, <2>1, <2>2
  <2>4. s = t /\ col = col2
    BY ONLY <1>1, <2>2, <2>3, s \in Nat, t \in Nat, DivDiffer
  <2> QED
    BY <1>2, <1>3, <1>4, <1>5, <2>1, <2>4
<1> QED
  BY <1>9, <1>10

\* A new parity block of a row of the merged grid is in its cell.
LEMMA RowParityCell ==
  ASSUME NEW su \in Setups, su.code \in PcCodes, su.code.type = "PC", ~Vertical(su),
         NEW row \in Rows(su.code), NEW i \in 0 .. su.code.m1 - 1
  PROVE  /\ PcRowParity(su, row, i).slot =
              rowcol2bid(MergedCode(su), row, MergedCode(su).k1 + i)
         /\ row \in Rows(MergedCode(su))
         /\ MergedCode(su).k1 + i \in Columns(MergedCode(su))
<1> DEFINE c == su.code
           new == MergedCode(su)
<1>1. /\ c.k1 \in Nat /\ c.m1 \in Nat /\ c.k2 \in Nat /\ c.m2 \in Nat
      /\ new.k1 \in Nat /\ new.m1 = c.m1 /\ new.k2 = c.k2 /\ new.m2 = c.m2
  BY PcParts, MergedPc
<1>2. row \in Rows(new) /\ new.k1 + i \in Columns(new) /\ row \in Nat
  BY <1>1 DEF Rows, Columns
<1>3. PcRowParity(su, row, i).slot = RowParitySlot(new, row, i)
  BY ParityFields
<1>4. PICK w \in Nat, h \in Nat, m \in Nat, g \in Nat :
        w = new.k1 /\ h = new.k2 /\ m = new.m1 /\ g = new.m2
  BY <1>1
<1>5. ~(new.k1 + i < new.k1) /\ new.k1 + i >= new.k1 /\ (new.k1 + i) - new.k1 = i
  BY <1>1
<1>6. CASE row < new.k2
  <2>1. ~(row >= new.k2)
    BY <1>1, <1>2, <1>6
  <2>2. rowcol2bid(new, row, new.k1 + i) = new.k1 * new.k2 + row * new.m1 + i
    BY <1>5, <1>6, <2>1 DEF rowcol2bid
  <2>3. RowParitySlot(new, row, i) = new.k2 * new.k1 + row * new.m1 + i
    BY <1>6 DEF RowParitySlot
  <2>4. new.k2 * new.k1 = new.k1 * new.k2
    BY <1>1, ProdNat
  <2> QED
    BY <1>2, <1>3, <2>2, <2>3, <2>4
<1>7. CASE ~(row < new.k2)
  <2>1. row >= new.k2
    BY <1>1, <1>2, <1>7
  <2>2. rowcol2bid(new, row, new.k1 + i) =
          (new.k1 + new.m1) * new.k2 + new.k1 * new.m2 + (row - new.k2) * new.m1 + i
    BY <1>5, <1>7, <2>1 DEF rowcol2bid
  <2>3. RowParitySlot(new, row, i) =
          new.k2 * (new.k1 + new.m1) + new.m2 * new.k1 + (row - new.k2) * new.m1 + i
    BY <1>7 DEF RowParitySlot
  <2>4. new.k2 * (new.k1 + new.m1) = (new.k1 + new.m1) * new.k2 /\ new.m2 * new.k1 = new.k1 * new.m2
    BY ONLY <1>1, ProdNat, new.k1 + new.m1 \in Nat
  <2> QED
    BY <1>2, <1>3, <2>2, <2>3, <2>4
<1> QED
  BY <1>2, <1>6, <1>7

\* A new parity block of the one row of column parities is in its cell.
LEMMA ColumnParityCell ==
  ASSUME NEW su \in Setups, su.code \in PcCodes, su.code.type = "PC", Vertical(su),
         su.code.m2 = 1, NEW col \in Columns(su.code), NEW i \in 0 .. su.code.m2 - 1
  PROVE  /\ PcColumnParity(su, col, i).slot = rowcol2bid(MergedCode(su), MergedCode(su).k2, col)
         /\ MergedCode(su).k2 \in Rows(MergedCode(su)) /\ col \in Columns(MergedCode(su))
         /\ i = 0
<1> DEFINE c == su.code
           new == MergedCode(su)
<1>1. /\ c.k1 \in Nat /\ c.m1 \in Nat /\ new.k2 \in Nat /\ i = 0
      /\ new.k1 = c.k1 /\ new.m1 = c.m1 /\ new.m2 = 1
  BY PcParts, MergedPc
<1>2. new.k2 \in Rows(new) /\ col \in Columns(new) /\ col \in Nat
  BY <1>1 DEF Rows, Columns
<1>3. PcColumnParity(su, col, i).slot = new.k2 * (new.k1 + new.m1) + i * new.k1 + col
  BY ParityFields
<1>4. PICK K \in Nat : K = new.k2 * (new.k1 + new.m1) /\ K = (new.k1 + new.m1) * new.k2
  BY <1>1, ProdNat
<1>5. i * new.k1 = 0
  BY <1>1
<1>6. PcColumnParity(su, col, i).slot = K + col
  BY <1>2, <1>3, <1>4, <1>5
<1>7. ~(new.k2 < new.k2) /\ new.k2 >= new.k2 /\ new.k2 - new.k2 = 0
  BY <1>1
<1>8. rowcol2bid(new, new.k2, col) = K + col
  <2>1. CASE col < new.k1
    <3>1. ~(col >= new.k1)
      BY <1>1, <1>2, <2>1
    <3>2. rowcol2bid(new, new.k2, col) = (new.k1 + new.m1) * new.k2 + (new.k2 - new.k2) * new.k1 + col
      BY <1>7, <2>1, <3>1 DEF rowcol2bid
    <3>3. (new.k2 - new.k2) * new.k1 = 0
      BY <1>1, <1>7
    <3> QED
      BY <1>2, <1>4, <3>2, <3>3
  <2>2. CASE ~(col < new.k1)
    <3>2. rowcol2bid(new, new.k2, col) =
            (new.k1 + new.m1) * new.k2 + new.k1 * new.m2 + (new.k2 - new.k2) * new.m1 + (col - new.k1)
      BY <1>7, <2>2 DEF rowcol2bid
    <3>3. (new.k2 - new.k2) * new.m1 = 0 /\ new.k1 * new.m2 = new.k1
      BY <1>1, <1>7
    <3>4. rowcol2bid(new, new.k2, col) = K + new.k1 + 0 + (col - new.k1)
      BY <1>4, <3>2, <3>3
    <3> QED
      BY <1>1, <1>2, <3>4
  <2> QED
    BY <2>1, <2>2
<1> QED
  BY <1>1, <1>2, <1>6, <1>8

\* The new parity blocks of a mergeable product code, by their cells.
LEMMA PcParityCells ==
  ASSUME NEW su \in Setups, su.code \in PcCodes, Mergeable(su), NEW q \in NewParities(su)
  PROVE  \/ /\ Vertical(su)
            /\ \E col \in Columns(su.code) :
                 /\ q = PcColumnParity(su, col, 0) /\ col \in Columns(MergedCode(su))
                 /\ q.slot = rowcol2bid(MergedCode(su), MergedCode(su).k2, col)
                 /\ MergedCode(su).k2 \in Rows(MergedCode(su))
         \/ /\ ~Vertical(su)
            /\ \E row \in Rows(su.code), i \in 0 .. su.code.m1 - 1 :
                 /\ q = PcRowParity(su, row, i) /\ row \in Rows(MergedCode(su))
                 /\ q.slot = rowcol2bid(MergedCode(su), row, MergedCode(su).k1 + i)
                 /\ MergedCode(su).k1 + i \in Columns(MergedCode(su))
<1>1. su.code.type \in PcTypes /\ su.code.type # "RS" /\ su.code.type = "PC"
      /\ (Vertical(su) => su.code.m2 = 1)
  BY PcParts DEF Mergeable, PcTypes
<1>2. NewParities(su) = IF Vertical(su) THEN PcColumnParities(su) ELSE PcRowParities(su)
  BY <1>1 DEF NewParities
<1>3. CASE Vertical(su)
  <2>1. PICK col \in Columns(su.code), i \in 0 .. su.code.m2 - 1 : q = PcColumnParity(su, col, i)
    BY <1>2, <1>3 DEF PcColumnParities
  <2>2. /\ q.slot = rowcol2bid(MergedCode(su), MergedCode(su).k2, col) /\ i = 0
        /\ MergedCode(su).k2 \in Rows(MergedCode(su)) /\ col \in Columns(MergedCode(su))
    BY <1>1, <1>3, <2>1, ColumnParityCell
  <2> QED
    BY <1>3, <2>1, <2>2
<1>4. CASE ~Vertical(su)
  <2>1. PICK row \in Rows(su.code), i \in 0 .. su.code.m1 - 1 : q = PcRowParity(su, row, i)
    BY <1>2, <1>4 DEF PcRowParities
  <2> QED
    BY <1>1, <1>4, <2>1, RowParityCell
<1> QED
  BY <1>3, <1>4

\* Product codes: every block has a slot of its own.
LEMMA PcSeated ==
  ASSUME NEW su \in Setups, su.code \in PcCodes, Mergeable(su)
  PROVE  Seated(su)
<1> DEFINE new == MergedCode(su)
<1>1. new \in PcCodes /\ new.type = "PC" /\ new.k1 \in Nat /\ su.code.m1 \in Nat
  BY PcParts, MergedPc DEF Mergeable, PcTypes
<1>2. ASSUME NEW q \in NewParities(su) PROVE q.slot \in BlocksOf(new)
  BY <1>1, PcParityCells, GridTrip
<1>3. ASSUME NEW p \in NewParities(su), NEW q \in NewParities(su), p.slot = q.slot PROVE p = q
  <2>1. CASE Vertical(su)
    <3>1. PICK col \in Columns(su.code) :
                 /\ p = PcColumnParity(su, col, 0) /\ col \in Columns(new)
                 /\ p.slot = rowcol2bid(new, new.k2, col) /\ new.k2 \in Rows(new)
      BY <2>1, PcParityCells
    <3>2. PICK col2 \in Columns(su.code) :
                 /\ q = PcColumnParity(su, col2, 0) /\ col2 \in Columns(new)
                 /\ q.slot = rowcol2bid(new, new.k2, col2)
      BY <2>1, PcParityCells
    <3>3. bid2rowcol(new, p.slot) = <<new.k2, col>> /\ bid2rowcol(new, q.slot) = <<new.k2, col2>>
      BY <1>1, <3>1, <3>2, GridTrip
    <3>4. col = col2
      BY <1>3, <3>3
    <3> QED
      BY <3>1, <3>2, <3>4
  <2>2. CASE ~Vertical(su)
    <3>1. PICK row \in Rows(su.code), i \in 0 .. su.code.m1 - 1 :
                 /\ p = PcRowParity(su, row, i) /\ row \in Rows(new)
                 /\ p.slot = rowcol2bid(new, row, new.k1 + i) /\ new.k1 + i \in Columns(new)
      BY <2>2, PcParityCells
    <3>2. PICK row2 \in Rows(su.code), j \in 0 .. su.code.m1 - 1 :
                 /\ q = PcRowParity(su, row2, j) /\ row2 \in Rows(new)
                 /\ q.slot = rowcol2bid(new, row2, new.k1 + j) /\ new.k1 + j \in Columns(new)
      BY <2>2, PcParityCells
    <3>3. /\ bid2rowcol(new, p.slot) = <<row, new.k1 + i>>
          /\ bid2rowcol(new, q.slot) = <<row2, new.k1 + j>>
      BY <1>1, <3>1, <3>2, GridTrip
    <3>4. row = row2 /\ new.k1 + i = new.k1 + j
      BY <1>3, <3>3
    <3>5. i = j
      BY <1>1, <3>4
    <3> QED
      BY <3>1, <3>2, <3>4, <3>5
  <2> QED
    BY <2>1, <2>2
<1> QED
  BY <1>2, <1>3 DEF Seated, ParitySlots

\* Product codes: every kept block has a slot of its own.
LEMMA PcNumbered ==
  ASSUME NEW su \in Setups, su.code \in PcCodes, Mergeable(su)
  PROVE  Numbered(su)
<1> DEFINE new == MergedCode(su)
<1>1. /\ new \in PcCodes /\ new.type = "PC" /\ su.code.type = "PC"
      /\ new.k1 \in Nat /\ new.k2 \in Nat /\ su.code.m1 \in Nat
  BY PcParts, MergedPc DEF Mergeable, PcTypes
<1>2. ASSUME NEW x \in KeptBlocks(su)
      PROVE  SlotOf(su, x) \in BlocksOf(new) /\ SlotOf(su, x) \notin ParitySlots(su)
  <2>1. x[1] \in 0 .. su.x - 1 /\ x[2] \in Kept(su)
    BY DEF KeptBlocks
  <2>2. PICK row \in Rows(su.code), col \in Columns(su.code) :
          x[2] = rowcol2bid(su.code, row, col) /\ KeptCell(su, row, col)
    BY <1>1, <2>1, CellOfKept
  <2>3. PICK r2 \in Rows(new), c2 \in Columns(new) :
          /\ SlotOf(su, x) = rowcol2bid(new, r2, c2)
          /\ IF Vertical(su) THEN r2 < new.k2 ELSE c2 < new.k1
    BY <1>1, <2>1, <2>2, CellSlot DEF SlotOf
  <2>4. SlotOf(su, x) \in BlocksOf(new) /\ bid2rowcol(new, SlotOf(su, x)) = <<r2, c2>>
    BY <1>1, <2>3, GridTrip
  <2>5. ASSUME NEW q \in NewParities(su) PROVE q.slot # SlotOf(su, x)
    <3>1. CASE Vertical(su)
      <4>1. bid2rowcol(new, q.slot)[1] = new.k2
        BY <1>1, <3>1, PcParityCells, GridTrip
      <4>2. r2 < new.k2 /\ r2 \in Int
        BY <2>3, <3>1 DEF Rows
      <4> QED
        BY <1>1, <2>4, <4>1, <4>2
    <3>2. CASE ~Vertical(su)
      <4>1. PICK i \in 0 .. su.code.m1 - 1 : bid2rowcol(new, q.slot)[2] = new.k1 + i
        BY <1>1, <3>2, PcParityCells, GridTrip
      <4>2. c2 < new.k1 /\ c2 \in Int
        BY <2>3, <3>2 DEF Columns
      <4> QED
        BY <1>1, <2>4, <4>1, <4>2
    <3> QED
      BY <3>1, <3>2
  <2> QED
    BY <2>4, <2>5 DEF ParitySlots
<1>3. \A x, y \in KeptBlocks(su) : SlotOf(su, x) = SlotOf(su, y) => x = y
  BY <1>1, CellsDiffer
<1> QED
  BY <1>2, <1>3 DEF Numbered

----------------------------------------------------------------------------
(* What the parity blocks are computed from.                                *)

\* A new parity block is computed from the blocks of its equation, each in its
\* position.
Computes(su, q) ==
  /\ \A a, b \in Uses(MergedCode(su), q.slot) : Position(su, a) = Position(su, b) => a = b
  /\ q.from = [p \in {Position(su, b) : b \in Uses(MergedCode(su), q.slot)} |-> q.from[p]]
  /\ \A b \in Uses(MergedCode(su), q.slot) :
       /\ q.from[Position(su, b)] \in KeptBlocks(su)
       /\ SlotOf(su, q.from[Position(su, b)]) = b

\* A parity block that is kept covers the same blocks as before.
StillCovers(su, x) ==
  /\ Uses(MergedCode(su), SlotOf(su, x)) = {Slot(su, x[1], u) : u \in Uses(su.code, x[2])}
  /\ Uses(su.code, x[2]) \subseteq Kept(su)

\* Reed-Solomon and Azure LRC: the global parity blocks.
LEMMA FlatComputes ==
  ASSUME NEW su \in Setups, su.code \in RsCodes \cup LrCodes, NEW q \in NewParities(su)
  PROVE  Computes(su, q)
<1>1. /\ su.code.k \in Nat /\ su.code.k \in Pos /\ su.x \in Nat /\ su.x * su.code.k \in Nat
      /\ su.code.type \in {"RS", "AZURE_LRC"} /\ su.code.type \notin PcTypes
      /\ MergedCode(su).k = su.x * su.code.k /\ MergedCode(su).type = su.code.type
      /\ su.code.type = "RS" => su.code.m \in Nat
      /\ su.code.type = "AZURE_LRC" => su.code.g \in Nat /\ MergedCode(su).g = su.code.g
  BY FlatCode
<1>2. PICK n \in Nat : n = su.x * su.code.k
  BY <1>1
<1>3. PICK i \in 0 .. (IF su.code.type = "RS" THEN su.code.m ELSE su.code.g) - 1 :
        q = RsParity(su, i) /\ q.slot = n + i
  BY <1>2, FlatParity
<1>4. Uses(MergedCode(su), q.slot) = 0 .. n - 1
  <2>0. ~(q.slot < MergedCode(su).k) /\ Data(MergedCode(su)) = 0 .. n - 1
    BY <1>1, <1>2, <1>3 DEF Data
  <2>1. CASE su.code.type = "RS"
    BY <1>1, <2>0, <2>1 DEF Uses, PcTypes
  <2>2. CASE su.code.type = "AZURE_LRC"
    <3>1. q.slot \in Globals(MergedCode(su))
      BY <1>1, <1>2, <1>3, <2>2 DEF Globals
    <3>2. Uses(MergedCode(su), q.slot) = Span(MergedCode(su), q.slot)
      BY <1>1, <2>0, <2>2 DEF Uses, PcTypes
    <3> QED
      BY <2>0, <3>1, <3>2 DEF Span
  <2> QED
    BY <1>1, <2>1, <2>2
<1>5. \A b : Position(su, b) = b
  BY <1>1 DEF Position
<1>6. q.from = [p \in 0 .. n - 1 |-> <<p \div su.code.k, p % su.code.k>>]
  <2>1. q.from = [p \in 0 .. su.x * su.code.k - 1 |-> <<p \div su.code.k, p % su.code.k>>]
    BY <1>3 DEF RsParity
  <2> QED
    BY <1>2, <2>1
<1>7. {Position(su, b) : b \in Uses(MergedCode(su), q.slot)} = 0 .. n - 1
  BY <1>4, <1>5
<1>8. ASSUME NEW b \in 0 .. n - 1
      PROVE  q.from[b] \in KeptBlocks(su) /\ SlotOf(su, q.from[b]) = b
  <2>1. /\ b \div su.code.k \in Nat /\ b \div su.code.k < su.x /\ b % su.code.k \in 0 .. su.code.k - 1
        /\ b = (b \div su.code.k) * su.code.k + (b % su.code.k)
    <3>1. b \in Nat /\ b < su.x * su.code.k
      BY <1>2
    <3> QED
      BY ONLY <1>1, <3>1, DivMod, DivLess
  <2>2. PICK s \in 0 .. su.x - 1, d \in 0 .. su.code.k - 1 :
          s = b \div su.code.k /\ d = b % su.code.k
    <3>1. PICK s \in Nat : s = b \div su.code.k
      BY <2>1
    <3>2. s \in 0 .. su.x - 1
      BY ONLY <1>1, <2>1, <3>1, s \in Nat
    <3> QED
      BY <2>1, <3>1, <3>2
  <2>3. q.from[b] = <<s, d>> /\ b = s * su.code.k + d
    BY <1>6, <2>1, <2>2
  <2>4. Slot(su, s, d) = b /\ d \in Kept(su)
    BY <2>3, DataSlot
  <2> QED
    BY <2>3, <2>4 DEF KeptBlocks, SlotOf
<1> QED
  BY <1>4, <1>5, <1>6, <1>7, <1>8 DEF Computes

----------------------------------------------------------------------------
(* The equations of a grid.                                                 *)

\* The equation of a block, by its cell.
LEMMA UsesOfCell ==
  ASSUME NEW c \in PcCodes, NEW row \in Rows(c), NEW col \in Columns(c)
  PROVE  /\ row < c.k2 /\ col < c.k1 => Uses(c, rowcol2bid(c, row, col)) = {}
         /\ ~(col < c.k1) /\ (row < c.k2 \/ ~Vertical(setup)) =>
              Uses(c, rowcol2bid(c, row, col)) = {rowcol2bid(c, row, p) : p \in 0 .. c.k1 - 1}
         /\ ~(row < c.k2) /\ (col < c.k1 \/ Vertical(setup)) =>
              Uses(c, rowcol2bid(c, row, col)) = {rowcol2bid(c, p, col) : p \in 0 .. c.k2 - 1}
<1>1. c.type \in PcTypes /\ c.type # "RS" /\ c.k1 \in Nat /\ c.k2 \in Nat /\ col \in Int /\ row \in Int
  BY PcParts DEF PcTypes, Rows, Columns
<1>2. PICK b : b = rowcol2bid(c, row, col)
  OBVIOUS
<1>3. bid2rowcol(c, b)[1] = row /\ bid2rowcol(c, b)[2] = col
  BY <1>2, GridTrip
<1>4. Uses(c, b) =
        CASE row < c.k2 /\ col < c.k1 -> {}
          [] col >= c.k1 /\ (row < c.k2 \/ ~Vertical(setup)) ->
                   {rowcol2bid(c, row, p) : p \in 0 .. c.k1 - 1}
          [] OTHER -> {rowcol2bid(c, p, col) : p \in 0 .. c.k2 - 1}
  BY <1>1, <1>3 DEF Uses
<1>5. col >= c.k1 <=> ~(col < c.k1)
  BY <1>1
<1> QED
  BY <1>2, <1>4, <1>5

\* The block that a position of a merged column, or row, has is a kept one.
LEMMA CellFrom ==
  ASSUME NEW su \in Setups, su.code \in PcCodes, su.code.type = "PC"
  PROVE  /\ Vertical(su) =>
              \A col \in Columns(su.code), p \in 0 .. MergedCode(su).k2 - 1 :
                LET x == <<p \div su.code.k2, rowcol2bid(su.code, p % su.code.k2, col)>>
                IN x \in KeptBlocks(su) /\ SlotOf(su, x) = rowcol2bid(MergedCode(su), p, col)
         /\ ~Vertical(su) =>
              \A row \in Rows(su.code), p \in 0 .. MergedCode(su).k1 - 1 :
                LET x == <<p \div su.code.k1, rowcol2bid(su.code, row, p % su.code.k1)>>
                IN x \in KeptBlocks(su) /\ SlotOf(su, x) = rowcol2bid(MergedCode(su), row, p)
<1> DEFINE c == su.code
           new == MergedCode(su)
<1>1. /\ c.k1 \in Nat /\ c.m1 \in Nat /\ c.k2 \in Nat /\ c.m2 \in Nat /\ su.x \in Nat
      /\ c.k1 \in Pos /\ c.k2 \in Pos
      /\ Vertical(su) => new.k2 = c.k2 * su.x
      /\ ~Vertical(su) => new.k1 = c.k1 * su.x
  BY PcParts, SetupType, MergedPc
<1>2. ASSUME NEW k \in Pos, k \in Nat, NEW p \in 0 .. k * su.x - 1
      PROVE  \E s \in 0 .. su.x - 1, b \in 0 .. k - 1 :
               p \div k = s /\ p % k = b /\ p = b + s * k
  <2>1. PICK n \in Nat : n = k * su.x /\ n = su.x * k
    BY <1>1, <1>2, ProdNat
  <2>2. p \in Nat /\ p < su.x * k
    BY <2>1
  <2>3. PICK s \in 0 .. su.x - 1, b \in 0 .. k - 1 : p = s * k + b
    <3>1. k \in Pos /\ su.x \in Nat
      BY <1>1
    <3> QED
      BY ONLY <2>2, <3>1, DivPair, Zenon
  <2>4. s \in Nat /\ k \in Nat \ {0}
    BY <1>1 DEF Pos
  <2>5. p \div k = s /\ p % k = b
    BY ONLY <2>3, <2>4, DivUnique
  <2>6. p = b + s * k
    BY <1>2, <2>3, <2>4
  <2> QED
    BY <2>5, <2>6
<1>3. ASSUME Vertical(su), NEW col \in Columns(su.code), NEW p \in 0 .. MergedCode(su).k2 - 1
      PROVE  /\ <<p \div su.code.k2, rowcol2bid(su.code, p % su.code.k2, col)>> \in KeptBlocks(su)
             /\ SlotOf(su, <<p \div su.code.k2, rowcol2bid(su.code, p % su.code.k2, col)>>)
                        = rowcol2bid(MergedCode(su), p, col)
  <2>1. PICK s \in 0 .. su.x - 1, b \in 0 .. c.k2 - 1 :
          p \div c.k2 = s /\ p % c.k2 = b /\ p = b + s * c.k2
    BY <1>1, <1>2, <1>3
  <2>2. KeptCell(su, b, col)
    BY <1>1, <1>3 DEF KeptCell, Rows
  <2>3. MergedRow(su, s, b) = p /\ MergedCol(su, s, col) = col
    BY <1>3, <2>1 DEF MergedRow, MergedCol
  <2>4. rowcol2bid(c, b, col) \in Kept(su) /\ Slot(su, s, rowcol2bid(c, b, col)) = rowcol2bid(new, p, col)
    BY <2>2, <2>3, CellSlot
  <2> QED
    BY <2>1, <2>4 DEF KeptBlocks, SlotOf
<1>4. ASSUME ~Vertical(su), NEW row \in Rows(su.code), NEW p \in 0 .. MergedCode(su).k1 - 1
      PROVE  /\ <<p \div su.code.k1, rowcol2bid(su.code, row, p % su.code.k1)>> \in KeptBlocks(su)
             /\ SlotOf(su, <<p \div su.code.k1, rowcol2bid(su.code, row, p % su.code.k1)>>)
                        = rowcol2bid(MergedCode(su), row, p)
  <2>1. PICK s \in 0 .. su.x - 1, b \in 0 .. c.k1 - 1 :
          p \div c.k1 = s /\ p % c.k1 = b /\ p = b + s * c.k1
    BY <1>1, <1>2, <1>4
  <2>2. KeptCell(su, row, b)
    BY <1>1, <1>4 DEF KeptCell, Columns
  <2>3. MergedRow(su, s, row) = row /\ MergedCol(su, s, b) = p
    BY <1>4, <2>1 DEF MergedRow, MergedCol
  <2>4. rowcol2bid(c, row, b) \in Kept(su) /\ Slot(su, s, rowcol2bid(c, row, b)) = rowcol2bid(new, row, p)
    BY <2>2, <2>3, CellSlot
  <2> QED
    BY <2>1, <2>4 DEF KeptBlocks, SlotOf
<1> QED
  BY <1>3, <1>4

\* Product codes: the new parity blocks of rows, or columns.
LEMMA PcComputes ==
  ASSUME setup \in Setups, setup.code \in PcCodes, Mergeable(setup), NEW q \in NewParities(setup)
  PROVE  Computes(setup, q)
<1> DEFINE c == setup.code
           new == MergedCode(setup)
           U == Uses(new, q.slot)
<1>1. /\ new \in PcCodes /\ c.type = "PC" /\ c.type \in PcTypes
      /\ new.k1 \in Nat /\ new.k2 \in Nat /\ new.m1 \in Nat /\ new.m2 \in Nat
  BY PcParts, MergedPc DEF Mergeable, PcTypes
<1>2. CASE Vertical(setup)
  <2>1. PICK col \in Columns(c) :
          /\ q = PcColumnParity(setup, col, 0) /\ col \in Columns(new)
          /\ q.slot = rowcol2bid(new, new.k2, col) /\ new.k2 \in Rows(new)
    BY <1>2, PcParityCells
  <2>2. U = {rowcol2bid(new, p, col) : p \in 0 .. new.k2 - 1}
    <3>1. ~(new.k2 < new.k2)
      BY <1>1
    <3> QED
      BY <1>1, <1>2, <2>1, <3>1, UsesOfCell
  <2>3. q.from = [p \in 0 .. new.k2 - 1 |-> <<p \div c.k2, rowcol2bid(c, p % c.k2, col)>>]
    BY <2>1 DEF PcColumnParity
  <2>4. ASSUME NEW p \in 0 .. new.k2 - 1 PROVE Position(setup, rowcol2bid(new, p, col)) = p
    <3>1. p \in Rows(new)
      BY <1>1 DEF Rows
    <3> QED
      BY <1>1, <1>2, <2>1, <3>1, GridTrip DEF Position
  <2>5. {Position(setup, b) : b \in U} = 0 .. new.k2 - 1
    BY <2>2, <2>4
  <2>6. \A p \in 0 .. new.k2 - 1 : q.from[p] \in KeptBlocks(setup) /\ SlotOf(setup, q.from[p]) = rowcol2bid(new, p, col)
    BY <1>1, <1>2, <2>1, <2>3, CellFrom
  <2>7. \A b \in U : q.from[Position(setup, b)] \in KeptBlocks(setup) /\ SlotOf(setup, q.from[Position(setup, b)]) = b
    BY <2>2, <2>4, <2>6
  <2>8. \A a, b \in U : Position(setup, a) = Position(setup, b) => a = b
    BY <2>2, <2>4
  <2>9. q.from = [p \in 0 .. new.k2 - 1 |-> q.from[p]]
    BY <2>3
  <2> QED
    BY <2>5, <2>7, <2>8, <2>9 DEF Computes
<1>3. CASE ~Vertical(setup)
  <2>1. PICK row \in Rows(c), i \in 0 .. c.m1 - 1 :
          /\ q = PcRowParity(setup, row, i) /\ row \in Rows(new)
          /\ q.slot = rowcol2bid(new, row, new.k1 + i) /\ new.k1 + i \in Columns(new)
    BY <1>3, PcParityCells
  <2>2. U = {rowcol2bid(new, row, p) : p \in 0 .. new.k1 - 1}
    <3>1. ~(new.k1 + i < new.k1)
      BY <1>1, <2>1
    <3> QED
      BY <1>1, <1>3, <2>1, <3>1, UsesOfCell
  <2>3. q.from = [p \in 0 .. new.k1 - 1 |-> <<p \div c.k1, rowcol2bid(c, row, p % c.k1)>>]
    BY <2>1 DEF PcRowParity
  <2>4. ASSUME NEW p \in 0 .. new.k1 - 1 PROVE Position(setup, rowcol2bid(new, row, p)) = p
    <3>1. p \in Columns(new)
      BY <1>1 DEF Columns
    <3> QED
      BY <1>1, <1>3, <2>1, <3>1, GridTrip DEF Position
  <2>5. {Position(setup, b) : b \in U} = 0 .. new.k1 - 1
    BY <2>2, <2>4
  <2>6. \A p \in 0 .. new.k1 - 1 : q.from[p] \in KeptBlocks(setup) /\ SlotOf(setup, q.from[p]) = rowcol2bid(new, row, p)
    BY <1>1, <1>3, <2>1, <2>3, CellFrom
  <2>7. \A b \in U : q.from[Position(setup, b)] \in KeptBlocks(setup) /\ SlotOf(setup, q.from[Position(setup, b)]) = b
    BY <2>2, <2>4, <2>6
  <2>8. \A a, b \in U : Position(setup, a) = Position(setup, b) => a = b
    BY <2>2, <2>4
  <2>9. q.from = [p \in 0 .. new.k1 - 1 |-> q.from[p]]
    BY <2>3
  <2> QED
    BY <2>5, <2>7, <2>8, <2>9 DEF Computes
<1> QED
  BY <1>2, <1>3

\* Product codes: the parity blocks that are kept.
LEMMA PcCovers ==
  ASSUME setup \in Setups, setup.code \in PcCodes, Mergeable(setup), NEW x \in KeptBlocks(setup)
  PROVE  StillCovers(setup, x)
<1> DEFINE c == setup.code
           new == MergedCode(setup)
<1>1. /\ new \in PcCodes /\ c.type = "PC"
      /\ c.k1 \in Nat /\ c.k2 \in Nat /\ c.m1 \in Nat /\ c.m2 \in Nat
      /\ new.k1 \in Nat /\ new.k2 \in Nat
      /\ Vertical(setup) => new.k1 = c.k1
      /\ ~Vertical(setup) => new.k2 = c.k2
  BY PcParts, MergedPc DEF Mergeable, PcTypes
<1>2. PICK s \in 0 .. setup.x - 1, row \in Rows(c), col \in Columns(c) :
        x[1] = s /\ x[2] = rowcol2bid(c, row, col) /\ KeptCell(setup, row, col)
  BY <1>1, CellOfKept DEF KeptBlocks
<1> DEFINE mr == MergedRow(setup, s, row)
           mc == MergedCol(setup, s, col)
<1>3. /\ SlotOf(setup, x) = rowcol2bid(new, mr, mc) /\ mr \in Rows(new) /\ mc \in Columns(new)
      /\ IF Vertical(setup) THEN mr < new.k2 ELSE mc < new.k1
  BY <1>1, <1>2, CellSlot DEF SlotOf
<1>4. CASE Vertical(setup) /\ ~(col < c.k1)
  <2>1. row < c.k2 /\ mc = col /\ mr < new.k2
    BY <1>2, <1>3, <1>4 DEF KeptCell, MergedCol
  <2>2. Uses(c, x[2]) = {rowcol2bid(c, row, p) : p \in 0 .. c.k1 - 1}
    BY <1>2, <1>4, <2>1, UsesOfCell
  <2>3. Uses(new, SlotOf(setup, x)) = {rowcol2bid(new, mr, p) : p \in 0 .. c.k1 - 1}
    BY <1>1, <1>3, <1>4, <2>1, UsesOfCell
  <2>4. ASSUME NEW p \in 0 .. c.k1 - 1
        PROVE  /\ rowcol2bid(c, row, p) \in Kept(setup)
               /\ Slot(setup, s, rowcol2bid(c, row, p)) = rowcol2bid(new, mr, p)
    <3>1. KeptCell(setup, row, p)
      BY <1>1, <1>4, <2>1 DEF KeptCell, Columns
    <3>2. MergedRow(setup, s, row) = mr /\ MergedCol(setup, s, p) = p
      BY <1>4 DEF MergedCol
    <3> QED
      BY <1>1, <3>1, <3>2, CellSlot
  <2> QED
    BY <1>2, <2>2, <2>3, <2>4 DEF StillCovers
<1>5. CASE ~Vertical(setup) /\ ~(row < c.k2)
  <2>1. col < c.k1 /\ mr = row /\ mc < new.k1
    BY <1>2, <1>3, <1>5 DEF KeptCell, MergedRow
  <2>2. Uses(c, x[2]) = {rowcol2bid(c, p, col) : p \in 0 .. c.k2 - 1}
    BY <1>2, <1>5, <2>1, UsesOfCell
  <2>3. Uses(new, SlotOf(setup, x)) = {rowcol2bid(new, p, mc) : p \in 0 .. c.k2 - 1}
    BY <1>1, <1>3, <1>5, <2>1, UsesOfCell
  <2>4. ASSUME NEW p \in 0 .. c.k2 - 1
        PROVE  /\ rowcol2bid(c, p, col) \in Kept(setup)
               /\ Slot(setup, s, rowcol2bid(c, p, col)) = rowcol2bid(new, p, mc)
    <3>1. KeptCell(setup, p, col)
      BY <1>1, <1>5, <2>1 DEF KeptCell, Rows
    <3>2. MergedCol(setup, s, col) = mc /\ MergedRow(setup, s, p) = p
      BY <1>5 DEF MergedRow
    <3> QED
      BY <1>1, <3>1, <3>2, CellSlot
  <2> QED
    BY <1>2, <2>2, <2>3, <2>4 DEF StillCovers
<1>6. CASE row < c.k2 /\ col < c.k1
  <2>1. mr < new.k2 /\ mc < new.k1
    BY <1>1, <1>3, <1>6 DEF MergedRow, MergedCol
  <2>2. Uses(c, x[2]) = {} /\ Uses(new, SlotOf(setup, x)) = {}
    BY <1>1, <1>2, <1>3, <1>6, <2>1, UsesOfCell
  <2> QED
    BY <2>2 DEF StillCovers
<1> QED
  BY <1>2, <1>4, <1>5, <1>6 DEF KeptCell

----------------------------------------------------------------------------
(* What the kept local parity blocks cover.                                 *)

\* The equations of the local parity blocks before the merge and after it.
LEMMA LocalSpans ==
  ASSUME NEW su \in Setups, su.code \in LrCodes, NEW s \in 0 .. su.x - 1, NEW j \in 0 .. su.code.l - 1
  PROVE  /\ Uses(su.code, su.code.k + su.code.g + j) = {b \in 0 .. su.code.k - 1 : b \div r(su.code) = j}
         /\ Uses(MergedCode(su), Slot(su, s, su.code.k + su.code.g + j)) =
              {b \in 0 .. su.x * su.code.k - 1 : b \div r(su.code) = s * su.code.l + j}
<1> DEFINE c == su.code
           new == MergedCode(su)
<1>1. /\ c.k \in Nat /\ c.g \in Nat /\ c.l \in Nat /\ c.l \in Pos /\ c.type = "AZURE_LRC"
      /\ new.k = su.x * c.k /\ new.l = su.x * c.l /\ new.g = c.g /\ new.type = "AZURE_LRC"
      /\ su.x \in Nat /\ su.x * c.k \in Nat /\ su.x * c.l \in Nat
  BY FlatCode DEF LrCodes
<1>2. su.x > 0
  BY SetupType
<1>3. r(c) = DividedUp(c.k, c.l) /\ r(new) = DividedUp(new.k, new.l)
  BY <1>1 DEF r
<1>4. r(new) = r(c)
  <2>1. DividedUp(su.x * c.k, su.x * c.l) = DividedUp(c.k, c.l)
    BY ONLY <1>1, <1>2, SameRun
  <2> QED
    BY ONLY <1>1, <1>3, <2>1
<1>5. ASSUME NEW d, d.type = "AZURE_LRC", d.k \in Nat, d.g \in Nat, NEW i \in Nat,
             NEW b, b = d.k + d.g + i
      PROVE  Uses(d, b) = {u \in 0 .. d.k - 1 : u \div r(d) = i}
  <2>1. ~(b < d.k) /\ b \notin Globals(d) /\ b - d.k - d.g = i
    BY <1>5 DEF Globals
  <2>2. Uses(d, b) = Span(d, b)
    BY <1>5, <2>1 DEF Uses, PcTypes
  <2>3. Span(d, b) = AzuSpan(d, i)
    BY <1>5, <2>1 DEF Span
  <2> QED
    BY <2>2, <2>3 DEF AzuSpan, Run
<1>6. Uses(c, c.k + c.g + j) = {u \in 0 .. c.k - 1 : u \div r(c) = j}
  BY <1>1, <1>5
<1>7. /\ Slot(su, s, c.k + c.g + j) = new.k + new.g + (s * c.l + j)
      /\ s * c.l + j \in Nat
  BY <1>1, LocalSlot
<1>8. Uses(new, Slot(su, s, c.k + c.g + j)) = {u \in 0 .. new.k - 1 : u \div r(new) = s * c.l + j}
  <2>1. PICK i \in Nat : i = s * c.l + j /\ Slot(su, s, c.k + c.g + j) = new.k + new.g + i
    BY <1>7
  <2>2. new.k \in Nat /\ new.g \in Nat /\ new.type = "AZURE_LRC"
    BY <1>1
  <2>3. Uses(new, Slot(su, s, c.k + c.g + j)) = {u \in 0 .. new.k - 1 : u \div r(new) = i}
    BY <1>5, <2>1, <2>2
  <2> QED
    BY <2>1, <2>3
<1> QED
  BY <1>1, <1>4, <1>6, <1>8

\* Reed-Solomon, and Azure LRC with even groups: the blocks that are kept.
LEMMA FlatCovers ==
  ASSUME setup \in Setups, setup.code \in RsCodes \cup LrCodes, Mergeable(setup),
         NEW x \in KeptBlocks(setup)
  PROVE  StillCovers(setup, x)
<1> DEFINE su == setup
           c == setup.code
           new == MergedCode(setup)
<1>1. /\ c.k \in Nat /\ c.k \in Pos /\ su.x \in Nat /\ su.x * c.k \in Nat
      /\ c.type \in {"RS", "AZURE_LRC"} /\ c.type \notin PcTypes
      /\ new.k = su.x * c.k /\ new.type = c.type
      /\ c.type = "RS" => Kept(su) = 0 .. c.k - 1
      /\ c.type = "AZURE_LRC" => /\ c.g \in Nat /\ c.l \in Nat /\ c.l \in Pos /\ c.k % c.l = 0
                                 /\ Kept(su) = (0 .. c.k - 1) \cup Locals(c)
  BY FlatCode DEF Mergeable
<1>2. PICK n \in Nat : n = su.x * c.k
  BY <1>1
<1>3. PICK s \in 0 .. su.x - 1, b \in Kept(su) : x = <<s, b>>
  BY DEF KeptBlocks
<1>4. CASE b \in 0 .. c.k - 1
  <2>1. SlotOf(su, x) < n /\ SlotOf(su, x) \in Nat
    BY <1>2, <1>3, <1>4, DataSlot DEF SlotOf
  <2>2. b < c.k /\ SlotOf(su, x) < new.k
    BY <1>1, <1>2, <1>4, <2>1
  <2>3. Uses(c, b) = {} /\ Uses(new, SlotOf(su, x)) = {}
    BY <1>1, <2>2 DEF Uses, PcTypes
  <2> QED
    BY <1>3, <2>3 DEF StillCovers
<1>5. CASE b \notin 0 .. c.k - 1
  <2>1. c.type = "AZURE_LRC" /\ c \in LrCodes /\ b \in Locals(c)
    BY <1>1, <1>5, KindOfCode
  <2>2. PICK j \in 0 .. c.l - 1 : b = c.k + c.g + j
    BY <2>1, LocalNumber
  <2>3. PICK e \in Nat : e = r(c) /\ e * c.l = c.k
    BY <1>1, <2>1, SameRun DEF r
  <2>4. /\ Uses(c, b) = {u \in 0 .. c.k - 1 : u \div e = j}
        /\ Uses(new, SlotOf(su, x)) = {u \in 0 .. n - 1 : u \div e = s * c.l + j}
    BY <1>2, <1>3, <2>1, <2>2, <2>3, LocalSpans DEF SlotOf
  <2>5. /\ s \in Nat /\ j \in Nat /\ c.l \in Nat /\ c.k \in Nat /\ j < c.l
        /\ e \in Nat /\ e > 0 /\ e \in Pos /\ e \in Nat \ {0} /\ c.k > 0
    <3>1. c.k > 0
      BY <1>1 DEF Pos
    <3>2. e # 0
      BY <1>1, <2>1, <2>3, <3>1
    <3> QED
      BY <1>1, <2>1, <2>2, <3>1, <3>2 DEF Pos
  <2>6. ASSUME NEW u \in Uses(c, b)
        PROVE  u \in Kept(su) /\ Slot(su, s, u) \in Uses(new, SlotOf(su, x))
    <3>1. u \in 0 .. c.k - 1 /\ u \div e = j
      BY <2>4
    <3>2. Slot(su, s, u) = s * c.k + u /\ Slot(su, s, u) \in 0 .. n - 1 /\ u \in Kept(su)
      BY <1>2, <3>1, DataSlot
    <3>3. PICK f \in 0 .. e - 1 : u = j * e + f
      <4>1. u \in Nat
        BY <3>1
      <4>2. u % e \in 0 .. e - 1 /\ u = (u \div e) * e + (u % e)
        BY ONLY <2>5, <4>1, DivMod
      <4> QED
        BY <3>1, <4>2
    <3>4. s * c.k + u = (s * c.l + j) * e + f
      <4>1. s * c.k = (s * c.l) * e
        BY ONLY <2>3, <2>5
      <4>2. PICK a \in Nat : a = s * c.l
        BY <2>5, ProdNat
      <4>3. (a + j) * e = a * e + j * e
        BY <2>5
      <4>4. PICK A \in Nat, J \in Nat : A = a * e /\ J = j * e
        BY <2>5, ProdNat
      <4> QED
        BY <3>3, <4>1, <4>2, <4>3, <4>4
    <3>5. s * c.l + j \in Nat
      BY <2>5, ProdNat
    <3>6. Slot(su, s, u) \div e = s * c.l + j
      <4>1. PICK q \in Nat : q = s * c.l + j
        BY <3>5
      <4>2. Slot(su, s, u) = q * e + f
        BY <3>2, <3>4, <4>1
      <4>3. (q * e + f) \div e = q
        BY ONLY <2>5, q \in Nat, f \in 0 .. e - 1, DivUnique
      <4> QED
        BY <4>1, <4>2, <4>3
    <3> QED
      BY <2>4, <3>2, <3>6
  <2>7. ASSUME NEW v \in Uses(new, SlotOf(su, x))
        PROVE  \E u \in Uses(c, b) : v = Slot(su, s, u)
    <3>1. v \in 0 .. n - 1 /\ v \div e = s * c.l + j
      BY <2>4
    <3>2. PICK f \in 0 .. e - 1 : v = (s * c.l + j) * e + f
      <4>1. v \in Nat
        BY <3>1
      <4>2. v % e \in 0 .. e - 1 /\ v = (v \div e) * e + (v % e)
        BY ONLY <2>5, <4>1, DivMod
      <4> QED
        BY <3>1, <4>2
    <3>3. PICK u \in Nat : u = j * e + f
      BY <2>5, ProdNat
    <3>4. u < c.k
      <4>1. j * e \in Nat /\ j * e + e <= c.l * e
        BY ONLY <2>5, ProdMono
      <4>2. c.l * e = c.k
        BY ONLY <2>3, <2>5, ProdNat
      <4>3. PICK J \in Nat : J = j * e
        BY <4>1
      <4> QED
        BY <2>5, <3>2, <3>3, <4>1, <4>2, <4>3
    <3>5. u \div e = j
      BY ONLY <2>5, <3>2, <3>3, DivUnique
    <3>6. u \in Uses(c, b)
      <4>1. u \in 0 .. c.k - 1
        BY <2>5, <3>4
      <4> QED
        BY ONLY <2>4, <3>5, <4>1
    <3>7. v = s * c.k + u
      <4>1. s * c.k = (s * c.l) * e
        BY ONLY <2>3, <2>5
      <4>2. PICK a \in Nat : a = s * c.l
        BY <2>5, ProdNat
      <4>3. (a + j) * e = a * e + j * e
        BY <2>5
      <4>4. PICK A \in Nat, J \in Nat : A = a * e /\ J = j * e
        BY <2>5, ProdNat
      <4> QED
        BY <3>2, <3>3, <4>1, <4>2, <4>3, <4>4
    <3>8. Slot(su, s, u) = s * c.k + u
      BY <1>1, <3>4, DataSlot
    <3> QED
      BY <3>6, <3>7, <3>8
  <2> QED
    BY <1>3, <2>6, <2>7 DEF StillCovers
<1> QED
  BY <1>4, <1>5

----------------------------------------------------------------------------
(* A mergeable setup makes the merged code.                                 *)

\* A mergeable setup: every block has a slot of its own, in the larger stripe.
LEMMA MergeableSlots ==
  ASSUME NEW su \in Setups, Mergeable(su)
  PROVE  Seated(su) /\ Numbered(su) /\ Fits(su)
<1>1. Seated(su) /\ Numbered(su)
  BY FlatSeated, FlatNumbered, PcSeated, PcNumbered, SetupType DEF AllCodes
<1>2. ASSUME NEW b \in Filled(su) PROVE b \in BlocksOf(MergedCode(su))
  <2>1. CASE b \in ParitySlots(su)
    BY <1>1, <2>1 DEF Seated
  <2>2. CASE b \notin ParitySlots(su)
    <3>1. PICK s \in 0 .. su.x - 1, d \in Kept(su) : b = Slot(su, s, d)
      BY <1>2, <2>2 DEF Filled, ParitySlots
    <3>2. <<s, d>> \in KeptBlocks(su) /\ SlotOf(su, <<s, d>>) = b
      BY <3>1 DEF KeptBlocks, SlotOf
    <3> QED
      BY <1>1, <3>2 DEF Numbered
  <2> QED
    BY <2>1, <2>2
<1> QED
  BY <1>1, <1>2, TableDomains DEF Fits

\* A kept block of a well numbered merge has its id in its slot.
LEMMA KeptIds ==
  ASSUME TypeInv, LargerInv, step \in Underway, Numbered(setup), NEW x \in KeptBlocks(setup)
  PROVE  SlotOf(setup, x) \in Slots /\ larger.ids[SlotOf(setup, x)] = OldId(x)
<1>1. setup \in Setups /\ Fits(setup) /\ Slots = BlocksOf(MergedCode(setup))
  BY SetupBasics DEF LargerInv
<1> DEFINE b == SlotOf(setup, x)
<1>2. b \in Slots /\ b \notin ParitySlots(setup) /\ b \in Filled(setup)
  BY <1>1, KeptFills DEF Numbered, KeptBlocks, SlotOf
<1>3. From(b) \in KeptBlocks(setup) /\ SlotOf(setup, From(b)) = b
  BY <1>1, <1>2, Origins DEF From, KeptBlocks, SlotOf
<1>4. From(b) = x
  BY <1>3 DEF Numbered
<1>5. larger.ids[b] = OldId(From(b))
  BY <1>2 DEF LargerInv
<1> QED
  BY <1>2, <1>4, <1>5

\* The new parity blocks, while the blocks of clusters are counted, are computed
\* from the blocks that the merge chose; a slot that it left empty has id 0.
CountInv ==
  step = "count" =>
    /\ \A b \in Slots \ Filled(setup) : larger.ids[b] = 0
    /\ made = [b \in ParitySlots(setup) |->
                 [p \in DOMAIN FromTable[setup][b] |-> OldId(FromTable[setup][b][p])]]

\* Ids begin with 0 in the first stripe.
FirstInv ==
  step \in {"place", "count"} =>
    IF group = <<>> THEN newBlock = 0 ELSE stripes[0].ids[0] = 0

\* A mergeable stripe is not written past its end.
PastEndInv == step = "undefined" /\ larger = NoStripe => ~Mergeable(setup)

\* The three together: what the numbering keeps until the blocks are placed.
NumberInv == CountInv /\ FirstInv /\ PastEndInv

\* The new parity blocks of a mergeable setup are computed from the blocks that
\* their equations name.
LEMMA MadeRight ==
  ASSUME IInv, NumberInv, step = "count", Mergeable(setup), NEW b \in DOMAIN made
  PROVE  made[b] = [p \in {Position(setup, u) : u \in Uses(New, b)} |->
           larger.ids[CHOOSE u \in Uses(New, b) : Position(setup, u) = p]]
<1>1. /\ setup \in Setups /\ Seated(setup) /\ Numbered(setup)
      /\ TypeInv /\ LargerInv /\ step \in Underway
  BY MergeableSlots DEF IInv, TypeInv, Underway
<1>2. /\ made = [d \in ParitySlots(setup) |->
                 [p \in DOMAIN FromTable[setup][d] |-> OldId(FromTable[setup][d][p])]]
  BY DEF NumberInv, CountInv
<1>3. b \in ParitySlots(setup)
  BY <1>2
<1>4. PICK q \in NewParities(setup) : q.slot = b
  BY <1>3 DEF ParitySlots
<1>5. FromTable[setup][b] = q.from
  <2>1. FromTable[setup] = [d \in ParitySlots(setup) |-> (CHOOSE p \in ParityAt(setup, d) : TRUE).from]
    BY <1>1 DEF FromTable, ParitySlots
  <2>2. ParityAt(setup, b) = {q}
    BY <1>1, <1>4 DEF ParityAt, Seated
  <2> QED
    BY <1>3, <2>1, <2>2
<1>6. Computes(setup, q)
  BY <1>1, FlatComputes, PcComputes, SetupType DEF AllCodes
<1> DEFINE U == Uses(New, b)
           P == {Position(setup, u) : u \in U}
<1>7. /\ \A u, v \in U : Position(setup, u) = Position(setup, v) => u = v
      /\ q.from = [p \in P |-> q.from[p]]
      /\ \A u \in U : /\ q.from[Position(setup, u)] \in KeptBlocks(setup)
                      /\ SlotOf(setup, q.from[Position(setup, u)]) = u
  BY <1>4, <1>6 DEF Computes, New
<1> HIDE DEF U
<1>8. DOMAIN q.from = P
  BY <1>7
<1>9. made[b] = [p \in P |-> OldId(q.from[p])]
  BY <1>2, <1>3, <1>5, <1>8
<1>10. ASSUME NEW p \in P
       PROVE  OldId(q.from[p]) = larger.ids[CHOOSE u \in U : Position(setup, u) = p]
  <2>1. PICK u \in U : Position(setup, u) = p
    OBVIOUS
  <2>2. (CHOOSE v \in U : Position(setup, v) = p) = u
    BY <1>7, <2>1
  <2>3. q.from[p] \in KeptBlocks(setup) /\ SlotOf(setup, q.from[p]) = u
    BY <1>7, <2>1
  <2>4. larger.ids[u] = OldId(q.from[p])
    BY <1>1, <2>3, KeptIds
  <2> QED
    BY <2>2, <2>4
<1>11. made[b] = [p \in P |-> larger.ids[CHOOSE u \in U : Position(setup, u) = p]]
  BY <1>9, <1>10
<1> QED
  BY <1>11 DEF U

\* The parity blocks that a mergeable setup keeps cover the blocks they covered.
LEMMA KeptRight ==
  ASSUME IInv, step = "count", Mergeable(setup), NEW s \in 0 .. setup.x - 1, NEW b \in Kept(setup)
  PROVE  {larger.ids[u] : u \in Uses(New, Slot(setup, s, b))}
           = {OldId(<<s, u>>) : u \in Uses(setup.code, b)}
<1>1. /\ setup \in Setups /\ Numbered(setup) /\ TypeInv /\ LargerInv /\ step \in Underway
  BY MergeableSlots DEF IInv, TypeInv, Underway
<1>2. <<s, b>> \in KeptBlocks(setup)
  BY DEF KeptBlocks
<1>3. StillCovers(setup, <<s, b>>)
  BY <1>1, <1>2, FlatCovers, PcCovers, SetupType DEF AllCodes
<1>4. /\ Uses(New, Slot(setup, s, b)) = {Slot(setup, s, u) : u \in Uses(setup.code, b)}
      /\ Uses(setup.code, b) \subseteq Kept(setup)
  BY <1>3 DEF StillCovers, SlotOf, New
<1>5. \A u \in Uses(setup.code, b) : larger.ids[Slot(setup, s, u)] = OldId(<<s, u>>)
  <2> SUFFICES ASSUME NEW u \in Uses(setup.code, b)
               PROVE  larger.ids[Slot(setup, s, u)] = OldId(<<s, u>>)
    OBVIOUS
  <2>1. <<s, u>> \in KeptBlocks(setup) /\ SlotOf(setup, <<s, u>>) = Slot(setup, s, u)
    BY <1>4 DEF KeptBlocks, SlotOf
  <2> QED
    BY <1>1, <2>1, KeptIds
<1> QED
  BY <1>4, <1>5

\* What the merge makes of a mergeable setup is a stripe of the merged code.
LEMMA MergeableIsRight ==
  ASSUME IInv, NumberInv, step = "count", Mergeable(setup)
  PROVE  IsInjective(larger.ids) /\ ParitiesFit
<1>1. TypeInv /\ PlacedInv /\ LargerInv /\ step \in Underway
  BY DEF IInv, Underway
<1>2. DOMAIN larger.ids = Slots
  BY <1>1 DEF LargerInv
<1>3. IsInjective(larger.ids)
  BY <1>1, <1>2, SlotIds DEF IsInjective
<1>4. ParitiesFit
  BY MadeRight, KeptRight DEF ParitiesFit
<1> QED
  BY <1>3, <1>4

\* Azure LRC with uneven groups: the first local parity block of the second
\* stripe loses the first block it covered.
LEMMA UnevenIsWrong ==
  ASSUME IInv, step = "count", setup.code \in LrCodes, ~Mergeable(setup)
  PROVE  ~(IsInjective(larger.ids) /\ ParitiesFit)
<1> DEFINE c == setup.code
<1> SUFFICES ASSUME IsInjective(larger.ids), ParitiesFit PROVE FALSE
  OBVIOUS
<1>1. /\ setup \in Setups /\ TypeInv /\ LargerInv /\ step \in Underway /\ setup.x \in Nat /\ setup.x > 1
  BY SetupType DEF IInv, TypeInv, Underway
<1>2. /\ c.k \in Nat /\ c.k > 0 /\ c.l \in Nat /\ c.l \in Pos /\ c.l > 0
      /\ c.type = "AZURE_LRC" /\ c.type \notin PcTypes
      /\ setup.x * c.k \in Nat
      /\ Kept(setup) = (0 .. c.k - 1) \cup Locals(c)
  BY <1>1, FlatCode DEF LrCodes, Pos
<1>3. c.k % c.l # 0
  BY <1>2 DEF Mergeable
<1>4. PICK e \in Nat : e = r(c) /\ e * c.l > c.k
  <2>1. r(c) = DividedUp(c.k, c.l)
    BY <1>2 DEF r
  <2>2. DividedUp(c.k, c.l) \in Nat /\ DividedUp(c.k, c.l) * c.l > c.k
    BY ONLY <1>1, <1>2, <1>3, setup.x > 0, SameRun
  <2> QED
    BY <2>1, <2>2
<1>5. e > 0 /\ e \in Pos /\ e \in Nat \ {0}
  <2>1. e # 0
    BY <1>2, <1>4
  <2> QED
    BY <2>1 DEF Pos
<1>6. PICK s \in 0 .. setup.x - 1, j \in 0 .. c.l - 1, z \in 0 .. c.k - 1 : s = 1 /\ j = 0 /\ z = 0
  BY <1>1, <1>2
<1>7. PICK b : b = c.k + c.g + j
  OBVIOUS
<1>8. /\ b \in Kept(setup)
      /\ Uses(c, b) = {u \in 0 .. c.k - 1 : u \div e = j}
      /\ Uses(New, Slot(setup, s, b)) = {u \in 0 .. setup.x * c.k - 1 : u \div e = s * c.l + j}
  <2>1. b \in Locals(c)
    BY <1>1, <1>7, LocalSlot
  <2>2. /\ Uses(c, b) = {u \in 0 .. c.k - 1 : u \div r(c) = j}
        /\ Uses(New, Slot(setup, s, b)) = {u \in 0 .. setup.x * c.k - 1 : u \div r(c) = s * c.l + j}
    BY <1>1, <1>7, LocalSpans DEF New
  <2> QED
    BY <1>2, <1>4, <2>1, <2>2
<1>9. z \in Uses(c, b)
  <2>1. z \div e = j
    <3>1. (0 * e + 0) \div e = 0
      BY <1>5, DivUnique
    <3> QED
      BY <1>5, <1>6, <3>1
  <2> QED
    BY ONLY <1>8, <2>1, z \in 0 .. c.k - 1
<1>10. {larger.ids[u] : u \in Uses(New, Slot(setup, s, b))} = {OldId(<<s, u>>) : u \in Uses(c, b)}
  BY <1>8 DEF ParitiesFit
<1>11. PICK u \in Uses(New, Slot(setup, s, b)) : larger.ids[u] = OldId(<<s, z>>)
  BY <1>9, <1>10
<1>12. <<s, z>> \in KeptBlocks(setup) /\ SlotOf(setup, <<s, z>>) = s * c.k + z
  BY <1>1, DataSlot DEF KeptBlocks, SlotOf
<1>13. s * c.k + z = c.k
  BY <1>2, <1>6
<1>14. larger.ids[c.k] = OldId(<<s, z>>) /\ c.k \in Slots
  BY <1>1, <1>12, <1>13, FlatNumbered, KeptIds
<1>15. u \in Slots
  <2>1. u \in 0 .. setup.x * c.k - 1
    BY <1>8
  <2>2. BlocksOf(MergedCode(setup)) = 0 .. setup.x * c.k + c.g + setup.x * c.l - 1
    BY <1>1, <1>2, FlatBlocks
  <2>3. setup.x * c.l \in Nat /\ c.g \in Nat
    BY <1>1, <1>2, FlatCode
  <2>4. PICK n \in Nat, h \in Nat : n = setup.x * c.k /\ h = setup.x * c.l
    BY <1>2, <2>3
  <2>5. u \in BlocksOf(MergedCode(setup))
    BY <2>1, <2>2, <2>3, <2>4
  <2> QED
    BY <1>1, <2>5, SetupBasics
<1>16. u = c.k
  BY <1>1, <1>11, <1>14, <1>15 DEF LargerInv, IsInjective
<1>17. c.k \div e = s * c.l + j
  BY <1>8, <1>11, <1>16
<1>18. s * c.l + j = c.l
  BY <1>2, <1>6
<1>19. c.k \div e < c.l
  <2>1. c.k < c.l * e
    BY <1>2, <1>4
  <2> QED
    BY ONLY <1>2, <1>5, <2>1, DivLess
<1> QED
  BY <1>2, <1>17, <1>18, <1>19

----------------------------------------------------------------------------
(* A setup that is not mergeable does not.                                  *)

\* A product code merged column by column with two rows of parity or more: the
\* new parity blocks overlap, and the last slot stays empty.
LEMMA OverlapIsWrong ==
  ASSUME IInv, NumberInv, step = "count", setup.code \in PcCodes, ~Mergeable(setup)
  PROVE  ~IsInjective(larger.ids)
<1> DEFINE c == setup.code
           new == MergedCode(setup)
<1>1. /\ setup \in Setups /\ TypeInv /\ PlacedInv /\ LargerInv /\ step \in Underway /\ Fits(setup)
      /\ setup.x \in Nat /\ setup.x > 1 /\ Slots = BlocksOf(new)
  BY SetupType, SetupBasics DEF IInv, TypeInv, LargerInv, Underway
<1>2. c.type = "PC" /\ c.type \in PcTypes /\ c.type # "RS"
  BY <1>1, FitsPc DEF PcTypes
<1>3. Vertical(setup) /\ c.m2 # 1
  BY <1>2 DEF Mergeable
<1>4. /\ c.k1 \in Nat /\ c.m1 \in Nat /\ c.k2 \in Nat /\ c.m2 \in Nat
      /\ c.k1 > 0 /\ c.m1 > 0 /\ c.k2 > 0 /\ c.m2 > 1
      /\ new \in PcCodes /\ new.type = "PC"
      /\ new.k1 = c.k1 /\ new.m1 = c.m1 /\ new.m2 = c.m2 /\ new.k2 \in Nat /\ new.k2 > 0
  <2>1. c.m2 > 0 /\ c.m2 \in Nat
    BY PcParts
  <2> QED
    BY <1>1, <1>2, <1>3, <2>1, PcParts, MergedPc
<1>5. PICK K \in Nat : K = new.k2 * (new.k1 + new.m1) /\ K = (new.k1 + new.m1) * new.k2 /\ K > 0
  <2>1. new.k1 + new.m1 \in Nat /\ new.k1 + new.m1 > 0
    BY <1>4
  <2>2. new.k2 * (new.k1 + new.m1) \in Nat /\ new.k2 * (new.k1 + new.m1) > 0
    BY <1>4, <2>1, ProdPos
  <2>3. new.k2 * (new.k1 + new.m1) = (new.k1 + new.m1) * new.k2
    BY <1>4, <2>1, ProdNat
  <2> QED
    BY <2>2, <2>3
<1>6. PICK D \in Nat, E \in Nat : D = c.m2 * c.k1 /\ E = c.m2 * c.m1
  BY <1>4, ProdNat
<1>7. E > c.m1
  <2>1. 1 * c.m1 + c.m1 <= c.m2 * c.m1
    BY <1>4, ProdMono
  <2> QED
    BY <1>4, <1>6, <2>1
<1>8. Size(new) = K + D + E
  <2>1. Size(new) = (new.k2 + new.m2) * (new.k1 + new.m1)
    BY <1>4, PcSize
  <2>2. (new.k2 + c.m2) * (c.k1 + c.m1) = new.k2 * (c.k1 + c.m1) + c.m2 * c.k1 + c.m2 * c.m1
    BY <1>4
  <2> QED
    BY <1>4, <1>5, <1>6, <2>1, <2>2
<1>9. PICK z \in Nat : z = K + D + E - 1
  BY <1>4, <1>7
<1>10. z \in Slots /\ 0 \in Slots /\ z # 0
  <2>1. PICK n \in Nat : n = Size(new) /\ z = n - 1 /\ n > 1
    BY <1>4, <1>5, <1>7, <1>8, <1>9
  <2>2. Slots = 0 .. n - 1
    BY <1>1, <2>1 DEF BlocksOf
  <2> QED
    BY <2>1, <2>2
<1>11. ASSUME NEW q \in NewParities(setup) PROVE q.slot \in Nat /\ K <= q.slot /\ q.slot < z
  <2>1. PICK col \in Columns(c), i \in 0 .. c.m2 - 1 : q = PcColumnParity(setup, col, i)
    BY <1>2, <1>3 DEF NewParities, PcColumnParities
  <2>2. q.slot = new.k2 * (new.k1 + new.m1) + i * new.k1 + col
    BY <1>1, <2>1, ParityFields
  <2>3. col \in Nat /\ col < c.k1 + c.m1 /\ i \in Nat /\ i < c.m2
    BY <1>4 DEF Columns
  <2>4. i * c.k1 \in Nat /\ i * c.k1 + c.k1 <= c.m2 * c.k1
    BY <1>4, <2>3, ProdMono
  <2>5. PICK a \in Nat : a = i * c.k1 /\ a + c.k1 <= D
    BY <1>6, <2>4
  <2>6. q.slot = K + a + col
    BY <1>4, <1>5, <2>2, <2>5
  <2> QED
    BY <1>4, <1>7, <1>9, <2>3, <2>5, <2>6
<1>12. ASSUME NEW x \in KeptBlocks(setup) PROVE SlotOf(setup, x) < K /\ SlotOf(setup, x) \in Nat
  <2>1. x[1] \in 0 .. setup.x - 1 /\ x[2] \in Kept(setup)
    BY DEF KeptBlocks
  <2>2. PICK row \in Rows(c), col \in Columns(c) :
          x[2] = rowcol2bid(c, row, col) /\ KeptCell(setup, row, col)
    BY <1>1, <1>2, <2>1, CellOfKept
  <2>3. PICK r2 \in Rows(new), c2 \in Columns(new) :
          SlotOf(setup, x) = rowcol2bid(new, r2, c2) /\ r2 < new.k2
    BY <1>1, <1>2, <1>3, <2>1, <2>2, CellSlot DEF SlotOf
  <2> QED
    BY <1>4, <1>5, <2>3, DataRowNumber, GridTrip
<1>13. z \notin Filled(setup)
  <2>1. ASSUME NEW q \in NewParities(setup) PROVE q.slot # z
    BY <1>11
  <2>2. ASSUME NEW s \in 0 .. setup.x - 1, NEW b \in Kept(setup) PROVE Slot(setup, s, b) # z
    <3>1. <<s, b>> \in KeptBlocks(setup) /\ SlotOf(setup, <<s, b>>) = Slot(setup, s, b)
      BY DEF KeptBlocks, SlotOf
    <3>2. Slot(setup, s, b) < K /\ Slot(setup, s, b) \in Nat
      BY <1>12, <3>1
    <3> QED
      BY <1>4, <1>7, <1>9, <3>2
  <2> QED
    BY <2>1, <2>2 DEF Filled
<1>14. larger.ids[z] = 0
  BY <1>10, <1>13 DEF NumberInv, CountInv
<1>15. PICK row \in Rows(c), col \in Columns(c), s \in 0 .. setup.x - 1 : row = 0 /\ col = 0 /\ s = 0
  BY <1>1, <1>4 DEF Rows, Columns
<1>16. /\ rowcol2bid(c, row, col) = 0
       /\ rowcol2bid(new, row, col) = 0
  BY <1>4, <1>15 DEF rowcol2bid
<1>17. KeptCell(setup, row, col)
  BY <1>3, <1>4, <1>15 DEF KeptCell
<1>18. <<s, 0>> \in KeptBlocks(setup) /\ SlotOf(setup, <<s, 0>>) = 0
  <2>1. MergedRow(setup, s, row) = row /\ MergedCol(setup, s, col) = col
    BY <1>3, <1>4, <1>15 DEF MergedRow, MergedCol
  <2>2. rowcol2bid(c, row, col) \in Kept(setup) /\ Slot(setup, s, rowcol2bid(c, row, col)) = 0
    BY <1>1, <1>2, <1>16, <1>17, <2>1, CellSlot
  <2> QED
    BY <1>16, <2>2 DEF KeptBlocks, SlotOf
<1>19. 0 \in Filled(setup) \ ParitySlots(setup)
  <2>1. 0 \in Filled(setup)
    BY <1>1, <1>18, KeptFills DEF KeptBlocks, SlotOf
  <2>2. 0 \notin ParitySlots(setup)
    BY <1>5, <1>11 DEF ParitySlots
  <2> QED
    BY <2>1, <2>2
<1>20. From(0) = <<s, 0>>
  <2>1. From(0) \in KeptBlocks(setup) /\ SlotOf(setup, From(0)) = 0
    BY <1>1, <1>19, Origins DEF From, KeptBlocks, SlotOf
  <2> QED
    BY <1>1, <1>2, <1>18, <2>1, CellsDiffer
<1>21. larger.ids[0] = OldId(<<s, 0>>)
  BY <1>1, <1>19, <1>20 DEF LargerInv
<1>22. OldId(<<s, 0>>) = 0
  <2>1. Len(group) = setup.x /\ step \in Working
    BY <1>1 DEF PlacedInv, Working
  <2>2. <<s, 0>> \in OldBlocks(setup)
    BY <1>1, <1>19, <1>20, Origins DEF From
  <2>3. OldId(<<s, 0>>) = stripes[s].ids[0]
    BY <1>1, <2>1, <2>2, OldBlockFacts
  <2>4. group # <<>>
    BY <1>1, <2>1
  <2>5. stripes[0].ids[0] = 0
    BY <2>4 DEF NumberInv, FirstInv
  <2> QED
    BY <1>15, <2>3, <2>5
<1> QED
  BY <1>1, <1>10, <1>14, <1>21, <1>22 DEF LargerInv, IsInjective

\* The larger stripe is right exactly for the mergeable setups.
LEMMA RightWhenMergeable ==
  ASSUME IInv, NumberInv
  PROVE  MergedCodeRight
<1>1. setup \in Setups
  BY DEF IInv, TypeInv
<1>2. ASSUME step = "count", ~Mergeable(setup) PROVE ~(IsInjective(larger.ids) /\ ParitiesFit)
  <2>1. setup.code \notin RsCodes
    BY <1>2 DEF Mergeable, RsCodes, PcTypes
  <2> QED
    BY <1>1, <1>2, <2>1, UnevenIsWrong, OverlapIsWrong, SetupType DEF AllCodes
<1> QED
  BY <1>2, MergeableIsRight DEF MergedCodeRight, NumberInv, PastEndInv

----------------------------------------------------------------------------
(* The numbering of a merge, step by step.                                  *)

\* A stripe is placed: the first one's ids begin with 0.
LEMMA PlaceNumbers ==
  ASSUME IInv, NumberInv, Place
  PROVE  NumberInv'
<1>1. /\ TypeInv /\ PlacedInv /\ setup \in Setups /\ newStripe \in Nat /\ newBlock \in Nat
      /\ step = "place"
  BY PlaceEffect DEF IInv, TypeInv
<1>2. PICK cl \in [1 .. PartitionNum -> Clusters] : Put(cl)
  BY <1>1, PlaceEffect
<1>3. /\ group' = Append(group, newStripe) /\ step' = "place"
      /\ \E f \in [StripeBlocks -> AllNodes] :
              stripes' = [i \in DOMAIN stripes \cup {newStripe} |->
                   IF i = newStripe
                   THEN [ids |-> [b \in StripeBlocks |-> newBlock + b], nodes |-> f]
                   ELSE stripes[i]]
  BY <1>1, <1>2, PutEffect
<1>4. /\ group \in Seq(Nat) /\ newStripe = Len(group) /\ DOMAIN stripes = Placed
  BY <1>1 DEF PlacedInv, Working
<1>5. group' # <<>>
  BY <1>1, <1>3, <1>4, AppendProperties
<1>6. stripes'[0].ids[0] = 0
  <2>1. CASE group = <<>>
    <3>1. newStripe = 0 /\ newBlock = 0
      BY <1>1, <1>4, <2>1 DEF NumberInv, FirstInv
    <3>2. 0 \in StripeBlocks
      BY <1>1, SetupType, SizePos DEF StripeBlocks
    <3> QED
      BY <1>3, <3>1, <3>2
  <2>2. CASE group # <<>>
    <3>1. Len(group) \in Nat /\ Len(group) # 0
      BY <1>4, <2>2, LenProperties, EmptySeq
    <3>2. 0 \in DOMAIN stripes /\ newStripe # 0
      BY <1>4, <3>1 DEF Placed
    <3>3. stripes[0].ids[0] = 0
      BY <1>1, <2>2 DEF NumberInv, FirstInv
    <3> QED
      BY <1>3, <3>2, <3>3
  <2> QED
    BY <2>1, <2>2
<1> QED
  BY <1>3, <1>5, <1>6 DEF NumberInv, CountInv, FirstInv, PastEndInv

\* The merge begins.
LEMMA StartMergeNumbers ==
  ASSUME IInv, NumberInv, StartMerge
  PROVE  NumberInv'
<1>1. setup \in Setups /\ DOMAIN FromTable[setup] = ParitySlots(setup)
      /\ DOMAIN OriginTable[setup] = Filled(setup)
  BY TableDomains DEF IInv, TypeInv
<1>2. /\ step = "place" /\ step' = "count" /\ UNCHANGED <<setup, group, stripes>>
      /\ Len(group) = setup.x
  BY DEF StartMerge, Merging
<1> DEFINE origin == OriginTable[setup]
           from   == FromTable[setup]
           NewId(slot) == newBlock + Cardinality({t \in DOMAIN from : t < slot})
<1>3. larger'.ids = [slot \in BlocksOf(New) |->
                CASE slot \notin DOMAIN origin -> 0
                  [] slot \in DOMAIN from      -> NewId(slot)
                  [] OTHER                     -> OldId(origin[slot])]
  BY DEF StartMerge
<1>4. made' = [slot \in DOMAIN from |-> [p \in DOMAIN from[slot] |-> OldId(from[slot][p])]]
  BY DEF StartMerge
<1>5. \A x : OldId(x)' = OldId(x)
  BY <1>2 DEF OldId
<1>6. ParitySlots(setup) \subseteq Filled(setup)
  BY <1>1, TableDomains
<1> HIDE DEF NewId
<1>7. ASSUME NEW b \in Slots \ Filled(setup) PROVE larger'.ids[b] = 0
  BY <1>1, <1>3, <1>6 DEF Slots
<1>8. Slots' = Slots /\ Filled(setup)' = Filled(setup) /\ ParitySlots(setup)' = ParitySlots(setup)
      /\ FromTable[setup]' = FromTable[setup]
  BY <1>2 DEF Slots, New
<1>9. made' = [slot \in ParitySlots(setup) |-> [p \in DOMAIN from[slot] |-> OldId(from[slot][p])']]
  BY <1>1, <1>2, <1>4 DEF OldId
<1>10. CountInv'
  BY <1>7, <1>8, <1>9 DEF CountInv
<1>11. FirstInv'
  <2>1. group # <<>>
    BY <1>1, <1>2, SetupType
  <2> QED
    BY <1>2, <2>1 DEF NumberInv, FirstInv
<1> QED
  BY <1>2, <1>10, <1>11 DEF NumberInv, PastEndInv

\* Only what does not fit is written past the end.
LEMMA PastEndNumbers ==
  ASSUME IInv, WritePastEnd
  PROVE  NumberInv'
<1>1. /\ setup \in Setups /\ ~Fits(setup) /\ step' = "undefined" /\ setup' = setup
  BY DEF IInv, TypeInv, WritePastEnd, PastEnd, Fits, New
<1>2. ~Mergeable(setup)
  BY <1>1, MergeableSlots
<1>3. Mergeable(setup)' <=> Mergeable(setup)
  BY <1>1
<1> QED
  BY <1>1, <1>2, <1>3 DEF NumberInv, CountInv, FirstInv, PastEndInv

\* When a merge stops under way there is a larger stripe.
LEMMA StopNumbers ==
  ASSUME IInv, step \in Underway, step' = "undefined", larger' = larger
  PROVE  NumberInv'
<1>1. DOMAIN larger.ids = Slots /\ TypeInv /\ setup \in Setups
  BY DEF IInv, LargerInv, TypeInv
<1>2. 0 \in Slots
  BY <1>1, SetupType, SizePos DEF Slots, New
<1>3. larger # NoStripe
  BY <1>1, <1>2 DEF NoStripe
<1> QED
  BY <1>3 DEF NumberInv, CountInv, FirstInv, PastEndInv

\* Every step keeps the numbering.
LEMMA NumbersKept ==
  ASSUME IInv, NumberInv, [Next]_vars
  PROVE  NumberInv'
<1>0. ASSUME step' \in {"relieve", "part", "move", "update", "done"} PROVE NumberInv'
  BY <1>0 DEF NumberInv, CountInv, FirstInv, PastEndInv
<1>1. CASE Place
  BY <1>1, PlaceNumbers
<1>2. CASE StartMerge
  BY <1>2, StartMergeNumbers
<1>3. CASE WritePastEnd
  BY <1>3, PastEndNumbers
<1>4. CASE Relieve
  <2>1. CASE DrawFromNothing
    BY <2>1, StopNumbers DEF DrawFromNothing, NodesShort, Draws, CrowdedRs, Relieving, Underway
  <2>2. CASE ~DrawFromNothing
    <3>1. step' \in {"relieve", "part"}
      BY <1>4, <2>2
         DEF Relieve, CountBlocks, NextCluster, MoveToSmaller, MoveToFree, MakeBatches,
             MoveGroup, MoveColumn, EndRelief, CrowdedRs, Relieving
    <3> QED
      BY <1>0, <3>1
  <2> QED
    BY <2>1, <2>2
<1>5. CASE PartBlocks \/ Recalculate \/ DeleteOldParities \/ UpdateTables
  BY <1>0, <1>5 DEF PartBlocks, Recalculate, DeleteOldParities, UpdateTables
<1>6. CASE ReadPastEnd
  BY <1>6, StopNumbers DEF ReadPastEnd, Underway
<1>7. ASSUME NEW i \in DOMAIN moves, Copy(i) \/ Drop(i) PROVE NumberInv'
  BY <1>0, <1>7 DEF Copy, Drop
<1>8. CASE SearchForever \/ Stay \/ UNCHANGED vars
  <2>1. UNCHANGED <<setup, step, group, stripes, newBlock, larger, made>>
    BY <1>8 DEF SearchForever, Stay, vars
  <2>2. \A x : OldId(x)' = OldId(x)
    BY <2>1 DEF OldId
  <2>3. Slots' = Slots /\ (Mergeable(setup)' <=> Mergeable(setup))
    BY <2>1 DEF Slots, New
  <2>4. CountInv'
    BY <2>1, <2>2, <2>3 DEF NumberInv, CountInv
  <2> QED
    BY <2>1, <2>3, <2>4 DEF NumberInv, FirstInv, PastEndInv
<1> QED
  BY <1>1, <1>2, <1>3, <1>4, <1>5, <1>6, <1>7, <1>8 DEF Next

\* The larger stripe is one of the merged code exactly for the setups whose
\* numbering fits (oldbid2newbid_for_merge, the loops of do_stripe_merge): no
\* block has two slots, every new parity block is computed from the blocks of its
\* equation at their positions, every parity block that is kept covers what it
\* covered, and nothing is written past the end of the stripe.  For the others one
\* of these fails, in every instance.
THEOREM MergedCodeRightHolds == Spec => []MergedCodeRight
<1>1. Init => NumberInv
  BY DEF Init, NumberInv, CountInv, FirstInv, PastEndInv
<1>2. IInv /\ NumberInv /\ [Next]_vars => NumberInv'
  BY NumbersKept
<1>3. IInv /\ NumberInv => MergedCodeRight
  BY RightWhenMergeable
<1> QED
  BY <1>1, <1>2, <1>3, Invariance, PTL DEF Spec

----------------------------------------------------------------------------
(* What a cluster may lose, and what the relief knows of the clusters.    *)

\* The slots in a cluster, their groups and their columns.
Load(c)   == {b \in Slots : ClusterOf(larger.nodes[b]) = c}
GidsOf(S) == {bid2gid(New, b) : b \in S}
NewCol(b)  == bid2rowcol(New, b)[2]
ColsOf(S) == {NewCol(b) : b \in S}

\* What a cluster may lose, by the set of its slots.
Bearable(S) ==
  CASE New.type = "RS"      -> Cardinality(S) <= New.m
    [] New.type \in PcTypes -> Cardinality(ColsOf(S)) <= New.m1
    [] OTHER                -> Cardinality(S) <= Cardinality(GidsOf(S)) + New.g

\* The clusters that took blocks of others and had none before.
Taken == Clusters \ (DOMAIN reloc.blocks \cup reloc.free)
Waits(i) == i > reloc.at \/ (i = reloc.at /\ reloc.rest = <<>>)
RestOf(j) == ToSet(reloc.rest[j])
IsLrc == New.type # "RS" /\ New.type \notin PcTypes

\* Every cluster in use has its turn once; the clusters that are free are empty;
\* what is to be moved is still where it was when the blocks were counted.
QueueInv ==
  step = "relieve" =>
    /\ IsInjective(reloc.order) /\ ToSet(reloc.order) = DOMAIN reloc.blocks
    /\ reloc.free \cap DOMAIN reloc.blocks = {} /\ DOMAIN reloc.counts = DOMAIN reloc.blocks
    /\ \A c \in reloc.free : Load(c) = {} \/ (IsLrc /\ Misled(c))
    /\ \A c \in DOMAIN reloc.blocks : IsInjective(reloc.blocks[c])
    /\ \A i \in DOMAIN reloc.order :
         Waits(i) => ToSet(reloc.blocks[reloc.order[i]]) \subseteq Load(reloc.order[i])
    /\ reloc.rest # <<>> => reloc.at <= Len(reloc.order)
    /\ \A j \in DOMAIN reloc.rest : IsInjective(reloc.rest[j]) /\ RestOf(j) \subseteq Load(Crowded)
    /\ \A i, j \in DOMAIN reloc.rest : i # j => RestOf(i) \cap RestOf(j) = {}

\* Reed-Solomon: a cluster of which blocks are counted has them.
RsReliefInv ==
  step = "relieve" /\ New.type = "RS" =>
    /\ reloc.rest = <<>>
    /\ \A i \in DOMAIN reloc.order :
         LET c == reloc.order[i] IN
         IF i < reloc.at THEN Cardinality(Load(c)) <= New.m
         ELSE /\ reloc.counts[c] = Cardinality(Load(c))
              /\ Cardinality(Load(c)) <= New.m \/ Load(c) = ToSet(reloc.blocks[c])
    /\ \A c \in Taken : Misled(c) \/ Cardinality(Load(c)) <= New.m

\* Product codes: a cluster keeps m1 columns besides those that are to leave it,
\* and a cluster that was free gets no more.
PcReliefInv ==
  step = "relieve" /\ New.type \in PcTypes =>
    /\ \A i \in DOMAIN reloc.order :
         LET c == reloc.order[i] IN
         /\ i < reloc.at => Misled(c) \/ Cardinality(ColsOf(Load(c))) <= New.m1
         /\ Waits(i) => Load(c) = ToSet(reloc.blocks[c])
         /\ i = reloc.at /\ reloc.rest # <<>> =>
              \/ Misled(c)
              \/ \E K \in SUBSET ColsOf(Slots) :
                   /\ Cardinality(K) <= New.m1
                   /\ \A b \in Load(c) : NewCol(b) \in K \/ \E j \in DOMAIN reloc.rest : b \in RestOf(j)
    /\ \A j \in DOMAIN reloc.rest : \A a, b \in RestOf(j) : NewCol(a) = NewCol(b)
    /\ \A c \in Taken : Cardinality(ColsOf(Load(c))) <= New.m1
    /\ reloc.rest # <<>> =>
         /\ reloc.treated \in Nat
         /\ reloc.treated % New.m1 # 0 =>
              reloc.des \in Taken /\ Cardinality(ColsOf(Load(reloc.des))) <= reloc.treated % New.m1

\* Azure LRC: the groups that are still to leave are all that a cluster has, and
\* none is larger than a cluster may lose.
LrcReliefInv ==
  step = "relieve" /\ IsLrc =>
    /\ \A c \in DOMAIN reloc.blocks : \A y \in GidsOf(Slots) :
         Cardinality({b \in ToSet(reloc.blocks[c]) : bid2gid(New, b) = y}) <= New.g + 1
    /\ \A i \in DOMAIN reloc.order :
         LET c == reloc.order[i] IN
         \/ Misled(c)
         \/ /\ i < reloc.at => Bearable(Load(c))
            /\ Waits(i) => Load(c) = ToSet(reloc.blocks[c])
            /\ i >= reloc.at => reloc.counts[c] = Cardinality(Load(c))
            /\ i = reloc.at /\ reloc.rest # <<>> =>
                 Load(c) = UNION {RestOf(j) : j \in DOMAIN reloc.rest}
    /\ \A j \in DOMAIN reloc.rest : reloc.rest[j] # <<>> /\ Cardinality(RestOf(j)) <= New.g + 1
    /\ \A i, j \in DOMAIN reloc.rest : i # j => GidsOf(RestOf(i)) \cap GidsOf(RestOf(j)) = {}
    /\ \A c \in Taken : Misled(c) \/ Cardinality(Load(c)) <= New.g + 1

\* In order and with more partitions than clusters, some clusters get two of them.
Crammed(su) == su.rule \in {"AGGREGATED", "VERTICAL"} /\ Len(Partitions(su.code)) > NumClusters
Eased(su)   == Mergeable(su) /\ (su.code \in LrCodes => ~Crammed(su))

\* The blocks of a placed stripe that are in a cluster and in the group of b; the
\* clusters of which the larger stripe has blocks.
Fellows(s, c, b) == {a \in StripeBlocks : /\ ClusterOf(stripes[s].nodes[a]) = c
                                          /\ bid2gid(setup.code, a) = bid2gid(setup.code, b)}
InUse == {ClusterOf(larger.nodes[b]) : b \in DOMAIN larger.nodes}

\* Azure LRC: placement leaves no cluster with more than g + 1 blocks of a group,
\* or else leaves none without blocks.
SpreadInv ==
  setup.code \in LrCodes =>
    /\ step = "place" /\ ~Crammed(setup) =>
         \A s \in Placed : \A c \in Clusters : \A b \in StripeBlocks :
           Cardinality(Fellows(s, c, b)) <= setup.code.g + 1
    /\ step = "place" /\ setup.rule = "HORIZONTAL" /\ group # <<>> => lucky \notin apart
    /\ step = "place" /\ Crammed(setup) =>
         \A s \in Placed : \A c \in Clusters : \E b \in StripeBlocks : ClusterOf(stripes[s].nodes[b]) = c
    /\ step = "count" /\ Eased(setup) => \A c \in Clusters : \A y \in GidsOf(Slots) :
         Cardinality({b \in Load(c) : bid2gid(New, b) = y}) <= New.g + 1
    /\ step = "count" /\ Mergeable(setup) /\ Crammed(setup) => InUse = Clusters

\* With blocks in every cluster none is free: no group ever leaves one.
FullInv ==
  step = "relieve" /\ setup.code \in LrCodes /\ Mergeable(setup) /\ Crammed(setup) =>
    /\ DOMAIN reloc.blocks = Clusters /\ reloc.free = {}
    /\ reloc.rest # <<>> => reloc.cnt = 0
    /\ \A i \in DOMAIN reloc.order :
         LET c == reloc.order[i] IN
         /\ Load(c) = ToSet(reloc.blocks[c])
         /\ i < reloc.at => Bearable(Load(c))

ReliefInv ==
  Mergeable(setup) =>
    QueueInv /\ (Eased(setup) => RsReliefInv /\ PcReliefInv /\ LrcReliefInv)

\* Sets of slots, their groups and their columns are finite.
LEMMA SlotSets ==
  ASSUME TypeInv, NEW S \in SUBSET Slots
  PROVE  /\ IsFiniteSet(S) /\ Cardinality(S) \in Nat /\ S \subseteq Int
         /\ IsFiniteSet(GidsOf(S)) /\ Cardinality(GidsOf(S)) \in Nat
         /\ IsFiniteSet(ColsOf(S)) /\ Cardinality(ColsOf(S)) \in Nat
<1>1. IsFiniteSet(S) /\ S \subseteq Int
  BY SetupBasics, FS_Subset
<1>2. IsFiniteSet(GidsOf(S))
  <2> DEFINE f == [b \in S |-> bid2gid(New, b)]
  <2>1. f \in Surjection(S, GidsOf(S))
    BY DEF Surjection, GidsOf
  <2> QED
    BY <1>1, <2>1, FS_Surjection
<1>3. IsFiniteSet(ColsOf(S))
  <2> DEFINE f == [b \in S |-> NewCol(b)]
  <2>1. f \in Surjection(S, ColsOf(S))
    BY DEF Surjection, ColsOf
  <2> QED
    BY <1>1, <2>1, FS_Surjection
<1> QED
  BY <1>1, <1>2, <1>3, FS_CardinalityType

\* The three tests of auxs.cpp ask about the set of a cluster's slots.
LEMMA TolerantSet ==
  ASSUME TypeInv, NEW s \in Seq(Slots), IsInjective(s)
  PROVE  /\ Len(s) = Cardinality(ToSet(s)) /\ ToSet(s) \subseteq Slots /\ Len(s) \in Nat
         /\ Tolerant(New, s) <=> Bearable(ToSet(s))
<1>1. Len(s) = Cardinality(ToSet(s)) /\ ToSet(s) \subseteq Slots /\ Len(s) \in Nat
  BY ListedSet, ToSetSlots
<1>2. DOMAIN GroupBlocks(New, s) = GidsOf(ToSet(s))
  BY DEF GroupBlocks, GidsOf
<1>3. DOMAIN ColumnBlocks(New, s) = ColsOf(ToSet(s))
  BY DEF ColumnBlocks, ColsOf, NewCol
<1>4. "RS" \notin PcTypes
  BY DEF PcTypes
<1>5. CASE New.type = "RS"
  <2>1. Tolerant(New, s) = (Len(s) <= New.m)
    BY <1>4, <1>5 DEF Tolerant
  <2>2. Bearable(ToSet(s)) = (Cardinality(ToSet(s)) <= New.m)
    BY <1>4, <1>5 DEF Bearable
  <2> QED
    BY <1>1, <2>1, <2>2
<1>6. CASE New.type \in PcTypes
  <2>1. Tolerant(New, s) <=> PcTolerant(New, s)
    BY <1>4, <1>6 DEF Tolerant
  <2>2. PcTolerant(New, s) <=> Cardinality(ColsOf(ToSet(s))) <= New.m1
    BY <1>3 DEF PcTolerant
  <2>3. Bearable(ToSet(s)) <=> Cardinality(ColsOf(ToSet(s))) <= New.m1
    BY <1>4, <1>6 DEF Bearable
  <2> QED
    BY <1>1, <2>1, <2>2, <2>3, Zenon
<1>7. CASE New.type # "RS" /\ New.type \notin PcTypes
  BY <1>1, <1>2, <1>7 DEF Tolerant, Bearable, LrcTolerant
<1> QED
  BY <1>1, <1>5, <1>6, <1>7

\* The list of a cluster's slots.
LEMMA LoadListed ==
  ASSUME TypeInv, larger.nodes \in [Slots -> AllNodes], NEW c
  PROVE  /\ Load(c) \subseteq Slots /\ IsFiniteSet(Load(c)) /\ Cardinality(Load(c)) \in Nat
         /\ SlotsIn(larger.nodes, c) \in Seq(Slots) /\ IsInjective(SlotsIn(larger.nodes, c))
         /\ ToSet(SlotsIn(larger.nodes, c)) = Load(c)
         /\ Len(SlotsIn(larger.nodes, c)) = Cardinality(Load(c))
<1>1. Load(c) \in SUBSET Slots
  BY DEF Load
<1>2. SlotsIn(larger.nodes, c) = Ordered(Load(c))
  BY DEF SlotsIn, Load
<1>3. IsFiniteSet(Load(c)) /\ Load(c) \subseteq Int /\ Cardinality(Load(c)) \in Nat
  BY <1>1, SlotSets
<1>4. IsInjective(Ordered(Load(c)))
  BY <1>3, OrderedSeq DEF IsInjective
<1> QED
  BY <1>1, <1>2, <1>3, <1>4, SlotsInSeq, OrderedAll, OrderedSeq

\* What a cluster may lose it may lose when no block is there.
LEMMA NothingBearable ==
  ASSUME TypeInv
  PROVE  Bearable({}) /\ GidsOf({}) = {} /\ ColsOf({}) = {}
<1>1. Cardinality({}) = 0 /\ GidsOf({}) = {} /\ ColsOf({}) = {}
  BY FS_EmptySet DEF GidsOf, ColsOf
<1>2. New \in AllCodes
  BY SetupBasics
<1>3. /\ New.type = "RS" => New.m \in Nat
      /\ New.type \in PcTypes => New.m1 \in Nat
      /\ New.type # "RS" /\ New.type \notin PcTypes => New.g \in Nat
  BY <1>2 DEF AllCodes, RsCodes, LrCodes, PcCodes, PcTypes, Pos
<1> QED
  BY <1>1, <1>3 DEF Bearable, PcTypes

\* Moving slots to a cluster: it gets them, the others lose them; the moves that
\* were planned stay in the plan.
LEMMA MoveLoad ==
  ASSUME IInv, step = "relieve", setup' = setup, NEW des, NEW slots \in Seq(Slots),
         NEW free \in SUBSET NodesIn(des), MoveTo(slots, free)
  PROVE  /\ Slots' = Slots /\ New' = New
         /\ Load(des)' = Load(des) \cup ToSet(slots)
         /\ \A c : c # des => Load(c)' = Load(c) \ ToSet(slots)
         /\ \A i \in DOMAIN moves : i \in DOMAIN moves' /\ moves'[i] = moves[i]
         /\ slots # <<>> => \E i \in DOMAIN moves' : ClusterOf(moves'[i].to) = des
<1>1. /\ DOMAIN larger = {"ids", "nodes"} /\ larger.nodes \in [Slots -> AllNodes]
  BY DEF IInv, LargerInv, Underway
<1>2. PICK to \in kSubset(Len(slots), free) :
        /\ larger' = [larger EXCEPT !.nodes = [b \in DOMAIN @ |->
             IF b \in ToSet(slots)
             THEN Ordered(to)[CHOOSE j \in DOMAIN slots : slots[j] = b] ELSE @[b]]]
        /\ moves' = moves \o [j \in DOMAIN slots |->
             [block |-> larger.ids[slots[j]], from |-> larger.nodes[slots[j]],
              to |-> Ordered(to)[j]]]
  BY DEF MoveTo
<1> DEFINE node == Ordered(to)
           At(b) == CHOOSE j \in DOMAIN slots : slots[j] = b
           new == [j \in DOMAIN slots |->
             [block |-> larger.ids[slots[j]], from |-> larger.nodes[slots[j]], to |-> node[j]]]
           n == Len(slots)
<1>3. n \in Nat /\ DOMAIN slots = 1 .. n /\ \A j \in 1 .. n : slots[j] \in Slots
  BY LenProperties
<1>4. node \in [1 .. n -> free]
  <2>1. to \subseteq free /\ Cardinality(to) = n /\ free \subseteq AllNodes
    BY DEF kSubset, NodesIn
  <2>2. IsFiniteSet(to) /\ to \subseteq Int
    <3>1. IsFiniteSet(to)
      BY <2>1, Nodes, FS_Subset
    <3>2. AllNodes \subseteq Int
      BY DEF AllNodes
    <3> QED
      BY <2>1, <3>1, <3>2
  <2>3. node \in Seq(to) /\ DOMAIN node = 1 .. n
    BY <2>1, <2>2, OrderedSeq
  <2> QED
    BY <2>1, <2>3
<1> HIDE DEF node
<1>5. /\ larger'.nodes = [b \in Slots |-> IF b \in ToSet(slots) THEN node[At(b)] ELSE larger.nodes[b]]
      /\ moves' = moves \o new
  BY <1>1, <1>2 DEF node
<1>6. \A b \in ToSet(slots) : At(b) \in 1 .. n /\ b \in Slots
  BY <1>3 DEF ToSet
<1> HIDE DEF At
<1>7. \A j \in 1 .. n : node[j] \in NodesIn(des) /\ ClusterOf(node[j]) = des
  BY <1>4 DEF NodesIn
<1>8. \A b \in Slots : ClusterOf(larger'.nodes[b]) =
        IF b \in ToSet(slots) THEN des ELSE ClusterOf(larger.nodes[b])
  BY <1>5, <1>6, <1>7
<1>9. Slots' = Slots /\ New' = New
  BY DEF Slots, New
<1>10. \A c : Load(c)' = {b \in Slots : ClusterOf(larger'.nodes[b]) = c}
  BY <1>9 DEF Load, ClusterOf
<1>11. /\ Load(des)' = Load(des) \cup ToSet(slots)
       /\ \A c : c # des => Load(c)' = Load(c) \ ToSet(slots)
  BY <1>6, <1>8, <1>10 DEF Load
<1> DEFINE Rec == [block : 0 .. newBlock - 1, from : AllNodes, to : AllNodes]
<1>12. moves \in Seq(Rec) /\ Len(moves) \in Nat /\ DOMAIN moves = 1 .. Len(moves)
  BY LenProperties DEF IInv, TypeInv
<1>13. new \in Seq(Rec) /\ Len(new) = n /\ \A j \in 1 .. n : new[j].to = node[j]
  <2>1. larger.ids \in [Slots -> 0 .. newBlock - 1] /\ free \subseteq AllNodes
    BY DEF IInv, LargerInv, Underway, NodesIn
  <2>2. new \in [1 .. n -> Rec] /\ \A j \in 1 .. n : new[j].to = node[j]
    BY <1>1, <1>3, <1>4, <2>1
  <2>3. new \in Seq(Rec)
    BY <1>3, <2>2, SeqDef
  <2> QED
    BY <1>3, <2>2, <2>3, LenProperties
<1> HIDE DEF new, Rec
<1>14. /\ moves' \in Seq(Rec) /\ Len(moves') = Len(moves) + n
       /\ \A i \in 1 .. Len(moves) + n :
            moves'[i] = IF i <= Len(moves) THEN moves[i] ELSE new[i - Len(moves)]
  <2>1. /\ moves \o new \in Seq(Rec) /\ Len(moves \o new) = Len(moves) + Len(new)
        /\ \A i \in 1 .. Len(moves) + Len(new) :
             (moves \o new)[i] = IF i <= Len(moves) THEN moves[i] ELSE new[i - Len(moves)]
    BY <1>12, <1>13, ConcatProperties, Zenon
  <2> QED
    BY ONLY <1>5, <1>13, <2>1, Zenon
<1>15. DOMAIN moves' = 1 .. Len(moves) + n
  BY <1>14, LenProperties
<1>16. \A i \in DOMAIN moves : i \in DOMAIN moves' /\ moves'[i] = moves[i]
  BY <1>3, <1>12, <1>14, <1>15
<1>17. ASSUME slots # <<>> PROVE \E i \in DOMAIN moves' : ClusterOf(moves'[i].to) = des
  <2>1. n >= 1
    BY <1>3, <1>17, EmptySeq
  <2>2. PICK i \in 1 .. Len(moves) + n : i = Len(moves) + 1
    BY <1>3, <1>12, <2>1
  <2>3. ~(i <= Len(moves)) /\ i - Len(moves) = 1
    BY <1>12, <2>2
  <2>4. moves'[i] = new[1] /\ new[1].to = node[1]
    BY <1>13, <1>14, <2>1, <2>3, <1>3
  <2> QED
    BY <1>3, <1>7, <1>15, <2>1, <2>4
<1> QED
  BY <1>9, <1>11, <1>16, <1>17

----------------------------------------------------------------------------
(* Counting the blocks.                                                   *)

\* The n members of S, the one at i with i - 1 members before it.
Ranked(R, S, n, f) == \A i \in 1 .. n : Cardinality(Before(R, S, f[i])) = i - 1

\* A list in which the member at i has i - 1 members before it lists them all.
LEMMA RankedList ==
  ASSUME NEW S, IsFiniteSet(S), NEW R, NEW n \in Nat, n = Cardinality(S),
         NEW f \in [1 .. n -> S], Ranked(R, S, n, f)
  PROVE  f \in Seq(S) /\ Len(f) = n /\ IsInjective(f) /\ ToSet(f) = S
<1>1. f \in Seq(S) /\ Len(f) = n
  <2>1. f \in Seq(S)
    BY SeqDef
  <2> QED
    BY <2>1, LenProperties
<1>2. \A i, j \in 1 .. n : f[i] = f[j] => i = j
  <2> SUFFICES ASSUME NEW i \in 1 .. n, NEW j \in 1 .. n, f[i] = f[j] PROVE i = j
    OBVIOUS
  <2>1. i - 1 = j - 1
    BY DEF Ranked
  <2> QED
    BY <2>1
<1>3. f \in Injection(1 .. n, S) /\ IsInjective(f)
  BY <1>2 DEF Injection, IsInjective
<1>4. Cardinality(1 .. n) = n
  <2>1. 1 \in Int /\ n \in Int
    OBVIOUS
  <2>2. Cardinality(1 .. n) = IF 1 > n THEN 0 ELSE n - 1 + 1
    BY ONLY <2>1, FS_Interval, Zenon
  <2> QED
    BY <2>2
<1>5. f \in Surjection(1 .. n, S)
  BY <1>3, <1>4, FS_Injection
<1>6. ToSet(f) = S
  BY <1>5 DEF Surjection, ToSet
<1> QED
  BY <1>1, <1>3, <1>6

\* The clusters in use.

\* The search begins with the clusters in use, each one once.
LEMMA CountEffect ==
  ASSUME IInv, CountBlocks
  PROVE  /\ step = "count" /\ step' = "relieve"
         /\ UNCHANGED <<setup, tables, placement, larger, made, moving>>
         /\ InUse \subseteq Clusters
         /\ reloc'.order \in Seq(InUse) /\ IsInjective(reloc'.order) /\ ToSet(reloc'.order) = InUse
         /\ reloc'.at = 1 /\ reloc'.rest = <<>> /\ reloc'.free = Clusters \ InUse
         /\ reloc'.blocks = [c \in InUse |-> SlotsIn(larger.nodes, c)]
         /\ reloc'.counts = [c \in InUse |-> Len(SlotsIn(larger.nodes, c))]
         /\ DOMAIN reloc' = DOMAIN NoReloc
<1> DEFINE used == {ClusterOf(larger.nodes[b]) : b \in DOMAIN larger.nodes}
           counts == [c \in used |-> Len(SlotsIn(larger.nodes, c))]
           n == Cardinality(used)
<1>1. /\ step = "count" /\ step' = "relieve"
      /\ UNCHANGED <<setup, tables, placement, larger, made, moving>>
  BY DEF CountBlocks
<1>2. larger.nodes \in [Slots -> AllNodes] /\ TypeInv
  BY <1>1 DEF IInv, LargerInv, Underway
<1>3. used \subseteq Clusters /\ Clusters \subseteq Nat
  BY <1>2, ClusterOfNode DEF Clusters
<1>4. IsFiniteSet(used) /\ n \in Nat
  BY <1>3, Nodes, FS_Subset, FS_CardinalityType
<1>5. \A c \in used : counts[c] \in Nat /\ SlotsIn(larger.nodes, c) \in Seq(Slots)
  BY <1>2, SlotsInSeq
<1> HIDE DEF used
<1>6. PICK up \in BOOLEAN :
        reloc' = [NoReloc EXCEPT
            !.order  = InOrder(used, LAMBDA c, d :
                         \/ counts[c] > counts[d]
                         \/ counts[c] = counts[d] /\ (IF up THEN c < d ELSE d < c)),
            !.counts = counts,
            !.blocks = [c \in used |-> SlotsIn(larger.nodes, c)],
            !.free   = Clusters \ used]
  BY DEF CountBlocks, used
<1> HIDE DEF counts, n
<1> DEFINE Ahead(y, x) == \/ counts[y] > counts[x]
                          \/ counts[y] = counts[x] /\ (IF up THEN y < x ELSE x < y)
           R == {p \in used \X used : Ahead(p[1], p[2])}
           At(i) == CHOOSE x \in used : Cardinality({y \in used :
                         \/ counts[y] > counts[x]
                         \/ counts[y] = counts[x] /\ (IF up THEN y < x ELSE x < y)}) = i - 1
<1>7. \A x, y \in used : <<y, x>> \in R <=> Ahead(y, x)
  OBVIOUS
<1> HIDE DEF R, Ahead
<1>8. Orders(R, used)
  <2>1. \A x \in used : counts[x] \in Nat /\ x \in Nat
    BY <1>3, <1>5
  <2>2. \A x \in used : <<x, x>> \notin R
    BY <1>7, <2>1 DEF Ahead
  <2>3. ASSUME NEW x \in used, NEW y \in used, NEW z \in used, <<x, y>> \in R, <<y, z>> \in R
        PROVE  <<x, z>> \in R
    <3>0. PICK a \in Nat, b \in Nat, c \in Nat :
            a = counts[x] /\ b = counts[y] /\ c = counts[z]
      BY <2>1
    <3>1. x \in Nat /\ y \in Nat /\ z \in Nat
      BY <2>1
    <3>2. /\ a > b \/ (a = b /\ (IF up THEN x < y ELSE y < x))
          /\ b > c \/ (b = c /\ (IF up THEN y < z ELSE z < y))
      <4>1. Ahead(x, y) /\ Ahead(y, z)
        BY <1>7, <2>3
      <4> QED
        BY <3>0, <4>1 DEF Ahead
    <3>3. a > c \/ (a = c /\ (IF up THEN x < z ELSE z < x))
      BY ONLY <3>1, <3>2, up \in BOOLEAN
    <3>4. Ahead(x, z)
      BY <3>0, <3>3 DEF Ahead
    <3> QED
      BY <1>7, <3>4
  <2>4. \A x, y \in used : x = y \/ <<x, y>> \in R \/ <<y, x>> \in R
    <3> SUFFICES ASSUME NEW x \in used, NEW y \in used
                 PROVE  x = y \/ <<x, y>> \in R \/ <<y, x>> \in R
      OBVIOUS
    <3>0. PICK a \in Nat, b \in Nat : a = counts[x] /\ b = counts[y]
      BY <2>1
    <3>1. x \in Nat /\ y \in Nat
      BY <2>1
    <3>2. a > b \/ b > a \/ (a = b /\ b = a)
      OBVIOUS
    <3>3. x = y \/ x < y \/ y < x
      BY <3>1
    <3>4. x = y \/ Ahead(x, y) \/ Ahead(y, x)
      BY <3>0, <3>2, <3>3 DEF Ahead
    <3> QED
      BY <1>7, <3>4
  <2> QED
    BY <2>2, <2>3, <2>4 DEF Orders
<1>9. ASSUME NEW i \in 1 .. n
      PROVE  At(i) \in used /\ Cardinality(Before(R, used, At(i))) = i - 1
  <2>0. \A x \in used : Before(R, used, x) = {y \in used :
                         \/ counts[y] > counts[x]
                         \/ counts[y] = counts[x] /\ (IF up THEN y < x ELSE x < y)}
    BY <1>7 DEF Before, Ahead
  <2>1. PICK x \in used : Cardinality(Before(R, used, x)) = i - 1
    BY <1>4, <1>8, Ranking DEF n
  <2>2. At(i) \in used /\ Cardinality({y \in used :
                         \/ counts[y] > counts[At(i)]
                         \/ counts[y] = counts[At(i)] /\ (IF up THEN y < At(i) ELSE At(i) < y)}) = i - 1
    BY <2>0, <2>1
  <2> QED
    BY <2>0, <2>2
<1>10. reloc'.order = [i \in 1 .. n |-> At(i)]
  BY <1>6 DEF InOrder, n, NoReloc
<1> HIDE DEF At
<1>11. /\ reloc'.order \in Seq(used) /\ IsInjective(reloc'.order) /\ ToSet(reloc'.order) = used
  <2>1. reloc'.order \in [1 .. n -> used]
    BY <1>9, <1>10
  <2>2. Ranked(R, used, n, reloc'.order)
    BY <1>9, <1>10 DEF Ranked
  <2> QED
    BY <1>4, <2>1, <2>2, RankedList DEF n
<1>12. /\ reloc'.at = 1 /\ reloc'.blocks = [c \in used |-> SlotsIn(larger.nodes, c)]
       /\ reloc'.rest = <<>> /\ reloc'.free = Clusters \ used /\ reloc'.counts = counts
       /\ DOMAIN reloc' = DOMAIN NoReloc
  BY <1>6 DEF NoReloc
<1>13. used = InUse /\ counts = [c \in InUse |-> Len(SlotsIn(larger.nodes, c))]
  BY DEF InUse, used, counts
<1> QED
  BY <1>1, <1>3, <1>11, <1>12, <1>13

\* The merged code is of the kind that was merged.
LEMMA NewKind ==
  ASSUME TypeInv
  PROVE  /\ New.type = setup.code.type /\ "RS" \notin PcTypes
         /\ New.type = "RS" => New.m \in Nat
         /\ New.type \in PcTypes => New.m1 \in Nat /\ New.m1 > 0
         /\ IsLrc => setup.code \in LrCodes /\ New.g = setup.code.g /\ New.g \in Nat
<1>1. setup \in Setups /\ setup.code \in AllCodes /\ New \in AllCodes
  BY SetupBasics
<1>2. /\ setup.code \in RsCodes => New.type = "RS" /\ setup.code.type = "RS"
      /\ setup.code \in LrCodes => New.type = "AZURE_LRC" /\ setup.code.type = "AZURE_LRC"
                                     /\ New.g = setup.code.g
      /\ setup.code \in PcCodes => New.type = setup.code.type /\ New.type \in PcTypes
  BY DEF New, MergedCode, RsCodes, LrCodes, PcCodes, PcTypes
<1>3. /\ New.type = "RS" => New.m \in Nat
      /\ New.type \in PcTypes => New.m1 \in Nat /\ New.m1 > 0
      /\ New.type = "AZURE_LRC" => New.g \in Nat
  BY <1>1 DEF AllCodes, RsCodes, LrCodes, PcCodes, PcTypes, Pos
<1>4. "RS" \notin PcTypes
  BY DEF PcTypes
<1> QED
  BY <1>1, <1>2, <1>3, <1>4 DEF AllCodes, IsLrc

\* When the blocks are counted the search knows where they are.
LEMMA CountRelief ==
  ASSUME IInv, SpreadInv, CountBlocks
  PROVE  ReliefInv'
<1>1. /\ step = "count" /\ step' = "relieve"
      /\ UNCHANGED <<setup, tables, placement, larger, made, moving>>
      /\ InUse \subseteq Clusters
      /\ reloc'.order \in Seq(InUse) /\ IsInjective(reloc'.order) /\ ToSet(reloc'.order) = InUse
      /\ reloc'.at = 1 /\ reloc'.rest = <<>> /\ reloc'.free = Clusters \ InUse
      /\ reloc'.blocks = [c \in InUse |-> SlotsIn(larger.nodes, c)]
      /\ reloc'.counts = [c \in InUse |-> Len(SlotsIn(larger.nodes, c))]
  BY CountEffect
<1>2. TypeInv /\ larger.nodes \in [Slots -> AllNodes]
  BY <1>1 DEF IInv, LargerInv, Underway
<1>3. Slots' = Slots /\ New' = New /\ GidsOf(Slots)' = GidsOf(Slots)
  BY <1>1 DEF Slots, New, GidsOf
<1>4. \A c : Load(c)' = Load(c)
  BY <1>1, <1>3 DEF Load, ClusterOf
<1>5. \A c \in InUse :
        /\ reloc'.blocks[c] \in Seq(Slots) /\ IsInjective(reloc'.blocks[c])
        /\ ToSet(reloc'.blocks[c]) = Load(c) /\ reloc'.counts[c] = Cardinality(Load(c))
  BY <1>1, <1>2, LoadListed
<1>6. DOMAIN reloc'.blocks = InUse /\ DOMAIN reloc'.rest = {}
  BY <1>1
<1>7. \A c : c \notin InUse => Load(c) = {}
  BY <1>2 DEF Load, InUse
<1>8. \A i \in DOMAIN reloc'.order : reloc'.order[i] \in InUse /\ i \in Nat /\ i >= 1 /\ ~(i < 1)
  <2>1. DOMAIN reloc'.order = 1 .. Len(reloc'.order) /\ Len(reloc'.order) \in Nat
    BY <1>1, LenProperties
  <2> QED
    BY <1>1, <2>1, ElementOfSeq
<1>9. Taken' = {}
  BY <1>1, <1>6 DEF Taken, Clusters
<1>10. Clusters' = Clusters
  BY DEF Clusters
<1>11. QueueInv'
  BY <1>1, <1>4, <1>5, <1>6, <1>7, <1>8 DEF QueueInv, Waits
<1>12. RsReliefInv'
  BY <1>1, <1>4, <1>5, <1>8, <1>9 DEF RsReliefInv
<1>13. PcReliefInv'
  BY <1>1, <1>4, <1>5, <1>6, <1>8, <1>9 DEF PcReliefInv, Waits
<1>14. ASSUME Eased(setup) PROVE LrcReliefInv'
  <2> SUFFICES ASSUME IsLrc' PROVE LrcReliefInv'
    BY DEF LrcReliefInv
  <2>1. IsLrc
    BY <1>3 DEF IsLrc
  <2>2. setup.code \in LrCodes
    BY <1>2, <2>1, NewKind
  <2>3. \A c \in Clusters : \A y \in GidsOf(Slots) :
         Cardinality({b \in Load(c) : bid2gid(New, b) = y}) <= New.g + 1
    BY <1>1, <1>14, <2>2 DEF SpreadInv
  <2>4. \A c \in DOMAIN reloc'.blocks : \A y \in GidsOf(Slots)' :
         Cardinality({b \in ToSet(reloc'.blocks[c]) : bid2gid(New', b) = y}) <= New'.g + 1
    <3> SUFFICES ASSUME NEW c \in DOMAIN reloc'.blocks, NEW y \in GidsOf(Slots)'
                 PROVE  Cardinality({b \in ToSet(reloc'.blocks[c]) : bid2gid(New', b) = y}) <= New'.g + 1
      OBVIOUS
    <3>1. c \in Clusters /\ y \in GidsOf(Slots) /\ ToSet(reloc'.blocks[c]) = Load(c)
      BY <1>1, <1>3, <1>5, <1>6
    <3>2. {b \in ToSet(reloc'.blocks[c]) : bid2gid(New', b) = y} = {b \in Load(c) : bid2gid(New, b) = y}
      BY <1>3, <3>1
    <3>3. Cardinality({b \in Load(c) : bid2gid(New, b) = y}) <= New.g + 1
      BY <2>3, <3>1
    <3> QED
      BY <1>3, <3>2, <3>3
  <2> QED
    BY <1>1, <1>4, <1>5, <1>6, <1>8, <1>9, <2>4 DEF LrcReliefInv, Waits
<1>15. Eased(setup)' <=> Eased(setup)
  BY <1>1
<1> QED
  BY <1>11, <1>12, <1>13, <1>14, <1>15 DEF ReliefInv

----------------------------------------------------------------------------
(* Moving blocks: Reed-Solomon.                                           *)

\* Slots that are moved from one cluster: only that one loses any.
LEMMA MoveShift ==
  ASSUME IInv, step = "relieve", setup' = setup, NEW src, NEW des, NEW slots \in Seq(Slots),
         ToSet(slots) \subseteq Load(src), NEW free \in SUBSET NodesIn(des), MoveTo(slots, free)
  PROVE  /\ Load(des)' = Load(des) \cup ToSet(slots)
         /\ src # des => Load(src)' = Load(src) \ ToSet(slots)
         /\ src = des => Load(src)' = Load(src)
         /\ \A c : c # src /\ c # des => Load(c)' = Load(c)
<1>1. /\ Load(des)' = Load(des) \cup ToSet(slots)
      /\ \A c : c # des => Load(c)' = Load(c) \ ToSet(slots)
  BY MoveLoad
<1>2. ASSUME NEW c, c # src, c # des PROVE Load(c)' = Load(c)
  <2>1. Load(c) \cap ToSet(slots) = {}
    BY <1>2 DEF Load
  <2> QED
    BY <1>1, <1>2, <2>1
<1> QED
  BY <1>1, <1>2

\* A cluster that a local group went to as cluster 0 stays one of those.
LEMMA MisledStays ==
  ASSUME IInv, step = "relieve", setup' = setup, NEW des, NEW slots \in Seq(Slots),
         NEW free \in SUBSET NodesIn(des), MoveTo(slots, free), IsLrc
  PROVE  /\ IsLrc' /\ \A c : Misled(c) => Misled(c)'
         /\ slots # <<>> /\ des = 0 => Misled(des)'
<1>1. /\ New' = New
      /\ \A i \in DOMAIN moves : i \in DOMAIN moves' /\ moves'[i] = moves[i]
      /\ slots # <<>> => \E i \in DOMAIN moves' : ClusterOf(moves'[i].to) = des
  BY MoveLoad
<1>2. IsLrc'
  BY <1>1 DEF IsLrc
<1>3. \A c : Misled(c) <=> c = 0 /\ \E i \in DOMAIN moves : ClusterOf(moves[i].to) = 0
  BY DEF Misled, IsLrc
<1>4. \A c : Misled(c)' <=> c = 0 /\ \E i \in DOMAIN moves' : ClusterOf(moves'[i].to) = 0
  BY <1>2 DEF Misled, IsLrc, ClusterOf
<1> QED
  BY <1>1, <1>2, <1>3, <1>4

\* The cluster whose turn it is has its place in the order.
LEMMA CrowdedPlace ==
  ASSUME IInv, QueueInv, Relieving
  PROVE  /\ reloc.at \in DOMAIN reloc.order /\ reloc.at \in Nat /\ step = "relieve"
         /\ Crowded = reloc.order[reloc.at] /\ Crowded \in DOMAIN reloc.blocks
         /\ DOMAIN reloc.order = 1 .. Len(reloc.order) /\ Len(reloc.order) \in Nat
         /\ \A i \in DOMAIN reloc.order :
              reloc.order[i] \in DOMAIN reloc.blocks /\ (reloc.order[i] = Crowded <=> i = reloc.at)
         /\ Crowded \notin reloc.free /\ Crowded \notin Taken
<1>1. /\ reloc.order \in Seq(DOMAIN reloc.blocks) /\ reloc.at \in Nat \ {0} /\ step = "relieve"
      /\ reloc.at <= Len(reloc.order)
  BY DEF IInv, SearchInv, Relieving
<1>2. DOMAIN reloc.order = 1 .. Len(reloc.order) /\ Len(reloc.order) \in Nat
  BY <1>1, LenProperties
<1>3. reloc.at \in DOMAIN reloc.order
  BY <1>1, <1>2
<1>4. \A i \in DOMAIN reloc.order : reloc.order[i] \in DOMAIN reloc.blocks
  BY <1>1, <1>2, ElementOfSeq
<1>5. \A i, j \in DOMAIN reloc.order : reloc.order[i] = reloc.order[j] => i = j
  BY <1>1 DEF QueueInv, IsInjective
<1> QED
  BY <1>1, <1>2, <1>3, <1>4, <1>5 DEF Crowded, QueueInv, Taken

\* The batches after the first.
LEMMA RestShifts ==
  ASSUME SearchInv, step = "relieve", reloc.rest # <<>>, reloc'.rest = Tail(reloc.rest)
  PROVE  /\ 1 \in DOMAIN reloc.rest /\ Batch = reloc.rest[1] /\ Batch \in Seq(Slots)
         /\ Len(reloc.rest) \in Nat /\ Len(reloc.rest) >= 1 /\ DOMAIN reloc.rest = 1 .. Len(reloc.rest)
         /\ Len(reloc'.rest) = Len(reloc.rest) - 1
         /\ \A j \in DOMAIN reloc'.rest :
              /\ j \in Nat /\ j >= 1 /\ j + 1 \in DOMAIN reloc.rest /\ j + 1 # 1
              /\ reloc'.rest[j] = reloc.rest[j + 1] /\ RestOf(j)' = RestOf(j + 1)
         /\ \A j \in DOMAIN reloc.rest : j # 1 =>
              j - 1 \in DOMAIN reloc'.rest /\ reloc'.rest[j - 1] = reloc.rest[j]
                /\ RestOf(j - 1)' = RestOf(j)
<1>1. reloc.rest \in Seq(Seq(Slots))
  BY DEF SearchInv
<1>2. /\ Len(reloc.rest) \in Nat /\ DOMAIN reloc.rest = 1 .. Len(reloc.rest)
      /\ Len(reloc.rest) >= 1
  <2>1. Len(reloc.rest) \in Nat /\ DOMAIN reloc.rest = 1 .. Len(reloc.rest)
    BY <1>1, LenProperties
  <2>2. Len(reloc.rest) # 0
    BY <1>1, EmptySeq
  <2> QED
    BY <2>1, <2>2
<1>3. /\ Head(reloc.rest) = reloc.rest[1] /\ Head(reloc.rest) \in Seq(Slots)
      /\ Tail(reloc.rest) \in Seq(Seq(Slots)) /\ Len(Tail(reloc.rest)) = Len(reloc.rest) - 1
      /\ \A i \in 1 .. Len(Tail(reloc.rest)) : Tail(reloc.rest)[i] = reloc.rest[i + 1]
  BY <1>1, HeadTailProperties
<1>4. DOMAIN reloc'.rest = 1 .. Len(reloc.rest) - 1
  BY <1>2, <1>3, LenProperties
<1>5. ASSUME NEW j \in DOMAIN reloc'.rest
      PROVE  /\ j \in Nat /\ j >= 1 /\ j + 1 \in DOMAIN reloc.rest /\ j + 1 # 1
             /\ reloc'.rest[j] = reloc.rest[j + 1] /\ RestOf(j)' = RestOf(j + 1)
  <2>1. j \in Nat /\ j >= 1 /\ j + 1 \in DOMAIN reloc.rest /\ j + 1 # 1
    BY <1>2, <1>4
  <2>2. reloc'.rest[j] = reloc.rest[j + 1]
    BY <1>2, <1>3, <1>4
  <2> QED
    BY <2>1, <2>2 DEF RestOf
<1>6. ASSUME NEW j \in DOMAIN reloc.rest, j # 1
      PROVE  /\ j - 1 \in DOMAIN reloc'.rest /\ reloc'.rest[j - 1] = reloc.rest[j]
             /\ RestOf(j - 1)' = RestOf(j)
  <2>1. PICK i \in DOMAIN reloc'.rest : i = j - 1 /\ i + 1 = j
    BY <1>2, <1>4, <1>6
  <2> QED
    BY <1>5, <2>1
<1> QED
  BY <1>2, <1>3, <1>5, <1>6 DEF Batch

\* Moving slots of the cluster whose turn it is keeps the queue.
LEMMA MoveQueue ==
  ASSUME IInv, QueueInv, Relieving, step' = step, setup' = setup,
         NEW des, NEW slots \in Seq(Slots), ToSet(slots) \subseteq Load(Crowded),
         NEW free \in SUBSET NodesIn(des), MoveTo(slots, free),
         reloc'.order = reloc.order, reloc'.blocks = reloc.blocks, reloc'.free \subseteq reloc.free,
         des \in reloc'.free => IsLrc /\ Misled(des)',
         DOMAIN reloc'.counts = DOMAIN reloc.counts,
         reloc'.at \in {reloc.at, reloc.at + 1},
         \/ reloc'.rest = <<>> /\ reloc'.at = reloc.at + 1
         \/ /\ reloc.rest # <<>> /\ slots = Batch /\ reloc'.rest = Tail(reloc.rest)
            /\ reloc'.rest # <<>> /\ reloc'.at = reloc.at
  PROVE  QueueInv'
<1>1. /\ reloc.at \in DOMAIN reloc.order /\ reloc.at \in Nat /\ step = "relieve"
      /\ Crowded \in DOMAIN reloc.blocks /\ DOMAIN reloc.order = 1 .. Len(reloc.order)
      /\ Len(reloc.order) \in Nat
      /\ \A i \in DOMAIN reloc.order :
           reloc.order[i] \in DOMAIN reloc.blocks /\ (reloc.order[i] = Crowded <=> i = reloc.at)
      /\ Crowded \notin reloc.free
  BY CrowdedPlace
<1>0. PICK cr : cr = Crowded
  OBVIOUS
<1>2. /\ Load(des)' = Load(des) \cup ToSet(slots)
      /\ cr # des => Load(cr)' = Load(cr) \ ToSet(slots)
      /\ cr = des => Load(cr)' = Load(cr)
      /\ \A c : c # cr /\ c # des => Load(c)' = Load(c)
  <2>1. ToSet(slots) \subseteq Load(cr)
    BY <1>0
  <2> QED
    BY ONLY <1>1, <2>1, IInv, setup' = setup, MoveTo(slots, free), slots \in Seq(Slots),
            free \in SUBSET NodesIn(des), MoveShift
<1>3. ASSUME NEW c \in reloc'.free PROVE Load(c)' = {} \/ (IsLrc' /\ Misled(c)')
  <2>1. CASE c = des
    BY <1>1, <1>3, <2>1, MisledStays
  <2>2. CASE c # des
    <3>1. c \in reloc.free /\ c # cr
      BY <1>0, <1>1, <1>3
    <3>2. Load(c)' = Load(c)
      BY <1>2, <2>2, <3>1
    <3>3. Load(c) = {} \/ (IsLrc /\ Misled(c))
      BY <1>1, <3>1 DEF QueueInv
    <3> QED
      BY <1>1, <3>2, <3>3, MisledStays
  <2> QED
    BY <2>1, <2>2
<1>4. ASSUME NEW i \in DOMAIN reloc'.order, Waits(i)'
      PROVE  (ToSet(reloc.blocks[reloc.order[i]]) \subseteq Load(reloc.order[i]))'
  <2>1. i > reloc.at /\ i \in Nat
    BY <1>1, <1>4 DEF Waits
  <2>2. ToSet(reloc.blocks[reloc.order[i]]) \subseteq Load(reloc.order[i]) /\ i # reloc.at
    <3>1. Waits(i) /\ i \in DOMAIN reloc.order /\ i # reloc.at
      BY <1>1, <2>1 DEF Waits
    <3> QED
      BY <1>1, <3>1 DEF QueueInv
  <2>3. PICK c : c = reloc.order[i] /\ c # cr
    BY <1>0, <1>1, <2>2
  <2>4. Load(c) \subseteq Load(c)'
    BY <1>2, <2>3
  <2> QED
    BY <2>2, <2>3, <2>4
<1>5. \/ reloc'.rest = <<>>
      \/ /\ Crowded' = Crowded
         /\ \A j \in DOMAIN reloc'.rest : IsInjective(reloc'.rest[j]) /\ RestOf(j)' \subseteq Load(Crowded)'
         /\ \A i, j \in DOMAIN reloc'.rest : i # j => RestOf(i)' \cap RestOf(j)' = {}
  <2> SUFFICES ASSUME /\ reloc.rest # <<>> /\ slots = Batch /\ reloc'.rest = Tail(reloc.rest)
                      /\ reloc'.at = reloc.at
               PROVE  /\ Crowded' = Crowded
                      /\ \A j \in DOMAIN reloc'.rest :
                           IsInjective(reloc'.rest[j]) /\ RestOf(j)' \subseteq Load(Crowded)'
                      /\ \A i, j \in DOMAIN reloc'.rest : i # j => RestOf(i)' \cap RestOf(j)' = {}
    OBVIOUS
  <2>1. /\ 1 \in DOMAIN reloc.rest /\ Batch = reloc.rest[1]
        /\ \A j \in DOMAIN reloc'.rest :
              /\ j \in Nat /\ j >= 1 /\ j + 1 \in DOMAIN reloc.rest /\ j + 1 # 1
              /\ reloc'.rest[j] = reloc.rest[j + 1] /\ RestOf(j)' = RestOf(j + 1)
    BY <1>1, RestShifts DEF IInv
  <2>2. /\ \A j \in DOMAIN reloc.rest : IsInjective(reloc.rest[j]) /\ RestOf(j) \subseteq Load(Crowded)
        /\ \A i, j \in DOMAIN reloc.rest : i # j => RestOf(i) \cap RestOf(j) = {}
    BY <1>1 DEF QueueInv
  <2>3. Crowded' = Crowded
    BY DEF Crowded
  <2>4. Load(Crowded) \ ToSet(slots) \subseteq Load(Crowded)'
    <3>1. Load(cr) \ ToSet(slots) \subseteq Load(cr)'
      BY <1>2
    <3> QED
      BY <1>0, <2>3, <3>1
  <2>5. ToSet(slots) = RestOf(1)
    BY <2>1 DEF RestOf
  <2>6. ASSUME NEW j \in DOMAIN reloc'.rest
        PROVE  IsInjective(reloc'.rest[j]) /\ RestOf(j)' \subseteq Load(Crowded)'
    <3>1. RestOf(j + 1) \cap RestOf(1) = {} /\ RestOf(j + 1) \subseteq Load(Crowded)
      BY <2>1, <2>2
    <3> QED
      BY <2>1, <2>2, <2>4, <2>5, <3>1
  <2>7. ASSUME NEW i \in DOMAIN reloc'.rest, NEW j \in DOMAIN reloc'.rest, i # j
        PROVE  RestOf(i)' \cap RestOf(j)' = {}
    <3>1. i + 1 # j + 1
      BY <2>1, <2>7
    <3> QED
      BY <2>1, <2>2, <3>1
  <2> QED
    BY <2>3, <2>6, <2>7
<1>6. reloc'.rest # <<>> => reloc'.at <= Len(reloc'.order)
  BY <1>1
<1>7. /\ IsInjective(reloc.order) /\ ToSet(reloc.order) = DOMAIN reloc.blocks
      /\ reloc.free \cap DOMAIN reloc.blocks = {} /\ DOMAIN reloc.counts = DOMAIN reloc.blocks
      /\ \A c \in DOMAIN reloc.blocks : IsInjective(reloc.blocks[c])
  BY <1>1 DEF QueueInv
<1> QED
  BY ONLY <1>3, <1>4, <1>5, <1>6, <1>7, reloc'.order = reloc.order, reloc'.blocks = reloc.blocks,
          reloc'.free \subseteq reloc.free, DOMAIN reloc'.counts = DOMAIN reloc.counts DEF QueueInv

\* All but m slots of a crowded cluster: so many leave it, m stay.
LEMMA SurplusFacts ==
  ASSUME IInv, QueueInv, RsReliefInv, CrowdedRs
  PROVE  /\ Surplus \in Seq(Slots) /\ ToSet(Surplus) \subseteq Load(Crowded)
         /\ reloc.rest = <<>> /\ New.m \in Nat /\ New.type = "RS"
         /\ \E n \in Nat :
              /\ n = Len(reloc.blocks[Crowded]) /\ n > New.m /\ reloc.counts[Crowded] = n
              /\ Len(Surplus) = n - New.m /\ Cardinality(ToSet(Surplus)) = n - New.m
              /\ Cardinality(Load(Crowded) \ ToSet(Surplus)) = New.m
<1> DEFINE here == reloc.blocks[Crowded]
<1>1. Relieving /\ step = "relieve" /\ New.type = "RS" /\ ~Tolerant(New, here) /\ TypeInv
      /\ larger.nodes \in [Slots -> AllNodes]
  BY DEF CrowdedRs, Relieving, IInv, LargerInv, Underway
<1>2. here \in Seq(Slots) /\ Crowded \in DOMAIN reloc.blocks
  BY <1>1, CrowdedBlocks DEF IInv
<1>3. /\ reloc.at \in DOMAIN reloc.order /\ Crowded = reloc.order[reloc.at] /\ reloc.at \in Nat
  BY <1>1, CrowdedPlace
<1>4. reloc.rest = <<>>
  BY <1>1 DEF RsReliefInv
<1>5. New.m \in Nat /\ "RS" \notin PcTypes
  BY <1>1, NewKind
<1>6. IsInjective(here) /\ ToSet(here) \subseteq Load(Crowded)
  <2>1. Waits(reloc.at)
    BY <1>4 DEF Waits
  <2> QED
    BY <1>1, <1>2, <1>3, <2>1 DEF QueueInv
<1> HIDE DEF here
<1>7. PICK n \in Nat : n = Len(here) /\ Cardinality(ToSet(here)) = n /\ IsFiniteSet(ToSet(here))
  BY <1>2, <1>6, ListedSet
<1>8. n > New.m
  <2>1. ~(n <= New.m)
    BY <1>1, <1>5, <1>7 DEF Tolerant
  <2> QED
    BY <1>5, <2>1
<1>9. Load(Crowded) = ToSet(here) /\ reloc.counts[Crowded] = n
  <2>1. IsFiniteSet(Load(Crowded)) /\ Cardinality(Load(Crowded)) \in Nat
    BY <1>1, LoadListed
  <2>2. n <= Cardinality(Load(Crowded))
    BY <1>6, <1>7, <2>1, FS_Subset
  <2>3. /\ reloc.counts[Crowded] = Cardinality(Load(Crowded))
        /\ Cardinality(Load(Crowded)) <= New.m \/ Load(Crowded) = ToSet(here)
    BY <1>1, <1>3 DEF RsReliefInv, here
  <2> QED
    BY <1>5, <1>7, <1>8, <2>1, <2>2, <2>3
<1>10. DOMAIN here = 1 .. n /\ \A i \in 1 .. n : here[i] \in Slots
  BY <1>2, <1>7, LenProperties
<1>11. PICK sur : sur = SubSeq(here, New.m + 1, n)
  OBVIOUS
<1>12. /\ sur \in Seq(Slots) /\ Len(sur) = n - New.m
       /\ \A i \in 1 .. Len(sur) : sur[i] = here[New.m + 1 + i - 1]
  <2>1. PICK a \in Int : a = New.m + 1
    BY <1>5
  <2>2. n \in Int /\ \A i \in a .. n : here[i] \in Slots
    BY <1>5, <1>10, <2>1
  <2>3. /\ SubSeq(here, a, n) \in Seq(Slots)
        /\ Len(SubSeq(here, a, n)) = IF a <= n THEN n - a + 1 ELSE 0
        /\ \A i \in 1 .. n - a + 1 : SubSeq(here, a, n)[i] = here[a + i - 1]
    <3>1. PICK h : h = here
      OBVIOUS
    <3>2. a \in Int /\ n \in Int /\ \A i \in a .. n : h[i] \in Slots
      BY <2>1, <2>2, <3>1
    <3>3. /\ SubSeq(h, a, n) \in Seq(Slots)
          /\ Len(SubSeq(h, a, n)) = IF a <= n THEN n - a + 1 ELSE 0
          /\ \A i \in 1 .. n - a + 1 : SubSeq(h, a, n)[i] = h[a + i - 1]
      BY ONLY <3>2, SubSeqProperties
    <3> QED
      BY ONLY <3>1, <3>3, Zenon
  <2>4. sur = SubSeq(here, a, n)
    BY <1>11, <2>1
  <2>5. /\ sur \in Seq(Slots)
        /\ Len(sur) = IF a <= n THEN n - a + 1 ELSE 0
        /\ \A i \in 1 .. n - a + 1 : sur[i] = here[a + i - 1]
    BY ONLY <2>3, <2>4, Zenon
  <2> QED
    BY <1>5, <1>8, <2>1, <2>5
<1>13. DOMAIN sur = 1 .. n - New.m /\ \A i \in 1 .. n - New.m : sur[i] = here[New.m + i]
  <2>1. DOMAIN sur = 1 .. n - New.m
    BY <1>12, LenProperties
  <2>2. \A i \in 1 .. n - New.m : New.m + 1 + i - 1 = New.m + i
    BY <1>5
  <2> QED
    BY <1>12, <2>1, <2>2
<1>14. \A i, j \in 1 .. n : here[i] = here[j] => i = j
  BY <1>6, <1>10 DEF IsInjective
<1>15. IsInjective(sur)
  <2> SUFFICES ASSUME NEW i \in 1 .. n - New.m, NEW j \in 1 .. n - New.m, sur[i] = sur[j]
               PROVE  i = j
    BY <1>13 DEF IsInjective
  <2>1. PICK a \in 1 .. n, b \in 1 .. n : a = New.m + i /\ b = New.m + j
    BY <1>5
  <2>2. here[a] = here[b]
    BY <1>13, <2>1
  <2> QED
    BY <1>5, <1>14, <2>1, <2>2
<1>16. ToSet(sur) \subseteq ToSet(here)
  <2> SUFFICES ASSUME NEW i \in 1 .. n - New.m PROVE sur[i] \in ToSet(here)
    BY <1>13 DEF ToSet
  <2>1. New.m + i \in 1 .. n
    BY <1>5
  <2> QED
    BY <1>10, <1>13, <2>1 DEF ToSet
<1>17. Cardinality(ToSet(sur)) = n - New.m
  BY <1>12, <1>15, ListedSet
<1>18. Cardinality(ToSet(here) \ ToSet(sur)) = New.m
  <2>1. ToSet(here) \cap ToSet(sur) = ToSet(sur)
    BY <1>16
  <2>2. Cardinality(ToSet(here) \ ToSet(sur)) = Cardinality(ToSet(here)) - Cardinality(ToSet(here) \cap ToSet(sur))
    BY <1>7, FS_Difference
  <2>3. Cardinality(ToSet(here) \ ToSet(sur)) = n - (n - New.m)
    BY <1>7, <1>17, <2>1, <2>2
  <2> QED
    BY <1>5, <2>3
<1>19. Surplus = sur
  BY <1>7, <1>11 DEF Surplus, here
<1> QED
  BY <1>1, <1>4, <1>5, <1>7, <1>8, <1>9, <1>12, <1>16, <1>17, <1>18, <1>19 DEF here

\* Reed-Solomon, to a smaller cluster: both keep no more than m.
LEMMA MoveToSmallerRelief ==
  ASSUME IInv, QueueInv, RsReliefInv, MoveToSmaller
  PROVE  QueueInv' /\ RsReliefInv'
<1>1. CrowdedRs /\ Takers # {} /\ Relieving /\ step = "relieve" /\ step' = step /\ setup' = setup
  BY DEF MoveToSmaller, CrowdedRs, Relieving
<1>2. PICK des, sl, free :
        /\ des = reloc.order[Max(Takers)] /\ sl = Surplus
        /\ free \in SUBSET NodesIn(des) /\ MoveTo(sl, free)
        /\ reloc' = [reloc EXCEPT !.at = @ + 1, !.counts[des] = @ + Len(sl)]
  BY DEF MoveToSmaller, Taker, Vacant
<1>3. PICK cr : cr = Crowded
  OBVIOUS
<1>4. PICK n \in Nat : n = Len(reloc.blocks[cr]) /\ n > New.m /\ reloc.counts[cr] = n
              /\ Len(sl) = n - New.m /\ Cardinality(ToSet(sl)) = n - New.m
              /\ Cardinality(Load(cr) \ ToSet(sl)) = New.m
  BY <1>1, <1>2, <1>3, SurplusFacts
<1>5. /\ sl \in Seq(Slots) /\ ToSet(sl) \subseteq Load(cr) /\ ToSet(sl) \subseteq Load(Crowded)
      /\ reloc.rest = <<>> /\ New.m \in Nat /\ New.type = "RS"
  BY <1>1, <1>2, <1>3, SurplusFacts
<1>6. /\ reloc.at \in DOMAIN reloc.order /\ reloc.at \in Nat /\ cr = reloc.order[reloc.at]
      /\ cr \in DOMAIN reloc.blocks
      /\ DOMAIN reloc.order = 1 .. Len(reloc.order) /\ Len(reloc.order) \in Nat
      /\ \A i \in DOMAIN reloc.order :
           reloc.order[i] \in DOMAIN reloc.blocks /\ (reloc.order[i] = cr <=> i = reloc.at)
      /\ cr \notin reloc.free /\ cr \notin Taken
  BY <1>1, <1>3, CrowdedPlace
<1>7. PICK k \in reloc.at + 1 .. Len(reloc.order) :
        des = reloc.order[k] /\ reloc.counts[des] + reloc.counts[cr] <= 2 * New.m
  <2>1. IsFiniteSet(Takers) /\ Takers \subseteq Int
    <3>1. reloc.at + 1 \in Int /\ Len(reloc.order) \in Int
      BY <1>6
    <3>2. IsFiniteSet(reloc.at + 1 .. Len(reloc.order))
      BY ONLY <3>1, FS_Interval, Zenon
    <3>3. Takers \in SUBSET (reloc.at + 1 .. Len(reloc.order))
      BY DEF Takers
    <3>4. Takers \subseteq Int
      BY <3>1, <3>3
    <3> QED
      BY <3>2, <3>3, <3>4, FS_Subset
  <2>2. Max(Takers) \in Takers
    BY <1>1, <2>1, MaxMember
  <2> QED
    BY <1>2, <1>3, <2>2 DEF Takers
<1>8. k \in DOMAIN reloc.order /\ k > reloc.at /\ k # reloc.at /\ ~(k < reloc.at) /\ des # cr
      /\ des \in DOMAIN reloc.blocks
  BY <1>6, <1>7
<1>9. DOMAIN reloc = DOMAIN NoReloc /\ DOMAIN reloc.counts = DOMAIN reloc.blocks
  BY <1>1 DEF IInv, SearchInv, QueueInv
<1>10. /\ reloc'.at = reloc.at + 1 /\ reloc'.order = reloc.order /\ reloc'.blocks = reloc.blocks
       /\ reloc'.free = reloc.free /\ reloc'.rest = reloc.rest
       /\ reloc'.counts = [reloc.counts EXCEPT ![des] = @ + Len(sl)]
  BY <1>2, <1>9 DEF NoReloc
<1>12. /\ Load(des)' = Load(des) \cup ToSet(sl)
       /\ Load(cr)' = Load(cr) \ ToSet(sl)
       /\ \A c : c # cr /\ c # des => Load(c)' = Load(c)
  <2>1. /\ Load(des)' = Load(des) \cup ToSet(sl)
        /\ cr # des => Load(cr)' = Load(cr) \ ToSet(sl)
        /\ \A c : c # cr /\ c # des => Load(c)' = Load(c)
    <3>1. sl \in Seq(Slots) /\ ToSet(sl) \subseteq Load(cr) /\ free \in SUBSET NodesIn(des)
          /\ MoveTo(sl, free) /\ step = "relieve" /\ setup' = setup
      BY <1>1, <1>2, <1>5
    <3> QED
      BY ONLY <3>1, IInv, MoveShift
  <2> QED
    BY <1>8, <2>1
<1>13. des \notin reloc'.free
  BY <1>1, <1>8, <1>10 DEF QueueInv
<1>14. QueueInv'
  <2>1. DOMAIN reloc'.counts = DOMAIN reloc.counts
    BY <1>10
  <2>2. reloc'.free \subseteq reloc.free /\ reloc'.at \in {reloc.at, reloc.at + 1}
        /\ (reloc'.rest = <<>> /\ reloc'.at = reloc.at + 1)
    BY <1>5, <1>10
  <2> QED
    BY ONLY <1>1, <1>2, <1>5, <1>10, <1>13, <2>1, <2>2, IInv, QueueInv, MoveQueue
<1>15. New' = New
  BY <1>1 DEF New
<1>16. TypeInv /\ larger.nodes \in [Slots -> AllNodes]
  BY <1>1 DEF IInv, LargerInv, Underway
<1>17. reloc.counts[des] = Cardinality(Load(des)) /\ reloc'.counts[des] = Cardinality(Load(des)')
       /\ Cardinality(Load(des)') <= New.m
  <2>1. reloc.counts[des] = Cardinality(Load(des))
    BY <1>1, <1>5, <1>7, <1>8 DEF RsReliefInv
  <2>2. IsFiniteSet(Load(des)) /\ IsFiniteSet(Load(cr)) /\ Cardinality(Load(des)) \in Nat
    BY <1>16, LoadListed
  <2>3. IsFiniteSet(ToSet(sl)) /\ Load(des) \cap ToSet(sl) = {}
    <3>1. IsFiniteSet(ToSet(sl))
      BY <1>5, <2>2, FS_Subset
    <3>2. Load(des) \cap Load(cr) = {}
      BY <1>8 DEF Load
    <3> QED
      BY <1>5, <3>1, <3>2
  <2>4. Cardinality(Load(des)') = Cardinality(Load(des)) + Cardinality(ToSet(sl)) - Cardinality({})
    BY <1>12, <2>2, <2>3, FS_Union
  <2>5. Cardinality(Load(des)') = Cardinality(Load(des)) + (n - New.m)
    BY <1>4, <1>5, <2>2, <2>4, FS_EmptySet
  <2>6. reloc'.counts[des] = reloc.counts[des] + Len(sl)
    BY <1>8, <1>9, <1>10
  <2>7. PICK a \in Nat, m \in Nat : a = Cardinality(Load(des)) /\ m = New.m
    BY <1>5, <2>2
  <2>8. a + n <= 2 * m /\ n > m /\ Cardinality(Load(des)') = a + (n - m)
        /\ reloc'.counts[des] = a + (n - m)
    BY <1>4, <1>7, <2>1, <2>5, <2>6, <2>7
  <2> QED
    BY <2>1, <2>7, <2>8
<1>18. ASSUME NEW i \in DOMAIN reloc.order, NEW c, c = reloc.order[i]
       PROVE  IF i < reloc'.at THEN Cardinality(Load(c)') <= New.m
              ELSE /\ reloc'.counts[c] = Cardinality(Load(c)')
                   /\ Cardinality(Load(c)') <= New.m \/ Load(c)' = ToSet(reloc.blocks[c])
  <2>1. i \in Nat /\ (i < reloc'.at <=> (i < reloc.at \/ i = reloc.at))
    BY <1>6, <1>10
  <2>2. CASE c = cr
    <3>1. i < reloc'.at
      BY <1>6, <1>18, <2>1, <2>2
    <3>2. Load(cr)' = Load(cr) \ ToSet(sl) /\ Cardinality(Load(cr) \ ToSet(sl)) = New.m
      BY <1>4, <1>12
    <3>3. Cardinality(Load(cr)') <= New.m
      BY <1>5, <3>2
    <3>4. Cardinality(Load(c)') <= New.m
      BY <2>2, <3>3
    <3> QED
      BY <3>1, <3>4
  <2>3. CASE c = des
    BY <1>17, <2>3
  <2>4. CASE c # cr /\ c # des
    <3>1. Load(c)' = Load(c) /\ reloc'.counts[c] = reloc.counts[c] /\ i # reloc.at
      BY <1>6, <1>10, <1>12, <1>18, <2>4
    <3>2. IF i < reloc.at THEN Cardinality(Load(c)) <= New.m
          ELSE /\ reloc.counts[c] = Cardinality(Load(c))
               /\ Cardinality(Load(c)) <= New.m \/ Load(c) = ToSet(reloc.blocks[c])
      BY <1>1, <1>5, <1>18 DEF RsReliefInv
    <3> QED
      BY <2>1, <3>1, <3>2
  <2> QED
    BY <2>2, <2>3, <2>4
<1>19. ASSUME NEW c \in Taken' PROVE Misled(c)' \/ Cardinality(Load(c)') <= New.m
  <2>1. c \in Taken /\ c # cr /\ c # des
    BY <1>6, <1>8, <1>10, <1>19 DEF Taken, Clusters
  <2>2. Misled(c) \/ Cardinality(Load(c)) <= New.m
    BY <1>1, <1>5, <2>1 DEF RsReliefInv
  <2>3. Misled(c)' <=> Misled(c)
    BY <1>5, <1>10, <1>15 DEF Misled
  <2> QED
    BY <1>12, <2>1, <2>2, <2>3
<1> QED
  BY <1>5, <1>10, <1>14, <1>15, <1>18, <1>19 DEF RsReliefInv

\* Reed-Solomon, to a free cluster: it gets no more than m or is one of those
\* that the relief fails.
LEMMA MoveToFreeRelief ==
  ASSUME IInv, QueueInv, RsReliefInv, MoveToFree
  PROVE  QueueInv' /\ RsReliefInv'
<1>1. CrowdedRs /\ Relieving /\ step = "relieve" /\ step' = step /\ setup' = setup
  BY DEF MoveToFree, CrowdedRs, Relieving
<1>2. PICK des, sl, free :
        /\ des \in reloc.free /\ sl = Surplus /\ free = NodesIn(des) /\ MoveTo(sl, free)
        /\ reloc' = [reloc EXCEPT !.at = @ + 1, !.free = @ \ {des}]
  BY DEF MoveToFree
<1>3. PICK cr : cr = Crowded
  OBVIOUS
<1>4. PICK n \in Nat : n = Len(reloc.blocks[cr]) /\ n > New.m /\ reloc.counts[cr] = n
              /\ Len(sl) = n - New.m /\ Cardinality(ToSet(sl)) = n - New.m
              /\ Cardinality(Load(cr) \ ToSet(sl)) = New.m
  BY <1>1, <1>2, <1>3, SurplusFacts
<1>5. /\ sl \in Seq(Slots) /\ ToSet(sl) \subseteq Load(cr) /\ ToSet(sl) \subseteq Load(Crowded)
      /\ reloc.rest = <<>> /\ New.m \in Nat /\ New.type = "RS"
  BY <1>1, <1>2, <1>3, SurplusFacts
<1>6. /\ reloc.at \in DOMAIN reloc.order /\ reloc.at \in Nat /\ cr = reloc.order[reloc.at]
      /\ cr \in DOMAIN reloc.blocks
      /\ DOMAIN reloc.order = 1 .. Len(reloc.order) /\ Len(reloc.order) \in Nat
      /\ \A i \in DOMAIN reloc.order :
           reloc.order[i] \in DOMAIN reloc.blocks /\ (reloc.order[i] = cr <=> i = reloc.at)
      /\ cr \notin reloc.free /\ cr \notin Taken
  BY <1>1, <1>3, CrowdedPlace
<1>7. DOMAIN reloc = DOMAIN NoReloc /\ reloc.free \cap DOMAIN reloc.blocks = {} /\ ~IsLrc
      /\ Load(des) = {} /\ reloc.free \subseteq Clusters /\ des \in reloc.free
  BY <1>1, <1>2, <1>5 DEF IInv, SearchInv, QueueInv, IsLrc
<1>8. des # cr /\ des \notin DOMAIN reloc.blocks /\ des \in Clusters
  BY <1>6, <1>7
<1>9. /\ reloc'.at = reloc.at + 1 /\ reloc'.order = reloc.order /\ reloc'.blocks = reloc.blocks
      /\ reloc'.free = reloc.free \ {des} /\ reloc'.rest = reloc.rest
      /\ reloc'.counts = reloc.counts
  BY <1>2, <1>7 DEF NoReloc
<1>10. free \in SUBSET NodesIn(des)
  BY <1>2
<1>11. /\ Load(des)' = ToSet(sl)
       /\ Load(cr)' = Load(cr) \ ToSet(sl)
       /\ \A c : c # cr /\ c # des => Load(c)' = Load(c)
  <2>1. /\ Load(des)' = Load(des) \cup ToSet(sl)
        /\ cr # des => Load(cr)' = Load(cr) \ ToSet(sl)
        /\ \A c : c # cr /\ c # des => Load(c)' = Load(c)
    <3>1. sl \in Seq(Slots) /\ ToSet(sl) \subseteq Load(cr) /\ free \in SUBSET NodesIn(des)
          /\ MoveTo(sl, free) /\ step = "relieve" /\ setup' = setup
      BY <1>1, <1>2, <1>5, <1>10
    <3> QED
      BY ONLY <3>1, IInv, MoveShift
  <2> QED
    BY <1>7, <1>8, <2>1
<1>12. QueueInv'
  <2>1. DOMAIN reloc'.counts = DOMAIN reloc.counts
    BY <1>9
  <2>2. reloc'.free \subseteq reloc.free /\ reloc'.at \in {reloc.at, reloc.at + 1}
        /\ (reloc'.rest = <<>> /\ reloc'.at = reloc.at + 1) /\ des \notin reloc'.free
    BY <1>5, <1>9
  <2> QED
    BY ONLY <1>1, <1>2, <1>5, <1>9, <1>10, <2>1, <2>2, IInv, QueueInv, MoveQueue
<1>13. New' = New
  BY <1>1 DEF New
<1>14. ASSUME NEW i \in DOMAIN reloc.order, NEW c, c = reloc.order[i]
       PROVE  IF i < reloc'.at THEN Cardinality(Load(c)') <= New.m
              ELSE /\ reloc'.counts[c] = Cardinality(Load(c)')
                   /\ Cardinality(Load(c)') <= New.m \/ Load(c)' = ToSet(reloc.blocks[c])
  <2>1. i \in Nat /\ (i < reloc'.at <=> (i < reloc.at \/ i = reloc.at))
    BY <1>6, <1>9
  <2>2. CASE c = cr
    <3>1. i < reloc'.at
      BY <1>6, <1>14, <2>1, <2>2
    <3>2. Load(cr)' = Load(cr) \ ToSet(sl) /\ Cardinality(Load(cr) \ ToSet(sl)) = New.m
      BY <1>4, <1>11
    <3>3. Cardinality(Load(cr)') <= New.m
      BY <1>5, <3>2
    <3>4. Cardinality(Load(c)') <= New.m
      BY <2>2, <3>3
    <3> QED
      BY <3>1, <3>4
  <2>3. CASE c # cr
    <3>1. Load(c)' = Load(c) /\ reloc'.counts[c] = reloc.counts[c] /\ i # reloc.at
      BY <1>6, <1>8, <1>9, <1>11, <1>14, <2>3
    <3>2. IF i < reloc.at THEN Cardinality(Load(c)) <= New.m
          ELSE /\ reloc.counts[c] = Cardinality(Load(c))
               /\ Cardinality(Load(c)) <= New.m \/ Load(c) = ToSet(reloc.blocks[c])
      BY <1>1, <1>5, <1>14 DEF RsReliefInv
    <3> QED
      BY <2>1, <3>1, <3>2
  <2> QED
    BY <2>2, <2>3
<1>15. ASSUME NEW c \in Taken' PROVE Misled(c)' \/ Cardinality(Load(c)') <= New.m
  <2>1. c \in Taken \/ c = des
    BY <1>9, <1>15 DEF Taken, Clusters
  <2>2. \A d : Misled(d)' <=>
          d \notin DOMAIN reloc.blocks /\ \E s \in DOMAIN reloc.blocks : Len(reloc.blocks[s]) > 2 * New.m
    <3>1. New'.type = "RS" /\ New'.m = New.m /\ reloc'.blocks = reloc.blocks /\ "RS" \notin PcTypes
      BY <1>5, <1>9, <1>13 DEF PcTypes
    <3> QED
      BY ONLY <3>1, Zenon DEF Misled
  <2>3. CASE c = des
    <3>1. CASE n > 2 * New.m
      BY <1>4, <1>6, <1>8, <2>2, <2>3, <3>1
    <3>2. CASE ~(n > 2 * New.m)
      <4>1. n - New.m <= New.m
        BY <1>4, <1>5, <3>2
      <4>2. Cardinality(Load(des)') <= New.m
        BY <1>4, <1>11, <4>1
      <4> QED
        BY <2>3, <4>2
    <3> QED
      BY <3>1, <3>2
  <2>4. CASE c # des
    <3>1. c \in Taken /\ c # cr
      BY <1>6, <2>1, <2>4
    <3>2. Misled(c) \/ Cardinality(Load(c)) <= New.m
      BY <1>1, <1>5, <3>1 DEF RsReliefInv
    <3>3. Misled(c) => Misled(c)'
      <4>1. Misled(c) <=> c \notin DOMAIN reloc.blocks /\
              \E s \in DOMAIN reloc.blocks : Len(reloc.blocks[s]) > 2 * New.m
        <5>1. New.type = "RS" /\ "RS" \notin PcTypes
          BY <1>5 DEF PcTypes
        <5> QED
          BY ONLY <5>1, Zenon DEF Misled
      <4> QED
        BY <2>2, <4>1
    <3> QED
      BY <1>11, <2>4, <3>1, <3>2, <3>3
  <2> QED
    BY <2>3, <2>4
<1> QED
  BY <1>5, <1>9, <1>12, <1>13, <1>14, <1>15 DEF RsReliefInv

----------------------------------------------------------------------------
(* The next cluster's turn.                                               *)

\* The next cluster's turn: this one may lose what it has.
LEMMA NextRelief ==
  ASSUME IInv, Mergeable(setup), ReliefInv, NextCluster
  PROVE  ReliefInv'
<1>1. /\ Relieving /\ step = "relieve" /\ step' = step /\ setup' = setup /\ reloc.rest = <<>>
      /\ larger' = larger /\ moves' = moves /\ Tolerant(New, reloc.blocks[Crowded])
  BY DEF NextCluster, Relieving, moving
<1>2. PICK cr : cr = Crowded
  OBVIOUS
<1>3. /\ reloc.at \in DOMAIN reloc.order /\ reloc.at \in Nat /\ cr = reloc.order[reloc.at]
      /\ cr \in DOMAIN reloc.blocks
      /\ DOMAIN reloc.order = 1 .. Len(reloc.order) /\ Len(reloc.order) \in Nat
      /\ \A i \in DOMAIN reloc.order :
           reloc.order[i] \in DOMAIN reloc.blocks /\ (reloc.order[i] = cr <=> i = reloc.at)
  BY <1>1, <1>2, CrowdedPlace DEF ReliefInv
<1>4. DOMAIN reloc = DOMAIN NoReloc /\ TypeInv
  BY <1>1 DEF IInv, SearchInv
<1>5. /\ reloc'.at = reloc.at + 1 /\ reloc'.order = reloc.order /\ reloc'.blocks = reloc.blocks
      /\ reloc'.free = reloc.free /\ reloc'.rest = <<>> /\ reloc'.counts = reloc.counts
  BY <1>1, <1>4 DEF NoReloc, NextCluster
<1>6. New' = New /\ Slots' = Slots /\ IsLrc' = IsLrc /\ (Eased(setup)' <=> Eased(setup))
      /\ GidsOf(Slots)' = GidsOf(Slots)
  BY <1>1 DEF New, Slots, IsLrc, GidsOf
<1>7. \A c : Load(c)' = Load(c) /\ (Misled(c)' <=> Misled(c))
  <2> SUFFICES ASSUME NEW c PROVE Load(c)' = Load(c) /\ (Misled(c)' <=> Misled(c))
    OBVIOUS
  <2>1. Load(c)' = Load(c)
    BY <1>1, <1>6 DEF Load, ClusterOf
  <2>2. Misled(c)' <=> Misled(c)
    BY ONLY <1>1, <1>5, <1>6, Zenon DEF Misled, ClusterOf
  <2> QED
    BY <2>1, <2>2
<1>8. Taken' = Taken
  BY <1>5 DEF Taken, Clusters
<1>9. \A i \in DOMAIN reloc.order :
        /\ i \in Nat /\ (i < reloc'.at <=> (i < reloc.at \/ i = reloc.at))
        /\ i >= reloc'.at => i >= reloc.at
        /\ Waits(i)' => Waits(i)
  BY <1>1, <1>3, <1>5 DEF Waits
<1>10. Waits(reloc.at) /\ DOMAIN reloc'.rest = {}
  BY <1>1, <1>5 DEF Waits
<1>11. QueueInv /\ (Eased(setup) => RsReliefInv /\ PcReliefInv /\ LrcReliefInv)
  BY DEF ReliefInv
<1>12. Bearable(ToSet(reloc.blocks[cr])) /\ "RS" \notin PcTypes
  <2>1. reloc.blocks[cr] \in Seq(Slots)
    BY <1>1, <1>2, CrowdedBlocks DEF IInv
  <2>2. IsInjective(reloc.blocks[cr])
    BY <1>1, <1>3, <1>11 DEF QueueInv
  <2> QED
    BY <1>1, <1>2, <1>4, <2>1, <2>2, TolerantSet DEF PcTypes
<1>13. QueueInv'
  <2>1. /\ IsInjective(reloc.order) /\ ToSet(reloc.order) = DOMAIN reloc.blocks
        /\ reloc.free \cap DOMAIN reloc.blocks = {} /\ DOMAIN reloc.counts = DOMAIN reloc.blocks
        /\ \A c \in reloc.free : Load(c) = {} \/ (IsLrc /\ Misled(c))
        /\ \A c \in DOMAIN reloc.blocks : IsInjective(reloc.blocks[c])
        /\ \A i \in DOMAIN reloc.order :
             Waits(i) => ToSet(reloc.blocks[reloc.order[i]]) \subseteq Load(reloc.order[i])
    BY <1>1, <1>11 DEF QueueInv
  <2> QED
    BY <1>5, <1>6, <1>7, <1>9, <1>10, <2>1 DEF QueueInv
<1>14. ASSUME RsReliefInv PROVE RsReliefInv'
  <2> SUFFICES ASSUME New.type = "RS" PROVE RsReliefInv'
    BY <1>6 DEF RsReliefInv
  <2>1. /\ \A i \in DOMAIN reloc.order :
             IF i < reloc.at THEN Cardinality(Load(reloc.order[i])) <= New.m
             ELSE /\ reloc.counts[reloc.order[i]] = Cardinality(Load(reloc.order[i]))
                  /\ \/ Cardinality(Load(reloc.order[i])) <= New.m
                     \/ Load(reloc.order[i]) = ToSet(reloc.blocks[reloc.order[i]])
        /\ \A c \in Taken : Misled(c) \/ Cardinality(Load(c)) <= New.m
    BY <1>1, <1>14 DEF RsReliefInv
  <2>2. Cardinality(Load(cr)) <= New.m
    <3>1. Bearable(ToSet(reloc.blocks[cr])) <=> Cardinality(ToSet(reloc.blocks[cr])) <= New.m
      BY <1>12 DEF Bearable
    <3> QED
      BY <1>3, <1>12, <2>1, <3>1
  <2>3. ASSUME NEW i \in DOMAIN reloc.order
        PROVE  IF i < reloc'.at THEN Cardinality(Load(reloc.order[i])) <= New.m
               ELSE /\ reloc.counts[reloc.order[i]] = Cardinality(Load(reloc.order[i]))
                    /\ \/ Cardinality(Load(reloc.order[i])) <= New.m
                       \/ Load(reloc.order[i]) = ToSet(reloc.blocks[reloc.order[i]])
    BY <1>3, <1>9, <2>1, <2>2
  <2> QED
    BY <1>5, <1>6, <1>7, <1>8, <2>1, <2>3 DEF RsReliefInv
<1>15. ASSUME PcReliefInv PROVE PcReliefInv'
  <2> SUFFICES ASSUME New.type \in PcTypes PROVE PcReliefInv'
    BY <1>6 DEF PcReliefInv
  <2>1. /\ \A i \in DOMAIN reloc.order :
             /\ i < reloc.at => Misled(reloc.order[i]) \/ Cardinality(ColsOf(Load(reloc.order[i]))) <= New.m1
             /\ Waits(i) => Load(reloc.order[i]) = ToSet(reloc.blocks[reloc.order[i]])
        /\ \A c \in Taken : Cardinality(ColsOf(Load(c))) <= New.m1
    BY <1>1, <1>15 DEF PcReliefInv
  <2>2. Cardinality(ColsOf(Load(cr))) <= New.m1
    <3>1. Bearable(ToSet(reloc.blocks[cr])) <=> Cardinality(ColsOf(ToSet(reloc.blocks[cr]))) <= New.m1
      BY <1>12 DEF Bearable
    <3> QED
      BY <1>3, <1>10, <1>12, <2>1, <3>1
  <2>3. ASSUME NEW i \in DOMAIN reloc.order
        PROVE  /\ i < reloc'.at => Misled(reloc.order[i]) \/ Cardinality(ColsOf(Load(reloc.order[i]))) <= New.m1
               /\ Waits(i)' => Load(reloc.order[i]) = ToSet(reloc.blocks[reloc.order[i]])
    BY <1>3, <1>9, <2>1, <2>2
  <2>5. \A c : ColsOf(Load(c))' = ColsOf(Load(c))
    BY <1>6, <1>7 DEF ColsOf, NewCol
  <2> QED
    BY <1>5, <1>6, <1>7, <1>8, <1>10, <2>1, <2>3, <2>5 DEF PcReliefInv
<1>16. ASSUME LrcReliefInv PROVE LrcReliefInv'
  <2> SUFFICES ASSUME IsLrc PROVE LrcReliefInv'
    BY <1>6 DEF LrcReliefInv
  <2>1. /\ \A c \in DOMAIN reloc.blocks : \A y \in GidsOf(Slots) :
             Cardinality({b \in ToSet(reloc.blocks[c]) : bid2gid(New, b) = y}) <= New.g + 1
        /\ \A i \in DOMAIN reloc.order :
             \/ Misled(reloc.order[i])
             \/ /\ i < reloc.at => Bearable(Load(reloc.order[i]))
                /\ Waits(i) => Load(reloc.order[i]) = ToSet(reloc.blocks[reloc.order[i]])
                /\ i >= reloc.at => reloc.counts[reloc.order[i]] = Cardinality(Load(reloc.order[i]))
        /\ \A c \in Taken : Misled(c) \/ Cardinality(Load(c)) <= New.g + 1
    BY <1>1, <1>16 DEF LrcReliefInv
  <2>2. Misled(cr) \/ Bearable(Load(cr))
    BY <1>3, <1>10, <1>12, <2>1
  <2>3. ASSUME NEW i \in DOMAIN reloc.order
        PROVE  \/ Misled(reloc.order[i])
               \/ /\ i < reloc'.at => Bearable(Load(reloc.order[i]))
                  /\ Waits(i)' => Load(reloc.order[i]) = ToSet(reloc.blocks[reloc.order[i]])
                  /\ i >= reloc'.at => reloc.counts[reloc.order[i]] = Cardinality(Load(reloc.order[i]))
    BY <1>3, <1>9, <2>1, <2>2
  <2>4. \A c : Bearable(Load(c))' <=> Bearable(Load(c))
    <3> SUFFICES ASSUME NEW c PROVE Bearable(Load(c))' <=> Bearable(Load(c))
      OBVIOUS
    <3>1. New' = New /\ Load(c)' = Load(c)
      BY <1>6, <1>7
    <3> QED
      BY ONLY <3>1 DEF Bearable, ColsOf, GidsOf, NewCol
  <2> QED
    BY <1>5, <1>6, <1>7, <1>8, <1>10, <2>1, <2>3, <2>4 DEF LrcReliefInv
<1> QED
  BY <1>6, <1>11, <1>13, <1>14, <1>15, <1>16 DEF ReliefInv

----------------------------------------------------------------------------
(* Making batches.                                                        *)

\* The columns 0 .. c - 1 of a cluster, the shortest last: those past the first
\* m1, from the last on, give the batches.
LEMMA ColumnsLeave ==
  ASSUME TypeInv, New.type \in PcTypes, NEW s \in Seq(Slots)
  PROVE  \E c \in Nat : \E sorted \in [1 .. c -> 0 .. c - 1] :
           /\ c = Cardinality(DOMAIN ColumnBlocks(New, s)) /\ IsInjective(sorted)
           /\ {sorted[i] : i \in 1 .. c} = 0 .. c - 1
           /\ DOMAIN ColumnBatches(s) = {j \in 1 .. c : c + 1 - j > New.m1}
           /\ \A j \in DOMAIN ColumnBatches(s) :
                ColumnBatches(s)[j] =
                  IF sorted[c + 1 - j] \in DOMAIN ColumnBlocks(New, s)
                  THEN ColumnBlocks(New, s)[sorted[c + 1 - j]] ELSE <<>>
<1> DEFINE cols   == ColumnBlocks(New, s)
           In(j)  == IF j \in DOMAIN cols THEN cols[j] ELSE <<>>
           N      == 0 .. Cardinality(DOMAIN cols) - 1
           Ahead(i, j) == \/ Len(In(i)) > Len(In(j))
                          \/ Len(In(i)) = Len(In(j)) /\ i < j
           At(n)  == CHOOSE x \in N : Cardinality({y \in N :
                       \/ Len(In(y)) > Len(In(x))
                       \/ Len(In(y)) = Len(In(x)) /\ y < x}) = n - 1
           all    == InOrder(N, LAMBDA i, j :
                       \/ Len(In(i)) > Len(In(j))
                       \/ Len(In(i)) = Len(In(j)) /\ i < j)
           R      == {p \in N \X N : Ahead(p[1], p[2])}
           leave  == Reverse(SubSeq(all, New.m1 + 1, Len(all)))
<1>1. ToSet(s) \in SUBSET Slots
  BY ToSetSlots
<1>2. DOMAIN cols = ColsOf(ToSet(s))
  BY DEF ColumnBlocks, ColsOf, NewCol
<1>3. PICK c \in Nat : c = Cardinality(DOMAIN cols) /\ N = 0 .. c - 1
  BY <1>1, <1>2, SlotSets
<1>4. \A j : Len(In(j)) \in Nat
  <2> SUFFICES ASSUME NEW j PROVE In(j) \in Seq(Slots)
    BY LenProperties
  <2>1. ASSUME j \in DOMAIN cols PROVE cols[j] \in Seq(Slots)
    <3>1. cols[j] = Ordered({b \in ToSet(s) : bid2rowcol(New, b)[2] = j})
      BY <2>1 DEF ColumnBlocks
    <3>2. {b \in ToSet(s) : bid2rowcol(New, b)[2] = j} \in SUBSET Slots
      BY <1>1
    <3> QED
      BY <3>1, <3>2, SubBatch
  <2> QED
    BY <2>1, EmptySeq
<1>5. ColumnBatches(s) = [n \in DOMAIN leave |-> In(leave[n])]
  BY DEF ColumnBatches
<1> HIDE DEF cols, In
<1>6. IsFiniteSet(N) /\ Cardinality(N) = c
  BY <1>3, Intervals
<1>7. all = [n \in 1 .. Cardinality(N) |-> At(n)]
  BY DEF InOrder
<1> HIDE DEF N
<1>8. \A x, y \in N : <<x, y>> \in R <=> Ahead(x, y)
  OBVIOUS
<1> HIDE DEF R, Ahead
<1>9. N \subseteq Nat
  BY <1>3
<1>10. Orders(R, N)
  <2>2. \A x \in N : <<x, x>> \notin R
    <3> SUFFICES ASSUME NEW x \in N PROVE <<x, x>> \notin R
      OBVIOUS
    <3>0. PICK a \in Nat, z \in Nat : a = Len(In(x)) /\ z = x
      BY <1>4, <1>9
    <3>1. ~Ahead(x, x)
      BY <3>0 DEF Ahead
    <3> QED
      BY <1>8, <3>1
  <2>3. ASSUME NEW x \in N, NEW y \in N, NEW z \in N, <<x, y>> \in R, <<y, z>> \in R
        PROVE  <<x, z>> \in R
    <3>0. PICK a \in Nat, b \in Nat, d \in Nat :
            a = Len(In(x)) /\ b = Len(In(y)) /\ d = Len(In(z))
      BY <1>4
    <3>1. x \in Nat /\ y \in Nat /\ z \in Nat
      BY <1>9
    <3>2. /\ a > b \/ (a = b /\ x < y)
          /\ b > d \/ (b = d /\ y < z)
      <4>1. Ahead(x, y) /\ Ahead(y, z)
        BY <1>8, <2>3
      <4> QED
        BY <3>0, <4>1 DEF Ahead
    <3>3. a > d \/ (a = d /\ x < z)
      BY ONLY <3>1, <3>2
    <3>4. Ahead(x, z)
      BY <3>0, <3>3 DEF Ahead
    <3> QED
      BY <1>8, <3>4
  <2>4. \A x, y \in N : x = y \/ <<x, y>> \in R \/ <<y, x>> \in R
    <3> SUFFICES ASSUME NEW x \in N, NEW y \in N
                 PROVE  x = y \/ <<x, y>> \in R \/ <<y, x>> \in R
      OBVIOUS
    <3>0. PICK a \in Nat, b \in Nat : a = Len(In(x)) /\ b = Len(In(y))
      BY <1>4
    <3>1. x \in Nat /\ y \in Nat
      BY <1>9
    <3>2. a > b \/ b > a \/ (a = b /\ b = a)
      OBVIOUS
    <3>3. x = y \/ x < y \/ y < x
      BY <3>1
    <3>4. x = y \/ Ahead(x, y) \/ Ahead(y, x)
      BY <3>0, <3>2, <3>3 DEF Ahead
    <3> QED
      BY <1>8, <3>4
  <2> QED
    BY <2>2, <2>3, <2>4 DEF Orders
<1>11. ASSUME NEW n \in 1 .. c
       PROVE  At(n) \in N /\ Cardinality(Before(R, N, At(n))) = n - 1
  <2>0. \A x \in N : Before(R, N, x) = {y \in N :
                       \/ Len(In(y)) > Len(In(x))
                       \/ Len(In(y)) = Len(In(x)) /\ y < x}
    BY <1>8 DEF Before, Ahead
  <2>1. PICK x \in N : Cardinality(Before(R, N, x)) = n - 1
    BY <1>6, <1>10, Ranking
  <2>2. At(n) \in N /\ Cardinality({y \in N :
                       \/ Len(In(y)) > Len(In(At(n)))
                       \/ Len(In(y)) = Len(In(At(n))) /\ y < At(n)}) = n - 1
    BY <2>0, <2>1
  <2> QED
    BY <2>0, <2>2
<1> HIDE DEF At
<1>12. PICK sorted : sorted = all
  OBVIOUS
<1>13. sorted \in [1 .. c -> N] /\ Ranked(R, N, c, sorted)
  BY <1>6, <1>7, <1>11, <1>12 DEF Ranked
<1>14. sorted \in Seq(N) /\ Len(sorted) = c /\ IsInjective(sorted) /\ ToSet(sorted) = N
  <2>1. c \in Nat /\ c = Cardinality(N) /\ IsFiniteSet(N)
    BY <1>6
  <2> QED
    BY ONLY <1>13, <2>1, RankedList
<1>15. {sorted[i] : i \in 1 .. c} = N
  BY <1>13, <1>14 DEF ToSet
<1>16. PICK m \in Nat : m = New.m1
  BY NewKind
<1>17. /\ DOMAIN leave = {j \in 1 .. c : c + 1 - j > m}
       /\ \A j \in DOMAIN leave : leave[j] = sorted[c + 1 - j]
  <2>1. PICK a \in Int : a = m + 1
    OBVIOUS
  <2>2. c \in Int /\ \A i \in a .. c : sorted[i] \in N
    BY <1>13, <2>1
  <2>3. /\ SubSeq(sorted, a, c) \in Seq(N)
        /\ Len(SubSeq(sorted, a, c)) = IF a <= c THEN c - a + 1 ELSE 0
        /\ \A i \in 1 .. c - a + 1 : SubSeq(sorted, a, c)[i] = sorted[a + i - 1]
    BY ONLY <2>1, <2>2, SubSeqProperties
  <2>4. PICK sub : sub = SubSeq(sorted, a, c)
    OBVIOUS
  <2>5. sub \in Seq(N) /\ Len(sub) = (IF a <= c THEN c - a + 1 ELSE 0)
        /\ \A i \in 1 .. c - a + 1 : sub[i] = sorted[a + i - 1]
    BY ONLY <2>3, <2>4, Zenon
  <2>6. leave = Reverse(sub)
    BY <1>12, <1>14, <1>16, <2>1, <2>4
  <2>7. PICK d \in Nat : d = Len(sub)
    BY <2>5, LenProperties
  <2>8. DOMAIN leave = 1 .. d /\ \A j \in 1 .. d : leave[j] = sub[d - j + 1]
    <3>1. DOMAIN Reverse(sub) = 1 .. Len(sub) /\ \A j \in 1 .. d : Reverse(sub)[j] = sub[d - j + 1]
      BY ONLY <2>5, <2>7, ReverseSeq, Reversed
    <3> HIDE DEF leave
    <3> QED
      BY ONLY <2>6, <2>7, <3>1, Zenon
  <2> HIDE DEF leave
  <2>9. 1 .. d = {j \in 1 .. c : c + 1 - j > m}
    <3>1. d = IF m + 1 <= c THEN c - m ELSE 0
      BY <2>1, <2>5, <2>7
    <3> QED
      BY <3>1
  <2>10. ASSUME NEW j \in 1 .. d PROVE leave[j] = sorted[c + 1 - j]
    <3>1. d = c - m /\ m + 1 <= c
      BY <2>1, <2>5, <2>7
    <3>2. PICK i \in 1 .. c - a + 1 : i = d - j + 1 /\ a + i - 1 = c + 1 - j
      BY <2>1, <3>1
    <3>3. leave[j] = sub[i]
      BY <2>8, <3>2
    <3>4. sub[i] = sorted[c + 1 - j]
      BY <2>5, <3>2
    <3> QED
      BY <3>3, <3>4
  <2> QED
    BY <2>8, <2>9, <2>10
<1> HIDE DEF leave
<1>18. /\ DOMAIN ColumnBatches(s) = {j \in 1 .. c : c + 1 - j > New.m1}
       /\ \A j \in DOMAIN ColumnBatches(s) : ColumnBatches(s)[j] = In(sorted[c + 1 - j])
  BY <1>5, <1>16, <1>17
<1> QED
  <2>1. /\ c = Cardinality(DOMAIN ColumnBlocks(New, s))
        /\ sorted \in [1 .. c -> 0 .. c - 1] /\ IsInjective(sorted)
        /\ {sorted[i] : i \in 1 .. c} = 0 .. c - 1
    BY <1>3, <1>13, <1>14, <1>15 DEF cols
  <2>2. \A j \in DOMAIN ColumnBatches(s) :
          ColumnBatches(s)[j] =
            IF sorted[c + 1 - j] \in DOMAIN ColumnBlocks(New, s)
            THEN ColumnBlocks(New, s)[sorted[c + 1 - j]] ELSE <<>>
    BY <1>18, Zenon DEF In, cols
  <2> QED
    BY <1>18, <2>1, <2>2

\* A list of some slots, in ascending order.
LEMMA SlotList ==
  ASSUME TypeInv, NEW S \in SUBSET Slots
  PROVE  ToSet(Ordered(S)) = S /\ IsInjective(Ordered(S)) /\ Ordered(S) \in Seq(Slots)
<1>1. IsFiniteSet(S) /\ S \subseteq Int
  BY SlotSets
<1>2. IsInjective(Ordered(S))
  BY <1>1, OrderedSeq DEF IsInjective
<1> QED
  BY <1>1, <1>2, OrderedAll, SubBatch

\* The batches of columns: a batch has slots of one column, no two have the same
\* slot, and what is in none of them is in m1 columns, unless the columns are
\* looked up in vain.
LEMMA ColumnBatchFacts ==
  ASSUME TypeInv, New.type \in PcTypes, NEW s \in Seq(Slots), NEW rest, rest = ColumnBatches(s)
  PROVE  /\ \A j \in DOMAIN rest :
              /\ IsInjective(rest[j]) /\ ToSet(rest[j]) \subseteq ToSet(s)
              /\ \A a, b \in ToSet(rest[j]) : NewCol(a) = NewCol(b)
         /\ \A i, j \in DOMAIN rest : i # j => ToSet(rest[i]) \cap ToSet(rest[j]) = {}
         /\ \/ DOMAIN ColumnBlocks(New, s) # 0 .. Cardinality(DOMAIN ColumnBlocks(New, s)) - 1
            \/ \E K \in SUBSET ColsOf(Slots) :
                 /\ Cardinality(K) <= New.m1
                 /\ \A b \in ToSet(s) : NewCol(b) \in K \/ \E j \in DOMAIN rest : b \in ToSet(rest[j])
<1> DEFINE T == ToSet(s)
           C(x) == {b \in T : NewCol(b) = x}
           cols == ColumnBlocks(New, s)
<1>1. PICK c \in Nat : \E sorted \in [1 .. c -> 0 .. c - 1] :
           /\ c = Cardinality(DOMAIN cols) /\ IsInjective(sorted)
           /\ {sorted[i] : i \in 1 .. c} = 0 .. c - 1
           /\ DOMAIN ColumnBatches(s) = {j \in 1 .. c : c + 1 - j > New.m1}
           /\ \A j \in DOMAIN ColumnBatches(s) :
                ColumnBatches(s)[j] =
                  IF sorted[c + 1 - j] \in DOMAIN cols THEN cols[sorted[c + 1 - j]] ELSE <<>>
  BY ColumnsLeave
<1>2. PICK sorted \in [1 .. c -> 0 .. c - 1] :
           /\ c = Cardinality(DOMAIN cols) /\ IsInjective(sorted)
           /\ {sorted[i] : i \in 1 .. c} = 0 .. c - 1
           /\ DOMAIN rest = {j \in 1 .. c : c + 1 - j > New.m1}
           /\ \A j \in DOMAIN rest :
                rest[j] = IF sorted[c + 1 - j] \in DOMAIN cols THEN cols[sorted[c + 1 - j]] ELSE <<>>
  BY <1>1
<1>3. PICK m \in Nat : m = New.m1
  BY NewKind
<1>4. DOMAIN cols = ColsOf(T) /\ T \in SUBSET Slots
  BY ToSetSlots DEF ColumnBlocks, ColsOf, NewCol
<1>5. \A x \in DOMAIN cols : ToSet(cols[x]) = C(x) /\ IsInjective(cols[x])
  <2> SUFFICES ASSUME NEW x \in DOMAIN cols PROVE ToSet(cols[x]) = C(x) /\ IsInjective(cols[x])
    OBVIOUS
  <2>1. cols[x] = Ordered(C(x))
    BY DEF ColumnBlocks, NewCol
  <2>2. C(x) \in SUBSET Slots
    BY <1>4
  <2> HIDE DEF C
  <2> QED
    BY <2>1, <2>2, SlotList
<1>6. \A x \in 0 .. c - 1 : x \notin DOMAIN cols => C(x) = {}
  BY <1>4 DEF ColsOf
<1> HIDE DEF cols
<1>7. \A j \in DOMAIN rest : j \in 1 .. c /\ c + 1 - j \in 1 .. c
  BY <1>2
<1>8. ASSUME NEW j \in DOMAIN rest
      PROVE  ToSet(rest[j]) = C(sorted[c + 1 - j]) /\ IsInjective(rest[j])
  <2>1. sorted[c + 1 - j] \in 0 .. c - 1
    BY <1>2, <1>7
  <2>2. CASE sorted[c + 1 - j] \in DOMAIN cols
    BY <1>2, <1>5, <2>2
  <2>3. CASE sorted[c + 1 - j] \notin DOMAIN cols
    BY <1>2, <1>6, <2>1, <2>3, NoMembers
  <2> QED
    BY <2>2, <2>3
<1>9. \A i, j \in DOMAIN rest : i # j => ToSet(rest[i]) \cap ToSet(rest[j]) = {}
  <2> SUFFICES ASSUME NEW i \in DOMAIN rest, NEW j \in DOMAIN rest, i # j
               PROVE  ToSet(rest[i]) \cap ToSet(rest[j]) = {}
    OBVIOUS
  <2>1. PICK a \in 1 .. c, b \in 1 .. c : a = c + 1 - i /\ b = c + 1 - j
    BY <1>7
  <2>2. a # b
    BY <1>7, <2>1
  <2>3. sorted[a] # sorted[b]
    BY <1>2, <2>2 DEF IsInjective
  <2> QED
    BY <1>8, <2>1, <2>3
<1>10. ASSUME DOMAIN cols = 0 .. Cardinality(DOMAIN cols) - 1
       PROVE  \E K \in SUBSET ColsOf(Slots) :
                 /\ Cardinality(K) <= New.m1
                 /\ \A b \in T : NewCol(b) \in K \/ \E j \in DOMAIN rest : b \in ToSet(rest[j])
  <2> DEFINE I == {i \in 1 .. c : i <= m}
             K == {sorted[i] : i \in I}
             f == [i \in I |-> sorted[i]]
  <2>1. f \in Surjection(I, K)
    BY DEF Surjection
  <2>2. IsFiniteSet(1 .. m) /\ Cardinality(1 .. m) = m
    <3>1. 1 \in Int /\ m \in Int
      OBVIOUS
    <3>2. IsFiniteSet(1 .. m) /\ Cardinality(1 .. m) = IF 1 > m THEN 0 ELSE m - 1 + 1
      BY ONLY <3>1, FS_Interval, Zenon
    <3> QED
      BY <3>2
  <2>3. I \in SUBSET (1 .. m)
    OBVIOUS
  <2>4. IsFiniteSet(I) /\ Cardinality(I) <= m /\ Cardinality(I) \in Nat
    <3> HIDE DEF I
    <3> QED
      BY <2>2, <2>3, FS_Subset, FS_CardinalityType
  <2>5. Cardinality(K) <= m /\ IsFiniteSet(K)
    <3> HIDE DEF I, K, f
    <3>1. IsFiniteSet(K) /\ Cardinality(K) <= Cardinality(I)
      BY <2>1, <2>4, FS_Surjection
    <3>2. Cardinality(K) \in Nat
      BY <3>1, FS_CardinalityType
    <3> QED
      BY <2>4, <3>1, <3>2
  <2>6. K \subseteq ColsOf(Slots)
    <3>1. K \subseteq 0 .. c - 1
      BY <1>2
    <3>2. 0 .. c - 1 = ColsOf(T)
      BY <1>2, <1>4, <1>10
    <3> QED
      BY <1>4, <3>1, <3>2 DEF ColsOf
  <2>7. ASSUME NEW b \in T, NewCol(b) \notin K PROVE \E j \in DOMAIN rest : b \in ToSet(rest[j])
    <3>1. NewCol(b) \in 0 .. c - 1
      BY <1>2, <1>4, <1>10 DEF ColsOf
    <3>2. PICK i \in 1 .. c : sorted[i] = NewCol(b)
      BY <1>2, <3>1
    <3>3. i > m
      BY <2>7, <3>2
    <3>4. PICK j \in 1 .. c : j = c + 1 - i /\ c + 1 - j = i
      BY <3>2
    <3>5. j \in DOMAIN rest
      BY <1>2, <1>3, <3>3, <3>4
    <3> QED
      BY <1>8, <3>2, <3>4, <3>5
  <2> HIDE DEF K
  <2> QED
    BY <1>3, <2>5, <2>6, <2>7
<1> QED
  BY <1>8, <1>9, <1>10 DEF cols

\* The batches of local groups: they share out the slots, group by group.
LEMMA GroupBatchFacts ==
  ASSUME TypeInv, IsLrc, NEW s \in Seq(Slots), NEW up \in BOOLEAN, NEW rest, rest = GroupBatches(s, up)
  PROVE  \E gid \in [DOMAIN rest -> GidsOf(ToSet(s))] :
           /\ {gid[j] : j \in DOMAIN rest} = GidsOf(ToSet(s))
           /\ \A i, j \in DOMAIN rest : i # j => gid[i] # gid[j]
           /\ \A j \in DOMAIN rest :
                IsInjective(rest[j]) /\ ToSet(rest[j]) = {b \in ToSet(s) : bid2gid(New, b) = gid[j]}
<1> DEFINE T      == ToSet(s)
           C(x)   == {b \in T : bid2gid(New, b) = x}
           groups == GroupBlocks(New, s)
           order  == Ordered(DOMAIN groups)
           way    == IF up THEN order ELSE Reverse(order)
<1>1. T \in SUBSET Slots /\ DOMAIN groups = GidsOf(T)
  BY ToSetSlots DEF GroupBlocks, GidsOf
<1>2. \A x \in DOMAIN groups : ToSet(groups[x]) = C(x) /\ IsInjective(groups[x])
  <2> SUFFICES ASSUME NEW x \in DOMAIN groups PROVE ToSet(groups[x]) = C(x) /\ IsInjective(groups[x])
    OBVIOUS
  <2>1. groups[x] = Ordered(C(x))
    BY DEF GroupBlocks
  <2>2. C(x) \in SUBSET Slots
    BY <1>1
  <2> HIDE DEF C
  <2> QED
    BY <2>1, <2>2, SlotList
<1>3. PICK G : G = DOMAIN groups
  OBVIOUS
<1>4. IsFiniteSet(G) /\ G \subseteq Int
  BY <1>3, GroupsOf DEF IsLrc
<1>5. PICK n \in Nat : n = Cardinality(G)
  BY <1>4, FS_CardinalityType
<1>6. PICK ord : ord = Ordered(G)
  OBVIOUS
<1>7. /\ ord \in Seq(G) /\ Len(ord) = n /\ DOMAIN ord = 1 .. n /\ ToSet(ord) = G
      /\ \A i, j \in 1 .. n : ord[i] = ord[j] => i = j
  <2>1. /\ Ordered(G) \in Seq(G) /\ Len(Ordered(G)) = Cardinality(G)
        /\ DOMAIN Ordered(G) = 1 .. Cardinality(G) /\ ToSet(Ordered(G)) = G
        /\ \A i, j \in DOMAIN Ordered(G) : Ordered(G)[i] = Ordered(G)[j] => i = j
    BY ONLY <1>4, OrderedSeq, OrderedAll
  <2> QED
    BY ONLY <1>5, <1>6, <2>1, Zenon
<1>8. ord \in [1 .. n -> G] /\ {ord[i] : i \in 1 .. n} = G
  BY <1>7, LenProperties DEF ToSet
<1>9. PICK gid : gid = IF up THEN ord ELSE Reverse(ord)
  OBVIOUS
<1>10. /\ gid \in [1 .. n -> G] /\ {gid[i] : i \in 1 .. n} = G
       /\ \A i, j \in 1 .. n : gid[i] = gid[j] => i = j
  <2>1. CASE up
    BY <1>7, <1>8, <1>9, <2>1
  <2>2. CASE ~up
    <3>1. gid = Reverse(ord)
      BY <1>9, <2>2
    <3>2. gid \in Seq(G) /\ DOMAIN gid = 1 .. n /\ Len(gid) = n
          /\ \A i \in 1 .. n : gid[i] = ord[n - i + 1]
      <4>1. /\ Reverse(ord) \in Seq(G) /\ Len(Reverse(ord)) = Len(ord)
            /\ DOMAIN Reverse(ord) = 1 .. Len(ord)
            /\ \A i \in 1 .. n : Reverse(ord)[i] = ord[n - i + 1]
        BY ONLY <1>7, n \in Nat, ReverseSeq, Reversed
      <4> QED
        BY ONLY <1>7, <3>1, <4>1, Zenon
    <3>3. gid \in [1 .. n -> G]
      BY <3>2, LenProperties
    <3>4. \A i, j \in 1 .. n : gid[i] = gid[j] => i = j
      <4> SUFFICES ASSUME NEW i \in 1 .. n, NEW j \in 1 .. n, gid[i] = gid[j] PROVE i = j
        OBVIOUS
      <4>1. PICK a \in 1 .. n, b \in 1 .. n : a = n - i + 1 /\ b = n - j + 1
        OBVIOUS
      <4>2. a = b
        BY <1>7, <3>2, <4>1
      <4> QED
        BY <4>1, <4>2
    <3>5. G \subseteq {gid[i] : i \in 1 .. n}
      <4> SUFFICES ASSUME NEW x \in G PROVE \E i \in 1 .. n : gid[i] = x
        OBVIOUS
      <4>1. PICK a \in 1 .. n : ord[a] = x
        BY <1>8
      <4>2. PICK i \in 1 .. n : i = n - a + 1 /\ n - i + 1 = a
        OBVIOUS
      <4> QED
        BY <3>2, <4>1, <4>2
    <3> QED
      BY <3>3, <3>4, <3>5
  <2> QED
    BY <2>1, <2>2
<1>11. rest = [i \in DOMAIN order |-> groups[way[i]]] /\ way = gid /\ order = ord
  BY <1>3, <1>6, <1>9 DEF GroupBatches
<1> HIDE DEF way, order, groups
<1>12. DOMAIN rest = 1 .. n /\ \A j \in 1 .. n : rest[j] = groups[gid[j]]
  BY <1>7, <1>11
<1>13. \A j \in 1 .. n : IsInjective(rest[j]) /\ ToSet(rest[j]) = C(gid[j])
  BY <1>2, <1>3, <1>10, <1>12
<1> HIDE DEF C
<1>14. /\ gid \in [DOMAIN rest -> GidsOf(ToSet(s))]
       /\ {gid[j] : j \in DOMAIN rest} = GidsOf(ToSet(s))
       /\ \A i, j \in DOMAIN rest : i # j => gid[i] # gid[j]
  BY <1>1, <1>3, <1>10, <1>12
<1> QED
  BY <1>12, <1>13, <1>14 DEF C

\* What becomes of a crowded cluster's slots when batches are made of them.
LEMMA MakeBatchesRelief ==
  ASSUME IInv, Mergeable(setup), ReliefInv, MakeBatches
  PROVE  ReliefInv'
<1>1. /\ Relieving /\ step = "relieve" /\ step' = step /\ setup' = setup /\ reloc.rest = <<>>
      /\ larger' = larger /\ moves' = moves /\ New.type # "RS"
  BY DEF MakeBatches, Relieving, moving
<1>2. PICK cr : cr = Crowded
  OBVIOUS
<1>3. /\ reloc.at \in DOMAIN reloc.order /\ reloc.at \in Nat /\ cr = reloc.order[reloc.at]
      /\ cr \in DOMAIN reloc.blocks /\ reloc.at <= Len(reloc.order)
      /\ DOMAIN reloc.order = 1 .. Len(reloc.order) /\ Len(reloc.order) \in Nat
      /\ \A i \in DOMAIN reloc.order :
           reloc.order[i] \in DOMAIN reloc.blocks /\ (reloc.order[i] = cr <=> i = reloc.at)
  BY <1>1, <1>2, CrowdedPlace DEF ReliefInv, Relieving
<1>4. DOMAIN reloc = DOMAIN NoReloc /\ TypeInv
  BY <1>1 DEF IInv, SearchInv
<1>5. PICK up \in BOOLEAN :
       reloc' = [reloc EXCEPT !.treated = 0, !.cnt = 0,
         !.rest = IF New.type \in PcTypes THEN ColumnBatches(reloc.blocks[Crowded])
                  ELSE GroupBatches(reloc.blocks[Crowded], up)]
  BY DEF MakeBatches
<1>6. PICK here : here = reloc.blocks[cr]
  OBVIOUS
<1>7. PICK rest : rest = IF New.type \in PcTypes THEN ColumnBatches(here) ELSE GroupBatches(here, up)
  OBVIOUS
<1>8. /\ reloc'.at = reloc.at /\ reloc'.order = reloc.order /\ reloc'.blocks = reloc.blocks
      /\ reloc'.free = reloc.free /\ reloc'.rest = rest /\ reloc'.counts = reloc.counts
      /\ reloc'.treated = 0
  BY <1>2, <1>4, <1>5, <1>6, <1>7 DEF NoReloc
<1>9. New' = New /\ Slots' = Slots /\ IsLrc' = IsLrc /\ (Eased(setup)' <=> Eased(setup))
      /\ GidsOf(Slots)' = GidsOf(Slots) /\ ColsOf(Slots)' = ColsOf(Slots) /\ Crowded' = cr
  BY <1>1, <1>2, <1>8 DEF New, Slots, IsLrc, GidsOf, ColsOf, NewCol, Crowded
<1>10. \A c : Load(c)' = Load(c) /\ (Misled(c)' <=> Misled(c))
  <2> SUFFICES ASSUME NEW c PROVE Load(c)' = Load(c) /\ (Misled(c)' <=> Misled(c))
    OBVIOUS
  <2>1. Load(c)' = Load(c)
    BY <1>1, <1>9 DEF Load, ClusterOf
  <2>2. Misled(c)' <=> Misled(c)
    BY ONLY <1>1, <1>8, <1>9, Zenon DEF Misled, ClusterOf
  <2> QED
    BY <2>1, <2>2
<1>11. Taken' = Taken /\ \A j : RestOf(j)' = ToSet(rest[j])
  BY <1>8 DEF Taken, Clusters, RestOf
<1>12. \A i \in DOMAIN reloc.order : i \in Nat /\ (Waits(i)' => Waits(i))
  BY <1>1, <1>3, <1>8 DEF Waits
<1>13. Waits(reloc.at)
  BY <1>1 DEF Waits
<1>14. QueueInv /\ (Eased(setup) => RsReliefInv /\ PcReliefInv /\ LrcReliefInv)
  BY DEF ReliefInv
<1>15. here \in Seq(Slots) /\ ToSet(here) \subseteq Load(cr)
  <2>1. here \in Seq(Slots)
    BY <1>1, <1>2, <1>6, CrowdedBlocks DEF IInv
  <2>2. ToSet(here) \subseteq Load(cr)
    BY <1>1, <1>3, <1>6, <1>13, <1>14 DEF QueueInv
  <2> QED
    BY <2>1, <2>2
<1>16. /\ \A j \in DOMAIN rest : IsInjective(rest[j]) /\ ToSet(rest[j]) \subseteq ToSet(here)
       /\ \A i, j \in DOMAIN rest : i # j => ToSet(rest[i]) \cap ToSet(rest[j]) = {}
  <2>1. CASE New.type \in PcTypes
    <3>1. rest = ColumnBatches(here)
      BY <1>7, <2>1
    <3> QED
      BY <1>4, <1>15, <2>1, <3>1, ColumnBatchFacts
  <2>2. CASE New.type \notin PcTypes
    <3>1. rest = GroupBatches(here, up) /\ IsLrc
      BY <1>1, <1>7, <2>2 DEF IsLrc
    <3>2. PICK gid \in [DOMAIN rest -> GidsOf(ToSet(here))] :
           /\ \A i, j \in DOMAIN rest : i # j => gid[i] # gid[j]
           /\ \A j \in DOMAIN rest :
                IsInjective(rest[j]) /\ ToSet(rest[j]) = {b \in ToSet(here) : bid2gid(New, b) = gid[j]}
      BY <1>4, <1>15, <3>1, GroupBatchFacts
    <3> QED
      BY <3>2
  <2> QED
    BY <2>1, <2>2
<1>17. QueueInv'
  <2>1. /\ IsInjective(reloc.order) /\ ToSet(reloc.order) = DOMAIN reloc.blocks
        /\ reloc.free \cap DOMAIN reloc.blocks = {} /\ DOMAIN reloc.counts = DOMAIN reloc.blocks
        /\ \A c \in reloc.free : Load(c) = {} \/ (IsLrc /\ Misled(c))
        /\ \A c \in DOMAIN reloc.blocks : IsInjective(reloc.blocks[c])
        /\ \A i \in DOMAIN reloc.order :
             Waits(i) => ToSet(reloc.blocks[reloc.order[i]]) \subseteq Load(reloc.order[i])
    BY <1>1, <1>14 DEF QueueInv
  <2>2. /\ \A j \in DOMAIN reloc'.rest : IsInjective(reloc'.rest[j]) /\ RestOf(j)' \subseteq Load(Crowded)'
        /\ \A i, j \in DOMAIN reloc'.rest : i # j => RestOf(i)' \cap RestOf(j)' = {}
    <3>1. Load(Crowded)' = Load(cr)
      <4>1. Load(cr)' = Load(cr)
        BY <1>10
      <4> QED
        BY <1>9, <4>1
    <3> QED
      BY <1>8, <1>11, <1>15, <1>16, <3>1
  <2>3. /\ reloc'.rest # <<>> => reloc'.at <= Len(reloc'.order)
        /\ \A i \in DOMAIN reloc'.order :
             (Waits(i) => ToSet(reloc.blocks[reloc.order[i]]) \subseteq Load(reloc.order[i]))'
    BY <1>3, <1>8, <1>10, <1>12, <2>1
  <2> QED
    BY <1>8, <1>9, <1>10, <2>1, <2>2, <2>3 DEF QueueInv
<1>18. RsReliefInv'
  BY <1>1, <1>9 DEF RsReliefInv
<1>19. ASSUME PcReliefInv PROVE PcReliefInv'
  <2> SUFFICES ASSUME New.type \in PcTypes PROVE PcReliefInv'
    BY <1>9 DEF PcReliefInv
  <2>1. /\ \A i \in DOMAIN reloc.order :
             /\ i < reloc.at => Misled(reloc.order[i]) \/ Cardinality(ColsOf(Load(reloc.order[i]))) <= New.m1
             /\ Waits(i) => Load(reloc.order[i]) = ToSet(reloc.blocks[reloc.order[i]])
        /\ \A c \in Taken : Cardinality(ColsOf(Load(c))) <= New.m1
    BY <1>1, <1>19 DEF PcReliefInv
  <2>2. rest = ColumnBatches(here)
    BY <1>7
  <2>3. /\ \A j \in DOMAIN rest : \A a, b \in ToSet(rest[j]) : NewCol(a) = NewCol(b)
        /\ \/ DOMAIN ColumnBlocks(New, here) # 0 .. Cardinality(DOMAIN ColumnBlocks(New, here)) - 1
           \/ \E K \in SUBSET ColsOf(Slots) :
                 /\ Cardinality(K) <= New.m1
                 /\ \A b \in ToSet(here) : NewCol(b) \in K \/ \E j \in DOMAIN rest : b \in ToSet(rest[j])
    BY <1>4, <1>15, <2>2, ColumnBatchFacts
  <2>4. ASSUME DOMAIN ColumnBlocks(New, here) # 0 .. Cardinality(DOMAIN ColumnBlocks(New, here)) - 1
        PROVE  Misled(cr)
    BY <1>1, <1>3, <1>6, <2>4 DEF Misled
  <2>5. Load(cr) = ToSet(here)
    BY <1>3, <1>6, <1>13, <2>1
  <2>6. ASSUME NEW i \in DOMAIN reloc.order, NEW c, c = reloc.order[i]
        PROVE  /\ i < reloc'.at => Misled(c) \/ Cardinality(ColsOf(Load(c))) <= New.m1
               /\ Waits(i)' => Load(c) = ToSet(reloc.blocks[c])
               /\ i = reloc'.at =>
                    \/ Misled(c)
                    \/ \E K \in SUBSET ColsOf(Slots) :
                         /\ Cardinality(K) <= New.m1
                         /\ \A b \in Load(c) : NewCol(b) \in K \/ \E j \in DOMAIN rest : b \in ToSet(rest[j])
    <3>1. i = reloc.at => c = cr
      BY <1>3, <2>6
    <3>2. /\ i < reloc'.at => Misled(c) \/ Cardinality(ColsOf(Load(c))) <= New.m1
          /\ Waits(i)' => Load(c) = ToSet(reloc.blocks[c])
      BY <1>8, <1>12, <2>1, <2>6
    <3> QED
      BY <1>8, <2>3, <2>4, <2>5, <3>1, <3>2
  <2>7. \A b : NewCol(b)' = NewCol(b)
    BY <1>9 DEF NewCol
  <2>8. \A c : ColsOf(Load(c))' = ColsOf(Load(c))
    BY <1>9, <1>10 DEF ColsOf, NewCol
  <2>9. 0 % New.m1 = 0
    <3>1. PICK m \in Nat : m = New.m1 /\ m > 0
      BY <1>4, NewKind
    <3>2. 0 % m = 0
      BY <3>1
    <3> QED
      BY <3>1, <3>2
  <2> QED
    BY <1>8, <1>9, <1>10, <1>11, <2>1, <2>3, <2>6, <2>7, <2>8, <2>9 DEF PcReliefInv
<1>20. ASSUME LrcReliefInv PROVE LrcReliefInv'
  <2> SUFFICES ASSUME IsLrc PROVE LrcReliefInv'
    BY <1>9 DEF LrcReliefInv
  <2>1. /\ \A c \in DOMAIN reloc.blocks : \A y \in GidsOf(Slots) :
             Cardinality({b \in ToSet(reloc.blocks[c]) : bid2gid(New, b) = y}) <= New.g + 1
        /\ \A i \in DOMAIN reloc.order :
             \/ Misled(reloc.order[i])
             \/ /\ i < reloc.at => Bearable(Load(reloc.order[i]))
                /\ Waits(i) => Load(reloc.order[i]) = ToSet(reloc.blocks[reloc.order[i]])
                /\ i >= reloc.at => reloc.counts[reloc.order[i]] = Cardinality(Load(reloc.order[i]))
        /\ \A c \in Taken : Misled(c) \/ Cardinality(Load(c)) <= New.g + 1
    BY <1>1, <1>20 DEF LrcReliefInv
  <2>2. rest = GroupBatches(here, up)
    BY <1>7 DEF IsLrc
  <2>3. PICK gid \in [DOMAIN rest -> GidsOf(ToSet(here))] :
           /\ {gid[j] : j \in DOMAIN rest} = GidsOf(ToSet(here))
           /\ \A i, j \in DOMAIN rest : i # j => gid[i] # gid[j]
           /\ \A j \in DOMAIN rest :
                IsInjective(rest[j]) /\ ToSet(rest[j]) = {b \in ToSet(here) : bid2gid(New, b) = gid[j]}
    BY <1>4, <1>15, <2>2, GroupBatchFacts
  <2>4. ASSUME NEW j \in DOMAIN rest
        PROVE  rest[j] # <<>> /\ Cardinality(ToSet(rest[j])) <= New.g + 1
    <3>1. gid[j] \in GidsOf(Slots) /\ ToSet(rest[j]) # {}
      BY <1>15, <2>3, ToSetSlots DEF GidsOf
    <3>2. ToSet(rest[j]) = {b \in ToSet(reloc.blocks[cr]) : bid2gid(New, b) = gid[j]}
      BY <1>6, <2>3
    <3>3. Cardinality({b \in ToSet(reloc.blocks[cr]) : bid2gid(New, b) = gid[j]}) <= New.g + 1
      BY <1>3, <2>1, <3>1
    <3> QED
      BY <3>1, <3>2, <3>3, NoMembers
  <2>5. \A i, j \in DOMAIN rest : i # j => GidsOf(ToSet(rest[i])) \cap GidsOf(ToSet(rest[j])) = {}
    BY <2>3 DEF GidsOf
  <2>6. ToSet(here) = UNION {ToSet(rest[j]) : j \in DOMAIN rest}
    <3>1. ASSUME NEW b \in ToSet(here) PROVE \E j \in DOMAIN rest : b \in ToSet(rest[j])
      <4>1. bid2gid(New, b) \in GidsOf(ToSet(here))
        BY DEF GidsOf
      <4>2. PICK j \in DOMAIN rest : gid[j] = bid2gid(New, b)
        BY <2>3, <4>1
      <4> QED
        BY <2>3, <4>2
    <3> QED
      BY <1>16, <3>1
  <2>7. ASSUME NEW i \in DOMAIN reloc.order, NEW c, c = reloc.order[i]
        PROVE  \/ Misled(c)
               \/ /\ i < reloc'.at => Bearable(Load(c))
                  /\ Waits(i)' => Load(c) = ToSet(reloc.blocks[c])
                  /\ i >= reloc'.at => reloc.counts[c] = Cardinality(Load(c))
                  /\ i = reloc'.at => Load(c) = UNION {ToSet(rest[j]) : j \in DOMAIN rest}
    <3>1. i = reloc.at => c = cr
      BY <1>3, <2>7
    <3>2. \/ Misled(c)
          \/ /\ i < reloc.at => Bearable(Load(c))
             /\ Waits(i) => Load(c) = ToSet(reloc.blocks[c])
             /\ i >= reloc.at => reloc.counts[c] = Cardinality(Load(c))
      BY <2>1, <2>7
    <3>3. c = cr => Misled(c) \/ Load(c) = ToSet(here)
      BY <1>3, <1>6, <1>13, <2>1
    <3> QED
      BY <1>8, <1>12, <2>6, <3>1, <3>2, <3>3
  <2>8. \A c : Bearable(Load(c))' <=> Bearable(Load(c))
    <3> SUFFICES ASSUME NEW c PROVE Bearable(Load(c))' <=> Bearable(Load(c))
      OBVIOUS
    <3>1. New' = New /\ Load(c)' = Load(c)
      BY <1>9, <1>10
    <3> QED
      BY ONLY <3>1 DEF Bearable, ColsOf, GidsOf, NewCol
  <2>9. \A j : GidsOf(RestOf(j))' = GidsOf(ToSet(rest[j]))
    BY <1>9, <1>11 DEF GidsOf
  <2>10. (UNION {RestOf(j) : j \in DOMAIN reloc.rest})' = UNION {ToSet(rest[j]) : j \in DOMAIN rest}
    BY <1>8, <1>11
  <2>11. \A i \in DOMAIN reloc'.order :
           (LET c == reloc.order[i] IN
            \/ Misled(c)
            \/ /\ i < reloc.at => Bearable(Load(c))
               /\ Waits(i) => Load(c) = ToSet(reloc.blocks[c])
               /\ i >= reloc.at => reloc.counts[c] = Cardinality(Load(c))
               /\ i = reloc.at /\ reloc.rest # <<>> =>
                    Load(c) = UNION {RestOf(j) : j \in DOMAIN reloc.rest})'
    BY <1>8, <1>10, <2>7, <2>8, <2>10
  <2> QED
    BY <1>8, <1>9, <1>10, <1>11, <2>1, <2>4, <2>5, <2>9, <2>11 DEF LrcReliefInv
<1> QED
  BY <1>9, <1>14, <1>17, <1>18, <1>19, <1>20 DEF ReliefInv

----------------------------------------------------------------------------
(* Moving a column.                                                       *)

\* Slots of one column add at most that column.
LEMMA ColumnAdded ==
  ASSUME TypeInv, NEW A \in SUBSET Slots, NEW B \in SUBSET Slots,
         \A a, b \in B : NewCol(a) = NewCol(b), NEW n \in Nat, Cardinality(ColsOf(A)) <= n
  PROVE  Cardinality(ColsOf(A \cup B)) <= n + 1
<1>1. IsFiniteSet(ColsOf(A)) /\ Cardinality(ColsOf(A)) \in Nat
  BY SlotSets
<1>2. PICK x : ColsOf(B) \subseteq {x}
  <2>1. CASE B = {}
    BY <2>1 DEF ColsOf
  <2>2. CASE B # {}
    <3>1. PICK a : a \in B
      BY <2>2
    <3>2. ColsOf(B) \subseteq {NewCol(a)}
      BY <3>1 DEF ColsOf
    <3> QED
      BY <3>2
  <2> QED
    BY <2>1, <2>2
<1>3. IsFiniteSet({x}) /\ Cardinality({x}) = 1
  BY FS_Singleton
<1>4. /\ IsFiniteSet(ColsOf(A) \cup {x})
      /\ Cardinality(ColsOf(A) \cup {x}) = Cardinality(ColsOf(A)) + 1 - Cardinality(ColsOf(A) \cap {x})
  BY <1>1, <1>3, FS_Union
<1>5. Cardinality(ColsOf(A) \cap {x}) \in Nat
  <2>1. IsFiniteSet(ColsOf(A) \cap {x})
    BY <1>3, FS_Subset
  <2> QED
    BY <2>1, FS_CardinalityType
<1>6. ColsOf(A \cup B) \in SUBSET (ColsOf(A) \cup {x})
  BY <1>2 DEF ColsOf
<1>7. /\ Cardinality(ColsOf(A \cup B)) <= Cardinality(ColsOf(A) \cup {x})
      /\ Cardinality(ColsOf(A \cup B)) \in Nat
  BY <1>4, <1>6, FS_Subset, FS_CardinalityType
<1> QED
  BY <1>1, <1>4, <1>5, <1>7

\* Fewer slots have fewer columns.
LEMMA ColumnsWithin ==
  ASSUME TypeInv, NEW A \in SUBSET Slots, NEW K \in SUBSET ColsOf(Slots), NEW n \in Nat,
         Cardinality(K) <= n, \A b \in A : NewCol(b) \in K
  PROVE  Cardinality(ColsOf(A)) <= n
<1>1. IsFiniteSet(K) /\ Cardinality(K) \in Nat
  <2>1. Slots \in SUBSET Slots
    OBVIOUS
  <2>2. IsFiniteSet(ColsOf(Slots))
    BY <2>1, SlotSets
  <2> QED
    BY <2>2, FS_Subset, FS_CardinalityType
<1>2. ColsOf(A) \in SUBSET K
  BY DEF ColsOf
<1>3. Cardinality(ColsOf(A)) <= Cardinality(K) /\ Cardinality(ColsOf(A)) \in Nat
  BY <1>1, <1>2, FS_Subset, FS_CardinalityType
<1> QED
  BY <1>1, <1>3

\* A column moves: it follows the one before, until m1 have gone there.
LEMMA MoveColumnRelief ==
  ASSUME IInv, QueueInv, PcReliefInv, MoveColumn
  PROVE  QueueInv' /\ PcReliefInv'
<1>1. /\ Relieving /\ step = "relieve" /\ step' = step /\ setup' = setup /\ New.type \in PcTypes
      /\ reloc.rest # <<>>
  BY DEF MoveColumn, Relieving
<1>2. PICK des \in IF DrawsForColumn THEN reloc.free ELSE {reloc.des} :
       MoveTo(Batch, NodesIn(des)) /\ Moved(des, Tail(reloc.rest) = <<>>)
  BY Zenon DEF MoveColumn
<1>3. PICK cr, sl, free, last :
        /\ cr = Crowded /\ sl = Batch /\ free = NodesIn(des)
        /\ last \in BOOLEAN /\ (last <=> Tail(reloc.rest) = <<>>)
  OBVIOUS
<1>4. /\ reloc.at \in DOMAIN reloc.order /\ reloc.at \in Nat /\ cr = reloc.order[reloc.at]
      /\ cr \in DOMAIN reloc.blocks
      /\ DOMAIN reloc.order = 1 .. Len(reloc.order) /\ Len(reloc.order) \in Nat
      /\ \A i \in DOMAIN reloc.order :
           reloc.order[i] \in DOMAIN reloc.blocks /\ (reloc.order[i] = cr <=> i = reloc.at)
      /\ cr \notin reloc.free /\ cr \notin Taken
  BY <1>1, <1>3, CrowdedPlace
<1>5. /\ DOMAIN reloc = DOMAIN NoReloc /\ TypeInv /\ larger.nodes \in [Slots -> AllNodes]
      /\ reloc.free \cap DOMAIN reloc.blocks = {} /\ reloc.free \subseteq Clusters
      /\ DOMAIN reloc.counts = DOMAIN reloc.blocks
      /\ \A c \in reloc.free : Load(c) = {} \/ IsLrc
  BY <1>1 DEF IInv, SearchInv, QueueInv, LargerInv, Underway
<1>6. ~IsLrc /\ "RS" \notin PcTypes /\ New.type # "RS" /\ New.m1 \in Pos
  <2>1. New.m1 \in Nat /\ New.m1 > 0
    BY <1>1, <1>5, NewKind
  <2> QED
    BY <1>1, <2>1 DEF IsLrc, PcTypes, Pos
<1>7. Draws <=> reloc.treated % New.m1 = 0
  BY <1>1, <1>6 DEF Draws, CrowdedRs, DrawsForColumn
<1>8. /\ reloc'.at = IF last THEN reloc.at + 1 ELSE reloc.at
      /\ reloc'.rest = IF last THEN <<>> ELSE Tail(reloc.rest)
      /\ reloc'.order = reloc.order /\ reloc'.blocks = reloc.blocks
      /\ reloc'.treated = reloc.treated + 1 /\ reloc'.des = des
      /\ DOMAIN reloc'.counts = DOMAIN reloc.counts
      /\ reloc'.free = IF Draws THEN reloc.free \ {des} ELSE reloc.free
  BY <1>2, <1>3, <1>5 DEF Moved, NoReloc
<1>9. /\ \A c \in Taken : Cardinality(ColsOf(Load(c))) <= New.m1
      /\ reloc.treated \in Nat
      /\ reloc.treated % New.m1 # 0 =>
              reloc.des \in Taken /\ Cardinality(ColsOf(Load(reloc.des))) <= reloc.treated % New.m1
      /\ \A j \in DOMAIN reloc.rest : \A a, b \in RestOf(j) : NewCol(a) = NewCol(b)
  BY <1>1 DEF PcReliefInv
<1>10. PICK t \in Nat : /\ t = reloc.treated % New.m1 /\ t + 1 <= New.m1 /\ New.m1 \in Nat
                        /\ reloc'.treated % New.m1 = 0 \/ reloc'.treated % New.m1 = t + 1
  <2>1. PICK n \in Nat, m \in Pos : n = reloc.treated /\ m = New.m1
    BY <1>6, <1>9
  <2>2. /\ (n + 1) % m = 0 \/ (n + 1) % m = (n % m) + 1
        /\ n % m \in Nat /\ (n % m) + 1 <= m
    BY NextRemainder
  <2>3. PICK t \in Nat : t = n % m
    BY <2>2
  <2>4. t + 1 <= m /\ ((n + 1) % m = 0 \/ (n + 1) % m = t + 1)
    BY ONLY <2>2, <2>3, Zenon
  <2>5. m \in Nat
    BY DEF Pos
  <2> QED
    BY <1>8, <2>1, <2>3, <2>4, <2>5
<1>11. /\ des \notin reloc'.free /\ des # cr /\ des \notin DOMAIN reloc.blocks /\ des \in Clusters
       /\ Cardinality(ColsOf(Load(des))) <= t
       /\ Taken' \subseteq Taken \cup {des} /\ des \in Taken'
  <2>1. CASE t = 0
    <3>1. des \in reloc.free /\ reloc'.free = reloc.free \ {des}
      BY <1>2, <1>7, <1>8, <1>10, <2>1 DEF DrawsForColumn
    <3>2. Load(des) = {}
      BY <1>5, <1>6, <3>1
    <3>3. Cardinality(ColsOf(Load(des))) = 0
      <4>1. ColsOf({}) = {}
        BY DEF ColsOf
      <4> QED
        BY <3>2, <4>1, FS_EmptySet
    <3> QED
      BY <1>4, <1>5, <1>8, <2>1, <3>1, <3>3 DEF Taken, Clusters
  <2>2. CASE t # 0
    <3>1. des = reloc.des /\ reloc'.free = reloc.free
      BY <1>2, <1>7, <1>8, <1>10, <2>2 DEF DrawsForColumn
    <3>2. des \in Taken /\ Cardinality(ColsOf(Load(des))) <= t
      BY <1>9, <1>10, <2>2, <3>1
    <3> QED
      BY <1>4, <1>8, <3>1, <3>2 DEF Taken, Clusters
  <2> QED
    BY <2>1, <2>2
<1>12. /\ 1 \in DOMAIN reloc.rest /\ sl = reloc.rest[1] /\ sl \in Seq(Slots)
       /\ DOMAIN reloc.rest = 1 .. Len(reloc.rest) /\ Len(reloc.rest) \in Nat
       /\ last => Len(reloc.rest) = 1
       /\ ToSet(sl) = RestOf(1) /\ RestOf(1) \subseteq Load(cr)
       /\ ~last => reloc'.rest # <<>>
  <2>1. reloc.rest \in Seq(Seq(Slots))
    BY <1>1 DEF IInv, SearchInv
  <2>2. /\ Head(reloc.rest) = reloc.rest[1] /\ Head(reloc.rest) \in Seq(Slots)
        /\ Tail(reloc.rest) \in Seq(Seq(Slots)) /\ Len(Tail(reloc.rest)) = Len(reloc.rest) - 1
    BY <1>1, <2>1, HeadTailProperties
  <2>3. Len(reloc.rest) \in Nat /\ DOMAIN reloc.rest = 1 .. Len(reloc.rest) /\ Len(reloc.rest) # 0
    BY <1>1, <2>1, LenProperties, EmptySeq
  <2>4. last => Len(reloc.rest) = 1
    <3> SUFFICES ASSUME last PROVE Len(reloc.rest) = 1
      OBVIOUS
    <3>1. Tail(reloc.rest) = <<>>
      BY <1>3
    <3>2. Len(Tail(reloc.rest)) = 0
      BY <2>2, <3>1, EmptySeq
    <3> QED
      BY <2>2, <2>3, <3>2
  <2>5. 1 \in DOMAIN reloc.rest
    BY <2>3
  <2>6. RestOf(1) \subseteq Load(cr)
    BY <1>1, <1>3, <2>5 DEF QueueInv
  <2> QED
    BY <1>3, <1>8, <2>2, <2>3, <2>4, <2>5, <2>6 DEF Batch, RestOf
<1>13. free \in SUBSET NodesIn(des) /\ MoveTo(sl, free)
  BY <1>2, <1>3
<1>14. /\ Load(des)' = Load(des) \cup RestOf(1)
       /\ Load(cr)' = Load(cr) \ RestOf(1)
       /\ \A c : c # cr /\ c # des => Load(c)' = Load(c)
  <2>1. /\ Load(des)' = Load(des) \cup ToSet(sl)
        /\ cr # des => Load(cr)' = Load(cr) \ ToSet(sl)
        /\ \A c : c # cr /\ c # des => Load(c)' = Load(c)
    <3>1. sl \in Seq(Slots) /\ ToSet(sl) \subseteq Load(cr) /\ free \in SUBSET NodesIn(des)
          /\ MoveTo(sl, free) /\ step = "relieve" /\ setup' = setup
      BY <1>1, <1>12, <1>13
    <3> QED
      BY ONLY <3>1, IInv, MoveShift
  <2> QED
    BY <1>11, <1>12, <2>1
<1>15. QueueInv'
  <2>1. /\ sl \in Seq(Slots) /\ ToSet(sl) \subseteq Load(Crowded)
        /\ DOMAIN reloc'.counts = DOMAIN reloc.counts /\ reloc'.free \subseteq reloc.free
        /\ des \in reloc'.free => IsLrc /\ Misled(des)'
        /\ reloc'.at \in {reloc.at, reloc.at + 1}
    BY <1>3, <1>8, <1>11, <1>12
  <2>2. \/ reloc'.rest = <<>> /\ reloc'.at = reloc.at + 1
        \/ /\ reloc.rest # <<>> /\ sl = Batch /\ reloc'.rest = Tail(reloc.rest)
           /\ reloc'.rest # <<>> /\ reloc'.at = reloc.at
    BY <1>1, <1>3, <1>8, <1>12
  <2>3. Relieving /\ step' = step /\ setup' = setup
    BY <1>1
  <2> QED
    BY ONLY <1>8, <1>13, <2>1, <2>2, <2>3, IInv, QueueInv, MoveQueue
<1>16. New' = New /\ Slots' = Slots /\ ColsOf(Slots)' = ColsOf(Slots) /\ \A b : NewCol(b)' = NewCol(b)
  BY <1>1 DEF New, Slots, ColsOf, NewCol
<1>17. \A c : Misled(c)' <=> Misled(c)
  <2>1. New'.type \in PcTypes /\ New' = New /\ reloc'.blocks = reloc.blocks
    BY <1>1, <1>8, <1>16
  <2>2. New'.type # "RS" /\ New.type # "RS" /\ New.type \in PcTypes
    BY <1>6, <1>16, <2>1
  <2> QED
    BY ONLY <2>1, <2>2 DEF Misled
<1>18. Cardinality(ColsOf(Load(des))') <= t + 1
  <2>1. Load(des) \in SUBSET Slots /\ RestOf(1) \in SUBSET Slots
    BY <1>12, ToSetSlots DEF Load
  <2>2. Cardinality(ColsOf(Load(des) \cup RestOf(1))) <= t + 1
    BY <1>5, <1>9, <1>11, <1>12, <2>1, ColumnAdded
  <2>3. ColsOf(Load(des))' = ColsOf(Load(des) \cup RestOf(1))
    BY <1>14, <1>16 DEF ColsOf
  <2> QED
    BY <2>2, <2>3
<1>19. \A c : c # cr /\ c # des => ColsOf(Load(c))' = ColsOf(Load(c))
  BY <1>14, <1>16 DEF ColsOf
<1>20. /\ \A j \in DOMAIN reloc'.rest :
            ~last /\ j + 1 \in DOMAIN reloc.rest /\ j + 1 # 1 /\ RestOf(j)' = RestOf(j + 1)
       /\ ~last => \A j \in DOMAIN reloc.rest : j # 1 =>
            j - 1 \in DOMAIN reloc'.rest /\ RestOf(j - 1)' = RestOf(j)
  <2>1. CASE last
    BY <1>8, <2>1
  <2>2. CASE ~last
    <3>1. reloc'.rest = Tail(reloc.rest)
      BY <1>8, <2>2
    <3> QED
      BY <1>1, <2>2, <3>1, RestShifts DEF IInv
  <2> QED
    BY <2>1, <2>2
<1>21. PICK Mis, Kept1 :
         /\ Mis = Misled(cr)
         /\ Kept1 = {K \in SUBSET ColsOf(Slots) : Cardinality(K) <= New.m1 /\
              \A b \in Load(cr) : NewCol(b) \in K \/ \E j \in DOMAIN reloc.rest : b \in RestOf(j)}
         /\ Mis \/ Kept1 # {}
  <2>1. LET c == reloc.order[reloc.at] IN
         reloc.at = reloc.at /\ reloc.rest # <<>> =>
              \/ Misled(c)
              \/ \E K \in SUBSET ColsOf(Slots) :
                   /\ Cardinality(K) <= New.m1
                   /\ \A b \in Load(c) : NewCol(b) \in K \/ \E j \in DOMAIN reloc.rest : b \in RestOf(j)
    BY <1>1, <1>4 DEF PcReliefInv
  <2> QED
    BY <1>1, <1>4, <2>1
<1>22. ASSUME NEW i \in DOMAIN reloc.order, NEW c, c = reloc.order[i]
       PROVE  /\ i < reloc'.at => Misled(c) \/ Cardinality(ColsOf(Load(c))') <= New.m1
              /\ Waits(i)' => Load(c)' = ToSet(reloc.blocks[c])
              /\ i = reloc'.at /\ reloc'.rest # <<>> =>
                   \/ Misled(c)
                   \/ \E K \in SUBSET ColsOf(Slots) :
                        /\ Cardinality(K) <= New.m1
                        /\ \A b \in Load(c)' : NewCol(b) \in K \/ \E j \in DOMAIN reloc'.rest : b \in RestOf(j)'
  <2>1. i \in Nat /\ c \in DOMAIN reloc.blocks /\ c # des /\ (c = cr <=> i = reloc.at)
    BY <1>4, <1>11, <1>22
  <2>2. CASE c # cr
    <3>1. Load(c)' = Load(c) /\ ColsOf(Load(c))' = ColsOf(Load(c)) /\ i # reloc.at
      BY <1>14, <1>19, <2>1, <2>2
    <3>2. i < reloc'.at => i < reloc.at
      BY <1>4, <1>8, <2>1, <3>1
    <3>3. Waits(i)' => Waits(i)
      BY <1>4, <1>8, <2>1, <3>1 DEF Waits
    <3>4. ~(i = reloc'.at /\ reloc'.rest # <<>>)
      BY <1>8, <3>1
    <3>5. /\ i < reloc.at => Misled(c) \/ Cardinality(ColsOf(Load(c))) <= New.m1
          /\ Waits(i) => Load(c) = ToSet(reloc.blocks[c])
      BY <1>1, <1>22 DEF PcReliefInv
    <3> QED
      BY <3>1, <3>2, <3>3, <3>4, <3>5
  <2>3. CASE c = cr
    <3>1. i = reloc.at /\ ~Waits(i)'
      BY <1>4, <1>8, <1>12, <2>1, <2>3 DEF Waits
    <3>2. CASE Mis
      BY <1>21, <2>3, <3>1, <3>2
    <3>3. CASE ~Mis
      <4>1. PICK K \in SUBSET ColsOf(Slots) : Cardinality(K) <= New.m1 /\
              \A b \in Load(cr) : NewCol(b) \in K \/ \E j \in DOMAIN reloc.rest : b \in RestOf(j)
        BY <1>21, <3>3
      <4>2. CASE last
        <5>1. \A b \in Load(cr)' : NewCol(b) \in K
          <6> SUFFICES ASSUME NEW b \in Load(cr)' PROVE NewCol(b) \in K
            OBVIOUS
          <6>1. b \in Load(cr) /\ b \notin RestOf(1)
            BY <1>14
          <6>2. \A j \in DOMAIN reloc.rest : j = 1
            <7>1. DOMAIN reloc.rest = 1 .. Len(reloc.rest) /\ Len(reloc.rest) = 1
              BY <1>12, <4>2
            <7> QED
              BY ONLY <7>1
          <6> QED
            BY <4>1, <6>1, <6>2
        <5>2. Load(cr) \ RestOf(1) \in SUBSET Slots
          BY DEF Load
        <5>3. Cardinality(ColsOf(Load(cr) \ RestOf(1))) <= New.m1
          BY <1>5, <1>10, <1>14, <4>1, <5>1, <5>2, ColumnsWithin
        <5>4. ColsOf(Load(cr))' = ColsOf(Load(cr) \ RestOf(1))
          BY <1>14, <1>16 DEF ColsOf
        <5>5. reloc'.rest = <<>>
          BY <1>8, <4>2
        <5>6. Cardinality(ColsOf(Load(cr))') <= New.m1
          BY <5>3, <5>4
        <5>7. Cardinality(ColsOf(Load(c))') <= New.m1
          BY <2>3, <5>6
        <5> QED
          BY <3>1, <5>5, <5>7
      <4>3. CASE ~last
        <5>1. \A b \in Load(cr)' : NewCol(b) \in K \/ \E j \in DOMAIN reloc'.rest : b \in RestOf(j)'
          <6> SUFFICES ASSUME NEW b \in Load(cr)', NewCol(b) \notin K
                       PROVE  \E j \in DOMAIN reloc'.rest : b \in RestOf(j)'
            OBVIOUS
          <6>1. PICK j \in DOMAIN reloc.rest : b \in RestOf(j) /\ j # 1
            BY <1>14, <4>1
          <6> QED
            BY <1>20, <4>3, <6>1
        <5>2. \A b \in Load(c)' : NewCol(b) \in K \/ \E j \in DOMAIN reloc'.rest : b \in RestOf(j)'
          BY <2>3, <5>1
        <5>3. ~(i < reloc'.at)
          BY <1>4, <1>8, <3>1, <4>3
        <5> QED
          BY <3>1, <4>1, <5>2, <5>3
      <4> QED
        BY <4>2, <4>3
    <3> QED
      BY <3>2, <3>3
  <2> QED
    BY <2>2, <2>3
<1>23. \A j \in DOMAIN reloc'.rest : \A a, b \in RestOf(j)' : NewCol(a) = NewCol(b)
  BY <1>9, <1>20
<1>24. \A c \in Taken' : Cardinality(ColsOf(Load(c))') <= New.m1
  <2> SUFFICES ASSUME NEW c \in Taken' PROVE Cardinality(ColsOf(Load(c))') <= New.m1
    OBVIOUS
  <2>1. CASE c = des
    <3>1. Cardinality(ColsOf(Load(des))') <= New.m1
      <4>1. IsFiniteSet(ColsOf(Load(des))') /\ Cardinality(ColsOf(Load(des))') \in Nat
        <5>1. Load(des) \cup RestOf(1) \in SUBSET Slots
          BY <1>12, ToSetSlots DEF Load
        <5>2. ColsOf(Load(des))' = ColsOf(Load(des) \cup RestOf(1))
          BY <1>14, <1>16 DEF ColsOf
        <5> QED
          BY <1>5, <5>1, <5>2, SlotSets
      <4> QED
        BY <1>10, <1>18, <4>1
    <3> QED
      BY <2>1, <3>1
  <2>2. CASE c # des
    <3>1. c \in Taken /\ c # cr
      BY <1>4, <1>11, <2>2
    <3> QED
      BY <1>9, <1>19, <2>2, <3>1
  <2> QED
    BY <2>1, <2>2
<1>25. PcReliefInv'
  <2>1. reloc'.treated % New.m1 # 0 =>
          des \in Taken' /\ Cardinality(ColsOf(Load(des))') <= reloc'.treated % New.m1
    BY <1>10, <1>11, <1>18
  <2>2. reloc'.treated \in Nat
    BY <1>8, <1>9
  <2>3. (reloc.treated % New.m1 # 0 =>
           reloc.des \in Taken /\ Cardinality(ColsOf(Load(reloc.des))) <= reloc.treated % New.m1)'
    <3>1. PICK d : d = reloc'.des
      OBVIOUS
    <3>2. d = des
      BY <1>8, <3>1
    <3> QED
      BY <1>8, <1>16, <2>1
  <2>4. \A i \in DOMAIN reloc'.order :
         (LET c == reloc.order[i] IN
         /\ i < reloc.at => Misled(c) \/ Cardinality(ColsOf(Load(c))) <= New.m1
         /\ Waits(i) => Load(c) = ToSet(reloc.blocks[c])
         /\ i = reloc.at /\ reloc.rest # <<>> =>
              \/ Misled(c)
              \/ \E K \in SUBSET ColsOf(Slots) :
                   /\ Cardinality(K) <= New.m1
                   /\ \A b \in Load(c) : NewCol(b) \in K \/ \E j \in DOMAIN reloc.rest : b \in RestOf(j))'
    BY <1>8, <1>16, <1>17, <1>22
  <2> QED
    BY <1>16, <1>23, <1>24, <2>2, <2>3, <2>4 DEF PcReliefInv
<1> QED
  BY <1>15, <1>25

----------------------------------------------------------------------------
(* Moving a local group.                                                  *)

\* Parts of different groups: there are no more of them than groups.
LEMMA GroupsLeft ==
  ASSUME TypeInv, NEW n \in Nat, NEW S \in SUBSET Slots, NEW part \in [1 .. n -> SUBSET S],
         \A j \in 1 .. n : part[j] # {},
         \A i, j \in 1 .. n : i # j => GidsOf(part[i]) \cap GidsOf(part[j]) = {}
  PROVE  n <= Cardinality(GidsOf(S))
<1>1. IsFiniteSet(GidsOf(S)) /\ Cardinality(GidsOf(S)) \in Nat
  BY SlotSets
<1>2. \A j \in 1 .. n : \E x : x \in GidsOf(part[j])
  BY DEF GidsOf
<1> DEFINE f == [j \in 1 .. n |-> CHOOSE x : x \in GidsOf(part[j])]
<1>3. \A j \in 1 .. n : f[j] \in GidsOf(part[j])
  BY <1>2
<1>4. \A j \in 1 .. n : GidsOf(part[j]) \subseteq GidsOf(S)
  BY DEF GidsOf
<1>5. f \in [1 .. n -> GidsOf(S)]
  BY <1>3, <1>4
<1>6. \A i, j \in 1 .. n : f[i] = f[j] => i = j
  BY <1>3
<1> HIDE DEF f
<1>7. f \in Injection(1 .. n, GidsOf(S))
  BY <1>5, <1>6 DEF Injection, IsInjective
<1>8. Cardinality(1 .. n) = n
  <2>1. 1 \in Int /\ n \in Int
    OBVIOUS
  <2>2. Cardinality(1 .. n) = IF 1 > n THEN 0 ELSE n - 1 + 1
    BY ONLY <2>1, FS_Interval, Zenon
  <2> QED
    BY <2>2
<1> QED
  BY <1>1, <1>7, <1>8, FS_Injection

\* A local group moves: to a free cluster, or to cluster 0, which is then one of
\* those that the relief fails.
LEMMA MoveGroupRelief ==
  ASSUME IInv, QueueInv, LrcReliefInv, MoveGroup
  PROVE  QueueInv' /\ LrcReliefInv'
<1>1. /\ Relieving /\ step = "relieve" /\ step' = step /\ setup' = setup /\ New.type \in LrcTypes
      /\ reloc.rest # <<>>
  BY DEF MoveGroup, Relieving
<1>2. PICK des \in IF DrawsForGroup THEN reloc.free ELSE {0} :
       /\ MoveTo(Batch, NodesIn(des))
       /\ Moved(des, \/ reloc.counts[Crowded] - Len(Batch) <= New.g + Len(Tail(reloc.rest))
                     \/ Tail(reloc.rest) = <<>>)
  BY Zenon DEF MoveGroup
<1>3. PICK cr, sl, free, last :
        /\ cr = Crowded /\ sl = Batch /\ free = NodesIn(des)
        /\ last \in BOOLEAN
        /\ last <=> \/ reloc.counts[Crowded] - Len(Batch) <= New.g + Len(Tail(reloc.rest))
                    \/ Tail(reloc.rest) = <<>>
  OBVIOUS
<1>4. /\ reloc.at \in DOMAIN reloc.order /\ reloc.at \in Nat /\ cr = reloc.order[reloc.at]
      /\ cr \in DOMAIN reloc.blocks
      /\ DOMAIN reloc.order = 1 .. Len(reloc.order) /\ Len(reloc.order) \in Nat
      /\ \A i \in DOMAIN reloc.order :
           reloc.order[i] \in DOMAIN reloc.blocks /\ (reloc.order[i] = cr <=> i = reloc.at)
      /\ cr \notin reloc.free /\ cr \notin Taken
  BY <1>1, <1>3, CrowdedPlace
<1>5. /\ DOMAIN reloc = DOMAIN NoReloc /\ TypeInv /\ larger.nodes \in [Slots -> AllNodes]
      /\ reloc.free \cap DOMAIN reloc.blocks = {} /\ reloc.free \subseteq Clusters
      /\ DOMAIN reloc.counts = DOMAIN reloc.blocks
      /\ \A c \in reloc.free : Load(c) = {} \/ (IsLrc /\ Misled(c))
  BY <1>1 DEF IInv, SearchInv, QueueInv, LargerInv, Underway
<1>6. IsLrc /\ New.g \in Nat /\ New.type # "RS" /\ New.type \notin PcTypes
  <2>1. IsLrc
    BY <1>1 DEF IsLrc, LrcTypes, PcTypes
  <2> QED
    BY <1>5, <2>1, NewKind DEF IsLrc
<1>7. Draws <=> DrawsForGroup
  BY <1>1, <1>6 DEF Draws, CrowdedRs
<1>8. /\ reloc'.at = IF last THEN reloc.at + 1 ELSE reloc.at
      /\ reloc'.rest = IF last THEN <<>> ELSE Tail(reloc.rest)
      /\ reloc'.order = reloc.order /\ reloc'.blocks = reloc.blocks
      /\ DOMAIN reloc'.counts = DOMAIN reloc.counts
      /\ reloc'.counts[cr] = reloc.counts[cr] - Len(sl)
      /\ \A c \in DOMAIN reloc.counts : c # cr => reloc'.counts[c] = reloc.counts[c]
      /\ reloc'.free = IF Draws THEN reloc.free \ {des} ELSE reloc.free
  BY <1>2, <1>3, <1>4, <1>5 DEF Moved, NoReloc
<1>9. /\ \A c \in DOMAIN reloc.blocks : \A y \in GidsOf(Slots) :
         Cardinality({b \in ToSet(reloc.blocks[c]) : bid2gid(New, b) = y}) <= New.g + 1
      /\ \A j \in DOMAIN reloc.rest : reloc.rest[j] # <<>> /\ Cardinality(RestOf(j)) <= New.g + 1
      /\ \A i, j \in DOMAIN reloc.rest : i # j => GidsOf(RestOf(i)) \cap GidsOf(RestOf(j)) = {}
      /\ \A c \in Taken : Misled(c) \/ Cardinality(Load(c)) <= New.g + 1
  BY <1>1, <1>6 DEF LrcReliefInv
<1>10. PICK n \in Nat :
         /\ n + 1 = Len(reloc.rest) /\ DOMAIN reloc.rest = 1 .. n + 1
         /\ 1 \in DOMAIN reloc.rest /\ sl = reloc.rest[1] /\ sl \in Seq(Slots)
         /\ ToSet(sl) = RestOf(1) /\ RestOf(1) \subseteq Load(cr) /\ IsInjective(sl)
         /\ Len(Tail(reloc.rest)) = n /\ (Tail(reloc.rest) = <<>> <=> n = 0)
         /\ sl # <<>> /\ \A j \in DOMAIN reloc.rest : RestOf(j) \in SUBSET Slots
         /\ ~last => reloc'.rest # <<>>
  <2>1. reloc.rest \in Seq(Seq(Slots))
    BY <1>1 DEF IInv, SearchInv
  <2>2. /\ Head(reloc.rest) = reloc.rest[1] /\ Head(reloc.rest) \in Seq(Slots)
        /\ Tail(reloc.rest) \in Seq(Seq(Slots)) /\ Len(Tail(reloc.rest)) = Len(reloc.rest) - 1
    BY <1>1, <2>1, HeadTailProperties
  <2>3. Len(reloc.rest) \in Nat /\ DOMAIN reloc.rest = 1 .. Len(reloc.rest) /\ Len(reloc.rest) # 0
    BY <1>1, <2>1, LenProperties, EmptySeq
  <2>4. PICK n \in Nat : n + 1 = Len(reloc.rest) /\ n = Len(reloc.rest) - 1
    <3>1. PICK k \in Nat : k = Len(reloc.rest) /\ k # 0
      BY <2>3
    <3>2. k - 1 \in Nat /\ (k - 1) + 1 = k
      BY <3>1
    <3> QED
      BY <3>1, <3>2
  <2>5. 1 \in DOMAIN reloc.rest
    BY <2>3
  <2>6. RestOf(1) \subseteq Load(cr) /\ IsInjective(reloc.rest[1])
    BY <1>1, <1>3, <2>5 DEF QueueInv
  <2>7. Tail(reloc.rest) = <<>> <=> n = 0
    BY <2>2, <2>4, EmptySeq
  <2>8. \A j \in DOMAIN reloc.rest : RestOf(j) \in SUBSET Slots
    BY <2>1, <2>3, ElementOfSeq, ToSetSlots DEF RestOf
  <2>9. ~last => reloc'.rest # <<>>
    BY <1>3, <1>8
  <2> QED
    BY <1>3, <1>9, <2>2, <2>3, <2>4, <2>5, <2>6, <2>7, <2>8, <2>9 DEF Batch, RestOf
<1>11. free \in SUBSET NodesIn(des) /\ MoveTo(sl, free)
  BY <1>2, <1>3
<1>12. /\ Load(des)' = Load(des) \cup RestOf(1)
       /\ cr # des => Load(cr)' = Load(cr) \ RestOf(1)
       /\ \A c : c # cr /\ c # des => Load(c)' = Load(c)
  <2>1. sl \in Seq(Slots) /\ ToSet(sl) \subseteq Load(cr) /\ free \in SUBSET NodesIn(des)
        /\ MoveTo(sl, free) /\ step = "relieve" /\ setup' = setup
    BY <1>1, <1>10, <1>11
  <2>2. /\ Load(des)' = Load(des) \cup ToSet(sl)
        /\ cr # des => Load(cr)' = Load(cr) \ ToSet(sl)
        /\ \A c : c # cr /\ c # des => Load(c)' = Load(c)
    <3>1. PICK d : d = des
      OBVIOUS
    <3>2. sl \in Seq(Slots) /\ ToSet(sl) \subseteq Load(cr) /\ free \in SUBSET NodesIn(d)
          /\ MoveTo(sl, free) /\ step = "relieve" /\ setup' = setup
      BY ONLY <2>1, <3>1, Zenon
    <3>3. /\ Load(d)' = Load(d) \cup ToSet(sl)
          /\ cr # d => Load(cr)' = Load(cr) \ ToSet(sl)
          /\ \A c : c # cr /\ c # d => Load(c)' = Load(c)
      BY ONLY <3>2, IInv, MoveShift
    <3> QED
      BY ONLY <3>1, <3>3, Zenon
  <2> QED
    BY <1>10, <2>2
<1>13. /\ IsLrc' /\ \A c : Misled(c) => Misled(c)'
       /\ des = 0 => Misled(des)'
  <2>1. sl \in Seq(Slots) /\ sl # <<>> /\ free \in SUBSET NodesIn(des)
        /\ MoveTo(sl, free) /\ step = "relieve" /\ setup' = setup
    BY <1>1, <1>10, <1>11
  <2> QED
    BY ONLY <2>1, <1>6, IInv, MisledStays
<1>14. \/ /\ des \in reloc.free /\ des \notin reloc'.free /\ des \notin DOMAIN reloc.blocks
          /\ Load(des) = {} \/ Misled(des)
       \/ Misled(des)' /\ reloc'.free = reloc.free
  <2>1. CASE DrawsForGroup
    BY <1>2, <1>5, <1>7, <1>8, <2>1
  <2>2. CASE ~DrawsForGroup
    BY <1>2, <1>7, <1>8, <1>13, <2>2
  <2> QED
    BY <2>1, <2>2
<1>15. QueueInv'
  <2>1. /\ sl \in Seq(Slots) /\ ToSet(sl) \subseteq Load(Crowded)
        /\ DOMAIN reloc'.counts = DOMAIN reloc.counts /\ reloc'.free \subseteq reloc.free
        /\ des \in reloc'.free => IsLrc /\ Misled(des)'
        /\ reloc'.at \in {reloc.at, reloc.at + 1}
    BY <1>3, <1>6, <1>8, <1>10, <1>14
  <2>2. \/ reloc'.rest = <<>> /\ reloc'.at = reloc.at + 1
        \/ /\ reloc.rest # <<>> /\ sl = Batch /\ reloc'.rest = Tail(reloc.rest)
           /\ reloc'.rest # <<>> /\ reloc'.at = reloc.at
    BY <1>1, <1>3, <1>8, <1>10
  <2>3. Relieving /\ step' = step /\ setup' = setup
    BY <1>1
  <2> QED
    BY ONLY <1>8, <1>11, <2>1, <2>2, <2>3, IInv, QueueInv, MoveQueue
<1>16. New' = New /\ Slots' = Slots /\ GidsOf(Slots)' = GidsOf(Slots) /\ \A j : GidsOf(RestOf(j))' = GidsOf(RestOf(j)')
  BY <1>1 DEF New, Slots, GidsOf
<1>17. /\ \A j \in DOMAIN reloc'.rest :
            /\ ~last /\ j \in Nat /\ j >= 1 /\ j + 1 \in DOMAIN reloc.rest /\ j + 1 # 1
            /\ reloc'.rest[j] = reloc.rest[j + 1] /\ RestOf(j)' = RestOf(j + 1)
       /\ ~last => \A j \in DOMAIN reloc.rest : j # 1 =>
            j - 1 \in DOMAIN reloc'.rest /\ RestOf(j - 1)' = RestOf(j)
  <2>1. CASE last
    BY <1>8, <2>1
  <2>2. CASE ~last
    <3>1. reloc'.rest = Tail(reloc.rest)
      BY <1>8, <2>2
    <3> QED
      BY <1>1, <2>2, <3>1, RestShifts DEF IInv
  <2> QED
    BY <2>1, <2>2
<1>18. \A j \in DOMAIN reloc'.rest : reloc'.rest[j] # <<>> /\ Cardinality(RestOf(j)') <= New.g + 1
  BY <1>9, <1>17
<1>19. \A i, j \in DOMAIN reloc'.rest : i # j => GidsOf(RestOf(i)') \cap GidsOf(RestOf(j)') = {}
  <2> SUFFICES ASSUME NEW i \in DOMAIN reloc'.rest, NEW j \in DOMAIN reloc'.rest, i # j
               PROVE  GidsOf(RestOf(i)') \cap GidsOf(RestOf(j)') = {}
    OBVIOUS
  <2>1. PICK a \in DOMAIN reloc.rest, b \in DOMAIN reloc.rest :
          a = i + 1 /\ b = j + 1 /\ a # b /\ RestOf(i)' = RestOf(a) /\ RestOf(j)' = RestOf(b)
    BY <1>17
  <2>2. GidsOf(RestOf(a)) \cap GidsOf(RestOf(b)) = {}
    BY <1>9, <2>1
  <2> QED
    BY <2>1, <2>2
<1>20. ASSUME cr # des, ~Misled(cr)
       PROVE  /\ Load(cr)' = UNION {RestOf(j) : j \in 2 .. n + 1}
              /\ reloc'.counts[cr] = Cardinality(Load(cr)')
              /\ reloc.counts[cr] - Len(sl) = Cardinality(Load(cr)')
  <2>1. /\ Load(cr) = UNION {RestOf(j) : j \in DOMAIN reloc.rest}
        /\ reloc.counts[cr] = Cardinality(Load(cr))
    <3>1. LET c == reloc.order[reloc.at] IN
           \/ Misled(c)
           \/ /\ reloc.at >= reloc.at => reloc.counts[c] = Cardinality(Load(c))
              /\ reloc.at = reloc.at /\ reloc.rest # <<>> =>
                   Load(c) = UNION {RestOf(j) : j \in DOMAIN reloc.rest}
      BY <1>1, <1>4, <1>6 DEF LrcReliefInv
    <3> QED
      BY <1>1, <1>4, <1>20, <3>1
  <2>2. \A j \in DOMAIN reloc.rest : j # 1 => RestOf(j) \cap RestOf(1) = {}
    BY <1>1, <1>10 DEF QueueInv
  <2>3. Load(cr) \ RestOf(1) = UNION {RestOf(j) : j \in 2 .. n + 1}
    <3>1. \A j : j \in DOMAIN reloc.rest <=> (j = 1 \/ j \in 2 .. n + 1)
      <4>1. DOMAIN reloc.rest = 1 .. n + 1
        BY <1>10
      <4> QED
        BY ONLY <4>1, n \in Nat
    <3>2. 1 \notin 2 .. n + 1
      OBVIOUS
    <3>3. Load(cr) = RestOf(1) \cup UNION {RestOf(j) : j \in 2 .. n + 1}
      BY ONLY <2>1, <3>1, Zenon
    <3>4. \A j \in 2 .. n + 1 : RestOf(j) \cap RestOf(1) = {}
      BY <2>2, <3>1, <3>2
    <3> QED
      BY ONLY <3>3, <3>4
  <2>4. Len(sl) = Cardinality(RestOf(1)) /\ Len(sl) \in Nat
    BY <1>10, ListedSet
  <2>5. IsFiniteSet(Load(cr)) /\ Cardinality(Load(cr)) \in Nat
    BY <1>5, LoadListed
  <2>6. Cardinality(Load(cr) \ RestOf(1)) = Cardinality(Load(cr)) - Cardinality(Load(cr) \cap RestOf(1))
    BY <2>5, FS_Difference
  <2>7. Load(cr) \cap RestOf(1) = RestOf(1)
    BY <1>10
  <2>8. Load(cr)' = Load(cr) \ RestOf(1)
    BY <1>12, <1>20
  <2> QED
    BY <1>8, <2>1, <2>3, <2>4, <2>6, <2>7, <2>8
<1>21. ASSUME cr # des, ~Misled(cr), last
       PROVE  Bearable(Load(cr)')
  <2>1. PICK S : S = Load(cr)' /\ S = UNION {RestOf(j) : j \in 2 .. n + 1} /\ S \in SUBSET Slots
    <3>1. UNION {RestOf(j) : j \in 2 .. n + 1} \in SUBSET Slots
      BY <1>10
    <3> QED
      BY <1>20, <1>21, <3>1
  <2>2. CASE n = 0
    <3>1. 2 .. n + 1 = {}
      BY <2>2
    <3>2. S = {}
      BY <2>1, <3>1
    <3> QED
      BY <1>5, <2>1, <3>2, NothingBearable
  <2>3. CASE n # 0
    <3>1. Cardinality(S) <= New.g + n
      BY <1>3, <1>10, <1>20, <1>21, <2>1, <2>3
    <3> DEFINE part == [j \in 1 .. n |-> RestOf(j + 1)]
    <3>2. part \in [1 .. n -> SUBSET S]
      <4> SUFFICES ASSUME NEW j \in 1 .. n PROVE RestOf(j + 1) \subseteq S
        OBVIOUS
      <4>1. j + 1 \in 2 .. n + 1
        OBVIOUS
      <4> QED
        BY <2>1, <4>1
    <3>3. ASSUME NEW j \in 1 .. n PROVE part[j] # {}
      <4>1. j + 1 \in DOMAIN reloc.rest
        BY <1>10
      <4>2. reloc.rest[j + 1] # <<>> /\ reloc.rest[j + 1] \in Seq(Slots)
        <5>1. reloc.rest \in Seq(Seq(Slots)) /\ reloc.rest[j + 1] # <<>>
          BY <1>1, <1>9, <4>1 DEF IInv, SearchInv
        <5> QED
          BY <1>10, <4>1, <5>1, ElementOfSeq
      <4>3. Len(reloc.rest[j + 1]) \in Nat /\ Len(reloc.rest[j + 1]) # 0
            /\ DOMAIN reloc.rest[j + 1] = 1 .. Len(reloc.rest[j + 1])
        BY <4>2, LenProperties, EmptySeq
      <4>4. 1 \in DOMAIN reloc.rest[j + 1]
        BY <4>3
      <4> QED
        BY <4>4 DEF RestOf, ToSet
    <3>4. ASSUME NEW i \in 1 .. n, NEW j \in 1 .. n, i # j
          PROVE  GidsOf(part[i]) \cap GidsOf(part[j]) = {}
      <4>1. PICK a \in DOMAIN reloc.rest, b \in DOMAIN reloc.rest : a = i + 1 /\ b = j + 1 /\ a # b
        <5>1. DOMAIN reloc.rest = 1 .. n + 1
          BY <1>10
        <5> QED
          BY <3>4, <5>1
      <4>2. GidsOf(RestOf(a)) \cap GidsOf(RestOf(b)) = {}
        BY <1>9, <4>1
      <4> QED
        BY <4>1, <4>2
    <3> HIDE DEF part
    <3>5. n <= Cardinality(GidsOf(S))
      BY <1>5, <2>1, <3>2, <3>3, <3>4, GroupsLeft
    <3>6. Cardinality(S) \in Nat /\ Cardinality(GidsOf(S)) \in Nat
      BY <1>5, <2>1, SlotSets
    <3>7. Cardinality(S) <= Cardinality(GidsOf(S)) + New.g
      BY <1>6, <3>1, <3>5, <3>6
    <3>8. Bearable(S)
      BY <1>6, <3>7 DEF Bearable
    <3> QED
      BY <2>1, <3>8
  <2> QED
    BY <2>2, <2>3
<1>22. \A c : Bearable(Load(c))' <=> Bearable(Load(c)')
  BY <1>16 DEF Bearable, ColsOf, GidsOf, NewCol
<1>23. ASSUME NEW i \in DOMAIN reloc.order, NEW c, c = reloc.order[i]
       PROVE  \/ Misled(c)'
              \/ /\ i < reloc'.at => Bearable(Load(c)')
                 /\ Waits(i)' => Load(c)' = ToSet(reloc.blocks[c])
                 /\ i >= reloc'.at => reloc'.counts[c] = Cardinality(Load(c)')
                 /\ i = reloc'.at /\ reloc'.rest # <<>> =>
                      Load(c)' = UNION {RestOf(j)' : j \in DOMAIN reloc'.rest}
  <2>1. i \in Nat /\ c \in DOMAIN reloc.blocks /\ (c = cr <=> i = reloc.at)
    BY <1>4, <1>23
  <2>2. CASE c = des
    <3>1. Misled(des)'
      BY <1>14, <2>1, <2>2
    <3> QED
      BY <2>2, <3>1
  <2>3. CASE c # des /\ c # cr
    <3>1. Load(c)' = Load(c) /\ i # reloc.at /\ reloc'.counts[c] = reloc.counts[c]
      BY <1>5, <1>8, <1>12, <2>1, <2>3
    <3>2. /\ i < reloc'.at => i < reloc.at
          /\ i >= reloc'.at => i >= reloc.at
      BY <1>4, <1>8, <2>1, <3>1
    <3>3. Waits(i)' => Waits(i)
      BY <1>4, <1>8, <2>1, <3>1 DEF Waits
    <3>4. ~(i = reloc'.at /\ reloc'.rest # <<>>)
      BY <1>8, <3>1
    <3>5. \/ Misled(c)
          \/ /\ i < reloc.at => Bearable(Load(c))
             /\ Waits(i) => Load(c) = ToSet(reloc.blocks[c])
             /\ i >= reloc.at => reloc.counts[c] = Cardinality(Load(c))
      BY <1>1, <1>6, <1>23 DEF LrcReliefInv
    <3>6. Misled(c) => Misled(c)'
      BY <1>13
    <3> QED
      BY <3>1, <3>2, <3>3, <3>4, <3>5, <3>6
  <2>4. CASE c # des /\ c = cr
    <3>1. i = reloc.at /\ ~Waits(i)'
      BY <1>4, <1>8, <1>10, <2>1, <2>4 DEF Waits
    <3>2. CASE Misled(cr)
      <4>1. Misled(cr)'
        BY <1>13, <3>2
      <4> QED
        BY <2>4, <4>1
    <3>3. CASE ~Misled(cr)
      <4>1. /\ Load(cr)' = UNION {RestOf(j) : j \in 2 .. n + 1}
            /\ reloc'.counts[cr] = Cardinality(Load(cr)')
        BY <1>20, <2>4, <3>3
      <4>2. i < reloc'.at => Bearable(Load(cr)')
        <5>1. i < reloc'.at => last
          BY <1>4, <1>8, <3>1
        <5> QED
          BY <1>21, <2>4, <3>3, <5>1
      <4>3. ASSUME reloc'.rest # <<>>
            PROVE  Load(cr)' = UNION {RestOf(j)' : j \in DOMAIN reloc'.rest}
        <5>1. ~last
          BY <1>8, <4>3
        <5>2. \A j \in 2 .. n + 1 : j \in DOMAIN reloc.rest /\ j # 1
          <6>1. DOMAIN reloc.rest = 1 .. n + 1
            BY <1>10
          <6> QED
            BY ONLY <6>1, n \in Nat
        <5>3. \A j \in 2 .. n + 1 : \E k \in DOMAIN reloc'.rest : RestOf(k)' = RestOf(j)
          BY <1>17, <5>1, <5>2
        <5>4. \A k \in DOMAIN reloc'.rest : \E j \in 2 .. n + 1 : RestOf(k)' = RestOf(j)
          <6> SUFFICES ASSUME NEW k \in DOMAIN reloc'.rest
                       PROVE  \E j \in 2 .. n + 1 : RestOf(k)' = RestOf(j)
            OBVIOUS
          <6>1. k \in Nat /\ k >= 1 /\ k + 1 \in DOMAIN reloc.rest /\ RestOf(k)' = RestOf(k + 1)
            BY <1>17
          <6>2. k + 1 \in 1 .. n + 1
            BY <1>10, <6>1
          <6>3. k + 1 \in 2 .. n + 1
            BY <6>1, <6>2
          <6> QED
            BY <6>1, <6>3
        <5> QED
          BY ONLY <4>1, <5>3, <5>4
      <4> QED
        BY <2>4, <3>1, <4>1, <4>2, <4>3
    <3> QED
      BY <3>2, <3>3
  <2> QED
    BY <2>2, <2>3, <2>4
<1>24. ASSUME NEW c \in Taken' PROVE Misled(c)' \/ Cardinality(Load(c)') <= New.g + 1
  <2>1. c \in Taken \/ (c = des /\ c \notin reloc'.free)
    BY <1>8, <1>24 DEF Taken, Clusters
  <2>2. CASE c = des
    <3>1. CASE Misled(des)'
      BY <2>2, <3>1
    <3>2. CASE ~Misled(des)'
      <4>1. Load(des) = {}
        BY <1>13, <1>14, <3>2
      <4>2. Load(des)' = RestOf(1)
        BY <1>12, <4>1
      <4>3. Cardinality(RestOf(1)) <= New.g + 1
        BY <1>9, <1>10
      <4> QED
        BY <2>2, <4>2, <4>3
    <3> QED
      BY <3>1, <3>2
  <2>3. CASE c # des
    <3>1. c \in Taken /\ c # cr
      BY <1>4, <2>1, <2>3
    <3>2. Load(c)' = Load(c)
      BY <1>12, <2>3, <3>1
    <3> QED
      BY <1>9, <1>13, <3>1, <3>2
  <2> QED
    BY <2>2, <2>3
<1>25. LrcReliefInv'
  <2>1. \A i \in DOMAIN reloc'.order :
         (LET c == reloc.order[i] IN
         \/ Misled(c)
         \/ /\ i < reloc.at => Bearable(Load(c))
            /\ Waits(i) => Load(c) = ToSet(reloc.blocks[c])
            /\ i >= reloc.at => reloc.counts[c] = Cardinality(Load(c))
            /\ i = reloc.at /\ reloc.rest # <<>> =>
                 Load(c) = UNION {RestOf(j) : j \in DOMAIN reloc.rest})'
    BY <1>8, <1>22, <1>23
  <2>2. \A i, j \in DOMAIN reloc'.rest : i # j => (GidsOf(RestOf(i)) \cap GidsOf(RestOf(j)) = {})'
    BY <1>16, <1>19
  <2>3. \A c \in DOMAIN reloc'.blocks : \A y \in GidsOf(Slots)' :
         Cardinality({b \in ToSet(reloc'.blocks[c]) : bid2gid(New', b) = y}) <= New'.g + 1
    BY <1>8, <1>9, <1>16
  <2> QED
    BY <1>16, <1>18, <1>24, <2>1, <2>2, <2>3 DEF LrcReliefInv
<1> QED
  BY <1>15, <1>25

----------------------------------------------------------------------------
(* How placement spreads an Azure LRC.                                    *)

\* The partition that placement takes a block from.
PartOf(b) == CHOOSE i \in DOMAIN PartitionTable[setup.code] :
               b \in ToSet(PartitionTable[setup.code][i])

\* A block is in the cluster that its partition got.
LEMMA SeatOf ==
  ASSUME setup \in Setups, NEW cl \in [1 .. PartitionNum -> Clusters],
         NEW first \in setup.first, NEW b \in StripeBlocks
  PROVE  /\ PartOf(b) \in 1 .. PartitionNum /\ b \in ToSet(Partitions(setup.code)[PartOf(b)])
         /\ ClusterOf(NodeAt(cl, first, b)) = cl[PartOf(b)]
<1> DEFINE parts == PartitionTable[setup.code]
           i == PartOf(b)
           j == CHOOSE j \in DOMAIN parts[i] : parts[i][j] = b
<1>1. parts = Partitions(setup.code)
  BY DEF PartitionTable
<1>2. /\ parts \in Seq(Seq(StripeBlocks))
      /\ \E n \in DOMAIN parts : b \in ToSet(parts[n])
  BY <1>1, LayoutsCover DEF StripeBlocks
<1>3. DOMAIN parts = 1 .. PartitionNum
  BY <1>2, LenProperties DEF PartitionNum
<1>12. NodeAt(cl, first, b) = cl[i] * NodesPerCluster + ((first + j - 1) % NodesPerCluster)
  BY DEF NodeAt, parts, i, j, PartOf
<1>13. i = CHOOSE n \in DOMAIN parts : b \in ToSet(parts[n])
  BY DEF PartOf
<1> HIDE DEF parts
<1>4. i \in DOMAIN parts /\ b \in ToSet(parts[i])
  BY <1>2, <1>13
<1>5. parts[i] \in Seq(StripeBlocks)
  BY <1>2, <1>3, <1>4, LenProperties
<1>6. \E n \in DOMAIN parts[i] : parts[i][n] = b
  BY <1>4 DEF ToSet
<1> HIDE DEF i
<1>7. j \in DOMAIN parts[i]
  BY <1>6
<1>8. j \in Nat /\ j >= 1
  BY <1>5, <1>7, LenProperties
<1>9. cl[i] \in Clusters
  BY <1>3, <1>4
<1>10. first \in Nat
  BY SetupsAssumption
<1> HIDE DEF j
<1>11. (first + j - 1) % NodesPerCluster \in 0 .. NodesPerCluster - 1
  <2>1. first + j - 1 \in Nat
    BY <1>8, <1>10
  <2> QED
    BY <2>1, Nodes, DivMod
<1>14. ClusterOf(NodeAt(cl, first, b)) = cl[i]
  <2>1. PICK e \in 0 .. NodesPerCluster - 1 : e = (first + j - 1) % NodesPerCluster
    BY <1>11
  <2>2. PICK q \in Nat : q = cl[i]
    BY <1>9, Nodes DEF Clusters
  <2>3. (q * NodesPerCluster + e) \div NodesPerCluster = q
    BY Nodes, DivUnique
  <2> QED
    BY <1>12, <2>1, <2>2, <2>3 DEF ClusterOf
<1> QED
  BY <1>1, <1>3, <1>4, <1>14 DEF i

\* The blocks of the next stripe that are in a cluster and in the group of b.
Landing(cl, first, c, b) ==
  {a \in StripeBlocks : /\ ClusterOf(NodeAt(cl, first, a)) = c
                        /\ bid2gid(setup.code, a) = bid2gid(setup.code, b)}

\* With a cluster for each partition no cluster gets too much of a group.
LEMMA LandsSpread ==
  ASSUME setup \in Setups, setup.code \in LrCodes,
         NEW cl \in [1 .. PartitionNum -> Clusters], IsInjective(cl),
         NEW first \in setup.first, NEW c, NEW b \in StripeBlocks
  PROVE  Cardinality(Landing(cl, first, c, b)) <= setup.code.g + 1
<1>1. PICK S : S = Landing(cl, first, c, b)
  OBVIOUS
<1>2. setup.code.g \in Nat
  BY DEF LrCodes
<1>3. CASE S = {}
  BY <1>1, <1>2, <1>3, FS_EmptySet
<1>4. CASE S # {}
  <2>1. PICK s \in S : TRUE
    BY <1>4
  <2>2. PICK i : i = PartOf(s)
    OBVIOUS
  <2>3. s \in StripeBlocks /\ ClusterOf(NodeAt(cl, first, s)) = c
    BY <1>1 DEF Landing
  <2>4. i \in 1 .. PartitionNum /\ cl[i] = c
    BY <2>2, <2>3, SeatOf
  <2>5. PICK T : T = {a \in ToSet(Partitions(setup.code)[i]) :
                        bid2gid(setup.code, a) = bid2gid(setup.code, b)}
    OBVIOUS
  <2>6. ASSUME NEW a \in S PROVE a \in T
    <3>1. a \in StripeBlocks /\ ClusterOf(NodeAt(cl, first, a)) = c
          /\ bid2gid(setup.code, a) = bid2gid(setup.code, b)
      BY <1>1 DEF Landing
    <3>2. PartOf(a) \in 1 .. PartitionNum /\ a \in ToSet(Partitions(setup.code)[PartOf(a)])
          /\ cl[PartOf(a)] = c
      BY <3>1, SeatOf
    <3>3. PartOf(a) = i
      BY <2>4, <3>2 DEF IsInjective
    <3> QED
      BY <2>5, <3>1, <3>2, <3>3
  <2>7. i \in DOMAIN Partitions(setup.code) /\ Partitions(setup.code)[i] \in Seq(StripeBlocks)
    <3>1. PartitionTable[setup.code] = Partitions(setup.code)
      BY DEF PartitionTable
    <3>2. Partitions(setup.code) \in Seq(Seq(StripeBlocks))
      BY LayoutsCover DEF StripeBlocks
    <3> QED
      BY <2>4, <3>1, <3>2, LenProperties DEF PartitionNum
  <2>8. Cardinality(T) <= setup.code.g + 1
    BY <2>5, <2>7, PartitionsOfGroups DEF StripeBlocks
  <2>9. IsFiniteSet(T) /\ S \subseteq T
    <3>1. IsFiniteSet(StripeBlocks)
      BY SetupType, SizeType, Intervals DEF StripeBlocks, BlocksOf
    <3>2. T \subseteq StripeBlocks
      BY <2>5, <2>7 DEF ToSet
    <3> QED
      BY <2>6, <3>1, <3>2, FS_Subset
  <2> QED
    BY <1>1, <1>2, <2>8, <2>9, FS_Subset, FS_CardinalityType
<1> QED
  BY <1>3, <1>4

\* Some clusters get two partitions only after every one got one.
LEMMA LandsEverywhere ==
  ASSUME setup \in Setups, setup.code \in LrCodes, PartitionNum > NumClusters,
         NEW l \in Clusters, NEW cl \in [1 .. PartitionNum -> Clusters],
         \A i \in 1 .. PartitionNum : cl[i] = (l + i - 1) % NumClusters,
         NEW first \in setup.first, NEW c \in Clusters
  PROVE  \E b \in StripeBlocks : ClusterOf(NodeAt(cl, first, b)) = c
<1>1. PICK parts : parts = Partitions(setup.code)
  OBVIOUS
<1>2. /\ parts \in Seq(Seq(StripeBlocks)) /\ PartitionNum = Len(parts)
      /\ \A i, j \in DOMAIN parts : i # j => ToSet(parts[i]) \cap ToSet(parts[j]) = {}
      /\ \A i \in DOMAIN parts : i < Len(parts) => parts[i] # <<>>
  <2>1. parts \in Seq(Seq(StripeBlocks)) /\ PartitionNum = Len(parts)
    BY <1>1, LayoutsCover DEF StripeBlocks, PartitionNum, PartitionTable
  <2> QED
    BY <1>1, <2>1, PartitionsOfGroups
<1>3. PICK n \in Nat : n = PartitionNum /\ DOMAIN parts = 1 .. n
  BY <1>2, LenProperties
<1>4. NumClusters \in Nat /\ NumClusters > 0 /\ l \in 0 .. NumClusters - 1 /\ c \in 0 .. NumClusters - 1
  BY Nodes DEF Clusters
<1>5. PICK i \in 1 .. NumClusters : (l + i - 1) % NumClusters = c
  <2>1. CASE c >= l
    <3>1. c - l + 1 \in 1 .. NumClusters /\ l + (c - l + 1) - 1 = c
      BY <1>4, <2>1
    <3>2. c % NumClusters = c
      BY <1>4, ModOnce
    <3> QED
      BY <3>1, <3>2
  <2>2. CASE c < l
    <3>1. /\ c - l + 1 + NumClusters \in 1 .. NumClusters
          /\ l + (c - l + 1 + NumClusters) - 1 = c + NumClusters
          /\ c + NumClusters \in Nat /\ c + NumClusters >= NumClusters
          /\ c + NumClusters < NumClusters + NumClusters /\ c + NumClusters - NumClusters = c
      BY <1>4, <2>2
    <3>2. (c + NumClusters) % NumClusters = c
      BY <1>4, <3>1, ModOnce
    <3> QED
      BY <3>1, <3>2
  <2> QED
    BY <1>4, <2>1, <2>2
<1>6. i \in 1 .. n /\ i < Len(parts) /\ cl[i] = c
  BY <1>2, <1>3, <1>4, <1>5
<1>7. PICK b \in StripeBlocks : b \in ToSet(parts[i])
  <2>1. parts[i] \in Seq(StripeBlocks) /\ parts[i] # <<>>
    BY <1>2, <1>3, <1>6, ElementOfSeq
  <2>2. 1 \in DOMAIN parts[i] /\ parts[i][1] \in StripeBlocks
    BY <2>1, EmptySeq, LenProperties, ElementOfSeq
  <2> QED
    BY <2>2 DEF ToSet
<1>8. PartOf(b) \in 1 .. n /\ b \in ToSet(parts[PartOf(b)])
      /\ ClusterOf(NodeAt(cl, first, b)) = cl[PartOf(b)]
  BY <1>1, <1>3, SeatOf
<1>9. PartOf(b) = i
  BY <1>2, <1>3, <1>6, <1>7, <1>8
<1> QED
  BY <1>6, <1>8, <1>9

\* Consecutive numbers, as many as clusters at most, are different clusters.
LEMMA InOrderDiffer ==
  ASSUME NEW l \in Clusters, NEW n \in Nat, n <= NumClusters,
         NEW i \in 1 .. n, NEW j \in 1 .. n,
         (l + i - 1) % NumClusters = (l + j - 1) % NumClusters
  PROVE  i = j
<1>1. NumClusters \in Nat /\ NumClusters > 0 /\ l \in 0 .. NumClusters - 1
  BY Nodes DEF Clusters
<1>2. PICK a \in Nat, b \in Nat : a = l + i - 1 /\ b = l + j - 1
  BY <1>1
<1>3. a < NumClusters + NumClusters /\ b < NumClusters + NumClusters
  BY <1>1, <1>2
<1>4. a % NumClusters = IF a < NumClusters THEN a ELSE a - NumClusters
  BY <1>1, <1>3, ModOnce
<1>5. b % NumClusters = IF b < NumClusters THEN b ELSE b - NumClusters
  BY <1>1, <1>3, ModOnce
<1> QED
  BY ONLY <1>1, <1>2, <1>4, <1>5, n \in Nat, n <= NumClusters, i \in 1 .. n, j \in 1 .. n,
     (l + i - 1) % NumClusters = (l + j - 1) % NumClusters

\* The clusters that placement gives to the partitions.
LEMMA PlaceLands ==
  ASSUME TypeInv, Place,
         setup.rule = "HORIZONTAL" /\ group # <<>> => lucky \notin apart
  PROVE  /\ step = "place"
         /\ setup.rule = "HORIZONTAL" => lucky' \notin apart'
         /\ \E cl \in [1 .. PartitionNum -> Clusters] :
              /\ Put(cl)
              /\ ~Crammed(setup) => IsInjective(cl)
              /\ Crammed(setup) => \E l \in Clusters :
                   \A i \in 1 .. PartitionNum : cl[i] = (l + i - 1) % NumClusters
<1> USE DEF TypeInv
<1>1. setup \in Setups /\ lucky \in Clusters /\ apart \subseteq Clusters
  OBVIOUS
<1>0. /\ PartitionNum \in Nat /\ PartitionNum >= 1
      /\ Crammed(setup) <=> setup.rule \in {"AGGREGATED", "VERTICAL"} /\ PartitionNum > NumClusters
  <2>1. PartitionTable[setup.code] = Partitions(setup.code)
    BY DEF PartitionTable
  <2>2. /\ PartitionTable[setup.code] \in Seq(Seq(StripeBlocks)) /\ 0 \in StripeBlocks
        /\ \A b \in StripeBlocks : \E n \in DOMAIN PartitionTable[setup.code] :
             b \in ToSet(PartitionTable[setup.code][n])
    BY <2>1, LayoutsCover, SetupType, SizePos DEF StripeBlocks
  <2>3. DOMAIN PartitionTable[setup.code] = 1 .. PartitionNum /\ PartitionNum \in Nat
    BY <2>2, LenProperties DEF PartitionNum
  <2>4. Crammed(setup) <=> setup.rule \in {"AGGREGATED", "VERTICAL"} /\ PartitionNum > NumClusters
    BY <2>1 DEF Crammed, PartitionNum
  <2> QED
    BY <2>2, <2>3, <2>4
<1>2. CASE PlaceRandom
  <2>1. PICK cl \in Distinct(PartitionNum, Clusters) : Put(cl)
    BY <1>2 DEF PlaceRandom
  <2>2. cl \in [1 .. PartitionNum -> Clusters] /\ IsInjective(cl)
    BY <2>1 DEF Distinct
  <2>3. setup.rule = "RAND" /\ step = "place" /\ ~Crammed(setup)
    BY <1>2 DEF PlaceRandom, Placing, Crammed
  <2> QED
    BY <2>1, <2>2, <2>3
<1>3. CASE PlaceDispersed
  <2> DEFINE left == IF NewGroup THEN Clusters ELSE apart
  <2>1. left \subseteq Clusters
    BY <1>1
  <2>2. PICK cl \in Distinct(PartitionNum, left) : Put(cl) /\ apart' = left \ ToSet(cl)
    BY <1>3 DEF PlaceDispersed
  <2>3. cl \in [1 .. PartitionNum -> Clusters] /\ IsInjective(cl)
    BY <2>1, <2>2 DEF Distinct
  <2>4. setup.rule = "DISPERSED" /\ step = "place" /\ ~Crammed(setup)
    BY <1>3 DEF PlaceDispersed, Placing, Crammed
  <2> QED
    BY <2>2, <2>3, <2>4
<1>4. CASE PlaceInOrder
  <2>1. PICK l \in Clusters :
          lucky' = l /\ Put([i \in 1 .. PartitionNum |-> (l + i - 1) % NumClusters])
    BY <1>1, <1>4 DEF PlaceInOrder
  <2>2. ASSUME NEW i \in 1 .. PartitionNum PROVE (l + i - 1) % NumClusters \in Clusters
    <3>1. l + i - 1 \in Nat /\ i \in Int
      BY Nodes DEF Clusters
    <3> QED
      BY <3>1, Nodes DEF Clusters
  <2>3. PICK cl : cl = [i \in 1 .. PartitionNum |-> (l + i - 1) % NumClusters]
    OBVIOUS
  <2>4. cl \in [1 .. PartitionNum -> Clusters] /\ Put(cl)
        /\ \A i \in 1 .. PartitionNum : cl[i] = (l + i - 1) % NumClusters
    BY <2>1, <2>2, <2>3
  <2>5. ASSUME ~Crammed(setup) PROVE IsInjective(cl)
    <3>1. PartitionNum <= NumClusters
      BY <1>0, <1>4, <2>5, Nodes DEF PlaceInOrder
    <3>2. \A i, j \in 1 .. PartitionNum : cl[i] = cl[j] => i = j
      BY <1>0, <2>4, <3>1, InOrderDiffer
    <3> QED
      BY <2>4, <3>2 DEF IsInjective
  <2>6. setup.rule # "HORIZONTAL" /\ step = "place"
    BY <1>4 DEF PlaceInOrder, Placing
  <2> QED
    BY <2>4, <2>5, <2>6
<1>5. CASE PlaceHorizontal
  <2>0. setup.rule = "HORIZONTAL" /\ step = "place" /\ ~Crammed(setup)
    BY <1>5 DEF PlaceHorizontal, Placing, Crammed
  <2>1. PICK l \in (IF NewGroup THEN Clusters ELSE {lucky}) : LET left == IF NewGroup THEN Clusters \ {l} ELSE apart
          IN \E cl \in Distinct(PartitionNum - 1, left) :
               Put(Append(cl, l)) /\ lucky' = l /\ apart' = left \ ToSet(cl)
    BY <1>5 DEF PlaceHorizontal
  <2> DEFINE left == IF NewGroup THEN Clusters \ {l} ELSE apart
  <2>2. left \subseteq Clusters /\ l \in Clusters /\ l \notin left
    BY <1>1, <2>0 DEF NewGroup
  <2>3. PICK cl \in Distinct(PartitionNum - 1, left) :
          Put(Append(cl, l)) /\ lucky' = l /\ apart' = left \ ToSet(cl)
    BY <2>1
  <2>5. /\ cl \in [1 .. PartitionNum - 1 -> Clusters] /\ PartitionNum - 1 \in Nat
        /\ IsInjective(cl) /\ \A i \in 1 .. PartitionNum - 1 : cl[i] # l
    BY <1>0, <2>2, <2>3 DEF Distinct
  <2>6. cl \in Seq(Clusters) /\ Len(cl) = PartitionNum - 1
    <3>1. cl \in Seq(Clusters)
      BY <2>5, SeqDef
    <3> QED
      BY <1>0, <2>5, <3>1, LenProperties
  <2>7. PICK all : all = Append(cl, l)
    OBVIOUS
  <2>8. /\ all \in Seq(Clusters) /\ Len(all) = PartitionNum
        /\ \A i \in 1 .. PartitionNum - 1 : all[i] = cl[i]
        /\ all[PartitionNum] = l
    <3>1. /\ all \in Seq(Clusters) /\ Len(all) = PartitionNum - 1 + 1
          /\ \A i \in 1 .. PartitionNum - 1 : all[i] = cl[i]
          /\ all[PartitionNum - 1 + 1] = l
      BY <2>2, <2>6, <2>7, AppendProperties
    <3>2. PartitionNum - 1 + 1 = PartitionNum
      BY <1>0
    <3> QED
      BY <3>1, <3>2
  <2>9. all \in [1 .. PartitionNum -> Clusters]
    BY <2>8, LenProperties
  <2>10. IsInjective(all)
    <3> SUFFICES ASSUME NEW i \in 1 .. PartitionNum, NEW j \in 1 .. PartitionNum, all[i] = all[j]
                 PROVE  i = j
      BY <2>9 DEF IsInjective
    <3>1. \A k \in 1 .. PartitionNum : k \in 1 .. PartitionNum - 1 \/ k = PartitionNum
      BY <1>0
    <3>2. \A k, m \in 1 .. PartitionNum - 1 : cl[k] = cl[m] => k = m
      BY <2>5 DEF IsInjective
    <3> QED
      BY <2>5, <2>8, <3>1, <3>2
  <2>11. lucky' \notin apart'
    BY <2>2, <2>3
  <2> QED
    BY <2>0, <2>3, <2>7, <2>9, <2>10, <2>11
<1> QED
  BY <1>2, <1>3, <1>4, <1>5 DEF Place

\* Placement spreads the blocks of Azure LRC.
LEMMA PlaceSpread ==
  ASSUME TypeInv, PlacedInv, SpreadInv, Place
  PROVE  SpreadInv'
<1>1. /\ step = "place" /\ step' = "place" /\ setup' = setup /\ setup \in Setups
      /\ lucky \in Clusters
  BY PlaceEffect, PutEffect DEF TypeInv
<1> SUFFICES ASSUME setup.code \in LrCodes PROVE SpreadInv'
  BY <1>1 DEF SpreadInv
<1>2. /\ ~Crammed(setup) => \A s \in Placed : \A c \in Clusters : \A b \in StripeBlocks :
           Cardinality(Fellows(s, c, b)) <= setup.code.g + 1
      /\ setup.rule = "HORIZONTAL" /\ group # <<>> => lucky \notin apart
      /\ Crammed(setup) => \A s \in Placed : \A c \in Clusters : \E b \in StripeBlocks :
           ClusterOf(stripes[s].nodes[b]) = c
  BY <1>1 DEF SpreadInv
<1>3. PICK cl \in [1 .. PartitionNum -> Clusters] :
        /\ Put(cl)
        /\ ~Crammed(setup) => IsInjective(cl)
        /\ Crammed(setup) => \E l \in Clusters :
             \A i \in 1 .. PartitionNum : cl[i] = (l + i - 1) % NumClusters
  BY <1>2, PlaceLands
<1>4. setup.rule = "HORIZONTAL" => lucky' \notin apart'
  BY <1>2, PlaceLands
<1>5. PICK first \in setup.first :
        LET ids   == [b \in StripeBlocks |-> newBlock + b]
            nodes == [b \in StripeBlocks |-> NodeAt(cl, first, b)]
        IN /\ stripes' = [i \in DOMAIN stripes \cup {newStripe} |->
                IF i = newStripe THEN [ids |-> ids, nodes |-> nodes] ELSE stripes[i]]
           /\ group' = Append(group, newStripe)
  BY <1>3, Zenon DEF Put, StripeBlocks
<1>6. PICK f : f = [b \in StripeBlocks |-> NodeAt(cl, first, b)]
  OBVIOUS
<1>7. PICK rec : rec = [ids |-> [b \in StripeBlocks |-> newBlock + b], nodes |-> f]
  OBVIOUS
<1>8. PICK n \in Nat : n = Len(group)
  BY <1>1, LenProperties DEF PlacedInv, Working
<1>9. newStripe = n /\ DOMAIN stripes = Placed /\ Placed = 0 .. n - 1 /\ group \in Seq(Nat)
  BY <1>1, <1>8 DEF PlacedInv, Working, Placed
<1>10. Placed' = 0 .. n
  <2>1. Len(group') = n + 1
    BY <1>5, <1>8, <1>9, AppendProperties
  <2> QED
    BY <1>8, <2>1 DEF Placed
<1>11. /\ \A s \in Placed : stripes'[s] = stripes[s]
       /\ stripes'[n].nodes = f
       /\ Placed' = Placed \cup {n}
  <2>1. stripes' = [i \in DOMAIN stripes \cup {newStripe} |->
                      IF i = newStripe THEN rec ELSE stripes[i]]
    BY <1>5, <1>6, <1>7
  <2>2. stripes'[n] = rec
    BY <1>9, <2>1
  <2>3. \A s \in Placed : stripes'[s] = stripes[s]
    BY <1>8, <1>9, <2>1
  <2>4. rec.nodes = f
    BY <1>7
  <2>5. 0 .. n = (0 .. n - 1) \cup {n}
    BY <1>8
  <2> QED
    BY <1>9, <1>10, <2>2, <2>3, <2>4, <2>5
<1>12. StripeBlocks' = StripeBlocks /\ Clusters' = Clusters /\ (Crammed(setup)' <=> Crammed(setup))
  BY <1>1 DEF StripeBlocks, Clusters
<1>13. ASSUME ~Crammed(setup), NEW s \in Placed', NEW c \in Clusters, NEW b \in StripeBlocks
       PROVE  Cardinality({a \in StripeBlocks : /\ ClusterOf(stripes'[s].nodes[a]) = c
                                                /\ bid2gid(setup.code, a) = bid2gid(setup.code, b)})
                <= setup.code.g + 1
  <2>1. CASE s \in Placed
    BY <1>2, <1>11, <1>13, <2>1 DEF Fellows
  <2>2. CASE s = n
    <3>1. \A a \in StripeBlocks : stripes'[s].nodes[a] = NodeAt(cl, first, a)
      BY <1>6, <1>11, <2>2
    <3>2. {a \in StripeBlocks : /\ ClusterOf(stripes'[s].nodes[a]) = c
                                /\ bid2gid(setup.code, a) = bid2gid(setup.code, b)}
            = Landing(cl, first, c, b)
      BY <3>1 DEF Landing
    <3> QED
      BY <1>1, <1>3, <1>13, <3>2, LandsSpread
  <2> QED
    BY <1>11, <1>13, <2>1, <2>2
<1>14. ASSUME Crammed(setup), NEW s \in Placed', NEW c \in Clusters
       PROVE  \E b \in StripeBlocks : ClusterOf(stripes'[s].nodes[b]) = c
  <2>1. CASE s \in Placed
    BY <1>2, <1>11, <1>14, <2>1
  <2>2. CASE s = n
    <3>1. \A a \in StripeBlocks : stripes'[s].nodes[a] = NodeAt(cl, first, a)
      BY <1>6, <1>11, <2>2
    <3>2. PICK l \in Clusters : \A i \in 1 .. PartitionNum : cl[i] = (l + i - 1) % NumClusters
      BY <1>3, <1>14
    <3>3. PartitionNum > NumClusters
      <4>1. PartitionTable[setup.code] = Partitions(setup.code)
        BY <1>1 DEF PartitionTable
      <4> QED
        BY <1>14, <4>1 DEF Crammed, PartitionNum
    <3>4. \E b \in StripeBlocks : ClusterOf(NodeAt(cl, first, b)) = c
      BY ONLY <1>1, setup.code \in LrCodes, <3>2, <3>3, LandsEverywhere,
         cl \in [1 .. PartitionNum -> Clusters], l \in Clusters, first \in setup.first, c \in Clusters
    <3> QED
      BY <3>1, <3>4
  <2> QED
    BY <1>11, <1>14, <2>1, <2>2
<1>15. (setup.rule = "HORIZONTAL" => lucky \notin apart)'
  BY <1>1, <1>4
<1>16. (step # "count")'
  BY <1>1
<1>17. (~Crammed(setup) => \A s \in Placed : \A c \in Clusters : \A b \in StripeBlocks :
           Cardinality(Fellows(s, c, b)) <= setup.code.g + 1)'
  <2> SUFFICES ASSUME ~Crammed(setup), NEW s \in Placed', NEW c \in Clusters, NEW b \in StripeBlocks
               PROVE  Cardinality(Fellows(s, c, b)') <= setup.code.g + 1
    BY <1>1, <1>12
  <2>1. Fellows(s, c, b)' = {a \in StripeBlocks : /\ ClusterOf(stripes'[s].nodes[a]) = c
                                /\ bid2gid(setup.code, a) = bid2gid(setup.code, b)}
    BY <1>1, <1>12 DEF Fellows, ClusterOf
  <2> QED
    BY <1>13, <2>1
<1>18. (Crammed(setup) => \A s \in Placed : \A c \in Clusters : \E b \in StripeBlocks :
          ClusterOf(stripes[s].nodes[b]) = c)'
  BY <1>1, <1>12, <1>14 DEF ClusterOf
<1> QED
  BY <1>15, <1>16, <1>17, <1>18 DEF SpreadInv

----------------------------------------------------------------------------
(* How merging keeps it spread.                                           *)

\* A kept block of an even Azure LRC comes into the group of its stripe's group.
LEMMA GidKept ==
  ASSUME NEW su \in Setups, su.code \in LrCodes, Mergeable(su),
         NEW s \in 0 .. su.x - 1, NEW b \in Kept(su)
  PROVE  /\ bid2gid(su.code, b) \in 0 .. su.code.l - 1
         /\ bid2gid(MergedCode(su), Slot(su, s, b)) = s * su.code.l + bid2gid(su.code, b)
<1> DEFINE c == su.code
           new == MergedCode(su)
<1>1. /\ c.k \in Nat /\ c.k > 0 /\ c.g \in Nat /\ c.l \in Nat /\ c.l \in Pos /\ c.type = "AZURE_LRC"
      /\ new.k = su.x * c.k /\ new.l = su.x * c.l /\ new.g = c.g /\ new.type = "AZURE_LRC"
      /\ su.x \in Nat /\ su.x * c.k \in Nat /\ su.x * c.l \in Nat
      /\ Kept(su) = (0 .. c.k - 1) \cup Locals(c)
  BY FlatCode DEF LrCodes
<1>2. su.x > 0 /\ c.k % c.l = 0
  BY <1>1, SetupType DEF Mergeable, PcTypes
<1>3. r(c) = DividedUp(c.k, c.l) /\ r(new) = DividedUp(new.k, new.l)
  BY <1>1 DEF r
<1>4. PICK R \in Nat : R = r(c) /\ R = r(new) /\ R * c.l = c.k
  <2>1. /\ DividedUp(su.x * c.k, su.x * c.l) = DividedUp(c.k, c.l)
        /\ DividedUp(c.k, c.l) \in Nat /\ DividedUp(c.k, c.l) * c.l = c.k
    BY ONLY <1>1, <1>2, SameRun
  <2> QED
    BY ONLY <1>1, <1>3, <2>1
<1>5. R \in Nat \ {0} /\ R \in Pos
  <2>1. R # 0
    BY <1>1, <1>4
  <2> QED
    BY <2>1 DEF Pos
<1>6. bid2gid(c, b) = AzuBid2gid(c, b) /\ bid2gid(new, Slot(su, s, b)) = AzuBid2gid(new, Slot(su, s, b))
  BY <1>1 DEF bid2gid
<1>7. CASE b \in 0 .. c.k - 1
  <2>1. b \in Data(c) /\ bid2gid(c, b) = b \div R
    <3>1. b \in Data(c) /\ b \notin Globals(c)
      BY <1>1, <1>7 DEF Data, Globals
    <3>2. AzuBid2gid(c, b) = b \div r(c)
      BY ONLY <3>1 DEF AzuBid2gid
    <3> QED
      BY ONLY <1>4, <1>6, <3>1, <3>2, Zenon
  <2>2. Slot(su, s, b) = s * c.k + b /\ Slot(su, s, b) \in Nat /\ Slot(su, s, b) < su.x * c.k
    BY <1>7, DataSlot
  <2>3. Slot(su, s, b) \in Data(new) /\ Slot(su, s, b) \notin Globals(new)
    BY <1>1, <2>2 DEF Data, Globals
  <2>4. bid2gid(new, Slot(su, s, b)) = (s * c.k + b) \div R
    <3>1. AzuBid2gid(new, Slot(su, s, b)) = Slot(su, s, b) \div r(new)
      BY ONLY <2>3 DEF AzuBid2gid
    <3> QED
      BY ONLY <1>4, <1>6, <2>2, <3>1, Zenon
  <2>5. PICK y \in Nat, e \in 0 .. R - 1 : y = b \div R /\ b = y * R + e
    <3>1. b \in Nat
      BY <1>7
    <3> QED
      BY <1>5, <3>1, DivMod
  <2>6. y < c.l
    <3>1. b \in Nat /\ b < c.l * R
      BY <1>1, <1>4, <1>7, ProdNat
    <3> QED
      BY <1>1, <1>5, <2>5, <3>1, DivLess
  <2>7. s \in Nat
    BY <1>1
  <2>8. PICK q \in Nat : q = s * c.l
    BY <1>1, <2>7, ProdNat
  <2>9. s * c.k + b = (q + y) * R + e
    <3>1. s * c.k = q * R
      BY ONLY <1>1, <1>4, <2>7, <2>8, s * c.k = s * (R * c.l), s * (R * c.l) = (s * c.l) * R, R \in Nat
    <3>2. PICK A \in Nat, B \in Nat : A = q * R /\ B = y * R
      BY ProdNat
    <3>3. (q + y) * R = A + B
      BY <3>2
    <3> QED
      BY <2>5, <3>1, <3>2, <3>3
  <2>10. ((q + y) * R + e) \div R = q + y
    <3>1. PICK Q \in Nat : Q = q + y
      OBVIOUS
    <3>2. (Q * R + e) \div R = Q
      BY <1>5, DivUnique
    <3> QED
      BY <3>1, <3>2
  <2> QED
    BY <1>1, <2>1, <2>4, <2>5, <2>6, <2>8, <2>9, <2>10
<1>8. CASE b \in Locals(c)
  <2>1. PICK j \in 0 .. c.l - 1 : b = c.k + c.g + j
    BY <1>8, LocalNumber
  <2>2. /\ Slot(su, s, b) = su.x * c.k + c.g + (s * c.l + j) /\ s * c.l + j \in Nat
    BY <2>1, LocalSlot
  <2>3. ASSUME NEW d, d.k \in Nat, d.g \in Nat, NEW i \in Nat, NEW u, u = d.k + d.g + i
        PROVE  AzuBid2gid(d, u) = i
    <3>1. u \notin Data(d) /\ u \notin Globals(d) /\ u - d.k - d.g = i
      BY <2>3 DEF Data, Globals
    <3> QED
      BY <3>1 DEF AzuBid2gid
  <2>4. AzuBid2gid(c, b) = j
    BY <1>1, <2>1, <2>3
  <2>5. PICK i \in Nat : i = s * c.l + j
    BY <2>2
  <2>6. AzuBid2gid(new, Slot(su, s, b)) = i
    BY <1>1, <2>2, <2>3, <2>5
  <2> QED
    BY <1>6, <2>1, <2>4, <2>5, <2>6
<1> QED
  BY <1>1, <1>7, <1>8

\* The new global parity blocks are in a group of their own.
LEMMA GidNew ==
  ASSUME NEW su \in Setups, su.code \in LrCodes, NEW slot \in ParitySlots(su)
  PROVE  /\ bid2gid(MergedCode(su), slot) = su.x * su.code.l
         /\ slot \in su.x * su.code.k .. su.x * su.code.k + su.code.g - 1
<1> DEFINE c == su.code
           new == MergedCode(su)
<1>1. /\ c.k \in Nat /\ c.g \in Nat /\ c.l \in Nat /\ c.type = "AZURE_LRC"
      /\ new.k = su.x * c.k /\ new.l = su.x * c.l /\ new.g = c.g /\ new.type = "AZURE_LRC"
      /\ su.x \in Nat /\ su.x * c.k \in Nat /\ su.x * c.l \in Nat
  BY FlatCode DEF LrCodes
<1>2. PICK q \in NewParities(su) : slot = q.slot
  BY DEF ParitySlots
<1>3. PICK i \in 0 .. c.g - 1 : slot = su.x * c.k + i
  BY <1>1, <1>2, FlatParity
<1>4. PICK n \in Nat : n = su.x * c.k
  BY <1>1
<1>5. slot \in n .. n + c.g - 1 /\ slot \notin 0 .. n - 1
  BY <1>1, <1>3, <1>4
<1>6. slot \in Globals(new) /\ slot \notin Data(new)
  BY <1>1, <1>4, <1>5 DEF Globals, Data
<1>7. bid2gid(new, slot) = AzuBid2gid(new, slot)
  BY <1>1 DEF bid2gid
<1>8. bid2gid(new, slot) = new.l
  BY <1>6, <1>7 DEF AzuBid2gid
<1> QED
  BY <1>1, <1>4, <1>5, <1>8

\* The larger stripe of a mergeable setup has the nodes of old blocks.
LEMMA MergedNodes ==
  ASSUME TypeInv, PlacedInv, StartMerge, Mergeable(setup)
  PROVE  /\ step = "place" /\ step' = "count" /\ setup' = setup /\ setup \in Setups
         /\ DOMAIN larger'.nodes = Slots /\ Slots \subseteq Filled(setup)
         /\ \A slot \in Slots :
              /\ From(slot) \in OldBlocks(setup) /\ From(slot)[1] \in Placed
              /\ From(slot)[2] \in StripeBlocks
              /\ larger'.nodes[slot] = stripes[From(slot)[1]].nodes[From(slot)[2]]
<1>1. setup \in Setups /\ Slots = BlocksOf(MergedCode(setup))
  BY SetupBasics
<1>2. /\ step = "place" /\ Len(group) = setup.x /\ Fits(setup) /\ step' = "count" /\ setup' = setup
  BY <1>1, TableDomains DEF StartMerge, Merging, PastEnd, Fits, Slots, New
<1>3. Slots \subseteq Filled(setup)
  BY <1>1, Covered
<1>4. larger'.nodes = [slot \in Slots |->
        IF slot \in DOMAIN OriginTable[setup] THEN OldNode(OriginTable[setup][slot]) ELSE 0]
  BY DEF StartMerge, Slots
<1>5. DOMAIN OriginTable[setup] = Filled(setup)
      /\ \A slot \in Filled(setup) : OriginTable[setup][slot] = From(slot)
  BY <1>1, TableDomains DEF From
<1>6. ASSUME NEW slot \in Slots
      PROVE  /\ From(slot) \in OldBlocks(setup) /\ From(slot)[1] \in Placed
             /\ From(slot)[2] \in StripeBlocks
             /\ larger'.nodes[slot] = stripes[From(slot)[1]].nodes[From(slot)[2]]
  <2>1. From(slot) \in OldBlocks(setup)
    BY <1>1, <1>2, <1>3, Origins DEF From
  <2>2. /\ From(slot)[1] \in Placed /\ From(slot)[2] \in StripeBlocks
        /\ OldNode(From(slot)) = stripes[From(slot)[1]].nodes[From(slot)[2]]
    BY <1>2, <2>1, OldBlockFacts DEF Working
  <2>3. larger'.nodes[slot] = OldNode(From(slot))
    BY <1>3, <1>4, <1>5
  <2> QED
    BY <2>1, <2>2, <2>3
<1>7. DOMAIN larger'.nodes = Slots
  BY <1>4
<1> QED
  BY <1>1, <1>2, <1>3, <1>6, <1>7

\* Every block of the first stripe of an Azure LRC leaves its node to a slot.
LEMMA FirstStays ==
  ASSUME NEW su \in Setups, su.code \in LrCodes, Mergeable(su), NEW b \in BlocksOf(su.code)
  PROVE  \E slot \in BlocksOf(MergedCode(su)) : Origin(su, slot) = <<0, b>>
<1> DEFINE c == su.code
<1>1. /\ c.k \in Nat /\ c.g \in Nat /\ c.l \in Nat /\ c.type = "AZURE_LRC" /\ c.type \notin PcTypes
      /\ Kept(su) = BlocksOf(c) \ Globals(c)
  BY FlatCode DEF LrCodes, Kept
<1>2. Seated(su) /\ Numbered(su) /\ Fits(su)
  BY MergeableSlots
<1>3. 0 \in 0 .. su.x - 1
  BY SetupType
<1>4. CASE b \in Kept(su)
  <2>1. PICK slot : slot = Slot(su, 0, b)
    OBVIOUS
  <2>2. slot \in Filled(su)
    BY <1>3, <1>4, <2>1, KeptFills
  <2>3. <<0, b>> \in KeptBlocks(su) /\ SlotOf(su, <<0, b>>) = slot
    BY <1>3, <1>4, <2>1 DEF KeptBlocks, SlotOf
  <2>4. slot \in BlocksOf(MergedCode(su)) /\ slot \notin ParitySlots(su)
    BY <1>2, <2>3 DEF Numbered
  <2>5. Origin(su, slot) \in KeptBlocks(su) /\ SlotOf(su, Origin(su, slot)) = slot
    BY <1>2, <2>2, <2>4, Origins DEF KeptBlocks, SlotOf
  <2>6. Origin(su, slot) = <<0, b>>
    BY <1>2, <2>3, <2>5 DEF Numbered
  <2> QED
    BY <2>4, <2>6
<1>5. CASE b \in Globals(c)
  <2>1. PICK i \in 0 .. c.g - 1 : i = b - c.k
    BY <1>1, <1>5 DEF Globals
  <2>2. PICK q : q = RsParity(su, i)
    OBVIOUS
  <2>3. q \in NewParities(su)
    BY <1>1, <2>1, <2>2 DEF NewParities, RsParities
  <2>4. q.node = <<0, b>>
    <3>1. b = c.k + i
      BY <1>1, <1>5, <2>1 DEF Globals
    <3> QED
      BY <2>2, <3>1, ParityFields
  <2>5. \A p \in NewParities(su) : p.slot = q.slot => p = q
    BY <1>2, <2>3 DEF Seated
  <2>6. ParityAt(su, q.slot) = {q}
    BY <2>3, <2>5 DEF ParityAt
  <2>7. Origin(su, q.slot) = q.node
    BY <2>6 DEF Origin
  <2>8. q.slot \in BlocksOf(MergedCode(su))
    BY <1>2, <2>3 DEF Seated, ParitySlots
  <2> QED
    BY <2>4, <2>7, <2>8
<1> QED
  BY <1>1, <1>4, <1>5

\* The larger stripe has blocks where the first stripe had.
LEMMA MergeStaysFull ==
  ASSUME TypeInv, PlacedInv, SpreadInv, StartMerge, Mergeable(setup),
         setup.code \in LrCodes, Crammed(setup)
  PROVE  \A c \in Clusters : \E slot \in Slots : ClusterOf(larger'.nodes[slot]) = c
<1>1. /\ step = "place" /\ setup \in Setups /\ Slots = BlocksOf(MergedCode(setup))
      /\ \A slot \in Slots : larger'.nodes[slot] = stripes[From(slot)[1]].nodes[From(slot)[2]]
  BY MergedNodes, SetupBasics
<1>2. 0 \in Placed
  <2>1. Len(group) = setup.x /\ setup.x \in Nat /\ setup.x > 1
    BY <1>1, SetupType DEF StartMerge, Merging
  <2> QED
    BY <2>1 DEF Placed
<1> TAKE c \in Clusters
<1>3. PICK b \in StripeBlocks : ClusterOf(stripes[0].nodes[b]) = c
  BY <1>1, <1>2 DEF SpreadInv
<1>4. PICK slot \in Slots : From(slot) = <<0, b>>
  BY <1>1, FirstStays DEF From, StripeBlocks
<1>5. larger'.nodes[slot] = stripes[0].nodes[b]
  BY <1>1, <1>4
<1> QED
  BY <1>3, <1>5

\* In the larger stripe, too, no cluster has too much of a group: the new global
\* parity blocks are g, and every other group is one of one stripe's.
LEMMA MergeSpreads ==
  ASSUME TypeInv, PlacedInv, SpreadInv, StartMerge, Eased(setup), setup.code \in LrCodes,
         NEW c \in Clusters, NEW y
  PROVE  Cardinality({b \in Slots : ClusterOf(larger'.nodes[b]) = c /\ bid2gid(New, b) = y}) <= New.g + 1
<1>1. PICK S : S = {b \in Slots : ClusterOf(larger'.nodes[b]) = c /\ bid2gid(New, b) = y}
  OBVIOUS
<1>2. /\ step = "place" /\ setup \in Setups /\ Slots = BlocksOf(MergedCode(setup))
      /\ Slots \subseteq Filled(setup) /\ Mergeable(setup) /\ ~Crammed(setup)
      /\ \A slot \in Slots :
           /\ From(slot) \in OldBlocks(setup) /\ From(slot)[1] \in Placed
           /\ From(slot)[2] \in StripeBlocks
           /\ larger'.nodes[slot] = stripes[From(slot)[1]].nodes[From(slot)[2]]
  BY MergedNodes, SetupBasics DEF Eased
<1>3. \A s \in Placed : \A b \in StripeBlocks :
        Cardinality(Fellows(s, c, b)) <= setup.code.g + 1
  BY <1>2 DEF SpreadInv
<1>4. /\ setup.code.g \in Nat /\ setup.code.l \in Nat /\ setup.code.l \in Pos /\ setup.x \in Nat
      /\ setup.x * setup.code.k \in Nat /\ setup.x * setup.code.l \in Nat
      /\ New.g = setup.code.g /\ setup.code.type = "AZURE_LRC" /\ Fits(setup) /\ Seated(setup)
  BY <1>2, FlatCode, MergeableSlots DEF New, LrCodes
<1>5. IsFiniteSet(S)
  BY <1>1, SetupBasics, FS_Subset
<1> HIDE DEF New
<1>6. CASE S = {}
  <2>1. Cardinality(S) = 0
    BY ONLY <1>6, FS_EmptySet
  <2>2. 0 <= New.g + 1
    BY <1>4
  <2> QED
    BY ONLY <1>1, <2>1, <2>2
<1>7. ASSUME NEW b \in S, b \notin ParitySlots(setup)
      PROVE  /\ From(b)[1] \in 0 .. setup.x - 1 /\ From(b)[2] \in Kept(setup)
             /\ From(b) = <<From(b)[1], From(b)[2]>>
             /\ Slot(setup, From(b)[1], From(b)[2]) = b
             /\ bid2gid(setup.code, From(b)[2]) \in 0 .. setup.code.l - 1
             /\ y = From(b)[1] * setup.code.l + bid2gid(setup.code, From(b)[2])
  <2>1. b \in Filled(setup)
    BY <1>1, <1>2
  <2>2. /\ From(b) \in (0 .. setup.x - 1) \X Kept(setup)
        /\ Slot(setup, From(b)[1], From(b)[2]) = b
    BY <1>2, <1>4, <1>7, <2>1, Origins DEF From
  <2>3. PICK s \in 0 .. setup.x - 1, d \in Kept(setup) : s = From(b)[1] /\ d = From(b)[2]
    BY <2>2
  <2>4. /\ bid2gid(setup.code, d) \in 0 .. setup.code.l - 1
        /\ bid2gid(MergedCode(setup), Slot(setup, s, d)) = s * setup.code.l + bid2gid(setup.code, d)
    BY <1>2, GidKept
  <2>5. bid2gid(New, b) = y
    BY <1>1
  <2> QED
    BY <2>2, <2>3, <2>4, <2>5 DEF New
<1>8. ASSUME NEW b \in S, b \in ParitySlots(setup)
      PROVE  /\ y = setup.x * setup.code.l
             /\ b \in setup.x * setup.code.k .. setup.x * setup.code.k + setup.code.g - 1
  <2>1. bid2gid(New, b) = y
    BY <1>1
  <2> QED
    BY <1>2, <1>8, <2>1, GidNew DEF New
<1>9. ASSUME NEW b \in S, b \notin ParitySlots(setup) PROVE y # setup.x * setup.code.l
  <2>1. PICK s \in 0 .. setup.x - 1, e \in 0 .. setup.code.l - 1 : y = s * setup.code.l + e
    BY <1>7, <1>9
  <2>2. s * setup.code.l \in Nat /\ s * setup.code.l + setup.code.l <= setup.x * setup.code.l
    <3>1. s \in Nat /\ s < setup.x
      BY <1>4
    <3> QED
      BY <1>4, <3>1, ProdMono
  <2>3. PICK a \in Nat, h \in Nat : a = s * setup.code.l /\ h = setup.x * setup.code.l
    BY <1>4, <2>2
  <2>4. a + setup.code.l <= h /\ y = a + e
    BY <2>1, <2>2, <2>3
  <2> QED
    BY <1>4, <2>3, <2>4
<1>10. CASE \E b \in S : b \in ParitySlots(setup)
  <2>1. y = setup.x * setup.code.l
    BY <1>8, <1>10
  <2>2. \A b \in S : b \in ParitySlots(setup)
    BY <1>9, <2>1
  <2>3. PICK n \in Nat : n = setup.x * setup.code.k
    BY <1>4
  <2>4. S \subseteq n .. n + setup.code.g - 1
    BY <1>8, <2>2, <2>3
  <2>5. /\ IsFiniteSet(n .. n + setup.code.g - 1)
        /\ Cardinality(n .. n + setup.code.g - 1) <= setup.code.g
    <3>1. PICK m \in Int : m = n + setup.code.g - 1
      BY <1>4
    <3>2. n \in Int
      OBVIOUS
    <3>3. IsFiniteSet(n .. m) /\ Cardinality(n .. m) = IF n > m THEN 0 ELSE m - n + 1
      BY ONLY <3>1, <3>2, FS_Interval, Zenon
    <3>4. Cardinality(n .. m) <= setup.code.g
      BY <1>4, <3>1, <3>3
    <3> QED
      BY <3>1, <3>3, <3>4
  <2>6. Cardinality(S) <= Cardinality(n .. n + setup.code.g - 1)
    BY <2>4, <2>5, FS_Subset
  <2>7. Cardinality(S) \in Nat /\ Cardinality(n .. n + setup.code.g - 1) \in Nat
    BY <1>5, <2>5, FS_CardinalityType
  <2> QED
    BY <1>1, <1>4, <2>5, <2>6, <2>7
<1>11. CASE S # {} /\ \A b \in S : b \notin ParitySlots(setup)
  <2>1. PICK b0 \in S : b0 \notin ParitySlots(setup)
    BY <1>11
  <2>2. PICK s \in 0 .. setup.x - 1, d \in Kept(setup) : s = From(b0)[1] /\ d = From(b0)[2]
    BY <1>7, <2>1
  <2>3. PICK e \in 0 .. setup.code.l - 1 : e = bid2gid(setup.code, d) /\ y = s * setup.code.l + e
    BY <1>7, <2>1, <2>2
  <2>4. s \in Placed /\ d \in StripeBlocks
    BY <1>1, <1>2, <2>1, <2>2
  <2>5. PICK T : T = Fellows(s, c, d)
    OBVIOUS
  <2>6. ASSUME NEW b \in S
        PROVE  From(b)[2] \in T /\ Slot(setup, s, From(b)[2]) = b
    <3>1. PICK t \in 0 .. setup.x - 1, u \in Kept(setup) : t = From(b)[1] /\ u = From(b)[2]
      BY <1>7, <1>11
    <3>2. PICK f \in 0 .. setup.code.l - 1 :
            f = bid2gid(setup.code, u) /\ y = t * setup.code.l + f
      BY <1>7, <1>11, <3>1
    <3>3. t = s /\ f = e
      <4>1. s \in Nat /\ t \in Nat
        BY <1>4
      <4> QED
        BY <1>4, <2>3, <3>2, <4>1, DivDiffer
    <3>4. Slot(setup, t, u) = b
      BY <1>7, <1>11, <3>1
    <3>5. u \in StripeBlocks /\ ClusterOf(stripes[s].nodes[u]) = c
      BY <1>1, <1>2, <3>1, <3>3
    <3>6. u \in T
      BY <2>3, <2>5, <3>2, <3>3, <3>5 DEF Fellows
    <3> QED
      BY <3>1, <3>3, <3>4, <3>6
  <2>7. PICK F : F = [b \in S |-> From(b)[2]]
    OBVIOUS
  <2>8. F \in Injection(S, T)
    <3>1. F \in [S -> T]
      BY <2>6, <2>7
    <3>2. \A a, b \in S : F[a] = F[b] => a = b
      BY <2>6, <2>7
    <3> QED
      BY <3>1, <3>2 DEF Injection, IsInjective
  <2>9. IsFiniteSet(T)
    <3>1. IsFiniteSet(StripeBlocks)
      BY <1>2, SetupType, SizeType, Intervals DEF StripeBlocks, BlocksOf
    <3>2. T \subseteq StripeBlocks
      BY <2>5 DEF Fellows
    <3> QED
      BY <3>1, <3>2, FS_Subset
  <2>10. Cardinality(S) <= Cardinality(T)
    BY <2>8, <2>9, FS_Injection
  <2>11. Cardinality(T) <= setup.code.g + 1
    BY <1>3, <2>4, <2>5
  <2>12. Cardinality(S) \in Nat /\ Cardinality(T) \in Nat
    BY <1>5, <2>9, FS_CardinalityType
  <2> QED
    BY <1>1, <1>4, <2>10, <2>11, <2>12
<1> QED
  BY <1>6, <1>10, <1>11

\* What merging leaves to the count.
LEMMA MergeSpread ==
  ASSUME TypeInv, PlacedInv, SpreadInv, StartMerge
  PROVE  SpreadInv'
<1>1. /\ step' = "count" /\ setup' = setup /\ setup \in Setups
      /\ larger'.nodes = [slot \in Slots |->
           IF slot \in DOMAIN OriginTable[setup] THEN OldNode(OriginTable[setup][slot]) ELSE 0]
  BY SetupBasics DEF StartMerge, Slots
<1> SUFFICES ASSUME setup.code \in LrCodes PROVE SpreadInv'
  BY <1>1 DEF SpreadInv
<1>2. Slots' = Slots /\ New' = New /\ GidsOf(Slots)' = GidsOf(Slots) /\ Clusters' = Clusters
      /\ (Eased(setup)' <=> Eased(setup)) /\ (Mergeable(setup)' <=> Mergeable(setup))
      /\ (Crammed(setup)' <=> Crammed(setup))
  BY <1>1 DEF Slots, New, GidsOf, Clusters
<1>3. (step # "place")'
  BY <1>1
<1>4. ASSUME Eased(setup), NEW c \in Clusters, NEW y
      PROVE  Cardinality({b \in Load(c)' : bid2gid(New', b) = y}) <= New'.g + 1
  <2>1. {b \in Load(c)' : bid2gid(New', b) = y}
          = {b \in Slots : ClusterOf(larger'.nodes[b]) = c /\ bid2gid(New, b) = y}
    BY <1>2 DEF Load, ClusterOf
  <2>2. Cardinality({b \in Slots : ClusterOf(larger'.nodes[b]) = c /\ bid2gid(New, b) = y}) <= New.g + 1
    BY <1>4, MergeSpreads
  <2> QED
    BY <1>2, <2>1, <2>2
<1>5. (Eased(setup) => \A c \in Clusters : \A y \in GidsOf(Slots) :
         Cardinality({b \in Load(c) : bid2gid(New, b) = y}) <= New.g + 1)'
  BY <1>2, <1>4
<1>6. ASSUME Mergeable(setup), Crammed(setup) PROVE InUse' = Clusters
  <2>1. DOMAIN larger'.nodes = Slots
    BY <1>1
  <2>2. \A c \in Clusters : \E slot \in Slots : ClusterOf(larger'.nodes[slot]) = c
    BY <1>6, MergeStaysFull
  <2>3. \A slot \in Slots : ClusterOf(larger'.nodes[slot]) \in Clusters
    <3> SUFFICES ASSUME NEW slot \in Slots PROVE larger'.nodes[slot] \in AllNodes
      BY ClusterOfNode
    <3>1. From(slot)[1] \in Placed /\ From(slot)[2] \in StripeBlocks
          /\ larger'.nodes[slot] = stripes[From(slot)[1]].nodes[From(slot)[2]] /\ step = "place"
      BY <1>6, MergedNodes
    <3>2. stripes[From(slot)[1]].nodes \in [StripeBlocks -> AllNodes]
      BY <3>1 DEF PlacedInv, Working
    <3> QED
      BY <3>1, <3>2
  <2> QED
    BY <2>1, <2>2, <2>3 DEF InUse, ClusterOf
<1>7. (Mergeable(setup) /\ Crammed(setup) => InUse = Clusters)'
  BY <1>2, <1>6
<1> QED
  BY <1>3, <1>5, <1>7 DEF SpreadInv

----------------------------------------------------------------------------
(* When every cluster has blocks.                                         *)

\* Azure LRC in order, with more partitions than clusters.
IsFull == setup.code \in LrCodes /\ Mergeable(setup) /\ Crammed(setup)

\* The blocks are counted: every cluster has some.
LEMMA CountFull ==
  ASSUME IInv, SpreadInv, CountBlocks
  PROVE  FullInv'
<1>1. /\ step = "count" /\ step' = "relieve"
      /\ UNCHANGED <<setup, tables, placement, larger, made, moving>>
      /\ reloc'.order \in Seq(InUse) /\ ToSet(reloc'.order) = InUse
      /\ reloc'.at = 1 /\ reloc'.rest = <<>> /\ reloc'.free = Clusters \ InUse
      /\ reloc'.blocks = [c \in InUse |-> SlotsIn(larger.nodes, c)]
  BY CountEffect
<1>2. TypeInv /\ larger.nodes \in [Slots -> AllNodes]
  BY <1>1 DEF IInv, LargerInv, Underway
<1>3. setup' = setup /\ larger' = larger /\ Slots' = Slots /\ Clusters' = Clusters
  BY <1>1 DEF Slots, New, Clusters
<1>4. \A c : Load(c)' = Load(c)
  BY <1>3 DEF Load, ClusterOf
<1> SUFFICES ASSUME IsFull PROVE FullInv'
  BY <1>3 DEF FullInv, IsFull
<1>5. InUse = Clusters
  BY <1>1 DEF SpreadInv, IsFull
<1>6. \A c \in InUse : ToSet(reloc'.blocks[c]) = Load(c)
  BY <1>1, <1>2, LoadListed
<1>7. \A i \in DOMAIN reloc'.order : reloc'.order[i] \in InUse /\ ~(i < 1)
  <2>1. DOMAIN reloc'.order = 1 .. Len(reloc'.order) /\ Len(reloc'.order) \in Nat
    BY <1>1, LenProperties
  <2> QED
    BY <1>1, <2>1, ElementOfSeq
<1>8. DOMAIN reloc'.blocks = Clusters /\ reloc'.free = {} /\ Clusters' = Clusters
  BY <1>1, <1>3, <1>5
<1> QED
  BY <1>1, <1>4, <1>6, <1>7, <1>8 DEF FullInv

\* What no group leaves stays: another cluster's turn, or batches are made.
LEMMA RestFull ==
  ASSUME IInv, Mergeable(setup), ReliefInv, FullInv, NextCluster \/ MakeBatches
  PROVE  FullInv'
<1>1. /\ Relieving /\ step = "relieve" /\ step' = step /\ setup' = setup /\ reloc.rest = <<>>
      /\ larger' = larger
  BY DEF NextCluster, MakeBatches, Relieving
<1>2. PICK cr : cr = Crowded
  OBVIOUS
<1>3. /\ reloc.at \in DOMAIN reloc.order /\ reloc.at \in Nat /\ cr = reloc.order[reloc.at]
      /\ cr \in DOMAIN reloc.blocks
      /\ DOMAIN reloc.order = 1 .. Len(reloc.order) /\ Len(reloc.order) \in Nat
  BY <1>1, <1>2, CrowdedPlace DEF ReliefInv
<1>4. DOMAIN reloc = DOMAIN NoReloc /\ TypeInv
  BY <1>1 DEF IInv, SearchInv
<1>5. New' = New /\ Slots' = Slots /\ Clusters' = Clusters
  BY <1>1 DEF New, Slots, Clusters
<1>6. \A c : Load(c)' = Load(c)
  BY <1>1, <1>5 DEF Load, ClusterOf
<1>7. \A c : Bearable(Load(c))' <=> Bearable(Load(c))
  <2> SUFFICES ASSUME NEW c PROVE Bearable(Load(c))' <=> Bearable(Load(c))
    OBVIOUS
  <2>1. New' = New /\ Load(c)' = Load(c)
    BY <1>5, <1>6
  <2> QED
    BY ONLY <2>1 DEF Bearable, ColsOf, GidsOf, NewCol
<1> SUFFICES ASSUME IsFull PROVE FullInv'
  BY <1>1 DEF FullInv, IsFull
<1>8. /\ DOMAIN reloc.blocks = Clusters /\ reloc.free = {}
      /\ \A i \in DOMAIN reloc.order :
           /\ Load(reloc.order[i]) = ToSet(reloc.blocks[reloc.order[i]])
           /\ i < reloc.at => Bearable(Load(reloc.order[i]))
  BY <1>1 DEF FullInv, IsFull
<1>9. CASE NextCluster
  <2>1. /\ reloc'.at = reloc.at + 1 /\ reloc'.order = reloc.order /\ reloc'.blocks = reloc.blocks
        /\ reloc'.free = reloc.free /\ reloc'.rest = <<>>
    BY <1>1, <1>4, <1>9 DEF NoReloc, NextCluster
  <2>2. Bearable(Load(cr))
    <3>1. reloc.blocks[cr] \in Seq(Slots)
      BY <1>1, <1>2, CrowdedBlocks DEF IInv
    <3>2. IsInjective(reloc.blocks[cr])
      BY <1>1, <1>3 DEF ReliefInv, QueueInv
    <3>3. Tolerant(New, reloc.blocks[cr])
      BY <1>2, <1>9 DEF NextCluster
    <3>4. Bearable(ToSet(reloc.blocks[cr]))
      BY <1>4, <3>1, <3>2, <3>3, TolerantSet
    <3> QED
      BY <1>3, <1>8, <3>4
  <2>3. ASSUME NEW i \in DOMAIN reloc.order, i < reloc'.at PROVE Bearable(Load(reloc.order[i]))
    <3>1. i < reloc.at \/ i = reloc.at
      BY <1>3, <2>1, <2>3
    <3> QED
      BY <1>3, <1>8, <2>2, <3>1
  <2> QED
    BY <1>5, <1>6, <1>7, <1>8, <2>1, <2>3 DEF FullInv
<1>10. CASE MakeBatches
  <2>1. /\ reloc'.at = reloc.at /\ reloc'.order = reloc.order /\ reloc'.blocks = reloc.blocks
        /\ reloc'.free = reloc.free /\ reloc'.cnt = 0
    BY <1>1, <1>4, <1>10 DEF NoReloc, MakeBatches
  <2> QED
    BY <1>5, <1>6, <1>7, <1>8, <2>1 DEF FullInv
<1> QED
  BY <1>9, <1>10

\* No free cluster, no move of a group.
LEMMA NoGroupMoves ==
  ASSUME TypeInv, FullInv, IsFull PROVE ~MoveGroup
<1> SUFFICES ASSUME MoveGroup PROVE FALSE
  OBVIOUS
<1>1. step = "relieve" /\ reloc.rest # <<>>
  BY DEF MoveGroup, Relieving
<1>2. reloc.cnt = 0 /\ reloc.free = {}
  BY <1>1 DEF FullInv, IsFull
<1>3. DrawsForGroup
  BY <1>2 DEF DrawsForGroup
<1>4. \E des \in reloc.free : TRUE
  BY <1>3 DEF MoveGroup
<1> QED
  BY <1>2, <1>4

----------------------------------------------------------------------------
(* The relief as a whole.                                                 *)

\* What is claimed of the other kinds of code is void.
LEMMA OtherKinds ==
  ASSUME TypeInv, setup' = setup
  PROVE  /\ New.type = "RS" => PcReliefInv' /\ LrcReliefInv' /\ setup.code \notin LrCodes
         /\ New.type \in PcTypes => RsReliefInv' /\ LrcReliefInv' /\ setup.code \notin LrCodes
         /\ New.type \in LrcTypes => RsReliefInv' /\ PcReliefInv' /\ IsLrc
<1>1. New' = New /\ New.type = setup.code.type
  BY NewKind DEF New
<1>2. "RS" \notin PcTypes /\ "RS" \notin LrcTypes /\ PcTypes \cap LrcTypes = {}
      /\ "AZURE_LRC" \notin PcTypes
  BY DEF PcTypes, LrcTypes
<1>3. setup.code \in LrCodes => setup.code.type = "AZURE_LRC"
  BY DEF LrCodes
<1>4. New.type = "RS" => PcReliefInv' /\ LrcReliefInv' /\ setup.code \notin LrCodes
  BY <1>1, <1>2, <1>3 DEF PcReliefInv, LrcReliefInv, IsLrc
<1>5. New.type \in PcTypes => RsReliefInv' /\ LrcReliefInv' /\ setup.code \notin LrCodes
  BY <1>1, <1>2, <1>3 DEF RsReliefInv, LrcReliefInv, IsLrc
<1>6. New.type \in LrcTypes => RsReliefInv' /\ PcReliefInv' /\ IsLrc
  BY <1>1, <1>2 DEF RsReliefInv, PcReliefInv, IsLrc
<1> QED
  BY <1>4, <1>5, <1>6

\* Every move of the relief keeps what is claimed of it.
LEMMA MovesRelief ==
  ASSUME IInv, ReliefInv, FullInv, MoveToSmaller \/ MoveToFree \/ MoveColumn \/ MoveGroup
  PROVE  ReliefInv' /\ FullInv'
<1>1. step = "relieve" /\ step' = step /\ setup' = setup /\ TypeInv
  BY DEF MoveToSmaller, MoveToFree, MoveColumn, MoveGroup, CrowdedRs, Relieving, IInv
<1>2. (Mergeable(setup)' <=> Mergeable(setup)) /\ (Eased(setup)' <=> Eased(setup))
  BY <1>1
<1>3. CASE ~Mergeable(setup)
  BY <1>1, <1>2, <1>3 DEF ReliefInv, FullInv
<1>4. CASE Mergeable(setup) /\ (MoveToSmaller \/ MoveToFree)
  <2>1. New.type = "RS"
    BY <1>4 DEF MoveToSmaller, MoveToFree, CrowdedRs
  <2>2. PcReliefInv' /\ LrcReliefInv' /\ setup.code \notin LrCodes
    BY <1>1, <2>1, OtherKinds
  <2>3. QueueInv /\ RsReliefInv
    BY <1>4, <2>2 DEF ReliefInv, Eased
  <2>4. QueueInv' /\ RsReliefInv'
    BY <1>4, <2>3, MoveToSmallerRelief, MoveToFreeRelief
  <2> QED
    BY <1>1, <2>2, <2>4 DEF ReliefInv, FullInv
<1>5. CASE Mergeable(setup) /\ MoveColumn
  <2>1. New.type \in PcTypes
    BY <1>5 DEF MoveColumn
  <2>2. RsReliefInv' /\ LrcReliefInv' /\ setup.code \notin LrCodes
    BY <1>1, <2>1, OtherKinds
  <2>3. QueueInv /\ PcReliefInv
    BY <1>5, <2>2 DEF ReliefInv, Eased
  <2>4. QueueInv' /\ PcReliefInv'
    BY <1>5, <2>3, MoveColumnRelief
  <2> QED
    BY <1>1, <2>2, <2>4 DEF ReliefInv, FullInv
<1>6. CASE Mergeable(setup) /\ MoveGroup
  <2>1. New.type \in LrcTypes
    BY <1>6 DEF MoveGroup
  <2>2. RsReliefInv' /\ PcReliefInv' /\ IsLrc
    BY <1>1, <2>1, OtherKinds
  <2>3. setup.code \in LrCodes
    BY <1>1, <2>2, NewKind
  <2>4. ~Crammed(setup)
    BY <1>1, <1>6, <2>3, NoGroupMoves DEF IsFull
  <2>5. QueueInv /\ LrcReliefInv
    BY <1>6, <2>4 DEF ReliefInv, Eased
  <2>6. QueueInv' /\ LrcReliefInv'
    BY <1>6, <2>5, MoveGroupRelief
  <2>7. FullInv'
    BY <1>1, <2>4 DEF FullInv
  <2> QED
    BY <2>2, <2>6, <2>7 DEF ReliefInv
<1> QED
  BY <1>3, <1>4, <1>5, <1>6

\* The three together.
SoftInv == SpreadInv /\ ReliefInv /\ FullInv

\* Nothing changes.
LEMMA SoftStill ==
  ASSUME SoftInv, UNCHANGED vars
  PROVE  SoftInv'
<1>1. UNCHANGED <<setup, step, group, stripes, newStripe, newBlock, lucky, apart,
                  larger, made, reloc, moves, moved, disk>>
  BY DEF vars
<1>2. /\ New' = New /\ Slots' = Slots /\ StripeBlocks' = StripeBlocks /\ Placed' = Placed
      /\ Clusters' = Clusters /\ IsLrc' = IsLrc /\ InUse' = InUse /\ Taken' = Taken
      /\ GidsOf(Slots)' = GidsOf(Slots) /\ ColsOf(Slots)' = ColsOf(Slots)
      /\ Crowded' = Crowded
  BY <1>1 DEF New, Slots, StripeBlocks, Placed, Clusters, IsLrc, InUse, ClusterOf, Taken,
              GidsOf, ColsOf, NewCol, Crowded
<1>3. \A c : Load(c)' = Load(c) /\ (Misled(c)' <=> Misled(c)) /\ RestOf(c)' = RestOf(c)
             /\ (Waits(c)' <=> Waits(c))
  <2> TAKE c
  <2>1. Load(c)' = Load(c) /\ RestOf(c)' = RestOf(c) /\ (Waits(c)' <=> Waits(c))
    BY <1>1, <1>2 DEF Load, ClusterOf, RestOf, Waits
  <2>2. Misled(c)' <=> Misled(c)
    BY ONLY <1>1, <1>2, Zenon DEF Misled, ClusterOf
  <2> QED
    BY <2>1, <2>2
<1>4. \A c : Bearable(Load(c))' <=> Bearable(Load(c))
  <2> TAKE c
  <2>1. New' = New /\ Load(c)' = Load(c)
    BY <1>2, <1>3
  <2> QED
    BY ONLY <2>1 DEF Bearable, ColsOf, GidsOf, NewCol
<1>5. \A c : ColsOf(Load(c))' = ColsOf(Load(c)) /\ GidsOf(RestOf(c))' = GidsOf(RestOf(c))
  BY <1>2, <1>3 DEF ColsOf, NewCol, GidsOf
<1>6. \A s, c, b : Fellows(s, c, b)' = Fellows(s, c, b)
  BY <1>1, <1>2 DEF Fellows, ClusterOf
<1>7. QueueInv => QueueInv'
  BY <1>1, <1>2, <1>3 DEF QueueInv
<1>8. RsReliefInv => RsReliefInv'
  BY <1>1, <1>2, <1>3 DEF RsReliefInv
<1>9. PcReliefInv => PcReliefInv'
  BY <1>1, <1>2, <1>3, <1>5 DEF PcReliefInv, NewCol
<1>10. LrcReliefInv => LrcReliefInv'
  BY <1>1, <1>2, <1>3, <1>4, <1>5 DEF LrcReliefInv
<1>11. FullInv => FullInv'
  BY <1>1, <1>2, <1>3, <1>4 DEF FullInv
<1>12. SpreadInv => SpreadInv'
  BY <1>1, <1>2, <1>3, <1>6 DEF SpreadInv, ClusterOf
<1>13. ReliefInv => ReliefInv'
  BY <1>1, <1>7, <1>8, <1>9, <1>10 DEF ReliefInv
<1> QED
  BY <1>11, <1>12, <1>13 DEF SoftInv

\* Every step keeps what is claimed of the relief.
LEMMA SoftKept ==
  ASSUME IInv, SoftInv, [Next]_vars
  PROVE  SoftInv'
<1> USE DEF SoftInv
<1>0. ASSUME step' \notin {"place", "count", "relieve"} PROVE SoftInv'
  <2>1. SpreadInv'
    BY <1>0 DEF SpreadInv
  <2>2. FullInv'
    BY <1>0 DEF FullInv
  <2>3. ReliefInv'
    BY <1>0 DEF ReliefInv, QueueInv, RsReliefInv, PcReliefInv, LrcReliefInv
  <2> QED
    BY <2>1, <2>2, <2>3
<1>1. ASSUME step' # "relieve" PROVE ReliefInv' /\ FullInv'
  BY <1>1 DEF FullInv, ReliefInv, QueueInv, RsReliefInv, PcReliefInv, LrcReliefInv
<1>2. ASSUME step' = "relieve" PROVE SpreadInv'
  BY <1>2 DEF SpreadInv
<1>3. TypeInv /\ PlacedInv
  BY DEF IInv
<1>4. CASE Place
  <2>1. step' = "place"
    BY <1>3, <1>4, PlaceEffect, PutEffect DEF TypeInv
  <2> QED
    BY <1>1, <1>3, <1>4, <2>1, PlaceSpread
<1>5. CASE StartMerge
  <2>1. step' = "count"
    BY <1>5 DEF StartMerge
  <2> QED
    BY <1>1, <1>3, <1>5, <2>1, MergeSpread
<1>6. CASE Relieve
  <2>1. CASE CountBlocks
    <3>1. step' = "relieve"
      BY <2>1 DEF CountBlocks
    <3> QED
      BY <1>2, <2>1, <3>1, CountRelief, CountFull
  <2>2. CASE NextCluster \/ MakeBatches
    <3>1. step' = "relieve" /\ setup' = setup
      BY <2>2 DEF NextCluster, MakeBatches, Relieving
    <3>2. CASE Mergeable(setup)
      BY <1>2, <2>2, <3>1, <3>2, NextRelief, MakeBatchesRelief, RestFull
    <3>3. CASE ~Mergeable(setup)
      BY <1>2, <3>1, <3>3 DEF ReliefInv, FullInv
    <3> QED
      BY <3>2, <3>3
  <2>3. CASE MoveToSmaller \/ MoveToFree \/ MoveColumn \/ MoveGroup
    <3>1. step' = "relieve"
      BY <2>3 DEF MoveToSmaller, MoveToFree, MoveColumn, MoveGroup, CrowdedRs, Relieving
    <3> QED
      BY <1>2, <2>3, <3>1, MovesRelief
  <2>4. CASE DrawFromNothing \/ EndRelief
    BY <1>0, <2>4 DEF DrawFromNothing, EndRelief
  <2> QED
    BY <1>6, <2>1, <2>2, <2>3, <2>4 DEF Relieve
<1>7. CASE WritePastEnd \/ PartBlocks \/ ReadPastEnd \/ Recalculate \/ DeleteOldParities \/ UpdateTables
  BY <1>0, <1>7 DEF WritePastEnd, PartBlocks, ReadPastEnd, Recalculate, DeleteOldParities, UpdateTables
<1>8. ASSUME NEW i \in DOMAIN moves, Copy(i) \/ Drop(i) PROVE SoftInv'
  BY <1>0, <1>8 DEF Copy, Drop
<1>9. CASE SearchForever \/ Stay \/ UNCHANGED vars
  BY <1>9, SoftStill DEF SearchForever, Stay
<1> QED
  BY <1>4, <1>5, <1>6, <1>7, <1>8, <1>9 DEF Next

\* When every cluster had its turn, each one may be lost unless it is misled.
LEMMA ReliefTolerant ==
  ASSUME IInv, SoftInv, step = "relieve", reloc.at > Len(reloc.order), Mergeable(setup),
         NEW c \in Clusters
  PROVE  Misled(c) \/ Tolerant(New, SlotsIn(larger.nodes, c))
<1>1. TypeInv /\ larger.nodes \in [Slots -> AllNodes] /\ "RS" \notin PcTypes
  BY DEF IInv, LargerInv, Underway, PcTypes
<1>2. /\ SlotsIn(larger.nodes, c) \in Seq(Slots) /\ IsInjective(SlotsIn(larger.nodes, c))
      /\ ToSet(SlotsIn(larger.nodes, c)) = Load(c) /\ Load(c) \subseteq Slots
      /\ Cardinality(Load(c)) \in Nat
  BY <1>1, LoadListed
<1>3. Tolerant(New, SlotsIn(larger.nodes, c)) <=> Bearable(Load(c))
  BY <1>1, <1>2, TolerantSet
<1>4. QueueInv /\ (Eased(setup) => RsReliefInv /\ PcReliefInv /\ LrcReliefInv) /\ FullInv
  BY DEF SoftInv, ReliefInv
<1>5. \A i \in DOMAIN reloc.order : i < reloc.at
  <2>1. /\ DOMAIN reloc.order = 1 .. Len(reloc.order) /\ Len(reloc.order) \in Nat
        /\ reloc.at \in Nat
    BY LenProperties DEF IInv, SearchInv
  <2> QED
    BY <2>1
<1>6. ASSUME c \in DOMAIN reloc.blocks PROVE \E i \in DOMAIN reloc.order : c = reloc.order[i]
  BY <1>4, <1>6 DEF QueueInv, ToSet
<1>7. CASE ~Eased(setup)
  <2>1. setup.code \in LrCodes /\ Crammed(setup)
    BY <1>7 DEF Eased
  <2>2. DOMAIN reloc.blocks = Clusters
        /\ \A i \in DOMAIN reloc.order : i < reloc.at => Bearable(Load(reloc.order[i]))
    BY <1>4, <2>1 DEF FullInv
  <2> QED
    BY <1>3, <1>5, <1>6, <2>2
<1>8. CASE Eased(setup) /\ c \in DOMAIN reloc.blocks
  <2>1. PICK i \in DOMAIN reloc.order : c = reloc.order[i] /\ i < reloc.at
    BY <1>5, <1>6, <1>8
  <2>2. CASE New.type = "RS"
    <3>1. Cardinality(Load(c)) <= New.m
      BY <1>4, <1>8, <2>1, <2>2 DEF RsReliefInv
    <3> QED
      BY <1>1, <1>3, <2>2, <3>1 DEF Bearable
  <2>3. CASE New.type \in PcTypes
    <3>1. Misled(c) \/ Cardinality(ColsOf(Load(c))) <= New.m1
      BY <1>4, <1>8, <2>1, <2>3 DEF PcReliefInv
    <3> QED
      BY <1>1, <1>3, <2>3, <3>1 DEF Bearable
  <2>4. CASE IsLrc
    BY <1>3, <1>4, <1>8, <2>1, <2>4 DEF LrcReliefInv
  <2> QED
    BY <2>2, <2>3, <2>4 DEF IsLrc
<1>9. CASE c \in reloc.free
  <2>1. Load(c) = {} \/ Misled(c)
    BY <1>4, <1>9 DEF QueueInv
  <2> QED
    BY <1>1, <1>3, <2>1, NothingBearable
<1>10. CASE Eased(setup) /\ c \in Taken
  <2>1. CASE New.type = "RS"
    <3>1. Misled(c) \/ Cardinality(Load(c)) <= New.m
      BY <1>4, <1>10, <2>1 DEF RsReliefInv
    <3> QED
      BY <1>1, <1>3, <2>1, <3>1 DEF Bearable
  <2>2. CASE New.type \in PcTypes
    <3>1. Cardinality(ColsOf(Load(c))) <= New.m1
      BY <1>4, <1>10, <2>2 DEF PcReliefInv
    <3> QED
      BY <1>1, <1>3, <2>2, <3>1 DEF Bearable
  <2>3. CASE IsLrc /\ Load(c) = {}
    BY <1>1, <1>3, <2>3, NothingBearable
  <2>4. CASE IsLrc /\ Load(c) # {}
    <3>1. Misled(c) \/ Cardinality(Load(c)) <= New.g + 1
      BY <1>4, <1>10, <2>4 DEF LrcReliefInv
    <3>2. New.g \in Nat /\ IsFiniteSet(GidsOf(Load(c))) /\ Cardinality(GidsOf(Load(c))) \in Nat
      BY <1>1, <1>2, <2>4, NewKind, SlotSets
    <3>3. GidsOf(Load(c)) # {}
      BY <2>4 DEF GidsOf
    <3>4. Cardinality(GidsOf(Load(c))) >= 1
      <4>1. Cardinality(GidsOf(Load(c))) # 0
        BY <3>2, <3>3, FS_EmptySet
      <4> QED
        BY <3>2, <4>1
    <3>5. New.g + 1 <= Cardinality(GidsOf(Load(c))) + New.g
      BY <3>2, <3>4
    <3>6. Misled(c) \/ Cardinality(Load(c)) <= Cardinality(GidsOf(Load(c))) + New.g
      BY <1>2, <3>1, <3>2, <3>5
    <3> QED
      BY <1>1, <1>3, <2>4, <3>6 DEF Bearable, IsLrc
  <2> QED
    BY <2>1, <2>2, <2>3, <2>4 DEF IsLrc
<1> QED
  BY <1>7, <1>8, <1>9, <1>10 DEF Taken

\* After the relief a failed cluster costs no more than the merged code tolerates
\* (if_subject_to_fault_tolerance_rs, _pc, _lrc; the search of do_stripe_merge),
\* except for a cluster that the search itself misleads: whatever placement rule,
\* code, numbers of clusters and nodes, and whichever clusters are drawn.
THEOREM WithinToleranceHolds == Spec => []WithinTolerance
<1>1. Init => SoftInv
  BY DEF Init, SoftInv, SpreadInv, FullInv, ReliefInv, QueueInv, RsReliefInv, PcReliefInv,
         LrcReliefInv, Placed
<1>2. IInv /\ SoftInv /\ [Next]_vars => SoftInv'
  BY SoftKept
<1>3. IInv /\ SoftInv => WithinTolerance
  BY ReliefTolerant DEF WithinTolerance
<1> QED
  BY <1>1, <1>2, <1>3, Invariance, PTL DEF Spec

=============================================================================
