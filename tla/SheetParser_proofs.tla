------------------------- MODULE SheetParser_proofs -------------------------
(***************************************************************************)
(* A theorem about SheetParser, for any set of layouts and any number of   *)
(* changes: on a sheet with one block, of any size and with the block      *)
(* anywhere on it, what is read is what was written.                       *)
(*                                                                         *)
(* The invariant says what every cell of such a sheet may hold (Placed).   *)
(* From it follows, cell by cell, that the parser finds the block where it *)
(* is and no other, its rows, its columns and its headings, and then that  *)
(* reading them yields the lines, the errors and the warning promised.     *)
(***************************************************************************)
EXTENDS SheetParser, FiniteSetTheorems, TLAPS

-----------------------------------------------------------------------------
(* One block of two items and one or two CNs, anywhere on a sheet of any   *)
(* size, with or without a heading and an adjusted price; where it belongs *)
(* on a sheet of the standard template.                                    *)
OneBlock(b) ==
    /\ b \in [kind : Nat, label : Nat \ {0}, items : {2}, cns : {1, 2},
              heading : BOOLEAN, adjusted : {0, 1}]
    /\ layout.template \in {"matrix", "standard"}
    /\ layout.rows \in Nat /\ layout.cols \in Nat
    /\ layout.blocks = <<b>>
    /\ b.kind + 2 + b.adjusted + b.cns < layout.rows /\ b.label + 2 < layout.cols
    /\ b.heading => b.kind > 0
    /\ layout.template = "standard" => b.kind = 2 /\ b.label = 1 /\ b.adjusted = 0

Top(b) == b.kind + 3 + b.adjusted

(* What a cell of such a sheet may hold.                                   *)
InBlock(b, r, c) == r \in b.kind .. Top(b) + b.cns - 1 /\ c \in b.label .. b.label + 2
InTotals(b, r, c) == r \in Top(b) .. Top(b) + b.cns - 1 /\ c = b.label - 1
InHeading(b, r, c) == b.heading /\ r = b.kind - 1 /\ c \in b.label + 1 .. b.label + 2
InFrame(r, c) ==
    \/ r = 0 /\ c = 0
    \/ layout.template = "standard" /\ ((r = 1 /\ c = 1) \/ (r = 4 /\ c = 0))

Label(b, r, x) ==
    /\ r = b.kind => x = Word("kind")
    /\ r = b.kind + 1 => x = Word("price")
    /\ r = b.kind + 2 => x = Word("nickname/total")
    /\ r = b.kind + 3 /\ b.adjusted = 1 => x = Word("adjusted")
    /\ r >= Top(b) =>
          x \in {Empty, Word("Ann"), Word("Bob"), Word("ann"), Word("nickname/total")}

Value(b, r, c, x) ==
    /\ r = b.kind /\ c = b.label + 1 => x = Word("miku")
    /\ r = b.kind /\ c = b.label + 2 => x \in {Empty, Word("miku"), Word("rin"), Word("other")}
    /\ r = b.kind + 1 /\ c = b.label + 1 => x = Num(1000)
    /\ r = b.kind + 1 /\ c = b.label + 2 => x \in {Empty, Num(2000), Num(1001)}
    /\ r = b.kind + 2 => x = Empty
    /\ r = b.kind + 3 /\ b.adjusted = 1 => x = Num(-100)
    /\ r >= Top(b) => x \in {Empty, Num(100), Num(200), Num(150), Digits(200), Word("x")}

MayHold(b, r, c, x) ==
    /\ InBlock(b, r, c) /\ c = b.label => Label(b, r, x)
    /\ InBlock(b, r, c) /\ c # b.label => Value(b, r, c, x)
    /\ InTotals(b, r, c) => x \in {Num(n) : n \in Nat \ {0}}
    /\ InHeading(b, r, c) => x \in {Empty, Word("badge"), Word("25th"), Word("stand")}
    /\ InFrame(r, c) => <<r, c, x>> \in Frame(layout)
    /\ ~InBlock(b, r, c) /\ ~InTotals(b, r, c) /\ ~InHeading(b, r, c) /\ ~InFrame(r, c) =>
          x = Empty

Placed(b) == \A r, c \in Int : MayHold(b, r, c, CellAt(r, c))

(* What the least row and the CNs, items and rows of a block are.          *)
LEMMA LeastOfInterval == \A m, n \in Int : m <= n => Min(m .. n) = m
  BY DEF Min

(* The rows and columns the typist writes in, as intervals.                *)
LEMMA RowsAndColumns ==
    ASSUME NEW b, OneBlock(b)
    PROVE  /\ CNRows(b) = Top(b) .. Top(b) + b.cns - 1 /\ Min(CNRows(b)) = Top(b)
           /\ ItemCols(b) = {b.label + 1, b.label + 2} /\ ItemCols(b) = b.label + 1 .. b.label + 2
           /\ b.kind \in Nat /\ b.label \in Nat \ {0} /\ Top(b) \in Nat /\ b.cns \in {1, 2}
           /\ b.adjusted \in {0, 1} /\ b.items = 2
           /\ Top(b) + b.cns - 1 < layout.rows
           /\ b.heading \in BOOLEAN
  BY LeastOfInterval DEF OneBlock, CNRows, ItemCols, Top

(* The parts of a sheet do not overlap.                                    *)
LEMMA PartsApart ==
    ASSUME NEW b, OneBlock(b), NEW r \in Int, NEW c \in Int
    PROVE  /\ InBlock(b, r, c) => ~InTotals(b, r, c) /\ ~InHeading(b, r, c) /\ ~InFrame(r, c)
           /\ InTotals(b, r, c) => ~InHeading(b, r, c) /\ ~InFrame(r, c)
           /\ InHeading(b, r, c) => ~InFrame(r, c)
  BY RowsAndColumns DEF InBlock, InTotals, InHeading, InFrame, OneBlock, Top

(* What is written at first may be where it is,                            *)
LEMMA WrittenHere ==
    ASSUME NEW b, OneBlock(b)
    PROVE  \A r, c, x : <<r, c, x>> \in Written(b) \cup Frame(layout) =>
                r \in Int /\ c \in Int /\ MayHold(b, r, c, x)
  <1>0. /\ b.kind \in Nat /\ b.label \in Nat /\ b.cns \in {1, 2} /\ b.adjusted \in {0, 1}
        /\ b.items = 2 /\ Top(b) = b.kind + 3 + b.adjusted
    BY RowsAndColumns DEF Top
  <1>r. CNRows(b) = Top(b) .. Top(b) + b.cns - 1 /\ Min(CNRows(b)) = Top(b)
    BY RowsAndColumns
  <1>c. \A d \in ItemCols(b) : d = b.label + 1 \/ d = b.label + 2
    BY RowsAndColumns
  <1>1. ASSUME NEW r \in Int, NEW c \in Int, NEW x, InBlock(b, r, c),
               c = b.label => Label(b, r, x), c # b.label => Value(b, r, c, x)
        PROVE  MayHold(b, r, c, x)
    BY <1>1, PartsApart DEF MayHold
  <1>2. ASSUME NEW r, NEW c, NEW x,
               /\ c = b.label
               /\ \/ r = b.kind /\ x = Word("kind")
                  \/ r = b.kind + 1 /\ x = Word("price")
                  \/ r = b.kind + 2 /\ x = Word("nickname/total")
                  \/ b.adjusted = 1 /\ r = b.kind + 3 /\ x = Word("adjusted")
        PROVE  r \in Int /\ c \in Int /\ MayHold(b, r, c, x)
    <2>1. r \in Int /\ c \in Int /\ InBlock(b, r, c)
      BY <1>0, <1>2 DEF InBlock
    <2>2. Label(b, r, x)
      BY <1>0, <1>2 DEF Label
    <2> QED
      BY <1>1, <1>2, <2>1, <2>2
  <1>3. ASSUME NEW r, NEW c, NEW x,
               /\ c \in ItemCols(b)
               /\ \/ r = b.kind /\ x = Word(<<"miku", "rin">>[c - b.label])
                  \/ r = b.kind + 1 /\ x = Num(1000 * (c - b.label))
                  \/ b.adjusted = 1 /\ r = b.kind + 3 /\ x = Num(-100)
        PROVE  r \in Int /\ c \in Int /\ MayHold(b, r, c, x)
    <2>1. r \in Int /\ c \in Int /\ InBlock(b, r, c) /\ c # b.label
      BY <1>0, <1>3, <1>c DEF InBlock
    <2>2. CASE c = b.label + 1
      <3>1. c - b.label = 1
        BY <1>0, <2>2
      <3> QED
        BY <1>0, <1>1, <1>3, <2>1, <2>2, <3>1 DEF Value
    <2>3. CASE c = b.label + 2
      <3>1. c - b.label = 2
        BY <1>0, <2>3
      <3> QED
        BY <1>0, <1>1, <1>3, <2>1, <2>3, <3>1 DEF Value
    <2> QED
      BY <1>3, <1>c, <2>2, <2>3
  <1>4. ASSUME NEW r, NEW c, NEW x,
               b.heading /\ r = b.kind - 1 /\ c = b.label + 1 /\ x = Word("badge")
        PROVE  r \in Int /\ c \in Int /\ MayHold(b, r, c, x)
    <2>1. r \in Int /\ c \in Int /\ InHeading(b, r, c)
      BY <1>0, <1>4 DEF InHeading
    <2> QED
      BY <1>4, <2>1, PartsApart DEF MayHold
  <1>5. ASSUME NEW r, NEW c, NEW x,
               r \in CNRows(b) /\ c = b.label /\ x = Word(<<"Ann", "Bob">>[r - Top(b) + 1])
        PROVE  r \in Int /\ c \in Int /\ MayHold(b, r, c, x)
    <2>0. r \in Top(b) .. Top(b) + b.cns - 1 /\ c = b.label
      BY <1>5, <1>r
    <2>1. /\ r \in Int /\ c \in Int /\ r - Top(b) + 1 \in {1, 2}
          /\ r >= Top(b) /\ r > b.kind + 2 /\ ~(r = b.kind + 3 /\ b.adjusted = 1)
      BY <1>0, <2>0
    <2>a. InBlock(b, r, c)
      BY <1>0, <2>0 DEF InBlock
    <2>2. x \in {Word("Ann"), Word("Bob")}
      BY <1>5, <2>1
    <2>3. Label(b, r, x)
      BY <1>0, <2>1, <2>2 DEF Label
    <2> QED
      BY <1>1, <1>5, <2>1, <2>3, <2>a
  <1>6. ASSUME NEW r, NEW c, NEW x,
               r \in CNRows(b) /\ c \in ItemCols(b) /\ x = Num(100)
        PROVE  r \in Int /\ c \in Int /\ MayHold(b, r, c, x)
    <2>0. r \in Top(b) .. Top(b) + b.cns - 1 /\ (c = b.label + 1 \/ c = b.label + 2)
      BY <1>6, <1>r, <1>c
    <2>1. /\ r \in Int /\ c \in Int /\ InBlock(b, r, c) /\ c # b.label
          /\ r >= Top(b) /\ r > b.kind + 2 /\ ~(r = b.kind + 3 /\ b.adjusted = 1)
      BY <1>0, <2>0 DEF InBlock
    <2>2. Value(b, r, c, x)
      BY <1>0, <1>6, <2>1 DEF Value
    <2> QED
      BY <1>1, <2>1, <2>2
  <1>7. ASSUME NEW r, NEW c, NEW x,
               r \in CNRows(b) /\ c = b.label - 1 /\ x = Num(500 * b.items * (b.items + 1))
        PROVE  r \in Int /\ c \in Int /\ MayHold(b, r, c, x)
    <2>1. r \in Int /\ c \in Int /\ InTotals(b, r, c)
      BY <1>0, <1>7, <1>r DEF InTotals
    <2>2. 500 * b.items * (b.items + 1) \in Nat \ {0}
      BY <1>0
    <2> QED
      BY <1>7, <2>1, <2>2, PartsApart DEF MayHold
  <1>8. ASSUME NEW r, NEW c, NEW x,
               <<r, c, x>> \in Frame(layout)
        PROVE  r \in Int /\ c \in Int /\ MayHold(b, r, c, x)
    <2>1. \/ r = 0 /\ c = 0
          \/ layout.template = "standard" /\ ((r = 1 /\ c = 1) \/ (r = 4 /\ c = 0))
      BY <1>8 DEF Frame, OneBlock
    <2> QED
      BY <1>8, <2>1, PartsApart DEF MayHold, InFrame
  <1>9. ASSUME NEW r, NEW c, NEW x, <<r, c, x>> \in Written(b)
        PROVE  r \in Int /\ c \in Int /\ MayHold(b, r, c, x)
    <2> SUFFICES
          \/ /\ c = b.label
             /\ \/ r = b.kind /\ x = Word("kind")
                \/ r = b.kind + 1 /\ x = Word("price")
                \/ r = b.kind + 2 /\ x = Word("nickname/total")
                \/ b.adjusted = 1 /\ r = b.kind + 3 /\ x = Word("adjusted")
          \/ /\ c \in ItemCols(b)
             /\ \/ r = b.kind /\ x = Word(<<"miku", "rin">>[c - b.label])
                \/ r = b.kind + 1 /\ x = Num(1000 * (c - b.label))
                \/ b.adjusted = 1 /\ r = b.kind + 3 /\ x = Num(-100)
          \/ b.heading /\ r = b.kind - 1 /\ c = b.label + 1 /\ x = Word("badge")
          \/ r \in CNRows(b) /\ c = b.label /\ x = Word(<<"Ann", "Bob">>[r - Top(b) + 1])
          \/ r \in CNRows(b) /\ c \in ItemCols(b) /\ x = Num(100)
          \/ r \in CNRows(b) /\ c = b.label - 1 /\ x = Num(500 * b.items * (b.items + 1))
      BY <1>2, <1>3, <1>4, <1>5, <1>6, <1>7
    <2>1. Min(CNRows(b)) = Top(b)
      BY <1>r
    <2> QED
      BY <1>0, <1>9, <2>1 DEF Written
  <1> QED
    BY <1>8, <1>9

(* An entry is a triple; its parts tell it from the others.                *)
LEMMA Triples ==
    ASSUME NEW b, OneBlock(b), NEW x \in Written(b) \cup Frame(layout)
    PROVE  x = <<x[1], x[2], x[3]>>
  BY DEF Written, Frame, OneBlock

(* and it is written wherever something must be.                           *)
LEMMA EmptyElsewhere ==
    ASSUME NEW b, OneBlock(b), NEW r \in Int, NEW c \in Int,
           r \in 0 .. layout.rows - 1 /\ c \in 0 .. layout.cols - 1 =>
              \A x \in Written(b) \cup Frame(layout) : ~(x[1] = r /\ x[2] = c)
    PROVE  MayHold(b, r, c, Empty)
  <1>0. /\ Top(b) = b.kind + 3 + b.adjusted /\ b.cns \in {1, 2}
        /\ b.kind \in Nat /\ b.label \in Nat \ {0}
        /\ b.adjusted \in {0, 1} /\ layout.rows \in Nat /\ layout.cols \in Nat
        /\ b.kind + 2 + b.adjusted + b.cns < layout.rows /\ b.label + 2 < layout.cols
        /\ b.heading => b.kind > 0
        /\ layout.template = "standard" => b.kind = 2 /\ b.adjusted = 0
    BY RowsAndColumns DEF OneBlock, Top
  <1>r. CNRows(b) = Top(b) .. Top(b) + b.cns - 1
    BY RowsAndColumns
  <1>c. ItemCols(b) = b.label + 1 .. b.label + 2
    BY RowsAndColumns
  <1>1. InBlock(b, r, c) \/ InTotals(b, r, c) \/ InHeading(b, r, c) \/ InFrame(r, c) =>
           r \in 0 .. layout.rows - 1 /\ c \in 0 .. layout.cols - 1
    <2>1. InBlock(b, r, c) => r \in 0 .. layout.rows - 1 /\ c \in 0 .. layout.cols - 1
      BY <1>0 DEF InBlock
    <2>2. InTotals(b, r, c) => r \in 0 .. layout.rows - 1 /\ c \in 0 .. layout.cols - 1
      BY <1>0 DEF InTotals
    <2>3. InHeading(b, r, c) => r \in 0 .. layout.rows - 1 /\ c \in 0 .. layout.cols - 1
      BY <1>0 DEF InHeading
    <2>4. InFrame(r, c) => r \in 0 .. layout.rows - 1 /\ c \in 0 .. layout.cols - 1
      BY <1>0 DEF InFrame
    <2> QED
      BY <2>1, <2>2, <2>3, <2>4
  <1>2. \A v : <<r, c, v>> \notin Written(b) \cup Frame(layout) \/
               ~(r \in 0 .. layout.rows - 1 /\ c \in 0 .. layout.cols - 1)
    OBVIOUS
  <1>3. /\ <<b.kind, b.label, Word("kind")>> \in Written(b)
        /\ <<b.kind + 1, b.label, Word("price")>> \in Written(b)
        /\ <<b.kind + 2, b.label, Word("nickname/total")>> \in Written(b)
        /\ b.adjusted = 1 => <<b.kind + 3, b.label, Word("adjusted")>> \in Written(b)
    BY DEF Written
  <1>5. \A q \in CNRows(b) : <<q, b.label - 1, Num(500 * b.items * (b.items + 1))>> \in Written(b)
    BY DEF Written
  <1>6. ~InTotals(b, r, c)
    BY <1>0, <1>1, <1>2, <1>5, <1>r DEF InTotals
  <1>7. ~InFrame(r, c)
    BY <1>1, <1>2 DEF InFrame, Frame, OneBlock
  <1>8. ASSUME InBlock(b, r, c), c = b.label PROVE Label(b, r, Empty)
    BY <1>0, <1>1, <1>2, <1>3, <1>8 DEF Label
  <1>9. ASSUME InBlock(b, r, c), c # b.label PROVE Value(b, r, c, Empty)
    <2>1. c \in ItemCols(b)
      BY <1>0, <1>9, <1>c DEF InBlock
    <2>2. \A v : <<r, c, v>> \notin Written(b)
      BY <1>1, <1>2, <1>9
    <2>3. r # b.kind /\ r # b.kind + 1 /\ ~(b.adjusted = 1 /\ r = b.kind + 3)
      <3>1. <<b.kind, c, Word(<<"miku", "rin">>[c - b.label])>> \in Written(b)
        BY <2>1 DEF Written
      <3>2. <<b.kind + 1, c, Num(1000 * (c - b.label))>> \in Written(b)
        BY <2>1 DEF Written
      <3>3. b.adjusted = 1 => <<b.kind + 3, c, Num(-100)>> \in Written(b)
        BY <2>1 DEF Written
      <3> QED
        BY <2>2, <3>1, <3>2, <3>3
    <2> QED
      BY <2>3 DEF Value
  <1> QED
    BY <1>6, <1>7, <1>8, <1>9 DEF MayHold

(* Every sheet begins with every cell holding what it may.                 *)
LEMMA PlacedAtFirst ==
    ASSUME NEW b, OneBlock(b), SheetInit
    PROVE  Placed(b)
  <1> DEFINE all == Written(b) \cup Frame(layout)
             Here(p) == {x \in all : x[1] = p[1] /\ x[2] = p[2]}
  <1>1. Frame(layout) \cup UNION {Written(layout.blocks[i]) : i \in DOMAIN layout.blocks} = all
    BY DEF OneBlock
  <1>2. grid = [p \in (0 .. layout.rows - 1) \X (0 .. layout.cols - 1) |->
                  IF \E x \in all : x[1] = p[1] /\ x[2] = p[2]
                  THEN (CHOOSE x \in all : x[1] = p[1] /\ x[2] = p[2])[3] ELSE Empty]
    BY <1>1 DEF SheetInit
  <1> SUFFICES ASSUME NEW r \in Int, NEW c \in Int PROVE MayHold(b, r, c, CellAt(r, c))
    BY DEF Placed
  <1> HIDE DEF all
  <1>3. CASE r \in 0 .. layout.rows - 1 /\ c \in 0 .. layout.cols - 1
             /\ \E x \in all : x[1] = r /\ x[2] = c
    <2> DEFINE x == CHOOSE x \in all : x[1] = r /\ x[2] = c
    <2>1. x \in all /\ x[1] = r /\ x[2] = c
      BY <1>3
    <2>2. <<r, c>> \in DOMAIN grid /\ grid[<<r, c>>] = x[3]
      BY <1>2, <1>3
    <2> HIDE DEF x
    <2>3. CellAt(r, c) = x[3]
      BY <2>2 DEF CellAt
    <2> QED
      BY <2>1, <2>3, WrittenHere, Triples DEF all
  <1>4. CASE ~(r \in 0 .. layout.rows - 1 /\ c \in 0 .. layout.cols - 1
               /\ \E x \in all : x[1] = r /\ x[2] = c)
    <2>1. CellAt(r, c) = Empty
      BY <1>2, <1>4 DEF CellAt
    <2> QED
      BY <1>4, <2>1, EmptyElsewhere DEF all
  <1> QED
    BY <1>3, <1>4

(* The fields of the entries a cell may hold.                              *)
LEMMA EntryFields ==
    /\ \A w : Word(w).text = w /\ Word(w).value = {} /\ Word(w).numeric = FALSE
    /\ \A n : Num(n).text = "digits" /\ Num(n).value = {n} /\ Num(n).numeric = TRUE
    /\ \A n : Digits(n).text = "digits" /\ Digits(n).value = {n} /\ Digits(n).numeric = FALSE
    /\ Empty.text = "" /\ Empty.value = {} /\ Empty.numeric = FALSE
  BY DEF Word, Num, Digits, Empty

(* What the parser takes a cell for: a word,                               *)
LEMMA WordCell ==
    ASSUME NEW r, NEW c, NEW w, CellAt(r, c) = Word(w)
    PROVE  TextAt(r, c) = w /\ NumberAt(r, c) = {} /\ (w # "" => IsWord(r, c))
  BY EntryFields DEF TextAt, NumberAt, IsWord

(* a number,                                                               *)
LEMMA NumberCell ==
    ASSUME NEW r, NEW c, NEW n, CellAt(r, c) = Num(n)
    PROVE  TextAt(r, c) = "digits" /\ NumberAt(r, c) = {n} /\ ~IsWord(r, c)
  BY EntryFields DEF TextAt, NumberAt, IsWord

(* nothing.                                                                *)
LEMMA EmptyCell ==
    ASSUME NEW r, NEW c, CellAt(r, c) = Empty
    PROVE  TextAt(r, c) = "" /\ NumberAt(r, c) = {} /\ ~IsWord(r, c)
  BY EntryFields DEF TextAt, NumberAt, IsWord

(* The greatest of one number, for Amount.                                 *)
LEMMA MostOfOne == \A n \in Int : Max({n}) = n
  BY DEF Max

(* A typist changes a cell to what it may hold.                            *)
LEMMA PlacedAfter ==
    ASSUME NEW b, OneBlock(b), Placed(b), NEW r \in Int, NEW c \in Int, NEW S, Put(r, c, S),
           \A x \in S : MayHold(b, r, c, x)
    PROVE  Placed(b)'
  <1>1. PICK x \in S : grid' = [grid EXCEPT ![<<r, c>>] = x]
    BY DEF Put
  <1>2. layout' = layout
    BY DEF Put
  <1>3. ASSUME NEW q \in Int, NEW d \in Int
        PROVE  CellAt(q, d)' = CellAt(q, d) \/ (q = r /\ d = c /\ CellAt(q, d)' = x)
    <2>1. DOMAIN grid' = DOMAIN grid
      BY <1>1
    <2>2. CASE q = r /\ d = c
      BY <1>1, <2>1, <2>2 DEF CellAt
    <2>3. CASE ~(q = r /\ d = c)
      <3>1. <<q, d>> # <<r, c>>
        BY <2>3
      <3>2. <<q, d>> \in DOMAIN grid => grid'[<<q, d>>] = grid[<<q, d>>]
        BY <1>1, <3>1
      <3> QED
        BY <2>1, <3>2 DEF CellAt
    <2> QED
      BY <2>2, <2>3
  <1>4. ASSUME NEW q \in Int, NEW d \in Int, NEW y
        PROVE  MayHold(b, q, d, y)' <=> MayHold(b, q, d, y)
    BY <1>2 DEF MayHold, InFrame
  <1> QED
    BY <1>1, <1>3, <1>4 DEF Placed

(* Whatever the typist changes, every cell holds what it may.              *)
LEMMA PlacedStep ==
    ASSUME NEW b, OneBlock(b), Placed(b), SheetNext
    PROVE  Placed(b)'
  <1>0. /\ b.kind \in Nat /\ b.label \in Nat /\ b.cns \in {1, 2} /\ b.adjusted \in {0, 1}
        /\ b.items = 2 /\ Top(b) = b.kind + 3 + b.adjusted
    BY RowsAndColumns DEF Top
  <1>r. CNRows(b) = Top(b) .. Top(b) + b.cns - 1 /\ Min(CNRows(b)) = Top(b)
    BY RowsAndColumns
  <1>c. \A d \in ItemCols(b) : d = b.label + 1 \/ d = b.label + 2
    BY RowsAndColumns
  <1>v. ASSUME NEW r \in Int, NEW c \in Int, InBlock(b, r, c), c # b.label, NEW S, Put(r, c, S),
               \A x \in S : Value(b, r, c, x)
        PROVE  Placed(b)'
    <2>1. \A x \in S : MayHold(b, r, c, x)
      BY <1>v, PartsApart DEF MayHold
    <2> QED
      BY <1>v, <2>1, PlacedAfter
  <1>1. ASSUME TypeQuantity(b) PROVE Placed(b)'
    <2>1. PICK r \in CNRows(b), c \in ItemCols(b) :
             Put(r, c, {Empty, Num(200), Num(150), Digits(200), Word("x")})
      BY <1>1 DEF TypeQuantity
    <2>2. r \in Top(b) .. Top(b) + b.cns - 1 /\ (c = b.label + 1 \/ c = b.label + 2)
      BY <1>r, <1>c
    <2>3. /\ r \in Int /\ c \in Int /\ c # b.label
          /\ r >= Top(b) /\ r > b.kind + 2 /\ ~(r = b.kind + 3 /\ b.adjusted = 1)
      BY <1>0, <2>2
    <2>4. InBlock(b, r, c)
      BY <1>0, <2>2 DEF InBlock
    <2>5. \A x \in {Empty, Num(200), Num(150), Digits(200), Word("x")} : Value(b, r, c, x)
      BY <1>0, <2>3 DEF Value
    <2> QED
      BY <1>v, <2>1, <2>3, <2>4, <2>5
  <1>2. ASSUME TypeCN(b) PROVE Placed(b)'
    <2> DEFINE S == {Empty, Word("ann"), Word("nickname/total")}
    <2>1. PICK r \in CNRows(b) : Put(r, b.label, S)
      BY <1>2 DEF TypeCN
    <2>2. r \in Top(b) .. Top(b) + b.cns - 1
      BY <1>r
    <2>3. /\ r \in Int /\ b.label \in Int
          /\ r >= Top(b) /\ r > b.kind + 2 /\ ~(r = b.kind + 3 /\ b.adjusted = 1)
      BY <1>0, <2>2
    <2>4. InBlock(b, r, b.label)
      BY <1>0, <2>2 DEF InBlock
    <2>5. \A x \in S : Label(b, r, x)
      BY <1>0, <2>3 DEF Label
    <2>6. \A x \in S : MayHold(b, r, b.label, x)
      BY <2>3, <2>4, <2>5, PartsApart DEF MayHold
    <2> HIDE DEF S
    <2> QED
      BY <2>1, <2>3, <2>6, PlacedAfter
  <1>3. ASSUME TypePrice(b) PROVE Placed(b)'
    <2>1. /\ b.kind + 1 \in Int /\ b.label + 2 \in Int /\ InBlock(b, b.kind + 1, b.label + 2)
          /\ b.label + 2 # b.label
      BY <1>0 DEF InBlock
    <2>2. \A x \in {Empty, Num(1001)} : Value(b, b.kind + 1, b.label + 2, x)
      BY <1>0 DEF Value
    <2> QED
      BY <1>0, <1>3, <1>v, <2>1, <2>2 DEF TypePrice
  <1>4. ASSUME TypeItem(b) PROVE Placed(b)'
    <2>1. /\ b.kind \in Int /\ b.label + 2 \in Int /\ InBlock(b, b.kind, b.label + 2)
          /\ b.label + 2 # b.label
      BY <1>0 DEF InBlock
    <2>2. \A x \in {Empty, Word("miku"), Word("other")} : Value(b, b.kind, b.label + 2, x)
      BY <1>0 DEF Value
    <2> QED
      BY <1>0, <1>4, <1>v, <2>1, <2>2 DEF TypeItem
  <1>5. ASSUME TypeHeading(b) PROVE Placed(b)'
    <2> DEFINE S == {Empty, Word("25th"), Word("stand")}
    <2>1. b.heading /\ Put(b.kind - 1, b.label + 2, S)
      BY <1>0, <1>5 DEF TypeHeading
    <2>2. b.kind - 1 \in Int /\ b.label + 2 \in Int /\ InHeading(b, b.kind - 1, b.label + 2)
      BY <1>0, <2>1 DEF InHeading
    <2>3. \A x \in S : MayHold(b, b.kind - 1, b.label + 2, x)
      BY <2>2, PartsApart DEF MayHold
    <2> HIDE DEF S
    <2> QED
      BY <2>1, <2>2, <2>3, PlacedAfter
  <1>6. ASSUME TypeTotal(b) PROVE Placed(b)'
    <2> DEFINE r == Min(CNRows(b))
               S == {Num(n + Amount(r, b.label - 1)) : n \in {1, 2, 1000}}
    <2>1. Put(r, b.label - 1, S)
      BY <1>6 DEF TypeTotal
    <2>2. r \in Int /\ b.label - 1 \in Int /\ InTotals(b, r, b.label - 1)
      BY <1>0, <1>r DEF InTotals
    <2> HIDE DEF r
    <2>3. CellAt(r, b.label - 1) \in {Num(n) : n \in Nat \ {0}}
      BY <2>2 DEF Placed, MayHold
    <2>4. Amount(r, b.label - 1) \in Nat
      <3>1. PICK m \in Nat \ {0} : CellAt(r, b.label - 1) = Num(m)
        BY <2>3
      <3>2. NumberAt(r, b.label - 1) = {m}
        BY <3>1, EntryFields DEF NumberAt
      <3> QED
        BY <3>2, MostOfOne DEF Amount
    <2>5. \A x \in S : x \in {Num(n) : n \in Nat \ {0}}
      BY <2>4
    <2>6. \A x \in S : MayHold(b, r, b.label - 1, x)
      BY <2>2, <2>5, PartsApart DEF MayHold
    <2> HIDE DEF S
    <2> QED
      BY <2>1, <2>2, <2>6, PlacedAfter
  <1>7. \A i \in DOMAIN layout.blocks : layout.blocks[i] = b
    BY DEF OneBlock
  <1> QED
    BY <1>1, <1>2, <1>3, <1>4, <1>5, <1>6, <1>7 DEF SheetNext

(* What the cells say.                                                     *)
LEMMA Blank ==
    ASSUME NEW b, OneBlock(b), Placed(b), NEW r \in Int, NEW c \in Int,
           ~InBlock(b, r, c), ~InTotals(b, r, c), ~InHeading(b, r, c), ~InFrame(r, c)
    PROVE  CellAt(r, c) = Empty
  BY DEF Placed, MayHold

(* The words the parser looks for stand only where the block has them.     *)
LEMMA WordsApart ==
    ASSUME NEW b, OneBlock(b), Placed(b), NEW r \in Int, NEW c \in Int
    PROVE  /\ TextAt(r, c) # "cn"
           /\ TextAt(r, c) \in KindWords <=> r = b.kind /\ c = b.label
           /\ TextAt(r, c) \in PriceWords <=>
                 c = b.label /\ (r = b.kind + 1 \/ (r = b.kind + 3 /\ b.adjusted = 1))
  <1>0. /\ b.kind \in Nat /\ b.label \in Nat /\ b.cns \in {1, 2} /\ b.adjusted \in {0, 1}
        /\ b.items = 2 /\ Top(b) = b.kind + 3 + b.adjusted
    BY RowsAndColumns DEF Top
  <1> DEFINE x == CellAt(r, c)
  <1>1. MayHold(b, r, c, x)
    BY DEF Placed
  <1>2. TextAt(r, c) = x.text
    BY DEF TextAt
  <1> HIDE DEF x
  <1>3. CASE InBlock(b, r, c) /\ c = b.label
    <2>1. Label(b, r, x) /\ r \in b.kind .. Top(b) + b.cns - 1
      BY <1>1, <1>3 DEF MayHold, InBlock
    <2>2. \/ r = b.kind \/ r = b.kind + 1 \/ r = b.kind + 2
          \/ (r = b.kind + 3 /\ b.adjusted = 1) \/ r >= Top(b)
      BY <1>0, <2>1
    <2>3. CASE r = b.kind
      <3>1. x = Word("kind")
        BY <2>1, <2>3 DEF Label
      <3>2. TextAt(r, c) = "kind"
        BY <1>2, <3>1, EntryFields
      <3> QED
        BY <1>0, <1>3, <2>3, <3>2 DEF KindWords, PriceWords
    <2>4. CASE r = b.kind + 1
      <3>1. x = Word("price")
        BY <2>1, <2>4 DEF Label
      <3>2. TextAt(r, c) = "price"
        BY <1>2, <3>1, EntryFields
      <3> QED
        BY <1>0, <1>3, <2>4, <3>2 DEF KindWords, PriceWords
    <2>5. CASE r = b.kind + 2
      <3>1. x = Word("nickname/total")
        BY <2>1, <2>5 DEF Label
      <3>2. TextAt(r, c) = "nickname/total"
        BY <1>2, <3>1, EntryFields
      <3> QED
        BY <1>0, <1>3, <2>5, <3>2 DEF KindWords, PriceWords
    <2>6. CASE r = b.kind + 3 /\ b.adjusted = 1
      <3>1. x = Word("adjusted")
        BY <2>1, <2>6 DEF Label
      <3>2. TextAt(r, c) = "adjusted"
        BY <1>2, <3>1, EntryFields
      <3> QED
        BY <1>0, <1>3, <2>6, <3>2 DEF KindWords, PriceWords
    <2>7. CASE r >= Top(b)
      <3>1. x.text \in {"", "Ann", "Bob", "ann", "nickname/total"}
        BY <2>1, <2>7, EntryFields DEF Label
      <3>2. r # b.kind /\ r # b.kind + 1 /\ ~(r = b.kind + 3 /\ b.adjusted = 1)
        BY <1>0, <2>7
      <3> QED
        BY <1>2, <3>1, <3>2 DEF KindWords, PriceWords
    <2> QED
      BY <2>2, <2>3, <2>4, <2>5, <2>6, <2>7
  <1>4. CASE InBlock(b, r, c) /\ c # b.label
    <2>1. Value(b, r, c, x) /\ r \in b.kind .. Top(b) + b.cns - 1 /\ c \in b.label .. b.label + 2
      BY <1>1, <1>4 DEF MayHold, InBlock
    <2>2. x.text \in {"", "miku", "rin", "other", "digits", "x"}
      <3>1. c = b.label + 1 \/ c = b.label + 2
        BY <1>0, <1>4, <2>1
      <3>2. \/ r = b.kind \/ r = b.kind + 1 \/ r = b.kind + 2
            \/ (r = b.kind + 3 /\ b.adjusted = 1) \/ r >= Top(b)
        BY <1>0, <2>1
      <3>3. \/ \E w \in {"miku", "rin", "other", "x"} : x = Word(w)
            \/ \E n \in Int : x = Num(n) \/ x = Digits(n)
            \/ x = Empty
        BY <2>1, <3>1, <3>2 DEF Value
      <3> QED
        <4>1. ASSUME NEW w \in {"miku", "rin", "other", "x"}, x = Word(w)
              PROVE  x.text \in {"miku", "rin", "other", "x"}
          <5>1. x.text = w
            BY <4>1, EntryFields
          <5> QED
            BY <5>1
        <4>2. ASSUME NEW n \in Int, x = Num(n) \/ x = Digits(n)
              PROVE  x.text = "digits"
          BY <4>2, EntryFields
        <4>3. x = Empty => x.text = ""
          BY EntryFields
        <4> QED
          BY <3>3, <4>1, <4>2, <4>3
    <2> QED
      BY <1>2, <1>4, <2>2 DEF KindWords, PriceWords
  <1>5. CASE ~InBlock(b, r, c)
    <2>1. x.text \in {"", "digits", "badge", "25th", "stand",
                      "title", "summary", "category", "amount"}
      <3>1. CASE InTotals(b, r, c)
        BY <1>1, <3>1, EntryFields DEF MayHold
      <3>2. CASE InHeading(b, r, c)
        BY <1>1, <3>2, EntryFields DEF MayHold
      <3>3. CASE InFrame(r, c)
        <4>1. <<r, c, x>> \in Frame(layout)
          BY <1>1, <3>3 DEF MayHold
        <4>2. \E w \in {"title", "summary", "category", "amount"} : x = Word(w)
          BY <4>1 DEF Frame, OneBlock
        <4> QED
          BY <4>2, EntryFields
      <3>4. CASE ~InTotals(b, r, c) /\ ~InHeading(b, r, c) /\ ~InFrame(r, c)
        BY <1>1, <1>5, <3>4, EntryFields DEF MayHold
      <3> QED
        BY <3>1, <3>2, <3>3, <3>4
    <2>2. /\ ~(r = b.kind /\ c = b.label)
          /\ ~(c = b.label /\ (r = b.kind + 1 \/ (r = b.kind + 3 /\ b.adjusted = 1)))
      BY <1>0, <1>5 DEF InBlock
    <2> QED
      BY <1>2, <2>1, <2>2 DEF KindWords, PriceWords
  <1> QED
    BY <1>3, <1>4, <1>5

(* The cells of the block, one kind after the other.                       *)
LEMMA CellsOfBlock ==
    ASSUME NEW b, OneBlock(b), Placed(b)
    PROVE  /\ CellAt(b.kind, b.label) = Word("kind")
           /\ CellAt(b.kind + 1, b.label) = Word("price")
           /\ CellAt(b.kind + 2, b.label) = Word("nickname/total")
           /\ b.adjusted = 1 => CellAt(b.kind + 3, b.label) = Word("adjusted")
           /\ b.adjusted = 1 => CellAt(b.kind + 3, b.label + 1) = Num(-100)
           /\ CellAt(b.kind, b.label + 1) = Word("miku")
           /\ CellAt(b.kind, b.label + 2) \in {Empty, Word("miku"), Word("rin"), Word("other")}
           /\ CellAt(b.kind + 1, b.label + 1) = Num(1000)
           /\ \A r \in CNRows(b) :
                 /\ \E n \in Nat \ {0} : CellAt(r, b.label - 1) = Num(n)
                 /\ CellAt(r, b.label) \in {Empty, Word("Ann"), Word("Bob"), Word("ann"),
                                           Word("nickname/total")}
           /\ \A c \in ItemCols(b) :
                 b.heading => CellAt(b.kind - 1, c) \in
                                {Empty, Word("badge"), Word("25th"), Word("stand")}
  <1>0. /\ b.kind \in Nat /\ b.label \in Nat /\ b.cns \in {1, 2} /\ b.adjusted \in {0, 1}
        /\ b.items = 2 /\ Top(b) = b.kind + 3 + b.adjusted
    BY RowsAndColumns DEF Top
  <1>l. \A r \in b.kind .. Top(b) + b.cns - 1 : Label(b, r, CellAt(r, b.label))
    <2> SUFFICES ASSUME NEW r \in b.kind .. Top(b) + b.cns - 1
                 PROVE  Label(b, r, CellAt(r, b.label))
      OBVIOUS
    <2>1. r \in Int /\ b.label \in Int /\ InBlock(b, r, b.label)
      BY <1>0 DEF InBlock
    <2> QED
      BY <2>1 DEF Placed, MayHold
  <1>v. \A r \in b.kind .. Top(b) + b.cns - 1, c \in {b.label + 1, b.label + 2} :
          Value(b, r, c, CellAt(r, c))
    <2> SUFFICES ASSUME NEW r \in b.kind .. Top(b) + b.cns - 1,
                        NEW c, c = b.label + 1 \/ c = b.label + 2
                 PROVE  Value(b, r, c, CellAt(r, c))
      OBVIOUS
    <2>1. r \in Int /\ c \in Int /\ InBlock(b, r, c) /\ c # b.label
      BY <1>0 DEF InBlock
    <2> QED
      BY <2>1 DEF Placed, MayHold
  <1>1. /\ b.kind \in b.kind .. Top(b) + b.cns - 1 /\ b.kind + 1 \in b.kind .. Top(b) + b.cns - 1
        /\ b.kind + 2 \in b.kind .. Top(b) + b.cns - 1
        /\ b.kind + 3 \in b.kind .. Top(b) + b.cns - 1
    BY <1>0
  <1>2. /\ CellAt(b.kind, b.label) = Word("kind")
        /\ CellAt(b.kind + 1, b.label) = Word("price")
        /\ CellAt(b.kind + 2, b.label) = Word("nickname/total")
        /\ b.adjusted = 1 => CellAt(b.kind + 3, b.label) = Word("adjusted")
    BY <1>l, <1>1 DEF Label
  <1>3. /\ b.adjusted = 1 => CellAt(b.kind + 3, b.label + 1) = Num(-100)
        /\ CellAt(b.kind, b.label + 1) = Word("miku")
        /\ CellAt(b.kind, b.label + 2) \in {Empty, Word("miku"), Word("rin"), Word("other")}
        /\ CellAt(b.kind + 1, b.label + 1) = Num(1000)
    BY <1>v, <1>1 DEF Value
  <1>4. ASSUME NEW r \in CNRows(b)
        PROVE  /\ \E n \in Nat \ {0} : CellAt(r, b.label - 1) = Num(n)
               /\ CellAt(r, b.label) \in {Empty, Word("Ann"), Word("Bob"), Word("ann"),
                                         Word("nickname/total")}
    <2>1. r \in Top(b) .. Top(b) + b.cns - 1
      BY RowsAndColumns
    <2>2. r \in b.kind .. Top(b) + b.cns - 1 /\ r >= Top(b) /\ r \in Int /\ b.label - 1 \in Int
      BY <1>0, <2>1
    <2>3. InTotals(b, r, b.label - 1)
      BY <2>1 DEF InTotals
    <2>4. CellAt(r, b.label - 1) \in {Num(n) : n \in Nat \ {0}}
      BY <2>2, <2>3 DEF Placed, MayHold
    <2>5. Label(b, r, CellAt(r, b.label))
      BY <1>l, <2>2
    <2> QED
      BY <2>2, <2>4, <2>5 DEF Label
  <1>5. ASSUME NEW c \in ItemCols(b), b.heading
        PROVE  CellAt(b.kind - 1, c) \in {Empty, Word("badge"), Word("25th"), Word("stand")}
    <2>1. c = b.label + 1 \/ c = b.label + 2
      BY RowsAndColumns
    <2>2. b.kind - 1 \in Int /\ c \in Int /\ InHeading(b, b.kind - 1, c)
      BY <1>0, <1>5, <2>1 DEF InHeading
    <2> QED
      BY <2>2 DEF Placed, MayHold
  <1> QED
    BY <1>2, <1>3, <1>4, <1>5

(* Right of the label nothing is written but in the block's own columns.   *)
LEMMA NothingRight ==
    ASSUME NEW b, OneBlock(b), Placed(b), NEW r \in Int, NEW c \in Int, c > b.label,
           r <= b.kind \/ r >= Top(b),
           c > b.label + 2 \/ r < b.kind - 1 \/ (r = b.kind - 1 /\ ~b.heading)
           \/ r >= Top(b) + b.cns
    PROVE  CellAt(r, c) = Empty
  <1>0. /\ b.kind \in Nat /\ b.label \in Nat \ {0} /\ b.cns \in {1, 2} /\ b.adjusted \in {0, 1}
        /\ b.items = 2 /\ Top(b) = b.kind + 3 + b.adjusted
        /\ layout.template = "standard" => b.label = 1
    BY RowsAndColumns DEF Top, OneBlock
  <1>1. ~InBlock(b, r, c)
    BY <1>0 DEF InBlock
  <1>2. ~InTotals(b, r, c)
    BY <1>0 DEF InTotals
  <1>3. ~InHeading(b, r, c)
    BY <1>0 DEF InHeading
  <1>4. ~InFrame(r, c)
    BY <1>0 DEF InFrame
  <1> QED
    BY <1>1, <1>2, <1>3, <1>4, Blank

(* A total above zero stands left of every CN.                             *)
LEMMA TotalsOfBlock ==
    ASSUME NEW b, OneBlock(b), Placed(b), NEW r \in CNRows(b)
    PROVE  /\ \E n \in Nat \ {0} : NumberAt(r, b.label - 1) = {n}
           /\ TextAt(r, b.label - 1) = "digits"
  <1>1. PICK n \in Nat \ {0} : CellAt(r, b.label - 1) = Num(n)
    BY CellsOfBlock
  <1>2. NumberAt(r, b.label - 1) = {n} /\ TextAt(r, b.label - 1) = "digits"
    BY <1>1, NumberCell
  <1> QED
    BY <1>2

(* What a heading may say.                                                 *)
LEMMA HeadingsOfBlock ==
    ASSUME NEW b, OneBlock(b), Placed(b), b.heading, NEW c \in ItemCols(b)
    PROVE  /\ TextAt(b.kind - 1, c) \in {"", "badge", "25th", "stand"}
           /\ CellAt(b.kind - 1, c).value = {}
  <1>1. \/ CellAt(b.kind - 1, c) = Empty
        \/ \E w \in {"badge", "25th", "stand"} : CellAt(b.kind - 1, c) = Word(w)
    BY CellsOfBlock
  <1> QED
    BY <1>1, EntryFields DEF TextAt

(* The labels of the block, its first item and its first price.            *)
LEMMA TextsOfBlock ==
    ASSUME NEW b, OneBlock(b), Placed(b)
    PROVE  /\ TextAt(b.kind, b.label) = "kind" /\ TextAt(b.kind + 1, b.label) = "price"
           /\ TextAt(b.kind + 2, b.label) = "nickname/total"
           /\ b.adjusted = 1 => TextAt(b.kind + 3, b.label) = "adjusted"
                               /\ NumberAt(b.kind + 3, b.label + 1) = {-100}
           /\ TextAt(b.kind, b.label + 1) = "miku" /\ IsWord(b.kind, b.label + 1)
           /\ NumberAt(b.kind + 1, b.label + 1) = {1000}
  <1>1. /\ CellAt(b.kind, b.label) = Word("kind")
        /\ CellAt(b.kind + 1, b.label) = Word("price")
        /\ CellAt(b.kind + 2, b.label) = Word("nickname/total")
        /\ b.adjusted = 1 => CellAt(b.kind + 3, b.label) = Word("adjusted")
        /\ b.adjusted = 1 => CellAt(b.kind + 3, b.label + 1) = Num(-100)
        /\ CellAt(b.kind, b.label + 1) = Word("miku")
        /\ CellAt(b.kind + 1, b.label + 1) = Num(1000)
    BY CellsOfBlock
  <1>2. /\ TextAt(b.kind, b.label) = "kind" /\ TextAt(b.kind + 1, b.label) = "price"
        /\ TextAt(b.kind + 2, b.label) = "nickname/total"
        /\ b.adjusted = 1 => TextAt(b.kind + 3, b.label) = "adjusted"
        /\ TextAt(b.kind, b.label + 1) = "miku" /\ IsWord(b.kind, b.label + 1)
    <2>1. TextAt(b.kind, b.label) = "kind"
      <3>1. CellAt(b.kind, b.label) = Word("kind")
        BY <1>1
      <3> QED
        BY <3>1, WordCell
    <2>2. TextAt(b.kind + 1, b.label) = "price"
      <3>1. CellAt(b.kind + 1, b.label) = Word("price")
        BY <1>1
      <3> QED
        BY <3>1, WordCell
    <2>3. TextAt(b.kind + 2, b.label) = "nickname/total"
      <3>1. CellAt(b.kind + 2, b.label) = Word("nickname/total")
        BY <1>1
      <3> QED
        BY <3>1, WordCell
    <2>4. b.adjusted = 1 => TextAt(b.kind + 3, b.label) = "adjusted"
      <3>1. b.adjusted = 1 => CellAt(b.kind + 3, b.label) = Word("adjusted")
        BY <1>1
      <3> QED
        BY <3>1, WordCell
    <2>5. TextAt(b.kind, b.label + 1) = "miku"
      <3>1. CellAt(b.kind, b.label + 1) = Word("miku")
        BY <1>1
      <3> QED
        BY <3>1, WordCell
    <2>6. IsWord(b.kind, b.label + 1)
      <3>1. CellAt(b.kind, b.label + 1) = Word("miku") /\ "miku" # ""
        BY <1>1
      <3> QED
        BY <3>1, WordCell
    <2> QED
      BY <2>1, <2>2, <2>3, <2>4, <2>5, <2>6
  <1>3. /\ b.adjusted = 1 => NumberAt(b.kind + 3, b.label + 1) = {-100}
        /\ NumberAt(b.kind + 1, b.label + 1) = {1000}
    BY <1>1, NumberCell
  <1> QED
    BY <1>2, <1>3

At(b) == [kind |-> b.kind, label |-> b.label]

(* The block is found where it is, and no other.                           *)
LEMMA BlockFound ==
    ASSUME NEW b, OneBlock(b), Placed(b)
    PROVE  MatrixBlocks = {At(b)}
  <1>0. /\ b.kind \in Nat /\ b.label \in Nat \ {0} /\ b.adjusted \in {0, 1}
        /\ layout.rows \in Nat /\ layout.cols \in Nat
        /\ b.kind <= layout.rows - 3 /\ b.label + 2 < layout.cols
    BY DEF OneBlock
  <1>1. ASSUME NEW x \in MatrixBlocks PROVE x = At(b)
    <2>1. /\ x \in [kind : 0 .. RowCount - 3, label : 0 .. layout.cols - 1]
          /\ PriceLabel(x.kind + 1, x.label) /\ LooksLikeKind(x.kind, x.label)
      BY <1>1 DEF MatrixBlocks
    <2>2. x = [kind |-> x.kind, label |-> x.label] /\ x.kind \in Int /\ x.label \in Int
      BY <1>0, <2>1 DEF RowCount
    <2>3. /\ x.label = b.label
          /\ x.kind + 1 = b.kind + 1 \/ (x.kind + 1 = b.kind + 3 /\ b.adjusted = 1)
      BY <2>1, <2>2, WordsApart DEF PriceLabel
    <2>4. x.kind # b.kind + 2
      <3>1. SUFFICES ASSUME x.kind = b.kind + 2 PROVE FALSE
        OBVIOUS
      <3>2. TextAt(x.kind, x.label) = "nickname/total"
        <4>1. TextAt(b.kind + 2, b.label) = "nickname/total"
          BY TextsOfBlock
        <4> QED
          BY <2>3, <3>1, <4>1
      <3> QED
        BY <2>1, <3>2 DEF LooksLikeKind, KindWords, Reserved
    <2>5. x.kind = b.kind
      BY <1>0, <2>2, <2>3, <2>4
    <2> QED
      BY <2>2, <2>3, <2>5 DEF At
  <1>2. b.label + 1 \in RightOf(b.label)
    BY <1>0 DEF RightOf
  <1>3. PriceLabel(b.kind + 1, b.label)
    <2>1. TextAt(b.kind + 1, b.label) = "price"
      BY TextsOfBlock
    <2>2. NumberAt(b.kind + 1, b.label + 1) = {1000}
      BY TextsOfBlock
    <2> QED
      BY <1>2, <2>1, <2>2 DEF PriceLabel, NumberRight, PriceWords
  <1>4. LooksLikeKind(b.kind, b.label)
    BY TextsOfBlock DEF LooksLikeKind, KindWords
  <1>5. WordRight(b.kind, b.label)
    <2>1. IsWord(b.kind, b.label + 1)
      BY TextsOfBlock
    <2> QED
      BY <1>2, <2>1 DEF WordRight
  <1>6. At(b) \in [kind : 0 .. RowCount - 3, label : 0 .. layout.cols - 1]
    BY <1>0 DEF At, RowCount
  <1>7. At(b).kind = b.kind /\ At(b).label = b.label
    BY DEF At
  <1>8. At(b) \in MatrixBlocks
    BY <1>3, <1>4, <1>5, <1>6, <1>7 DEF MatrixBlocks
  <1> QED
    BY <1>1, <1>8

(* The rows of CNs begin below the prices and go to the end of the sheet.  *)
LEMMA RowsOfBlock ==
    ASSUME NEW b, OneBlock(b), Placed(b)
    PROVE  DataRows(At(b)) = Top(b) .. RowCount - 1
  <1>0. /\ b.kind \in Nat /\ b.label \in Nat \ {0} /\ b.adjusted \in {0, 1} /\ b.cns \in {1, 2}
        /\ RowCount \in Nat /\ layout.cols \in Nat /\ Top(b) = b.kind + 3 + b.adjusted
        /\ Top(b) < RowCount /\ b.label + 2 < layout.cols
    BY DEF OneBlock, Top, RowCount
  <1>1. At(b).kind = b.kind /\ At(b).label = b.label
    BY DEF At
  <1>2. EndRow(At(b)) = RowCount
    <2>1. {o \in MatrixBlocks : o.kind > At(b).kind} = {}
      BY <1>0, <1>1, BlockFound
    <2> QED
      BY <2>1 DEF EndRow
  <1> DEFINE S == {r \in b.kind + 3 .. RowCount :
                     r >= RowCount \/ r = RowCount \/ ~AdjustmentRow(r, b.label)}
  <1>3. Top(b) \in S
    <2>1. Top(b) \in CNRows(b)
      BY <1>0, RowsAndColumns
    <2>3. TextAt(Top(b), b.label - 1) = "digits"
      BY <2>1, TotalsOfBlock
    <2>4. TextAt(Top(b), b.label) \notin PriceWords
      BY <1>0, WordsApart
    <2>5. ~AdjustmentRow(Top(b), b.label)
      BY <2>3, <2>4 DEF AdjustmentRow
    <2> QED
      BY <1>0, <2>5
  <1>4. \A r \in S : r >= Top(b)
    <2> SUFFICES ASSUME NEW r \in b.kind + 3 .. RowCount, r < Top(b)
                 PROVE  r < RowCount /\ AdjustmentRow(r, b.label)
      BY <1>0
    <2>1. r = b.kind + 3 /\ b.adjusted = 1 /\ r < RowCount
      BY <1>0
    <2>2. TextAt(r, b.label) = "adjusted"
      BY <1>0, <2>1, TextsOfBlock
    <2>3. NumberAt(r, b.label + 1) = {-100}
      BY <1>0, <2>1, TextsOfBlock
    <2>4. b.label + 1 \in RightOf(b.label)
      BY <1>0 DEF RightOf
    <2> QED
      BY <2>1, <2>2, <2>3, <2>4 DEF AdjustmentRow, NumberRight, PriceWords, Reserved
  <1>5. Min(S) = Top(b)
    <2>1. \A r \in S : r \in Int
      BY <1>0
    <2> HIDE DEF S
    <2> QED
      BY <1>0, <1>3, <1>4, <2>1 DEF Min
  <1> QED
    BY <1>1, <1>2, <1>5 DEF DataRows

(* No other block ends the columns of this one.                            *)
LEMMA ColumnsOfBlock ==
    ASSUME NEW b, OneBlock(b), Placed(b)
    PROVE  BlockColumns(At(b)) = RightOf(b.label)
  <1>0. b.kind \in Nat /\ b.label \in Nat /\ layout.cols \in Nat
    BY DEF OneBlock
  <1>1. At(b).kind = b.kind /\ At(b).label = b.label
    BY DEF At
  <1>2. ASSUME NEW c \in RightOf(b.label), NEW d \in b.label + 2 .. c
        PROVE  TextAt(b.kind, d) \notin KindWords
    <2>1. d \in Int /\ d # b.label
      BY <1>0, <1>2 DEF RightOf
    <2> QED
      BY <1>0, <2>1, WordsApart
  <1> QED
    BY <1>1, <1>2 DEF BlockColumns

(* Its CNs and its items are those that were written.                      *)
LEMMA CNsFound ==
    ASSUME NEW b, OneBlock(b), Placed(b), NEW r \in Top(b) .. RowCount - 1
    PROVE  IsCN(r, b.label) <=> r \in CNRows(b) /\ IsCN(r, b.label)
  <1>0. /\ b.kind \in Nat /\ b.label \in Nat \ {0} /\ b.adjusted \in {0, 1} /\ b.cns \in {1, 2}
        /\ RowCount \in Nat /\ Top(b) = b.kind + 3 + b.adjusted
        /\ CNRows(b) = Top(b) .. Top(b) + b.cns - 1
    BY RowsAndColumns DEF OneBlock, Top, RowCount
  <1> SUFFICES ASSUME r \notin CNRows(b) PROVE ~IsCN(r, b.label)
    OBVIOUS
  <1>1. r >= Top(b) + b.cns /\ r \in Int
    BY <1>0
  <1>2. ~InBlock(b, r, b.label)
    BY <1>0, <1>1 DEF InBlock
  <1>3. ~InTotals(b, r, b.label)
    BY <1>0, <1>1 DEF InTotals
  <1>4. ~InHeading(b, r, b.label)
    BY <1>0, <1>1 DEF InHeading
  <1>5. ~InFrame(r, b.label)
    BY <1>0, <1>1 DEF InFrame
  <1>6. CellAt(r, b.label) = Empty
    BY <1>0, <1>1, <1>2, <1>3, <1>4, <1>5, Blank
  <1> QED
    BY <1>6, EntryFields DEF IsCN, TextAt

(* Titles stand in the columns of the items and nowhere right of them.     *)
LEMMA ItemsFound ==
    ASSUME NEW b, OneBlock(b), Placed(b)
    PROVE  /\ ItemCols(b) \subseteq RightOf(b.label)
           /\ \A c \in RightOf(b.label) : TextAt(b.kind, c) # "" => c \in ItemCols(b)
  <1>0. /\ b.kind \in Nat /\ b.label \in Nat \ {0} /\ b.adjusted \in {0, 1} /\ b.cns \in {1, 2}
        /\ layout.cols \in Nat /\ b.label + 2 < layout.cols
        /\ ItemCols(b) = b.label + 1 .. b.label + 2
    BY RowsAndColumns DEF OneBlock
  <1>1. ItemCols(b) \subseteq RightOf(b.label)
    BY <1>0 DEF RightOf
  <1>2. ASSUME NEW c \in RightOf(b.label), c \notin ItemCols(b) PROVE TextAt(b.kind, c) = ""
    <2>1. c \in Int /\ c > b.label + 2 /\ c > b.label
      BY <1>0, <1>2 DEF RightOf
    <2>2. CellAt(b.kind, c) = Empty
      BY <1>0, <2>1, NothingRight
    <2> QED
      BY <2>2, EntryFields DEF TextAt
  <1> QED
    BY <1>1, <1>2

(* The distinct headings of the rows above, in the order of the rows.      *)
Path(fresh, parts) ==
    [k \in 1 .. Cardinality(fresh) |->
        parts[CHOOSE i \in fresh : Cardinality({j \in fresh : j <= i}) = k]]

(* No heading makes no path,                                               *)
LEMMA EmptyPath == ASSUME NEW parts PROVE Path({}, parts) = <<>>
  <1>1. Cardinality({}) = 0
    BY FS_EmptySet
  <1>2. 1 .. Cardinality({}) = {}
    BY <1>1
  <1> QED
    BY <1>2 DEF Path

(* and one heading makes a path of one.                                    *)
LEMMA SinglePath == ASSUME NEW u \in Int, NEW parts PROVE Path({u}, parts) = <<parts[u]>>
  <1> DEFINE p(k) == CHOOSE i \in {u} : Cardinality({j \in {u} : j <= i}) = k
  <1>1. Cardinality({u}) = 1
    BY FS_Singleton
  <1>2. 1 .. Cardinality({u}) = {1}
    BY <1>1
  <1>3. {j \in {u} : j <= u} = {u}
    OBVIOUS
  <1>4. p(1) = u
    BY <1>1, <1>3
  <1> HIDE DEF p
  <1>5. [k \in 1 .. Cardinality({u}) |-> parts[p(k)]] = <<parts[u]>>
    BY <1>2, <1>4
  <1> QED
    BY <1>5 DEF p, Path

(* The numbers up to n, for FreshRows.                                     *)
LEMMA UpTo ==
    \A n \in Nat : /\ n # 0 => n \in 1 .. n
                  /\ \A i \in 1 .. n : n # 0
  OBVIOUS

(* The numbers below n, for FreshRows.                                     *)
LEMMA Below == ASSUME NEW n \in Nat, NEW i \in 1 .. n - 1 PROVE i \in 1 .. n /\ i # n
  OBVIOUS

(* Of the rows above, only the last may have a heading.                    *)
LEMMA FreshRows ==
   ASSUME NEW up \in Nat, NEW parts, NEW fresh,
          fresh = {i \in 1 .. up : parts[i] # "" /\ \A j \in 1 .. i - 1 : parts[j] # parts[i]},
          \A i \in 1 .. up : parts[i] # "" => i = up
   PROVE  fresh = IF up = 0 \/ parts[up] = "" THEN {} ELSE {up}
  <1>1. \A i \in fresh : up # 0 /\ parts[up] # "" /\ i = up
    BY UpTo, Zenon
  <1>2. up # 0 /\ parts[up] # "" => up \in fresh
    <2>1. SUFFICES ASSUME up # 0, parts[up] # "" PROVE up \in fresh
      OBVIOUS
    <2>2. up \in 1 .. up 
      BY <2>1, UpTo, Zenon
    <2>3. ASSUME NEW j \in 1 .. up - 1 PROVE parts[j] # parts[up]
      <3>1. j \in 1 .. up /\ j # up
        BY Below, Zenon
      <3> QED
        BY <2>1, <3>1
    <2> QED
      BY <2>1, <2>2, <2>3
  <1> QED
    BY <1>1, <1>2

(* What is read of the block: the cells of its CNs and items, each with    *)
(* the heading above it.                                                   *)
LEMMA HeadingIsWritten ==
    ASSUME NEW b, OneBlock(b), Placed(b), NEW c \in ItemCols(b)
    PROVE  CategoryPath(At(b), c) = HeadingOf(b, c)
  <1>0. /\ b.kind \in Nat /\ b.label \in Nat \ {0} /\ b.heading \in BOOLEAN
        /\ layout.cols \in Nat /\ b.label + 2 < layout.cols /\ (b.heading => b.kind > 0)
    BY DEF OneBlock
  <1>i. ItemCols(b) = {b.label + 1, b.label + 2}
    BY RowsAndColumns
  <1> DEFINE cols == BlockColumns(At(b))
             kind == At(b).kind
             up == Min({4, kind})
             parts == [i \in 1 .. up |-> Inherited(cols, kind - up + i - 1, c)]
             fresh == {i \in 1 .. up : parts[i] # "" /\ \A j \in 1 .. i - 1 : parts[j] # parts[i]}
             at == {d \in ItemCols(b) : d <= c /\ TextAt(b.kind - 1, d) # ""}
  <1>1. CategoryPath(At(b), c) = Path(fresh, parts)
    BY DEF CategoryPath, Path
  <1>2. kind = b.kind
    BY DEF At
  <1>3. up \in Nat /\ up <= b.kind /\ (b.kind > 0 => up > 0)
    BY <1>0, <1>2 DEF Min
  <1>4. cols = RightOf(b.label)
    BY ColumnsOfBlock
  <1>5. ItemCols(b) \subseteq cols /\ \A d \in cols : d \in Int /\ d > b.label
    <2>1. ItemCols(b) \subseteq RightOf(b.label)
      BY ItemsFound
    <2>2. \A d \in RightOf(b.label) : d \in Int /\ d > b.label
      BY <1>0 DEF RightOf
    <2> HIDE DEF cols
    <2> QED
      BY <1>4, <2>1, <2>2
  <1>6. ASSUME NEW r \in Int, r < b.kind - 1 \/ (r = b.kind - 1 /\ ~b.heading)
        PROVE  Inherited(cols, r, c) = ""
    <2>1. ASSUME NEW d \in cols PROVE Heading(r, d) = ""
      <3>1. CellAt(r, d) = Empty
        BY <1>0, <1>5, <1>6, <2>1, NothingRight
      <3> QED
        BY <3>1, EmptyCell DEF Heading
    <2>2. {d \in cols : d <= c /\ Heading(r, d) # ""} = {}
      BY <2>1
    <2> QED
      BY <2>2 DEF Inherited
  <1>7. ASSUME b.heading, NEW d \in cols
        PROVE  /\ Heading(b.kind - 1, d) = TextAt(b.kind - 1, d)
               /\ TextAt(b.kind - 1, d) # "" => d \in ItemCols(b)
    <2>1. CASE d \in ItemCols(b)
      <3>1. /\ TextAt(b.kind - 1, d) \in {"", "badge", "25th", "stand"}
            /\ CellAt(b.kind - 1, d).value = {}
        BY <1>7, <2>1, HeadingsOfBlock
      <3> QED
        BY <2>1, <3>1 DEF Heading, IsWord, KindWords, PriceWords, Reserved
    <2>2. CASE d \notin ItemCols(b)
      <3>1. d > b.label + 2 /\ d \in Int /\ b.kind - 1 \in Int /\ b.kind - 1 <= b.kind
        BY <1>0, <1>5, <1>i, <2>2
      <3>2. CellAt(b.kind - 1, d) = Empty
        BY <1>0, <3>1, NothingRight
      <3> QED
        BY <3>2, EmptyCell DEF Heading
    <2> QED
      BY <2>1, <2>2
  <1>8. \A i \in 1 .. up : parts[i] = Inherited(cols, kind - up + i - 1, c)
    OBVIOUS
  <1>9. ASSUME NEW i \in 1 .. up, i < up \/ ~b.heading
        PROVE  parts[i] = ""
    <2>1. /\ kind - up + i - 1 \in Int
          /\ kind - up + i - 1 < b.kind - 1 \/ (kind - up + i - 1 = b.kind - 1 /\ ~b.heading)
      BY <1>0, <1>2, <1>3, <1>9
    <2> HIDE DEF up, parts, kind, cols
    <2> QED
      BY <1>6, <1>8, <2>1
  <1>10. fresh = IF up = 0 \/ parts[up] = "" THEN {} ELSE {up}
    <2>1. ASSUME NEW i \in 1 .. up, parts[i] # "" PROVE i = up
      <3>1. ~(i < up)
        BY <1>9, <2>1
      <3> HIDE DEF up, parts
      <3> QED
        BY <1>3, <3>1
    <2> HIDE DEF up, parts
    <2> QED
      BY <1>3, <2>1, FreshRows
  <1>11. CASE ~b.heading
    <2>1. fresh = {}
      <3> HIDE DEF up, parts, fresh
      <3>1. up # 0 => up \in 1 .. up
        BY <1>3
      <3> QED
        BY <1>9, <1>10, <1>11, <3>1
    <2> HIDE DEF fresh, parts
    <2>2. CategoryPath(At(b), c) = <<>>
      BY <1>1, <2>1, EmptyPath
    <2> QED
      BY <1>11, <2>2 DEF HeadingOf
  <1>12. CASE b.heading
    <2>1. up \in 1 .. up /\ kind - up + up - 1 = b.kind - 1
      BY <1>0, <1>2, <1>3, <1>12
    <2>2. {d \in cols : d <= c /\ Heading(b.kind - 1, d) # ""} = at
      BY <1>5, <1>7, <1>12
    <2>3. parts[up] = Inherited(cols, b.kind - 1, c)
      BY <1>8, <2>1
    <2>4. parts[up] = IF at = {} THEN "" ELSE Heading(b.kind - 1, Max(at))
      BY <2>2, <2>3 DEF Inherited
    <2>5. CASE at = {}
      <3> HIDE DEF fresh, parts, up, at
      <3>1. fresh = {}
        BY <1>10, <2>4, <2>5
      <3>2. CategoryPath(At(b), c) = <<>>
        BY <1>1, <3>1, EmptyPath
      <3> QED
        BY <2>5, <3>2 DEF HeadingOf, at
    <2>6. CASE at # {}
      <3>1. Max(at) \in at
        <4>1. \A d \in at : d = b.label + 1 \/ d = b.label + 2
          BY <1>i
        <4> HIDE DEF at
        <4>2. \E d \in at : \A e \in at : d >= e
          BY <1>0, <2>6, <4>1
        <4> QED
          BY <4>2 DEF Max
      <3>2. parts[up] = TextAt(b.kind - 1, Max(at)) /\ parts[up] # ""
        <4> HIDE DEF at, cols, parts, up
        <4>1. Max(at) \in cols /\ TextAt(b.kind - 1, Max(at)) # ""
          BY <1>5, <3>1 DEF at
        <4>2. Heading(b.kind - 1, Max(at)) = TextAt(b.kind - 1, Max(at))
          BY <1>7, <1>12, <4>1
        <4> QED
          BY <2>4, <2>6, <4>1, <4>2
      <3> HIDE DEF fresh, parts, up, at
      <3>3. fresh = {up} /\ up \in Int
        <4>1. up # 0 /\ up \in Int
          BY <1>0, <1>3, <1>12
        <4>2. ~(parts[up] = "")
          BY <3>2
        <4>3. ~(up = 0 \/ parts[up] = "")
          BY <4>1, <4>2, Zenon
        <4>4. fresh = {up}
          BY <1>10, <4>3, Zenon
        <4> QED
          BY <4>1, <4>4
      <3>4. CategoryPath(At(b), c) = <<parts[up]>>
        BY <1>1, <3>3, SinglePath
      <3> QED
        BY <1>12, <2>6, <3>2, <3>4 DEF HeadingOf, at
    <2> QED
      BY <2>5, <2>6
  <1> QED
    BY <1>0, <1>11, <1>12

(* The lines of a block are finitely many.                                 *)
LEMMA FiniteLines ==
    ASSUME NEW b, OneBlock(b)
    PROVE  /\ IsFiniteSet(WrittenLines(b))
           /\ WrittenLines(b) \subseteq CNRows(b) \X ItemCols(b)
  <1>1. WrittenLines(b) \subseteq CNRows(b) \X ItemCols(b)
    BY DEF WrittenLines
  <1>2. IsFiniteSet(CNRows(b))
    <2>1. Top(b) \in Int /\ Top(b) + b.cns - 1 \in Int
      BY RowsAndColumns
    <2>2. IsFiniteSet(Top(b) .. Top(b) + b.cns - 1)
      BY <2>1, FS_Interval
    <2> QED
      BY <2>2, RowsAndColumns
  <1>3. IsFiniteSet(ItemCols(b))
    <2>1. b.label + 1 \in Int /\ b.label + 2 \in Int
      BY RowsAndColumns
    <2>2. IsFiniteSet(b.label + 1 .. b.label + 2)
      BY <2>1, FS_Interval
    <2> QED
      BY <2>2, RowsAndColumns
  <1>4. IsFiniteSet(CNRows(b) \X ItemCols(b))
    BY <1>2, <1>3, FS_Product
  <1> QED
    BY <1>1, <1>4, FS_Subset

(* Lines read at different cells are as many as the cells.                 *)
LEMMA OneLineEach ==
    ASSUME NEW b, NEW S, NEW line, IsFiniteSet(S), DOMAIN line = S, line = [p \in S |-> line[p]],
           \A p \in S : line[p].at = p
    PROVE  Cardinality(Range(line)) = Cardinality({<<b, p>> : p \in S})
  <1>1. Range(line) = {line[p] : p \in S}
    BY DEF Range
  <1>2. line \in Bijection(S, Range(line))
    <2>1. line \in [S -> Range(line)]
      BY <1>1
    <2>2. \A p, q \in S : line[p] = line[q] => p = q
      OBVIOUS
    <2> QED
      BY <1>1, <2>1, <2>2 DEF Bijection, Injection, Surjection, IsInjective
  <1>3. Cardinality(Range(line)) = Cardinality(S)
    BY <1>2, FS_Bijection DEF ExistsBijection
  <1> DEFINE T == {<<b, p>> : p \in S}
             pair == [p \in S |-> <<b, p>>]
  <1>4. pair \in Bijection(S, T)
    BY DEF Bijection, Injection, Surjection, IsInjective
  <1>5. Cardinality(T) = Cardinality(S)
    <2> HIDE DEF T, pair
    <2> QED
      BY <1>4, FS_Bijection DEF ExistsBijection
  <1> QED
    BY <1>3, <1>5

(* The fields of a line read at a cell.                                    *)
LEMMA LineFields ==
    ASSUME NEW b, NEW r, NEW c, NEW category
    PROVE  /\ Line(At(b), r, c, category).at = <<r, c>>
           /\ Line(At(b), r, c, category).cn = Normal(TextAt(r, b.label))
           /\ Line(At(b), r, c, category).item = TextAt(b.kind, c)
           /\ Line(At(b), r, c, category).category = category
           /\ Line(At(b), r, c, category).amount =
                 QuantityOf(CellAt(r, c)) * Amount(b.kind + 1, c)
  <1>1. At(b).kind = b.kind /\ At(b).label = b.label
    BY DEF At
  <1> QED
    BY <1>1 DEF Line

(* A row of CNs has its total left of the CN.                              *)
LEMMA TotalIsRead ==
    ASSUME NEW b, OneBlock(b), Placed(b), NEW r \in CNRows(b)
    PROVE  LET amount == Amount(r, Max({At(b).label - 1, 0}))
           IN  (IF amount > 0 THEN amount ELSE 0) = Amount(r, b.label - 1)
  <1>1. At(b).label = b.label /\ b.label \in Nat \ {0}
    BY DEF At, OneBlock
  <1>2. Max({b.label - 1, 0}) = b.label - 1
    BY <1>1 DEF Max
  <1>3. PICK n \in Nat \ {0} : NumberAt(r, b.label - 1) = {n}
    BY TotalsOfBlock
  <1>4. Amount(r, b.label - 1) = n
    BY <1>3, MostOfOne DEF Amount
  <1> QED
    BY <1>1, <1>2, <1>4

(* The sheet is read as one block of the rows, and of the columns of       *)
(* category, that were written: what is read of it is E, which may report  *)
(* a title of the standard template besides.                               *)
AsWritten(b, rows, category, more, E) ==
    LET reading == Reading(At(b), rows, category, more)
    IN  /\ ParseSheet = {E}
        /\ rows \X DOMAIN category = WrittenLines(b)
        /\ rows = {p[1] : p \in WrittenLines(b)} /\ rows \subseteq CNRows(b)
        /\ "amount_mismatch" \notin more
        /\ \A c \in DOMAIN category : category[c] \in
              {HeadingOf(b, c), ProductCategory(SheetTitle, HeadingOf(b, c))}
        /\ E.lines = reading.lines /\ E.warnings = reading.warnings
        /\ \A p : p \in reading.errors =>
              p \in E.errors /\ (p[1] # 2 \/ layout.template # "standard")
        /\ \A p \in E.errors :
              p \in reading.errors \/ (p[1] = 2 /\ layout.template = "standard")

(* What is promised of a sheet holds when its one block is read as it was  *)
(* written.                                                                *)
LEMMA ReadAsWritten ==
    ASSUME NEW b, OneBlock(b), Placed(b), NEW rows, NEW category, NEW more, NEW E,
           AsWritten(b, rows, category, more, E)
    PROVE  EveryQuantityOnce /\ QuantitiesExpand
  <1> DEFINE W == WrittenLines(b)
             ok == {p \in rows \X DOMAIN category : Positive(CellAt(p[1], p[2]))}
             line == [p \in ok |-> Line(At(b), p[1], p[2], category[p[2]])]
             wrong == {p \in rows \X DOMAIN category : ~ValidQuantity(CellAt(p[1], p[2]))}
             table == [r \in rows |-> LET amount == Amount(r, Max({At(b).label - 1, 0}))
                                      IN  IF amount > 0 THEN amount ELSE 0]
             amounts == [p \in DOMAIN line |-> line[p].amount]
             off == SumFunction(table) - SumFunction(amounts)
  <1>1. /\ LinesRead = Range(line)
        /\ ErrorsRead = E.errors
        /\ WarningsRead = more \cup (IF off > 1 \/ off < -1 THEN {"amount_mismatch"} ELSE {})
    <2>1. /\ Reading(At(b), rows, category, more).lines = Range(line)
          /\ Reading(At(b), rows, category, more).warnings =
                more \cup (IF off > 1 \/ off < -1 THEN {"amount_mismatch"} ELSE {})
      BY DEF Reading
    <2>2. /\ ParseSheet = {E} /\ E.lines = Reading(At(b), rows, category, more).lines
          /\ E.warnings = Reading(At(b), rows, category, more).warnings
      BY DEF AsWritten
    <2> HIDE DEF line, off
    <2> QED
      BY <2>1, <2>2 DEF LinesRead, ErrorsRead, WarningsRead
  <1>2. Reading(At(b), rows, category, more).errors = wrong
    BY DEF Reading
  <1>3. /\ ok = {p \in W : Positive(CellAt(p[1], p[2]))}
        /\ wrong = {p \in W : ~ValidQuantity(CellAt(p[1], p[2]))}
    BY DEF AsWritten
  <1>4. /\ DOMAIN line = ok /\ line = [p \in ok |-> line[p]]
        /\ \A p \in ok : /\ line[p].at = p /\ line[p].cn = Normal(TextAt(p[1], b.label))
                         /\ line[p].item = TextAt(b.kind, p[2])
                         /\ line[p].category = category[p[2]]
                         /\ line[p].amount = QuantityOf(CellAt(p[1], p[2])) * Amount(b.kind + 1, p[2])
    <2>1. ASSUME NEW p \in ok
          PROVE  line[p].at = p /\ line[p].cn = Normal(TextAt(p[1], b.label))
                         /\ line[p].item = TextAt(b.kind, p[2])
                         /\ line[p].category = category[p[2]]
                         /\ line[p].amount = QuantityOf(CellAt(p[1], p[2])) * Amount(b.kind + 1, p[2])
      <3>1. line[p] = Line(At(b), p[1], p[2], category[p[2]])
        OBVIOUS
      <3>2. p = <<p[1], p[2]>>
        OBVIOUS
      <3> HIDE DEF line
      <3> QED
        BY <3>1, <3>2, LineFields
    <2>2. DOMAIN line = ok /\ line = [p \in ok |-> line[p]]
      OBVIOUS
    <2> QED
      BY <2>1, <2>2
  <1>5. IsFiniteSet(ok)
    BY <1>3, FiniteLines, FS_Subset
  <1>6. Range(layout.blocks) = {b} /\ layout.template # "simple"
    BY DEF OneBlock, Range
  <1>7. off > 1 \/ off < -1 <=> TotalsOff(b)
    <2>1. table = [r \in {p[1] : p \in W} |-> Amount(r, b.label - 1)]
      <3>1. rows = {p[1] : p \in W} /\ rows \subseteq CNRows(b)
        BY DEF AsWritten
      <3> QED
        BY <3>1, TotalIsRead
    <2>2. amounts = [p \in {p \in W : Positive(CellAt(p[1], p[2]))} |->
                       QuantityOf(CellAt(p[1], p[2])) * Amount(b.kind + 1, p[2])]
      <3> HIDE DEF line, ok
      <3> QED
        BY <1>3, <1>4
    <2> HIDE DEF table, amounts
    <2> QED
      BY <2>1, <2>2 DEF TotalsOff
  <1> HIDE DEF line, ok, off, wrong, W
  <1>8. Range(line) = {line[p] : p \in ok}
    BY <1>4 DEF Range
  <1> DEFINE cells == {<<b, p>> : p \in W}
             bad == {x \in cells : ~ValidQuantity(CellAt(x[2][1], x[2][2]))}
             good == {x \in cells : Positive(CellAt(x[2][1], x[2][2]))}
             lines == {[cell |-> d.at, cn |-> d.cn, item |-> d.item, amount |-> d.amount] :
                         d \in LinesRead}
  <1>9. good = {<<b, p>> : p \in ok}
    BY <1>3
  <1>10. Cardinality(LinesRead) = Cardinality(good)
    <2>1. DOMAIN line = ok /\ line = [p \in ok |-> line[p]]
      BY <1>4
    <2>2. \A p \in ok : line[p].at = p
      BY <1>4
    <2>3. Cardinality(Range(line)) = Cardinality({<<b, p>> : p \in ok})
      BY <1>5, <2>1, <2>2, OneLineEach
    <2> HIDE DEF good
    <2> QED
      BY <1>1, <1>9, <2>3
  <1>11. lines = {[cell |-> x[2], cn |-> Normal(TextAt(x[2][1], x[1].label)),
                  item |-> TextAt(x[1].kind, x[2][2]),
                  amount |-> QuantityOf(CellAt(x[2][1], x[2][2]))
                                * Amount(x[1].kind + 1, x[2][2])] : x \in good}
    <2> DEFINE read(d) == [cell |-> d.at, cn |-> d.cn, item |-> d.item, amount |-> d.amount]
               written(x) == [cell |-> x[2], cn |-> Normal(TextAt(x[2][1], x[1].label)),
                              item |-> TextAt(x[1].kind, x[2][2]),
                              amount |-> QuantityOf(CellAt(x[2][1], x[2][2]))
                                            * Amount(x[1].kind + 1, x[2][2])]
    <2>1. ASSUME NEW p \in ok PROVE read(line[p]) = written(<<b, p>>)
      BY <1>4, <2>1
    <2> HIDE DEF read, written
    <2>2. {read(d) : d \in LinesRead} = {read(line[p]) : p \in ok}
      BY <1>1, <1>8
    <2>3. {written(x) : x \in good} = {written(<<b, p>>) : p \in ok}
      <3> HIDE DEF good
      <3> QED
        BY <1>9
    <2>4. {read(line[p]) : p \in ok} = {written(<<b, p>>) : p \in ok}
      BY <2>1
    <2>5. {read(d) : d \in LinesRead} = {written(x) : x \in good}
      BY <2>2, <2>3, <2>4, Zenon
    <2> QED
      BY <2>5 DEF read, written
  <1>12. {x[2] : x \in bad} = wrong
    <2>1. bad = {<<b, p>> : p \in wrong}
      BY <1>3
    <2> HIDE DEF bad
    <2>2. ASSUME NEW x \in bad PROVE x[2] \in wrong
      BY <2>1
    <2>3. ASSUME NEW p \in wrong PROVE \E x \in bad : x[2] = p
      <3>1. <<b, p>> \in bad /\ <<b, p>>[2] = p
        BY <2>1
      <3> QED
        BY <3>1
    <2> QED
      BY <2>2, <2>3
  <1>13. wrong = {p \in ErrorsRead : p[1] # 2 \/ layout.template # "standard"}
    BY <1>1, <1>2 DEF AsWritten
  <1>14. "amount_mismatch" \in WarningsRead <=> TotalsOff(b)
    BY <1>1, <1>7 DEF AsWritten
  <1>15. \A d \in LinesRead :
            d.category \in {HeadingOf(b, d.at[2]),
                            ProductCategory(SheetTitle, HeadingOf(b, d.at[2]))}
    <2> SUFFICES ASSUME NEW p \in ok
                 PROVE  LET d == line[p]
                        IN  d.category \in {HeadingOf(b, d.at[2]),
                                            ProductCategory(SheetTitle, HeadingOf(b, d.at[2]))}
      BY <1>1, <1>8
    <2>1. p[2] \in DOMAIN category
      BY DEF ok
    <2>2. line[p].category = category[p[2]] /\ line[p].at = p
      BY <1>4
    <2>3. category[p[2]] \in {HeadingOf(b, p[2]), ProductCategory(SheetTitle, HeadingOf(b, p[2]))}
      BY <2>1 DEF AsWritten
    <2> QED
      BY <2>2, <2>3
  <1>16. EveryQuantityOnce
    <2>1. UNION {{<<x, p>> : p \in WrittenLines(x)} : x \in {b}} = cells
      BY DEF W
    <2>2. (IF layout.template = "simple" THEN {} ELSE Range(layout.blocks)) = {b}
      BY <1>6
    <2> HIDE DEF cells
    <2> QED
      BY <2>1, <2>2, <1>10, <1>11, <1>12, <1>13, <1>14, <1>15 DEF EveryQuantityOnce
  <1>17. QuantitiesExpand
    <2>1. {d.at : d \in LinesRead} = ok
      BY <1>1, <1>4, <1>8
    <2>2. UNION {WrittenLines(x) : x \in Range(layout.blocks)} = W
      BY <1>6 DEF W
    <2> QED
      BY <1>3, <2>1, <2>2 DEF QuantitiesExpand
  <1> QED
    BY <1>16, <1>17

(* The first item always has its name and its price.                       *)
LEMMA FirstItem ==
    ASSUME NEW b, OneBlock(b), Placed(b)
    PROVE  /\ b.label + 1 \in ItemCols(b)
           /\ TextAt(b.kind, b.label + 1) = "miku"
           /\ NumberAt(b.kind + 1, b.label + 1) # {}
  <1>1. b.label + 1 \in ItemCols(b)
    BY RowsAndColumns
  <1>2. TextAt(b.kind, b.label + 1) = "miku" /\ NumberAt(b.kind + 1, b.label + 1) = {1000}
    BY TextsOfBlock
  <1> QED
    BY <1>1, <1>2

(* The CNs are inside the sheet, below the titles.                         *)
LEMMA CNRowsInside ==
    ASSUME NEW b, OneBlock(b)
    PROVE  /\ CNRows(b) \subseteq Top(b) .. RowCount - 1
           /\ \A r \in CNRows(b) : r \in Int /\ r > b.kind + 2
  <1>1. /\ CNRows(b) = Top(b) .. Top(b) + b.cns - 1 /\ Top(b) + b.cns - 1 < layout.rows
        /\ Top(b) \in Nat /\ b.cns \in {1, 2}
    BY RowsAndColumns
  <1>2. layout.rows \in Nat /\ Top(b) > b.kind + 2 /\ b.kind \in Nat
    BY RowsAndColumns DEF Top, OneBlock
  <1> QED
    BY <1>1, <1>2 DEF RowCount

(* What the corner of a sheet says is what the template writes there.      *)
LEMMA FrameText ==
    ASSUME NEW b, OneBlock(b), Placed(b), NEW r \in Int, NEW c \in Int, InFrame(r, c)
    PROVE  \E w : CellAt(r, c) = Word(w) /\ <<r, c, Word(w)>> \in Frame(layout) /\ TextAt(r, c) = w
  <1>1. <<r, c, CellAt(r, c)>> \in Frame(layout)
    BY DEF Placed, MayHold
  <1>2. \A x \in Frame(layout) : \E w : x[3] = Word(w)
    BY DEF Frame, OneBlock
  <1>3. PICK w : CellAt(r, c) = Word(w)
    BY <1>1, <1>2
  <1> QED
    BY <1>1, <1>3, WordCell

(* The matrix template                                                     *)
LEMMA MatrixRead ==
    ASSUME NEW b, OneBlock(b), Placed(b), layout.template = "matrix"
    PROVE  EveryQuantityOnce /\ QuantitiesExpand
  <1>1. At(b).kind = b.kind /\ At(b).label = b.label
    BY DEF At
  <1> DEFINE rows == {r \in DataRows(At(b)) : IsCN(r, At(b).label)}
             items == {c \in BlockColumns(At(b)) :
                         TextAt(At(b).kind, c) # "" /\ NumberAt(At(b).kind + 1, c) # {}}
             category == [c \in items |-> ProductCategory(SheetTitle, CategoryPath(At(b), c))]
             duplicate == {w \in {"duplicate_item_name"} :
                             Twice(items, LAMBDA c : TextAt(At(b).kind, c))}
             spellings == {TextAt(r, At(b).label) : r \in rows}
             similar == {w \in {"possible_duplicate_cn"} : Twice(spellings, Normal)}
             more == duplicate \cup similar
             E == Reading(At(b), rows, category, more)
  <1>2. ParseSheet = {E}
    <2>1. ~IsStandard
      <3>1. InFrame(0, 0)
        BY DEF InFrame
      <3>2. TextAt(0, 0) = "title"
        <4>1. PICK w : <<0, 0, Word(w)>> \in Frame(layout) /\ TextAt(0, 0) = w
          BY <3>1, FrameText
        <4>2. <<0, 0, Word(w)>> = <<0, 0, Word("title")>>
          BY <4>1 DEF Frame
        <4>3. Word(w).text = Word("title").text
          BY <4>2
        <4> QED
          BY <4>1, <4>3 DEF Word
      <3> QED
        BY <3>2 DEF IsStandard
    <2>2. ~IsSimple
      <3> SUFFICES ASSUME NEW r \in 0 .. RowCount - 1, NEW cn \in 0 .. layout.cols - 1
                   PROVE  TextAt(r, cn) # "cn"
        BY DEF IsSimple
      <3>1. r \in Int /\ cn \in Int
        OBVIOUS
      <3> QED
        BY <3>1, WordsApart
    <2>3. ParseMatrixBlock(At(b)) = E
      BY DEF ParseMatrixBlock
    <2> HIDE DEF E
    <2> QED
      BY <2>1, <2>2, <2>3, BlockFound DEF ParseSheet
  <1>3. rows = {r \in CNRows(b) : IsCN(r, b.label)}
    BY <1>1, RowsOfBlock, CNsFound, CNRowsInside
  <1>4. items = {c \in ItemCols(b) : TextAt(b.kind, c) # "" /\ NumberAt(b.kind + 1, c) # {}}
    <2>1. BlockColumns(At(b)) = RightOf(b.label)
      BY ColumnsOfBlock
    <2>2. /\ ItemCols(b) \subseteq RightOf(b.label)
          /\ \A c \in RightOf(b.label) : TextAt(b.kind, c) # "" => c \in ItemCols(b)
      BY ItemsFound
    <2> QED
      BY <1>1, <2>1, <2>2
  <1> HIDE DEF rows, items
  <1>5. DOMAIN category = items
    OBVIOUS
  <1>6. rows \X items = WrittenLines(b)
    BY <1>3, <1>4 DEF WrittenLines
  <1>7. rows \subseteq CNRows(b)
    BY <1>3
  <1>8. b.label + 1 \in items
    <2>1. b.label + 1 \in ItemCols(b)
      BY FirstItem
    <2>2. TextAt(b.kind, b.label + 1) # "" /\ NumberAt(b.kind + 1, b.label + 1) # {}
      BY FirstItem
    <2> QED
      BY <1>4, <2>1, <2>2
  <1>9. rows = {p[1] : p \in rows \X items}
    <2>1. ASSUME NEW r \in rows PROVE \E p \in rows \X items : p[1] = r
      <3>1. <<r, b.label + 1>> \in rows \X items /\ <<r, b.label + 1>>[1] = r
        BY <1>8
      <3> QED
        BY <3>1
    <2>2. \A p \in rows \X items : p[1] \in rows
      OBVIOUS
    <2> QED
      BY <2>1, <2>2
  <1>10. "amount_mismatch" \notin more
    OBVIOUS
  <1>11. ASSUME NEW c \in items
         PROVE  category[c] \in {HeadingOf(b, c), ProductCategory(SheetTitle, HeadingOf(b, c))}
    <2>1. c \in ItemCols(b)
      BY <1>4
    <2>2. CategoryPath(At(b), c) = HeadingOf(b, c)
      BY <2>1, HeadingIsWritten
    <2> QED
      BY <2>2
  <1> HIDE DEF category, more
  <1>12. AsWritten(b, rows, category, more, E)
    BY <1>2, <1>5, <1>6, <1>7, <1>9, <1>10, <1>11 DEF AsWritten
  <1> QED
    BY <1>12, ReadAsWritten

(* The standard template                                                   *)
LEMMA StandardFound ==
    ASSUME NEW b, OneBlock(b), Placed(b), layout.template = "standard"
    PROVE  IsStandard
  <1>0. b.kind = 2 /\ b.label = 1
    BY DEF OneBlock
  <1>1. ASSUME NEW r \in Int, NEW c \in Int,
               (r = 0 /\ c = 0) \/ (r = 1 /\ c = 1) \/ (r = 4 /\ c = 0)
        PROVE  TextAt(r, c) = IF r = 0 THEN "summary" ELSE IF r = 1 THEN "category" ELSE "amount"
    <2>1. InFrame(r, c)
      BY <1>1 DEF InFrame
    <2>2. PICK w : <<r, c, Word(w)>> \in Frame(layout) /\ TextAt(r, c) = w
      BY <2>1, FrameText
    <2>3. Frame(layout) = {<<0, 0, Word("summary")>>, <<1, 1, Word("category")>>,
                           <<4, 0, Word("amount")>>}
      BY DEF Frame
    <2>4. \A v : Word(w) = Word(v) => w = v
      BY DEF Word
    <2> QED
      BY <1>1, <2>2, <2>3, <2>4
  <1>2. TextAt(0, 0) = "summary" /\ TextAt(1, 1) = "category" /\ TextAt(4, 0) = "amount"
    BY <1>1
  <1>3. TextAt(2, 1) = "kind" /\ TextAt(3, 1) = "price" /\ TextAt(4, 1) = "nickname/total"
    BY <1>0, TextsOfBlock
  <1> QED
    BY <1>2, <1>3 DEF IsStandard, KindWords, PriceWords, TotalWords, Reserved

(* A heading holds for the columns right of it here, too.                  *)
LEMMA StandardHeading ==
    ASSUME NEW b, OneBlock(b), Placed(b), layout.template = "standard", NEW c \in ItemCols(b)
    PROVE  LET at == {d \in 2 .. c : TextAt(1, d) # ""}
           IN  (IF at = {} THEN <<>> ELSE <<TextAt(1, Max(at))>>) = HeadingOf(b, c)
  <1>0. b.kind = 2 /\ b.label = 1 /\ ItemCols(b) = 2 .. 3
    BY RowsAndColumns DEF OneBlock
  <1>1. {d \in 2 .. c : TextAt(1, d) # ""} =
          {d \in ItemCols(b) : d <= c /\ TextAt(b.kind - 1, d) # ""}
    <2>1. b.kind - 1 = 1
      BY <1>0
    <2>2. \A d : d \in 2 .. c <=> d \in ItemCols(b) /\ d <= c
      BY <1>0
    <2> QED
      BY <2>1, <2>2
  <1>2. ASSUME ~b.heading, NEW d \in ItemCols(b) PROVE TextAt(b.kind - 1, d) = ""
    <2>1. d \in Int /\ d > b.label /\ b.kind - 1 \in Int /\ b.kind - 1 <= b.kind
      BY <1>0
    <2>2. CellAt(b.kind - 1, d) = Empty
      BY <1>2, <2>1, NothingRight
    <2> QED
      BY <2>2, EmptyCell
  <1>3. CASE b.heading
    <2> DEFINE at == {d \in ItemCols(b) : d <= c /\ TextAt(b.kind - 1, d) # ""}
    <2>1. HeadingOf(b, c) = IF at = {} THEN <<>> ELSE <<TextAt(b.kind - 1, Max(at))>>
      BY <1>3 DEF HeadingOf
    <2>2. b.kind - 1 = 1
      BY <1>0
    <2> HIDE DEF at
    <2>3. HeadingOf(b, c) = IF at = {} THEN <<>> ELSE <<TextAt(1, Max(at))>>
      BY <2>1, <2>2
    <2> QED
      BY <1>1, <2>3 DEF at
  <1>4. CASE ~b.heading
    <2>1. {d \in 2 .. c : TextAt(1, d) # ""} = {}
      BY <1>1, <1>2, <1>4
    <2> QED
      BY <1>4, <2>1 DEF HeadingOf
  <1> QED
    BY <1>0, <1>3, <1>4

(* Its characters are its items, and the first row of a CN counts.         *)
LEMMA StandardRead ==
    ASSUME NEW b, OneBlock(b), Placed(b), layout.template = "standard"
    PROVE  EveryQuantityOnce /\ QuantitiesExpand
  <1>0. /\ b.kind = 2 /\ b.label = 1 /\ Top(b) = 5 /\ At(b) = StandardBlock
        /\ ItemCols(b) = 2 .. 3 /\ layout.template # "matrix"
    BY RowsAndColumns DEF OneBlock, Top, At, StandardBlock
  <1> DEFINE cns == {r \in 5 .. RowCount - 1 : IsCN(r, 1)}
             rows == {r \in cns : \A q \in cns :
                         Normal(TextAt(q, 1)) = Normal(TextAt(r, 1)) => r <= q}
             titled == {c \in RightOf(1) : TextAt(2, c) \notin {""} \cup Placeholders}
             items == {c \in titled : TextAt(2, c) \in Characters /\ NumberAt(3, c) # {}}
             strange == {<<2, c>> : c \in {c \in titled : TextAt(2, c) \notin Characters}}
             category == [c \in items |->
                LET at == {d \in 2 .. c : TextAt(1, d) # ""}
                IN  IF at = {} THEN <<>> ELSE <<TextAt(1, Max(at))>>]
             more == {w \in {"duplicate_cn_in_standard_sheet"} : rows # cns}
             reading == Reading(StandardBlock, rows, category, more)
             E == [reading EXCEPT !.errors = @ \cup strange]
  <1>1. ParseSheet = {E}
    <2>1. ParseStandard = E
      BY DEF ParseStandard
    <2> HIDE DEF E
    <2> QED
      BY <2>1, StandardFound DEF ParseSheet
  <1>2. /\ E.lines = reading.lines /\ E.warnings = reading.warnings
        /\ E.errors = reading.errors \cup strange
    BY DEF Reading
  <1>3. cns = {r \in CNRows(b) : IsCN(r, 1)}
    BY <1>0, CNsFound, CNRowsInside
  <1>4. rows = {r \in CNRows(b) : /\ IsCN(r, 1)
                                 /\ \A q \in CNRows(b) :
                                       q < r => Normal(TextAt(q, 1)) # Normal(TextAt(r, 1))}
    <2>1. \A q \in CNRows(b) : q \in Int
      BY CNRowsInside
    <2>2. ASSUME NEW r \in CNRows(b), IsCN(r, 1), NEW q \in CNRows(b),
                 Normal(TextAt(q, 1)) = Normal(TextAt(r, 1))
          PROVE  IsCN(q, 1)
      BY <2>2 DEF IsCN, Normal, Reserved, PriceWords
    <2> HIDE DEF cns
    <2> QED
      BY <1>3, <2>1, <2>2
  <1>5. items = {c \in ItemCols(b) : /\ TextAt(b.kind, c) # "" /\ NumberAt(b.kind + 1, c) # {}
                                     /\ TextAt(b.kind, c) \in Characters}
    <2>1. /\ ItemCols(b) \subseteq RightOf(1)
          /\ \A c \in RightOf(1) : TextAt(2, c) # "" => c \in ItemCols(b)
      BY <1>0, ItemsFound
    <2>2. b.kind = 2 /\ b.kind + 1 = 3
      BY <1>0
    <2>3. \A w \in Characters : w \notin {""} \cup Placeholders
      BY DEF Characters, Placeholders
    <2> QED
      BY <2>1, <2>2, <2>3
  <1> HIDE DEF rows, items
  <1>6. DOMAIN category = items
    OBVIOUS
  <1>7. rows \X items = WrittenLines(b)
    <2>1. rows = {r \in CNRows(b) :
                    /\ IsCN(r, b.label)
                    /\ layout.template = "standard" => \A q \in CNRows(b) :
                          q < r => Normal(TextAt(q, b.label)) # Normal(TextAt(r, b.label))}
      BY <1>0, <1>4
    <2>2. items = {c \in ItemCols(b) :
                    /\ TextAt(b.kind, c) # "" /\ NumberAt(b.kind + 1, c) # {}
                    /\ layout.template = "standard" => TextAt(b.kind, c) \in Characters}
      BY <1>5
    <2> QED
      BY <2>1, <2>2 DEF WrittenLines
  <1>8. rows \subseteq CNRows(b)
    BY <1>4
  <1>9. b.label + 1 \in items
    <2>1. b.label + 1 \in ItemCols(b)
      BY FirstItem
    <2>2. TextAt(b.kind, b.label + 1) = "miku" /\ NumberAt(b.kind + 1, b.label + 1) # {}
      BY FirstItem
    <2> QED
      BY <1>5, <2>1, <2>2 DEF Characters
  <1>10. rows = {p[1] : p \in rows \X items}
    <2>1. ASSUME NEW r \in rows PROVE \E p \in rows \X items : p[1] = r
      <3>1. <<r, b.label + 1>> \in rows \X items /\ <<r, b.label + 1>>[1] = r
        BY <1>9
      <3> QED
        BY <3>1
    <2>2. \A p \in rows \X items : p[1] \in rows
      OBVIOUS
    <2> QED
      BY <2>1, <2>2
  <1>11. "amount_mismatch" \notin more
    OBVIOUS
  <1>12. ASSUME NEW c \in items PROVE category[c] = HeadingOf(b, c)
    <2>1. c \in ItemCols(b)
      BY <1>5
    <2> QED
      BY <2>1, StandardHeading
  <1>13. \A p \in reading.errors : p[1] # 2
    <2>1. reading.errors \subseteq rows \X items
      BY <1>6 DEF Reading
    <2>2. \A r \in rows : r # 2
      BY <1>0, <1>8, CNRowsInside
    <2> QED
      BY <2>1, <2>2
  <1>14. \A p \in strange : p[1] = 2
    <2> SUFFICES ASSUME NEW p \in strange PROVE p[1] = 2
      OBVIOUS
    <2>1. PICK c \in titled : p = <<2, c>>
      OBVIOUS
    <2> QED
      BY <2>1
  <1>15. reading = Reading(At(b), rows, category, more)
    BY <1>0
  <1> HIDE DEF category, more, strange, reading, E
  <1>16. AsWritten(b, rows, category, more, E)
    BY <1>1, <1>2, <1>6, <1>7, <1>8, <1>10, <1>11, <1>12, <1>13, <1>14, <1>15 DEF AsWritten
  <1> QED
    BY <1>16, ReadAsWritten

(* On a sheet with one block, wherever it stands, with or without a heading*)
(* or an adjusted price, and on one of the standard template, parseSheet   *)
(* reads every quantity the typist leaves there, once, with its CN, item,  *)
(* amount and heading, reports every cell that is no quantity and compares *)
(* the totals as they are: what the checks find wrong of sheets takes a    *)
(* second block.                                                           *)
THEOREM OneBlockSheets ==
    SheetSpec => [](\A b : OneBlock(b) => EveryQuantityOnce /\ QuantitiesExpand)
  <1> DEFINE Inv == \A b : OneBlock(b) => Placed(b)
  <1>1. SheetInit => Inv
    BY PlacedAtFirst
  <1>2. Inv /\ [SheetNext]_sheetVars => Inv'
    <2> SUFFICES ASSUME Inv, [SheetNext]_sheetVars, NEW b, OneBlock(b)' PROVE Placed(b)'
      OBVIOUS
    <2>1. layout' = layout
      <3>1. ASSUME NEW r, NEW c, NEW S, Put(r, c, S) PROVE layout' = layout
        BY <3>1 DEF Put
      <3>2. ASSUME NEW x PROVE /\ TypeQuantity(x) => layout' = layout
                               /\ TypeCN(x) => layout' = layout
        BY <3>1 DEF TypeQuantity, TypeCN
      <3>3. ASSUME NEW x PROVE /\ TypePrice(x) => layout' = layout
                               /\ TypeItem(x) => layout' = layout
                               /\ TypeHeading(x) => layout' = layout
        BY <3>1 DEF TypePrice, TypeItem, TypeHeading
      <3>4. ASSUME NEW x PROVE TypeTotal(x) => layout' = layout
        BY <3>1 DEF TypeTotal
      <3>5. UNCHANGED sheetVars => layout' = layout
        BY DEF sheetVars
      <3> QED
        BY <3>2, <3>3, <3>4, <3>5 DEF SheetNext
    <2>2. OneBlock(b)
      BY <2>1 DEF OneBlock
    <2>3. Placed(b)
      BY <2>2
    <2>4. CASE SheetNext
      BY <2>2, <2>3, <2>4, PlacedStep
    <2>5. CASE UNCHANGED sheetVars
      <3> SUFFICES ASSUME NEW r \in Int, NEW c \in Int PROVE MayHold(b, r, c, CellAt(r, c))'
        BY DEF Placed
      <3>1. CellAt(r, c)' = CellAt(r, c) /\ layout' = layout
        BY <2>5 DEF sheetVars, CellAt
      <3>2. MayHold(b, r, c, CellAt(r, c))
        BY <2>3 DEF Placed
      <3>3. MayHold(b, r, c, CellAt(r, c))' <=> MayHold(b, r, c, CellAt(r, c))
        BY <3>1 DEF MayHold, InBlock, InTotals, InHeading, InFrame, Label, Value, Frame, Top
      <3> QED
        BY <3>2, <3>3
    <2> QED
      BY <2>4, <2>5
  <1>3. Inv => \A b : OneBlock(b) => EveryQuantityOnce /\ QuantitiesExpand
    <2> SUFFICES ASSUME NEW b, OneBlock(b), Placed(b)
                 PROVE  EveryQuantityOnce /\ QuantitiesExpand
      OBVIOUS
    <2>1. layout.template = "matrix" \/ layout.template = "standard"
      BY DEF OneBlock
    <2> QED
      BY <2>1, MatrixRead, StandardRead
  <1> QED
    BY <1>1, <1>2, <1>3, PTL DEF SheetSpec
=============================================================================
