----------------------------- MODULE SheetParser -----------------------------
(***************************************************************************)
(* How a worksheet becomes order lines.  Package importpreview, parser.go. *)
(*                                                                         *)
(* The parser is not told where anything is: it looks for a row of kinds   *)
(* above a row of prices, takes what is left and below of it for CNs and   *)
(* quantities, and stops where it sees the next block.  Here a typist fills*)
(* in sheets of known layouts, and what the parser finds by looking is     *)
(* compared with what the typist knows to have written where.              *)
(*                                                                         *)
(* A cell is the class of its text, the number the text reads as, if any,  *)
(* and whether the cell is of a numeric type.  Numbers are in hundredths,  *)
(* rows and columns count from 0.                                          *)
(***************************************************************************)
EXTENDS Integers, Sequences, FiniteSets, FiniteSetsExt, Functions

CONSTANTS
    Layouts,        \* template, number of rows and columns, blocks from left to right
    MaxEdits

VARIABLES
    layout, grid,   \* where the typist writes; the cells
    edits           \* changes made so far, at most MaxEdits

sheetVars == <<layout, grid, edits>>

-----------------------------------------------------------------------------
(* Cells and words                                                         *)

Word(w) == [text |-> w, value |-> {}, numeric |-> FALSE]
Empty == Word("")
Num(n) == [text |-> "digits", value |-> {n}, numeric |-> TRUE]
Digits(n) == [text |-> "digits", value |-> {n}, numeric |-> FALSE]

KindWords == {"kind"}
PriceWords == {"price", "adjusted"}
Reserved == {"nickname/total", "cn"}
TotalWords == {"amount"}
Placeholders == {"role name"}
Characters == {"miku", "rin"}
KnownCategory(w) == w \in {"badge", "stand"}
SeriesLike(w) == w = "25th"
Normal(w) == IF w = "Ann" THEN "ann" ELSE w

CellAt(r, c) == IF <<r, c>> \in DOMAIN grid THEN grid[<<r, c>>] ELSE Empty
TextAt(r, c) == CellAt(r, c).text
NumberAt(r, c) == IF CellAt(r, c).numeric THEN CellAt(r, c).value ELSE {}
Amount(r, c) == IF NumberAt(r, c) = {} THEN 0 ELSE Max(NumberAt(r, c))
IsWord(r, c) == TextAt(r, c) # "" /\ CellAt(r, c).value = {}

RowCount == layout.rows
RightOf(c) == c + 1 .. layout.cols - 1
WordRight(r, c) == \E k \in RightOf(c) : IsWord(r, k)
NumberRight(r, c) == \E k \in RightOf(c) : NumberAt(r, k) # {}

(* parseQuantity: none, the number, or an error.                           *)
IsBlank(x) == x.text = "" /\ x.value = {}
ValidQuantity(x) == IsBlank(x) \/ \E n \in x.value : n >= 0 /\ n % 100 = 0
Positive(x) == ValidQuantity(x) /\ \E n \in x.value : n > 0
QuantityOf(x) == Max(x.value) \div 100

-----------------------------------------------------------------------------
(* Finding the blocks of a matrix sheet                                    *)

PriceLabel(r, c) == TextAt(r, c) \in PriceWords /\ NumberRight(r, c)

LooksLikeKind(r, c) ==
    \/ TextAt(r, c) \in KindWords
    \/ IsWord(r, c) /\ TextAt(r, c) \notin Reserved /\ WordRight(r, c)

MatrixBlocks ==
    {b \in [kind : 0 .. RowCount - 3, label : 0 .. layout.cols - 1] :
        /\ PriceLabel(b.kind + 1, b.label)
        /\ LooksLikeKind(b.kind, b.label) /\ WordRight(b.kind, b.label)}

FaultyEndRow(b) == RowCount

(* A block ends one row above the next one's kinds (that row is taken for  *)
(* its heading); but the next one in the order of rows and columns may     *)
(* stand beside it, and then it reads to the end of the sheet.             *)
EndRow(b) ==
    LET all == MatrixBlocks
        lower == {o \in all : o.kind > b.kind}
        beside == {o \in all : o.kind = b.kind /\ o.label > b.label}
    IN  IF beside # {} \/ lower = {} THEN RowCount
        ELSE Min({o.kind : o \in lower}) - 1

AdjustmentRow(r, l) ==
    /\ r < RowCount /\ TextAt(r, l) \notin Reserved
    /\ NumberRight(r, l)
    /\ \/ TextAt(r, l) \in PriceWords
       \/ /\ TextAt(r, l - 1) = "" /\ TextAt(r, l) # ""
          /\ \A k \in RightOf(l) : ~Positive(CellAt(r, k))

(* The rows of CNs begin after the price rows and end where the block does.*)
DataRows(b) ==
    LET end == EndRow(b)
        start == Min({r \in b.kind + 3 .. RowCount :
                        r >= end \/ r = RowCount \/ ~AdjustmentRow(r, b.label)})
    IN  start .. end - 1

(* The columns of a block reach to the next block on its right.            *)
BlockColumns(b) ==
    {c \in RightOf(b.label) :
        \A d \in b.label + 2 .. c :
            ~(TextAt(b.kind, d) \in KindWords /\ TextAt(b.kind + 1, d) \in PriceWords)}

Heading(r, c) ==
    IF IsWord(r, c)
       /\ TextAt(r, c) \notin KindWords \cup PriceWords \cup Reserved \cup {"category"}
    THEN TextAt(r, c) ELSE ""

(* A heading holds for the columns right of it, up to the next one.        *)
Inherited(cols, r, c) ==
    LET at == {d \in cols : d <= c /\ Heading(r, d) # ""}
    IN  IF at = {} THEN "" ELSE Heading(r, Max(at))

CategoryPath(b, c) ==
    LET up == Min({4, b.kind})
        parts == [i \in 1 .. up |-> Inherited(BlockColumns(b), b.kind - up + i - 1, c)]
        fresh == {i \in 1 .. up : parts[i] # "" /\ \A j \in 1 .. i - 1 : parts[j] # parts[i]}
    IN  [k \in 1 .. Cardinality(fresh) |->
            parts[CHOOSE i \in fresh : Cardinality({j \in fresh : j <= i}) = k]]

ProductCategory(title, path) ==
    LET fromTitle == IF KnownCategory(title) THEN <<title>> ELSE <<>>
    IN  IF path = <<>> \/ (Len(path) = 1 /\ SeriesLike(path[1])) THEN fromTitle
        ELSE IF fromTitle # <<>> /\ ~\E i \in DOMAIN path : KnownCategory(path[i])
             THEN fromTitle
             ELSE path

(* The first text in the first rows that is no label.                      *)
LikelyTitle(r, c) ==
    IsWord(r, c) /\ TextAt(r, c) \notin
        KindWords \cup PriceWords \cup Reserved \cup TotalWords \cup {"category", "g"}

SheetTitle ==
    LET at == {p \in DOMAIN grid : p[1] < 8 /\ LikelyTitle(p[1], p[2])}
    IN  IF at = {} THEN "sheet"
        ELSE LET first == CHOOSE p \in at :
                    \A q \in at : p[1] < q[1] \/ (p[1] = q[1] /\ p[2] <= q[2])
             IN  TextAt(first[1], first[2])

-----------------------------------------------------------------------------
(* Reading the rows of a block                                             *)

IsCN(r, l) == TextAt(r, l) \notin {""} \cup Reserved \cup PriceWords

Line(b, r, c, category) ==
    [block |-> b, at |-> <<r, c>>, cn |-> Normal(TextAt(r, b.label)),
     item |-> TextAt(b.kind, c), category |-> category,
     quantity |-> QuantityOf(CellAt(r, c)),
     amount |-> QuantityOf(CellAt(r, c)) * Amount(b.kind + 1, c)]

(* What reading the rows of b in the columns of category yields.           *)
Reading(b, rows, category, more) ==
    LET items == DOMAIN category
        line == [p \in {p \in rows \X items : Positive(CellAt(p[1], p[2]))} |->
                    Line(b, p[1], p[2], category[p[2]])]
        table == [r \in rows |-> LET amount == Amount(r, Max({b.label - 1, 0}))
                                 IN  IF amount > 0 THEN amount ELSE 0]
        off == SumFunction(table) - SumFunction([p \in DOMAIN line |-> line[p].amount])
    IN  [lines |-> Range(line),
         errors |-> {p \in rows \X items : ~ValidQuantity(CellAt(p[1], p[2]))},
         warnings |-> more \cup (IF off > 1 \/ off < -1 THEN {"amount_mismatch"} ELSE {})]

Twice(S, name(_)) == \E x, y \in S : x # y /\ name(x) = name(y)

ParseMatrixBlock(b) ==
    LET rows == {r \in DataRows(b) : IsCN(r, b.label)}
        items == {c \in BlockColumns(b) :
                    TextAt(b.kind, c) # "" /\ NumberAt(b.kind + 1, c) # {}}
        category == [c \in items |-> ProductCategory(SheetTitle, CategoryPath(b, c))]
        duplicate == {w \in {"duplicate_item_name"} :
                        Twice(items, LAMBDA c : TextAt(b.kind, c))}
        spellings == {TextAt(r, b.label) : r \in rows}
        similar == {w \in {"possible_duplicate_cn"} : Twice(spellings, Normal)}
    IN  Reading(b, rows, category, duplicate \cup similar)

(* The standard template has its rows and columns fixed.  The first row of *)
(* a CN counts; a title that is no character is an error of its column.    *)
StandardBlock == [kind |-> 2, label |-> 1]

IsStandard ==
    /\ TextAt(0, 0) = "summary" /\ TextAt(1, 1) = "category"
    /\ TextAt(2, 1) \in KindWords /\ TextAt(3, 1) \in PriceWords
    /\ TextAt(4, 0) \in TotalWords /\ TextAt(4, 1) \in Reserved

ParseStandard ==
    LET b == StandardBlock
        cns == {r \in 5 .. RowCount - 1 : IsCN(r, 1)}
        rows == {r \in cns : \A q \in cns : Normal(TextAt(q, 1)) = Normal(TextAt(r, 1)) => r <= q}
        titled == {c \in RightOf(1) : TextAt(2, c) \notin {""} \cup Placeholders}
        items == {c \in titled : TextAt(2, c) \in Characters /\ NumberAt(3, c) # {}}
        strange == {<<2, c>> : c \in {c \in titled : TextAt(2, c) \notin Characters}}
        category == [c \in items |->
            LET at == {d \in 2 .. c : TextAt(1, d) # ""}
            IN  IF at = {} THEN <<>> ELSE <<TextAt(1, Max(at))>>]
        reading == Reading(b, rows, category,
                           {w \in {"duplicate_cn_in_standard_sheet"} : rows # cns})
    IN  [reading EXCEPT !.errors = @ \cup strange]

(* A sheet of CNs and amounts is shown and makes no order lines; where no  *)
(* column is headed as the amount, the first with a number below is it.    *)
IsSimple ==
    \E r \in 0 .. RowCount - 1 :
        \E cn, g \in 0 .. layout.cols - 1 :
            /\ TextAt(r, cn) = "cn" /\ TextAt(r, g) = "g"
            /\ \E a \in 0 .. layout.cols - 1 :
                \/ TextAt(r, a) \in TotalWords
                \/ a \notin {cn, g} /\ \E q \in r + 1 .. RowCount - 1 : NumberAt(q, a) # {}

(* parseSheet: what is read of each block; a sheet nothing is recognised   *)
(* of gives nothing but a notice.                                          *)
ParseSheet ==
    IF IsStandard THEN {ParseStandard}
    ELSE IF IsSimple THEN {}
    ELSE {ParseMatrixBlock(b) : b \in MatrixBlocks}

LinesRead == UNION {p.lines : p \in ParseSheet}
ErrorsRead == UNION {p.errors : p \in ParseSheet}
WarningsRead == UNION {p.warnings : p \in ParseSheet}

(* Parse: a file without a single line cannot be confirmed.                *)
NoValidOrderItems == LinesRead = {}

-----------------------------------------------------------------------------
(* The typist.  A block is written with its heading, kinds, prices, the    *)
(* row of totals, an adjusted price if it has one, and its CNs.            *)

CNRows(b) == LET top == b.kind + 3 + b.adjusted IN top .. top + b.cns - 1
ItemCols(b) == b.label + 1 .. b.label + b.items

Written(b) ==
    LET price(c) == 1000 * (c - b.label)
    IN  {<<b.kind, b.label, Word("kind")>>, <<b.kind + 1, b.label, Word("price")>>,
         <<b.kind + 2, b.label, Word("nickname/total")>>}
        \cup {<<b.kind, c, Word(<<"miku", "rin">>[c - b.label])>> : c \in ItemCols(b)}
        \cup {<<b.kind + 1, c, Num(price(c))>> : c \in ItemCols(b)}
        \cup {<<b.kind - 1, b.label + 1, Word("badge")>> : x \in {y \in {1} : b.heading}}
        \cup {<<b.kind + 3, b.label, Word("adjusted")>> : x \in 1 .. b.adjusted}
        \cup {<<b.kind + 3, c, Num(-100)>> : c \in {d \in ItemCols(b) : b.adjusted = 1}}
        \cup {<<r, b.label, Word(<<"Ann", "Bob">>[r - Min(CNRows(b)) + 1])>> : r \in CNRows(b)}
        \cup {<<r, c, Num(100)>> : r \in CNRows(b), c \in ItemCols(b)}
        \cup {<<r, b.label - 1, Num(500 * b.items * (b.items + 1))>> : r \in CNRows(b)}

Frame(l) ==
    IF l.template = "standard"
    THEN {<<0, 0, Word("summary")>>, <<1, 1, Word("category")>>, <<4, 0, Word("amount")>>}
    ELSE IF l.template = "simple"
    THEN {<<0, 0, Word("cn")>>, <<0, 1, Word("amount")>>, <<0, 2, Word("g")>>}
    ELSE {<<0, 0, Word("title")>>}

SheetInit ==
    /\ layout \in Layouts
    /\ grid = LET all == Frame(layout)
                         \cup UNION {Written(layout.blocks[i]) : i \in DOMAIN layout.blocks}
              IN  [p \in (0 .. layout.rows - 1) \X (0 .. layout.cols - 1) |->
                    IF \E x \in all : x[1] = p[1] /\ x[2] = p[2]
                    THEN (CHOOSE x \in all : x[1] = p[1] /\ x[2] = p[2])[3] ELSE Empty]
    /\ edits = 0

Put(r, c, entries) ==
    /\ edits < MaxEdits /\ edits' = edits + 1
    /\ \E x \in entries \ {grid[<<r, c>>]} : grid' = [grid EXCEPT ![<<r, c>>] = x]
    /\ UNCHANGED layout

TypeQuantity(b) ==
    \E r \in CNRows(b), c \in ItemCols(b) :
        Put(r, c, {Empty, Num(200), Num(150), Digits(200), Word("x")})
TypeCN(b) ==
    \E r \in CNRows(b) : Put(r, b.label, {Empty, Word("ann"), Word("nickname/total")})
TypePrice(b) == Put(b.kind + 1, b.label + b.items, {Empty, Num(1001)})
TypeItem(b) == Put(b.kind, b.label + b.items, {Empty, Word("miku"), Word("other")})
TypeHeading(b) ==
    b.heading /\ Put(b.kind - 1, b.label + b.items, {Empty, Word("25th"), Word("stand")})
TypeTotal(b) ==
    LET r == Min(CNRows(b))
    IN  Put(r, b.label - 1, {Num(n + Amount(r, b.label - 1)) : n \in {1, 2, 1000}})

SheetNext ==
    \E i \in DOMAIN layout.blocks :
        LET b == layout.blocks[i]
        IN  \/ TypeQuantity(b) \/ TypeCN(b) \/ TypePrice(b) \/ TypeItem(b)
            \/ TypeHeading(b) \/ TypeTotal(b)

SheetSpec == SheetInit /\ [][SheetNext]_sheetVars

-----------------------------------------------------------------------------
(* Every positive quantity in the row of a CN and in a column with an item *)
(* and a price is read as one line, with that CN, item, price and heading, *)
(* and nothing else is; what is no quantity is reported; and the totals    *)
(* are found wrong exactly when they are, by more than a cent, for some    *)
(* block.  parseSheet with the three templates it knows.                   *)
WrittenLines(b) ==
    LET standard == layout.template = "standard"
        rows == {r \in CNRows(b) :
                    /\ IsCN(r, b.label)
                    /\ standard => \A q \in CNRows(b) :
                        q < r => Normal(TextAt(q, b.label)) # Normal(TextAt(r, b.label))}
        cols == {c \in ItemCols(b) :
                    /\ TextAt(b.kind, c) # "" /\ NumberAt(b.kind + 1, c) # {}
                    /\ standard => TextAt(b.kind, c) \in Characters}
    IN  rows \X cols

HeadingOf(b, c) ==
    LET at == {d \in ItemCols(b) : d <= c /\ TextAt(b.kind - 1, d) # ""}
    IN  IF ~b.heading \/ at = {} THEN <<>> ELSE <<TextAt(b.kind - 1, Max(at))>>

TotalsOff(b) ==
    LET at == WrittenLines(b)
        off == SumFunction([r \in {p[1] : p \in at} |-> Amount(r, b.label - 1)])
               - SumFunction([p \in {p \in at : Positive(CellAt(p[1], p[2]))} |->
                                QuantityOf(CellAt(p[1], p[2])) * Amount(b.kind + 1, p[2])])
    IN  off > 1 \/ off < -1

EveryQuantityOnce ==
    LET blocks == IF layout.template = "simple" THEN {} ELSE Range(layout.blocks)
        cells == UNION {{<<b, p>> : p \in WrittenLines(b)} : b \in blocks}
        bad == {x \in cells : ~ValidQuantity(CellAt(x[2][1], x[2][2]))}
        good == {x \in cells : Positive(CellAt(x[2][1], x[2][2]))}
        read == LinesRead
        lines == {[cell |-> d.at, cn |-> d.cn, item |-> d.item, amount |-> d.amount] : d \in read}
    IN  /\ Cardinality(read) = Cardinality(good)
        /\ lines = {[cell |-> x[2], cn |-> Normal(TextAt(x[2][1], x[1].label)),
                     item |-> TextAt(x[1].kind, x[2][2]),
                     amount |-> QuantityOf(CellAt(x[2][1], x[2][2]))
                                * Amount(x[1].kind + 1, x[2][2])] : x \in good}
        /\ {x[2] : x \in bad} = {p \in ErrorsRead : p[1] # 2 \/ layout.template # "standard"}
        /\ "amount_mismatch" \in WarningsRead <=> \E b \in blocks : TotalsOff(b)
        /\ (\A b \in blocks : \A p \in CNRows(b) \X ItemCols(b) : ~IsWord(p[1], p[2])) =>
            \A d \in read, b \in blocks :
                d.at \in CNRows(b) \X ItemCols(b) =>
                    d.category \in {HeadingOf(b, d.at[2]),
                                    ProductCategory(SheetTitle, HeadingOf(b, d.at[2]))}

(* In the row of every user, the items with a quantity above zero, and only*)
(* those, become records (docs/excel-import-rules.md).  They do not where  *)
(* a block begins right below the last row of another: that row is taken   *)
(* for the heading of the block below, and nothing is said of it.          *)
QuantitiesExpand ==
    {d.at : d \in LinesRead} =
        {p \in UNION {WrittenLines(b) : b \in Range(layout.blocks)} : Positive(CellAt(p[1], p[2]))}
=============================================================================
