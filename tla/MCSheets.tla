------------------------------ MODULE MCSheets ------------------------------
EXTENDS SheetParser
Block(k, l, heading, adjusted) ==
    [kind |-> k, label |-> l, items |-> 2, cns |-> 2, heading |-> heading, adjusted |-> adjusted]
Matrix(rows, cols, blocks) ==
    [template |-> "matrix", rows |-> rows, cols |-> cols, blocks |-> blocks]
MCWell ==
    {Matrix(8, 4, <<Block(2, 1, TRUE, 1)>>),
     Matrix(7, 8, <<Block(2, 1, TRUE, 0), Block(2, 5, TRUE, 0)>>),
     Matrix(13, 4, <<Block(2, 1, TRUE, 0), Block(8, 1, TRUE, 0)>>),
     [Matrix(7, 4, <<Block(2, 1, TRUE, 0)>>) EXCEPT !.template = "standard"]}
MCAny == {Matrix(11, 4, <<Block(1, 1, FALSE, 0), Block(6, 1, FALSE, 0)>>)}
=============================================================================
