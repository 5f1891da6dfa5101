------------------------------- MODULE Board -------------------------------
(***************************************************************************)
(* Pieces and boards of libtetrisbrain (board_control.c, garbage.c).  A    *)
(* board is the set of its filled cells <<x, y>>, row 0 at the top; which  *)
(* piece filled a cell is left out.  (A Faulty definition is a slip in     *)
(* what the definition right after it models.)                             *)
(***************************************************************************)
EXTENDS Integers, FiniteSets

CONSTANTS BoardWidth, BoardHeight

ASSUME BoardAssumption ==          \* the box of a new piece has room
    BoardWidth \in Nat /\ BoardWidth >= 4 /\ BoardHeight \in Nat \ {0}

Columns == 0..(BoardWidth - 1)
Rows == 0..(BoardHeight - 1)
Grid == Columns \X Rows

(* The solid indices of the 4x4 boxes of I, O, T, S, Z, J and L.           *)
TETROMINOES == <<{4, 5, 6, 7}, {5, 6, 9, 10}, {5, 8, 9, 10}, {6, 7, 9, 10},
                 {4, 5, 9, 10}, {7, 9, 10, 11}, {4, 8, 9, 10}>>

get_rotation_index(x, y, rot) ==
    CASE rot = 0 -> x + 4 * y
      [] rot = 1 -> 12 + y - 4 * x
      [] rot = 2 -> 15 - 4 * y - x
      [] rot = 3 -> 3 - y + 4 * x

Box == (0..3) \X (0..3)

Solid == [type \in 1..7 |-> [rot \in 0..3 |->
            {c \in Box : get_rotation_index(c[1], c[2], rot) \in TETROMINOES[type]}]]

(* Where the piece [type, rot, x, y] is.                                   *)
Cells(p) == {<<p.x + c[1], p.y + c[2]>> : c \in Solid[p.type][p.rot]}

(* Cells above the board are free.                                         *)
is_valid_pos(board, p) ==
    \A c \in Cells(p) : c[1] \in Columns /\ c[2] < BoardHeight /\ c \notin board

FaultyLockPiece(board, p) == board \cup {c \in Cells(p) \cap Grid : c[2] > 0}

lock_piece(board, p) == board \cup (Cells(p) \cap Grid)

Full(board, y) == \A x \in Columns : <<x, y>> \in board

(* Row y goes, and the rows above it come down.                            *)
Drop(board, y) ==
    {c \in Grid : IF c[2] > y THEN c \in board ELSE <<c[1], c[2] - 1>> \in board}

FaultyClearFrom(board, y) ==            \* the row that came down is not checked
    LET from[b \in SUBSET Grid, k \in -1..(BoardHeight - 1), n \in 0..BoardHeight] ==
          IF k = -1 THEN [board |-> b, lines |-> n]
          ELSE IF Full(b, k) THEN from[Drop(b, k), k - 1, n + 1] ELSE from[b, k - 1, n]
    IN  from[board, y, 0]

(* clear_lines from row y up: what is left, and how many lines went.       *)
ClearFrom(board, y) ==
    LET from[b \in SUBSET Grid, k \in -1..(BoardHeight - 1), n \in 0..BoardHeight] ==
          IF k = -1 THEN [board |-> b, lines |-> n]
          ELSE IF Full(b, k) THEN from[Drop(b, k), k, n + 1] ELSE from[b, k - 1, n]
    IN  from[board, y, 0]

clear_lines(board) == ClearFrom(board, BoardHeight - 1)

FullRows(board) == {y \in Rows : Full(board, y)}

(* The reference: rows that are not full keep their order and come down by *)
(* the number of full rows below them.                                     *)
Compact(board) ==
    [board |-> {<<c[1], c[2] + Cardinality({y \in FullRows(board) : y > c[2]})>> :
                  c \in {d \in board : ~Full(board, d[2])}},
     lines |-> Cardinality(FullRows(board))]

(* add_garbage: lines rows with a hole each push the board up.             *)
add_garbage(board, lines) ==
    LET n == IF lines > BoardHeight THEN BoardHeight ELSE lines
    IN  {{c \in Grid : IF c[2] < BoardHeight - n THEN <<c[1], c[2] + n>> \in board
                       ELSE c[1] # hole[c[2] - (BoardHeight - n) + 1]} :
           hole \in [1..n -> Columns]}
=============================================================================
