----------------------------- MODULE Minigames -----------------------------
(***************************************************************************)
(* The minigames whose state is discrete: snake, tetris, tic-tac-toe.      *)
(*                                                                         *)
(* Chance is a linear congruential generator of which only the low digits  *)
(* are used, and those follow each other in a short cycle: the two lowest  *)
(* bits are kept here, which fix every tetris piece, and for the rest the  *)
(* residue that they leave.  A tick lasts as long as the caller says, so   *)
(* that a timer is over, or not, as it comes.                              *)
(***************************************************************************)
EXTENDS Integers, FiniteSets, SequencesExt

CONSTANTS
    GridW, GridH,       \* SnakeState::k_grid_w, k_grid_h: even numbers
    SnakeStart,         \* where its head is at first, with room behind it
    SnakeWins,          \* the length that wins: it leaves some FoodCells free
    BoardW, BoardH,     \* TetrisState::k_board_w, k_board_h
    StartX,             \* where a piece appears: every shape fits there
    GoodScore, TopScore \* scores that win when the board is full, or at once

ASSUME MinigamesAssumption ==
    /\ GridW \in Nat /\ GridH \in Nat
    /\ SnakeStart \in (2..GridW - 1) \X (0..GridH - 1)
    /\ BoardW \in Nat /\ BoardH \in Nat \ 0..2
    /\ StartX \in 1..BoardW - 3

VARIABLES
    minigame_type,  \* which game, or None: active is false
    completed, victory, score,
    minigame_seed,  \* its two lowest bits
    snake,          \* [body, direction, pending, food]
    tetris,         \* [board, shape, rotation, at]: board is the set of filled cells
    tictactoe       \* [board, cursor, winner, turns]: a board is 0..8 -> {0, 1, 2}

minigame_vars ==
    <<minigame_type, completed, victory, score, minigame_seed, snake, tetris, tictactoe>>

GameTypes == {"Snake", "Tetris", "TicTacToe"}

\* lcg_next
LcgNext(s) == (s * 1664525 + 1013904223) % 4

Plus(a, b) == <<a[1] + b[1], a[2] + b[2]>>

Left == <<-1, 0>>
Right == <<1, 0>>
Up == <<0, 1>>
Down == <<0, -1>>
Moves == {Left, Right, Up, Down}
Still == <<0, 0>>
-----------------------------------------------------------------------------
(* Snake *)

Grid == (0..GridW - 1) \X (0..GridH - 1)

\* snake_respawn_food: two draws for every attempt leave the parity of the seed as it was
FoodCells(body, s) ==
    {c \in Grid : /\ c[1] % 2 = LcgNext(s) % 2
                  /\ c[2] % 2 = LcgNext(LcgNext(s)) % 2
                  /\ c \notin Range(body)}

\* the two lowest bits after one or more attempts
AfterAttempts(s) == {LcgNext(LcgNext(s)), s}

\* begin_snake, the food still to be placed
NewSnake(food) ==
    [body |-> [i \in 1..3 |-> Plus(SnakeStart, <<1 - i, 0>>)],
     direction |-> Right, pending |-> Right, food |-> food]

\* A turn is taken at once, though the snake moves only when its timer is over.
Turned(sn, move) ==
    LET pending == IF move = Still THEN sn.pending ELSE move
    IN  [sn EXCEPT !.pending = pending,
                   !.direction = IF Plus(pending, @) = Still THEN @ ELSE pending]

\* tick_snake
TickSnake(move, due) ==
    LET sn   == Turned(snake, move)
        next == Plus(sn.body[1], sn.direction)
        ate  == next = sn.food
        body == <<next>> \o (IF ate THEN sn.body ELSE Front(sn.body))
    IN  /\ minigame_type = "Snake"
        /\ \/ /\ ~due
              /\ snake' = sn
              /\ UNCHANGED <<completed, victory, score, minigame_seed>>
           \/ /\ due /\ (next \notin Grid \/ next \in Range(sn.body))
              /\ snake' = sn
              /\ completed' = TRUE /\ victory' = FALSE
              /\ UNCHANGED <<score, minigame_seed>>
           \/ /\ due /\ next \in Grid /\ next \notin Range(sn.body) /\ ~ate
              /\ snake' = [sn EXCEPT !.body = body]
              /\ UNCHANGED <<completed, victory, score, minigame_seed>>
           \/ /\ due /\ next \in Grid /\ next \notin Range(sn.body) /\ ate
              /\ \E food \in FoodCells(body, minigame_seed) :
                    snake' = [sn EXCEPT !.body = body, !.food = food]
              /\ minigame_seed' \in AfterAttempts(minigame_seed)
              /\ score' = score + 10
              /\ completed' = (Len(body) >= SnakeWins)
              /\ victory' = (Len(body) >= SnakeWins)
        /\ UNCHANGED <<minigame_type, tetris, tictactoe>>
-----------------------------------------------------------------------------
(* Tetris *)

TetrisBoard == (0..BoardW - 1) \X (0..BoardH - 1)

\* tetris_cell: the shapes I, O, T, L in their four rotations
Shape(shape, rotation) ==
    CASE shape = 0 ->
           << {<<-1, 0>>, <<0, 0>>, <<1, 0>>, <<2, 0>>}, {<<0, -1>>, <<0, 0>>, <<0, 1>>, <<0, 2>>},
              {<<-1, 1>>, <<0, 1>>, <<1, 1>>, <<2, 1>>}, {<<1, -1>>, <<1, 0>>, <<1, 1>>, <<1, 2>>}
           >>[rotation + 1]
      [] shape = 1 -> {<<0, 0>>, <<1, 0>>, <<0, 1>>, <<1, 1>>}
      [] shape = 2 ->
           << {<<-1, 0>>, <<0, 0>>, <<1, 0>>, <<0, 1>>}, {<<0, -1>>, <<0, 0>>, <<0, 1>>, <<1, 0>>},
              {<<-1, 0>>, <<0, 0>>, <<1, 0>>, <<0, -1>>}, {<<0, -1>>, <<0, 0>>, <<0, 1>>, <<-1, 0>>}
           >>[rotation + 1]
      [] shape = 3 ->
           << {<<-1, 0>>, <<0, 0>>, <<1, 0>>, <<1, 1>>}, {<<0, -1>>, <<0, 0>>, <<0, 1>>, <<1, -1>>},
              {<<-1, -1>>, <<-1, 0>>, <<0, 0>>, <<1, 0>>}, {<<-1, 1>>, <<0, -1>>, <<0, 0>>, <<0, 1>>}
           >>[rotation + 1]

Cells(t) == {Plus(t.at, c) : c \in Shape(t.shape, t.rotation)}

\* tetris_valid
Valid(t) == Cells(t) \subseteq TetrisBoard \ t.board

NewPiece(board, s) == [board |-> board, shape |-> s % 4, rotation |-> 0, at |-> <<StartX, 1>>]

Row(board, y) == {c \in board : c[2] = y}
FullRow(board, y) == Cardinality(Row(board, y)) = BoardW

\* The rows above y move down by one.
WithoutRow(board, y) ==
    {c \in board : c[2] > y} \cup {Plus(c, <<0, 1>>) : c \in {d \in board : d[2] < y}}

\* mutant: the row that falls into the place of a full one is not looked at
ClearRoundOnce(s) ==
    IF FullRow(s.board, s.y)
    THEN [board |-> WithoutRow(s.board, s.y), y |-> s.y - 1, cleared |-> s.cleared + 1]
    ELSE [s EXCEPT !.y = @ - 1]

\* One round of the loop of tetris_clear_lines: after a row is taken out the row that
\* fell into its place is looked at again.
ClearRound(s) ==
    IF FullRow(s.board, s.y)
    THEN [board |-> WithoutRow(s.board, s.y), y |-> s.y, cleared |-> s.cleared + 1]
    ELSE [s EXCEPT !.y = @ - 1]

NextRound(s) == IF s.y < 0 THEN s ELSE ClearRound(s)

\* tetris_clear_lines: every round takes a row out or goes up to the next one.
ClearLines(board) ==
    LET after[i \in 0..2 * BoardH] ==
            IF i = 0 THEN [board |-> board, y |-> BoardH - 1, cleared |-> 0]
            ELSE NextRound(after[i - 1])
    IN  after[2 * BoardH]

\* Either the piece is moved or it is turned: each leaves a cooldown for the other.
Steered(t, dx, rotate) ==
    LET moved == [t EXCEPT !.at = Plus(@, <<dx, 0>>)]
        rotated == [t EXCEPT !.rotation = (@ + 1) % 4]
    IN  CASE dx # 0 /\ Valid(moved) -> moved
          [] dx = 0 /\ rotate /\ Valid(rotated) -> rotated
          [] OTHER -> t

\* tick_tetris
TickTetris(dx, rotate, due) ==
    LET t       == Steered(tetris, dx, rotate)
        lower   == [t EXCEPT !.at = Plus(@, <<0, 1>>)]
        cleared == ClearLines(t.board \cup (Cells(t) \cap TetrisBoard))
        piece   == NewPiece(cleared.board, LcgNext(minigame_seed))
        full    == ~Valid(piece)
        points  == score + 100 * cleared.cleared
    IN  /\ minigame_type = "Tetris"
        /\ \/ /\ ~due
              /\ tetris' = t
              /\ UNCHANGED <<completed, victory, score, minigame_seed>>
           \/ /\ due /\ Valid(lower)
              /\ tetris' = lower
              /\ UNCHANGED <<completed, victory, score, minigame_seed>>
           \/ /\ due /\ ~Valid(lower)
              /\ tetris' = piece
              /\ minigame_seed' = LcgNext(minigame_seed)
              /\ score' = points
              /\ completed' = (full \/ points >= TopScore)
              /\ victory' = ((full /\ points >= GoodScore) \/ points >= TopScore)
        /\ UNCHANGED <<minigame_type, snake, tictactoe>>
-----------------------------------------------------------------------------
(* Tic-tac-toe *)

Squares == 0..8
Lines == {{0, 1, 2}, {3, 4, 5}, {6, 7, 8}, {0, 3, 6}, {1, 4, 7}, {2, 5, 8}, {0, 4, 8}, {2, 4, 6}}

HasLine(board, player) == \E line \in Lines : \A square \in line : board[square] = player

\* tic_tac_toe_winner: of the first line that is found
Winner(board) ==
    IF \E p \in {1, 2} : HasLine(board, p) THEN CHOOSE p \in {1, 2} : HasLine(board, p) ELSE 0

Free(board) == {square \in Squares : board[square] = 0}

\* choices[lcg_next(seed) % choice_count], of the free squares in their order: an even number
AiChoices(board, s) ==
    LET free         == Free(board)
        low          == IF Cardinality(free) % 4 = 0 THEN 4 ELSE 2
        Place(square) == Cardinality({other \in free : other < square})
    IN  {square \in free : Place(square) % low = LcgNext(s) % low}

Clamp(n) == IF n < 0 THEN 0 ELSE IF n > 2 THEN 2 ELSE n

CursorAfter(cursor, move) ==
    Clamp((cursor % 3) + move[1]) + 3 * Clamp((cursor \div 3) - move[2])

Over(board) == Winner(board) # 0 \/ Free(board) = {}

\* The end, by a line or by a full board
Ends(board) ==
    LET winner == Winner(board)
    IN  /\ completed' = Over(board)
        /\ victory' = (winner = 1)
        /\ score' = IF winner = 1 THEN 100 ELSE IF winner = 0 /\ Over(board) THEN 50 ELSE 0

\* tick_tic_tac_toe
TickTicTacToe(move, interact) ==
    LET cursor  == CursorAfter(tictactoe.cursor, move)
        crossed == [tictactoe.board EXCEPT ![cursor] = 1]
        Now(board, turns) == [board |-> board, cursor |-> cursor, winner |-> Winner(board),
                              turns |-> tictactoe.turns + turns]
    IN  /\ minigame_type = "TicTacToe"
        /\ \/ /\ ~interact \/ tictactoe.board[cursor] # 0
              /\ tictactoe' = [tictactoe EXCEPT !.cursor = cursor]
              /\ UNCHANGED <<completed, victory, score, minigame_seed>>
           \/ /\ interact /\ tictactoe.board[cursor] = 0 /\ Over(crossed)
              /\ tictactoe' = Now(crossed, 1)
              /\ Ends(crossed)
              /\ UNCHANGED minigame_seed
           \/ /\ interact /\ tictactoe.board[cursor] = 0 /\ ~Over(crossed)
              /\ \E square \in AiChoices(crossed, minigame_seed) :
                    LET answered == [crossed EXCEPT ![square] = 2]
                    IN  tictactoe' = Now(answered, 2) /\ Ends(answered)
              /\ minigame_seed' = LcgNext(minigame_seed)
        /\ UNCHANGED <<minigame_type, snake, tetris>>
-----------------------------------------------------------------------------
\* minigame_begin: everything starts over; a seed of 0 becomes 1, and 4 ends in 0 too
BeginGame(new, s) ==
    /\ minigame_type' = new
    /\ completed' = FALSE /\ victory' = FALSE /\ score' = 0
    /\ CASE new = "Snake" ->
               /\ \E food \in FoodCells(NewSnake(Still).body, s) : snake' = NewSnake(food)
               /\ minigame_seed' \in AfterAttempts(s)
         [] new = "Tetris" -> snake' = NewSnake(Still) /\ minigame_seed' = LcgNext(s)
         [] new = "TicTacToe" -> snake' = NewSnake(Still) /\ minigame_seed' = s
    /\ tetris' = NewPiece({}, IF new = "Tetris" THEN LcgNext(s) ELSE 0)
    /\ tictactoe' = [board |-> [square \in Squares |-> 0], cursor |-> 4, winner |-> 0, turns |-> 0]

\* MiniGameState{}: no game is active
MinigamesInit ==
    /\ minigame_type = "None"
    /\ completed = FALSE /\ victory = FALSE /\ score = 0
    /\ minigame_seed = 1
    /\ snake = NewSnake(Still)
    /\ tetris = NewPiece({}, 0)
    /\ tictactoe = [board |-> [square \in Squares |-> 0], cursor |-> 4, winner |-> 0, turns |-> 0]

\* minigame_tick
Tick ==
    /\ ~completed
    /\ \E move \in Moves \cup {Still}, button, due \in BOOLEAN :
          \/ ~button /\ TickSnake(move, due)
          \/ move[2] = 0 /\ TickTetris(move[1], button, due)
          \/ ~due /\ TickTicTacToe(move, button)

\* Bound: a game is begun when none is played.  Begin leaves nothing of one that is.
BeginBound == minigame_type = "None" \/ completed

MinigamesNext ==
    \/ BeginBound /\ \E new \in GameTypes, s \in 0..3 : BeginGame(new, s)
    \/ Tick

MinigamesSpec == MinigamesInit /\ [][MinigamesNext]_minigame_vars
-----------------------------------------------------------------------------
(* Properties *)

\* The snake is one line of different cells of the grid, and what it is after can be
\* reached: about the order in which the body is shifted, grown and kept clear of food.
SnakeIsWhole ==
    LET body == snake.body
    IN  /\ \A i, j \in DOMAIN body : i # j => body[i] # body[j]
        /\ \A i \in DOMAIN body : body[i] \in Grid
        /\ \A i \in 1..Len(body) - 1 : Plus(body[i], [k \in 1..2 |-> -body[i + 1][k]]) \in Moves
        /\ minigame_type = "Snake" => snake.food \in Grid \ Range(body)

\* No full row stays, every filled cell is of a piece that was scored or lies there, and
\* until the end the falling piece has room: about tetris_clear_lines, which moves rows
\* while it looks for more of them.
RowsAreCleared ==
    minigame_type = "Tetris" =>
        /\ \A y \in 0..BoardH - 1 : ~FullRow(tetris.board, y)
        /\ tetris.board \subseteq TetrisBoard
        /\ (Cardinality(tetris.board) + BoardW * (score \div 100)) % 4 = 0
        /\ ~completed => Valid(tetris)

\* The two take turns, one of them at most has a line, and a game is over when one has,
\* or no square is left, and not before: about the answer to a cross that already won.
GameIsFair ==
    LET board == tictactoe.board
        Marks(p) == Cardinality({square \in Squares : board[square] = p})
    IN  minigame_type = "TicTacToe" =>
            /\ Marks(1) - Marks(2) = (IF completed /\ tictactoe.winner # 2 THEN 1 ELSE 0)
            /\ Marks(1) + Marks(2) = tictactoe.turns
            /\ ~(HasLine(board, 1) /\ HasLine(board, 2))
            /\ completed <=> Over(board)
            /\ victory <=> HasLine(board, 1)
            /\ tictactoe.winner = Winner(board)

\* Each of the three keeps its rules.
MinigamesAreSound == SnakeIsWhole /\ RowsAreCleared /\ GameIsFair
=============================================================================
