------------------------------- MODULE Pattern -------------------------------
(***************************************************************************)
(* The patterns of include/unlog/format.hpp: a text with %-directives is   *)
(* compiled into pieces when the program is compiled, scanned once more    *)
(* for what a record must capture, and rendered piece by piece             *)
(* (render_pattern of src/backend/internal.hpp).                           *)
(*                                                                         *)
(* A text is a sequence of one-character strings.  A piece's token is the  *)
(* character of its directive, or "literal".  Offsets count from 1.        *)
(***************************************************************************)
EXTENDS Integers, Sequences, FiniteSets

\* decode_pattern_token knows these
Known == {"%", "H", "M", "S", "e", "*", "n", "l", "g", "#", "v", "^", "$"}

\* the first % at or after i, or the end of the text
NextPercent(text, i) ==
    CHOOSE j \in i .. Len(text) + 1 :
        /\ j = Len(text) + 1 \/ text[j] = "%"
        /\ \A k \in i .. j - 1 : text[k] # "%"

Literal(offset, size) ==
    IF size = 0 THEN <<>> ELSE <<[token |-> "literal", offset |-> offset, size |-> size]>>

Directive(text, j) ==
    IF text[j + 1] \in Known
    THEN <<[token |-> text[j + 1], offset |-> 0, size |-> 0]>>
    ELSE Literal(j, 2)

\* compile_pattern, from where a literal begins
Compile(text) ==
    LET n == Len(text)
        from[i \in 1 .. n + 1] ==
            LET j == NextPercent(text, i) IN
            IF j > n THEN Literal(i, n + 1 - i)
            ELSE IF j = n THEN Literal(i, n - i) \o Literal(n, 1)
            ELSE Literal(i, j - i) \o Directive(text, j) \o from[j + 2]
    IN  from[1]

One(condition) == IF condition THEN 1 ELSE 0

\* Mutant: an empty literal before a directive is counted.
PieceCountEmpty(text) ==
    LET n == Len(text)
        from[i \in 1 .. n + 1] ==
            LET j == NextPercent(text, i) IN
            IF j > n THEN One(i <= n) ELSE IF j = n THEN 2 ELSE 2 + from[j + 2]
    IN  from[1]

\* pattern_piece_count, which sizes the array compile_pattern fills
PieceCount(text) ==
    LET n == Len(text)
        from[i \in 1 .. n + 1] ==
            LET j == NextPercent(text, i) IN
            IF j > n THEN One(i # n + 1)
            ELSE One(i # j) + 1 + IF j = n THEN 0 ELSE from[j + 2]
    IN  from[1]

\* Mutant: the character after a % may itself begin a directive.
EscapesOverlapping(text) ==
    {text[i + 1] : i \in {k \in 1 .. Len(text) - 1 : text[k] = "%"}}

\* the characters that follow a %, as analyze_time_requirements and
\* pattern_uses_token walk the text
Escapes(text) ==
    LET n == Len(text)
        from[i \in 1 .. n + 1] ==
            IF i >= n THEN {}
            ELSE IF text[i] # "%" THEN from[i + 1]
            ELSE {text[i + 1]} \cup from[i + 2]
    IN  from[1]

WallClock == {"H", "M", "S", "e"}

\* analyze_time_requirements
Requirements(text) ==
    {r \in {"wall_clock", "elapsed"} :
        IF r = "elapsed" THEN "*" \in Escapes(text) ELSE Escapes(text) \cap WallClock # {}}

\* pattern_uses_token
UsesToken(text, c) == c \in Escapes(text)

\* what render_pattern appends for a piece: characters of the text, or a field
RenderPiece(text, piece, color) ==
    CASE piece.token = "literal" ->
            [i \in 1 .. piece.size |-> <<"text", text[piece.offset + i - 1]>>]
      [] piece.token = "%" -> <<<<"text", "%">>>>
      [] piece.token \in {"^", "$"} -> IF color THEN <<<<"field", piece.token>>>> ELSE <<>>
      [] OTHER -> <<<<"field", piece.token>>>>

\* render_pattern, without the newline it ends with: what the first k pieces append
Render(text, pieces, color) ==
    LET upTo[k \in 0 .. Len(pieces)] ==
            IF k = 0 THEN <<>> ELSE upTo[k - 1] \o RenderPiece(text, pieces[k], color)
    IN  upTo[Len(pieces)]

-----------------------------------------------------------------------------
(* What a pattern means, one character at a time *)

Shown(c, color) ==
    CASE c = "%" -> <<<<"text", "%">>>>
      [] c \in {"^", "$"} -> IF color THEN <<<<"field", c>>>> ELSE <<>>
      [] c \in Known \ {"%", "^", "$"} -> <<<<"field", c>>>>
      [] OTHER -> <<<<"text", "%">>, <<"text", c>>>>

Meaning(text, color) ==
    LET n == Len(text)
        from[i \in 1 .. n + 1] ==
            IF i > n THEN <<>>
            ELSE IF text[i] = "%" /\ i < n THEN Shown(text[i + 1], color) \o from[i + 2]
            ELSE <<<<"text", text[i]>>>> \o from[i + 1]
    IN  from[1]

Tokens(pieces) == {pieces[k].token : k \in 1 .. Len(pieces)}
=============================================================================
