---------------------------- MODULE MCRecordPath ----------------------------
(* Small instances of RecordPath for TLC. *)
EXTENDS RecordPath

Setup(options, color, customOptions, clock) ==
    [options |-> options, color |-> color, customOptions |-> customOptions,
     capacity |-> 3, clockType |-> clock]

Plain == <<PatternOption(<<"x">>)>>
ShowsElapsed == <<PatternOption(<<"%", "*">>)>>

\* a character of each kind a pattern tells apart: x stands for an unknown directive
Symbols == {"%", "H", "*", "g", "^", "x"}
Texts(n) == [1 .. n -> Symbols]

\* every text of up to two characters, and longer ones in which directives, escaped
\* percent signs and literals follow each other
SomeTexts == UNION {Texts(n) : n \in 0 .. 2} \cup
    {<<"%", "%", "H">>, <<"x", "%", "*">>, <<"%", "x", "%">>, <<"%", "H", "x">>,
     <<"%", "%", "%", "H">>, <<"%", "%", "%", "%">>, <<"%", "g", "%", "*">>}

PatternSetups ==
    {Setup(<<PatternOption(text)>>, color, Plain, "steady") : text \in SomeTexts, color \in BOOLEAN}

\* the clocks and the policies, with patterns that show a time and that do not
TimeSetups ==
    {Setup(<<PatternOption(text), policy>>, FALSE, other, clock) :
        text \in {<<"x">>, <<"%", "*">>, <<"%", "H">>}, policy \in {Drop, Truncate},
        other \in {Plain, ShowsElapsed}, clock \in {"steady", "system"}}

\* packs of up to three options in every order, most of them with the default pattern
Options == {Threadsafe, Truncate, HugePages, PatternOption(<<"%", "*">>)}
Packs == {p \in UNION {[1 .. n -> Options] : n \in 0 .. 3} : ValidPack(p)}
PackSetups == {Setup(pack, color, Plain, "system") : pack \in Packs, color \in BOOLEAN}

AllSetups == PatternSetups \cup TimeSetups \cup PackSetups

CustomAlone == {Setup(Plain, FALSE, ShowsElapsed, "steady")}
=============================================================================
