-------------------------------- MODULE Config --------------------------------
(***************************************************************************)
(* Channel configurations (include/unlog/config.hpp): a pack of options,   *)
(* in any order and at most one of a kind, is resolved when the program is *)
(* compiled; what a record captures follows from the pattern option, the   *)
(* program a sink renders from the color flag too.                         *)
(***************************************************************************)
EXTENDS Pattern

\* An option is the kind it derives from, followed by its name, or by its text if it
\* is options::pattern.
Option(kind, name) == <<kind, name>>
PatternOption(text) == <<"pattern">> \o text
KindOf(option) == Head(option)

SingleThreaded == Option("runtime_mode", "single_threaded")
Threadsafe == Option("runtime_mode", "threadsafe")
Drop == Option("overflow", "drop")
Truncate == Option("overflow", "truncate")
NormalPages == Option("huge_pages", "normal_pages")
HugePages == Option("huge_pages", "huge_pages")

\* channel_opt_type: what config.hpp defines, and any pattern
ChannelOption(option) ==
    \/ option \in {SingleThreaded, Threadsafe, Drop, Truncate, NormalPages, HugePages}
    \/ option # <<>> /\ KindOf(option) = "pattern"

\* valid_channel_opt_pack: such options, at most one of a kind
ValidPack(options) ==
    /\ options \in Seq(Seq(STRING))
    /\ \A i \in DOMAIN options : ChannelOption(options[i])
    /\ \A i, j \in DOMAIN options : KindOf(options[i]) = KindOf(options[j]) => i = j

\* Mutant: an option counts only in front of the others.
ResolveFirst(kind, default, options) ==
    IF options # <<>> /\ KindOf(Head(options)) = kind THEN Head(options) ELSE default

\* resolve_opt and resolve_pattern_opt: the head if it is of the kind, else the tail's
Resolve(kind, default, options) ==
    LET from[i \in 1 .. Len(options) + 1] ==
            IF i > Len(options) THEN default
            ELSE IF KindOf(options[i]) = kind THEN options[i] ELSE from[i + 1]
    IN  from[1]

\* default_pattern_plain_type, "[%H:%M:%S.%e] [%*] [%n:%l|%g:%#] >> %v"
DefaultPlain ==
    <<"[", "%", "H", ":", "%", "M", ":", "%", "S", ".", "%", "e", "]", " ", "[", "%", "*", "]", " ",
      "[", "%", "n", ":", "%", "l", "|", "%", "g", ":", "%", "#", "]", " ", ">", ">", " ", "%", "v">>

\* default_pattern_color_type, "[%H:%M:%S.%e] [%*] [%n:%^%l%$|%g:%#] >> %v"
DefaultColor ==
    <<"[", "%", "H", ":", "%", "M", ":", "%", "S", ".", "%", "e", "]", " ", "[", "%", "*", "]", " ",
      "[", "%", "n", ":", "%", "^", "%", "l", "%", "$", "|", "%", "g", ":", "%", "#", "]", " ",
      ">", ">", " ", "%", "v">>

\* default_pattern_type: which program it stands for depends on the configuration
DefaultPattern == <<"default">>
PatternType(options) == Resolve("pattern", DefaultPattern, options)
UsesDefault(options) == PatternType(options) = DefaultPattern

\* the text whose requirements and captures the configuration takes
CaptureText(options) == IF UsesDefault(options) THEN DefaultPlain ELSE Tail(PatternType(options))

\* config_pattern_program
Program(options, color) ==
    IF UsesDefault(options) THEN IF color THEN DefaultColor ELSE DefaultPlain
    ELSE Tail(PatternType(options))

\* config's overflow_type, runtime_mode_type and huge_pages_type
OverflowType(options) == Resolve("overflow", Drop, options)
RuntimeModeType(options) == Resolve("runtime_mode", SingleThreaded, options)
HugePagesType(options) == Resolve("huge_pages", NormalPages, options)
-----------------------------------------------------------------------------
(* Properties *)

\* what a configuration is resolved to
Resolved(options, color) ==
    <<RuntimeModeType(options), OverflowType(options), HugePagesType(options),
      CaptureText(options), Program(options, color)>>

\* The order in which options are written makes no difference, and neither does
\* naming a default.
OrderFree(options, color) ==
    /\ \A p \in [DOMAIN options -> DOMAIN options] :
          (\A i, j \in DOMAIN options : p[i] = p[j] => i = j) =>
              Resolved([i \in DOMAIN options |-> options[p[i]]], color) = Resolved(options, color)
    /\ \A default \in {SingleThreaded, Drop, NormalPages} :
          ValidPack(Append(options, default)) =>
              Resolved(Append(options, default), color) = Resolved(options, color)
=============================================================================
