------------------------------- MODULE MCSinks -------------------------------
(* A small instance of Sinks for TLC. *)
EXTENDS SinksInvariant

CONSTANTS n1, n2, custom, mainFile, libFile, nullFile

File == [type |-> "file", target |-> "a"]
Fd == [type |-> "fd", target |-> "a"]
Dgram == [type |-> "unix_dgram", target |-> "a"]

SomeConfs == {File, Fd, Dgram}

\* the pattern of n1 shows the file, that of n2 does not
Sources == [n \in Names |-> IF n = n1 THEN <<mainFile, libFile, mainFile>>
                                      ELSE <<nullFile, nullFile, nullFile>>]

\* "d/e/m" and "l": with directories and without
Paths == [f \in {mainFile, libFile} |->
             IF f = mainFile THEN <<"d", "/", "e", "/", "m">> ELSE <<"l">>]
=============================================================================
