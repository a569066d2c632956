----------------------------- MODULE MCConsole -----------------------------
(* A screen of three rows of three, one program that tries every conversion, *)
(* one that writes a line, and a few keys.                                   *)
EXTENDS Console

CONSTANTS p1, p2

Format(f, a) == [fmt |-> f, args |-> a]

MCCalls == [p \in {p1, p2} |->
    IF p = p2 THEN {Format(<<"o", "\n">>, <<>>)}
    ELSE {Format(<<"%", "u", "\n">>, <<v>>) : v \in {0, 2147483647}}
         \cup {Format(<<"%", "x">>, <<0>>), Format(<<"%", "x">>, <<427>>), Format(<<"%", "X">>, <<11259375>>)}
         \cup {Format(<<"a", "%", "%">>, <<>>), Format(<<"%", "s", "%", "c">>, <<<<"k", "k">>, "s">>),
               Format(<<"%", "a">>, <<>>)}]

MCChars == STRING
MCPanic == <<<<"k", "p">>, <<"m">>>>
=============================================================================
