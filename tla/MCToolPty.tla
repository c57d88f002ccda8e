------------------------------- MODULE MCToolPty -------------------------------
(* Instances of ToolPty for TLC.                                           *)
EXTENDS ToolPty

\* A long line, an overwritten one, blank lines, and escape sequences inside a line.
FewScripts ==
    {<<"x", "y", "x", "nl">>, <<"x", "cr", "y">>, <<"nl", "cr", "nl">>,
     <<"x", "bell">>, <<"sgr", "x">>, <<"title">>}

\* The first name is taken: the clock stands where it stood when that artifact was made.
OneTaken == {{<<1, 0>>}}
===============================================================================
