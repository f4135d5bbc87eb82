------------------------------ MODULE MCTiny ------------------------------
(* Requests and files for TLC. *)
EXTENDS Tiny

\* A page with a header line that is longer than the buffer by its line end, a program
\* with and without arguments, a method that is not served with more behind it, lines
\* that end without a carriage return, no uri, and a header line without an end.
SomeRequests ==
    {<<"get", "/", "cr", "lf", "h", "h", "h", "h", "cr", "lf", "cr", "lf">>,
     <<"get", "cgi-bin/adder?1&2", "cr", "lf", "cr", "lf">>,
     <<"get", "cgi-bin/adder", "cr", "lf", "cr", "lf">>,
     <<"post", "cr", "lf", "cr", "lf">>,
     <<"get", "/", "lf", "lf">>,
     <<"get", "cr", "lf", "cr", "lf">>,
     <<"get", "/", "cr", "lf", "h">>}

OnePage == {<<"get", "/", "cr", "lf", "cr", "lf">>}

CONSTANTS c1, c2
RequestsOf == [c \in {c1, c2} |-> IF c = c1 THEN SomeRequests ELSE OnePage]

SomeDisks ==
    {[f \in Files |-> "data"],
     [f \in Files |-> IF f = "home.html" THEN "empty" ELSE "unreadable"]}
=============================================================================
