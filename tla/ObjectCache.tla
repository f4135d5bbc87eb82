---------------------------- MODULE ObjectCache ----------------------------
(***************************************************************************)
(* The cache of proxy.c as its clients should see it: lookups, insertions  *)
(* and touches that each happen at one instant.  A client looks its key up *)
(* once.  One that hits is given the object and touches its line; only one *)
(* that has missed inserts, and at most once.  A full cache loses its      *)
(* least recently used line.  A key is in two lines when two clients both  *)
(* missed it before either inserted it.                                    *)
(***************************************************************************)
EXTENDS Naturals, Sequences

CONSTANTS
    Clients,
    Keys,
    Objects,
    Size,       \* lines of the cache
    Nothing     \* no key, and the answer of a client that has not been served

VARIABLES
    lines,      \* sequence of [key, object, stamp]
    clock,
    client      \* each client: [at, key, line, answer]

vars == <<lines, clock, client>>

Line(k, o) == [key |-> k, object |-> o, stamp |-> clock]
Client(at, k, i, o) == [at |-> at, key |-> k, line |-> i, answer |-> o]
Away       == Client("away", Nothing, 0, Nothing)

Init ==
    /\ lines = <<>>
    /\ clock = 0
    /\ client = [c \in Clients |-> Away]

Ask(c) ==
    /\ client[c].at = "away"
    /\ \E k \in Keys : client' = [client EXCEPT ![c] = Client("asks", k, 0, Nothing)]
    /\ UNCHANGED <<lines, clock>>

\* The first line of the key answers.
Answers(i, c) ==
    /\ lines[i].key = client[c].key
    /\ \A j \in 1 .. i - 1 : lines[j].key # client[c].key
    /\ client' = [client EXCEPT ![c] = Client("hit", client[c].key, i, lines[i].object)]

Hit(c) ==
    /\ client[c].at = "asks"
    /\ \E i \in DOMAIN lines : Answers(i, c)
    /\ UNCHANGED <<lines, clock>>

Miss(c) ==
    /\ client[c].at = "asks"
    /\ \A i \in DOMAIN lines : lines[i].key # client[c].key
    /\ client' = [client EXCEPT ![c].at = "missed"]
    /\ UNCHANGED <<lines, clock>>

Insert(c) ==
    /\ client[c].at = "missed"
    /\ Len(lines) < Size
    /\ \E o \in Objects : lines' = Append(lines, Line(client[c].key, o))
    /\ clock' = clock + 1
    /\ client' = [client EXCEPT ![c].at = "done"]

GivesWay(i, c, o) ==
    /\ \A j \in DOMAIN lines : lines[i].stamp <= lines[j].stamp
    /\ lines' = [lines EXCEPT ![i] = Line(client[c].key, o)]

Replace(c) ==
    /\ client[c].at = "missed"
    /\ Len(lines) = Size
    /\ \E i \in DOMAIN lines, o \in Objects : GivesWay(i, c, o)
    /\ clock' = clock + 1
    /\ client' = [client EXCEPT ![c].at = "done"]

\* The line the client was answered from, which may hold another key by now: the read
\* lock is given up before the line is touched (proxy.c:83-87).
Touch(c) ==
    /\ client[c].at = "hit"
    /\ lines' = [lines EXCEPT ![client[c].line].stamp = clock]
    /\ clock' = clock + 1
    /\ client' = [client EXCEPT ![c] = Client("done", client[c].key, 0, client[c].answer)]

\* A client that missed may go without having inserted.
Leave(c) ==
    /\ client[c].at \in {"missed", "done"}
    /\ client' = [client EXCEPT ![c] = Away]
    /\ UNCHANGED <<lines, clock>>

Next ==
    \E c \in Clients :
        Ask(c) \/ Hit(c) \/ Miss(c) \/ Insert(c) \/ Replace(c) \/ Touch(c) \/ Leave(c)

Spec == Init /\ [][Next]_vars
=============================================================================
