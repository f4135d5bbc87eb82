----------------------------- MODULE TinyProofs -----------------------------
(***************************************************************************)
(* Proofs about Tiny and its reader: the reader implements LineStream, and *)
(* each client gets the answer to its own request, for every set of        *)
(* clients and requests and every size of the buffers.                     *)
(***************************************************************************)
EXTENDS Tiny, Extrema, SequenceTheorems, TLAPS

-----------------------------------------------------------------------------
(* Sequences and lines. *)

\* A sequence, cut in two.
LEMMA SplitSeq ==
    ASSUME NEW S, NEW s \in Seq(S), NEW k \in 0 .. Len(s)
    PROVE  /\ SubSeq(s, 1, k) \in Seq(S) /\ Len(SubSeq(s, 1, k)) = k
           /\ \A i \in 1 .. k : SubSeq(s, 1, k)[i] = s[i]
           /\ SubSeq(s, k + 1, Len(s)) \in Seq(S)
           /\ k = Len(s) => SubSeq(s, k + 1, Len(s)) = <<>>
           /\ SubSeq(s, 1, k) \o SubSeq(s, k + 1, Len(s)) = s
<1>1. Len(s) \in Nat
  BY LenProperties
<1>2. /\ SubSeq(s, 1, k) \in Seq(S) /\ Len(SubSeq(s, 1, k)) = k
      /\ \A i \in 1 .. k : SubSeq(s, 1, k)[i] = s[i]
  <2> DEFINE t == SubSeq(s, 1, k)
  <2>1. \A i \in 1 .. k : s[i] \in S
    BY <1>1, ElementOfSeq
  <2>2. k \in Int /\ k - 1 + 1 = k /\ (~(1 <= k) => k = 0) /\ \A i \in Int : 1 + i - 1 = i
    BY <1>1
  <2>3. /\ t \in Seq(S) /\ Len(t) = IF 1 <= k THEN k - 1 + 1 ELSE 0
        /\ \A i \in 1 .. k - 1 + 1 : t[i] = s[1 + i - 1]
    BY <2>1, <2>2, SubSeqProperties
  <2> HIDE DEF t
  <2>4. t \in Seq(S) /\ Len(t) = k /\ \A i \in 1 .. k : t[i] = s[i]
    BY <2>2, <2>3
  <2> QED BY <2>4 DEF t
<1>3. SubSeq(s, 1, k) \o SubSeq(s, k + 1, Len(s)) = s
  <2>1. 1 \in 1 .. Len(s) + 1 /\ k \in 1 - 1 .. Len(s) /\ Len(s) \in k .. Len(s)
    BY <1>1
  <2>2. SubSeq(s, 1, k) \o SubSeq(s, k + 1, Len(s)) = SubSeq(s, 1, Len(s))
    BY <1>1, <2>1, ConcatAdjacentSubSeq
  <2> QED BY <2>2, SubSeqFull
<1>4. SubSeq(s, k + 1, Len(s)) \in Seq(S)
  <2>1. \A i \in k + 1 .. Len(s) : s[i] \in S
    BY <1>1, ElementOfSeq
  <2> QED BY <1>1, <2>1, SubSeqProperties
<1>5. k = Len(s) => SubSeq(s, k + 1, Len(s)) = <<>>
  BY <1>1, SubSeqEmpty
<1> QED BY <1>2, <1>3, <1>4, <1>5

\* FirstEOL finds the first end of line there is.
LEMMA FirstEOLFound ==
    ASSUME NEW S, NEW s \in Seq(S), Stream!HasEOL(s)
    PROVE  /\ Stream!FirstEOL(s) \in 1 .. Len(s)
           /\ s[Stream!FirstEOL(s)] = EOL
           /\ \A j \in 1 .. Stream!FirstEOL(s) - 1 : s[j] # EOL
<1> DEFINE ends == {i \in 1 .. Len(s) : s[i] = EOL}
<1>1. Len(s) \in Nat
  BY LenProperties
<1>2. ends \subseteq Nat /\ ends # {}
  BY <1>1 DEF Stream!HasEOL
<1>3. PICK i \in ends : \A j \in ends : i <= j
  <2> HIDE DEF ends
  <2> QED BY <1>2, NatMin
<1>4. i \in 1 .. Len(s) /\ s[i] = EOL /\ \A j \in 1 .. i - 1 : s[j] # EOL
  BY <1>1, <1>3
<1> QED BY <1>4 DEF Stream!FirstEOL

\* The first end of line of s is the one that no other goes before.
LEMMA FirstEOLIs ==
    ASSUME NEW S, NEW s \in Seq(S), NEW n \in 1 .. Len(s), s[n] = EOL,
           \A j \in 1 .. n - 1 : s[j] # EOL
    PROVE  Stream!HasEOL(s) /\ Stream!FirstEOL(s) = n
<1>1. Len(s) \in Nat
  BY LenProperties
<1>2. Stream!HasEOL(s)
  BY DEF Stream!HasEOL
<1>3. /\ Stream!FirstEOL(s) \in 1 .. Len(s) /\ s[Stream!FirstEOL(s)] = EOL
      /\ \A j \in 1 .. Stream!FirstEOL(s) - 1 : s[j] # EOL
  BY <1>2, FirstEOLFound
<1>4. ~(Stream!FirstEOL(s) < n) /\ ~(n < Stream!FirstEOL(s))
  BY <1>1, <1>3
<1> QED BY <1>1, <1>2, <1>3, <1>4

\* A line is not longer than what there is, nor than the buffer, and empty only if there
\* is nothing.
LEMMA LineLenBounds ==
    ASSUME NEW S, NEW s \in Seq(S)
    PROVE  /\ Stream!LineLen(s) \in 0 .. Len(s) /\ Stream!LineLen(s) <= MAXLINE - 1
           /\ s # <<>> => Stream!LineLen(s) > 0
<1>1. Len(s) \in Nat /\ (s # <<>> => Len(s) > 0)
  BY LenProperties, EmptySeq
<1>2. Stream!HasEOL(s) => Stream!FirstEOL(s) \in 1 .. Len(s)
  BY FirstEOLFound
<1> QED BY <1>1, <1>2, RioAssumption DEF Stream!LineLen, Stream!Smaller

\* rio_readlineb stops at the end of line or at the end of its buffer, whatever follows.
LEMMA LineEndsHere ==
    ASSUME NEW S, NEW s \in Seq(S), NEW t \in Seq(S), NEW c \in S,
           \A i \in 1 .. Len(s) : s[i] # EOL, Len(s) < MAXLINE - 1,
           c = EOL \/ Len(s) + 1 = MAXLINE - 1
    PROVE  LET whole == s \o (<<c>> \o t)
           IN  /\ Stream!LineLen(whole) = Len(s) + 1
               /\ \A end : Stream!LineReady(whole, end)
               /\ SubSeq(whole, 1, Len(s) + 1) = Append(s, c)
               /\ SubSeq(whole, Len(s) + 2, Len(whole)) = t
<1> DEFINE whole == s \o (<<c>> \o t)
           n == Len(s) + 1
<1>1. Len(s) \in Nat /\ Len(t) \in Nat
  BY LenProperties
<1>2. /\ <<c>> \o t \in Seq(S) /\ Len(<<c>> \o t) = Len(t) + 1
      /\ \A i \in 1 .. Len(t) + 1 : (<<c>> \o t)[i] = IF i = 1 THEN c ELSE t[i - 1]
  <2>1. <<c>> \in Seq(S) /\ Len(<<c>>) = 1 /\ <<c>>[1] = c
    OBVIOUS
  <2> QED BY <1>1, <2>1, ConcatProperties
<1>3. /\ whole \in Seq(S) /\ Len(whole) = n + Len(t)
      /\ \A i \in 1 .. n + Len(t) :
            whole[i] = IF i < n THEN s[i] ELSE IF i = n THEN c ELSE t[i - n]
  <2>1. /\ whole \in Seq(S) /\ Len(whole) = Len(s) + (Len(t) + 1)
        /\ \A i \in 1 .. Len(s) + (Len(t) + 1) :
              whole[i] = IF i <= Len(s) THEN s[i] ELSE (<<c>> \o t)[i - Len(s)]
    <3> DEFINE u == <<c>> \o t
    <3> HIDE DEF u
    <3> QED BY <1>1, <1>2, ConcatProperties DEF u
  <2> QED BY <1>1, <1>2, <2>1
<1> HIDE DEF whole
<1>4. n \in 1 .. Len(whole) /\ whole[n] = c /\ \A i \in 1 .. n - 1 : whole[i] # EOL
  BY <1>1, <1>3
<1>5. Stream!LineLen(whole) = n
  <2>1. CASE c = EOL
    <3>1. Stream!HasEOL(whole) /\ Stream!FirstEOL(whole) = n
      BY <1>3, <1>4, <2>1, FirstEOLIs
    <3> QED BY <1>1, <3>1, RioAssumption DEF Stream!LineLen, Stream!Smaller
  <2>2. CASE n = MAXLINE - 1
    <3>1. Stream!HasEOL(whole) => Stream!FirstEOL(whole) >= n
      BY <1>1, <1>3, <1>4, FirstEOLFound
    <3>2. Stream!HasEOL(whole) => Stream!FirstEOL(whole) \in 1 .. Len(whole)
      BY <1>3, FirstEOLFound
    <3> QED BY <1>1, <1>3, <2>2, <3>1, <3>2, RioAssumption DEF Stream!LineLen, Stream!Smaller
  <2> QED BY <2>1, <2>2
<1>6. ASSUME NEW end
      PROVE  Stream!LineReady(whole, end)
  BY <1>1, <1>3, <1>4 DEF Stream!LineReady, Stream!HasEOL
<1>7. SubSeq(whole, 1, n) = Append(s, c)
  <2>1. /\ SubSeq(whole, 1, n) \in Seq(S) /\ Len(SubSeq(whole, 1, n)) = n
        /\ \A i \in 1 .. n : SubSeq(whole, 1, n)[i] = whole[i]
    <3>1. \A i \in 1 .. n : whole[i] \in S
      BY <1>1, <1>3, ElementOfSeq
    <3>2. n \in Int /\ 1 \in Int /\ n - 1 + 1 = n /\ \A i \in Int : 1 + i - 1 = i
      BY <1>1
    <3> HIDE DEF n
    <3>3. /\ SubSeq(whole, 1, n) \in Seq(S)
          /\ Len(SubSeq(whole, 1, n)) = IF 1 <= n THEN n - 1 + 1 ELSE 0
          /\ \A i \in 1 .. n - 1 + 1 : SubSeq(whole, 1, n)[i] = whole[1 + i - 1]
      BY <3>1, <3>2, SubSeqProperties
    <3> QED BY <1>1, <3>2, <3>3 DEF n
  <2>2. /\ Append(s, c) \in Seq(S) /\ Len(Append(s, c)) = n
        /\ \A i \in 1 .. n : Append(s, c)[i] = whole[i]
    BY <1>1, <1>3, AppendProperties
  <2> QED BY <2>1, <2>2, SeqEqual
<1>8. SubSeq(whole, n + 1, Len(whole)) = t
  <2>1. \A i \in n + 1 .. Len(whole) : whole[i] \in S
    BY <1>1, <1>3, ElementOfSeq
  <2>2. /\ SubSeq(whole, n + 1, Len(whole)) \in Seq(S)
        /\ Len(SubSeq(whole, n + 1, Len(whole))) = Len(t)
        /\ \A i \in 1 .. Len(t) : SubSeq(whole, n + 1, Len(whole))[i] = t[i]
    <3>1. n + 1 \in Int /\ Len(whole) \in Int
      BY <1>1, <1>3
    <3>2. /\ SubSeq(whole, n + 1, Len(whole)) \in Seq(S)
          /\ Len(SubSeq(whole, n + 1, Len(whole)))
                = IF n + 1 <= Len(whole) THEN Len(whole) - (n + 1) + 1 ELSE 0
          /\ \A i \in 1 .. Len(whole) - (n + 1) + 1 :
                SubSeq(whole, n + 1, Len(whole))[i] = whole[n + 1 + i - 1]
      BY <2>1, <3>1, SubSeqProperties
    <3>3. ASSUME NEW i \in 1 .. Len(t)
          PROVE  whole[n + 1 + i - 1] = t[i]
      <4>1. n + 1 + i - 1 = n + i /\ n + i - n = i /\ n + i \in 1 .. n + Len(t) /\ ~(n + i < n) /\ n + i # n
        BY <1>1
      <4>2. whole[n + i] = IF n + i < n THEN s[n + i] ELSE IF n + i = n THEN c ELSE t[n + i - n]
        BY <1>3, <4>1
      <4> HIDE DEF n
      <4> QED BY <1>1, <4>1, <4>2
    <3>4. Len(whole) - (n + 1) + 1 = Len(t) /\ (~(n + 1 <= Len(whole)) => Len(t) = 0)
      BY <1>1, <1>3
    <3> DEFINE sub == SubSeq(whole, n + 1, Len(whole))
    <3>5. /\ sub \in Seq(S) /\ Len(sub) = IF n + 1 <= Len(whole) THEN Len(t) ELSE 0
          /\ \A i \in 1 .. Len(t) : sub[i] = whole[n + 1 + i - 1]
      BY <3>2, <3>4
    <3> HIDE DEF sub
    <3> QED BY <3>3, <3>4, <3>5 DEF sub
  <2> QED BY <2>2, SeqEqual
<1>9. n + 1 = Len(s) + 2
  BY <1>1
<1> QED BY <1>5, <1>6, <1>7, <1>8, <1>9 DEF whole

\* What has come without an end of line is a line once nothing follows.
LEMMA LastLineEnds ==
    ASSUME NEW S, NEW s \in Seq(S), \A i \in 1 .. Len(s) : s[i] # EOL, Len(s) < MAXLINE - 1
    PROVE  /\ Stream!LineLen(s) = Len(s)
           /\ SubSeq(s, 1, Len(s)) = s /\ SubSeq(s, Len(s) + 1, Len(s)) = <<>>
<1>1. Len(s) \in Nat
  BY LenProperties
<1>2. Stream!LineLen(s) = Len(s)
  BY <1>1, RioAssumption DEF Stream!LineLen, Stream!Smaller, Stream!HasEOL
<1>3. SubSeq(s, 1, Len(s)) = s
  BY SubSeqFull
<1> QED BY <1>1, <1>2, <1>3, SubSeqEmpty

\* The first line does not depend on what comes after it.
LEMMA LineOfPrefix ==
    ASSUME NEW S, NEW s \in Seq(S), NEW t \in Seq(S), Stream!HasEOL(s) \/ t = <<>>
    PROVE  /\ Stream!LineLen(s \o t) = Stream!LineLen(s)
           /\ SubSeq(s \o t, 1, Stream!LineLen(s \o t)) = SubSeq(s, 1, Stream!LineLen(s))
<1>1. Len(s) \in Nat /\ Len(t) \in Nat
  BY LenProperties
<1>2. CASE t = <<>>
  BY <1>2, ConcatEmptySeq
<1>3. CASE Stream!HasEOL(s)
  <2> DEFINE n == Stream!FirstEOL(s)
  <2>1. n \in 1 .. Len(s) /\ s[n] = EOL /\ \A j \in 1 .. n - 1 : s[j] # EOL
    BY <1>3, FirstEOLFound
  <2> HIDE DEF n
  <2>2. /\ s \o t \in Seq(S) /\ Len(s \o t) = Len(s) + Len(t)
        /\ \A i \in 1 .. Len(s) : (s \o t)[i] = s[i]
    BY <1>1, ConcatProperties
  <2>3. Stream!HasEOL(s \o t) /\ Stream!FirstEOL(s \o t) = n
    <3>1. n \in 1 .. Len(s \o t) /\ (s \o t)[n] = EOL /\ \A j \in 1 .. n - 1 : (s \o t)[j] # EOL
      BY <1>1, <2>1, <2>2
    <3> QED BY <2>2, <3>1, FirstEOLIs
  <2>4. Stream!LineLen(s \o t) = Stream!LineLen(s)
    <3>1. (IF Stream!HasEOL(s) THEN Stream!FirstEOL(s) ELSE Len(s)) = n
      BY <1>3, Zenon DEF n
    <3>2. (IF Stream!HasEOL(s \o t) THEN Stream!FirstEOL(s \o t) ELSE Len(s \o t)) = n
      BY <2>3, Zenon
    <3> QED BY <3>1, <3>2, Zenon DEF Stream!LineLen
  <2>5. Stream!LineLen(s) \in 1 .. Len(s)
    BY <1>1, <1>3, <2>1, RioAssumption DEF Stream!LineLen, Stream!Smaller, n
  <2>6. SubSeq(s \o t, 1, Stream!LineLen(s)) = SubSeq(s, 1, Stream!LineLen(s))
    <3>1. 1 \in 1 .. Len(s)
      BY <1>1, <2>1
    <3> QED BY <2>5, <3>1, SubSeqOfConcat1
  <2> QED BY <2>4, <2>6
<1> QED BY <1>2, <1>3
-----------------------------------------------------------------------------
(* The types, by the part of the server they belong to. *)

Pcs == {"accept", "request", "headers", "stat", "write", "open", "fork", "wait", "close", "exited"}

WireTypes ==
    /\ wire \in [Conns -> Seq(Bytes)] /\ shut \in [Conns -> BOOLEAN]
    /\ toSend \in [Conns -> Seq(Bytes)]

\* What is left of a read is at the end of rio_buf.
RioTypes ==
    /\ rio \in [fd : Conns \cup {NoConn}, cnt : -1 .. RIO_BUFSIZE, bufptr : 1 .. RIO_BUFSIZE + 1,
                buf : Seq(Bytes)]
    /\ Len(rio.buf) <= RIO_BUFSIZE
    /\ rio.cnt > 0 => rio.bufptr + rio.cnt - 1 = Len(rio.buf)

\* The caller's buffer holds less than a line.
LineTypes ==
    /\ reading \in BOOLEAN
    /\ usrbuf \in Seq(Bytes) /\ Len(usrbuf) < MAXLINE - 1
    /\ \A i \in 1 .. Len(usrbuf) : usrbuf[i] # EOL
    /\ ~reading => usrbuf = <<>>
    /\ line \in Seq(Bytes) /\ Len(line) < MAXLINE

\* The server has a connection from Accept to Close, and reads only in two places.
ServerTypes ==
    /\ pc \in Pcs
    /\ reading => pc \in {"request", "headers", "exited"}
    /\ pc = "accept" => rio.fd = NoConn
    /\ pc \notin {"accept", "exited"} => rio.fd \in Conns
    /\ after \in {"accept", "close", "open", "fork"} /\ (pc = "write" => after # "accept")
    /\ child \in {"none", "running", "dead"}
    /\ child # "none" => pc \in {"wait", "exited"} /\ rio.fd \in Conns
    /\ uri \in Uris /\ hdr \in BOOLEAN /\ disk \in [Files -> Kinds]

\* A connection waits once, and neither while it is served nor afterwards.
QueueInv ==
    /\ queue \in Seq(Conns) /\ served \subseteq Conns
    /\ \A i, j \in 1 .. Len(queue) : queue[i] = queue[j] => i = j
    /\ \A i \in 1 .. Len(queue) : queue[i] \notin served \cup {rio.fd}
    /\ rio.fd \notin served

Types == WireTypes /\ RioTypes /\ LineTypes /\ ServerTypes /\ QueueInv

-----------------------------------------------------------------------------
(* What a step does to the bytes ahead of the reader. *)

SameAhead == \A c \in Conns : Ahead(c)' = Ahead(c)

\* What is ahead of the reader is a sequence of bytes.
LEMMA AheadTypes ==
    ASSUME WireTypes, RioTypes, LineTypes
    PROVE  /\ Unread \in Seq(Bytes)
           /\ rio.cnt <= 0 => Unread = <<>>
           /\ \A c \in Conns : Ahead(c) \in Seq(Bytes)
<1>1. rio.bufptr \in Int /\ rio.cnt \in Int /\ rio.bufptr + rio.cnt - 1 \in Int
  BY RioAssumption DEF RioTypes
<1>2. CASE rio.cnt <= 0
  <2>1. rio.bufptr + rio.cnt - 1 < rio.bufptr
    BY <1>1, <1>2
  <2>2. Unread = <<>>
    BY <1>1, <2>1, SubSeqEmpty DEF Unread
  <2> QED BY <1>2, <2>2, EmptySeq, ConcatProperties DEF Ahead, WireTypes, LineTypes
<1>3. CASE rio.cnt > 0
  <2>1. \A i \in rio.bufptr .. rio.bufptr + rio.cnt - 1 : rio.buf[i] \in Bytes
    BY <1>1, <1>3, ElementOfSeq DEF RioTypes
  <2>2. Unread \in Seq(Bytes)
    BY <1>1, <2>1, SubSeqProperties DEF Unread
  <2> QED BY <1>1, <1>3, <2>2, ConcatProperties DEF Ahead, WireTypes, LineTypes
<1> QED BY <1>1, <1>2, <1>3

\* A client sends up to the end of a line, or all it has.
LEMMA SendsLine ==
    ASSUME WireTypes, RioTypes, LineTypes, NEW c \in Conns, ClientSends(c)
    PROVE  \E n \in 1 .. Len(toSend[c]) :
              LET sent == SubSeq(toSend[c], 1, n)
              IN  /\ sent \in Seq(Bytes) /\ Len(sent) = n
                  /\ wire' = [wire EXCEPT ![c] = @ \o sent]
                  /\ toSend' = [toSend EXCEPT ![c] = SubSeq(@, n + 1, Len(@))]
                  /\ sent \o toSend'[c] = toSend[c] /\ toSend'[c] \in Seq(Bytes)
                  /\ Stream!HasEOL(sent) \/ toSend'[c] = <<>>
                  /\ Ahead(c)' = Ahead(c) \o sent
                  /\ \A d \in Conns \ {c} : Ahead(d)' = Ahead(d)
<1> DEFINE s == toSend[c]
           stops == {i \in 1 .. Len(s) : s[i] = EOL \/ i = Len(s)}
           P(i) == (s[i] = EOL \/ i = Len(s)) /\ \A j \in 1 .. i - 1 : s[j] # EOL
           n == CHOOSE i \in 1 .. Len(s) : P(i)
           sent == SubSeq(s, 1, n)
<1>1. s \in Seq(Bytes) /\ Len(s) \in Nat \ {0}
  BY EmptySeq DEF WireTypes, ClientSends
<1>2. n \in 1 .. Len(s) /\ P(n)
  <2>1. stops \subseteq Nat /\ stops # {}
    BY <1>1
  <2>2. PICK i \in stops : \A j \in stops : i <= j
    <3> HIDE DEF stops
    <3> QED BY <2>1, NatMin
  <2>3. i \in 1 .. Len(s) /\ P(i)
    BY <1>1, <2>2
  <2> QED BY <2>3
<1> DEFINE left == SubSeq(s, n + 1, Len(s))
<1>3. /\ wire' = [wire EXCEPT ![c] = wire[c] \o sent]
      /\ toSend' = [toSend EXCEPT ![c] = left]
      /\ UNCHANGED <<rio, usrbuf>>
  BY DEF ClientSends, readVars
<1> HIDE DEF n, s
<1>4. /\ sent \in Seq(Bytes) /\ Len(sent) = n
      /\ \A i \in 1 .. n : sent[i] = s[i]
  BY <1>1, <1>2, SplitSeq
<1>5. sent \o left = s /\ left \in Seq(Bytes) /\ (n = Len(s) => left = <<>>)
  BY <1>1, <1>2, SplitSeq
<1>6. Stream!HasEOL(sent) \/ left = <<>>
  <2>1. s[n] = EOL \/ n = Len(s)
    BY <1>2
  <2> HIDE DEF sent, left
  <2>2. n \in 1 .. Len(sent) /\ sent[n] = s[n]
    BY <1>1, <1>2, <1>4
  <2> QED BY <1>5, <2>1, <2>2 DEF Stream!HasEOL
<1> HIDE DEF sent, left
<1>7. /\ toSend'[c] = left /\ wire'[c] = wire[c] \o sent
      /\ \A d \in Conns \ {c} : wire'[d] = wire[d]
  BY <1>3 DEF WireTypes
<1>8. Unread' = Unread
  BY <1>3 DEF Unread
<1>9. \A d \in Conns \ {c} : Ahead(d)' = Ahead(d)
  BY <1>3, <1>7, <1>8 DEF Ahead
<1>10. Ahead(c)' = Ahead(c) \o sent
  <2>1. CASE c # rio.fd
    BY <1>3, <1>7, <2>1 DEF Ahead
  <2>2. CASE c = rio.fd
    <3>1. usrbuf \in Seq(Bytes) /\ Unread \in Seq(Bytes) /\ wire[c] \in Seq(Bytes)
      BY AheadTypes DEF LineTypes, WireTypes
    <3>2. usrbuf \o Unread \in Seq(Bytes)
      BY <3>1, ConcatProperties
    <3>3. (usrbuf \o Unread) \o (wire[c] \o sent) = ((usrbuf \o Unread) \o wire[c]) \o sent
      <4> DEFINE front == usrbuf \o Unread
                 w == wire[c]
      <4>1. front \in Seq(Bytes) /\ w \in Seq(Bytes) /\ sent \in Seq(Bytes)
        BY <1>4, <3>1, <3>2
      <4> HIDE DEF front, w
      <4>2. (front \o w) \o sent = front \o (w \o sent)
        BY <4>1, ConcatAssociative
      <4> QED BY <4>2 DEF front, w
    <3>4. Ahead(c) = (usrbuf \o Unread) \o wire[c]
      BY <2>2, Zenon DEF Ahead
    <3>5. usrbuf' = usrbuf /\ rio' = rio
      BY <1>3
    <3>6. Ahead(c)' = (usrbuf' \o Unread') \o wire'[c]
      BY <2>2, <3>5, Zenon DEF Ahead
    <3> QED BY <1>7, <1>8, <3>3, <3>4, <3>5, <3>6, Zenon
  <2> QED BY <2>1, <2>2
<1>11. n \in 1 .. Len(toSend[c])
  BY <1>2 DEF s
<1> QED BY <1>3, <1>4, <1>5, <1>6, <1>7, <1>9, <1>10, <1>11 DEF sent, left, s

\* A read moves bytes from the way into the empty rio_buf; an interrupted one moves none.
LEMMA FillsBuffer ==
    ASSUME WireTypes, RioTypes, LineTypes, rio.fd \in Conns, UNCHANGED toSend,
           (\E k \in 1 .. RIO_BUFSIZE : Refill(k)) \/ Interrupted
    PROVE  /\ WireTypes' /\ RioTypes' /\ SameAhead
           /\ UNCHANGED <<shut, usrbuf, reading, line, got>> /\ rio'.fd = rio.fd
<1>1. ASSUME NEW k \in 1 .. RIO_BUFSIZE, Refill(k)
      PROVE  /\ WireTypes' /\ RioTypes' /\ SameAhead
             /\ UNCHANGED <<shut, usrbuf, reading, line, got>> /\ rio'.fd = rio.fd
  <2> DEFINE f == rio.fd
             w == wire[f]
             s == SubSeq(w, 1, k)
             rest == SubSeq(w, k + 1, Len(w))
  <2>1. w \in Seq(Bytes) /\ Len(w) \in Nat /\ k \in 0 .. Len(w) /\ k <= RIO_BUFSIZE
    BY <1>1, LenProperties, RioAssumption DEF Refill, Smaller, WireTypes
  <2>2. /\ rio' = [rio EXCEPT !.cnt = Len(s), !.buf = s, !.bufptr = 1]
        /\ wire' = [wire EXCEPT ![f] = rest]
        /\ UNCHANGED <<shut, usrbuf, reading, line, got>> /\ rio.cnt <= 0
    BY <1>1 DEF Refill, Refilled
  <2>3. s \in Seq(Bytes) /\ Len(s) = k /\ rest \in Seq(Bytes) /\ s \o rest = w
    BY <2>1, SplitSeq
  <2> HIDE DEF w, s, rest
  <2>4. /\ rio'.cnt = k /\ rio'.buf = s /\ rio'.bufptr = 1 /\ rio'.fd = f
    BY <2>2, <2>3 DEF RioTypes
  <2>5. RioTypes'
    <3>1. k \in -1 .. RIO_BUFSIZE /\ 1 \in 1 .. RIO_BUFSIZE + 1 /\ 1 + k - 1 = k
      BY RioAssumption
    <3>2. rio' = [rio EXCEPT !.cnt = k, !.buf = s, !.bufptr = 1]
      BY <2>2, <2>3
    <3>3. rio' \in [fd : Conns \cup {NoConn}, cnt : -1 .. RIO_BUFSIZE,
                   bufptr : 1 .. RIO_BUFSIZE + 1, buf : Seq(Bytes)]
      BY <2>3, <3>1, <3>2 DEF RioTypes
    <3> QED BY <2>1, <2>3, <2>4, <3>1, <3>3 DEF RioTypes
  <2>6. WireTypes'
    BY <2>2, <2>3 DEF WireTypes
  <2>7. Unread' = s
    <3>1. 1 + k - 1 = Len(s)
      BY <2>1, <2>3
    <3>2. Unread' = SubSeq(s, 1, Len(s))
      BY <2>4, <3>1 DEF Unread
    <3> QED BY <2>3, <3>2, SubSeqFull
  <2>8. Unread = <<>>
    BY <2>2, AheadTypes
  <2>9. ASSUME NEW c \in Conns
        PROVE  Ahead(c)' = Ahead(c)
    <3>1. CASE c # f
      BY <2>2, <2>4, <3>1 DEF Ahead, WireTypes
    <3>2. CASE c = f
      <4>1. Ahead(c) = usrbuf \o w
        BY <2>8, <3>2, ConcatEmptySeq DEF Ahead, LineTypes, w
      <4>2. wire'[c] = rest /\ usrbuf' = usrbuf
        BY <2>2, <3>2 DEF WireTypes
      <4>3. Ahead(c)' = (usrbuf \o s) \o rest
        BY <2>4, <2>7, <3>2, <4>2 DEF Ahead
      <4>4. (usrbuf \o s) \o rest = usrbuf \o (s \o rest)
        <5>1. usrbuf \in Seq(Bytes) /\ s \in Seq(Bytes) /\ rest \in Seq(Bytes)
          BY <2>3 DEF LineTypes
        <5> QED BY <5>1, ConcatAssociative
      <4> QED BY <2>3, <4>1, <4>3, <4>4
    <3> QED BY <3>1, <3>2
  <2> QED BY <2>2, <2>4, <2>5, <2>6, <2>9 DEF SameAhead
<1>2. CASE Interrupted
  <2>1. /\ rio' = [rio EXCEPT !.cnt = -1] /\ rio.cnt <= 0
        /\ UNCHANGED <<wire, shut, usrbuf, reading, line, got>>
    BY <1>2 DEF Interrupted
  <2>2. RioTypes' /\ WireTypes' /\ rio'.fd = rio.fd
    <3>1. -1 \in -1 .. RIO_BUFSIZE /\ ~(-1 > 0)
      BY RioAssumption
    <3>2. /\ rio' \in [fd : Conns \cup {NoConn}, cnt : -1 .. RIO_BUFSIZE,
                      bufptr : 1 .. RIO_BUFSIZE + 1, buf : Seq(Bytes)]
          /\ rio'.buf = rio.buf /\ rio'.cnt = -1 /\ rio'.fd = rio.fd
      BY <2>1, <3>1 DEF RioTypes
    <3> QED BY <2>1, <3>1, <3>2 DEF RioTypes, WireTypes
  <2>3. rio'.cnt <= 0
    BY <2>1 DEF RioTypes
  <2>4. Unread = <<>>
    BY <2>1, AheadTypes
  <2>5. Unread' = <<>>
    <3>1. rio'.bufptr \in Int /\ rio'.bufptr + rio'.cnt - 1 \in Int /\ rio'.bufptr + rio'.cnt - 1 < rio'.bufptr
      BY <2>2, <2>3, RioAssumption DEF RioTypes
    <3> QED BY <3>1, SubSeqEmpty DEF Unread
  <2>6. SameAhead
    BY <2>1, <2>2, <2>4, <2>5 DEF SameAhead, Ahead
  <2> QED BY <2>1, <2>2, <2>6
<1> QED BY <1>1, <1>2

\* rio_readlineb returns the line that the bytes of c ahead of it begin with.
GivesLine(c) ==
    /\ Stream!LineReady(Ahead(c), shut[c])
    /\ line' = SubSeq(Ahead(c), 1, Stream!LineLen(Ahead(c)))
    /\ Ahead(c)' = SubSeq(Ahead(c), Stream!LineLen(Ahead(c)) + 1, Len(Ahead(c)))
    /\ \A d \in Conns \ {c} : Ahead(d)' = Ahead(d)

\* rio_readlineb has returned a line.
LEMMA LineReturned ==
    ASSUME reading' = FALSE, usrbuf' = <<>>, line' \in Seq(Bytes), Len(line') < MAXLINE
    PROVE  LineTypes'
<1>1. reading' \in BOOLEAN /\ (~reading' => usrbuf' = <<>>)
  BY Zenon
<1>2. <<>> \in Seq(Bytes) /\ Len(<<>>) = 0 /\ 0 < MAXLINE - 1 /\ 1 .. 0 = {}
  BY EmptySeq, RioAssumption
<1>3. usrbuf' \in Seq(Bytes) /\ Len(usrbuf') < MAXLINE - 1 /\ 1 .. Len(usrbuf') = {}
  BY <1>2
<1> QED BY <1>1, <1>3, Zenon DEF LineTypes

\* A byte goes from rio_buf to the caller's buffer; the end of a line, or of the buffer,
\* gives the line out.
LEMMA TakesByte ==
    ASSUME WireTypes, RioTypes, LineTypes, NEW f \in Conns, f = rio.fd, UNCHANGED toSend, TakeByte
    PROVE  /\ WireTypes' /\ RioTypes' /\ LineTypes' /\ rio'.fd = f
           /\ UNCHANGED <<wire, shut, got>>
           /\ \/ reading' /\ SameAhead /\ line' = line
              \/ ~reading' /\ line' # <<>> /\ GivesLine(f)
<1> DEFINE c == rio.buf[rio.bufptr]
           u == SubSeq(rio.buf, rio.bufptr + 1, rio.bufptr + rio.cnt - 1)
           w == wire[f]
           s == usrbuf
           t == Append(s, c)
<1>1. rio.cnt > 0 /\ reading
  BY DEF TakeByte
<1>2. /\ rio.bufptr \in Nat \ {0} /\ rio.cnt \in Nat \ {0}
      /\ rio.bufptr + rio.cnt - 1 = Len(rio.buf) /\ rio.bufptr \in 1 .. Len(rio.buf)
      /\ rio.bufptr <= RIO_BUFSIZE /\ rio.buf \in Seq(Bytes)
  <2>1. Len(rio.buf) \in Nat
    BY LenProperties DEF RioTypes
  <2> QED BY <1>1, <2>1, RioAssumption DEF RioTypes
<1>20. (rio.bufptr + 1) + (rio.cnt - 1) - 1 = Len(rio.buf)
  <2> DEFINE n == rio.cnt
             p == rio.bufptr
  <2>1. n \in Int /\ p \in Int /\ p + n - 1 = Len(rio.buf)
    BY <1>2
  <2> HIDE DEF n, p
  <2>2. (p + 1) + (n - 1) - 1 = Len(rio.buf)
    BY <2>1
  <2> QED BY <2>2 DEF n, p
<1>3. c \in Bytes
  BY <1>2, ElementOfSeq
<1>4. u \in Seq(Bytes) /\ Unread = <<c>> \o u
  <2>1. rio.bufptr + rio.cnt - 1 \in rio.bufptr .. Len(rio.buf)
    BY <1>2
  <2>2. \A i \in rio.bufptr + 1 .. rio.bufptr + rio.cnt - 1 : rio.buf[i] \in Bytes
    BY <1>2, ElementOfSeq
  <2>3. u \in Seq(Bytes)
    BY <1>2, <2>2, SubSeqProperties
  <2>4. Unread = <<c>> \o u
    BY <1>2, <2>1, SubSeqRecursiveFirst DEF Unread
  <2> QED BY <2>3, <2>4
<1>5. /\ rio' = [rio EXCEPT !.cnt = rio.cnt - 1, !.bufptr = rio.bufptr + 1]
      /\ UNCHANGED <<wire, shut, got>>
  BY DEF TakeByte
<1>6. /\ rio'.cnt = rio.cnt - 1 /\ rio'.bufptr = rio.bufptr + 1 /\ rio'.buf = rio.buf /\ rio'.fd = f
  BY <1>5 DEF RioTypes
<1>7. RioTypes' /\ WireTypes'
  <2>1. rio.cnt - 1 \in -1 .. RIO_BUFSIZE /\ rio.bufptr + 1 \in 1 .. RIO_BUFSIZE + 1
    BY <1>2, RioAssumption DEF RioTypes
  <2>2. rio' \in [fd : Conns \cup {NoConn}, cnt : -1 .. RIO_BUFSIZE,
                  bufptr : 1 .. RIO_BUFSIZE + 1, buf : Seq(Bytes)]
    BY <1>5, <2>1 DEF RioTypes
  <2>3. (rio.bufptr + 1) + (rio.cnt - 1) - 1 = Len(rio.buf)
    BY <1>20
  <2> QED BY <1>5, <1>6, <2>2, <2>3 DEF RioTypes, WireTypes
<1>8. Unread' = u
  <2>1. (rio.bufptr + 1) + (rio.cnt - 1) - 1 = rio.bufptr + rio.cnt - 1
    BY <1>2, <1>20
  <2> QED BY <1>6, <2>1 DEF Unread
<1>9. /\ s \in Seq(Bytes) /\ w \in Seq(Bytes) /\ Len(s) \in Nat /\ Len(s) < MAXLINE - 1
      /\ \A i \in 1 .. Len(s) : s[i] # EOL
  BY LenProperties DEF LineTypes, WireTypes
<1>10. /\ t \in Seq(Bytes) /\ Len(t) = Len(s) + 1 /\ t[Len(s) + 1] = c
       /\ \A i \in 1 .. Len(s) : t[i] = s[i]
  BY <1>3, <1>9, AppendProperties
<1>11. Ahead(f) = (s \o Unread) \o w
  BY DEF Ahead
<1>12. wire'[f] = w
  BY <1>5
<1>13. \A d \in Conns \ {f} : Ahead(d)' = Ahead(d)
  BY <1>5, <1>6 DEF Ahead
<1>14. Ahead(f)' = (usrbuf' \o u) \o w
  BY <1>6, <1>8, <1>12, Zenon DEF Ahead
<1> DEFINE byte == <<c>>
<1>15. byte \in Seq(Bytes)
  BY <1>3
<1>16. /\ u \o w \in Seq(Bytes)
       /\ Ahead(f) = s \o (byte \o (u \o w))
  <2>1. (s \o (byte \o u)) \o w = s \o ((byte \o u) \o w)
    <3>1. byte \o u \in Seq(Bytes) /\ s \in Seq(Bytes) /\ w \in Seq(Bytes)
      BY <1>4, <1>9, <1>15, ConcatProperties
    <3> DEFINE v == byte \o u
    <3> HIDE DEF v, s, w, u, byte
    <3> QED BY <3>1, ConcatAssociative DEF v
  <2>2. (byte \o u) \o w = byte \o (u \o w)
    <3>1. byte \in Seq(Bytes) /\ u \in Seq(Bytes) /\ w \in Seq(Bytes)
      BY <1>4, <1>9, <1>15
    <3> HIDE DEF s, w, u, byte
    <3> QED BY <3>1, ConcatAssociative
  <2>3. u \o w \in Seq(Bytes)
    BY <1>4, <1>9, ConcatProperties
  <2> HIDE DEF s, w, u, byte
  <2> QED BY <1>4, <1>11, <2>1, <2>2, <2>3 DEF byte
<1>17. CASE c = EOL \/ Full(t)
  <2>1. reading' = FALSE /\ line' = t /\ usrbuf' = <<>>
    BY <1>17 DEF TakeByte, Return
  <2>2. c = EOL \/ Len(s) + 1 = MAXLINE - 1
    BY <1>10, <1>17 DEF Full
  <2>3. /\ Stream!LineLen(Ahead(f)) = Len(s) + 1
        /\ \A end : Stream!LineReady(Ahead(f), end)
        /\ SubSeq(Ahead(f), 1, Len(s) + 1) = t
        /\ SubSeq(Ahead(f), Len(s) + 2, Len(Ahead(f))) = u \o w
    <3> DEFINE rest == u \o w
               whole == s \o (<<c>> \o rest)
    <3>1. s \in Seq(Bytes) /\ rest \in Seq(Bytes) /\ c \in Bytes /\ Ahead(f) = whole
      BY <1>3, <1>9, <1>16
    <3>2. /\ Stream!LineLen(whole) = Len(s) + 1
          /\ \A end : Stream!LineReady(whole, end)
          /\ SubSeq(whole, 1, Len(s) + 1) = Append(s, c)
          /\ SubSeq(whole, Len(s) + 2, Len(whole)) = rest
      <4> HIDE DEF s, c, rest
      <4>1. \A i \in 1 .. Len(s) : s[i] # EOL
        BY <1>9
      <4>2. Len(s) < MAXLINE - 1
        BY <1>9
      <4> QED BY ONLY <2>2, <3>1, <4>1, <4>2, LineEndsHere
    <3> HIDE DEF s, c
    <3> QED BY <3>1, <3>2
  <2>4. Ahead(f)' = u \o w
    <3>1. <<>> \o u = u
      BY <1>4, ConcatEmptySeq
    <3> QED BY <1>14, <2>1, <3>1
  <2>5. Len(s) + 1 + 1 = Len(s) + 2 /\ Len(t) < MAXLINE
    BY <1>9, <1>10, RioAssumption
  <2>6. GivesLine(f)
    <3> HIDE DEF t, u, w, s
    <3> QED BY <1>13, <2>1, <2>3, <2>4, <2>5 DEF GivesLine
  <2>7. LineTypes'
    <3> HIDE DEF t
    <3> QED BY <1>10, <2>1, <2>5, LineReturned
  <2>8. t # <<>>
    BY <1>3, <1>9, AppendProperties
  <2> HIDE DEF t
  <2> QED BY <1>5, <1>6, <1>7, <2>1, <2>6, <2>7, <2>8
<1>18. CASE ~(c = EOL \/ Full(t))
  <2>1. usrbuf' = t /\ reading' = reading /\ line' = line
    BY <1>18 DEF TakeByte
  <2>2. LineTypes'
    <3>1. Len(t) < MAXLINE - 1 /\ \A i \in 1 .. Len(t) : t[i] # EOL
      BY <1>9, <1>10, <1>18, RioAssumption DEF Full
    <3> HIDE DEF t
    <3> QED BY <1>1, <1>10, <2>1, <3>1 DEF LineTypes
  <2>3. Ahead(f)' = Ahead(f)
    <3>1. t = s \o byte
      BY <1>3, <1>9, AppendIsConcat
    <3>2. (s \o byte) \o u = s \o (byte \o u)
      <4>1. byte \in Seq(Bytes) /\ u \in Seq(Bytes) /\ s \in Seq(Bytes)
        BY <1>4, <1>9, <1>15
      <4> HIDE DEF s, w, u, byte
      <4> QED BY <4>1, ConcatAssociative
    <3> HIDE DEF s, w, u, byte
    <3> QED BY <1>4, <1>11, <1>14, <2>1, <3>1, <3>2 DEF byte
  <2> QED BY <1>1, <1>5, <1>6, <1>7, <1>13, <2>1, <2>2, <2>3 DEF SameAhead
<1> QED BY <1>17, <1>18

\* The end of the connection gives out what there is, a line or nothing.
LEMMA EndsLine ==
    ASSUME WireTypes, RioTypes, LineTypes, NEW f \in Conns, f = rio.fd, UNCHANGED toSend, EndOfFile
    PROVE  /\ WireTypes' /\ RioTypes' /\ LineTypes' /\ rio'.fd = f
           /\ UNCHANGED <<wire, shut, got>>
           /\ ~reading' /\ shut[f] /\ GivesLine(f)
<1>1. /\ rio.cnt <= 0 /\ wire[f] = <<>> /\ shut[f]
      /\ rio' = [rio EXCEPT !.cnt = 0] /\ UNCHANGED <<wire, shut, got>>
      /\ reading' = FALSE /\ line' = usrbuf /\ usrbuf' = <<>>
  BY DEF EndOfFile, Return, LastLine
<1>2. RioTypes' /\ rio'.cnt = 0 /\ rio'.fd = f
  <2>1. 0 \in -1 .. RIO_BUFSIZE /\ ~(0 > 0)
    BY RioAssumption
  <2> QED BY <1>1, <2>1 DEF RioTypes
<1>3. WireTypes'
  BY <1>1 DEF WireTypes
<1>4. <<>> \in Seq(Bytes) /\ Len(<<>>) = 0 /\ 0 < MAXLINE - 1
  BY EmptySeq, RioAssumption
<1>5. LineTypes'
  <2>1. Len(usrbuf) < MAXLINE /\ Len(usrbuf) \in Nat
    BY LenProperties, RioAssumption DEF LineTypes
  <2>2. line' \in Seq(Bytes) /\ Len(line') < MAXLINE
    BY <1>1, <2>1 DEF LineTypes
  <2> QED BY <1>1, <2>2, LineReturned
<1>6. Unread = <<>>
  BY <1>1, AheadTypes
<1>7. Unread' = <<>>
  BY <1>2, <1>3, <1>5, SubSeqEmpty DEF Unread, RioTypes
<1>8. Ahead(f) = usrbuf
  BY <1>1, <1>6, ConcatEmptySeq DEF Ahead, LineTypes
<1>9. Ahead(f)' = <<>>
  <2>1. <<>> \o <<>> = <<>>
    BY <1>4, ConcatEmptySeq
  <2>2. wire'[f] = <<>>
    BY <1>1
  <2> QED BY <1>1, <1>2, <1>7, <2>1, <2>2 DEF Ahead
<1>10. \A d \in Conns \ {f} : Ahead(d)' = Ahead(d)
  BY <1>1, <1>2 DEF Ahead
<1>11. /\ Stream!LineLen(usrbuf) = Len(usrbuf)
       /\ SubSeq(usrbuf, 1, Len(usrbuf)) = usrbuf /\ SubSeq(usrbuf, Len(usrbuf) + 1, Len(usrbuf)) = <<>>
  BY LastLineEnds DEF LineTypes
<1>12. GivesLine(f)
  BY <1>1, <1>8, <1>9, <1>10, <1>11 DEF GivesLine, Stream!LineReady
<1> QED BY <1>1, <1>2, <1>3, <1>5, <1>12

\* Nothing ahead of the reader changes while nobody touches its buffers.
LEMMA AheadFrame ==
    ASSUME UNCHANGED <<rio, usrbuf, wire>>
    PROVE  SameAhead
BY DEF SameAhead, Ahead, Unread

\* rio_readinitb begins with empty buffers: what is ahead of it is what is on the way.
LEMMA AcceptsConn ==
    ASSUME Types, Accept
    PROVE  /\ queue # <<>> /\ Head(queue) \in Conns /\ rio'.fd = Head(queue)
           /\ RioTypes' /\ SameAhead
<1>1. queue # <<>> /\ rio' = rio_readinitb(Head(queue)) /\ UNCHANGED <<wire, usrbuf>> /\ pc = "accept"
  BY DEF Accept, At
<1>2. Head(queue) \in Conns
  BY <1>1, HeadTailProperties DEF Types, QueueInv
<1>3. rio' = [fd |-> Head(queue), cnt |-> 0, bufptr |-> 1, buf |-> <<>>]
  BY <1>1 DEF rio_readinitb
<1>4. RioTypes'
  <2>1. /\ 0 \in -1 .. RIO_BUFSIZE /\ 1 \in 1 .. RIO_BUFSIZE + 1 /\ ~(0 > 0) /\ 0 <= RIO_BUFSIZE
        /\ <<>> \in Seq(Bytes) /\ Len(<<>>) = 0
    BY EmptySeq, RioAssumption
  <2> QED BY <1>2, <1>3, <2>1 DEF RioTypes
<1>5. Unread' = <<>>
  <2>1. rio'.bufptr = 1 /\ rio'.cnt = 0 /\ 1 + 0 - 1 < 1
    BY <1>3
  <2> QED BY <2>1, SubSeqEmpty DEF Unread
<1>6. usrbuf = <<>>
  BY <1>1 DEF Types, ServerTypes, LineTypes
<1>7. ASSUME NEW c \in Conns
      PROVE  Ahead(c)' = Ahead(c)
  <2>1. Ahead(c) = wire[c]
    BY <1>1, RioAssumption DEF Types, ServerTypes, Ahead
  <2>2. CASE c = Head(queue)
    <3>1. Ahead(c)' = (<<>> \o <<>>) \o wire[c]
      <4>1. c = rio'.fd /\ wire' = wire /\ usrbuf' = <<>>
        BY <1>1, <1>3, <1>6, <2>2
      <4> QED BY <1>5, <4>1, Zenon DEF Ahead
    <3>2. wire[c] \in Seq(Bytes)
      BY DEF Types, WireTypes
    <3>3. <<>> \o wire[c] = wire[c] /\ <<>> \o <<>> = <<>>
      BY <3>2, EmptySeq, ConcatEmptySeq
    <3> QED BY <2>1, <3>1, <3>3
  <2>3. CASE c # Head(queue)
    BY <1>1, <1>3, <2>1, <2>3 DEF Ahead
  <2> QED BY <2>2, <2>3
<1> QED BY <1>1, <1>2, <1>3, <1>4, <1>7 DEF SameAhead

\* Close drops what has been sent and not been read.
LEMMA ClosesConn ==
    ASSUME Types, CloseConn
    PROVE  /\ rio.fd \in Conns /\ rio'.fd = NoConn /\ RioTypes' /\ WireTypes'
           /\ \A c \in Conns : Ahead(c)' = IF c = rio.fd THEN <<>> ELSE Ahead(c)
<1>1. /\ rio' = [rio EXCEPT !.fd = NoConn] /\ wire' = [wire EXCEPT ![rio.fd] = <<>>]
      /\ UNCHANGED <<shut, toSend, usrbuf>> /\ pc = "close"
  BY DEF CloseConn, At, clientVars
<1>2. rio.fd \in Conns
  BY <1>1 DEF Types, ServerTypes
<1>3. rio'.fd = NoConn /\ RioTypes'
  BY <1>1 DEF Types, RioTypes
<1>4. WireTypes'
  BY <1>1, EmptySeq DEF Types, WireTypes
<1>5. wire'[rio.fd] = <<>> /\ \A c \in Conns \ {rio.fd} : wire'[c] = wire[c]
  BY <1>1, <1>2 DEF Types, WireTypes
<1>6. \A c \in Conns : Ahead(c)' = wire'[c]
  BY <1>3, RioAssumption DEF Ahead
<1>7. \A c \in Conns \ {rio.fd} : Ahead(c) = wire[c]
  BY DEF Ahead
<1> QED BY <1>2, <1>3, <1>4, <1>5, <1>6, <1>7

-----------------------------------------------------------------------------
(* The invariant of the requests. *)

\* Nothing of what c has sent has been given out or lost.
Untouched(c) == c \notin served /\ (c = rio.fd => pc = "request" /\ reading)

\* What is ahead of the reader and what is still to be sent are then the whole request,
\* which comes by lines, and the first line that is given out is its first line.
FreshInv ==
    /\ asked \in [Conns -> Seq(Bytes)] /\ \A c \in Conns : asked[c] \in Requests[c]
    /\ \A c \in Conns : Untouched(c) =>
          /\ Ahead(c) \o toSend[c] = asked[c]
          /\ Ahead(c) = <<>> \/ Stream!HasEOL(Ahead(c)) \/ toSend[c] = <<>>
    /\ pc = "request" /\ ~reading =>
          \A c \in Conns : c = rio.fd =>
              IF line = <<>> THEN shut[c] ELSE line = RequestLine(c)

\* The steps that leave the connections and what is ahead of the reader alone.
QuietStep ==
    \/ \E f \in Files : FileGone(f)
    \/ DoRequest \/ ReadHeaders \/ Stat \/ Write \/ OpenFile \/ Fork \/ Wait \/ ChildRuns \/ Exit

\* What a quiet step leaves alone.
LEMMA QuietFrame ==
    ASSUME QuietStep
    PROVE  /\ UNCHANGED <<wire, shut, rio, usrbuf, line, toSend, asked, queue, served>>
           /\ ~DoRequest /\ ~ReadHeaders => reading' = reading
           /\ ~Write /\ ~ChildRuns => got' = got
           /\ ~(\E f \in Files : FileGone(f)) => disk' = disk
<1> USE DEF rioVars, readVars, clientVars, serverVars
<1>1. CASE \E f \in Files : FileGone(f)
  BY <1>1 DEF FileGone
<1>2. CASE DoRequest
  BY <1>2 DEF DoRequest, Call
<1>3. CASE ReadHeaders
  BY <1>3 DEF ReadHeaders, Call
<1>4. CASE Stat
  BY <1>4 DEF Stat
<1>5. CASE Write
  BY <1>5 DEF Write
<1>6. CASE OpenFile
  BY <1>6 DEF OpenFile
<1>7. CASE Fork
  BY <1>7 DEF Fork
<1>8. CASE Wait
  BY <1>8 DEF Wait
<1>9. CASE ChildRuns
  BY <1>9 DEF ChildRuns
<1>10. CASE Exit
  BY <1>10 DEF Exit
<1> QED BY <1>1, <1>2, <1>3, <1>4, <1>5, <1>6, <1>7, <1>8, <1>9, <1>10 DEF QuietStep

\* The steps of the reader, inside rio_readlineb.
ReaderStep ==
    \/ (\E k \in 1 .. RIO_BUFSIZE : Refill(k)) \/ Interrupted
    \/ TakeByte \/ EndOfFile

\* A step is one of a client, of the reader, the begin or the end of a connection, or quiet.
LEMMA StepCases ==
    ASSUME [Next]_vars
    PROVE  \/ \E c \in Conns : Connect(c) \/ ClientSends(c) \/ ClientCloses(c)
           \/ ReaderStep /\ pc # "exited" /\ UNCHANGED <<clientVars, serverVars, disk>>
           \/ Accept \/ CloseConn \/ QuietStep
           \/ UNCHANGED vars
<1>1. CASE Reader(ReadStep) \/ Reader(Interrupted)
  BY <1>1, Zenon DEF Reader, ReadStep, ReaderStep
<1>2. CASE ~(Reader(ReadStep) \/ Reader(Interrupted))
  BY <1>2, Zenon DEF Next, ServerStep, QuietStep
<1> QED BY <1>1, <1>2

\* The reader runs while the server is in doit.
LEMMA ReaderServes ==
    ASSUME Types, ReaderStep, pc # "exited"
    PROVE  /\ rio.fd \in Conns /\ reading /\ pc \in {"request", "headers"}
BY DEF Types, ServerTypes, ReaderStep, Refill, Interrupted, TakeByte, EndOfFile

\* What the reader leaves alone.
LEMMA ReaderFrame ==
    ASSUME Types, ReaderStep, pc # "exited", UNCHANGED <<clientVars, serverVars, disk>>, NEW f \in Conns, f = rio.fd
    PROVE  /\ WireTypes' /\ RioTypes' /\ LineTypes' /\ rio'.fd = f
           /\ UNCHANGED <<shut, got, toSend, asked, queue, pc, uri, hdr, out, after, child, served, disk>>
           /\ \/ reading' /\ SameAhead /\ line' = line
              \/ ~reading' /\ GivesLine(f) /\ (line' = <<>> => shut[f])
<1>1. /\ UNCHANGED <<toSend, asked, queue, pc, uri, hdr, out, after, child, served, disk>>
      /\ WireTypes /\ RioTypes /\ LineTypes /\ reading
  BY ReaderServes DEF clientVars, serverVars, Types
<1>2. CASE (\E k \in 1 .. RIO_BUFSIZE : Refill(k)) \/ Interrupted
  <2>1. /\ WireTypes' /\ RioTypes' /\ SameAhead
        /\ UNCHANGED <<shut, usrbuf, reading, line, got>> /\ rio'.fd = f
    BY <1>1, <1>2, FillsBuffer
  <2> QED BY <1>1, <2>1 DEF LineTypes
<1>3. CASE TakeByte
  BY <1>1, <1>3, TakesByte
<1>4. CASE EndOfFile
  BY <1>1, <1>4, EndsLine
<1> QED BY <1>2, <1>3, <1>4 DEF ReaderStep

\* A quiet step does not go back to the request line.
LEMMA QuietRequest ==
    ASSUME Types, QuietStep, pc' = "request"
    PROVE  pc = "request" /\ reading' = reading
<1> USE DEF rioVars, readVars, serverVars, At, GoTo, Answer
<1>1. CASE \E f \in Files : FileGone(f)
  BY <1>1 DEF FileGone
<1>2. CASE DoRequest
  BY <1>2 DEF DoRequest
<1>3. CASE ReadHeaders
  BY <1>3 DEF ReadHeaders
<1>4. CASE Stat
  BY <1>4 DEF Stat
<1>5. CASE Write
  BY <1>5 DEF Write, Types, ServerTypes
<1>6. CASE OpenFile
  BY <1>6 DEF OpenFile
<1>7. CASE Fork
  BY <1>7 DEF Fork
<1>8. CASE Wait
  BY <1>8 DEF Wait
<1>9. CASE ChildRuns
  BY <1>9 DEF ChildRuns
<1>10. CASE Exit
  BY <1>10 DEF Exit
<1> QED BY <1>1, <1>2, <1>3, <1>4, <1>5, <1>6, <1>7, <1>8, <1>9, <1>10 DEF QuietStep

\* What is ahead, and what is to come, of a request is kept by every step.
LEMMA FreshKept ==
    ASSUME Types, FreshInv, [Next]_vars
    PROVE  FreshInv'
<1> USE DEF Untouched
<1>1. ASSUME UNCHANGED <<asked, toSend, served, rio>>, SameAhead, pc' = "request" => pc = "request",
             pc' = "request" => UNCHANGED <<reading, line>>, \A c \in Conns : shut[c] => shut'[c]
      PROVE  FreshInv'
  <2>1. \A d \in Conns : Untouched(d)' => Untouched(d)
    BY <1>1
  <2> HIDE DEF Untouched
  <2>2. (\A d \in Conns : Untouched(d) =>
          /\ Ahead(d) \o toSend[d] = asked[d]
          /\ Ahead(d) = <<>> \/ Stream!HasEOL(Ahead(d)) \/ toSend[d] = <<>>)'
    BY <1>1, <2>1 DEF FreshInv, SameAhead
  <2>3. (pc = "request" /\ ~reading =>
          \A c \in Conns : c = rio.fd =>
              IF line = <<>> THEN shut[c] ELSE line = RequestLine(c))'
    BY <1>1 DEF FreshInv, RequestLine
  <2> QED BY <1>1, <2>2, <2>3 DEF FreshInv
<1>2. ASSUME NEW c \in Conns, Connect(c)
      PROVE  FreshInv'
  <2>1. UNCHANGED <<wire, shut, rio, usrbuf, reading, line, toSend, asked, served, pc>>
    BY <1>2 DEF Connect, rioVars, readVars, serverVars
  <2> QED BY <1>1, <2>1, AheadFrame
<1>3. ASSUME NEW c \in Conns, ClientCloses(c)
      PROVE  FreshInv'
  <2>1. UNCHANGED <<wire, rio, usrbuf, reading, line, toSend, asked, served, pc>> /\ shut' = [shut EXCEPT ![c] = TRUE]
    BY <1>3 DEF ClientCloses, readVars, clientVars, serverVars
  <2>2. \A d \in Conns : shut[d] => shut'[d]
    BY <2>1 DEF Types, WireTypes
  <2> QED BY <1>1, <2>1, <2>2, AheadFrame
<1>4. ASSUME NEW c \in Conns, ClientSends(c)
      PROVE  FreshInv'
  <2> DEFINE sent(n) == SubSeq(toSend[c], 1, n)
  <2>1. UNCHANGED <<shut, rio, usrbuf, reading, line, asked, served, pc>>
    BY <1>4 DEF ClientSends, readVars, serverVars
  <2>2. PICK n \in 1 .. Len(toSend[c]) :
              /\ sent(n) \in Seq(Bytes)
              /\ toSend' = [toSend EXCEPT ![c] = SubSeq(@, n + 1, Len(@))]
              /\ sent(n) \o toSend'[c] = toSend[c] /\ toSend'[c] \in Seq(Bytes)
              /\ Stream!HasEOL(sent(n)) \/ toSend'[c] = <<>>
              /\ Ahead(c)' = Ahead(c) \o sent(n)
              /\ \A d \in Conns \ {c} : Ahead(d)' = Ahead(d)
    BY <1>4, SendsLine DEF Types
  <2> DEFINE s == sent(n)
             a == Ahead(c)
             left == toSend'[c]
  <2>3. a \in Seq(Bytes)
    BY AheadTypes DEF Types
  <2>4. s \in Seq(Bytes) /\ left \in Seq(Bytes) /\ s \o left = toSend[c] /\ (Stream!HasEOL(s) \/ left = <<>>)
    BY <2>2
  <2>5. (a \o s) \o left = a \o (s \o left)
    <3>1. a \in Seq(Bytes) /\ s \in Seq(Bytes) /\ left \in Seq(Bytes)
      BY <2>3, <2>4
    <3> HIDE DEF a, s, left
    <3> QED BY ONLY <3>1, ConcatAssociative
  <2>6. Stream!HasEOL(a \o s) \/ left = <<>>
    <3> HIDE DEF a, s, left
    <3>1. /\ Len(a) \in Nat /\ Len(s) \in Nat /\ Len(a \o s) = Len(a) + Len(s)
          /\ \A i \in 1 .. Len(a) + Len(s) : (a \o s)[i] = IF i <= Len(a) THEN a[i] ELSE s[i - Len(a)]
      BY <2>3, <2>4, LenProperties, ConcatProperties
    <3>2. ASSUME NEW i \in 1 .. Len(s), s[i] = EOL
          PROVE  Stream!HasEOL(a \o s)
      <4>1. Len(a) + i \in 1 .. Len(a) + Len(s) /\ ~(Len(a) + i <= Len(a)) /\ Len(a) + i - Len(a) = i
        BY <3>1
      <4>2. (a \o s)[Len(a) + i] = EOL
        BY <3>1, <3>2, <4>1
      <4> QED BY <3>1, <4>1, <4>2 DEF Stream!HasEOL
    <3> QED BY <2>4, <3>2 DEF Stream!HasEOL
  <2>7. \A d \in Conns \ {c} : toSend'[d] = toSend[d] /\ Ahead(d)' = Ahead(d)
    BY <2>2 DEF Types, WireTypes
  <2>8. Ahead(c)' = a \o s
    BY <2>2
  <2>9. ASSUME NEW d \in Conns, Untouched(d)'
        PROVE  /\ Ahead(d)' \o toSend'[d] = asked'[d]
               /\ Ahead(d)' = <<>> \/ Stream!HasEOL(Ahead(d)') \/ toSend'[d] = <<>>
    <3>1. Untouched(d) /\ asked' = asked
      BY <2>1, <2>9
    <3>2. CASE d # c
      BY <2>7, <3>1, <3>2 DEF FreshInv
    <3>3. CASE d = c
      <4>1. a \o toSend[c] = asked[c]
        BY <3>1, <3>3 DEF FreshInv
      <4> HIDE DEF a, s
      <4> QED BY <2>4, <2>5, <2>6, <2>8, <3>1, <3>3, <4>1
    <3> QED BY <3>2, <3>3
  <2>10. \A d \in Conns : Untouched(d)' =>
          /\ Ahead(d)' \o toSend'[d] = asked'[d]
          /\ Ahead(d)' = <<>> \/ Stream!HasEOL(Ahead(d)') \/ toSend'[d] = <<>>
    BY <2>9
  <2> HIDE DEF Untouched
  <2>11. (\A d \in Conns : Untouched(d) =>
          /\ Ahead(d) \o toSend[d] = asked[d]
          /\ Ahead(d) = <<>> \/ Stream!HasEOL(Ahead(d)) \/ toSend[d] = <<>>)'
    BY <2>10 DEF Stream!HasEOL
  <2> QED BY <2>1, <2>11 DEF FreshInv, RequestLine
<1>5. ASSUME NEW f \in Conns, f = rio.fd, ReaderStep, pc # "exited", UNCHANGED <<clientVars, serverVars, disk>>
      PROVE  FreshInv'
  <2>1. /\ rio'.fd = f /\ UNCHANGED <<shut, toSend, asked, served, pc>>
        /\ \/ reading' /\ SameAhead /\ line' = line
           \/ ~reading' /\ GivesLine(f) /\ (line' = <<>> => shut[f])
    BY <1>5, ReaderFrame
  <2>2. reading
    BY <1>5, ReaderServes
  <2>3. CASE reading' /\ SameAhead /\ line' = line
    BY <1>5, <2>1, <2>2, <2>3 DEF FreshInv, SameAhead, RequestLine
  <2>4. CASE ~reading' /\ GivesLine(f) /\ (line' = <<>> => shut[f])
    <3>1. (\A d \in Conns : Untouched(d) =>
            /\ Ahead(d) \o toSend[d] = asked[d]
            /\ Ahead(d) = <<>> \/ Stream!HasEOL(Ahead(d)) \/ toSend[d] = <<>>)'
      BY <1>5, <2>1, <2>4 DEF FreshInv, GivesLine
    <3>2. ASSUME pc = "request", line' # <<>>
          PROVE  line' = RequestLine(f)
      <4> DEFINE a == Ahead(f)
                 n == Stream!LineLen(a)
      <4>1. a \in Seq(Bytes) /\ toSend[f] \in Seq(Bytes)
        BY AheadTypes DEF Types, WireTypes
      <4>2. line' = SubSeq(a, 1, n)
        BY <2>4 DEF GivesLine
      <4>3. a # <<>>
        <5>1. ASSUME a = <<>>
              PROVE  FALSE
          <6>1. n \in 0 .. Len(a) /\ Len(<<>>) = 0
            BY <4>1, LineLenBounds, EmptySeq
          <6>2. n = 0
            BY <5>1, <6>1
          <6> QED BY <3>2, <4>2, <6>2, SubSeqEmpty
        <5> QED BY <5>1
      <4>4. f \notin served
        BY <1>5 DEF Types, QueueInv
      <4>5. a \o toSend[f] = asked[f] /\ (Stream!HasEOL(a) \/ toSend[f] = <<>>)
        BY <1>5, <2>2, <3>2, <4>3, <4>4 DEF FreshInv
      <4>6. SubSeq(a \o toSend[f], 1, Stream!LineLen(a \o toSend[f])) = SubSeq(a, 1, n)
        <5> DEFINE s == toSend[f]
        <5> HIDE DEF a, s
        <5> QED BY <4>1, <4>5, LineOfPrefix DEF s
      <4> HIDE DEF a, n
      <4> QED BY <4>2, <4>5, <4>6 DEF RequestLine
    <3>3. RequestLine(f)' = RequestLine(f)
      BY <2>1 DEF RequestLine
    <3> HIDE DEF Untouched
    <3> QED BY <2>1, <2>4, <3>1, <3>2, <3>3 DEF FreshInv
  <2> QED BY <2>1, <2>3, <2>4
<1>6. CASE Accept
  <2>1. /\ rio'.fd = Head(queue) /\ SameAhead /\ Head(queue) \in Conns /\ queue # <<>>
    BY <1>6, AcceptsConn
  <2>2. /\ UNCHANGED <<toSend, asked, served>> /\ pc' = "request" /\ reading' = TRUE
        /\ rio.fd = NoConn
    BY <1>6 DEF Accept, At, GoTo, Types, ServerTypes
  <2>3. \A d \in Conns : Untouched(d)' => Untouched(d)
    BY <2>2, RioAssumption
  <2> HIDE DEF Untouched
  <2> QED BY <2>1, <2>2, <2>3 DEF FreshInv, SameAhead, RequestLine
<1>7. CASE CloseConn
  <2>1. /\ rio'.fd = NoConn /\ \A d \in Conns \ {rio.fd} : Ahead(d)' = Ahead(d)
    BY <1>7, ClosesConn
  <2>2. UNCHANGED <<toSend, asked>> /\ served' = served \cup {rio.fd} /\ pc' = "accept"
    BY <1>7 DEF CloseConn, GoTo, clientVars
  <2>3. \A d \in Conns : Untouched(d)' => Untouched(d) /\ d # rio.fd
    BY <2>1, <2>2
  <2> HIDE DEF Untouched
  <2> QED BY <2>1, <2>2, <2>3 DEF FreshInv, RequestLine
<1>8. CASE QuietStep
  BY <1>1, <1>8, QuietFrame, QuietRequest, AheadFrame
<1>9. CASE UNCHANGED vars
  BY <1>1, <1>9, AheadFrame DEF vars, rioVars, readVars, clientVars, serverVars
<1> QED BY <1>2, <1>3, <1>4, <1>5, <1>6, <1>7, <1>8, <1>9, StepCases, ReaderServes

\* The uri comes from the request line, which is the client's, or was never written.
LEMMA UriOfRequest ==
    ASSUME Types, FreshInv, DoRequest
    PROVE  uri' \in Uris
<1>1. CASE uri' = uri
  BY <1>1 DEF Types, ServerTypes
<1>2. CASE uri' # uri
  <2>1. line # <<>> /\ pc = "request" /\ ~reading /\ \E u \in UrisIn(line) : uri' = u
    BY <1>2 DEF DoRequest, At
  <2>2. rio.fd \in Conns
    BY <2>1 DEF Types, ServerTypes
  <2> DEFINE s == asked[rio.fd]
             n == Stream!LineLen(s)
  <2>3. line = SubSeq(s, 1, n)
    BY <2>1, <2>2 DEF FreshInv, RequestLine
  <2>4. s \in Seq(Bytes) /\ s \in Requests[rio.fd]
    BY <2>2 DEF FreshInv
  <2>5. n \in 0 .. Len(s)
    BY <2>4, LineLenBounds
  <2>6. UrisIn(SubSeq(s, 1, n)) \subseteq Uris
    <3> HIDE DEF n
    <3> QED BY <2>2, <2>4, <2>5, TinyAssumption
  <2> QED BY <2>1, <2>3, <2>6
<1> QED BY <1>1, <1>2

\* The server's own steps keep its types.
LEMMA QuietTypes ==
    ASSUME Types, FreshInv, QuietStep
    PROVE  ServerTypes' /\ reading' \in BOOLEAN /\ (reading => reading')
<1> USE DEF rioVars, readVars, serverVars, At, GoTo, Answer, Call, Types, ServerTypes, Pcs
<1>1. CASE \E f \in Files : FileGone(f)
  <2>1. PICK f \in Files : FileGone(f)
    BY <1>1
  <2> QED BY <2>1 DEF FileGone, Kinds, LineTypes
<1>2. CASE DoRequest
  <2>1. uri' \in Uris
    BY <1>2, UriOfRequest
  <2>2. /\ pc = "request" /\ ~reading /\ UNCHANGED <<rio, child, disk>>
        /\ hdr' \in BOOLEAN /\ reading' \in BOOLEAN
        /\ \/ pc' = "close" /\ UNCHANGED <<reading, after>>
           \/ pc' = "write" /\ after' = "close" /\ UNCHANGED reading
           \/ pc' = "headers" /\ after' = after
    BY <1>2 DEF DoRequest, LineTypes
  <2> QED BY <2>1, <2>2
<1>3. CASE ReadHeaders
  <2>1. /\ pc = "headers" /\ ~reading /\ UNCHANGED <<rio, uri, after, child, disk>>
        /\ \/ pc' = "stat" /\ reading' = reading
           \/ pc' = pc /\ reading' = TRUE
    BY <1>3 DEF ReadHeaders
  <2>2. hdr' \in BOOLEAN
    <3>1. hdr' = IF line = <<>> THEN hdr ELSE IsBlank(line)
      BY <1>3 DEF ReadHeaders
    <3> QED BY <3>1, Zenon DEF IsBlank
  <2>3. reading' \in BOOLEAN
    BY <2>1 DEF LineTypes
  <2> QED BY <2>1, <2>2, <2>3
<1>4. CASE Stat
  <2>1. /\ pc = "stat" /\ UNCHANGED <<rio, reading, uri, hdr, child, disk>> /\ pc' = "write"
        /\ after' \in {"close", "open", "fork"}
    BY <1>4 DEF Stat
  <2> QED BY <2>1 DEF LineTypes
<1>5. CASE Write
  BY <1>5 DEF Write, LineTypes
<1>6. CASE OpenFile
  BY <1>6 DEF OpenFile, LineTypes
<1>7. CASE Fork
  BY <1>7 DEF Fork, LineTypes
<1>8. CASE Wait
  BY <1>8 DEF Wait, LineTypes
<1>9. CASE ChildRuns
  BY <1>9 DEF ChildRuns, LineTypes
<1>10. CASE Exit
  BY <1>10 DEF Exit, LineTypes
<1> QED BY <1>1, <1>2, <1>3, <1>4, <1>5, <1>6, <1>7, <1>8, <1>9, <1>10 DEF QuietStep

\* Every step keeps the types.
LEMMA TypesKept ==
    ASSUME Types, FreshInv, [Next]_vars
    PROVE  Types'
<1>1. ASSUME UNCHANGED <<rio, usrbuf, reading, line>>
      PROVE  RioTypes' /\ LineTypes'
  BY <1>1 DEF Types, RioTypes, LineTypes
<1>2. ASSUME UNCHANGED <<rio, reading, pc, uri, hdr, after, disk, child>>
      PROVE  ServerTypes'
  BY <1>2 DEF Types, ServerTypes
<1>3. ASSUME UNCHANGED <<queue, served, rio>>
      PROVE  QueueInv'
  BY <1>3 DEF Types, QueueInv
<1>4. ASSUME NEW c \in Conns, Connect(c)
      PROVE  Types'
  <2>1. UNCHANGED <<wire, shut, toSend, rio, usrbuf, reading, line, pc, uri, hdr, after, disk, child, served>>
    BY <1>4 DEF Connect, rioVars, readVars, serverVars
  <2>2. QueueInv'
    <3>1. /\ queue' = Append(queue, c) /\ queue \in Seq(Conns) /\ Len(queue) \in Nat
          /\ c \notin served \cup {rio.fd} /\ \A i \in 1 .. Len(queue) : queue[i] # c
      BY <1>4, LenProperties DEF Connect, Connected, Types, QueueInv
    <3>2. /\ queue' \in Seq(Conns) /\ Len(queue') = Len(queue) + 1 /\ queue'[Len(queue) + 1] = c
          /\ \A i \in 1 .. Len(queue) : queue'[i] = queue[i]
      BY <3>1, AppendProperties
    <3>3. \A i \in 1 .. Len(queue') : i \in 1 .. Len(queue) \/ i = Len(queue) + 1
      BY <3>1, <3>2
    <3> QED BY <2>1, <3>1, <3>2, <3>3 DEF Types, QueueInv
  <2> QED BY <1>1, <1>2, <2>1, <2>2 DEF Types, WireTypes
<1>5. ASSUME NEW c \in Conns, ClientSends(c)
      PROVE  Types'
  <2>1. UNCHANGED <<shut, rio, usrbuf, reading, line, pc, uri, hdr, after, disk, child, served, queue>>
    BY <1>5 DEF ClientSends, readVars, serverVars
  <2>2. WireTypes'
    <3>1. PICK n \in 1 .. Len(toSend[c]) :
              /\ SubSeq(toSend[c], 1, n) \in Seq(Bytes)
              /\ wire' = [wire EXCEPT ![c] = @ \o SubSeq(toSend[c], 1, n)]
              /\ toSend' = [toSend EXCEPT ![c] = SubSeq(@, n + 1, Len(@))]
              /\ toSend'[c] \in Seq(Bytes)
      BY <1>5, SendsLine DEF Types
    <3> DEFINE s == SubSeq(toSend[c], 1, n)
    <3>2. wire[c] \o s \in Seq(Bytes)
      BY <3>1, ConcatProperties DEF Types, WireTypes
    <3>3. \A d \in Conns \ {c} : toSend'[d] = toSend[d]
      BY <3>1 DEF Types, WireTypes
    <3>4. toSend' \in [Conns -> Seq(Bytes)]
      <4>1. toSend' = [d \in Conns |-> toSend'[d]]
        BY <3>1 DEF Types, WireTypes
      <4>2. \A d \in Conns : toSend'[d] \in Seq(Bytes)
        BY <3>1, <3>3 DEF Types, WireTypes
      <4> QED BY <4>1, <4>2
    <3>5. wire' = [wire EXCEPT ![c] = wire[c] \o s]
      BY <3>1
    <3>6. wire' \in [Conns -> Seq(Bytes)]
      <4> HIDE DEF s
      <4> QED BY <3>2, <3>5 DEF Types, WireTypes
    <3> QED BY <2>1, <3>4, <3>6 DEF Types, WireTypes
  <2> QED BY <1>1, <1>2, <1>3, <2>1, <2>2 DEF Types
<1>6. ASSUME NEW c \in Conns, ClientCloses(c)
      PROVE  Types'
  <2>1. /\ UNCHANGED <<wire, toSend, rio, usrbuf, reading, line, pc, uri, hdr, after, disk, child, served, queue>>
        /\ shut' = [shut EXCEPT ![c] = TRUE]
    BY <1>6 DEF ClientCloses, readVars, clientVars, serverVars
  <2>2. WireTypes'
    <3>1. \A d \in Conns : shut'[d] \in BOOLEAN
      BY <2>1, Zenon DEF Types, WireTypes
    <3> QED BY <2>1, <3>1 DEF Types, WireTypes
  <2> QED BY <1>1, <1>2, <1>3, <2>1, <2>2 DEF Types
<1>7. ASSUME NEW f \in Conns, f = rio.fd, ReaderStep, pc # "exited", UNCHANGED <<clientVars, serverVars, disk>>
      PROVE  Types'
  <2>1. /\ WireTypes' /\ RioTypes' /\ LineTypes' /\ rio'.fd = f
        /\ UNCHANGED <<queue, pc, uri, hdr, after, child, served, disk>>
    BY <1>7, ReaderFrame
  <2>2. reading
    BY <1>7, ReaderServes
  <2>3. ServerTypes'
    BY <1>7, <2>1, <2>2 DEF Types, ServerTypes
  <2>4. QueueInv'
    BY <1>7, <2>1 DEF Types, QueueInv
  <2> QED BY <2>1, <2>3, <2>4 DEF Types
<1>8. CASE Accept
  <2>1. queue # <<>> /\ Head(queue) \in Conns /\ rio'.fd = Head(queue) /\ RioTypes'
    BY <1>8, AcceptsConn
  <2>2. /\ UNCHANGED <<wire, shut, toSend, usrbuf, line, uri, hdr, after, child, served, disk>>
        /\ queue' = Tail(queue) /\ reading' = TRUE /\ pc' = "request" /\ pc = "accept"
    BY <1>8 DEF Accept, At, GoTo
  <2>3. LineTypes'
    <3>1. reading' \in BOOLEAN /\ reading'
      BY <2>2, Zenon
    <3> QED BY <2>2, <3>1 DEF Types, LineTypes
  <2>4. ServerTypes'
    BY <2>1, <2>2 DEF Types, ServerTypes, Pcs
  <2>5. QueueInv'
    <3>1. queue \in Seq(Conns) /\ Len(queue) \in Nat /\ queue[1] = Head(queue)
      BY LenProperties DEF Types, QueueInv
    <3>2. /\ queue' \in Seq(Conns) /\ Len(queue') = Len(queue) - 1 /\ Len(queue) > 0
          /\ \A i \in 1 .. Len(queue') : queue'[i] = queue[i + 1]
      BY <2>1, <2>2, <3>1, HeadTailProperties, EmptySeq
    <3>3. \A i \in 1 .. Len(queue') : i + 1 \in 1 .. Len(queue) /\ i + 1 # 1
      BY <3>1, <3>2
    <3>4. 1 \in 1 .. Len(queue)
      BY <3>1, <3>2
    <3>5. \A i \in 1 .. Len(queue') : queue'[i] \notin served' \cup {rio'.fd}
      BY <2>1, <2>2, <3>1, <3>2, <3>3, <3>4 DEF Types, QueueInv
    <3>6. \A i, j \in 1 .. Len(queue') : queue'[i] = queue'[j] => i = j
      <4>1. ASSUME NEW i \in 1 .. Len(queue'), NEW j \in 1 .. Len(queue'), queue'[i] = queue'[j]
            PROVE  i = j
        <5>1. i + 1 = j + 1
          BY <3>2, <3>3, <4>1 DEF Types, QueueInv
        <5> QED BY <3>1, <3>2, <5>1
      <4> QED BY <4>1
    <3>7. rio'.fd \notin served'
      BY <2>1, <2>2, <3>1, <3>4 DEF Types, QueueInv
    <3> QED BY <2>2, <3>2, <3>5, <3>6, <3>7 DEF Types, QueueInv
  <2> QED BY <2>1, <2>2, <2>3, <2>4, <2>5 DEF Types, WireTypes
<1>9. CASE CloseConn
  <2>1. rio.fd \in Conns /\ rio'.fd = NoConn /\ RioTypes' /\ WireTypes'
    BY <1>9, ClosesConn
  <2>2. /\ pc = "close" /\ pc' = "accept" /\ UNCHANGED <<usrbuf, reading, line, queue, child, disk>>
        /\ served' = served \cup {rio.fd} /\ uri' = "/" /\ hdr' = FALSE /\ after' = "accept"
    BY <1>9 DEF CloseConn, At, GoTo, clientVars
  <2>3. LineTypes'
    BY <2>2 DEF Types, LineTypes
  <2>4. ServerTypes'
    <3>1. hdr' \in BOOLEAN
      BY <2>2, Zenon
    <3> QED BY <2>1, <2>2, <3>1 DEF Types, ServerTypes, Pcs, Uris
  <2>5. QueueInv'
    <3>1. \A i \in 1 .. Len(queue) : queue[i] \in Conns
      BY ElementOfSeq DEF Types, QueueInv
    <3> QED BY <2>1, <2>2, <3>1, RioAssumption DEF Types, QueueInv
  <2> QED BY <2>1, <2>3, <2>4, <2>5 DEF Types
<1>10. CASE QuietStep
  <2>1. UNCHANGED <<wire, shut, rio, usrbuf, line, toSend, queue, served>>
    BY <1>10, QuietFrame
  <2>2. ServerTypes' /\ reading' \in BOOLEAN /\ (reading => reading')
    BY <1>10, QuietTypes
  <2> QED BY <1>3, <2>1, <2>2 DEF Types, WireTypes, RioTypes, LineTypes
<1>11. CASE UNCHANGED vars
  BY <1>1, <1>2, <1>3, <1>11 DEF vars, rioVars, readVars, clientVars, serverVars, Types, WireTypes
<1> QED BY <1>4, <1>5, <1>6, <1>7, <1>8, <1>9, <1>10, <1>11, StepCases, ReaderServes

-----------------------------------------------------------------------------
(* The types and the requests are invariant. *)

\* Nothing has been sent when the server starts.
LEMMA InitFresh ==
    ASSUME TinyInit
    PROVE  Types /\ FreshInv
<1>1. /\ wire = [c \in Conns |-> <<>>] /\ shut = [c \in Conns |-> FALSE]
      /\ rio = [fd |-> NoConn, cnt |-> 0, bufptr |-> 1, buf |-> <<>>]
      /\ usrbuf = <<>> /\ reading = FALSE /\ line = <<>>
      /\ queue = <<>> /\ pc = "accept" /\ uri = "/" /\ hdr = FALSE
      /\ after = "accept" /\ child = "none" /\ served = {}
  BY DEF TinyInit, RioInit
<1>2. /\ 0 \in -1 .. RIO_BUFSIZE /\ 1 \in 1 .. RIO_BUFSIZE + 1 /\ ~(0 > 0) /\ 0 <= RIO_BUFSIZE
      /\ <<>> \in Seq(Bytes) /\ Len(<<>>) = 0 /\ 0 < MAXLINE - 1 /\ 0 < MAXLINE /\ 1 .. 0 = {}
      /\ <<>> \in Seq(Conns)
  BY EmptySeq, RioAssumption
<1>3. asked \in [Conns -> Seq(Bytes)] /\ toSend = asked /\ \A c \in Conns : asked[c] \in Requests[c]
  <2>1. /\ asked \in [Conns -> UNION {Requests[c] : c \in Conns}]
        /\ \A c \in Conns : asked[c] \in Requests[c]
        /\ toSend = asked
    BY DEF TinyInit
  <2>2. \A c \in Conns : asked[c] \in Seq(Bytes)
    BY <2>1, TinyAssumption
  <2> QED BY <2>1, <2>2
<1>4. disk \in [Files -> Kinds]
  BY TinyAssumption DEF TinyInit
<1>5. reading \in BOOLEAN /\ hdr \in BOOLEAN /\ ~reading
  BY <1>1, Zenon
<1>6. shut \in [Conns -> BOOLEAN]
  BY <1>1, Zenon
<1>7. WireTypes
  BY <1>1, <1>2, <1>3, <1>6 DEF WireTypes
<1>8. RioTypes
  BY <1>1, <1>2 DEF RioTypes
<1>9. LineTypes
  BY <1>1, <1>2, <1>5 DEF LineTypes
<1>10. ServerTypes
  BY <1>1, <1>4, <1>5 DEF ServerTypes, Pcs, Uris
<1>11. QueueInv
  BY <1>1, <1>2 DEF QueueInv
<1>12. ASSUME NEW c \in Conns
       PROVE  Ahead(c) = <<>> /\ <<>> \o toSend[c] = asked[c]
  <2>1. toSend[c] \in Seq(Bytes)
    BY <1>3
  <2> QED BY <1>1, <1>3, <2>1, ConcatEmptySeq, RioAssumption DEF Ahead
<1>13. FreshInv
  BY <1>1, <1>3, <1>12 DEF FreshInv
<1> QED BY <1>7, <1>8, <1>9, <1>10, <1>11, <1>13 DEF Types

\* The types and the requests hold in every state.
LEMMA FreshInvariant == Spec => [](Types /\ FreshInv)
<1>1. TinyInit => Types /\ FreshInv
  BY InitFresh
<1>2. (Types /\ FreshInv) /\ [Next]_vars => (Types /\ FreshInv)'
  BY TypesKept, FreshKept
<1> QED BY <1>1, <1>2, PTL DEF Spec

\* The server, its reader and the files keep to their types: rio_cnt and rio_bufptr stay
\* inside rio_buf, a line inside the caller's buffer, and the uri is one that a client asked
\* for (tiny.c:20-95, csapp.c:805-892).
THEOREM TypeCorrect == Spec => []TypeOK
<1>1. Types => TypeOK
  BY DEF Types, TypeOK, RioTypes, LineTypes, ServerTypes, Pcs
<1> QED BY <1>1, FreshInvariant, PTL

-----------------------------------------------------------------------------
(* The reader implements LineStream. *)

\* A step that leaves what is ahead of the reader, and its line, alone is none of the stream.
LEMMA StreamStutters ==
    ASSUME SameAhead, UNCHANGED <<shut, line>>
    PROVE  UNCHANGED Stream!vars
<1>1. [c \in Conns |-> Ahead(c)]' = [c \in Conns |-> Ahead(c)]
  <2>1. \A c \in Conns : Ahead(c)' = Ahead(c)
    BY DEF SameAhead
  <2>2. [c \in Conns |-> Ahead(c)]' = [c \in Conns |-> Ahead(c)']
    OBVIOUS
  <2> QED BY <2>1, <2>2
<1> QED BY <1>1 DEF Stream!vars

\* A step that changes what is ahead of the reader for one connection changes the stream's
\* rest there.
LEMMA StreamChanges ==
    ASSUME NEW c \in Conns, NEW s, Ahead(c)' = s, \A d \in Conns \ {c} : Ahead(d)' = Ahead(d)
    PROVE  LET rest == [d \in Conns |-> Ahead(d)]
           IN  rest' = [rest EXCEPT ![c] = s] /\ rest'[c] = s /\ rest[c] = Ahead(c)
<1> DEFINE rest == [d \in Conns |-> Ahead(d)]
<1>1. rest' = [d \in Conns |-> Ahead(d)']
  OBVIOUS
<1>2. \A d \in Conns : Ahead(d)' = IF d = c THEN s ELSE rest[d]
  OBVIOUS
<1>3. [rest EXCEPT ![c] = s] = [d \in Conns |-> IF d = c THEN s ELSE rest[d]]
  OBVIOUS
<1>4. rest' = [rest EXCEPT ![c] = s]
  BY <1>1, <1>2, <1>3
<1> QED BY <1>1, <1>4

\* Every step is one of the stream, or none.
LEMMA StepOfStream ==
    ASSUME Types, FreshInv, [Next]_vars
    PROVE  [Stream!Next]_Stream!vars
<1> DEFINE rest == [d \in Conns |-> Ahead(d)]
<1>1. \A c \in Conns : Ahead(c) \in Seq(Bytes) /\ rest[c] = Ahead(c)
  BY AheadTypes DEF Types
<1>2. ASSUME NEW c \in Conns, ClientSends(c)
      PROVE  Stream!Send(c)
  <2>1. PICK s : /\ s \in Seq(Bytes) /\ Len(s) > 0 /\ Ahead(c)' = Ahead(c) \o s
                 /\ \A d \in Conns \ {c} : Ahead(d)' = Ahead(d)
    <3>1. PICK n \in 1 .. Len(toSend[c]) :
              LET sent == SubSeq(toSend[c], 1, n)
              IN  /\ sent \in Seq(Bytes) /\ Len(sent) = n
                  /\ Ahead(c)' = Ahead(c) \o sent
                  /\ \A d \in Conns \ {c} : Ahead(d)' = Ahead(d)
      BY <1>2, SendsLine DEF Types
    <3>2. n > 0
      BY LenProperties DEF Types, WireTypes
    <3> QED BY <3>1, <3>2
  <2> DEFINE a == Ahead(c)
             more == a \o s
  <2>2. a \in Seq(Bytes)
    BY <1>1
  <2>3. more \in Seq(Bytes) /\ Len(more) > Len(a) /\ SubSeq(more, 1, Len(a)) = a
    <3> HIDE DEF a
    <3>1. /\ more \in Seq(Bytes) /\ Len(more) = Len(a) + Len(s) /\ Len(a) \in Nat /\ Len(s) \in Nat
          /\ \A i \in 1 .. Len(a) : more[i] = a[i]
      BY <2>1, <2>2, LenProperties, ConcatProperties
    <3> HIDE DEF more
    <3>2. Len(a) \in 0 .. Len(more)
      BY <3>1
    <3>3. /\ SubSeq(more, 1, Len(a)) \in Seq(Bytes) /\ Len(SubSeq(more, 1, Len(a))) = Len(a)
          /\ \A i \in 1 .. Len(a) : SubSeq(more, 1, Len(a))[i] = more[i]
      BY <3>1, <3>2, SplitSeq
    <3>4. SubSeq(more, 1, Len(a)) = a
      BY <2>2, <3>1, <3>3, SeqEqual
    <3> QED BY <2>1, <3>1, <3>4
  <2>4. rest' = [rest EXCEPT ![c] = more] /\ rest'[c] = more /\ rest[c] = a
    BY <2>1, StreamChanges
  <2>5. ~shut[c] /\ UNCHANGED <<shut, line>>
    BY <1>2 DEF ClientSends, readVars
  <2> HIDE DEF a, more, rest
  <2>6. /\ rest'[c] \in Seq(Bytes) /\ Len(rest'[c]) > Len(rest[c])
        /\ SubSeq(rest'[c], 1, Len(rest[c])) = rest[c]
        /\ rest' = [rest EXCEPT ![c] = rest'[c]]
    BY <2>3, <2>4
  <2> QED BY <2>5, <2>6 DEF Stream!Send, rest
<1>3. ASSUME NEW c \in Conns, ClientCloses(c)
      PROVE  Stream!End(c)
  <2>1. shut' = [shut EXCEPT ![c] = TRUE] /\ UNCHANGED <<rio, usrbuf, wire, line>>
    BY <1>3 DEF ClientCloses, readVars
  <2>2. rest' = rest
    BY <2>1, AheadFrame DEF SameAhead
  <2> QED BY <2>1, <2>2 DEF Stream!End
<1>4. ASSUME NEW c \in Conns, UNCHANGED shut, GivesLine(c)
      PROVE  Stream!Give(c)
  <2> DEFINE n == Stream!LineLen(rest[c])
             s == SubSeq(Ahead(c), Stream!LineLen(Ahead(c)) + 1, Len(Ahead(c)))
  <2>1. rest' = [rest EXCEPT ![c] = s]
    <3> HIDE DEF s
    <3>1. Ahead(c)' = s /\ \A d \in Conns \ {c} : Ahead(d)' = Ahead(d)
      BY <1>4 DEF GivesLine, s
    <3> QED BY <3>1, StreamChanges
  <2>2. rest[c] = Ahead(c)
    BY <1>1
  <2>3. /\ Stream!LineReady(rest[c], shut[c]) /\ line' = SubSeq(rest[c], 1, n)
        /\ s = SubSeq(rest[c], n + 1, Len(rest[c]))
    BY <1>4, <2>2 DEF GivesLine
  <2> HIDE DEF rest, s
  <2>4. rest' = [rest EXCEPT ![c] = SubSeq(rest[c], n + 1, Len(rest[c]))]
    BY <2>1, <2>3
  <2> QED BY <1>4, <2>3, <2>4 DEF Stream!Give, rest
<1>5. CASE CloseConn
  <2>1. /\ rio.fd \in Conns
        /\ \A c \in Conns : Ahead(c)' = IF c = rio.fd THEN <<>> ELSE Ahead(c)
    BY <1>5, ClosesConn
  <2>2. UNCHANGED <<shut, line>>
    BY <1>5 DEF CloseConn
  <2>3. rest' = [rest EXCEPT ![rio.fd] = <<>>]
    <3>1. ASSUME NEW c \in Conns, c = rio.fd
          PROVE  rest' = [rest EXCEPT ![c] = <<>>]
      <4>1. Ahead(c)' = <<>> /\ \A d \in Conns \ {c} : Ahead(d)' = Ahead(d)
        BY <2>1, <3>1
      <4> QED BY <4>1, StreamChanges
    <3> QED BY <2>1, <3>1
  <2>4. Stream!Drop(rio.fd)
    BY <2>2, <2>3 DEF Stream!Drop
  <2> QED BY <2>1, <2>4 DEF Stream!Next
<1>6. CASE ReaderStep /\ pc # "exited" /\ UNCHANGED <<clientVars, serverVars, disk>>
  <2>1. rio.fd \in Conns
    BY <1>6, ReaderServes
  <2>2. /\ shut' = shut
        /\ \/ SameAhead /\ line' = line
           \/ GivesLine(rio.fd)
    <3>1. ASSUME NEW f \in Conns, f = rio.fd
          PROVE  /\ shut' = shut
                 /\ \/ SameAhead /\ line' = line
                    \/ GivesLine(f)
      BY <1>6, <3>1, ReaderFrame
    <3> QED BY <2>1, <3>1
  <2> QED BY <2>1, <2>2, <1>4, StreamStutters DEF Stream!Next
<1>7. CASE Accept
  <2>1. SameAhead /\ UNCHANGED <<shut, line>>
    BY <1>7, AcceptsConn DEF Accept
  <2> QED BY <2>1, StreamStutters
<1>8. ASSUME NEW c \in Conns, Connect(c)
      PROVE  UNCHANGED Stream!vars
  <2>1. UNCHANGED <<rio, usrbuf, wire, shut, line>>
    BY <1>8 DEF Connect, rioVars, readVars
  <2> QED BY <2>1, AheadFrame, StreamStutters
<1>9. CASE QuietStep
  <2>1. UNCHANGED <<rio, usrbuf, wire, shut, line>>
    BY <1>9, QuietFrame
  <2> QED BY <2>1, AheadFrame, StreamStutters
<1>10. CASE UNCHANGED vars
  <2>1. UNCHANGED <<rio, usrbuf, wire, shut, line>>
    BY <1>10 DEF vars, rioVars, readVars
  <2> QED BY <2>1, AheadFrame, StreamStutters
<1> QED BY <1>2, <1>3, <1>5, <1>6, <1>7, <1>8, <1>9, <1>10, StepCases DEF Stream!Next

\* Nothing has been sent, given out or closed when the server starts.
LEMMA StreamInit ==
    ASSUME TinyInit
    PROVE  Stream!Init
<1>1. /\ wire = [c \in Conns |-> <<>>] /\ shut = [c \in Conns |-> FALSE]
      /\ rio.fd = NoConn /\ line = <<>>
  BY DEF TinyInit, RioInit
<1>2. \A c \in Conns : Ahead(c) = <<>>
  BY <1>1, RioAssumption DEF Ahead
<1> QED BY <1>1, <1>2 DEF Stream!Init

\* The buffered reader gives the server each connection's bytes in order, each once, a line
\* at a time, whatever the sizes of the reads and of the buffers, and although its rio_t
\* still holds the bytes of the connection before (csapp.c:794-892).
THEOREM ReaderImplementsLineStream == Spec => ImplementsLineStream
<1>1. TinyInit => Stream!Init
  BY StreamInit
<1>2. (Types /\ FreshInv) /\ [Next]_vars => [Stream!Next]_Stream!vars
  BY StepOfStream
<1> QED BY <1>1, <1>2, FreshInvariant, PTL DEF Spec, ImplementsLineStream, Stream!Spec

-----------------------------------------------------------------------------
(* The answers. *)

\* What an answer is made of.
Texts == {"200", "403", "404", "501", "headers", "page", "body", "sum", Log} \cup Uris

\* The text of what is to be written, one or two pieces.
TextOf(ps) == IF ps = <<>> THEN <<>> ELSE IF Len(ps) = 1 THEN ps[1] ELSE ps[1] \o ps[2]

\* c has been sent nothing, or the beginning of an answer to its request.
Begun(c) ==
    got[c] # <<>> =>
        \E a \in Answers(c) : Len(got[c]) <= Len(a) /\ SubSeq(a, 1, Len(got[c])) = got[c]

\* c has been sent a complete answer, or has closed before its request line was read.
Done(c) == got[c] \in Answers(c) \/ (got[c] = <<>> /\ shut[c])

\* The uri is one that c may have asked for.
Own(c) == uri \in UrisIn(RequestLine(c)) /\ GET \in MethodsIn(RequestLine(c))

\* The answer to c as far as ServeStatic, before "open", and ServeDynamic, before "fork", go.
Headers200(c, text, next) ==
    /\ text = <<"200", "headers">> /\ Own(c)
    /\ disk[File(uri)] # "unreadable" /\ (Static(uri) <=> next = "open")

\* How far the answer to c, which is being served, has come.
CurrentInv(c) ==
    /\ pc \in {"request", "headers", "stat"} => got[c] = <<>>
    /\ pc \in {"headers", "stat"} => Own(c)
    /\ pc = "write" => LET text == got[c] \o TextOf(out)
                       IN  IF after = "close" THEN text \in Answers(c)
                                              ELSE Headers200(c, text, after)
    /\ pc \in {"open", "fork"} => Headers200(c, got[c], pc)
    /\ child = "running" => Headers200(c, got[c], "fork")
    /\ pc = "wait" => child = "running" \/ got[c] \in Answers(c)
    /\ pc = "close" => Done(c)
    /\ pc = "exited" => Begun(c)

AnswerInv ==
    /\ got \in [Conns -> Seq(Texts)] /\ out \in Seq(Seq(Texts)) /\ Len(out) <= 2
    /\ \A c \in Conns : c \notin served \cup {rio.fd} => got[c] = <<>>
    /\ \A c \in Conns : c = rio.fd => CurrentInv(c)
    /\ \A c \in served : Done(c)

\* Two words, and one or two more.
LEMMA ThreeWords ==
    \A s, t, u \in Texts : <<s, t>> \o <<u>> = <<s, t, u>>
<1> SUFFICES ASSUME NEW s \in Texts, NEW t \in Texts, NEW u \in Texts
             PROVE  <<s, t>> \o <<u>> = <<s, t, u>>
  OBVIOUS
<1> DEFINE a == <<s, t>>
           b == <<u>>
           ab == <<s, t, u>>
<1>1. /\ a \in Seq(Texts) /\ Len(a) = 2 /\ a[1] = s /\ a[2] = t
      /\ b \in Seq(Texts) /\ Len(b) = 1 /\ b[1] = u
      /\ ab \in Seq(Texts) /\ Len(ab) = 3 /\ ab[1] = s /\ ab[2] = t /\ ab[3] = u
  OBVIOUS
<1> HIDE DEF a, b, ab
<1>2. /\ a \o b \in Seq(Texts) /\ Len(a \o b) = 3
      /\ \A i \in 1 .. 3 : (a \o b)[i] = IF i <= 2 THEN a[i] ELSE b[i - 2]
  <2>1. a \in Seq(Texts) /\ b \in Seq(Texts)
    BY <1>1
  <2>2. /\ a \o b \in Seq(Texts) /\ Len(a \o b) = Len(a) + Len(b)
        /\ \A i \in 1 .. Len(a) + Len(b) :
              (a \o b)[i] = IF i <= Len(a) THEN a[i] ELSE b[i - Len(a)]
    BY <2>1, ConcatProperties
  <2>3. Len(a) = 2 /\ Len(a) + Len(b) = 3
    BY <1>1
  <2> QED BY <2>2, <2>3
<1>3. a \o b = ab
  <2>1. a \o b \in Seq(Texts) /\ ab \in Seq(Texts) /\ Len(a \o b) = 3 /\ Len(ab) = 3
    BY <1>1, <1>2
  <2>2. \A i \in 1 .. 3 : (a \o b)[i] = ab[i]
    <3>1. (a \o b)[1] = s /\ (a \o b)[2] = t /\ (a \o b)[3] = u
      BY <1>1, <1>2
    <3>2. \A i \in 1 .. 3 : i = 1 \/ i = 2 \/ i = 3
      OBVIOUS
    <3> QED BY <1>1, <3>1, <3>2
  <2> QED BY <2>1, <2>2, SeqEqual
<1> QED BY <1>3 DEF a, b, ab

LEMMA FourWords ==
    \A s, t, u, v \in Texts : <<s, t>> \o <<u, v>> = <<s, t, u, v>>
<1> SUFFICES ASSUME NEW s \in Texts, NEW t \in Texts, NEW u \in Texts, NEW v \in Texts
             PROVE  <<s, t>> \o <<u, v>> = <<s, t, u, v>>
  OBVIOUS
<1> DEFINE a == <<s, t>>
           b == <<u, v>>
           ab == <<s, t, u, v>>
<1>1. /\ a \in Seq(Texts) /\ Len(a) = 2 /\ a[1] = s /\ a[2] = t
      /\ b \in Seq(Texts) /\ Len(b) = 2 /\ b[1] = u /\ b[2] = v
      /\ ab \in Seq(Texts) /\ Len(ab) = 4 /\ ab[1] = s /\ ab[2] = t /\ ab[3] = u /\ ab[4] = v
  OBVIOUS
<1> HIDE DEF a, b, ab
<1>2. /\ a \o b \in Seq(Texts) /\ Len(a \o b) = 4
      /\ \A i \in 1 .. 4 : (a \o b)[i] = IF i <= 2 THEN a[i] ELSE b[i - 2]
  <2>1. a \in Seq(Texts) /\ b \in Seq(Texts)
    BY <1>1
  <2>2. /\ a \o b \in Seq(Texts) /\ Len(a \o b) = Len(a) + Len(b)
        /\ \A i \in 1 .. Len(a) + Len(b) :
              (a \o b)[i] = IF i <= Len(a) THEN a[i] ELSE b[i - Len(a)]
    BY <2>1, ConcatProperties
  <2>3. Len(a) = 2 /\ Len(a) + Len(b) = 4
    BY <1>1
  <2> QED BY <2>2, <2>3
<1>3. a \o b = ab
  <2>1. a \o b \in Seq(Texts) /\ ab \in Seq(Texts) /\ Len(a \o b) = 4 /\ Len(ab) = 4
    BY <1>1, <1>2
  <2>2. \A i \in 1 .. 4 : (a \o b)[i] = ab[i]
    <3>1. (a \o b)[1] = s /\ (a \o b)[2] = t /\ (a \o b)[3] = u /\ (a \o b)[4] = v
      BY <1>1, <1>2
    <3>2. \A i \in 1 .. 4 : i = 1 \/ i = 2 \/ i = 3 \/ i = 4
      OBVIOUS
    <3> QED BY <1>1, <3>1, <3>2
  <2> QED BY <2>1, <2>2, SeqEqual
<1> QED BY <1>3 DEF a, b, ab

\* Two of anything.
LEMMA PairConcat ==
    ASSUME NEW S, NEW s \in S, NEW t \in S
    PROVE  <<s>> \o <<t>> = <<s, t>>
<1> DEFINE a == <<s>>
           b == <<t>>
           ab == <<s, t>>
<1>1. /\ a \in Seq(S) /\ Len(a) = 1 /\ a[1] = s /\ b \in Seq(S) /\ Len(b) = 1 /\ b[1] = t
      /\ ab \in Seq(S) /\ Len(ab) = 2 /\ ab[1] = s /\ ab[2] = t
  OBVIOUS
<1> HIDE DEF a, b, ab
<1>2. /\ a \o b \in Seq(S) /\ Len(a \o b) = Len(a) + Len(b)
      /\ \A i \in 1 .. Len(a) + Len(b) : (a \o b)[i] = IF i <= Len(a) THEN a[i] ELSE b[i - Len(a)]
  BY <1>1, ConcatProperties
<1>3. \A i \in 1 .. 2 : (a \o b)[i] = ab[i]
  BY <1>1, <1>2
<1>4. a \o b = ab
  BY <1>1, <1>2, <1>3, SeqEqual
<1> QED BY <1>4 DEF a, b, ab

\* The texts of the answers, put together from their pieces.
LEMMA TextsOfAnswers ==
    /\ \A s : TextOf(<<s>>) = s
    /\ \A s \in Texts : TextOf(clienterror(s)) = Page(s) /\ <<>> \o Page(s) = Page(s)
    /\ <<"200", "headers">> \o <<>> = <<"200", "headers">>
    /\ <<>> \o <<"200", "headers">> = <<"200", "headers">>
    /\ \A u \in Texts : /\ <<"200", "headers">> \o <<"body", u>> = <<"200", "headers", "body", u>>
                        /\ <<"200", "headers">> \o <<"sum", u>> = <<"200", "headers", "sum", u>>
    /\ <<"200", "headers">> \o <<Log>> = <<"200", "headers", Log>>
<1>1. \A s : TextOf(<<s>>) = s
  BY DEF TextOf
<1>2. /\ "200" \in Texts /\ "headers" \in Texts /\ "body" \in Texts /\ "sum" \in Texts
      /\ "page" \in Texts /\ Log \in Texts
  BY DEF Texts
<1>3. ASSUME NEW s \in Texts
      PROVE  TextOf(clienterror(s)) = Page(s) /\ <<>> \o Page(s) = Page(s)
  <2>1. TextOf(clienterror(s)) = <<s, "headers">> \o <<"page">>
    BY DEF TextOf, clienterror
  <2>2. Page(s) \in Seq(Texts)
    BY <1>2 DEF Page
  <2>3. <<s, "headers">> \o <<"page">> = <<s, "headers", "page">>
    BY <1>2, <1>3, ThreeWords
  <2>4. <<>> \o Page(s) = Page(s)
    BY <2>2, ConcatEmptySeq
  <2> QED BY <2>1, <2>3, <2>4 DEF Page
<1>4. /\ <<"200", "headers">> \o <<>> = <<"200", "headers">>
      /\ <<>> \o <<"200", "headers">> = <<"200", "headers">>
  <2>1. <<"200", "headers">> \in Seq(Texts)
    BY <1>2
  <2> QED BY <2>1, ConcatEmptySeq
<1>5. ASSUME NEW u \in Texts
      PROVE  /\ <<"200", "headers">> \o <<"body", u>> = <<"200", "headers", "body", u>>
             /\ <<"200", "headers">> \o <<"sum", u>> = <<"200", "headers", "sum", u>>
  <2>1. <<"200", "headers">> \o <<"body", u>> = <<"200", "headers", "body", u>>
    BY <1>2, FourWords
  <2>2. <<"200", "headers">> \o <<"sum", u>> = <<"200", "headers", "sum", u>>
    BY <1>2, FourWords
  <2> QED BY <2>1, <2>2
<1>6. <<"200", "headers">> \o <<Log>> = <<"200", "headers", Log>>
  BY <1>2, ThreeWords
<1> QED BY <1>1, <1>3, <1>4, <1>5, <1>6

\* Texts may be put together in any grouping.
LEMMA TextsAssociate == \A s, t, u \in Seq(Texts) : (s \o t) \o u = s \o (t \o u)
BY ConcatAssociative

\* One write of Rio_writen moves a part of the text to the client.
LEMMA WritesOn ==
    ASSUME NEW ps \in Seq(Seq(Texts)), Len(ps) <= 2, ps # <<>>, NEW k \in 1 .. Len(Head(ps)),
           NEW g \in Seq(Texts)
    PROVE  LET left == Left(Head(ps), k)
               next == IF left = <<>> THEN Tail(ps) ELSE <<left>> \o Tail(ps)
               new  == g \o SubSeq(Head(ps), 1, k)
           IN  /\ new \in Seq(Texts) /\ next \in Seq(Seq(Texts)) /\ Len(next) <= 2
               /\ new \o TextOf(next) = g \o TextOf(ps)
<1> DEFINE h == Head(ps)
           s == SubSeq(h, 1, k)
           left == SubSeq(h, k + 1, Len(h))
<1>1. /\ Len(ps) \in {1, 2} /\ h = ps[1] /\ h \in Seq(Texts) /\ Len(h) \in Nat
      /\ Tail(ps) \in Seq(Seq(Texts)) /\ Len(Tail(ps)) = Len(ps) - 1
      /\ Len(ps) = 2 => ps[2] \in Seq(Texts) /\ Tail(ps) = <<ps[2]>>
  <2>1. Len(ps) \in Nat /\ Len(ps) # 0
    BY LenProperties, EmptySeq
  <2>2. h = ps[1] /\ h \in Seq(Texts) /\ Tail(ps) \in Seq(Seq(Texts)) /\ Len(Tail(ps)) = Len(ps) - 1
    BY <2>1, HeadTailProperties
  <2>3. ASSUME Len(ps) = 2
        PROVE  ps[2] \in Seq(Texts) /\ Tail(ps) = <<ps[2]>>
    <3>1. 2 \in 1 .. Len(ps) /\ 1 \in 1 .. Len(ps) - 1 /\ \A i \in 1 .. 1 : i = 1
      BY <2>3
    <3> DEFINE t == ps[2]
    <3>2. t \in Seq(Texts)
      BY <3>1, ElementOfSeq
    <3>3. Len(Tail(ps)) = 1 /\ Tail(ps)[1] = t
      <4>1. ps \in Seq(Seq(Texts)) /\ ps # <<>>
        OBVIOUS
      <4>2. \A i \in 1 .. Len(ps) - 1 : Tail(ps)[i] = ps[i + 1]
        BY <4>1, HeadTailProperties
      <4>3. Tail(ps)[1] = ps[1 + 1]
        BY <3>1, <4>2
      <4>4. 1 + 1 = 2 /\ Len(ps) - 1 = 1
        BY <2>3
      <4> HIDE DEF t
      <4> QED BY <2>2, <4>3, <4>4 DEF t
    <3>4. <<t>> \in Seq(Seq(Texts)) /\ Len(<<t>>) = 1 /\ <<t>>[1] = t
      BY <3>2
    <3> HIDE DEF t
    <3>5. Tail(ps) = <<t>>
      BY <2>2, <3>1, <3>3, <3>4, SeqEqual
    <3> QED BY <3>2, <3>5 DEF t
  <2>4. Len(h) \in Nat
    BY <2>2, LenProperties
  <2> QED BY <2>1, <2>2, <2>3, <2>4
<1>2. s \in Seq(Texts) /\ left \in Seq(Texts) /\ s \o left = h
  <2>1. k \in 0 .. Len(h)
    BY <1>1
  <2> HIDE DEF h
  <2> QED BY <1>1, <2>1, SplitSeq
<1> DEFINE next == IF left = <<>> THEN Tail(ps) ELSE <<left>> \o Tail(ps)
           new == g \o s
<1>3. new \in Seq(Texts)
  BY <1>2, ConcatProperties
<1>4. next \in Seq(Seq(Texts)) /\ Len(next) <= 2
  <2>1. CASE left = <<>>
    BY <1>1, <2>1
  <2>2. CASE left # <<>>
    <3>1. <<left>> \in Seq(Seq(Texts)) /\ Len(<<left>>) = 1
      BY <1>2
    <3>2. <<left>> \o Tail(ps) \in Seq(Seq(Texts)) /\ Len(<<left>> \o Tail(ps)) = 1 + Len(Tail(ps))
      BY <1>1, <3>1, ConcatProperties
    <3> QED BY <1>1, <2>2, <3>2
  <2> QED BY <2>1, <2>2
<1>5. TextOf(next) \in Seq(Texts) /\ s \o TextOf(next) = TextOf(ps)
  <2>1. CASE Len(ps) = 1
    <3>1. TextOf(ps) = h /\ Tail(ps) = <<>>
      <4>1. TextOf(ps) = ps[1]
        BY <2>1 DEF TextOf
      <4>2. Tail(ps) = <<>>
        <5>1. \A q \in Seq(Seq(Texts)) : q # <<>> => Len(q) \in Nat \ {0}
          BY EmptySeq
        <5>2. Len(Tail(ps)) = 0
          BY <1>1, <2>1
        <5>3. Tail(ps) \in Seq(Seq(Texts))
          BY <1>1
        <5> DEFINE q == Tail(ps)
        <5> HIDE DEF q
        <5>4. q \in Seq(Seq(Texts)) /\ Len(q) = 0
          BY <5>2, <5>3 DEF q
        <5>5. q = <<>>
          BY <5>1, <5>4
        <5> QED BY <5>5 DEF q
      <4> QED BY <1>1, <4>1, <4>2
    <3>2. TextOf(next) = left
      <4>1. CASE left = <<>>
        BY <3>1, <4>1 DEF TextOf
      <4>2. CASE left # <<>>
        <5>1. <<left>> \o <<>> = <<left>>
          BY <1>2, ConcatEmptySeq
        <5> QED BY <3>1, <4>2, <5>1, TextsOfAnswers
      <4> QED BY <4>1, <4>2
    <3> QED BY <1>2, <3>1, <3>2
  <2>2. CASE Len(ps) = 2
    <3> DEFINE t == ps[2]
    <3>1. TextOf(ps) = h \o t /\ Tail(ps) = <<t>> /\ t \in Seq(Texts)
      BY <1>1, <2>2 DEF TextOf
    <3>2. TextOf(next) = left \o t
      <4>1. CASE left = <<>>
        <5>1. <<>> \o t = t /\ next = <<t>>
          BY <3>1, <4>1, ConcatEmptySeq
        <5> HIDE DEF left, t, next
        <5> QED BY <4>1, <5>1, TextsOfAnswers
      <4>2. CASE left # <<>>
        <5>1. <<left>> \o <<t>> = <<left, t>>
          BY <1>2, <3>1, PairConcat
        <5>2. next = <<left, t>>
          BY <3>1, <4>2, <5>1
        <5> HIDE DEF left, t, next
        <5> QED BY <5>2 DEF TextOf
      <4> QED BY <4>1, <4>2
    <3>3. (s \o left) \o t = s \o (left \o t)
      <4>1. s \in Seq(Texts) /\ left \in Seq(Texts) /\ t \in Seq(Texts)
        BY <1>2, <3>1
      <4> HIDE DEF s, left, t, h, next, new
      <4> QED BY <4>1, TextsAssociate
    <3>4. left \o t \in Seq(Texts)
      <4> HIDE DEF left, t
      <4> QED BY <1>2, <3>1, ConcatProperties
    <3> QED BY <1>2, <3>1, <3>2, <3>3, <3>4
  <2> QED BY <1>1, <2>1, <2>2
<1>6. new \o TextOf(next) = g \o TextOf(ps)
  <2> DEFINE x == TextOf(next)
  <2>1. g \in Seq(Texts) /\ s \in Seq(Texts) /\ x \in Seq(Texts)
    BY <1>2, <1>5
  <2>2. s \o x = TextOf(ps)
    BY <1>5
  <2> HIDE DEF s, x, next
  <2>3. (g \o s) \o x = g \o (s \o x)
    BY <2>1, TextsAssociate
  <2> QED BY <2>2, <2>3 DEF x
<1> HIDE DEF h, s
<1> QED BY <1>3, <1>4, <1>6 DEF Left, h, s

\* Of what is written in two parts, the first part is the beginning.
LEMMA BeginsWith ==
    ASSUME NEW g \in Seq(Texts), NEW x \in Seq(Texts)
    PROVE  Len(g) <= Len(g \o x) /\ SubSeq(g \o x, 1, Len(g)) = g
<1> DEFINE a == g \o x
<1>1. /\ a \in Seq(Texts) /\ Len(a) = Len(g) + Len(x) /\ Len(g) \in Nat /\ Len(x) \in Nat
      /\ \A i \in 1 .. Len(g) : a[i] = g[i]
  BY LenProperties, ConcatProperties
<1> HIDE DEF a
<1>2. Len(g) \in 0 .. Len(a)
  BY <1>1
<1>3. /\ SubSeq(a, 1, Len(g)) \in Seq(Texts) /\ Len(SubSeq(a, 1, Len(g))) = Len(g)
      /\ \A i \in 1 .. Len(g) : SubSeq(a, 1, Len(g))[i] = a[i]
  BY <1>1, <1>2, SplitSeq
<1>4. SubSeq(a, 1, Len(g)) = g
  BY <1>1, <1>3, SeqEqual
<1> QED BY <1>1, <1>4 DEF a

\* The files of the uris are known, and a request asks for one of them.
LEMMA UrisOfRequest ==
    ASSUME FreshInv, NEW c \in Conns
    PROVE  /\ UrisIn(RequestLine(c)) \subseteq Uris
           /\ \A u \in Uris : u \in Texts /\ File(u) \in Files
<1>1. asked[c] \in Seq(Bytes) /\ asked[c] \in Requests[c]
  BY DEF FreshInv
<1> DEFINE n == Stream!LineLen(asked[c])
<1>2. n \in 0 .. Len(asked[c])
  BY <1>1, LineLenBounds
<1>3. UrisIn(SubSeq(asked[c], 1, n)) \subseteq Uris
  <2> HIDE DEF n
  <2> QED BY <1>1, <1>2, TinyAssumption
<1>4. \A u \in Uris : u \in Texts /\ File(u) \in Files
  BY DEF Texts, Uris, Files, File, parse_uri
<1> QED BY <1>3, <1>4 DEF RequestLine

\* An answer is given when its condition holds.
LEMMA WhenHolds == \A p, q, a : p => a \in When(p, a)
BY DEF When

\* A condition that goes on holding keeps its answer.
LEMMA WhenStays == \A p, q, a : (p => q) => When(p, a) \subseteq When(q, a)
BY DEF When

\* The answers to a GET of u when the file is of this kind, and the client has closed or not.
AnswersWhen(u, kind, closed) ==
    When(kind = "unreadable", Page("403"))
    \cup When(kind = "none", Page("404"))
    \cup When(kind # "unreadable" /\ Static(u), <<"200", "headers", "body", u>>)
    \cup When((kind # "unreadable" /\ ~Static(u)) /\ HasAmp(u), <<"200", "headers", "sum", u>>)
    \cup When((kind # "unreadable" /\ ~Static(u)) /\ (~HasAmp(u) \/ kind # "data" \/ closed),
              <<"200", "headers">>)
    \cup When((kind # "unreadable" /\ ~Static(u)) /\ kind # "data", <<"200", "headers", Log>>)

LEMMA AnswersWhenGrow ==
    ASSUME NEW u, NEW k, NEW l, NEW p, NEW q, l = k \/ (k = "data" /\ l = "none"), p => q
    PROVE  AnswersWhen(u, k, p) \subseteq AnswersWhen(u, l, q)
<1>1. When(k = "unreadable", Page("403")) \subseteq When(l = "unreadable", Page("403"))
  BY WhenStays
<1>2. When(k = "none", Page("404")) \subseteq When(l = "none", Page("404"))
  BY WhenStays
<1> DEFINE dynamic(x) == x # "unreadable" /\ ~Static(u)
<1>3. \A a : /\ When(k # "unreadable" /\ Static(u), a) \subseteq When(l # "unreadable" /\ Static(u), a)
             /\ When(dynamic(k) /\ HasAmp(u), a) \subseteq When(dynamic(l) /\ HasAmp(u), a)
             /\ When(dynamic(k) /\ k # "data", a) \subseteq When(dynamic(l) /\ l # "data", a)
  BY WhenStays
<1>4. \A a : When(dynamic(k) /\ (~HasAmp(u) \/ k # "data" \/ p), a)
                \subseteq When(dynamic(l) /\ (~HasAmp(u) \/ l # "data" \/ q), a)
  BY WhenStays
<1> QED BY <1>1, <1>2, <1>3, <1>4 DEF AnswersWhen

\* A file that goes away and a client that closes add an answer and take none.
LEMMA AnswersGrow ==
    ASSUME Types, FreshInv, NEW c \in Conns, UNCHANGED asked, shut[c] => shut'[c],
           disk' = disk \/ \E f \in Files : FileGone(f)
    PROVE  Answers(c) \subseteq Answers(c)' /\ RequestLine(c)' = RequestLine(c)
<1>1. RequestLine(c)' = RequestLine(c)
  BY DEF RequestLine
<1>2. ASSUME NEW u \in UrisIn(RequestLine(c))
      PROVE  GetAnswers(c, u) \subseteq GetAnswers(c, u)'
  <2>1. File(u) \in Files /\ disk \in [Files -> Kinds]
    BY UrisOfRequest DEF Types, ServerTypes
  <2>2. disk'[File(u)] = disk[File(u)] \/ (disk[File(u)] = "data" /\ disk'[File(u)] = "none")
    BY <2>1 DEF FileGone
  <2>3. GetAnswers(c, u) = AnswersWhen(u, disk[File(u)], shut[c])
    BY DEF GetAnswers, AnswersWhen
  <2>4. GetAnswers(c, u)' = AnswersWhen(u, disk'[File(u)], shut'[c])
    BY DEF GetAnswers, AnswersWhen
  <2> QED BY <2>2, <2>3, <2>4, AnswersWhenGrow
<1>3. UNCHANGED RequestLine(c) => Answers(c) \subseteq Answers(c)'
  BY <1>2 DEF Answers
<1> QED BY <1>1, <1>3

\* The answers to the uri are answers to the client that asked for it, and the headers
\* begin one of them.
LEMMA OwnAnswers ==
    ASSUME Types, FreshInv, NEW c \in Conns, NEW text, NEW next, Headers200(c, text, next)
    PROVE  /\ GetAnswers(c, uri) \subseteq Answers(c)
           /\ next = "open" => text \o <<"body", uri>> \in GetAnswers(c, uri)
           /\ next # "open" =>
                 /\ HasAmp(uri) => text \o <<"sum", uri>> \in GetAnswers(c, uri)
                 /\ disk[File(uri)] # "data" => text \o <<Log>> \in GetAnswers(c, uri)
                 /\ ~HasAmp(uri) \/ disk[File(uri)] # "data" \/ shut[c] => text \in GetAnswers(c, uri)
           /\ \E x \in Seq(Texts) : text \o x \in Answers(c)
<1>1. text = <<"200", "headers">> /\ disk[File(uri)] # "unreadable" /\ (Static(uri) <=> next = "open")
      /\ Own(c)
  BY DEF Headers200
<1>2. uri \in UrisIn(RequestLine(c)) /\ GET \in MethodsIn(RequestLine(c))
  BY <1>1 DEF Own
<1>3. GetAnswers(c, uri) \subseteq Answers(c)
  BY <1>2 DEF Answers
<1>4. uri \in Texts
  BY <1>2, UrisOfRequest
<1>5. next = "open" => text \o <<"body", uri>> \in GetAnswers(c, uri)
  <2>1. text \o <<"body", uri>> = <<"200", "headers", "body", uri>>
    BY <1>1, <1>4, TextsOfAnswers
  <2> QED BY <1>1, <2>1, WhenHolds DEF GetAnswers
<1>6. next # "open" =>
        /\ HasAmp(uri) => text \o <<"sum", uri>> \in GetAnswers(c, uri)
        /\ disk[File(uri)] # "data" => text \o <<Log>> \in GetAnswers(c, uri)
        /\ ~HasAmp(uri) \/ disk[File(uri)] # "data" \/ shut[c] => text \in GetAnswers(c, uri)
  <2>1. /\ text \o <<"sum", uri>> = <<"200", "headers", "sum", uri>>
        /\ text \o <<Log>> = <<"200", "headers", Log>>
    BY <1>1, <1>4, TextsOfAnswers
  <2>2. next # "open" /\ HasAmp(uri) => text \o <<"sum", uri>> \in GetAnswers(c, uri)
    BY <1>1, <2>1, WhenHolds DEF GetAnswers
  <2>3. next # "open" /\ disk[File(uri)] # "data" => text \o <<Log>> \in GetAnswers(c, uri)
    BY <1>1, <2>1, WhenHolds DEF GetAnswers
  <2>4. next # "open" /\ (~HasAmp(uri) \/ disk[File(uri)] # "data" \/ shut[c])
            => text \in GetAnswers(c, uri)
    BY <1>1, WhenHolds DEF GetAnswers
  <2> QED BY <2>2, <2>3, <2>4
<1>7. /\ <<"body", uri>> \in Seq(Texts) /\ <<"sum", uri>> \in Seq(Texts) /\ <<>> \in Seq(Texts)
      /\ text \o <<>> = text
  <2>1. "body" \in Texts /\ "sum" \in Texts
    BY DEF Texts
  <2>2. text \o <<>> = text
    BY <1>1, TextsOfAnswers
  <2> QED BY <1>4, <2>1, <2>2, EmptySeq
<1>8. \E x \in Seq(Texts) : text \o x \in Answers(c)
  <2>1. CASE next = "open"
    BY <1>3, <1>5, <1>7, <2>1
  <2>2. CASE next # "open" /\ HasAmp(uri)
    BY <1>3, <1>6, <1>7, <2>2
  <2>3. CASE next # "open" /\ ~HasAmp(uri)
    <3>1. text \o <<>> \in Answers(c)
      BY <1>3, <1>6, <1>7, <2>3
    <3> QED BY <1>7, <3>1
  <2> QED BY <2>1, <2>2, <2>3
<1> QED BY <1>3, <1>5, <1>6, <1>8

\* Whatever has come to a client is the beginning of an answer to its request.
LEMMA EveryoneBegun ==
    ASSUME Types, FreshInv, AnswerInv, NEW c \in Conns
    PROVE  Begun(c)
<1>1. got[c] \in Seq(Texts)
  BY DEF AnswerInv
<1>2. ASSUME NEW x \in Seq(Texts), got[c] \o x \in Answers(c)
      PROVE  Begun(c)
  <2>1. Len(got[c]) <= Len(got[c] \o x) /\ SubSeq(got[c] \o x, 1, Len(got[c])) = got[c]
    BY <1>1, BeginsWith
  <2> QED BY <1>2, <2>1 DEF Begun
<1>3. ASSUME got[c] \in Answers(c)
      PROVE  Begun(c)
  <2>1. got[c] \o <<>> = got[c] /\ <<>> \in Seq(Texts)
    BY <1>1, ConcatEmptySeq, EmptySeq
  <2> QED BY <1>2, <1>3, <2>1
<1>4. CASE got[c] = <<>>
  BY <1>4 DEF Begun
<1>5. Done(c) => Begun(c)
  BY <1>3, <1>4 DEF Done
<1>6. CASE c = rio.fd /\ pc = "write"
  <2> DEFINE t == TextOf(out)
  <2>1. t \in Seq(Texts)
    <3>1. out \in Seq(Seq(Texts)) /\ Len(out) <= 2
      BY DEF AnswerInv
    <3>2. CASE out = <<>>
      BY <3>2, EmptySeq DEF TextOf
    <3>3. CASE out # <<>>
      <4>1. Len(out) \in {1, 2}
        <5>1. \A q \in Seq(Seq(Texts)) : q # <<>> => Len(q) \in Nat \ {0}
          BY EmptySeq
        <5>2. Len(out) \in Nat \ {0}
          BY <3>1, <3>3, <5>1
        <5>3. \A n \in Nat \ {0} : n <= 2 => n \in {1, 2}
          OBVIOUS
        <5> QED BY <3>1, <5>2, <5>3
      <4>2. out[1] \in Seq(Texts) /\ (Len(out) = 2 => out[2] \in Seq(Texts))
        BY <3>1, <4>1, ElementOfSeq
      <4>3. Len(out) = 2 => out[1] \o out[2] \in Seq(Texts)
        <5> DEFINE a == out[1]
                   b == out[2]
        <5> HIDE DEF a, b
        <5>1. a \in Seq(Texts) /\ b \in Seq(Texts) => a \o b \in Seq(Texts)
          BY ConcatProperties
        <5> QED BY <4>2, <5>1 DEF a, b
      <4> QED BY <3>3, <4>1, <4>2, <4>3 DEF TextOf
    <3> QED BY <3>2, <3>3
  <2>2. CASE after = "close"
    BY <1>2, <1>6, <2>1, <2>2 DEF AnswerInv, CurrentInv
  <2>3. CASE after # "close"
    <3>1. Headers200(c, got[c] \o t, after)
      BY <1>6, <2>3 DEF AnswerInv, CurrentInv
    <3>2. PICK x \in Seq(Texts) : (got[c] \o t) \o x \in Answers(c)
      <4> HIDE DEF t
      <4> QED BY <3>1, OwnAnswers
    <3>3. (got[c] \o t) \o x = got[c] \o (t \o x)
      BY <1>1, <2>1, TextsAssociate
    <3>4. t \o x \in Seq(Texts)
      <4> HIDE DEF t
      <4> QED BY <2>1, ConcatProperties
    <3> HIDE DEF t
    <3> QED BY <1>2, <3>2, <3>3, <3>4
  <2> QED BY <2>2, <2>3
<1>7. ASSUME NEW next, Headers200(c, got[c], next)
      PROVE  Begun(c)
  BY <1>2, <1>7, OwnAnswers
<1>8. CASE c \notin served \cup {rio.fd}
  BY <1>4, <1>8 DEF AnswerInv
<1>9. CASE c \in served
  BY <1>5, <1>9 DEF AnswerInv
<1>10. CASE c = rio.fd /\ pc # "write"
  <2>1. CurrentInv(c)
    BY <1>10 DEF AnswerInv
  <2>2. pc \in {"request", "headers", "stat", "open", "fork", "wait", "close", "exited"}
    BY <1>10, RioAssumption DEF Types, ServerTypes, Pcs
  <2>3. CASE pc \in {"open", "fork"}
    BY <1>7, <2>1, <2>3 DEF CurrentInv
  <2>4. CASE pc = "wait"
    BY <1>3, <1>7, <2>1, <2>4 DEF CurrentInv
  <2> QED BY <1>4, <1>5, <2>1, <2>2, <2>3, <2>4 DEF CurrentInv
<1> QED BY <1>6, <1>8, <1>9, <1>10

\* A complete answer stays one, while other connections go on.
LEMMA DoneStays ==
    ASSUME Types, FreshInv, AnswerInv, NEW c \in Conns, UNCHANGED asked, got'[c] = got[c],
           disk' = disk \/ \E f \in Files : FileGone(f), shut[c] => shut'[c], Done(c)
    PROVE  Done(c)'
BY AnswersGrow DEF Done

\* The answers while nothing of them changes.
LEMMA AnswerFrame ==
    ASSUME Types, FreshInv, AnswerInv,
           UNCHANGED <<got, out, asked, served, pc, uri, after, child, disk>>,
           rio'.fd = rio.fd, \A c \in Conns : shut[c] => shut'[c]
    PROVE  AnswerInv'
<1>1. \A c \in Conns : Answers(c) \subseteq Answers(c)' /\ RequestLine(c)' = RequestLine(c)
  BY AnswersGrow
<1>2. \A c \in Conns : Done(c) => Done(c)'
  BY <1>1 DEF Done
<1>3. \A c \in Conns : Begun(c) => Begun(c)'
  BY <1>1 DEF Begun
<1>4. \A c \in Conns : \A text, next : Headers200(c, text, next) => Headers200(c, text, next)'
  BY <1>1 DEF Headers200, Own
<1>5. ASSUME NEW c \in Conns, CurrentInv(c)
      PROVE  CurrentInv(c)'
  <2>1. Own(c) => Own(c)'
    BY <1>1 DEF Own
  <2>2. \A text, next : Headers200(c, text, next) => Headers200(c, text, next)'
    BY <1>4
  <2>3. Answers(c) \subseteq Answers(c)' /\ (Done(c) => Done(c)') /\ (Begun(c) => Begun(c)')
    BY <1>1, <1>2, <1>3
  <2>4. (pc = "write" => LET text == got[c] \o TextOf(out)
                       IN  IF after = "close" THEN text \in Answers(c)
                                              ELSE Headers200(c, text, after))'
    BY <1>5, <2>2, <2>3 DEF CurrentInv
  <2>5. (/\ pc \in {"open", "fork"} => Headers200(c, got[c], pc)
         /\ child = "running" => Headers200(c, got[c], "fork")
         /\ pc = "wait" => child = "running" \/ got[c] \in Answers(c))'
    BY <1>5, <2>2, <2>3 DEF CurrentInv
  <2> QED BY <1>5, <2>1, <2>3, <2>4, <2>5 DEF CurrentInv
<1>6. (\A c \in Conns : c \notin served \cup {rio.fd} => got[c] = <<>>)'
  BY DEF AnswerInv
<1>7. (\A c \in Conns : c = rio.fd => CurrentInv(c))'
  BY <1>5 DEF AnswerInv
<1>8. (\A c \in served : Done(c))'
  BY <1>2 DEF AnswerInv, Types, QueueInv
<1> QED BY <1>6, <1>7, <1>8 DEF AnswerInv

\* The types of the answers, and what the other clients have been sent.
AnswerTypes ==
    got \in [Conns -> Seq(Texts)] /\ out \in Seq(Seq(Texts)) /\ Len(out) <= 2

\* What doit writes in one step.
LEMMA PiecesTypes ==
    /\ \A s \in Texts : clienterror(s) \in Seq(Seq(Texts)) /\ Len(clienterror(s)) = 2
    /\ ServeStatic \in Seq(Seq(Texts)) /\ Len(ServeStatic) = 1
    /\ ServeDynamic \in Seq(Seq(Texts)) /\ Len(ServeDynamic) = 1
    /\ \A u \in Texts : <<<<"body", u>>>> \in Seq(Seq(Texts)) /\ Len(<<<<"body", u>>>>) = 1
<1>1. "200" \in Texts /\ "headers" \in Texts /\ "body" \in Texts /\ "page" \in Texts
  BY DEF Texts
<1>2. \A s, t \in Texts : <<s, t>> \in Seq(Texts) /\ <<s>> \in Seq(Texts)
  OBVIOUS
<1>3. \A p, q \in Seq(Texts) : /\ <<p, q>> \in Seq(Seq(Texts)) /\ Len(<<p, q>>) = 2
                               /\ <<p>> \in Seq(Seq(Texts)) /\ Len(<<p>>) = 1
  OBVIOUS
<1> QED BY <1>1, <1>2, <1>3 DEF clienterror, ServeStatic, ServeDynamic

\* doit writes the answer that the request and the file call for.
LEMMA RequestAnswered ==
    ASSUME Types, FreshInv, AnswerInv, DoRequest, NEW c \in Conns, c = rio.fd
    PROVE  AnswerTypes' /\ CurrentInv(c)'
<1>1. /\ pc = "request" /\ ~reading /\ UNCHANGED <<shut, asked, child, got, rio, disk>>
      /\ got[c] = <<>> /\ child = "none"
  BY DEF DoRequest, At, Call, rioVars, readVars, clientVars, AnswerInv, CurrentInv, Types, ServerTypes
<1>2. IF line = <<>> THEN shut[c] ELSE line = RequestLine(c)
  BY <1>1 DEF FreshInv
<1>3. RequestLine(c)' = RequestLine(c) /\ Answers(c)' = Answers(c)
  BY <1>1 DEF RequestLine, Answers, GetAnswers
<1>4. PICK m \in MethodsIn(line), u \in UrisIn(line) :
          \/ line = <<>> /\ pc' = "close" /\ out' = out
          \/ line # <<>> /\ m # GET /\ pc' = "write" /\ after' = "close" /\ out' = clienterror("501")
          \/ line # <<>> /\ m = GET /\ pc' = "headers" /\ uri' = u /\ out' = out
  BY DEF DoRequest, Answer, GoTo
<1>5. CASE line = <<>> /\ pc' = "close" /\ out' = out
  BY <1>1, <1>2, <1>5 DEF AnswerInv, AnswerTypes, CurrentInv, Done
<1>6. CASE line # <<>> /\ m # GET /\ pc' = "write" /\ after' = "close" /\ out' = clienterror("501")
  <2>1. "501" \in Texts
    BY DEF Texts
  <2>2. Page("501") \in Answers(c)
    BY <1>2, <1>4, <1>6 DEF Answers
  <2>3. got'[c] \o TextOf(out') = Page("501")
    BY <1>1, <1>6, <2>1, TextsOfAnswers
  <2>4. (pc = "write" => LET text == got[c] \o TextOf(out)
                        IN  IF after = "close" THEN text \in Answers(c)
                                               ELSE Headers200(c, text, after))'
    BY <1>3, <1>6, <2>2, <2>3
  <2>5. AnswerTypes'
    <3>1. out' \in Seq(Seq(Texts)) /\ Len(out') = 2
      BY <1>6, <2>1, PiecesTypes
    <3> QED BY <1>1, <3>1 DEF AnswerInv, AnswerTypes
  <2> QED BY <1>1, <1>6, <2>4, <2>5 DEF CurrentInv
<1>7. CASE line # <<>> /\ m = GET /\ pc' = "headers" /\ uri' = u /\ out' = out
  <2>1. Own(c)'
    BY <1>2, <1>3, <1>4, <1>7 DEF Own
  <2> QED BY <1>1, <1>7, <2>1 DEF AnswerInv, AnswerTypes, CurrentInv
<1> QED BY <1>4, <1>5, <1>6, <1>7

\* After stat the answer is an error, or begins with the headers.
LEMMA StatAnswered ==
    ASSUME Types, FreshInv, AnswerInv, Stat, NEW c \in Conns, c = rio.fd
    PROVE  AnswerTypes' /\ CurrentInv(c)'
<1> DEFINE kind == disk[File(uri)]
<1>1. /\ pc = "stat" /\ pc' = "write" /\ UNCHANGED <<shut, asked, child, got, rio, disk, uri>>
      /\ got[c] = <<>> /\ child = "none" /\ Own(c)
  BY DEF Stat, At, Answer, GoTo, rioVars, readVars, clientVars, AnswerInv, CurrentInv, Types, ServerTypes
<1>2. \/ kind = "none" /\ out' = clienterror("404") /\ after' = "close"
      \/ kind = "unreadable" /\ out' = clienterror("403") /\ after' = "close"
      \/ kind # "unreadable" /\ Static(uri) /\ out' = ServeStatic /\ after' = "open"
      \/ kind # "unreadable" /\ ~Static(uri) /\ out' = ServeDynamic /\ after' = "fork"
  BY DEF Stat, Answer, GoTo
<1>3. RequestLine(c)' = RequestLine(c) /\ Answers(c)' = Answers(c)
  BY <1>1 DEF RequestLine, Answers, GetAnswers
<1>4. ASSUME NEW s \in Texts, out' = clienterror(s), after' = "close", Page(s) \in Answers(c)
      PROVE  AnswerTypes' /\ CurrentInv(c)'
  <2>1. got'[c] \o TextOf(out') = Page(s)
    BY <1>1, <1>4, TextsOfAnswers
  <2>2. (pc = "write" => LET text == got[c] \o TextOf(out)
                        IN  IF after = "close" THEN text \in Answers(c)
                                               ELSE Headers200(c, text, after))'
    BY <1>3, <1>4, <2>1
  <2>3. AnswerTypes'
    <3>1. out' \in Seq(Seq(Texts)) /\ Len(out') = 2
      BY <1>4, PiecesTypes
    <3> QED BY <1>1, <3>1 DEF AnswerInv, AnswerTypes
  <2> QED BY <1>1, <2>2, <2>3 DEF CurrentInv
<1>5. ASSUME kind # "unreadable", after' = "open" \/ after' = "fork", Static(uri) <=> after' = "open",
             out' = <<<<"200", "headers">>>>
      PROVE  AnswerTypes' /\ CurrentInv(c)'
  <2>1. got'[c] \o TextOf(out') = <<"200", "headers">>
    BY <1>1, <1>5, TextsOfAnswers
  <2>2. Own(c)'
    BY <1>1, <1>3 DEF Own
  <2>3. Headers200(c, got[c] \o TextOf(out), after)'
    BY <1>1, <1>5, <2>1, <2>2 DEF Headers200
  <2>4. AnswerTypes'
    BY <1>1, <1>5, PiecesTypes DEF AnswerInv, AnswerTypes, ServeStatic
  <2> QED BY <1>1, <1>5, <2>3, <2>4 DEF CurrentInv
<1>6. File(uri) \in Files /\ GetAnswers(c, uri) \subseteq Answers(c)
  BY <1>1, UrisOfRequest DEF Own, Answers
<1>7. kind = "none" => Page("404") \in GetAnswers(c, uri)
  BY WhenHolds DEF GetAnswers
<1>8. kind = "unreadable" => Page("403") \in GetAnswers(c, uri)
  BY WhenHolds DEF GetAnswers
<1>9. "403" \in Texts /\ "404" \in Texts
  BY DEF Texts
<1> HIDE DEF kind
<1> QED BY <1>2, <1>4, <1>5, <1>6, <1>7, <1>8, <1>9 DEF ServeStatic, ServeDynamic

\* Rio_writen goes on with what is to be written.
LEMMA WriteAnswers ==
    ASSUME Types, FreshInv, AnswerInv, Write, NEW c \in Conns, c = rio.fd
    PROVE  /\ AnswerTypes' /\ CurrentInv(c)'
           /\ \A d \in Conns \ {c} : got'[d] = got[d]
<1>1. /\ pc = "write" /\ UNCHANGED <<shut, asked, child, uri, after, rio, disk>> /\ child = "none"
  BY DEF Write, At, rioVars, readVars, clientVars, Types, ServerTypes
<1>2. RequestLine(c)' = RequestLine(c) /\ Answers(c)' = Answers(c)
  BY <1>1 DEF RequestLine, Answers, GetAnswers
<1>3. /\ got \in [Conns -> Seq(Texts)] /\ out \in Seq(Seq(Texts)) /\ Len(out) <= 2
      /\ IF after = "close" THEN got[c] \o TextOf(out) \in Answers(c)
                            ELSE Headers200(c, got[c] \o TextOf(out), after)
  BY <1>1 DEF AnswerInv, CurrentInv
<1>4. CASE out = <<>>
  <2>1. pc' = after /\ UNCHANGED <<out, got>>
    BY <1>4 DEF Write, GoTo, rioVars
  <2>2. got[c] \o TextOf(out) = got[c]
    BY <1>3, <1>4, ConcatEmptySeq DEF TextOf
  <2>3. IF after = "close" THEN got[c] \in Answers(c) ELSE Headers200(c, got[c], after)
    BY <1>3, <2>2
  <2>4. after \in {"close", "open", "fork"}
    BY <1>1 DEF Types, ServerTypes
  <2>5. ASSUME after = "close"
        PROVE  CurrentInv(c)'
    <3>1. Done(c)'
      BY <1>2, <2>1, <2>3, <2>5 DEF Done
    <3>2. pc' = "close" /\ child' = "none"
      BY <1>1, <2>1, <2>5
    <3> QED BY <3>1, <3>2 DEF CurrentInv
  <2>6. ASSUME after # "close"
        PROVE  CurrentInv(c)'
    <3>1. (Headers200(c, got[c], pc))'
      BY <1>1, <1>2, <2>1, <2>3, <2>6 DEF Headers200, Own
    <3>2. pc' \in {"open", "fork"} /\ child' = "none"
      BY <1>1, <2>1, <2>4, <2>6
    <3> QED BY <3>1, <3>2 DEF CurrentInv
  <2> QED BY <1>3, <2>1, <2>5, <2>6 DEF AnswerTypes
<1>5. ASSUME out # <<>>, NEW k \in 1 .. Len(Head(out)), NEW left, left = Left(Head(out), k),
             Written(rio.fd, Head(out), k), pc' = pc,
             out' = IF left = <<>> THEN Tail(out) ELSE <<left>> \o Tail(out)
      PROVE  /\ AnswerTypes' /\ CurrentInv(c)'
             /\ \A d \in Conns \ {c} : got'[d] = got[d]
  <2> DEFINE new == got[c] \o SubSeq(Head(out), 1, k)
  <2>1. /\ new \in Seq(Texts) /\ out' \in Seq(Seq(Texts)) /\ Len(out') <= 2
        /\ new \o TextOf(out') = got[c] \o TextOf(out)
    <3>1. got[c] \in Seq(Texts)
      BY <1>3
    <3> QED BY <1>3, <1>5, <3>1, WritesOn
  <2>2. got' = [got EXCEPT ![c] = new]
    BY <1>5 DEF Written
  <2> HIDE DEF new
  <2>3. got'[c] = new /\ \A d \in Conns \ {c} : got'[d] = got[d]
    BY <1>3, <2>2
  <2>4. AnswerTypes'
    BY <1>3, <2>1, <2>2 DEF AnswerTypes
  <2>5. got'[c] \o TextOf(out') = got[c] \o TextOf(out)
    BY <2>1, <2>3
  <2>6. \A text, next : Headers200(c, text, next) => Headers200(c, text, next)'
    BY <1>1, <1>2 DEF Headers200, Own
  <2>7. (pc = "write" => LET text == got[c] \o TextOf(out)
                        IN  IF after = "close" THEN text \in Answers(c)
                                               ELSE Headers200(c, text, after))'
    BY <1>1, <1>2, <1>3, <2>5, <2>6
  <2>8. CurrentInv(c)'
    BY <1>1, <1>5, <2>7 DEF CurrentInv
  <2> QED BY <2>3, <2>4, <2>8
<1>6. out # <<>> => \E k \in 1 .. Len(Head(out)) :
          LET left == Left(Head(out), k)
          IN  /\ Written(rio.fd, Head(out), k) /\ pc' = pc
              /\ out' = IF left = <<>> THEN Tail(out) ELSE <<left>> \o Tail(out)
  BY DEF Write
<1> QED BY <1>4, <1>5, <1>6

\* The child sends its answer, or none, and dies.
LEMMA ChildAnswers ==
    ASSUME Types, FreshInv, AnswerInv, ChildRuns, NEW c \in Conns, c = rio.fd
    PROVE  /\ AnswerTypes' /\ CurrentInv(c)'
           /\ \A d \in Conns \ {c} : got'[d] = got[d]
<1>1. /\ child = "running" /\ child' = "dead" /\ UNCHANGED <<shut, asked, pc, uri, out, rio, disk>>
      /\ pc \in {"wait", "exited"}
  BY DEF ChildRuns, readVars, clientVars, Types, ServerTypes
<1>2. RequestLine(c)' = RequestLine(c) /\ Answers(c)' = Answers(c)
  BY <1>1 DEF RequestLine, Answers, GetAnswers
<1>3. Headers200(c, got[c], "fork") /\ AnswerTypes
  BY <1>1 DEF AnswerInv, CurrentInv, AnswerTypes
<1>4. /\ HasAmp(uri) => got[c] \o <<"sum", uri>> \in Answers(c)
      /\ disk[File(uri)] # "data" => got[c] \o <<Log>> \in Answers(c)
      /\ ~HasAmp(uri) \/ disk[File(uri)] # "data" \/ shut[c] => got[c] \in Answers(c)
  <2>1. "fork" # "open"
    OBVIOUS
  <2> QED BY <1>3, <2>1, OwnAnswers
<1>5. got[c] \o <<"sum", uri>> \in Seq(Texts) /\ got[c] \o <<Log>> \in Seq(Texts) /\ got[c] \in Seq(Texts)
  <2>1. "sum" \in Texts /\ Log \in Texts /\ got[c] \in Seq(Texts)
    BY <1>3 DEF Texts, AnswerTypes
  <2>2. uri \in Texts
    BY UrisOfRequest DEF Types, ServerTypes
  <2>3. <<"sum", uri>> \in Seq(Texts) /\ <<Log>> \in Seq(Texts)
    BY <2>1, <2>2
  <2> QED BY <2>1, <2>3, ConcatProperties
<1>6. /\ AnswerTypes' /\ got'[c] \in Answers(c) /\ got'[c] \in Seq(Texts)
      /\ \A d \in Conns \ {c} : got'[d] = got[d]
  <2>1. ASSUME NEW new, new \in Seq(Texts), new \in Answers(c), got' = [got EXCEPT ![c] = new]
        PROVE  /\ AnswerTypes' /\ got'[c] \in Answers(c) /\ got'[c] \in Seq(Texts)
               /\ \A d \in Conns \ {c} : got'[d] = got[d]
    BY <1>1, <1>3, <2>1 DEF AnswerTypes
  <2>2. CASE HasAmp(uri) /\ got' = [got EXCEPT ![c] = got[c] \o <<"sum", uri>>]
    BY <1>4, <1>5, <2>1, <2>2
  <2>3. CASE disk[File(uri)] # "data" /\ got' = [got EXCEPT ![c] = got[c] \o <<Log>>]
    BY <1>4, <1>5, <2>1, <2>3
  <2>4. CASE (disk[File(uri)] # "data" \/ ~HasAmp(uri) \/ shut[c]) /\ got' = got
    BY <1>1, <1>3, <1>4, <1>5, <2>4 DEF AnswerTypes
  <2> QED BY <2>2, <2>3, <2>4 DEF ChildRuns
<1>7. Begun(c)'
  <2> DEFINE g == got'[c]
  <2>1. g \in Seq(Texts) /\ g \in Answers(c)'
    BY <1>2, <1>6
  <2> HIDE DEF g
  <2>2. Len(g) \in Nat /\ SubSeq(g, 1, Len(g)) = g
    BY <2>1, LenProperties, SubSeqFull
  <2>3. \E a \in Answers(c)' : Len(g) <= Len(a) /\ SubSeq(a, 1, Len(g)) = g
    BY <2>1, <2>2
  <2> QED BY <2>3 DEF Begun, g
<1>8. CurrentInv(c)'
  <2>1. pc' \in {"wait", "exited"} /\ child' = "dead"
    BY <1>1
  <2>2. (pc = "wait" => child = "running" \/ got[c] \in Answers(c))'
    BY <1>2, <1>6
  <2> QED BY <1>7, <2>1, <2>2 DEF CurrentInv
<1> QED BY <1>6, <1>8

\* The steps that send nothing.
LEMMA SilentAnswers ==
    ASSUME Types, FreshInv, AnswerInv, ReadHeaders \/ OpenFile \/ Fork \/ Wait \/ Exit,
           NEW c \in Conns, c = rio.fd
    PROVE  AnswerTypes' /\ CurrentInv(c)'
<1>1. UNCHANGED <<shut, asked, got, rio, disk, uri>>
  BY DEF ReadHeaders, OpenFile, Fork, Wait, Exit, Call, rioVars, readVars, clientVars
<1>2. RequestLine(c)' = RequestLine(c) /\ Answers(c)' = Answers(c)
  BY <1>1 DEF RequestLine, Answers, GetAnswers
<1>3. \A text, next : Headers200(c, text, next) => Headers200(c, text, next)'
  BY <1>1, <1>2 DEF Headers200, Own
<1>4. /\ (Own(c) => Own(c)') /\ (Done(c) => Done(c)') /\ (Begun(c) => Begun(c)')
      /\ CurrentInv(c) /\ AnswerTypes
  BY <1>1, <1>2 DEF Own, Done, Begun, AnswerInv, AnswerTypes
<1>5. CASE ReadHeaders
  <2>1. /\ pc = "headers" /\ pc' \in {"headers", "stat"} /\ child = "none" /\ child' = "none"
        /\ out' = out
    BY <1>5 DEF ReadHeaders, At, GoTo, Types, ServerTypes
  <2> QED BY <1>1, <1>4, <2>1 DEF CurrentInv, AnswerTypes
<1>6. CASE OpenFile
  <2>1. pc = "open" /\ child = "none" /\ child' = "none" /\ Headers200(c, got[c], "open")
    BY <1>4, <1>6 DEF OpenFile, At, Types, ServerTypes, CurrentInv
  <2>2. CASE out' = <<<<"body", uri>>>> /\ after' = "close" /\ pc' = "write"
    <3>1. got'[c] \o TextOf(out') \in Answers(c)
      <4>1. TextOf(out') = <<"body", uri>>
        BY <2>2, TextsOfAnswers
      <4>2. got[c] \o <<"body", uri>> \in Answers(c)
        BY <2>1, OwnAnswers
      <4> QED BY <1>1, <4>1, <4>2
    <3>2. (pc = "write" => LET text == got[c] \o TextOf(out)
                          IN  IF after = "close" THEN text \in Answers(c)
                                                 ELSE Headers200(c, text, after))'
      BY <1>2, <2>2, <3>1
    <3>3. AnswerTypes'
      <4>1. uri \in Texts
        BY UrisOfRequest DEF Types, ServerTypes
      <4>2. out' \in Seq(Seq(Texts)) /\ Len(out') = 1
        BY <2>2, <4>1, PiecesTypes
      <4> QED BY <1>1, <1>4, <4>2 DEF AnswerTypes
    <3> QED BY <2>1, <2>2, <3>2, <3>3 DEF CurrentInv
  <2>3. CASE pc' = "exited" /\ out' = out
    BY <1>1, <1>4, <2>1, <2>3, EveryoneBegun DEF CurrentInv, AnswerTypes
  <2> QED BY <1>6, <2>2, <2>3 DEF OpenFile, Answer, GoTo
<1>7. CASE Fork
  <2>1. /\ pc = "fork" /\ pc' = "wait" /\ child' = "running" /\ out' = out
        /\ Headers200(c, got[c], "fork")
    BY <1>4, <1>7 DEF Fork, At, GoTo, CurrentInv
  <2>2. (Headers200(c, got[c], "fork"))'
    BY <1>1, <1>3, <2>1
  <2> QED BY <1>1, <1>4, <2>1, <2>2 DEF CurrentInv, AnswerTypes
<1>8. CASE Wait
  <2>1. /\ pc = "wait" /\ pc' = "close" /\ child = "dead" /\ child' = "none" /\ out' = out
    BY <1>8 DEF Wait, At, GoTo
  <2>2. Done(c)
    BY <1>4, <2>1 DEF CurrentInv, Done
  <2> QED BY <1>1, <1>4, <2>1, <2>2 DEF CurrentInv, AnswerTypes
<1>9. CASE Exit
  <2>1. pc' = "exited" /\ UNCHANGED <<child, out>>
    BY <1>9 DEF Exit, GoTo
  <2>2. (child = "running" => Headers200(c, got[c], "fork"))'
    BY <1>1, <1>3, <1>4, <2>1 DEF CurrentInv
  <2>3. Begun(c)'
    BY <1>4, EveryoneBegun
  <2> QED BY <1>1, <1>4, <2>1, <2>2, <2>3 DEF CurrentInv, AnswerTypes
<1> QED BY <1>5, <1>6, <1>7, <1>8, <1>9

\* A file that goes away leaves what has been answered.
LEMMA FileGoneAnswers ==
    ASSUME Types, FreshInv, AnswerInv, NEW f \in Files, FileGone(f), NEW c \in Conns, c = rio.fd
    PROVE  AnswerTypes' /\ CurrentInv(c)'
<1>1. /\ disk[f] = "data" /\ disk' = [disk EXCEPT ![f] = "none"]
      /\ UNCHANGED <<shut, asked, got, rio, uri, pc, after, out, child>>
  BY DEF FileGone, rioVars, readVars, clientVars, serverVars
<1>2. RequestLine(c)' = RequestLine(c) /\ Answers(c) \subseteq Answers(c)'
  BY <1>1, AnswersGrow
<1>3. File(uri) \in Files
  BY UrisOfRequest DEF Types, ServerTypes
<1>4. disk[File(uri)] # "unreadable" => disk'[File(uri)] # "unreadable"
  BY <1>1, <1>3 DEF Types, ServerTypes
<1>5. \A text, next : Headers200(c, text, next) => Headers200(c, text, next)'
  BY <1>1, <1>2, <1>4 DEF Headers200, Own
<1>6. /\ (Own(c) => Own(c)') /\ (Done(c) => Done(c)') /\ (Begun(c) => Begun(c)')
      /\ CurrentInv(c) /\ AnswerTypes
  BY <1>1, <1>2 DEF Own, Done, Begun, AnswerInv, AnswerTypes
<1>7. (pc = "write" => LET text == got[c] \o TextOf(out)
                      IN  IF after = "close" THEN text \in Answers(c)
                                             ELSE Headers200(c, text, after))'
  BY <1>1, <1>2, <1>5, <1>6 DEF CurrentInv
<1>8. (/\ pc \in {"open", "fork"} => Headers200(c, got[c], pc)
       /\ child = "running" => Headers200(c, got[c], "fork")
       /\ pc = "wait" => child = "running" \/ got[c] \in Answers(c))'
  BY <1>1, <1>2, <1>5, <1>6 DEF CurrentInv
<1> QED BY <1>1, <1>6, <1>7, <1>8 DEF CurrentInv, AnswerTypes

\* Every step keeps the answers.
LEMMA AnswersKept ==
    ASSUME Types, FreshInv, AnswerInv, [Next]_vars
    PROVE  AnswerInv'
<1>1. ASSUME NEW c \in Conns, Connect(c)
      PROVE  AnswerInv'
  <2>1. UNCHANGED <<got, out, asked, served, pc, uri, after, child, disk, rio, shut>>
    BY <1>1 DEF Connect, rioVars, readVars, serverVars
  <2> QED BY <2>1, AnswerFrame
<1>2. ASSUME NEW c \in Conns, ClientSends(c)
      PROVE  AnswerInv'
  <2>1. UNCHANGED <<got, out, asked, served, pc, uri, after, child, disk, rio, shut>>
    BY <1>2 DEF ClientSends, readVars, serverVars
  <2> QED BY <2>1, AnswerFrame
<1>3. ASSUME NEW c \in Conns, ClientCloses(c)
      PROVE  AnswerInv'
  <2>1. UNCHANGED <<got, out, asked, served, pc, uri, after, child, disk, rio>> /\ shut' = [shut EXCEPT ![c] = TRUE]
    BY <1>3 DEF ClientCloses, readVars, clientVars, serverVars
  <2>2. \A d \in Conns : shut[d] => shut'[d]
    BY <2>1 DEF Types, WireTypes
  <2> QED BY <2>1, <2>2, AnswerFrame
<1>4. ASSUME NEW f \in Conns, f = rio.fd, ReaderStep, pc # "exited", UNCHANGED <<clientVars, serverVars, disk>>
      PROVE  AnswerInv'
  <2>1. rio'.fd = rio.fd /\ UNCHANGED <<got, out, asked, served, pc, uri, after, child, disk, shut>>
    BY <1>4, ReaderFrame
  <2> QED BY <2>1, AnswerFrame
<1>5. ASSUME QuietStep, AnswerTypes',
             \A c \in Conns : c = rio.fd => CurrentInv(c)',
             \A d \in Conns : d # rio.fd => got'[d] = got[d],
             disk' = disk \/ \E f \in Files : FileGone(f)
      PROVE  AnswerInv'
  <2>1. UNCHANGED <<shut, rio, asked, served>>
    BY <1>5, QuietFrame
  <2>2. \A c \in served : Done(c)'
    <3>1. ASSUME NEW c \in served
          PROVE  Done(c)'
      <4>1. c \in Conns /\ c # rio.fd /\ Done(c)
        BY DEF Types, QueueInv, AnswerInv
      <4> QED BY <1>5, <2>1, <4>1, DoneStays
    <3> QED BY <3>1
  <2>3. \A c \in Conns : c \notin served' \cup {rio'.fd} => got'[c] = <<>>
    BY <1>5, <2>1 DEF AnswerInv
  <2>4. \A c \in served' : Done(c)'
    BY <2>1, <2>2
  <2>5. \A c \in Conns : c = rio'.fd => CurrentInv(c)'
    BY <1>5, <2>1
  <2> QED BY <1>5, <2>3, <2>4, <2>5 DEF AnswerInv, AnswerTypes
<1>6. CASE QuietStep
  <2>1. disk' = disk \/ \E f \in Files : FileGone(f)
    BY <1>6, QuietFrame
  <2>2. CASE \E f \in Files : FileGone(f)
    <3>1. AnswerTypes' /\ UNCHANGED got
      BY <2>2 DEF FileGone, rioVars, serverVars, AnswerInv, AnswerTypes
    <3>2. \A c \in Conns : c = rio.fd => CurrentInv(c)'
      BY <2>2, FileGoneAnswers
    <3> QED BY <1>5, <1>6, <2>2, <3>1, <3>2
  <2>3. CASE Write \/ ChildRuns
    <3>1. rio.fd \in Conns
      BY <2>3 DEF Write, At, ChildRuns, Types, ServerTypes
    <3>2. \A c \in Conns : c = rio.fd =>
            AnswerTypes' /\ CurrentInv(c)' /\ \A d \in Conns \ {c} : got'[d] = got[d]
      BY <2>3, WriteAnswers, ChildAnswers
    <3> QED BY <1>5, <1>6, <2>1, <3>1, <3>2
  <2>4. CASE DoRequest \/ Stat \/ ReadHeaders \/ OpenFile \/ Fork \/ Wait \/ (Exit /\ rio.fd \in Conns)
    <3>1. rio.fd \in Conns
      BY <2>4 DEF DoRequest, Stat, ReadHeaders, OpenFile, Fork, Wait, At, Types, ServerTypes
    <3>2. \A c \in Conns : c = rio.fd => AnswerTypes' /\ CurrentInv(c)'
      BY <2>4, RequestAnswered, StatAnswered, SilentAnswers
    <3>3. got' = got
      BY <2>4 DEF DoRequest, Stat, ReadHeaders, OpenFile, Fork, Wait, Exit, Call, rioVars
    <3> QED BY <1>5, <1>6, <2>1, <3>1, <3>2, <3>3
  <2>5. CASE Exit /\ rio.fd \notin Conns
    <3>1. UNCHANGED <<got, out>>
      BY <2>5 DEF Exit, rioVars
    <3> QED BY <1>5, <1>6, <2>1, <2>5, <3>1 DEF AnswerInv, AnswerTypes
  <2> QED BY <1>6, <2>2, <2>3, <2>4, <2>5 DEF QuietStep
<1>7. CASE Accept
  <2>1. Head(queue) \in Conns /\ queue # <<>> /\ rio'.fd = Head(queue)
    BY <1>7, AcceptsConn
  <2>2. /\ pc = "accept" /\ pc' = "request" /\ rio.fd = NoConn /\ child = "none"
        /\ UNCHANGED <<shut, got, asked, out, child, served, disk>>
    BY <1>7 DEF Accept, At, GoTo, Types, ServerTypes
  <2>3. Head(queue) \notin served
    <3>1. queue \in Seq(Conns) /\ Len(queue) \in Nat /\ queue[1] = Head(queue)
      BY LenProperties DEF Types, QueueInv
    <3>2. 1 \in 1 .. Len(queue)
      BY <2>1, <3>1, EmptySeq
    <3> QED BY <3>1, <3>2 DEF Types, QueueInv
  <2>4. got[Head(queue)] = <<>>
    BY <2>1, <2>2, <2>3, RioAssumption DEF AnswerInv
  <2>5. \A c \in Conns : c = rio'.fd => CurrentInv(c)'
    BY <2>1, <2>2, <2>4 DEF CurrentInv
  <2>6. \A c \in served' : Done(c)'
    BY <2>2, DoneStays DEF AnswerInv, Types, QueueInv
  <2>7. \A c \in Conns : c \notin served' \cup {rio'.fd} => got'[c] = <<>>
    BY <2>2, RioAssumption DEF AnswerInv
  <2> QED BY <2>2, <2>5, <2>6, <2>7 DEF AnswerInv
<1>8. CASE CloseConn
  <2>1. rio.fd \in Conns /\ rio'.fd = NoConn
    BY <1>8, ClosesConn
  <2>2. pc = "close" /\ UNCHANGED <<shut, got, asked, out, disk>> /\ served' = served \cup {rio.fd}
    BY <1>8 DEF CloseConn, At, clientVars
  <2>3. \A c \in served' : Done(c) /\ c \in Conns
    BY <2>1, <2>2 DEF AnswerInv, CurrentInv, Types, QueueInv
  <2>4. \A c \in served' : Done(c)'
    BY <2>2, <2>3, DoneStays
  <2>5. \A c \in Conns : c = rio'.fd => CurrentInv(c)'
    BY <2>1, RioAssumption
  <2>6. \A c \in Conns : c \notin served' \cup {rio'.fd} => got'[c] = <<>>
    BY <2>2 DEF AnswerInv
  <2> QED BY <2>2, <2>4, <2>5, <2>6 DEF AnswerInv
<1>9. CASE UNCHANGED vars
  <2>1. UNCHANGED <<got, out, asked, served, pc, uri, after, child, disk, rio, shut>>
    BY <1>9 DEF vars, rioVars, readVars, clientVars, serverVars
  <2> QED BY <2>1, AnswerFrame
<1> QED BY <1>1, <1>2, <1>3, <1>4, <1>6, <1>7, <1>8, <1>9, StepCases, ReaderServes

\* Whatever is left in the buffers from the connection before, and whatever files go away,
\* each client is sent the answer to its own request line, in order, once, and all of it
\* before the server closes the connection (tiny.c:50-95); when the CGI program has gone, what
\* follows the headers is nothing, or the server's log.
THEOREM EachClientItsAnswer == Spec => []AnswersOwnRequest
<1>1. TinyInit => AnswerInv
  <2> SUFFICES ASSUME TinyInit PROVE AnswerInv
    OBVIOUS
  <2>1. got = [c \in Conns |-> <<>>] /\ out = <<>> /\ served = {} /\ rio.fd = NoConn
    BY DEF TinyInit, RioInit
  <2>2. <<>> \in Seq(Texts) /\ <<>> \in Seq(Seq(Texts)) /\ Len(<<>>) = 0
    BY EmptySeq
  <2> QED BY <2>1, <2>2, RioAssumption DEF AnswerInv
<1>2. (Types /\ FreshInv) /\ AnswerInv /\ [Next]_vars => AnswerInv'
  BY AnswersKept
<1>3. Types /\ FreshInv /\ AnswerInv => AnswersOwnRequest
  <2> SUFFICES ASSUME Types, FreshInv, AnswerInv PROVE AnswersOwnRequest
    OBVIOUS
  <2> QED BY EveryoneBegun DEF AnswersOwnRequest, AnswerInv, Begun, Done
<1> QED BY <1>1, <1>2, <1>3, FreshInvariant, PTL DEF Spec
=============================================================================
