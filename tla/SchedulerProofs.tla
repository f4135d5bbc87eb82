-------------------------- MODULE SchedulerProofs --------------------------
(***************************************************************************)
(* Proofs about Scheduler, for any number of processes: that the printed   *)
(* times add up, that no burst is overrun and no I/O ends much too late,   *)
(* whichever the algorithm; and except under "block" that the ready        *)
(* queue's pointers are a sequence, from which nobody is lost.  Under      *)
(* "block" pauseQue makes the pointers come apart; what is left of the     *)
(* queue then is part of the invariant (Slipped, Stuck).                   *)
(***************************************************************************)
EXTENDS Scheduler, Extrema, SequenceTheorems

-----------------------------------------------------------------------------
(* Sequences. *)

\* A sequence without one of its elements.
LEMMA Removed ==
    ASSUME NEW S, NEW s \in Seq(S), NEW k \in 1 .. Len(s)
    PROVE  /\ RemoveAt(s, k) \in Seq(S) /\ Len(RemoveAt(s, k)) = Len(s) - 1
           /\ \A j \in 1 .. Len(s) - 1 :
                 RemoveAt(s, k)[j] = IF j < k THEN s[j] ELSE s[j + 1]
<1> DEFINE a == SubSeq(s, 1, k - 1)
           b == SubSeq(s, k + 1, Len(s))
<1>0. Len(s) \in Nat /\ k \in Nat /\ k >= 1 /\ k <= Len(s)
  BY LenProperties
<1>1. /\ a \in Seq(S) /\ Len(a) = k - 1 /\ \A j \in 1 .. k - 1 : a[j] = s[j]
      /\ b \in Seq(S) /\ Len(b) = Len(s) - k /\ \A j \in 1 .. Len(s) - k : b[j] = s[j + k]
  BY <1>0
<1> HIDE DEF a, b
<1>2. /\ a \o b \in Seq(S) /\ Len(a \o b) = Len(a) + Len(b)
      /\ \A j \in 1 .. Len(a) + Len(b) :
            (a \o b)[j] = IF j <= Len(a) THEN a[j] ELSE b[j - Len(a)]
  BY <1>1, ConcatProperties
<1>3. RemoveAt(s, k) = a \o b
  BY DEF RemoveAt, a, b
<1>4. \A j \in 1 .. Len(s) - 1 : (a \o b)[j] = IF j < k THEN s[j] ELSE s[j + 1]
  <2> SUFFICES ASSUME NEW j \in 1 .. Len(s) - 1
               PROVE  (a \o b)[j] = IF j < k THEN s[j] ELSE s[j + 1]
    OBVIOUS
  <2>1. (a \o b)[j] = IF j <= k - 1 THEN a[j] ELSE b[j - (k - 1)]
    BY <1>0, <1>1, <1>2
  <2>2. CASE j < k
    BY <1>0, <1>1, <2>1, <2>2
  <2>3. CASE ~(j < k)
    <3>1. j - (k - 1) \in 1 .. Len(s) - k /\ (j - (k - 1)) + k = j + 1
      BY <1>0, <2>3
    <3>2. b[j - (k - 1)] = s[j + 1]
      BY <1>1, <3>1
    <3> QED BY <1>0, <2>1, <2>3, <3>2
  <2> QED BY <2>2, <2>3
<1>5. a \o b \in Seq(S) /\ Len(a \o b) = Len(s) - 1
  BY <1>0, <1>1, <1>2
<1> QED BY <1>3, <1>4, <1>5

\* No element occurs twice.
Once(s) == \A j, k \in 1 .. Len(s) : s[j] = s[k] => j = k
In(p, s) == \E k \in 1 .. Len(s) : s[k] = p

LEMMA RemovedOnce ==
    ASSUME NEW S, NEW s \in Seq(S), Once(s), NEW k \in 1 .. Len(s)
    PROVE  /\ Once(RemoveAt(s, k))
           /\ \A p : In(p, RemoveAt(s, k)) <=> In(p, s) /\ p # s[k]
<1>1. PICK r, m, n : r = RemoveAt(s, k) /\ m = Len(r) /\ n = Len(s)
  OBVIOUS
<1>2. /\ n \in Nat /\ m = n - 1 /\ k \in 1 .. n
      /\ \A j \in 1 .. n - 1 : r[j] = IF j < k THEN s[j] ELSE s[j + 1]
  BY <1>1, Removed, LenProperties
<1>3. \A j \in 1 .. n - 1 : /\ j \in 1 .. n /\ j + 1 \in 1 .. n
                            /\ j < k => j # k
                            /\ ~(j < k) => j + 1 # k
  BY <1>2
<1>4. \A j, l \in 1 .. n : s[j] = s[l] => j = l
  BY <1>1 DEF Once
<1>5. \A j, l \in 1 .. m : r[j] = r[l] => j = l
  <2> SUFFICES ASSUME NEW j \in 1 .. m, NEW l \in 1 .. m, r[j] = r[l]
               PROVE  j = l
    OBVIOUS
  <2> DEFINE a == IF j < k THEN j ELSE j + 1
             b == IF l < k THEN l ELSE l + 1
  <2>1. a \in 1 .. n /\ b \in 1 .. n /\ r[j] = s[a] /\ r[l] = s[b]
    BY <1>2
  <2>2. a = b
    BY <1>4, <2>1
  <2> QED BY <1>2, <2>2
<1>6. ASSUME NEW p
      PROVE  (\E j \in 1 .. m : r[j] = p) <=> (\E j \in 1 .. n : s[j] = p) /\ p # s[k]
  <2>1. ASSUME NEW j \in 1 .. m, r[j] = p
        PROVE  (\E l \in 1 .. n : s[l] = p) /\ p # s[k]
    BY <1>2, <1>3, <1>4, <2>1
  <2>2. ASSUME NEW j \in 1 .. n, s[j] = p, p # s[k]
        PROVE  \E l \in 1 .. m : r[l] = p
    <3>1. j # k
      BY <2>2
    <3>2. CASE j < k
      <4>1. j \in 1 .. m
        BY <1>2, <3>2
      <4> QED BY <1>2, <2>2, <3>2, <4>1
    <3>3. CASE j > k
      <4>1. j - 1 \in 1 .. m /\ ~(j - 1 < k) /\ (j - 1) + 1 = j
        BY <1>2, <3>3
      <4>2. r[j - 1] = p
        BY <1>2, <2>2, <4>1
      <4> QED BY <4>1, <4>2
    <3> QED BY <1>2, <3>1, <3>2, <3>3
  <2> QED BY <2>1, <2>2
<1>7. Once(r)
  BY <1>1, <1>5 DEF Once
<1>8. \A p : In(p, r) <=> In(p, s) /\ p # s[k]
  BY <1>1, <1>6 DEF In
<1> QED BY <1>1, <1>7, <1>8

\* Without its first.
LEMMA RemovedFirst ==
    ASSUME NEW S, NEW s \in Seq(S), s # <<>>
    PROVE  RemoveAt(s, 1) = Tail(s) /\ Head(s) = s[1]
<1>1. Len(s) \in Nat \ {0} /\ 1 \in 1 .. Len(s)
  BY EmptySeq
<1>2. PICK r, t, n : r = RemoveAt(s, 1) /\ t = Tail(s) /\ n = Len(s)
  OBVIOUS
<1>3. /\ r \in Seq(S) /\ Len(r) = n - 1
      /\ \A j \in 1 .. n - 1 : r[j] = IF j < 1 THEN s[j] ELSE s[j + 1]
  BY <1>1, <1>2, Removed
<1>4. /\ t \in Seq(S) /\ Len(t) = n - 1 /\ \A j \in 1 .. n - 1 : t[j] = s[j + 1]
  BY <1>1, <1>2, HeadTailProperties
<1>5. \A j \in 1 .. n - 1 : r[j] = t[j]
  BY <1>1, <1>2, <1>3, <1>4
<1>6. r = t
  BY <1>3, <1>4, <1>5, SeqEqual
<1> QED BY <1>2, <1>6

LEMMA OnceTail ==
    ASSUME NEW S, NEW s \in Seq(S), Once(s), s # <<>>
    PROVE  /\ Tail(s) \in Seq(S) /\ Once(Tail(s)) /\ Head(s) \in S /\ In(Head(s), s)
           /\ \A p : In(p, Tail(s)) <=> In(p, s) /\ p # Head(s)
<1>1. 1 \in 1 .. Len(s) /\ RemoveAt(s, 1) = Tail(s) /\ Head(s) = s[1]
  BY EmptySeq, LenProperties, RemovedFirst
<1>2. Head(s) \in S /\ In(Head(s), s)
  BY <1>1, ElementOfSeq DEF In
<1>3. /\ RemoveAt(s, 1) \in Seq(S) /\ Once(RemoveAt(s, 1))
      /\ \A p : In(p, RemoveAt(s, 1)) <=> In(p, s) /\ p # s[1]
  BY <1>1, Removed, RemovedOnce
<1> QED BY <1>1, <1>2, <1>3

LEMMA AppendOnce ==
    ASSUME NEW S, NEW s \in Seq(S), NEW p \in S, Once(s), ~In(p, s)
    PROVE  /\ Append(s, p) \in Seq(S) /\ Len(Append(s, p)) = Len(s) + 1
           /\ Append(s, p)[Len(s) + 1] = p
           /\ \A k \in 1 .. Len(s) : Append(s, p)[k] = s[k]
           /\ Once(Append(s, p))
           /\ \A q : In(q, Append(s, p)) <=> In(q, s) \/ q = p
<1>1. PICK r, n : r = Append(s, p) /\ n = Len(s)
  OBVIOUS
<1>2. /\ n \in Nat /\ r \in Seq(S) /\ Len(r) = n + 1 /\ r[n + 1] = p
      /\ \A k \in 1 .. n : r[k] = s[k]
  BY <1>1, AppendProperties, LenProperties
<1>3. \A k \in 1 .. n : s[k] # p
  BY <1>1 DEF In
<1>4. \A j, k \in 1 .. n : s[j] = s[k] => j = k
  BY <1>1 DEF Once
<1>5. \A k \in 1 .. n + 1 : k \in 1 .. n \/ k = n + 1
  BY <1>2
<1>6. \A j, k \in 1 .. n + 1 : r[j] = r[k] => j = k
  BY <1>2, <1>3, <1>4, <1>5
<1>7. \A q : (\E k \in 1 .. n + 1 : r[k] = q) <=> (\E k \in 1 .. n : s[k] = q) \/ q = p
  <2>1. n + 1 \in 1 .. n + 1 /\ \A k \in 1 .. n : k \in 1 .. n + 1
    BY <1>2
  <2> QED BY <1>2, <1>5, <2>1
<1> QED BY <1>1, <1>2, <1>6, <1>7 DEF Once, In

-----------------------------------------------------------------------------
(* The pointers of the ready queue. *)

\* The nodes from Afront to Aback are those of s, and the others have no link.
Represents(q, s) ==
    /\ q \in [front : Procs \cup {Null}, back : Procs \cup {Null}, n : Nat,
              link : [Procs -> Procs \cup {Null}]]
    /\ s \in Seq(Procs) /\ Once(s)
    /\ q.n = Len(s)
    /\ q.front = IF s = <<>> THEN Null ELSE s[1]
    /\ q.back = IF s = <<>> THEN Null ELSE s[Len(s)]
    /\ \A k \in 1 .. Len(s) : q.link[s[k]] = IF k = Len(s) THEN Null ELSE s[k + 1]
    /\ \A p \in Procs : ~In(p, s) => q.link[p] = Null

\* A process is not NULL.
LEMMA ProcsAreNodes == Procs \subseteq Nat /\ Null \notin Procs /\ countPrime \in Nat
BY CountAssumption DEF Procs, Null

\* The empty queue.
LEMMA EmptyRepresents == Represents(EmptyQ, <<>>)
<1>1. <<>> \in Seq(Procs) /\ Len(<<>>) = 0 /\ 1 .. 0 = {}
  OBVIOUS
<1>2. EmptyQ \in [front : Procs \cup {Null}, back : Procs \cup {Null}, n : Nat,
                  link : [Procs -> Procs \cup {Null}]]
  BY DEF EmptyQ
<1> QED BY <1>1, <1>2 DEF EmptyQ, Represents, Once, In

\* The walk of executeR along the links visits the sequence. If a step of it did not, a
\* first one would not, but that follows a link of the sequence.
LEMMA ChainIs ==
    ASSUME NEW q, NEW s, Represents(q, s)
    PROVE  Chain(q) = s
<1> DEFINE Walks(f) ==
        f = [k \in 1 .. q.n |-> IF k = 1 THEN q.front
                                ELSE IF f[k - 1] = Null THEN Null ELSE q.link[f[k - 1]]]
           node == CHOOSE f : Walks(f)
<1>1. PICK n : n = Len(s) /\ q.n = n /\ n \in Nat /\ s = [k \in 1 .. n |-> s[k]]
  BY LenProperties DEF Represents
<1>2. /\ \A k \in 1 .. n : s[k] \in Procs /\ s[k] # Null
      /\ n # 0 => q.front = s[1]
      /\ \A k \in 1 .. n : k # 1 => q.link[s[k - 1]] = s[k]
  <2>1. \A k \in 1 .. n : s[k] \in Procs
    BY <1>1, ElementOfSeq DEF Represents
  <2>2. \A k \in 1 .. n : k # 1 => k - 1 \in 1 .. n /\ k - 1 # n /\ (k - 1) + 1 = k
    BY <1>1
  <2>3. n # 0 => s # <<>>
    BY <1>1
  <2> QED BY <1>1, <2>1, <2>2, <2>3, ProcsAreNodes DEF Represents
<1>3. \A k \in 1 .. n : s[k] = IF k = 1 THEN q.front
                               ELSE IF s[k - 1] = Null THEN Null ELSE q.link[s[k - 1]]
  <2> SUFFICES ASSUME NEW k \in 1 .. n
               PROVE  s[k] = IF k = 1 THEN q.front
                             ELSE IF s[k - 1] = Null THEN Null ELSE q.link[s[k - 1]]
    OBVIOUS
  <2>1. CASE k = 1
    BY <1>1, <1>2, <2>1
  <2>2. CASE k # 1
    <3>1. k - 1 \in 1 .. n
      BY <1>1, <2>2
    <3>2. s[k - 1] # Null /\ q.link[s[k - 1]] = s[k]
      BY <1>2, <2>2, <3>1
    <3> QED BY <2>2, <3>2
  <2> QED BY <2>1, <2>2
<1>4. Walks(s)
  BY <1>1, <1>3
<1>5. Walks(node)
  BY <1>4
<1>6. Chain(q) = [k \in 1 .. n |-> node[k]]
  BY <1>1 DEF Chain
<1>7. \A k \in 1 .. n :
         node[k] = IF k = 1 THEN q.front
                   ELSE IF node[k - 1] = Null THEN Null ELSE q.link[node[k - 1]]
  BY <1>1, <1>5
<1> HIDE DEF node
<1>8. \A k \in 1 .. n : node[k] = s[k]
  <2> DEFINE Bad == {k \in 1 .. n : node[k] # s[k]}
  <2> SUFFICES ASSUME Bad # {} PROVE FALSE
    OBVIOUS
  <2>1. PICK k : k \in Bad /\ \A l \in Bad : k <= l
    <3>1. Bad \subseteq Nat
      OBVIOUS
    <3> HIDE DEF Bad
    <3> QED BY <3>1, NatMin
  <2>2. k \in 1 .. n /\ node[k] # s[k]
    BY <2>1
  <2>3. k # 1
    BY <1>3, <1>7, <2>2
  <2>4. k - 1 \in 1 .. n /\ ~(k <= k - 1)
    BY <1>1, <2>2, <2>3
  <2>5. node[k - 1] = s[k - 1]
    BY <2>1, <2>4
  <2> QED BY <1>3, <1>7, <2>2, <2>5
<1> QED BY <1>1, <1>6, <1>8

\* Qsetup appends.
LEMMA QsetupAppends ==
    ASSUME NEW q, NEW s, Represents(q, s), NEW p \in Procs, ~In(p, s)
    PROVE  Represents(Qsetup(q, p), Append(s, p))
<1>1. PICK n, t : n = Len(s) /\ t = Append(s, p)
  OBVIOUS
<1>2. /\ n \in Nat /\ q.n = n /\ s \in Seq(Procs) /\ (s = <<>> <=> n = 0)
      /\ q \in [front : Procs \cup {Null}, back : Procs \cup {Null}, n : Nat,
                link : [Procs -> Procs \cup {Null}]]
  BY <1>1, LenProperties, EmptySeq DEF Represents
<1>3. /\ t \in Seq(Procs) /\ Len(t) = n + 1 /\ t[n + 1] = p
      /\ \A k \in 1 .. n : t[k] = s[k]
      /\ Once(t) /\ \A r : In(r, t) <=> In(r, s) \/ r = p
  BY <1>1, <1>2, AppendOnce DEF Represents
<1>4. t # <<>>
  BY <1>2, <1>3
<1>5. \A k \in 1 .. n : s[k] \in Procs /\ s[k] # p
  BY <1>1, <1>2, ElementOfSeq DEF In
<1>6. CASE n = 0
  <2>1. /\ q.link = [r \in Procs |-> q.link[r]]
        /\ \A r \in Procs : q.link[r] = Null
    BY <1>1, <1>2, <1>6 DEF Represents, In
  <2>2. /\ Qsetup(q, p) \in [front : Procs \cup {Null}, back : Procs \cup {Null}, n : Nat,
                             link : [Procs -> Procs \cup {Null}]]
        /\ Qsetup(q, p).front = p /\ Qsetup(q, p).back = p /\ Qsetup(q, p).n = 1
        /\ Qsetup(q, p).link = q.link
    BY <1>2, <1>6 DEF Qsetup
  <2>3. \A k \in 1 .. 1 : k = 1
    OBVIOUS
  <2> QED BY <1>1, <1>3, <1>4, <1>6, <2>1, <2>2, <2>3 DEF Represents
<1>7. CASE n # 0
  <2>1. n \in 1 .. n /\ q.back = s[n] /\ q.front = s[1] /\ 1 \in 1 .. n
    BY <1>1, <1>2, <1>7 DEF Represents
  <2>2. /\ Qsetup(q, p) \in [front : Procs \cup {Null}, back : Procs \cup {Null}, n : Nat,
                             link : [Procs -> Procs \cup {Null}]]
        /\ Qsetup(q, p).front = s[1] /\ Qsetup(q, p).back = p /\ Qsetup(q, p).n = n + 1
        /\ Qsetup(q, p).link = [q.link EXCEPT ![p] = Null, ![s[n]] = p]
    <3> DEFINE l == [q.link EXCEPT ![p] = Null, ![s[n]] = p]
    <3>1. Qsetup(q, p) = [q EXCEPT !.link = l, !.back = p, !.n = q.n + 1]
      BY <1>2, <1>7, <2>1 DEF Qsetup
    <3>2. l \in [Procs -> Procs \cup {Null}]
      BY <1>2
    <3> HIDE DEF l
    <3>3. Qsetup(q, p) = [front |-> q.front, back |-> p, n |-> q.n + 1, link |-> l]
      BY <1>2, <3>1
    <3>4. q.front \in Procs \cup {Null} /\ q.n + 1 \in Nat
      BY <1>2
    <3> QED BY <1>2, <2>1, <3>2, <3>3, <3>4 DEF l
  <2>3. ASSUME NEW k \in 1 .. n + 1
        PROVE  [q.link EXCEPT ![p] = Null, ![s[n]] = p][t[k]] =
                  IF k = n + 1 THEN Null ELSE t[k + 1]
    <3>1. CASE k = n + 1
      BY <1>2, <1>3, <1>5, <2>1, <3>1
    <3>2. CASE k = n
      BY <1>2, <1>3, <1>5, <2>1, <3>2
    <3>3. CASE k \in 1 .. n - 1
      <4>1. s[k] # s[n] /\ k \in 1 .. n /\ k + 1 \in 1 .. n /\ k # n
        BY <1>1, <1>2, <2>1, <3>3 DEF Represents, Once
      <4>2. q.link[s[k]] = s[k + 1]
        BY <1>1, <4>1 DEF Represents
      <4> QED BY <1>2, <1>3, <1>5, <4>1, <4>2
    <3> QED BY <1>2, <3>1, <3>2, <3>3
  <2>4. ASSUME NEW r \in Procs, ~In(r, t)
        PROVE  [q.link EXCEPT ![p] = Null, ![s[n]] = p][r] = Null
    <3>1. ~In(r, s) /\ r # p /\ r # s[n]
      BY <1>1, <1>3, <2>1, <2>4 DEF In
    <3> QED BY <1>2, <3>1 DEF Represents
  <2> QED BY <1>1, <1>3, <1>4, <2>1, <2>2, <2>3, <2>4 DEF Represents
<1> QED BY <1>6, <1>7
\* The last of a sequence without one of its elements, and what follows an element of it.
LEMMA RemovedEnds ==
    ASSUME NEW S, NEW s \in Seq(S), NEW k \in 1 .. Len(s), NEW r, r = RemoveAt(s, k)
    PROVE  /\ r \in Seq(S) /\ Len(r) = Len(s) - 1 /\ Len(s) \in Nat
           /\ r = <<>> <=> Len(s) = 1
           /\ Len(s) # 1 => r[1] = IF k = 1 THEN s[2] ELSE s[1]
           /\ Len(s) # 1 => r[Len(r)] = IF k = Len(s) THEN s[Len(s) - 1] ELSE s[Len(s)]
           /\ \A j \in 1 .. Len(r) : r[j] = IF j < k THEN s[j] ELSE s[j + 1]
<1>1. PICK n : n = Len(s) /\ n \in Nat
  BY LenProperties
<1>2. /\ r \in Seq(S) /\ Len(r) = n - 1
      /\ \A j \in 1 .. n - 1 : r[j] = IF j < k THEN s[j] ELSE s[j + 1]
  BY <1>1, Removed
<1>3. k \in 1 .. n /\ n # 0
  BY <1>1
<1>4. r = <<>> <=> n = 1
  <2>1. r = <<>> <=> Len(r) = 0
    <3>1. r \in Seq(S)
      BY <1>2
    <3> QED BY ONLY <3>1, EmptySeq
  <2> QED BY <1>1, <1>2, <2>1
<1>5. n # 1 => 1 \in 1 .. n - 1 /\ n - 1 \in 1 .. n - 1 /\ (n - 1) + 1 = n
  BY <1>1, <1>3
<1>6. n # 1 => r[1] = IF 1 < k THEN s[1] ELSE s[2]
  BY <1>2, <1>5
<1>7. n # 1 => r[n - 1] = IF n - 1 < k THEN s[n - 1] ELSE s[n]
  BY <1>2, <1>5
<1>8. (1 < k <=> k # 1) /\ (n - 1 < k <=> k = n)
  BY <1>1, <1>3
<1> QED BY <1>1, <1>2, <1>4, <1>6, <1>7, <1>8

\* dsetup takes the first away.
LEMMA dsetupRemoves ==
    ASSUME NEW q, NEW s, Represents(q, s), s # <<>>
    PROVE  Represents(dsetup(q), RemoveAt(s, 1))
<1>1. PICK n, t : n = Len(s) /\ t = RemoveAt(s, 1)
  OBVIOUS
<1>2. /\ n \in Nat /\ n # 0 /\ q.n = n /\ s \in Seq(Procs) /\ 1 \in 1 .. n
      /\ q \in [front : Procs \cup {Null}, back : Procs \cup {Null}, n : Nat,
                link : [Procs -> Procs \cup {Null}]]
      /\ q.front = s[1] /\ q.back = s[n]
  BY <1>1, LenProperties, EmptySeq DEF Represents
<1>3. /\ t \in Seq(Procs) /\ Len(t) = n - 1 /\ (t = <<>> <=> n = 1)
      /\ n # 1 => t[1] = s[2] /\ t[n - 1] = s[n]
      /\ \A j \in 1 .. n - 1 : t[j] = s[j + 1]
  <2>1. \A j \in 1 .. n - 1 : ~(j < 1)
    BY <1>2
  <2>2. PICK k : k = 1 /\ k \in 1 .. Len(s) /\ t = RemoveAt(s, k) /\ s \in Seq(Procs)
    BY <1>1, <1>2
  <2>3. /\ t \in Seq(Procs) /\ Len(t) = Len(s) - 1
        /\ t = <<>> <=> Len(s) = 1
        /\ Len(s) # 1 => t[1] = IF k = 1 THEN s[2] ELSE s[1]
        /\ Len(s) # 1 => t[Len(t)] = IF k = Len(s) THEN s[Len(s) - 1] ELSE s[Len(s)]
        /\ \A j \in 1 .. Len(t) : t[j] = IF j < k THEN s[j] ELSE s[j + 1]
    BY ONLY <2>2, RemovedEnds
  <2>4. /\ t \in Seq(Procs) /\ Len(t) = n - 1 /\ (t = <<>> <=> n = 1)
        /\ n # 1 => t[1] = s[2]
    BY <1>1, <2>2, <2>3
  <2>5. n # 1 => t[n - 1] = s[n]
    BY <1>1, <2>2, <2>3, <2>4
  <2>6. \A j \in 1 .. n - 1 : t[j] = s[j + 1]
    BY <2>1, <2>2, <2>3, <2>4
  <2> QED BY <2>4, <2>5, <2>6
<1>4. Once(t) /\ \A r : In(r, t) <=> In(r, s) /\ r # s[1]
  BY <1>1, <1>2, RemovedOnce DEF Represents
<1>5. \A k \in 1 .. n : s[k] \in Procs /\ q.link[s[k]] = IF k = n THEN Null ELSE s[k + 1]
  BY <1>1, <1>2, ElementOfSeq DEF Represents
<1> DEFINE l == [q.link EXCEPT ![s[1]] = Null]
<1>6. l \in [Procs -> Procs \cup {Null}] /\ q.link[s[1]] \in Procs \cup {Null}
  BY <1>2, <1>5
<1>7. \A k \in 1 .. n - 1 : l[t[k]] = IF k = n - 1 THEN Null ELSE t[k + 1]
  <2> SUFFICES ASSUME NEW k \in 1 .. n - 1
               PROVE  l[t[k]] = IF k = n - 1 THEN Null ELSE t[k + 1]
    OBVIOUS
  <2>1. k + 1 \in 1 .. n /\ k + 1 # 1 /\ (k + 1 = n <=> k = n - 1) /\ t[k] = s[k + 1]
    BY <1>2, <1>3
  <2>2. s[k + 1] # s[1]
    BY <1>1, <1>2, <2>1 DEF Represents, Once
  <2>3. l[t[k]] = q.link[s[k + 1]]
    BY <1>2, <1>5, <2>1, <2>2
  <2>4. CASE k = n - 1
    BY <1>5, <2>1, <2>3, <2>4
  <2>5. CASE k # n - 1
    <3>1. k + 1 \in 1 .. n - 1 /\ t[k + 1] = s[(k + 1) + 1]
      BY <1>2, <1>3, <2>5
    <3> QED BY <1>5, <2>1, <2>3, <2>5, <3>1
  <2> QED BY <2>4, <2>5
<1>8. \A r \in Procs : ~In(r, t) => l[r] = Null
  <2> SUFFICES ASSUME NEW r \in Procs, ~In(r, t)
               PROVE  l[r] = Null
    OBVIOUS
  <2>1. CASE r = s[1]
    BY <1>2, <2>1
  <2>2. CASE r # s[1]
    BY <1>2, <1>4, <2>2 DEF Represents
  <2> QED BY <2>1, <2>2
<1>9. dsetup(q) = [front |-> q.link[s[1]], back |-> IF n = 1 THEN Null ELSE s[n],
                   n |-> n - 1, link |-> l]
  <2>1. dsetup(q) = [q EXCEPT !.front = q.link[s[1]], !.n = q.n - 1,
                              !.back = IF n = 1 THEN Null ELSE q.back, !.link = l]
    BY <1>2 DEF dsetup
  <2> HIDE DEF l
  <2> QED BY <1>2, <2>1
<1>10. q.link[s[1]] = IF t = <<>> THEN Null ELSE t[1]
  <2>1. n # 1 => s[1 + 1] = t[1]
    BY <1>3
  <2> QED BY <1>2, <1>3, <1>5, <2>1
<1>11. /\ (IF n = 1 THEN Null ELSE s[n]) = IF t = <<>> THEN Null ELSE t[Len(t)]
       /\ (IF n = 1 THEN Null ELSE s[n]) \in Procs \cup {Null}
       /\ n - 1 \in Nat /\ n \in 1 .. n
  BY <1>2, <1>3, <1>5
<1> HIDE DEF l
<1>12. PICK d : d = dsetup(q)
  OBVIOUS
<1>13. /\ d \in [front : Procs \cup {Null}, back : Procs \cup {Null}, n : Nat,
                 link : [Procs -> Procs \cup {Null}]]
       /\ d.front = q.link[s[1]] /\ d.back = (IF n = 1 THEN Null ELSE s[n]) /\ d.n = n - 1
       /\ d.link = l
  BY <1>6, <1>9, <1>11, <1>12
<1>14. Represents(d, t)
  BY <1>3, <1>4, <1>7, <1>8, <1>10, <1>11, <1>13 DEF Represents
<1> QED BY <1>1, <1>12, <1>14

\* executeR takes any away (SJF).
LEMMA UnlinkRemoves ==
    ASSUME NEW q, NEW s, Represents(q, s), NEW k \in 1 .. Len(s)
    PROVE  Represents(Unlink(q, s[k]), RemoveAt(s, k))
<1>1. PICK n, t, p : n = Len(s) /\ t = RemoveAt(s, k) /\ p = s[k]
  OBVIOUS
<1>2. /\ n \in Nat /\ n # 0 /\ q.n = n /\ s \in Seq(Procs) /\ 1 \in 1 .. n /\ k \in 1 .. n
      /\ q \in [front : Procs \cup {Null}, back : Procs \cup {Null}, n : Nat,
                link : [Procs -> Procs \cup {Null}]]
      /\ s # <<>> /\ q.front = s[1] /\ q.back = s[n]
  BY <1>1, LenProperties, EmptySeq DEF Represents
<1>3. \A j \in 1 .. n : s[j] \in Procs /\ s[j] # Null
                        /\ q.link[s[j]] = IF j = n THEN Null ELSE s[j + 1]
  BY <1>1, <1>2, ElementOfSeq, ProcsAreNodes DEF Represents
<1>4. \A j, l \in 1 .. n : s[j] = s[l] => j = l
  BY <1>1 DEF Represents, Once
<1>5. /\ t \in Seq(Procs) /\ Len(t) = n - 1
      /\ t = <<>> <=> n = 1
      /\ n # 1 => t[1] = IF k = 1 THEN s[2] ELSE s[1]
      /\ n # 1 => t[Len(t)] = IF k = n THEN s[n - 1] ELSE s[n]
      /\ \A j \in 1 .. Len(t) : t[j] = IF j < k THEN s[j] ELSE s[j + 1]
  <2>1. /\ t \in Seq(Procs) /\ Len(t) = n - 1
        /\ \A j \in 1 .. n - 1 : t[j] = IF j < k THEN s[j] ELSE s[j + 1]
    BY <1>1, <1>2, Removed
  <2>2. s \in Seq(Procs) /\ t = RemoveAt(s, k)
    BY <1>1, <1>2
  <2>3. /\ t = <<>> <=> Len(s) = 1
        /\ Len(s) # 1 => t[1] = IF k = 1 THEN s[2] ELSE s[1]
        /\ Len(s) # 1 => t[Len(t)] = IF k = Len(s) THEN s[Len(s) - 1] ELSE s[Len(s)]
    BY <2>2, RemovedEnds
  <2> QED BY <1>1, <2>1, <2>3
<1>6. CASE k = 1
  <2>1. Unlink(q, p) = dsetup(q)
    BY <1>1, <1>2, <1>6 DEF Unlink
  <2>2. Represents(dsetup(q), RemoveAt(s, 1))
    BY <1>2, dsetupRemoves
  <2> QED BY <1>1, <1>6, <2>1, <2>2
<1>7. CASE k # 1
  <2> DEFINE b == s[k - 1]
  <2>1. k - 1 \in 1 .. n /\ k - 1 # n /\ (k - 1) + 1 = k
    BY <1>2, <1>7
  <2>2. b \in Procs /\ b # p /\ q.link[b] = p /\ p \in Procs /\ p # Null
    BY <1>1, <1>2, <1>3, <1>4, <2>1
  <2>3. ASSUME NEW c \in Procs, q.link[c] = p
        PROVE  c = b
    <3>1. PICK j \in 1 .. n : s[j] = c
      BY <1>1, <2>2, <2>3 DEF Represents, In
    <3>2. j # n /\ s[j + 1] = s[k]
      BY <1>1, <1>3, <2>2, <2>3, <3>1
    <3>3. j + 1 \in 1 .. n
      BY <1>2, <3>1, <3>2
    <3>4. j + 1 = k
      BY <1>2, <1>4, <3>2, <3>3
    <3> QED BY <1>2, <3>1, <3>4
  <2>4. (CHOOSE c \in Procs : q.link[c] = p) = b
    BY <2>2, <2>3
  <2>5. q.front # p
    BY <1>1, <1>2, <1>4, <1>7
  <2> DEFINE l == [q.link EXCEPT ![b] = q.link[p], ![p] = Null]
  <2>6. Unlink(q, p) = [q EXCEPT !.link = l, !.back = IF q.back = p THEN b ELSE q.back,
                                 !.n = q.n - 1]
    BY <2>4, <2>5 DEF Unlink
  <2>7. l \in [Procs -> Procs \cup {Null}]
    BY <1>2, <2>2
  <2>9. n # 1
    BY <1>2, <1>7
  <2>10. Once(t) /\ \A r : In(r, t) <=> In(r, s) /\ r # p
    BY <1>1, <1>2, RemovedOnce DEF Represents
  <2>11. ASSUME NEW j \in 1 .. n - 1
         PROVE  l[t[j]] = IF j = n - 1 THEN Null ELSE t[j + 1]
    <3>1. j \in 1 .. n /\ j + 1 \in 1 .. n /\ j # n /\ t[j] = IF j < k THEN s[j] ELSE s[j + 1]
      BY <1>2, <1>5
    <3>2. j # n - 1 => t[j + 1] = IF j + 1 < k THEN s[j + 1] ELSE s[(j + 1) + 1]
      BY <1>2, <1>5
    <3>3. CASE j = k - 1
      <4>1. t[j] = b
        BY <1>2, <3>1, <3>3
      <4>2. l[b] = q.link[p]
        BY <1>2, <2>2
      <4>3. q.link[p] = IF k = n THEN Null ELSE s[k + 1]
        BY <1>1, <1>2, <1>3
      <4>4. (k = n <=> j = n - 1) /\ ~(j + 1 < k) /\ (j + 1) + 1 = k + 1
        BY <1>2, <3>3
      <4> QED BY <3>2, <4>1, <4>2, <4>3, <4>4
    <3>4. CASE j < k - 1
      <4>1. t[j] = s[j] /\ j # n - 1 /\ t[j + 1] = s[j + 1]
        BY <1>2, <3>1, <3>2, <3>4
      <4>2. s[j] # p /\ s[j] # b
        BY <1>1, <1>2, <1>4, <2>1, <3>1, <3>4
      <4> QED BY <1>2, <1>3, <3>1, <4>1, <4>2
    <3>5. CASE j > k - 1
      <4>1. t[j] = s[j + 1] /\ (j # n - 1 => t[j + 1] = s[(j + 1) + 1])
        BY <1>2, <3>1, <3>2, <3>5
      <4>2. s[j + 1] # p /\ s[j + 1] # b
        BY <1>1, <1>2, <1>4, <2>1, <3>1, <3>5
      <4>3. l[s[j + 1]] = q.link[s[j + 1]]
        BY <1>2, <1>3, <3>1, <4>2
      <4>4. q.link[s[j + 1]] = IF j + 1 = n THEN Null ELSE s[(j + 1) + 1]
        BY <1>3, <3>1
      <4>5. j + 1 = n <=> j = n - 1
        BY <1>2
      <4> QED BY <4>1, <4>3, <4>4, <4>5
    <3> QED BY <1>2, <3>3, <3>4, <3>5
  <2>12. ASSUME NEW r \in Procs, ~In(r, t)
         PROVE  l[r] = Null
    <3>1. CASE r = p
      BY <1>2, <2>2, <3>1
    <3>2. CASE r # p
      <4>1. ~In(r, s)
        BY <2>10, <2>12, <3>2
      <4>2. r # b
        BY <1>1, <2>1, <4>1 DEF In
      <4> QED BY <1>1, <1>2, <3>2, <4>1, <4>2 DEF Represents
    <3> QED BY <3>1, <3>2
  <2>13. q.back = p <=> k = n
    BY <1>1, <1>2, <1>4
  <2> HIDE DEF l, b
  <2>14. Unlink(q, p) = [front |-> s[1], back |-> IF k = n THEN b ELSE s[n], n |-> n - 1,
                         link |-> l]
    BY <1>2, <2>6, <2>13
  <2>15. t # <<>> /\ t[1] = s[1] /\ t[Len(t)] = (IF k = n THEN b ELSE s[n])
    BY <1>7, <1>5, <2>9, <2>13 DEF b
  <2>16. /\ s[1] \in Procs \cup {Null} /\ (IF k = n THEN b ELSE s[n]) \in Procs \cup {Null}
         /\ n - 1 \in Nat
    BY <1>2, <1>3, <2>2
  <2>17. Represents(Unlink(q, p), t)
    BY <2>7, <1>5, <2>10, <2>11, <2>12, <2>14, <2>15, <2>16 DEF Represents
  <2> QED BY <1>1, <2>17
<1> QED BY <1>6, <1>7

\* A set of processes is finite.
LEMMA ProcsFinite ==
    /\ IsFiniteSet(Procs) /\ Cardinality(Procs) = countPrime
    /\ \A T \in SUBSET Procs : /\ IsFiniteSet(T) /\ Cardinality(T) \in 0 .. countPrime
                               /\ Cardinality(T) = countPrime => T = Procs
<1>1. IsFiniteSet(Procs) /\ Cardinality(Procs) = countPrime
  BY CountAssumption, FS_Interval DEF Procs
<1>2. ASSUME NEW T \in SUBSET Procs
      PROVE  /\ IsFiniteSet(T) /\ Cardinality(T) \in 0 .. countPrime
             /\ Cardinality(T) = countPrime => T = Procs
  <2>1. /\ IsFiniteSet(T) /\ Cardinality(T) <= countPrime
        /\ Cardinality(T) = countPrime => T = Procs
    BY <1>1, FS_Subset
  <2>2. Cardinality(T) \in Nat
    BY <2>1, FS_CardinalityType
  <2> QED BY <2>1, <2>2, CountAssumption
<1> QED BY <1>1, <1>2

-----------------------------------------------------------------------------
(* What the operations do to any queue, whether or not its pointers are a sequence. *)

Queue == [front : Procs \cup {Null}, back : Procs \cup {Null}, n : Nat,
          link : [Procs -> Procs \cup {Null}]]

LEMMA QsetupIs ==
    ASSUME NEW q \in Queue, NEW p \in Procs
    PROVE  /\ Qsetup(q, p) \in Queue /\ Qsetup(q, p).n = q.n + 1
           /\ q.n # 0 => Qsetup(q, p).front = q.front
<1>1. q = [front |-> q.front, back |-> q.back, n |-> q.n, link |-> q.link]
  BY DEF Queue
<1>2. /\ q.front \in Procs \cup {Null} /\ q.back \in Procs \cup {Null} /\ q.n \in Nat
      /\ q.link \in [Procs -> Procs \cup {Null}]
  BY DEF Queue
<1>3. CASE q.n = 0
  <2>1. Qsetup(q, p) = [front |-> p, back |-> p, n |-> 1, link |-> q.link]
    BY <1>1, <1>3 DEF Qsetup
  <2> QED BY <1>2, <1>3, <2>1 DEF Queue
<1>4. CASE q.n # 0
  <2>1. PICK l : l = [q.link EXCEPT ![p] = Null, ![q.back] = p]
    OBVIOUS
  <2>2. l \in [Procs -> Procs \cup {Null}]
    BY <1>2, <2>1
  <2>3. Qsetup(q, p) = [q EXCEPT !.link = l, !.back = p, !.n = q.n + 1]
    BY <1>4, <2>1 DEF Qsetup
  <2>4. Qsetup(q, p) = [front |-> q.front, back |-> p, n |-> q.n + 1, link |-> l]
    BY <1>1, <2>3
  <2> QED BY <1>2, <2>2, <2>4 DEF Queue
<1> QED BY <1>3, <1>4

LEMMA dsetupIs ==
    ASSUME NEW q \in Queue, q.n # 0, q.front \in Procs
    PROVE  /\ dsetup(q) \in Queue /\ dsetup(q).n = q.n - 1
           /\ dsetup(q).front = q.link[q.front]
           /\ dsetup(q).back = IF q.n = 1 THEN Null ELSE q.back
<1>1. q = [front |-> q.front, back |-> q.back, n |-> q.n, link |-> q.link]
  BY DEF Queue
<1>2. /\ q.front \in Procs \cup {Null} /\ q.back \in Procs \cup {Null} /\ q.n \in Nat
      /\ q.link \in [Procs -> Procs \cup {Null}]
  BY DEF Queue
<1>3. PICK l, b : /\ l = [q.link EXCEPT ![q.front] = Null]
                  /\ b = IF q.n = 1 THEN Null ELSE q.back
  OBVIOUS
<1>4. dsetup(q) = [q EXCEPT !.front = q.link[q.front], !.n = q.n - 1, !.back = b, !.link = l]
  BY <1>3 DEF dsetup
<1>5. dsetup(q) = [front |-> q.link[q.front], back |-> b, n |-> q.n - 1, link |-> l]
  BY <1>1, <1>4
<1>6. /\ q.link[q.front] \in Procs \cup {Null} /\ b \in Procs \cup {Null} /\ q.n - 1 \in Nat
      /\ l \in [Procs -> Procs \cup {Null}]
  BY <1>2, <1>3
<1> QED BY <1>3, <1>5, <1>6 DEF Queue

LEMMA RepresentsIs == \A q, s : Represents(q, s) => q \in Queue
BY DEF Represents, Queue

-----------------------------------------------------------------------------
(* The inductive invariant. *)

Process ==
    [A : Nat, B : Nat \ {0}, C : Nat \ {0}, M : Nat, condition : 0 .. 4,
     finishingTime : Nat \cup {-1}, CPUTime : Nat, Btime : Nat,
     currentWaitingTime : Nat, BurstTime : Int, CPUBurst : Int, quantum : Int,
     operating : BOOLEAN]

\* The loops that park are there under "block" only, and a NULL at the front too.
Types ==
    /\ selectAlg \in FCFS .. SJF
    /\ pass \in 1 .. 3 /\ (pc = "done" <=> pass = 3)
    /\ \/ pc \in {"proceed", "wake", "create", "pick", "count", "done"}
       \/ selectAlg = BLOCK /\ pc \in {"yield", "resume", "park", "crash"}
    /\ Prime \in [Procs -> Process]
    /\ present \in 0 .. TimeBound /\ totalTimeNumber \in 0 .. present
    /\ i \in 0 .. countPrime
    /\ pc \in {"proceed", "wake", "resume", "pick", "count", "done"} => i = 0
    /\ pc \in {"yield", "park"} /\ paused = <<>> => i = 0
    /\ pc = "park" /\ selection = Null => i = 0
    /\ namelessOp \in Procs \cup {Null} /\ firstPrime \in BOOLEAN

\* A process is where its condition says, if that is not the ready queue.
Seats ==
    /\ paused \in Seq(Procs) /\ Once(paused) /\ (selectAlg # BLOCK => paused = <<>>)
    /\ blocked \in Seq(Procs) /\ Once(blocked)
    /\ selection \in Procs \cup {Null}
    /\ \A p \in Procs : /\ In(p, paused) => Prime[p].condition = 1
                        /\ Prime[p].condition = 2 <=> selection = p
                        /\ Prime[p].condition = 3 <=> In(p, blocked)

\* The processes that the ready queue should hold; placement counts them.
Waiting == {p \in Procs : Prime[p].condition = 1 /\ ~In(p, paused)}

Counted == ready \in Queue /\ ready.n = Cardinality(Waiting)

\* The pointers are the sequence of those that wait.
Linked ==
    /\ Represents(ready, Chain(ready))
    /\ \A p \in Procs : p \in Waiting <=> In(p, Chain(ready))

\* pauseQue has moved Afront to the last node, past those between, and the loop of
\* executeR will park that one next.
Slipped ==
    /\ pc \in {"yield", "park"} /\ (pc = "park" => selection # Null)
    /\ i = 1 /\ ready.n > 1 /\ paused # <<>>
    /\ ready.front \in Waiting /\ ready.link[ready.front] = Null

\* There is no node at the front any more, and placement is not 0: Qsetup
\* appends behind a node that is not in the queue.
Stuck == ready.front = Null /\ ready.n # 0

Order == Linked \/ (selectAlg = BLOCK /\ (Slipped \/ Stuck))

\* The walk over the blocked list stands at a node of it; except under "block" no
\* process is left ready when nobody was selected.
Walks ==
    /\ pc = "wake" => In(presentN, blocked)
    /\ pc # "wake" => presentN = Null
    /\ selectAlg # BLOCK /\ pc = "count" /\ selection = Null => ready.n = 0

\* The parts of datapoint that executeR is.
Executing == {"yield", "resume", "pick", "park", "count", "crash"}

\* creation has been past p in this cycle.
Visited(p) == pc \in Executing \/ (pc = "create" /\ p <= i)

\* A process arrives when the clock shows its A, and not before.
Arrivals ==
    \A p \in Procs :
        /\ Prime[p].condition = 0 =>
              present <= Prime[p].A /\ (Visited(p) => present < Prime[p].A)
        /\ Prime[p].condition # 0 =>
              Prime[p].A <= present /\ (Visited(p) \/ Prime[p].A < present)

Counters ==
    /\ totalPrime = Cardinality({p \in Procs : Prime[p].condition # 0})
    /\ completion = Cardinality({p \in Procs : Prime[p].condition = 4})

\* A burst ends within the time the process still needs, and I/O takes time.
Bursts ==
    \A p \in Procs :
        /\ Prime[p].CPUTime <= Prime[p].C
        /\ Prime[p].condition \in {1, 3} => Prime[p].CPUTime < Prime[p].C
        /\ Prime[p].condition = 2 =>
              /\ Prime[p].CPUBurst \in 0 .. Remaining(p)
              /\ pc # "proceed" => Prime[p].CPUBurst > 0
              /\ pc # "proceed" /\ selectAlg = RR => Prime[p].quantum > 0
              /\ Prime[p].operating \/ Prime[p].BurstTime > 0

\* Each cycle that the walk misses a process whose I/O is over, it takes one
\* away that is ahead of it.
Lateness ==
    \A k \in 1 .. Len(blocked) :
        LET late == -Prime[blocked[k]].BurstTime
        IN  late >= 0 =>
              /\ k + late <= countPrime
              /\ pc \in {"create"} \cup Executing => k + late < countPrime
              /\ pc = "wake" => \E w \in 1 .. k : blocked[w] = presentN

IInv == /\ Types /\ Seats /\ Counted /\ Order /\ Walks /\ Arrivals /\ TimesAddUp /\ Counters
        /\ Bursts /\ Lateness

-----------------------------------------------------------------------------
(* What the steps do to the processes. *)

\* Nothing that is given or printed changes.
Alike(r, s) ==
    /\ r.A = s.A /\ r.B = s.B /\ r.C = s.C /\ r.M = s.M
    /\ r.CPUTime = s.CPUTime /\ r.Btime = s.Btime
    /\ r.currentWaitingTime = s.currentWaitingTime

\* One process changes its state.
Moves(p) ==
    /\ p \in Procs /\ Prime' \in [Procs -> Process] /\ Alike(Prime'[p], Prime[p])
    /\ \A x \in Procs : x # p => Prime'[x] = Prime[x]

LEMMA MovesIf ==
    ASSUME Prime \in [Procs -> Process], NEW p \in Procs, NEW r \in Process,
           Prime' = [Prime EXCEPT ![p] = r], Alike(r, Prime[p])
    PROVE  Moves(p) /\ Prime'[p] = r
BY DEF Moves

\* A product of naturals is one.
LEMMA Product == \A a, b \in Nat : a * b \in Nat
OBVIOUS

\* The process that has run, after the update at the top of proceedForward.
LEMMA RunningIs ==
    ASSUME Types, Bursts, selection \in Procs, Prime[selection].condition = 2
    PROVE  /\ Running \in Process /\ Alike(Running, Prime[selection])
           /\ Running.CPUBurst = Prime[selection].CPUBurst
           /\ Running.quantum = Prime[selection].quantum
           /\ Running.condition = 2 /\ Running.BurstTime > 0
           /\ Running.CPUBurst >= 0
<1>1. PICK s : s = Prime[selection]
  OBVIOUS
<1>2. s \in Process /\ s.condition = 2
  BY <1>1 DEF Types
<1>3. s.CPUBurst \in Nat /\ (s.operating \/ s.BurstTime > 0)
  <2>1. s.CPUBurst \in 0 .. Remaining(selection) /\ (s.operating \/ s.BurstTime > 0)
    BY <1>1, <1>2 DEF Bursts
  <2>2. Remaining(selection) \in Int
    BY <1>1, <1>2 DEF Remaining, Process
  <2> QED BY <2>1, <2>2
<1>4. s.M * s.CPUBurst \in Nat
  BY <1>2, <1>3, Product DEF Process
<1>5. CASE s.operating
  <2>1. PICK b : b = 1 + s.M * s.CPUBurst /\ b \in Int /\ b > 0
    BY <1>4
  <2>2. Running = [s EXCEPT !.operating = FALSE, !.BurstTime = b]
    BY <1>1, <1>5, <2>1 DEF Running
  <2>3. Running \in Process
    BY <1>2, <2>1, <2>2 DEF Process
  <2>4. /\ Alike(Running, s) /\ Running.CPUBurst = s.CPUBurst /\ Running.quantum = s.quantum
        /\ Running.condition = s.condition /\ Running.BurstTime = b
    BY <1>2, <2>2 DEF Process, Alike
  <2> QED BY <1>1, <1>2, <1>3, <2>1, <2>3, <2>4
<1>6. CASE ~s.operating
  <2>1. Running = s
    BY <1>1, <1>6 DEF Running
  <2> QED BY <1>1, <1>2, <1>3, <1>6, <2>1 DEF Process, Alike
<1> QED BY <1>5, <1>6

\* proceedForward moves the process that has run.
LEMMA ProceedMoves ==
    ASSUME Types, Bursts, AtHead, selection \in Procs, Prime[selection].condition = 2
    PROVE  /\ Terminate => /\ Moves(selection) /\ Prime'[selection].condition = 4
                           /\ Prime'[selection].finishingTime = present
                           /\ Prime[selection].CPUTime = Prime[selection].C
           /\ insertB => /\ Moves(selection) /\ Prime'[selection].condition = 3
                         /\ Prime'[selection].BurstTime > 0
                         /\ Prime[selection].CPUTime < Prime[selection].C
           /\ Preempt => /\ Moves(selection) /\ Prime'[selection].condition = 1
                         /\ Prime[selection].CPUTime < Prime[selection].C
           /\ KeepRunning => /\ Moves(selection) /\ Prime'[selection].condition = 2
                             /\ Prime'[selection].CPUBurst = Prime[selection].CPUBurst
                             /\ Prime'[selection].CPUBurst > 0
                             /\ selectAlg = RR => Prime'[selection].quantum > 0
                             /\ Prime'[selection].BurstTime > 0
<1>1. PICK r, s, p : r = Running /\ s = Prime[selection] /\ p = selection
  OBVIOUS
<1>2. /\ r \in Process /\ Alike(r, s) /\ r.CPUBurst = s.CPUBurst
      /\ r.quantum = s.quantum /\ r.condition = 2 /\ r.BurstTime > 0 /\ r.CPUBurst >= 0
  BY <1>1, RunningIs
<1>3. p \in Procs /\ s = Prime[p] /\ s \in Process /\ Prime \in [Procs -> Process]
      /\ present \in Nat
  BY <1>1, TimeBoundAssumption DEF Types
<1>4. s.CPUTime <= s.C /\ r.C = s.C /\ r.CPUTime = s.CPUTime
  BY <1>1, <1>2 DEF Bursts, Alike
<1>5. ASSUME Terminate
      PROVE  /\ Moves(selection) /\ Prime'[selection].condition = 4
             /\ Prime'[selection].finishingTime = present
             /\ Prime[selection].CPUTime = Prime[selection].C
  <2> DEFINE t == [r EXCEPT !.condition = 4, !.finishingTime = present]
  <2>1. Prime' = [Prime EXCEPT ![p] = t] /\ r.C = r.CPUTime
    BY <1>1, <1>5 DEF Terminate, Finished
  <2>2. t \in Process
    <3>1. present \in Nat \cup {-1} /\ 4 \in 0 .. 4
      BY <1>3
    <3> QED BY <1>2, <3>1 DEF Process
  <2>5. t.condition = 4 /\ t.finishingTime = present
    BY <1>2 DEF Process
  <2>3. Alike(t, Prime[p])
    BY <1>1, <1>2 DEF Alike, Process
  <2> HIDE DEF t
  <2>4. Moves(p) /\ Prime'[p] = t
    BY <1>3, <2>1, <2>2, <2>3, MovesIf
  <2> QED BY <1>1, <1>4, <2>1, <2>4, <2>5
<1>6. ASSUME insertB
      PROVE  /\ Moves(selection) /\ Prime'[selection].condition = 3
             /\ Prime'[selection].BurstTime > 0
             /\ Prime[selection].CPUTime < Prime[selection].C
  <2> DEFINE t == [r EXCEPT !.condition = 3]
  <2>1. Prime' = [Prime EXCEPT ![p] = t] /\ r.C # r.CPUTime
    BY <1>1, <1>6 DEF insertB, BurstOver, Finished
  <2>2. t \in Process /\ t.condition = 3 /\ t.BurstTime = r.BurstTime
    BY <1>2 DEF Process
  <2>3. Alike(t, Prime[p])
    BY <1>1, <1>2 DEF Alike, Process
  <2> HIDE DEF t
  <2>4. Moves(p) /\ Prime'[p] = t
    BY <1>3, <2>1, <2>2, <2>3, MovesIf
  <2>5. s.CPUTime < s.C
    BY <1>3, <1>4, <2>1 DEF Process
  <2> QED BY <1>1, <1>2, <2>2, <2>4, <2>5
<1>7. ASSUME Preempt
      PROVE  /\ Moves(selection) /\ Prime'[selection].condition = 1
             /\ Prime[selection].CPUTime < Prime[selection].C
  <2> DEFINE t == [r EXCEPT !.condition = 1]
  <2>1. Prime' = [Prime EXCEPT ![p] = t] /\ r.C # r.CPUTime
    BY <1>1, <1>7 DEF Preempt, Expired, Finished
  <2>2. t \in Process /\ t.condition = 1
    BY <1>2 DEF Process
  <2>3. Alike(t, Prime[p])
    BY <1>1, <1>2 DEF Alike, Process
  <2> HIDE DEF t
  <2>4. Moves(p) /\ Prime'[p] = t
    BY <1>3, <2>1, <2>2, <2>3, MovesIf
  <2>5. s.CPUTime < s.C
    BY <1>3, <1>4, <2>1 DEF Process
  <2> QED BY <1>1, <2>2, <2>4, <2>5
<1>8. ASSUME KeepRunning
      PROVE  /\ Moves(selection) /\ Prime'[selection].condition = 2
             /\ Prime'[selection].CPUBurst = Prime[selection].CPUBurst
             /\ Prime'[selection].CPUBurst > 0
             /\ selectAlg = RR => Prime'[selection].quantum > 0
             /\ Prime'[selection].BurstTime > 0
  <2> DEFINE t == [r EXCEPT !.condition = 2]
  <2>1. /\ Prime' = [Prime EXCEPT ![p] = t] /\ r.CPUBurst # 0
        /\ selectAlg = RR => ~(r.quantum <= 0)
    BY <1>1, <1>8 DEF KeepRunning, Expired, BurstOver, Finished
  <2>2. /\ t \in Process /\ t.condition = 2 /\ t.BurstTime = r.BurstTime
        /\ t.CPUBurst = r.CPUBurst /\ t.quantum = r.quantum
    BY <1>2 DEF Process
  <2>3. Alike(t, Prime[p])
    BY <1>1, <1>2 DEF Alike, Process
  <2> HIDE DEF t
  <2>4. Moves(p) /\ Prime'[p] = t
    BY <1>3, <2>1, <2>2, <2>3, MovesIf
  <2>5. r.CPUBurst > 0 /\ (selectAlg = RR => r.quantum > 0)
    BY <1>2, <2>1 DEF Process
  <2> QED BY <1>1, <1>2, <2>2, <2>4, <2>5
<1> QED BY <1>5, <1>6, <1>7, <1>8

\* A process that becomes ready in creation or execxuteB.
LEMMA ReadyMoves ==
    ASSUME Types, NEW p \in Procs, Prime' = [Prime EXCEPT ![p].condition = 1]
    PROVE  Moves(p) /\ Prime'[p].condition = 1
<1> DEFINE t == [Prime[p] EXCEPT !.condition = 1]
<1>1. Prime \in [Procs -> Process] /\ Prime[p] \in Process
  BY DEF Types
<1>2. t \in Process /\ t.condition = 1 /\ Alike(t, Prime[p])
  BY <1>1 DEF Process, Alike
<1>3. Prime' = [Prime EXCEPT ![p] = t]
  BY <1>1
<1> HIDE DEF t
<1> QED BY <1>1, <1>2, <1>3, MovesIf

\* A process that is selected.
LEMMA StartMoves ==
    ASSUME Types, NEW p \in Procs, NEW drawn \in 1 .. Prime[p].B, NEW newQuantum \in Int,
           Prime[p].CPUTime < Prime[p].C, Start(p, drawn, newQuantum)
    PROVE  /\ Moves(p) /\ Prime'[p].condition = 2 /\ Prime'[p].operating
           /\ Prime'[p].CPUBurst \in 1 .. Remaining(p) /\ Prime'[p].quantum = newQuantum
<1>1. Prime \in [Procs -> Process] /\ Prime[p] \in Process
  BY DEF Types
<1>2. PICK b : b = newCPUBurst(p, drawn)
  OBVIOUS
<1>3. b \in 1 .. Remaining(p) /\ b \in Int
  <2>1. Remaining(p) \in Int /\ Remaining(p) >= 1 /\ drawn \in Int /\ drawn >= 1
    BY <1>1 DEF Remaining, Process
  <2> QED BY <1>2, <2>1 DEF newCPUBurst
<1> DEFINE t == [Prime[p] EXCEPT !.CPUBurst = newCPUBurst(p, drawn), !.condition = 2,
                                 !.operating = TRUE, !.quantum = newQuantum]
<1>4. Prime' = [Prime EXCEPT ![p] = t]
  BY <1>1 DEF Start
<1>5. t \in Process
  <2>1. t = [Prime[p] EXCEPT !.CPUBurst = b, !.condition = 2, !.operating = TRUE,
                             !.quantum = newQuantum]
    BY <1>2
  <2>2. b \in Int /\ 2 \in 0 .. 4
    BY <1>3
  <2> HIDE DEF t
  <2> QED BY <1>1, <2>1, <2>2 DEF Process
<1>6. Alike(t, Prime[p])
  BY <1>1 DEF Process, Alike
<1>7. t.condition = 2 /\ t.CPUBurst = b /\ t.quantum = newQuantum
  BY <1>1, <1>2 DEF Process
<1>8. t.operating
  BY <1>1, Zenon DEF Process
<1> HIDE DEF t
<1>9. Moves(p) /\ Prime'[p] = t
  BY <1>1, <1>4, <1>5, <1>6, MovesIf
<1> QED BY <1>3, <1>7, <1>8, <1>9

-----------------------------------------------------------------------------
(* Which process a step is about. *)

\* Of a row of numbers there is a first that is the least.
LEMMA FirstLeast ==
    ASSUME NEW n \in Nat, n # 0, NEW f, \A k \in 1 .. n : f[k] \in Nat
    PROVE  \E k \in 1 .. n : /\ \A l \in 1 .. n : f[k] <= f[l]
                             /\ \A l \in 1 .. k - 1 : f[k] < f[l]
<1> DEFINE V == {f[k] : k \in 1 .. n}
<1>1. PICK m \in V : \A v \in V : m <= v
  <2>1. V \subseteq Nat /\ f[1] \in V
    OBVIOUS
  <2> HIDE DEF V
  <2> QED BY <2>1, NatMin
<1> DEFINE W == {k \in 1 .. n : f[k] = m}
<1>2. PICK k \in W : \A w \in W : k <= w
  <2>1. W \subseteq Nat /\ W # {}
    OBVIOUS
  <2> HIDE DEF W
  <2> QED BY <2>1, NatMin
<1>3. k \in 1 .. n /\ f[k] = m /\ \A l \in 1 .. n : f[k] <= f[l]
  BY <1>1, <1>2
<1>4. ASSUME NEW l \in 1 .. k - 1
      PROVE  f[k] < f[l]
  <2>1. l \in 1 .. n /\ ~(k <= l)
    BY <1>3
  <2>2. f[l] # m
    BY <1>2, <2>1
  <2>3. f[k] <= f[l] /\ f[k] \in Nat /\ f[l] \in Nat
    BY <1>3, <2>1
  <2> QED BY <1>3, <2>2, <2>3
<1> QED BY <1>3, <1>4

\* The process that runs, and the one the walk stands at.
LEMMA Where ==
    ASSUME IInv
    PROVE  /\ selection # Null =>
                 selection \in Procs /\ Prime[selection].condition = 2
           /\ pc = "wake" =>
                 /\ presentN \in Procs /\ Prime[presentN].condition = 3
                 /\ WalkAt \in 1 .. Len(blocked) /\ blocked[WalkAt] = presentN
                 /\ presentN # Null
<1>1. selection # Null => selection \in Procs /\ Prime[selection].condition = 2
  BY DEF IInv, Seats
<1>2. ASSUME pc = "wake"
      PROVE  /\ presentN \in Procs /\ Prime[presentN].condition = 3
             /\ WalkAt \in 1 .. Len(blocked) /\ blocked[WalkAt] = presentN
             /\ presentN # Null
  <2>1. PICK k \in 1 .. Len(blocked) : blocked[k] = presentN
    BY <1>2 DEF IInv, Walks, In
  <2>2. blocked \in Seq(Procs) /\ DOMAIN blocked = 1 .. Len(blocked)
    BY DEF IInv, Seats
  <2>3. WalkAt \in 1 .. Len(blocked) /\ blocked[WalkAt] = presentN
    BY <2>1, <2>2 DEF WalkAt
  <2>4. presentN \in Procs
    BY <2>1, <2>2, ElementOfSeq
  <2>5. In(presentN, blocked)
    BY <2>1 DEF In
  <2> QED BY <2>3, <2>4, <2>5, ProcsAreNodes DEF IInv, Seats
<1> QED BY <1>1, <1>2

\* The nodes of the queue, while it is a sequence.
LEMMA Queued ==
    ASSUME Linked
    PROVE  /\ \A k \in 1 .. ready.n :
                 Chain(ready)[k] \in Waiting /\ Chain(ready)[k] \in Procs
                 /\ Prime[Chain(ready)[k]].condition = 1
           /\ ready.n \in Nat /\ Len(Chain(ready)) = ready.n
           /\ ready.n # 0 => /\ ready.front = Chain(ready)[1] /\ ready.front # Null
                             /\ Chain(ready) # <<>> /\ ready.front \in Waiting
<1>1. PICK s : s = Chain(ready) /\ Represents(ready, s)
  BY DEF Linked
<1>2. s \in Seq(Procs) /\ ready.n = Len(s) /\ Len(s) \in Nat
  BY <1>1, LenProperties DEF Represents
<1>3. ASSUME NEW k \in 1 .. ready.n
      PROVE  s[k] \in Procs /\ s[k] \in Waiting /\ Prime[s[k]].condition = 1
  <2>1. s[k] \in Procs /\ In(s[k], s)
    BY <1>2, ElementOfSeq DEF In
  <2>2. s[k] \in Waiting
    BY <1>1, <2>1 DEF Linked
  <2> QED BY <2>1, <2>2 DEF Waiting
<1>4. ASSUME ready.n # 0
      PROVE  ready.front = s[1] /\ ready.front # Null /\ s # <<>> /\ ready.front \in Waiting
  <2>1. s # <<>> /\ 1 \in 1 .. ready.n
    BY <1>2, <1>4
  <2>2. ready.front = s[1]
    BY <1>1, <2>1 DEF Represents
  <2> QED BY <1>3, <2>1, <2>2, ProcsAreNodes
<1> QED BY <1>1, <1>2, <1>3, <1>4

\* The search of SJF finds the first of the shortest.
LEMMA quickPrimeIs ==
    ASSUME IInv, Linked, ready.n # 0
    PROVE  \E k \in 1 .. ready.n :
              /\ quickPrime = Chain(ready)[k]
              /\ \A l \in 1 .. ready.n : Remaining(Chain(ready)[k]) <= Remaining(Chain(ready)[l])
              /\ \A l \in 1 .. k - 1 : Remaining(Chain(ready)[k]) < Remaining(Chain(ready)[l])
<1>1. PICK s, n : s = Chain(ready) /\ n = ready.n
  OBVIOUS
<1>2. s \in Seq(Procs) /\ n \in Nat /\ DOMAIN s = 1 .. n /\ n # 0 /\ Len(s) = n
  BY <1>1, Queued DEF Linked, Represents
<1> DEFINE f == [k \in 1 .. n |-> Remaining(s[k])]
           Least(k) == /\ \A l \in 1 .. n : Remaining(s[k]) <= Remaining(s[l])
                       /\ \A l \in 1 .. k - 1 : Remaining(s[k]) < Remaining(s[l])
<1>3. \A k \in 1 .. n : f[k] = Remaining(s[k]) /\ f[k] \in Nat
  <2> SUFFICES ASSUME NEW k \in 1 .. n
               PROVE  Remaining(s[k]) \in Nat
    OBVIOUS
  <2>1. s[k] \in Procs /\ Prime[s[k]] \in Process
    BY <1>1, Queued DEF IInv, Types
  <2>2. Prime[s[k]].CPUTime <= Prime[s[k]].C
    BY <2>1 DEF IInv, Bursts
  <2> QED BY <2>1, <2>2 DEF Remaining, Process
<1> HIDE DEF f
<1>4. PICK k \in 1 .. n : /\ \A l \in 1 .. n : f[k] <= f[l]
                          /\ \A l \in 1 .. k - 1 : f[k] < f[l]
  BY <1>2, <1>3, FirstLeast
<1>5. \A l \in 1 .. k - 1 : l \in 1 .. n
  BY <1>2
<1>6. Least(k)
  BY <1>3, <1>4, <1>5
<1>7. quickPrime = s[CHOOSE j \in 1 .. n : Least(j)]
  BY <1>1, <1>2 DEF quickPrime
<1> HIDE DEF Least
<1>8. PICK j \in 1 .. n : quickPrime = s[j] /\ Least(j)
  BY <1>6, <1>7
<1> QED BY <1>1, <1>8 DEF Least

\* What a selection does: the k-th of the queue leaves it and runs.
Picks(k) ==
    LET p == Chain(ready)[k]
    IN  /\ Linked /\ k \in 1 .. ready.n /\ pc = "pick" /\ selection = Null
        /\ Prime[p].condition = 1
        /\ Moves(p) /\ Prime'[p].condition = 2 /\ Prime'[p].operating
        /\ Prime'[p].CPUBurst \in 1 .. Remaining(p)
        /\ selectAlg = RR => Prime'[p].quantum > 0
        /\ Represents(ready', RemoveAt(Chain(ready), k))
        /\ selection' = p /\ p # Null /\ pc' = AfterPick
        /\ selectAlg # SJF => k = 1
        /\ selectAlg = SJF =>
              /\ \A l \in 1 .. ready.n : Remaining(p) <= Remaining(Chain(ready)[l])
              /\ \A l \in 1 .. k - 1 : Remaining(p) < Remaining(Chain(ready)[l])
        /\ UNCHANGED <<passVars, paused, blocked, localVars, uniVars, clockVars, countVars>>

LEMMA PickPicks ==
    ASSUME IInv, Linked, PickShortest \/ PickFirst
    PROVE  \E k \in Nat : Picks(k)
<1>1. PICK s : s = Chain(ready) /\ Represents(ready, s)
  BY DEF Linked
<1>2. ready.n # 0
  BY DEF PickShortest, PickFirst
<1>3. /\ ready.n = Len(s) /\ ready.n \in Nat /\ s # <<>> /\ ready.front = s[1]
      /\ ready.front # Null
      /\ \A k \in 1 .. ready.n : s[k] \in Procs /\ Prime[s[k]].condition = 1
  BY <1>1, <1>2, Queued
<1>4. ASSUME NEW k \in 1 .. ready.n
      PROVE  /\ Prime[s[k]].CPUTime < Prime[s[k]].C /\ s[k] # Null
             /\ Prime[s[k]].quantum \in Int
  <2>1. s[k] \in Procs /\ Prime[s[k]] \in Process
    BY <1>3 DEF IInv, Types
  <2> QED BY <1>3, <2>1, ProcsAreNodes DEF IInv, Bursts, Process
<1>5. CASE PickShortest
  <2>1. PICK k \in 1 .. ready.n :
           /\ quickPrime = s[k]
           /\ \A l \in 1 .. ready.n : Remaining(s[k]) <= Remaining(s[l])
           /\ \A l \in 1 .. k - 1 : Remaining(s[k]) < Remaining(s[l])
    BY <1>1, <1>2, quickPrimeIs
  <2>2. PICK p : p = s[k] /\ p = quickPrime /\ p \in Procs
    BY <1>3, <2>1
  <2>3. PICK drawn \in 1 .. Prime[p].B : Start(p, drawn, Prime[p].quantum)
    BY <1>5, <2>2 DEF PickShortest
  <2>4. /\ Moves(p) /\ Prime'[p].condition = 2 /\ Prime'[p].operating
        /\ Prime'[p].CPUBurst \in 1 .. Remaining(p)
    BY <1>4, <2>2, <2>3, StartMoves DEF IInv
  <2>5. Represents(ready', RemoveAt(s, k))
    <3>1. ready' = Unlink(ready, s[k]) /\ k \in 1 .. Len(s)
      BY <1>3, <1>5, <2>2 DEF PickShortest
    <3> QED BY <1>1, <3>1, UnlinkRemoves
  <2>6. selectAlg = SJF /\ SJF # RR /\ pc = "pick" /\ selection = Null
    BY <1>5 DEF PickShortest, SJF, RR
  <2>7. /\ selection' = p /\ pc' = AfterPick
        /\ UNCHANGED <<passVars, paused, blocked, localVars, uniVars, clockVars, countVars>>
    BY <2>3 DEF Start
  <2>8. Prime[p].condition = 1 /\ p # Null /\ k \in Nat
    <3>1. Prime[s[k]].condition = 1
      BY <1>3
    <3>2. s[k] # Null
      BY <1>4
    <3> QED BY <2>2, <3>1, <3>2
  <2>9. /\ \A l \in 1 .. ready.n : Remaining(p) <= Remaining(s[l])
        /\ \A l \in 1 .. k - 1 : Remaining(p) < Remaining(s[l])
    BY <2>1, <2>2
  <2> QED BY <1>1, <2>2, <2>4, <2>5, <2>6, <2>7, <2>8, <2>9 DEF Picks
<1>6. CASE PickFirst
  <2>1. PICK p : p = s[1] /\ p = ready.front /\ p \in Procs /\ 1 \in 1 .. ready.n
    BY <1>2, <1>3
  <2>2. PICK Q : Q = IF selectAlg = RR THEN 2 ELSE Prime[p].quantum
    OBVIOUS
  <2>3. PICK drawn \in 1 .. Prime[p].B : Start(p, drawn, Q)
    BY <1>3, <1>6, <2>1, <2>2 DEF PickFirst
  <2>4. Q \in Int /\ (selectAlg = RR => Q > 0)
    BY <1>4, <2>1, <2>2
  <2>5. /\ Moves(p) /\ Prime'[p].condition = 2 /\ Prime'[p].operating
        /\ Prime'[p].CPUBurst \in 1 .. Remaining(p) /\ Prime'[p].quantum = Q
    <3>1. Types /\ Q \in Int /\ p \in Procs /\ drawn \in 1 .. Prime[p].B
      BY <2>1, <2>4 DEF IInv
    <3>2. Prime[p].CPUTime < Prime[p].C
      BY <1>4, <2>1
    <3> QED BY ONLY <2>3, <3>1, <3>2, StartMoves
  <2>6. Represents(ready', RemoveAt(s, 1))
    <3>1. ready' = dsetup(ready)
      BY <1>3, <1>6 DEF PickFirst
    <3> QED BY <1>1, <1>3, <3>1, dsetupRemoves
  <2>7. selectAlg # SJF /\ pc = "pick" /\ selection = Null
    BY <1>6 DEF PickFirst
  <2>8. /\ selection' = p /\ pc' = AfterPick
        /\ UNCHANGED <<passVars, paused, blocked, localVars, uniVars, clockVars, countVars>>
    BY <2>3 DEF Start
  <2>9. Prime[p].condition = 1 /\ p # Null
    BY <1>3, <1>4, <2>1
  <2>10. selectAlg = RR => Prime'[p].quantum > 0
    BY <2>4, <2>5
  <2>11. Picks(1)
    BY <1>1, <2>1, <2>5, <2>6, <2>7, <2>8, <2>9, <2>10 DEF Picks
  <2> QED BY <2>11
<1> QED BY <1>5, <1>6

\* A step of executeR that only moves processes between the ready and the pause queue.
Stands ==
    /\ pc \in {"yield", "resume", "pick", "park"} /\ pc' \in Executing
    /\ selectAlg # BLOCK =>
          pc = "pick" /\ pc' = "count" /\ (ready.n = 0 \/ selection # Null)
    /\ UNCHANGED <<passVars, Prime, blocked, presentN, selection, firstPrime,
                   clockVars, countVars>>

\* It moves nobody.
Rests ==
    /\ Stands /\ UNCHANGED <<ready, paused, namelessOp>> /\ ~Slipped /\ pc' # "yield"
    /\ IF pc' = "crash" THEN selectAlg = BLOCK ELSE i' = 0
    /\ i' \in {0, i}
    /\ pc' \in {"resume", "park"} => selectAlg = BLOCK
    /\ \/ pc' = "crash"
       \/ pc = "yield" /\ pc' = "resume" /\ ~(i < ready.n)
       \/ pc = "resume" /\ pc' = "pick" /\ ~(paused # <<>> /\ namelessOp = Null)
       \/ pc = "pick" /\ pc' = AfterPick /\ (ready.n = 0 \/ selection # Null)
       \/ pc = "park" /\ pc' = "count" /\ (selection = Null \/ ~(i < ready.n))

\* It parks the first (dsetup, pauseQue).
Parks(p) ==
    /\ Stands /\ selectAlg = BLOCK /\ pc' = pc
    /\ pc \in {"yield", "park"} /\ (pc = "park" => selection # Null)
    /\ p = ready.front /\ p \in Waiting /\ i < ready.n /\ i' = i + 1
    /\ ready' = IF paused = <<>> THEN [dsetup(ready) EXCEPT !.front = dsetup(ready).back]
                ELSE dsetup(ready)
    /\ paused' = Append(paused, p) /\ namelessOp' = namelessOp

\* It makes the first of the parked ready again.
Resumes(p) ==
    /\ Stands /\ selectAlg = BLOCK /\ pc = "resume" /\ pc' = "pick" /\ i' = i
    /\ paused # <<>> /\ p = Head(paused) /\ namelessOp = Null
    /\ ready' = Qsetup(ready, p) /\ paused' = Tail(paused) /\ namelessOp' = p

\* Setting a condition that is set changes nothing.
LEMMA SetAgain ==
    ASSUME Prime \in [Procs -> Process], NEW p \in Procs, Prime[p].condition = 1
    PROVE  [Prime EXCEPT ![p].condition = 1] = Prime
<1>1. PICK r : r = Prime[p] /\ r \in Process /\ r.condition = 1
  OBVIOUS
<1>2. [r EXCEPT !.condition = 1] = r
  BY <1>1 DEF Process
<1> QED BY <1>1, <1>2

\* One turn of the loops of executeR.
LEMMA ParkLoopIs ==
    ASSUME IInv, NEW next \in {"resume", "count"}, ParkLoop(next),
           \/ pc = "yield" /\ next = "resume"
           \/ pc = "park" /\ next = "count" /\ selection # Null
    PROVE  Rests \/ \E p : Parks(p)
<1>1. /\ selectAlg = BLOCK /\ i \in Nat /\ ready.n \in Nat /\ Prime \in [Procs -> Process]
      /\ pc \in {"yield", "park"}
  BY CountAssumption DEF IInv, Types, Counted, Queue
<1>2. UNCHANGED <<passVars, blocked, presentN, selection, uniVars, clockVars, countVars>>
  BY DEF ParkLoop
<1>3. CASE ~(i < ready.n)
  <2>1. pc' = next /\ i' = 0 /\ UNCHANGED <<Prime, ready, paused>>
    BY <1>3 DEF ParkLoop
  <2>2. ~Slipped
    BY <1>1, <1>3 DEF Slipped
  <2>3. Stands
    BY <1>1, <1>2, <2>1 DEF Stands, Executing, uniVars
  <2>4. Rests
    BY <1>1, <1>2, <1>3, <2>1, <2>2, <2>3 DEF Rests, uniVars
  <2> QED BY <2>4
<1>4. CASE i < ready.n
  <2>1. ParkOne
    BY <1>4 DEF ParkLoop
  <2>2. CASE ready.front = Null
    <3>1. pc' = "crash" /\ UNCHANGED <<Prime, ready, paused, i>>
      BY <2>1, <2>2 DEF ParkOne
    <3>2. ~Slipped
      BY <2>2, ProcsAreNodes DEF Slipped, Waiting
    <3>3. Stands
      BY <1>1, <1>2, <3>1 DEF Stands, Executing, uniVars
    <3>4. Rests
      BY <1>1, <1>2, <3>1, <3>2, <3>3 DEF Rests, uniVars
    <3> QED BY <3>4
  <2>3. CASE ready.front # Null
    <3>1. PICK p : p = ready.front
      OBVIOUS
    <3>2. p \in Waiting
      <4>1. CASE Linked
        BY <1>1, <1>4, <3>1, <4>1, Queued
      <4>2. CASE Slipped \/ Stuck
        BY <2>3, <3>1, <4>2 DEF Slipped, Stuck
      <4> QED BY <4>1, <4>2 DEF IInv, Order
    <3>3. p \in Procs /\ Prime[p].condition = 1
      BY <3>2 DEF Waiting
    <3>4. /\ Prime' = [Prime EXCEPT ![p].condition = 1] /\ i' = i + 1 /\ pc' = pc
          /\ paused' = Append(paused, p)
          /\ ready' = IF paused = <<>> THEN [dsetup(ready) EXCEPT !.front = dsetup(ready).back]
                      ELSE dsetup(ready)
      BY <2>1, <2>3, <3>1 DEF ParkOne
    <3>5. Prime' = Prime
      BY <1>1, <3>3, <3>4, SetAgain
    <3>6. Stands
      BY <1>1, <1>2, <3>4, <3>5 DEF Stands, Executing, uniVars
    <3>7. Parks(p)
      BY <1>1, <1>2, <1>4, <3>1, <3>2, <3>4, <3>6 DEF Parks, uniVars
    <3> QED BY <3>7
  <2> QED BY <2>2, <2>3
<1> QED BY <1>3, <1>4

\* The steps of executeR.
LEMMA executeRIs ==
    ASSUME IInv, executeR
    PROVE  Rests \/ (\E p : Parks(p) \/ Resumes(p)) \/ (\E k \in Nat : Picks(k))
<1>1. Types /\ Prime \in [Procs -> Process] /\ FCFS # BLOCK /\ RR # BLOCK /\ SJF # BLOCK
  BY DEF IInv, Types, FCFS, RR, SJF, BLOCK
<1>2. CASE ParkOthers
  BY <1>2, ParkLoopIs DEF ParkOthers
<1>3. CASE ParkReady
  <2>1. CASE selection # Null
    BY <1>3, <2>1, ParkLoopIs DEF ParkReady
  <2>2. CASE selection = Null
    <3>1. /\ pc = "park" /\ pc' = "count"
          /\ UNCHANGED <<passVars, Prime, queueVars, localVars, selection, uniVars,
                         clockVars, countVars>>
      BY <1>3, <2>2 DEF ParkReady
    <3>2. selectAlg = BLOCK /\ i = 0
      BY <1>1, <2>2, <3>1 DEF Types
    <3>3. ~Slipped
      BY <2>2, <3>1 DEF Slipped
    <3>4. Stands
      BY <3>1, <3>2 DEF Stands, Executing, queueVars, localVars, uniVars
    <3>5. Rests
      BY <2>2, <3>1, <3>2, <3>3, <3>4 DEF Rests, queueVars, localVars, uniVars
    <3> QED BY <3>5
  <2> QED BY <2>1, <2>2
<1>4. CASE Resume
  <2>1. /\ pc = "resume" /\ pc' = "pick" /\ selectAlg = BLOCK /\ i' = i /\ i = 0
        /\ UNCHANGED <<passVars, blocked, localVars, selection, firstPrime, clockVars, countVars>>
    BY <1>1, <1>4 DEF Resume, Types, localVars
  <2>2. CASE paused # <<>> /\ namelessOp = Null
    <3>1. PICK p : p = Head(paused)
      OBVIOUS
    <3>2. /\ Prime' = [Prime EXCEPT ![p].condition = 1] /\ namelessOp' = p
          /\ paused' = Tail(paused) /\ ready' = Qsetup(ready, p)
      BY <1>4, <2>2, <3>1 DEF Resume
    <3>3. p \in Procs /\ Prime[p].condition = 1
      <4>1. paused \in Seq(Procs)
        BY DEF IInv, Seats
      <4>2. p = paused[1] /\ 1 \in 1 .. Len(paused) /\ p \in Procs
        BY <2>2, <3>1, <4>1
      <4> QED BY <4>2 DEF IInv, Seats, In
    <3>4. Prime' = Prime
      BY <1>1, <3>2, <3>3, SetAgain
    <3>5. Stands
      BY <2>1, <3>4 DEF Stands, Executing, localVars
    <3>6. Resumes(p)
      BY <2>1, <2>2, <3>1, <3>2, <3>5 DEF Resumes
    <3> QED BY <3>6
  <2>3. CASE ~(paused # <<>> /\ namelessOp = Null)
    <3>1. UNCHANGED <<Prime, namelessOp, paused, ready>>
      BY <1>4, <2>3 DEF Resume
    <3>2. ~Slipped
      BY <2>1 DEF Slipped
    <3>3. Stands
      BY <2>1, <3>1 DEF Stands, Executing, localVars
    <3>4. Rests
      BY <2>1, <2>3, <3>1, <3>2, <3>3 DEF Rests
    <3> QED BY <3>4
  <2> QED BY <2>2, <2>3
<1>5. CASE NoPick
  <2>1. /\ pc = "pick" /\ pc' = AfterPick /\ i = 0 /\ (ready.n = 0 \/ selection # Null)
        /\ UNCHANGED <<passVars, Prime, queueVars, localVars, selection, uniVars,
                       clockVars, countVars>>
    BY <1>1, <1>5 DEF NoPick, Types
  <2>2. ~Slipped
    BY <2>1 DEF Slipped
  <2>3. /\ pc' \in {"park", "count"} /\ (pc' = "park" => selectAlg = BLOCK)
        /\ (selectAlg # BLOCK => pc' = "count")
    BY <2>1 DEF AfterPick
  <2>4. Stands
    BY <2>1, <2>3 DEF Stands, Executing, queueVars, localVars, uniVars
  <2>5. Rests
    BY <2>1, <2>2, <2>3, <2>4 DEF Rests, queueVars, localVars, uniVars
  <2> QED BY <2>5
<1>6. CASE PickShortest \/ PickFirst
  <2>1. pc = "pick" /\ i = 0 /\ ready.n # 0 /\ selection = Null
    BY <1>1, <1>6 DEF PickShortest, PickFirst, Types
  <2>2. CASE Linked
    BY <1>6, <2>2, PickPicks
  <2>3. CASE ~Linked
    <3>1. selectAlg = BLOCK /\ Stuck
      BY <2>1, <2>3 DEF IInv, Order, Slipped
    <3>2. /\ pc' = "crash"
          /\ UNCHANGED <<passVars, Prime, queueVars, localVars, selection, uniVars,
                         clockVars, countVars>>
      BY <1>1, <1>6, <3>1 DEF PickShortest, PickFirst, Stuck
    <3>3. ~Slipped
      BY <2>1 DEF Slipped
    <3>4. Stands
      BY <2>1, <3>1, <3>2 DEF Stands, Executing, queueVars, localVars, uniVars
    <3>5. Rests
      BY <2>1, <3>1, <3>2, <3>3, <3>4 DEF Rests, queueVars, localVars, uniVars
    <3> QED BY <3>5
  <2> QED BY <2>2, <2>3
<1> QED BY <1>2, <1>3, <1>4, <1>5, <1>6 DEF executeR

\* The steps there are.
LEMMA Steps ==
    ASSUME IInv, [Next]_vars
    PROVE  \/ UNCHANGED vars \/ Idle \/ Terminate \/ insertB \/ Preempt \/ KeepRunning
           \/ execxuteB \/ CreateNext \/ CreateEnd
           \/ Rests \/ (\E p : Parks(p)) \/ (\E p : Resumes(p)) \/ (\E k \in Nat : Picks(k))
           \/ countdown \/ EndPass
BY executeRIs DEF Next, datapoint, proceedForward, creation, Terminated

\* The algorithm of a call stays.
LEMMA AlgorithmStays ==
    ASSUME [Next]_vars
    PROVE  selectAlg' = selectAlg
<1>1. CASE UNCHANGED vars
  BY <1>1 DEF vars, passVars
<1>2. CASE proceedForward \/ execxuteB \/ creation \/ countdown \/ EndPass \/ Terminated
  BY <1>2 DEF proceedForward, Idle, Terminate, insertB, Preempt, KeepRunning, StartWake,
     execxuteB, creation, CreateNext, CreateEnd, countdown, EndPass, Terminated, vars, passVars
<1>3. CASE executeR
  <2>1. CASE ParkOthers \/ Resume \/ NoPick \/ ParkReady
    BY <2>1 DEF ParkOthers, ParkLoop, Resume, NoPick, ParkReady, passVars
  <2>2. CASE PickShortest \/ PickFirst
    BY <2>2 DEF PickShortest, PickFirst, Start, passVars
  <2> QED BY <1>3, <2>1, <2>2 DEF executeR
<1> QED BY <1>1, <1>2, <1>3 DEF Next, datapoint

-----------------------------------------------------------------------------
(* Types. *)

\* Tick and Fresh make processes.
LEMMA TickIs ==
    ASSUME NEW r \in Process, selectAlg \in FCFS .. SJF
    PROVE  /\ Tick(r) \in Process /\ Tick(r).condition = r.condition
           /\ Tick(r).A = r.A /\ Tick(r).C = r.C /\ Tick(r).operating = r.operating
           /\ Tick(r).finishingTime = r.finishingTime
           /\ Tick(r).CPUTime = IF r.condition = 2 THEN r.CPUTime + 1 ELSE r.CPUTime
           /\ Tick(r).Btime = IF r.condition = 3 THEN r.Btime + 1 ELSE r.Btime
           /\ Tick(r).currentWaitingTime =
                 IF r.condition = 1 THEN r.currentWaitingTime + 1 ELSE r.currentWaitingTime
           /\ Tick(r).BurstTime = IF r.condition = 3 THEN r.BurstTime - 1 ELSE r.BurstTime
           /\ Tick(r).CPUBurst = IF r.condition = 2 THEN r.CPUBurst - 1 ELSE r.CPUBurst
<1>1. CASE r.condition = 1
  <2>1. Tick(r) = [r EXCEPT !.currentWaitingTime = r.currentWaitingTime + 1]
    BY <1>1 DEF Tick
  <2> QED BY <1>1, <2>1 DEF Process
<1>2. CASE r.condition = 2
  <2>1. PICK Q : Q = (IF selectAlg = RR THEN r.quantum - 1 ELSE r.quantum) /\ Q \in Int
    BY DEF Process
  <2>2. Tick(r) = [r EXCEPT !.CPUTime = r.CPUTime + 1, !.CPUBurst = r.CPUBurst - 1,
                            !.quantum = Q]
    BY <1>2, <2>1 DEF Tick
  <2>3. Tick(r) \in Process
    <3>1. r.CPUTime + 1 \in Nat /\ r.CPUBurst - 1 \in Int
      BY DEF Process
    <3> QED BY <2>1, <2>2, <3>1 DEF Process
  <2> QED BY <1>2, <2>2, <2>3 DEF Process
<1>3. CASE r.condition = 3
  <2>1. Tick(r) = [r EXCEPT !.Btime = r.Btime + 1, !.BurstTime = r.BurstTime - 1]
    BY <1>3 DEF Tick
  <2>2. Tick(r) \in Process
    <3>1. r.Btime + 1 \in Nat /\ r.BurstTime - 1 \in Int
      BY DEF Process
    <3> QED BY <2>1, <3>1 DEF Process
  <2> QED BY <1>3, <2>1, <2>2 DEF Process
<1>4. CASE r.condition \notin 1 .. 3
  <2>1. Tick(r) = r
    BY <1>4 DEF Tick
  <2> QED BY <1>4, <2>1
<1> QED BY <1>1, <1>2, <1>3, <1>4

LEMMA FreshIs ==
    ASSUME NEW in, in.A \in Nat, in.B \in Nat \ {0}, in.C \in Nat \ {0}, in.M \in Nat,
           NEW Q \in Int
    PROVE  /\ [Fresh(in) EXCEPT !.quantum = Q] \in Process /\ Fresh(in) \in Process
           /\ [Fresh(in) EXCEPT !.quantum = Q].condition = 0
           /\ [Fresh(in) EXCEPT !.quantum = Q].A = in.A
           /\ [Fresh(in) EXCEPT !.quantum = Q].C = in.C
           /\ [Fresh(in) EXCEPT !.quantum = Q].CPUTime = 0
           /\ [Fresh(in) EXCEPT !.quantum = Q].Btime = 0
           /\ [Fresh(in) EXCEPT !.quantum = Q].currentWaitingTime = 0
<1>1. Fresh(in) \in Process
  BY DEF Fresh, Process
<1>2. [Fresh(in) EXCEPT !.quantum = Q] \in Process
  BY <1>1 DEF Process
<1> QED BY <1>1, <1>2 DEF Fresh

\* The clock, the counters of the loops and the part of datapoint that is next.
LEMMA TypesKept ==
    ASSUME IInv, [Next]_vars
    PROVE  Types'
<1>1. /\ Types /\ Bursts
      /\ selection # Null => selection \in Procs /\ Prime[selection].condition = 2
      /\ pc = "wake" => presentN \in Procs
      /\ TimeBound \in Nat /\ countPrime \in Nat
  BY Where, TimeBoundAssumption, CountAssumption DEF IInv
<1>2. ASSUME Prime' \in [Procs -> Process], selectAlg' = selectAlg, pass' = pass,
             present' = present, totalTimeNumber' = totalTimeNumber,
             namelessOp' \in Procs \cup {Null}, firstPrime' = firstPrime, pc # "done",
             \/ pc' \in {"wake", "create", "pick", "count"}
             \/ selectAlg = BLOCK /\ pc' \in {"yield", "resume", "park", "crash"},
             i' \in 0 .. countPrime,
             \/ i' = 0
             \/ pc' = "crash"
             \/ /\ pc' \in {"yield", "park"} /\ paused' # <<>>
                /\ pc' = "park" => selection' # Null
      PROVE  Types'
  BY <1>1, <1>2 DEF Types
<1>3. CASE UNCHANGED vars
  BY <1>1, <1>3 DEF vars, passVars, queueVars, clockVars, localVars, uniVars, Types
<1>4. ASSUME proceedForward, Prime' \in [Procs -> Process]
      PROVE  Types'
  <2>1. /\ selectAlg' = selectAlg /\ pass' = pass /\ present' = present /\ i' = i
        /\ totalTimeNumber' = totalTimeNumber /\ firstPrime' = firstPrime
        /\ pc' \in {"wake", "create"} /\ pc = "proceed"
    BY <1>4 DEF proceedForward, Idle, Terminate, insertB, Preempt, KeepRunning, AtHead,
                StartWake, passVars, clockVars
  <2>2. namelessOp' \in {Null, namelessOp}
    BY <1>4 DEF proceedForward, Idle, Terminate, insertB, Preempt, KeepRunning
  <2>3. i = 0 /\ namelessOp' \in Procs \cup {Null}
    BY <1>1, <2>1, <2>2 DEF Types
  <2> QED BY <1>1, <1>2, <1>4, <2>1, <2>3
<1>5. CASE Idle
  BY <1>1, <1>4, <1>5 DEF Idle, proceedForward, Types
<1>6. CASE Terminate \/ insertB \/ Preempt \/ KeepRunning
  <2>1. AtHead /\ selection # Null
    BY <1>6 DEF Terminate, insertB, Preempt, KeepRunning
  <2>2. Moves(selection)
    BY <1>1, <1>6, <2>1, ProceedMoves
  <2> QED BY <1>4, <1>6, <2>2 DEF Moves, proceedForward
<1>7. CASE execxuteB
  <2>1. Prime' \in [Procs -> Process]
    <3>1. CASE Due
      BY <1>1, <1>7, <3>1, ReadyMoves DEF execxuteB, Moves
    <3>2. CASE ~Due
      BY <1>1, <1>7, <3>2 DEF execxuteB, Types
    <3> QED BY <3>1, <3>2
  <2>2. /\ selectAlg' = selectAlg /\ pass' = pass /\ present' = present /\ i' = i
        /\ totalTimeNumber' = totalTimeNumber /\ firstPrime' = firstPrime
        /\ namelessOp' = namelessOp /\ pc' \in {"wake", "create"} /\ pc = "wake"
    BY <1>7 DEF execxuteB, passVars, clockVars, uniVars
  <2>3. i = 0 /\ namelessOp \in Procs \cup {Null}
    BY <1>1, <2>2 DEF Types
  <2> QED BY <1>1, <1>2, <2>1, <2>2, <2>3
<1>8. CASE CreateNext
  <2>1. i + 1 \in Procs /\ i # countPrime
    BY <1>1, <1>8 DEF CreateNext, AllVisited, Types, Procs
  <2>2. Prime' \in [Procs -> Process] /\ namelessOp' \in Procs \cup {Null} /\ firstPrime' \in BOOLEAN
    <3>1. CASE Arrives(i + 1)
      <4>1. Prime' \in [Procs -> Process]
        BY <1>1, <1>8, <2>1, <3>1, ReadyMoves DEF CreateNext, Moves
      <4>2. CASE namelessOp = Null /\ firstPrime
        BY <1>8, <2>1, <3>1, <4>1, <4>2 DEF CreateNext
      <4>3. CASE ~(namelessOp = Null /\ firstPrime)
        BY <1>1, <1>8, <3>1, <4>1, <4>3 DEF CreateNext, uniVars, Types
      <4> QED BY <4>2, <4>3
    <3>2. CASE ~Arrives(i + 1)
      BY <1>1, <1>8, <3>2 DEF CreateNext, uniVars, Types
    <3> QED BY <3>1, <3>2
  <2>3. /\ selectAlg' = selectAlg /\ pass' = pass /\ present' = present /\ i' = i + 1
        /\ totalTimeNumber' = totalTimeNumber /\ pc' = pc /\ pc = "create"
    BY <1>8 DEF CreateNext, passVars, clockVars
  <2> QED BY <1>1, <2>1, <2>2, <2>3 DEF Types
<1>9. CASE CreateEnd
  <2>1. /\ selectAlg' = selectAlg /\ pass' = pass /\ present' = present /\ i' = 0
        /\ totalTimeNumber' = totalTimeNumber /\ firstPrime' = firstPrime
        /\ namelessOp' = namelessOp /\ pc = "create" /\ Prime' = Prime
        /\ pc' = "pick" \/ (selectAlg = BLOCK /\ pc' \in {"yield", "resume"})
    BY <1>9 DEF CreateEnd, passVars, clockVars, uniVars
  <2>2. Prime \in [Procs -> Process] /\ namelessOp \in Procs \cup {Null}
    BY <1>1 DEF Types
  <2> QED BY <1>1, <1>2, <2>1, <2>2
<1>10. CASE Rests \/ \E p : Parks(p) \/ Resumes(p)
  <2>1. /\ selectAlg' = selectAlg /\ pass' = pass /\ present' = present
        /\ totalTimeNumber' = totalTimeNumber /\ firstPrime' = firstPrime /\ Prime' = Prime
        /\ pc \in {"yield", "resume", "pick", "park"} /\ selection' = selection
    BY <1>10 DEF Rests, Parks, Resumes, Stands, passVars, clockVars
  <2>2. /\ Prime \in [Procs -> Process] /\ namelessOp \in Procs \cup {Null}
        /\ i \in 0 .. countPrime
    BY <1>1 DEF Types
  <2>3. CASE Rests
    <3>1. /\ namelessOp' = namelessOp /\ i' \in {0, i} /\ (i' = 0 \/ pc' = "crash")
          /\ \/ pc' \in {"pick", "count"}
             \/ selectAlg = BLOCK /\ pc' \in {"resume", "park", "crash"}
      BY <2>3 DEF Rests, Stands, Executing
    <3> QED BY <1>1, <1>2, <2>1, <2>2, <3>1
  <2>4. CASE \E p : Parks(p)
    <3>1. PICK p : Parks(p)
      BY <2>4
    <3>2. /\ namelessOp' = namelessOp /\ i' = i + 1 /\ i < ready.n /\ pc' = pc
          /\ pc \in {"yield", "park"} /\ (pc = "park" => selection # Null)
          /\ paused' = Append(paused, p) /\ selectAlg = BLOCK
      BY <3>1 DEF Parks
    <3>3. paused' # <<>>
      BY <3>1, <3>2, AppendProperties DEF IInv, Seats, Parks, Waiting
    <3>4. ready.n \in 0 .. countPrime
      BY ProcsFinite DEF IInv, Counted, Waiting
    <3>5. i' \in 0 .. countPrime
      BY <1>1, <2>2, <3>2, <3>4
    <3> QED BY <1>2, <2>1, <2>2, <3>2, <3>3, <3>5
  <2>5. CASE \E p : Resumes(p)
    <3>1. PICK p : Resumes(p)
      BY <2>5
    <3>2. i' = i /\ pc = "resume" /\ pc' = "pick" /\ namelessOp' = Head(paused) /\ paused # <<>>
      BY <3>1 DEF Resumes
    <3>3. i = 0 /\ Head(paused) \in Procs
      BY <1>1, <3>2 DEF Types, IInv, Seats
    <3> QED BY <1>1, <1>2, <2>1, <2>2, <3>2, <3>3
  <2> QED BY <1>10, <2>3, <2>4, <2>5
<1>11. CASE \E k \in Nat : Picks(k)
  <2>1. /\ selectAlg' = selectAlg /\ pass' = pass /\ present' = present /\ i' = i
        /\ totalTimeNumber' = totalTimeNumber /\ firstPrime' = firstPrime
        /\ namelessOp' = namelessOp /\ pc' = AfterPick /\ pc = "pick"
        /\ Prime' \in [Procs -> Process]
    BY <1>11 DEF Picks, Moves, passVars, clockVars, localVars, uniVars
  <2>2. i = 0 /\ namelessOp \in Procs \cup {Null}
    BY <1>1, <2>1 DEF Types
  <2> QED BY <1>1, <1>2, <2>1, <2>2 DEF AfterPick
<1>12. CASE countdown
  <2>1. Prime' \in [Procs -> Process]
    BY <1>1, <1>12, TickIs DEF countdown, Types
  <2>2. /\ selectAlg' = selectAlg /\ pass' = pass /\ present' = present + 1 /\ i' = i
        /\ totalTimeNumber' \in {totalTimeNumber, totalTimeNumber + 1}
        /\ firstPrime' = firstPrime
        /\ namelessOp' = namelessOp /\ pc' = "proceed" /\ pc = "count" /\ present < TimeBound
    <3>1. totalTimeNumber' \in {totalTimeNumber, totalTimeNumber + 1}
      BY <1>1, <1>12 DEF countdown, Types
    <3> QED BY <1>12, <3>1 DEF countdown, passVars, localVars, uniVars
  <2>3. present' \in 0 .. TimeBound /\ totalTimeNumber' \in 0 .. present'
    BY <1>1, <2>2 DEF Types
  <2> QED BY <1>1, <2>1, <2>2, <2>3 DEF Types
<1>13. CASE EndPass
  <2>1. Prime' \in [Procs -> Process]
    <3>1. \A p \in Procs : Prime[p] \in Process
      BY <1>1 DEF Types
    <3>2. \A p \in Procs : [Fresh(Prime[p]) EXCEPT !.quantum = Prime[p].quantum] \in Process
      <4> TAKE p \in Procs
      <4>1. /\ Prime[p].A \in Nat /\ Prime[p].B \in Nat \ {0} /\ Prime[p].C \in Nat \ {0}
            /\ Prime[p].M \in Nat /\ Prime[p].quantum \in Int
        BY <3>1 DEF Process
      <4> QED BY <4>1, FreshIs
    <3> QED BY <1>13, <3>2 DEF EndPass, Extra, ExtraProcesses
  <2>2. /\ selectAlg' = selectAlg /\ pass' = pass + 1 /\ present' = 0 /\ i' = i
        /\ totalTimeNumber' = 0 /\ namelessOp' = Null /\ firstPrime' = TRUE
        /\ pc' = (IF pass = 1 THEN "proceed" ELSE "done") /\ pc = "proceed"
    BY <1>13 DEF EndPass, Extra, ExtraUni, localVars
  <2>3. pass \in 1 .. 2 /\ i = 0
    BY <1>1, <2>2 DEF Types
  <2> QED BY <1>1, <2>1, <2>2, <2>3 DEF Types
<1> QED BY Steps, <1>3, <1>5, <1>6, <1>7, <1>8, <1>9, <1>10, <1>11, <1>12, <1>13

\* Extra makes every process as it was given.
LEMMA ExtraIs ==
    ASSUME EndPass, NEW p \in Procs
    PROVE  Prime'[p].condition = 0
<1>1. [Fresh(Prime[p]) EXCEPT !.quantum = Prime[p].quantum].condition = 0
  BY DEF Fresh
<1> QED BY <1>1 DEF EndPass, Extra, ExtraProcesses

\* creation adds the processes that arrive now.
LEMMA CreateNextIs ==
    ASSUME IInv, CreateNext
    PROVE  /\ i + 1 \in Procs /\ ~Visited(i + 1) /\ i \in Nat /\ i' = i + 1
           /\ pc = "create" /\ pc' = "create" /\ present' = present /\ selectAlg' = selectAlg
           /\ Arrives(i + 1) => /\ Moves(i + 1) /\ Prime[i + 1].condition = 0
                                /\ Prime'[i + 1].condition = 1
                                /\ ready' = Qsetup(ready, i + 1)
                                /\ totalPrime' = totalPrime + 1
           /\ ~Arrives(i + 1) => Prime' = Prime /\ ready' = ready /\ totalPrime' = totalPrime
<1>1. Types /\ countPrime \in Nat
  BY CountAssumption DEF IInv
<1>2. i + 1 \in Procs /\ ~Visited(i + 1) /\ i \in Nat
  BY <1>1 DEF CreateNext, AllVisited, Types, Procs, Visited, Executing
<1>3. ASSUME Arrives(i + 1)
      PROVE  Moves(i + 1) /\ Prime[i + 1].condition = 0 /\ Prime'[i + 1].condition = 1
  <2>1. Prime' = [Prime EXCEPT ![i + 1].condition = 1]
    BY <1>3 DEF CreateNext
  <2>2. present \in Int /\ Prime[i + 1].A = present
    BY <1>1, <1>3 DEF Types, Arrives
  <2>3. Prime[i + 1].condition = 0
    BY <1>2, <2>2 DEF IInv, Arrivals
  <2> QED BY <1>1, <1>2, <2>1, <2>3, ReadyMoves
<1> QED BY <1>2, <1>3 DEF CreateNext, passVars, clockVars

-----------------------------------------------------------------------------
(* Places. *)

\* When one process moves, and nobody is paused.
LEMMA SeatsIf ==
    ASSUME IInv, selectAlg' = selectAlg, paused' = paused, NEW p \in Procs, Moves(p),
           Prime'[p].condition = 1 \/ ~In(p, paused),
           blocked' \in Seq(Procs), Once(blocked'), selection' \in Procs \cup {Null},
           \A x \in Procs : x # p => /\ selection' = x <=> selection = x
                                     /\ In(x, blocked') <=> In(x, blocked),
           Prime'[p].condition = 2 <=> selection' = p,
           Prime'[p].condition = 3 <=> In(p, blocked')
    PROVE  Seats'
<1>1. /\ paused \in Seq(Procs) /\ Once(paused) /\ (selectAlg # BLOCK => paused = <<>>)
      /\ \A x \in Procs : /\ In(x, paused) => Prime[x].condition = 1
                          /\ Prime[x].condition = 2 <=> selection = x
                          /\ Prime[x].condition = 3 <=> In(x, blocked)
  BY DEF IInv, Seats
<1>2. \A x \in Procs : x # p => Prime'[x] = Prime[x]
  BY DEF Moves
<1>3. ASSUME NEW x \in Procs
      PROVE  /\ In(x, paused) => Prime'[x].condition = 1
             /\ Prime'[x].condition = 2 <=> selection' = x
             /\ Prime'[x].condition = 3 <=> In(x, blocked')
  <2>1. CASE x = p
    BY <2>1
  <2>2. CASE x # p
    BY <1>1, <1>2, <2>2
  <2> QED BY <2>1, <2>2
<1> QED BY <1>1, <1>3 DEF Seats

LEMMA SeatsKept ==
    ASSUME IInv, [Next]_vars
    PROVE  Seats'
<1>1. /\ paused \in Seq(Procs) /\ Once(paused) /\ (selectAlg # BLOCK => paused = <<>>)
      /\ blocked \in Seq(Procs) /\ Once(blocked)
      /\ selection \in Procs \cup {Null} /\ Null \notin Procs
      /\ \A p \in Procs : /\ In(p, paused) => Prime[p].condition = 1
                          /\ Prime[p].condition = 2 <=> selection = p
                          /\ Prime[p].condition = 3 <=> In(p, blocked)
  BY ProcsAreNodes DEF IInv, Seats
<1>2. Types /\ Bursts /\ Prime \in [Procs -> Process] /\ selectAlg' = selectAlg
  BY AlgorithmStays DEF IInv, Types
<1>3. ASSUME paused' \in Seq(Procs), Once(paused'), selectAlg # BLOCK => paused' = <<>>,
             \A p \in Procs : In(p, paused') => Prime[p].condition = 1,
             blocked' = blocked, selection' = selection,
             \A p \in Procs : Prime'[p].condition = Prime[p].condition
      PROVE  Seats'
  BY <1>1, <1>2, <1>3 DEF Seats
<1>4. ASSUME paused' = paused, blocked' = blocked, selection' = selection,
             \A p \in Procs : Prime'[p].condition = Prime[p].condition
      PROVE  Seats'
  BY <1>1, <1>3, <1>4
<1>5. ASSUME UNCHANGED vars \/ Idle \/ CreateEnd \/ Rests
      PROVE  Seats'
  BY <1>4, <1>5 DEF vars, Idle, CreateEnd, Rests, Stands, StartWake, queueVars
<1>6. ASSUME Terminate \/ insertB \/ Preempt \/ KeepRunning
      PROVE  Seats'
  <2>1. PICK p : p = selection
    OBVIOUS
  <2>2. p \in Procs /\ Prime[p].condition = 2 /\ AtHead
    BY <1>1, <1>6, <2>1 DEF Terminate, insertB, Preempt, KeepRunning
  <2>3. ~In(p, paused) /\ ~In(p, blocked) /\ paused' = paused
    BY <1>1, <1>6, <2>2 DEF Terminate, insertB, Preempt, KeepRunning, StartWake
  <2>4. Moves(p)
    BY <1>2, <1>6, <2>1, <2>2, ProceedMoves
  <2>5. CASE Terminate
    <3>1. Prime'[p].condition = 4 /\ blocked' = blocked /\ selection' = Null
      BY <1>2, <2>1, <2>2, <2>5, ProceedMoves DEF Terminate
    <3> QED BY <1>1, <1>2, <2>1, <2>2, <2>3, <2>4, <3>1, SeatsIf
  <2>6. CASE insertB
    <3>1. Prime'[p].condition = 3 /\ blocked' = Append(blocked, p) /\ selection' = Null
      BY <1>2, <2>1, <2>2, <2>6, ProceedMoves DEF insertB
    <3>2. /\ blocked' \in Seq(Procs) /\ Once(blocked')
          /\ \A x : In(x, blocked') <=> In(x, blocked) \/ x = p
      BY <1>1, <2>2, <2>3, <3>1, AppendOnce
    <3> QED BY <1>1, <1>2, <2>1, <2>2, <2>3, <2>4, <3>1, <3>2, SeatsIf
  <2>7. CASE Preempt
    <3>1. Prime'[p].condition = 1 /\ blocked' = blocked /\ selection' = Null
      BY <1>2, <2>1, <2>2, <2>7, ProceedMoves DEF Preempt
    <3> QED BY <1>1, <1>2, <2>1, <2>2, <2>3, <2>4, <3>1, SeatsIf
  <2>8. CASE KeepRunning
    <3>1. Prime'[p].condition = 2 /\ blocked' = blocked /\ selection' = selection
      BY <1>2, <2>1, <2>2, <2>8, ProceedMoves DEF KeepRunning
    <3> QED BY <1>1, <1>2, <2>1, <2>2, <2>3, <2>4, <3>1, SeatsIf
  <2> QED BY <1>6, <2>5, <2>6, <2>7, <2>8
<1>7. CASE execxuteB
  <2>1. pc = "wake" /\ paused' = paused /\ selection' = selection
    BY <1>7 DEF execxuteB
  <2>2. PICK p, k : /\ p = presentN /\ p \in Procs /\ Prime[p].condition = 3
                    /\ k = WalkAt /\ k \in 1 .. Len(blocked) /\ blocked[k] = p
    BY <2>1, Where
  <2>3. CASE Due
    <3>1. Prime' = [Prime EXCEPT ![p].condition = 1] /\ blocked' = RemoveAt(blocked, k)
      BY <1>7, <2>2, <2>3 DEF execxuteB
    <3>2. Moves(p) /\ Prime'[p].condition = 1
      BY <1>2, <2>2, <3>1, ReadyMoves
    <3>3. /\ blocked' \in Seq(Procs) /\ Once(blocked')
          /\ \A x : In(x, blocked') <=> In(x, blocked) /\ x # p
      BY <1>1, <2>2, <3>1, Removed, RemovedOnce
    <3>4. selection # p
      BY <1>1, <2>2
    <3> QED BY <1>1, <1>2, <2>1, <2>2, <3>2, <3>3, <3>4, SeatsIf
  <2>4. CASE ~Due
    BY <1>4, <1>7, <2>1, <2>4 DEF execxuteB
  <2> QED BY <2>3, <2>4
<1>8. CASE CreateNext
  <2>1. paused' = paused /\ selection' = selection /\ blocked' = blocked
    BY <1>8 DEF CreateNext
  <2>2. CASE Arrives(i + 1)
    <3>1. PICK p : Moves(p) /\ Prime[p].condition = 0 /\ Prime'[p].condition = 1
      BY <1>8, <2>2, CreateNextIs
    <3>2. p \in Procs /\ selection # p /\ ~In(p, blocked)
      BY <1>1, <3>1 DEF Moves
    <3> QED BY <1>1, <1>2, <2>1, <3>1, <3>2, SeatsIf
  <2>3. CASE ~Arrives(i + 1)
    BY <1>4, <1>8, <2>1, <2>3, CreateNextIs
  <2> QED BY <2>2, <2>3
<1>9. CASE \E p : Parks(p)
  <2>1. PICK p : Parks(p)
    BY <1>9
  <2>2. /\ p \in Procs /\ ~In(p, paused) /\ Prime[p].condition = 1 /\ selectAlg = BLOCK
        /\ paused' = Append(paused, p)
        /\ blocked' = blocked /\ selection' = selection /\ Prime' = Prime
    BY <2>1 DEF Parks, Stands, Waiting
  <2>3. /\ paused' \in Seq(Procs) /\ Once(paused')
        /\ \A x : In(x, paused') <=> In(x, paused) \/ x = p
    BY <1>1, <2>2, AppendOnce
  <2> QED BY <1>1, <1>3, <2>2, <2>3
<1>10. CASE \E p : Resumes(p)
  <2>1. PICK p : Resumes(p)
    BY <1>10
  <2>2. /\ selectAlg = BLOCK /\ paused # <<>> /\ paused' = Tail(paused)
        /\ blocked' = blocked /\ selection' = selection /\ Prime' = Prime
    BY <2>1 DEF Resumes, Stands
  <2>3. /\ paused' \in Seq(Procs) /\ Once(paused')
        /\ \A x : In(x, paused') => In(x, paused)
    BY <1>1, <2>2, OnceTail
  <2> QED BY <1>1, <1>3, <2>2, <2>3
<1>11. CASE \E k \in Nat : Picks(k)
  <2>1. PICK k \in Nat : Picks(k)
    BY <1>11
  <2>2. PICK p : p = Chain(ready)[k]
    OBVIOUS
  <2>3. /\ Linked /\ k \in 1 .. ready.n /\ Moves(p) /\ Prime[p].condition = 1
        /\ Prime'[p].condition = 2 /\ selection = Null /\ selection' = p
        /\ paused' = paused /\ blocked' = blocked
    BY <2>1, <2>2 DEF Picks
  <2>4. p \in Procs /\ ~In(p, paused) /\ ~In(p, blocked)
    BY <1>1, <2>2, <2>3, Queued DEF Waiting
  <2> QED BY <1>1, <1>2, <2>3, <2>4, SeatsIf
<1>12. CASE countdown
  <2>1. \A p \in Procs : Prime'[p].condition = Prime[p].condition
    BY <1>2, <1>12, TickIs DEF countdown, Types
  <2> QED BY <1>4, <1>12, <2>1 DEF countdown, queueVars
<1>13. CASE EndPass
  <2>1. \A p \in Procs : Prime'[p].condition = 0
    BY <1>13, ExtraIs
  <2>2. paused' = <<>> /\ blocked' = <<>> /\ selection' = Null
    BY <1>13 DEF EndPass, Extra
  <2>3. <<>> \in Seq(Procs) /\ Once(<<>>) /\ \A p : ~In(p, <<>>)
    BY DEF Once, In
  <2> QED BY <1>1, <2>1, <2>2, <2>3 DEF Seats
<1> QED BY Steps, <1>5, <1>6, <1>7, <1>8, <1>9, <1>10, <1>11, <1>12, <1>13

-----------------------------------------------------------------------------
(* The ready queue. *)

LEMMA LinkedIf ==
    ASSUME NEW t, Represents(ready', t), \A p \in Procs : p \in Waiting' <=> In(p, t)
    PROVE  Linked' /\ Chain(ready') = t
<1>1. Chain(ready') = t
  BY ChainIs
<1> QED BY <1>1 DEF Linked

\* A queue in order stays so, and one that has come apart too.
Persists == (Linked => Linked') /\ (Stuck => Stuck')

\* Qsetup, whatever has become of the pointers.
LEMMA JoinsKept ==
    ASSUME IInv, ~Slipped, selectAlg' = selectAlg, NEW p \in Procs, p \notin Waiting,
           Waiting' = Waiting \cup {p}, ready' = Qsetup(ready, p)
    PROVE  Counted' /\ Order' /\ Persists
<1>1. /\ ready \in Queue /\ ready.n \in Nat /\ ready.n = Cardinality(Waiting)
      /\ Waiting \in SUBSET Procs
  BY DEF IInv, Counted, Queue, Waiting
<1>2. Cardinality(Waiting') = Cardinality(Waiting) + 1
  BY <1>1, ProcsFinite, FS_AddElement
<1>3. Counted'
  BY <1>1, <1>2, QsetupIs DEF Counted
<1>4. CASE Linked
  <2>1. PICK s, t : s = Chain(ready) /\ Represents(ready, s) /\ t = Append(s, p)
    BY <1>4 DEF Linked
  <2>2. s \in Seq(Procs) /\ Once(s) /\ ~In(p, s)
    BY <1>4, <2>1 DEF Linked, Represents
  <2>3. Represents(ready', t) /\ \A x : In(x, t) <=> In(x, s) \/ x = p
    BY <2>1, <2>2, AppendOnce, QsetupAppends
  <2>4. \A x \in Procs : x \in Waiting' <=> In(x, t)
    BY <1>4, <2>1, <2>3 DEF Linked
  <2>5. ~Stuck
    BY <1>4, Queued DEF Stuck
  <2> QED BY <1>3, <2>3, <2>4, <2>5, LinkedIf DEF Order, Persists
<1>5. CASE ~Linked
  <2>1. selectAlg = BLOCK /\ ready.front = Null /\ ready.n # 0
    BY <1>5 DEF IInv, Order, Stuck
  <2>2. ready'.front = Null /\ ready'.n # 0
    BY <1>1, <2>1, QsetupIs
  <2> QED BY <1>3, <1>5, <2>1, <2>2 DEF Order, Stuck, Persists
<1> QED BY <1>4, <1>5

LEMMA StaysKept ==
    ASSUME IInv, ~Slipped, selectAlg' = selectAlg, Waiting' = Waiting, ready' = ready
    PROVE  Counted' /\ Order' /\ Persists
<1>1. Counted'
  BY DEF IInv, Counted
<1>2. CASE Linked
  <2>1. Linked'
    BY <1>2 DEF Linked
  <2>2. ~Stuck
    BY <1>2, Queued DEF Stuck
  <2> QED BY <1>1, <2>1, <2>2 DEF Order, Persists
<1>3. CASE ~Linked
  BY <1>1, <1>3 DEF IInv, Order, Stuck, Persists
<1> QED BY <1>2, <1>3

\* Who waits after a process has moved.
LEMMA MovesWaiting ==
    ASSUME NEW p, Moves(p), paused' = paused
    PROVE  /\ Prime'[p].condition = 1 /\ ~In(p, paused) => Waiting' = Waiting \cup {p}
           /\ Prime'[p].condition # 1 => Waiting' = Waiting \ {p}
<1>1. p \in Procs /\ \A x \in Procs : x # p => Prime'[x] = Prime[x]
  BY DEF Moves
<1> QED BY <1>1 DEF Waiting

\* dsetup, then pauseQue. The first of three parked leaves the last one at the front;
\* parking that one leaves none.
LEMMA ParksKept ==
    ASSUME IInv, selectAlg' = selectAlg, NEW p, Parks(p)
    PROVE  /\ Counted' /\ Order'
           /\ ready'.n = ready.n - 1 /\ paused' # <<>>
           /\ \/ Linked /\ Linked' /\ (paused = <<>> => ready'.n <= 1)
              \/ Linked /\ Slipped'
              \/ ~Linked /\ Slipped /\ Stuck'
<1>1. /\ ready \in Queue /\ ready.n \in Nat /\ ready.n = Cardinality(Waiting)
      /\ Waiting \in SUBSET Procs /\ paused \in Seq(Procs) /\ i \in Nat
  BY CountAssumption DEF IInv, Counted, Queue, Waiting, Seats, Types
<1>2. /\ p = ready.front /\ p \in Waiting /\ p \in Procs /\ ~In(p, paused)
      /\ i < ready.n /\ i' = i + 1 /\ pc' = pc /\ selectAlg = BLOCK
      /\ pc \in {"yield", "park"} /\ (pc = "park" => selection # Null)
      /\ paused' = Append(paused, p) /\ Prime' = Prime /\ selection' = selection
  BY DEF Parks, Stands, Waiting
<1>3. PICK d, n : d = dsetup(ready) /\ n = ready.n
  OBVIOUS
<1>4. ready' = IF paused = <<>> THEN [d EXCEPT !.front = d.back] ELSE d
  BY <1>3 DEF Parks
<1>5. n \in Nat /\ n # 0 /\ p # Null
  BY <1>1, <1>2, <1>3, ProcsAreNodes
<1>6. d \in Queue /\ d.n = n - 1 /\ d.front = ready.link[p]
  BY <1>1, <1>2, <1>3, <1>5, dsetupIs
<1>7. /\ ready' \in Queue /\ ready'.n = n - 1 /\ ready'.link = d.link /\ ready'.back = d.back
      /\ ready'.front = IF paused = <<>> THEN d.back ELSE d.front
  <2>1. d = [front |-> d.front, back |-> d.back, n |-> d.n, link |-> d.link]
    BY <1>6 DEF Queue
  <2>2. ready' = [front |-> IF paused = <<>> THEN d.back ELSE d.front,
                  back |-> d.back, n |-> d.n, link |-> d.link]
    BY <1>4, <2>1
  <2> QED BY <1>6, <2>2 DEF Queue
<1>8. /\ paused' # <<>>
      /\ \A x : In(x, paused') <=> In(x, paused) \/ x = p
  BY <1>1, <1>2, AppendOnce, AppendProperties DEF IInv, Seats
<1>9. Waiting' = Waiting \ {p}
  BY <1>2, <1>8 DEF Waiting
<1>10. Cardinality(Waiting') = Cardinality(Waiting) - 1
  BY <1>1, <1>2, <1>9, ProcsFinite, FS_RemoveElement
<1>11. Counted'
  BY <1>1, <1>3, <1>7, <1>10 DEF Counted
<1>12. CASE Linked
  <2>1. PICK s, t : s = Chain(ready) /\ Represents(ready, s) /\ t = RemoveAt(s, 1)
    BY <1>12 DEF Linked
  <2>2. /\ s \in Seq(Procs) /\ Once(s) /\ Len(s) = n /\ s # <<>> /\ s[1] = p
        /\ 1 \in 1 .. Len(s)
    BY <1>2, <1>3, <1>5, <1>12, <2>1, Queued, LenProperties DEF Represents
  <2>3. Represents(d, t)
    BY <1>3, <2>1, <2>2, dsetupRemoves
  <2>4. \A x : In(x, t) <=> In(x, s) /\ x # p
    BY <2>1, <2>2, RemovedOnce
  <2>5. \A x \in Procs : x \in Waiting' <=> In(x, t)
    BY <1>9, <1>12, <2>1, <2>4 DEF Linked
  <2>6. CASE paused # <<>> \/ d.front = d.back
    <3>1. ready' = d
      <4>1. CASE paused # <<>>
        BY <1>4, <4>1
      <4>2. CASE d.front = d.back
        BY <1>6, <1>4, <4>2 DEF Queue
      <4> QED BY <2>6, <4>1, <4>2
    <3>2. Linked'
      BY <2>3, <2>5, <3>1, LinkedIf
    <3>3. ASSUME paused = <<>>
          PROVE  ready'.n <= 1
      <4>1. t \in Seq(Procs) /\ Once(t) /\ Len(t) = n - 1
        BY <1>6, <2>3 DEF Represents
      <4>2. t # <<>> => t[1] = t[Len(t)]
        BY <2>3, <2>6, <3>3 DEF Represents
      <4>3. t # <<>> => Len(t) \in 1 .. Len(t) /\ 1 \in 1 .. Len(t)
        BY <4>1
      <4>4. Len(t) <= 1
        BY <4>1, <4>2, <4>3 DEF Once
      <4> QED BY <1>7, <4>1, <4>4
    <3> QED BY <1>3, <1>7, <1>8, <1>11, <1>12, <3>2, <3>3 DEF Order
  <2>7. CASE paused = <<>> /\ d.front # d.back
    <3>1. t \in Seq(Procs) /\ Len(t) = n - 1
      BY <1>6, <2>3 DEF Represents
    <3>2. n > 2
      <4>1. t # <<>> /\ d.front = t[1] /\ d.back = t[Len(t)]
        BY <2>3, <2>7 DEF Represents
      <4>2. n - 1 # 0 /\ n - 1 # 1
        BY <2>7, <3>1, <4>1
      <4> QED BY <1>5, <4>2
    <3>3. n - 1 \in 1 .. Len(t) /\ t # <<>>
      BY <1>5, <3>1, <3>2
    <3>4. d.back = t[n - 1] /\ d.link[t[n - 1]] = Null
      BY <2>3, <3>1, <3>3 DEF Represents
    <3>5. t[n - 1] \in Waiting'
      <4>1. t[n - 1] \in Procs /\ In(t[n - 1], t)
        BY <3>1, <3>3, ElementOfSeq DEF In
      <4> QED BY <2>5, <4>1
    <3>6. i = 0
      BY <1>2, <2>7 DEF IInv, Types
    <3>7. /\ i' = 1 /\ ready'.n > 1 /\ ready'.front \in Waiting'
          /\ ready'.link[ready'.front] = Null
      BY <1>2, <1>5, <1>7, <2>7, <3>2, <3>4, <3>5, <3>6
    <3>8. Slipped'
      BY <1>2, <1>8, <3>7 DEF Slipped
    <3> QED BY <1>2, <1>3, <1>7, <1>8, <1>11, <1>12, <3>8 DEF Order
  <2> QED BY <2>6, <2>7
<1>13. CASE ~Linked
  <2>1. Slipped
    BY <1>2, <1>5, <1>13 DEF IInv, Order, Stuck
  <2>2. ready.n > 1 /\ paused # <<>> /\ ready.link[p] = Null
    BY <1>2, <2>1 DEF Slipped
  <2>3. ready'.front = Null /\ ready'.n # 0
    BY <1>3, <1>5, <1>6, <1>7, <2>2
  <2> QED BY <1>2, <1>3, <1>7, <1>8, <1>11, <1>13, <2>1, <2>3 DEF Order, Stuck
<1> QED BY <1>12, <1>13

LEMMA QueueKept ==
    ASSUME IInv, [Next]_vars
    PROVE  /\ Counted' /\ Order'
           /\ Persists \/ EndPass \/ \E p : Parks(p)
<1>1. /\ Types /\ Bursts /\ Prime \in [Procs -> Process] /\ selectAlg' = selectAlg
      /\ \A p \in Procs : /\ In(p, paused) => Prime[p].condition = 1
                          /\ Prime[p].condition = 2 <=> selection = p
  BY AlgorithmStays DEF IInv, Types, Seats
<1>2. ASSUME UNCHANGED vars
      PROVE  Counted' /\ Order' /\ Persists
  <2>1. UNCHANGED <<selectAlg, pc, Prime, ready, paused, i, selection>>
    BY <1>2 DEF vars, passVars, queueVars, localVars
  <2> QED BY <2>1 DEF IInv, Counted, Order, Linked, Slipped, Stuck, Waiting, Persists
<1>3. ASSUME paused' = paused, ready' = ready, ~Slipped,
             \A p \in Procs : Prime'[p].condition = Prime[p].condition
      PROVE  Counted' /\ Order' /\ Persists
  <2>1. Waiting' = Waiting
    BY <1>3 DEF Waiting
  <2> QED BY <1>1, <1>3, <2>1, StaysKept
<1>4. ASSUME NEW p, Moves(p), paused' = paused, ready' = ready, ~Slipped,
             Prime[p].condition # 1, Prime'[p].condition # 1
      PROVE  Counted' /\ Order' /\ Persists
  <2>1. Waiting' = Waiting
    BY <1>4, MovesWaiting DEF Waiting
  <2> QED BY <1>1, <1>4, <2>1, StaysKept
<1>5. ASSUME NEW p, Moves(p), paused' = paused, ready' = Qsetup(ready, p), ~Slipped,
             Prime[p].condition # 1, Prime'[p].condition = 1
      PROVE  Counted' /\ Order' /\ Persists
  <2>1. p \in Procs /\ p \notin Waiting /\ ~In(p, paused)
    BY <1>1, <1>5 DEF Moves, Waiting
  <2>2. Waiting' = Waiting \cup {p}
    BY <1>5, <2>1, MovesWaiting
  <2> QED BY <1>1, <1>5, <2>1, <2>2, JoinsKept
<1>6. pc \notin {"yield", "park"} => ~Slipped
  BY DEF Slipped
<1>7. CASE Idle \/ CreateEnd \/ Rests
  <2>1. paused' = paused /\ ready' = ready /\ Prime' = Prime /\ ~Slipped
    BY <1>6, <1>7 DEF Idle, AtHead, StartWake, CreateEnd, Rests, Stands, queueVars
  <2> QED BY <1>3, <2>1
<1>8. CASE Terminate \/ insertB \/ Preempt \/ KeepRunning
  <2>1. PICK p : p = selection
    OBVIOUS
  <2>2. /\ p \in Procs /\ Prime[p].condition = 2 /\ AtHead /\ pc = "proceed" /\ paused' = paused
    BY <1>8, <2>1, Where DEF Terminate, insertB, Preempt, KeepRunning, AtHead, StartWake
  <2>3. CASE Terminate \/ insertB \/ KeepRunning
    <3>1. Moves(p) /\ Prime'[p].condition \in {2, 3, 4} /\ ready' = ready
      BY <1>1, <2>1, <2>2, <2>3, ProceedMoves DEF Terminate, insertB, KeepRunning
    <3> QED BY <1>4, <1>6, <2>2, <3>1
  <2>4. CASE Preempt
    <3>1. Moves(p) /\ Prime'[p].condition = 1 /\ ready' = Qsetup(ready, p)
      BY <1>1, <2>1, <2>2, <2>4, ProceedMoves DEF Preempt
    <3> QED BY <1>5, <1>6, <2>2, <3>1
  <2> QED BY <1>8, <2>3, <2>4
<1>9. CASE execxuteB
  <2>1. PICK p : p = presentN /\ p \in Procs /\ Prime[p].condition = 3
    BY <1>9, Where DEF execxuteB
  <2>2. pc = "wake" /\ paused' = paused
    BY <1>9 DEF execxuteB
  <2>3. CASE Due
    <3>1. Prime' = [Prime EXCEPT ![p].condition = 1] /\ ready' = Qsetup(ready, p)
      BY <1>9, <2>1, <2>3 DEF execxuteB, WakeQueued
    <3>2. Moves(p) /\ Prime'[p].condition = 1
      BY <1>1, <2>1, <3>1, ReadyMoves
    <3> QED BY <1>5, <1>6, <2>1, <2>2, <3>1, <3>2
  <2>4. CASE ~Due
    BY <1>3, <1>6, <1>9, <2>2, <2>4 DEF execxuteB
  <2> QED BY <2>3, <2>4
<1>10. CASE CreateNext
  <2>1. pc = "create" /\ paused' = paused
    BY <1>10 DEF CreateNext
  <2>2. CASE Arrives(i + 1)
    <3>1. PICK p : /\ Moves(p) /\ Prime[p].condition = 0 /\ Prime'[p].condition = 1
                   /\ ready' = Qsetup(ready, p)
      BY <1>10, <2>2, CreateNextIs
    <3> QED BY <1>5, <1>6, <2>1, <3>1
  <2>3. CASE ~Arrives(i + 1)
    BY <1>3, <1>6, <1>10, <2>1, <2>3, CreateNextIs
  <2> QED BY <2>2, <2>3
<1>11. CASE \E p : Parks(p)
  BY <1>1, <1>11, ParksKept
<1>12. CASE \E p : Resumes(p)
  <2>1. PICK p : Resumes(p)
    BY <1>12
  <2>2. /\ pc = "resume" /\ p = Head(paused) /\ paused # <<>> /\ paused' = Tail(paused)
        /\ ready' = Qsetup(ready, p) /\ Prime' = Prime
    BY <2>1 DEF Resumes, Stands
  <2>3. /\ p \in Procs /\ In(p, paused)
        /\ \A x : In(x, paused') <=> In(x, paused) /\ x # p
    BY <2>2, OnceTail DEF IInv, Seats
  <2>4. p \notin Waiting /\ Waiting' = Waiting \cup {p}
    BY <1>1, <2>2, <2>3 DEF Waiting
  <2> QED BY <1>1, <1>6, <2>2, <2>3, <2>4, JoinsKept
<1>13. CASE \E k \in Nat : Picks(k)
  <2>1. PICK k \in Nat : Picks(k)
    BY <1>13
  <2>2. PICK s, p, t : s = Chain(ready) /\ p = s[k] /\ t = RemoveAt(s, k)
    OBVIOUS
  <2>3. /\ Linked /\ k \in 1 .. ready.n /\ Moves(p) /\ Prime'[p].condition = 2
        /\ Represents(ready', t) /\ paused' = paused
    BY <2>1, <2>2 DEF Picks
  <2>4. /\ s \in Seq(Procs) /\ Once(s) /\ k \in 1 .. Len(s)
        /\ p \in Waiting /\ ready.n = Len(s)
    BY <2>2, <2>3, Queued DEF Linked, Represents
  <2>5. \A x : In(x, t) <=> In(x, s) /\ x # p
    BY <2>2, <2>4, RemovedOnce
  <2>6. Waiting' = Waiting \ {p}
    BY <2>3, MovesWaiting
  <2>7. \A x \in Procs : x \in Waiting' <=> In(x, t)
    BY <2>2, <2>3, <2>5, <2>6 DEF Linked
  <2>8. Linked'
    BY <2>3, <2>7, LinkedIf
  <2>9. Counted'
    <3>1. ready' \in Queue /\ ready'.n = Len(t)
      BY <2>3, RepresentsIs DEF Represents
    <3>2. Len(t) = Len(s) - 1
      BY <2>2, <2>4, Removed
    <3>3. Waiting \in SUBSET Procs
      BY DEF Waiting
    <3>4. Cardinality(Waiting') = Cardinality(Waiting) - 1
      BY <2>4, <2>6, <3>3, ProcsFinite, FS_RemoveElement
    <3> QED BY <2>4, <3>1, <3>2, <3>4 DEF IInv, Counted
  <2>10. ~Stuck
    BY <2>3, Queued DEF Stuck
  <2> QED BY <2>8, <2>9, <2>10 DEF Order, Persists
<1>14. CASE countdown
  <2>1. \A p \in Procs : Prime'[p].condition = Prime[p].condition
    BY <1>1, <1>14, TickIs DEF countdown, Types
  <2>2. pc = "count" /\ paused' = paused /\ ready' = ready
    BY <1>14 DEF countdown, queueVars
  <2> QED BY <1>3, <1>6, <2>1, <2>2
<1>15. CASE EndPass
  <2>1. \A p \in Procs : Prime'[p].condition = 0
    BY <1>15, ExtraIs
  <2>2. ready' = EmptyQ
    BY <1>15 DEF EndPass, Extra
  <2>3. Waiting' = {} /\ EmptyQ.n = 0 /\ \A p : ~In(p, <<>>)
    BY <2>1 DEF Waiting, EmptyQ, In
  <2>4. Linked'
    BY <2>2, <2>3, EmptyRepresents, LinkedIf
  <2>5. Counted'
    BY <2>2, <2>3, EmptyRepresents, RepresentsIs, FS_EmptySet DEF Counted
  <2> QED BY <1>15, <2>4, <2>5 DEF Order
<1> QED BY Steps, <1>2, <1>7, <1>8, <1>9, <1>10, <1>11, <1>12, <1>13, <1>14, <1>15

\* The walk over the blocked list, and the processor that is not left idle.
LEMMA WalksKept ==
    ASSUME IInv, [Next]_vars
    PROVE  Walks'
<1>1. /\ pc = "wake" => In(presentN, blocked)
      /\ pc # "wake" => presentN = Null
      /\ selectAlg # BLOCK /\ pc = "count" /\ selection = Null => ready.n = 0
  BY DEF IInv, Walks
<1>2. /\ blocked \in Seq(Procs) /\ blocked' \in Seq(Procs) /\ Null \notin Procs
      /\ selectAlg' = selectAlg
  BY SeatsKept, ProcsAreNodes, AlgorithmStays DEF Seats, IInv
<1>3. ASSUME pc' \notin {"wake", "count"}, presentN' = Null
      PROVE  Walks'
  BY <1>3 DEF Walks
<1>4. CASE UNCHANGED vars
  BY <1>1, <1>4 DEF vars, passVars, queueVars, localVars, Walks
<1>5. CASE proceedForward
  <2>1. /\ pc' = IF blocked' = <<>> THEN "create" ELSE "wake"
        /\ presentN' = IF blocked' = <<>> THEN Null ELSE Head(blocked')
    BY <1>5 DEF proceedForward, Idle, Terminate, insertB, Preempt, KeepRunning, StartWake
  <2>2. ASSUME blocked' # <<>>
        PROVE  In(presentN', blocked')
    <3>1. presentN' = blocked'[1] /\ 1 \in 1 .. Len(blocked')
      BY <1>2, <2>1, <2>2
    <3> QED BY <3>1 DEF In
  <2> QED BY <1>3, <2>1, <2>2 DEF Walks
<1>6. CASE execxuteB
  <2>1. /\ pc = "wake" /\ presentN' = (IF Due THEN Null ELSE NextBlocked)
        /\ pc' = IF presentN' = Null THEN "create" ELSE "wake"
    BY <1>6 DEF execxuteB, AfterRemoval
  <2>2. ASSUME presentN' # Null
        PROVE  In(presentN', blocked')
    <3>1. /\ blocked' = blocked /\ WalkAt \in 1 .. Len(blocked) /\ WalkAt # Len(blocked)
          /\ presentN' = blocked[WalkAt + 1]
      BY <1>6, <2>1, <2>2, Where DEF execxuteB, NextBlocked
    <3>2. Len(blocked) \in Nat
      BY <1>2, LenProperties
    <3>3. WalkAt + 1 \in 1 .. Len(blocked)
      BY <3>1, <3>2
    <3> QED BY <3>1, <3>3 DEF In
  <2> QED BY <1>3, <2>1, <2>2 DEF Walks
<1>7. CASE CreateNext \/ CreateEnd
  <2>1. /\ pc = "create" /\ presentN' = presentN
        /\ pc' \in {"create", "pick", "yield", "resume"}
    BY <1>7 DEF CreateNext, CreateEnd
  <2> QED BY <1>1, <1>3, <2>1
<1>8. CASE Rests \/ \E p : Parks(p) \/ Resumes(p)
  <2>1. /\ pc \in {"yield", "resume", "pick", "park"} /\ pc' \in Executing
        /\ selectAlg # BLOCK => ready.n = 0 \/ selection # Null
        /\ presentN' = presentN /\ selection' = selection
    BY <1>8 DEF Rests, Parks, Resumes, Stands
  <2>2. selectAlg # BLOCK => ready' = ready
    BY <1>8 DEF Rests, Parks, Resumes
  <2> QED BY <1>1, <1>2, <2>1, <2>2 DEF Walks, Executing
<1>9. CASE \E k \in Nat : Picks(k)
  <2>1. /\ pc = "pick" /\ pc' \in {"park", "count"} /\ presentN' = presentN
        /\ selection' # Null
    BY <1>9 DEF Picks, AfterPick, localVars
  <2> QED BY <1>1, <2>1 DEF Walks
<1>10. CASE countdown \/ EndPass
  <2>1. pc # "wake" /\ presentN' = presentN /\ pc' \in {"proceed", "done"}
    BY <1>10 DEF countdown, EndPass, localVars
  <2> QED BY <1>1, <1>3, <2>1
<1> QED BY Steps, <1>4, <1>5, <1>6, <1>7, <1>8, <1>9, <1>10 DEF proceedForward

-----------------------------------------------------------------------------
(* Times. *)

\* A step other than those of creation, countdown and Extra.
Quiet ==
    /\ present' = present
    /\ \/ pc \in {"proceed", "wake"} /\ pc' \in {"wake", "create"} /\ i' = i
       \/ pc \in Executing /\ pc' \in Executing
    /\ \A p \in Procs :
          /\ Alike(Prime'[p], Prime[p])
          /\ Prime'[p].condition = 0 <=> Prime[p].condition = 0
          /\ Prime[p].condition = 4 => Prime'[p].condition = 4
          /\ Prime'[p].condition = 4 =>
                \/ /\ Prime[p].condition = 4
                   /\ Prime'[p].finishingTime = Prime[p].finishingTime
                \/ /\ Prime[p].condition = 2 /\ Prime[p].CPUTime = Prime[p].C
                   /\ Prime'[p].finishingTime = present

LEMMA QuietSteps ==
    ASSUME IInv, \/ proceedForward \/ execxuteB \/ Rests \/ (\E p : Parks(p) \/ Resumes(p))
                 \/ \E k \in Nat : Picks(k)
    PROVE  Quiet
<1>1. Types /\ Bursts
  BY DEF IInv
<1>2. ASSUME NEW p, Moves(p), Prime[p].condition \in {1, 2, 3}, Prime'[p].condition \in {1, 2, 3},
             present' = present,
             \/ pc \in {"proceed", "wake"} /\ pc' \in {"wake", "create"} /\ i' = i
             \/ pc \in Executing /\ pc' \in Executing
      PROVE  Quiet
  BY <1>2 DEF Moves, Quiet, Alike
<1>3. ASSUME Prime' = Prime,
             present' = present,
             \/ pc \in {"proceed", "wake"} /\ pc' \in {"wake", "create"} /\ i' = i
             \/ pc \in Executing /\ pc' \in Executing
      PROVE  Quiet
  BY <1>3 DEF Quiet, Alike
<1>4. ASSUME proceedForward
      PROVE  /\ present' = present /\ i' = i
             /\ pc = "proceed" /\ pc' \in {"wake", "create"}
  BY <1>4 DEF proceedForward, Idle, Terminate, insertB, Preempt, KeepRunning, AtHead,
              StartWake, passVars, clockVars
<1>5. CASE Idle
  BY <1>3, <1>4, <1>5 DEF Idle, proceedForward
<1>6. CASE Terminate \/ insertB \/ Preempt \/ KeepRunning
  <2>1. AtHead /\ selection \in Procs /\ Prime[selection].condition = 2
    BY <1>6, Where DEF Terminate, insertB, Preempt, KeepRunning
  <2>2. CASE Terminate
    <3>1. /\ Moves(selection) /\ Prime'[selection].condition = 4
          /\ Prime'[selection].finishingTime = present
          /\ Prime[selection].CPUTime = Prime[selection].C
      BY <1>1, <2>1, <2>2, ProceedMoves
    <3> QED BY <1>4, <2>1, <2>2, <3>1 DEF Moves, Quiet, Alike, proceedForward
  <2>3. CASE insertB \/ Preempt \/ KeepRunning
    <3>1. Moves(selection) /\ Prime'[selection].condition \in {1, 2, 3}
      BY <1>1, <2>1, <2>3, ProceedMoves
    <3> QED BY <1>2, <1>4, <2>1, <2>3, <3>1 DEF proceedForward
  <2> QED BY <1>6, <2>2, <2>3
<1>7. CASE execxuteB
  <2>1. /\ present' = present /\ i' = i
        /\ pc = "wake" /\ pc' \in {"wake", "create"}
    BY <1>7 DEF execxuteB, passVars, clockVars
  <2>2. presentN \in Procs /\ Prime[presentN].condition = 3
    BY <2>1, Where
  <2>3. CASE Due
    <3>1. Moves(presentN) /\ Prime'[presentN].condition = 1
      BY <1>1, <1>7, <2>2, <2>3, ReadyMoves DEF execxuteB
    <3> QED BY <1>2, <2>1, <2>2, <3>1
  <2>4. CASE ~Due
    BY <1>3, <1>7, <2>1, <2>4 DEF execxuteB
  <2> QED BY <2>3, <2>4
<1>8. CASE Rests \/ \E p : Parks(p) \/ Resumes(p)
  BY <1>3, <1>8 DEF Rests, Parks, Resumes, Stands, Executing, clockVars
<1>9. CASE \E k \in Nat : Picks(k)
  <2>1. PICK p : /\ Moves(p) /\ Prime[p].condition = 1 /\ Prime'[p].condition = 2
                 /\ pc = "pick" /\ pc' = AfterPick /\ UNCHANGED clockVars
    BY <1>9 DEF Picks
  <2>2. pc \in Executing /\ pc' \in Executing
    BY <2>1 DEF AfterPick, Executing
  <2> QED BY <1>2, <2>1, <2>2 DEF clockVars
<1> QED BY <1>5, <1>6, <1>7, <1>8, <1>9 DEF proceedForward

LEMMA TimesKept ==
    ASSUME IInv, [Next]_vars
    PROVE  TimesAddUp'
<1>1. Types /\ TimesAddUp /\ Bursts /\ \A p \in Procs : Prime[p] \in Process
  BY DEF IInv, Types
<1> DEFINE Spent(r) == r.CPUTime + r.Btime + r.currentWaitingTime
           Adds(r, now) == /\ r.condition = 0 => Spent(r) = 0 /\ now <= r.A
                           /\ r.condition = 4 => r.A + Spent(r) = r.finishingTime
                                                 /\ r.CPUTime = r.C
                           /\ r.condition \in 1 .. 3 => r.A + Spent(r) = now
<1>2. \A p \in Procs : Adds(Prime[p], present)
  BY <1>1 DEF TimesAddUp, Process
<1>3. ASSUME \A p \in Procs : Adds(Prime'[p], present')
      PROVE  TimesAddUp'
  <2>1. \A p \in Procs : Prime'[p].condition \in 0 .. 4
    BY TypesKept DEF Types, Process
  <2> QED BY <1>3, <2>1 DEF TimesAddUp
<1>4. CASE UNCHANGED vars
  BY <1>1, <1>4 DEF vars, clockVars, TimesAddUp
<1>5. CASE Quiet
  BY <1>1, <1>2, <1>3, <1>5 DEF Quiet, Alike, Process
<1>6. CASE CreateNext
  <2>1. present \in Int
    BY <1>1 DEF Types
  <2>2. CASE Arrives(i + 1)
    <3>1. PICK p : p = i + 1 /\ Moves(p) /\ Prime[p].condition = 0 /\ Prime'[p].condition = 1
                   /\ Prime[p].A = present /\ present' = present
      BY <1>6, <2>2, CreateNextIs DEF Arrives
    <3>2. Adds(Prime'[p], present')
      BY <1>1, <1>2, <2>1, <3>1 DEF Moves, Alike, Process
    <3>3. \A x \in Procs : Adds(Prime'[x], present')
      BY <1>2, <3>1, <3>2 DEF Moves
    <3> QED BY <1>3, <3>3
  <2>3. CASE ~Arrives(i + 1)
    BY <1>2, <1>3, <1>6, <2>3, CreateNextIs
  <2> QED BY <2>2, <2>3
<1>7. CASE CreateEnd
  BY <1>2, <1>3, <1>7 DEF CreateEnd, clockVars
<1>8. CASE countdown
  <2>1. /\ present' = present + 1 /\ present \in Int /\ pc = "count"
        /\ \A p \in Procs : Prime'[p] = Tick(Prime[p])
    BY <1>1, <1>8 DEF countdown, Types
  <2>2. ASSUME NEW p \in Procs
        PROVE  Adds(Prime'[p], present')
    <3>1. PICK r : r = Prime[p] /\ r \in Process
      BY <1>1
    <3>2. PICK t : t = Tick(r)
      OBVIOUS
    <3>3. /\ t.condition = r.condition /\ t.A = r.A /\ t.C = r.C
          /\ t.finishingTime = r.finishingTime
          /\ t.CPUTime = IF r.condition = 2 THEN r.CPUTime + 1 ELSE r.CPUTime
          /\ t.Btime = IF r.condition = 3 THEN r.Btime + 1 ELSE r.Btime
          /\ t.currentWaitingTime =
                IF r.condition = 1 THEN r.currentWaitingTime + 1 ELSE r.currentWaitingTime
      BY <1>1, <3>1, <3>2, TickIs DEF Types
    <3>4. r.condition = 0 => present < r.A
      BY <2>1, <3>1 DEF IInv, Arrivals, Visited, Executing
    <3>5. Adds(r, present)
      BY <1>2, <3>1
    <3>6. Adds(t, present + 1)
      BY <2>1, <3>1, <3>3, <3>4, <3>5 DEF Process
    <3> QED BY <2>1, <3>1, <3>2, <3>6
  <2> QED BY <1>3, <2>2
<1>9. CASE EndPass
  <2>1. present' = 0 /\ \A p \in Procs :
            Prime'[p] = [Fresh(Prime[p]) EXCEPT !.quantum = Prime[p].quantum]
    BY <1>9 DEF EndPass, Extra, ExtraProcesses
  <2>2. ASSUME NEW p \in Procs
        PROVE  Adds(Prime'[p], present')
    <3>1. /\ Prime[p].A \in Nat /\ Prime[p].B \in Nat \ {0} /\ Prime[p].C \in Nat \ {0}
          /\ Prime[p].M \in Nat /\ Prime[p].quantum \in Int
      BY <1>1 DEF Process
    <3>2. /\ Prime'[p].condition = 0 /\ Prime'[p].A = Prime[p].A /\ Prime'[p].CPUTime = 0
          /\ Prime'[p].Btime = 0 /\ Prime'[p].currentWaitingTime = 0
      <4>1. PICK q, f : q = Prime[p] /\ f = Fresh(q)
        OBVIOUS
      <4>2. /\ f.condition = 0 /\ f.A = q.A /\ f.CPUTime = 0 /\ f.Btime = 0
            /\ f.currentWaitingTime = 0
            /\ f = [A |-> q.A, B |-> q.B, C |-> q.C, M |-> q.M, condition |-> 0,
                    finishingTime |-> -1, CPUTime |-> 0, Btime |-> 0,
                    currentWaitingTime |-> 0, BurstTime |-> 0, CPUBurst |-> 0,
                    quantum |-> 2, operating |-> FALSE]
        BY <4>1 DEF Fresh
      <4>3. Prime'[p] = [f EXCEPT !.quantum = q.quantum]
        BY <2>1, <4>1
      <4> QED BY <4>1, <4>2, <4>3
    <3> QED BY <2>1, <3>1, <3>2
  <2> QED BY <1>3, <2>2
<1> QED BY Steps, QuietSteps, <1>4, <1>5, <1>6, <1>7, <1>8, <1>9 DEF proceedForward

-----------------------------------------------------------------------------
(* Counters and arrivals. *)

LEMMA CountersKept ==
    ASSUME IInv, [Next]_vars
    PROVE  Counters'
<1> DEFINE Come == {p \in Procs : Prime[p].condition # 0}
           Done == {p \in Procs : Prime[p].condition = 4}
<1>1. Types /\ Bursts /\ totalPrime = Cardinality(Come) /\ completion = Cardinality(Done)
  BY DEF IInv, Counters
<1>2. ASSUME totalPrime' = totalPrime, completion' = completion,
             \A p \in Procs : /\ Prime'[p].condition = 0 <=> Prime[p].condition = 0
                              /\ Prime'[p].condition = 4 <=> Prime[p].condition = 4
      PROVE  Counters'
  <2>1. Come' = Come /\ Done' = Done
    BY <1>2
  <2> HIDE DEF Come, Done
  <2>2. totalPrime' = Cardinality(Come') /\ completion' = Cardinality(Done')
    BY <1>1, <1>2, <2>1
  <2> QED BY <2>2 DEF Counters, Come, Done
<1>3. ASSUME NEW p, Moves(p), Prime[p].condition \in 1 .. 3, Prime'[p].condition \in 1 .. 3,
             totalPrime' = totalPrime, completion' = completion
      PROVE  Counters'
  BY <1>2, <1>3 DEF Moves
<1>4. CASE UNCHANGED vars \/ Idle \/ CreateEnd \/ Rests \/ \E p : Parks(p) \/ Resumes(p)
  BY <1>2, <1>4 DEF vars, Idle, CreateEnd, StartWake, Rests, Parks, Resumes, Stands, countVars
<1>5. CASE Terminate
  <2>1. PICK p : p = selection
    OBVIOUS
  <2>2. AtHead /\ p \in Procs /\ Prime[p].condition = 2
    BY <1>5, <2>1, Where DEF Terminate
  <2>3. /\ Prime'[p].condition = 4 /\ \A x \in Procs : x # p => Prime'[x] = Prime[x]
        /\ completion' = completion + 1 /\ totalPrime' = totalPrime
    BY <1>1, <1>5, <2>1, <2>2, ProceedMoves DEF Moves, Terminate, StartWake
  <2>4. Come' = Come /\ Done' = Done \cup {p} /\ p \notin Done
    BY <2>2, <2>3
  <2>5. Done \subseteq Procs
    OBVIOUS
  <2> HIDE DEF Come, Done
  <2>6. Cardinality(Done') = Cardinality(Done) + 1
    BY <2>4, <2>5, ProcsFinite, FS_AddElement
  <2>7. totalPrime' = Cardinality(Come') /\ completion' = Cardinality(Done')
    BY <1>1, <2>3, <2>4, <2>6
  <2> QED BY <2>7 DEF Counters, Come, Done
<1>6. CASE insertB \/ Preempt \/ KeepRunning
  <2>1. AtHead /\ selection \in Procs /\ Prime[selection].condition = 2
    BY <1>6, Where DEF insertB, Preempt, KeepRunning
  <2>2. Moves(selection) /\ Prime'[selection].condition \in 1 .. 3
    BY <1>1, <1>6, <2>1, ProceedMoves
  <2>3. totalPrime' = totalPrime /\ completion' = completion
    BY <1>6 DEF insertB, Preempt, KeepRunning, StartWake
  <2> QED BY <1>3, <2>1, <2>2, <2>3
<1>7. CASE execxuteB
  <2>1. presentN \in Procs /\ Prime[presentN].condition = 3
    BY <1>7, Where DEF execxuteB
  <2>2. totalPrime' = totalPrime /\ completion' = completion
    BY <1>7 DEF execxuteB, countVars
  <2>3. CASE Due
    <3>1. Moves(presentN) /\ Prime'[presentN].condition = 1
      BY <1>1, <1>7, <2>1, <2>3, ReadyMoves DEF execxuteB
    <3> QED BY <1>3, <2>1, <2>2, <3>1
  <2>4. CASE ~Due
    BY <1>2, <1>7, <2>2, <2>4 DEF execxuteB
  <2> QED BY <2>3, <2>4
<1>8. CASE CreateNext
  <2>1. completion' = completion
    BY <1>8 DEF CreateNext
  <2>2. CASE Arrives(i + 1)
    <3>1. PICK p : /\ Moves(p) /\ Prime[p].condition = 0 /\ Prime'[p].condition = 1
                   /\ totalPrime' = totalPrime + 1
      BY <1>8, <2>2, CreateNextIs
    <3>2. Come' = Come \cup {p} /\ Done' = Done /\ p \notin Come
      BY <3>1 DEF Moves
    <3>3. Come \subseteq Procs
      OBVIOUS
    <3> HIDE DEF Come, Done
    <3>4. Cardinality(Come') = Cardinality(Come) + 1
      BY <3>2, <3>3, ProcsFinite, FS_AddElement
    <3>5. totalPrime' = Cardinality(Come') /\ completion' = Cardinality(Done')
      BY <1>1, <2>1, <3>1, <3>2, <3>4
    <3> QED BY <3>5 DEF Counters, Come, Done
  <2>3. CASE ~Arrives(i + 1)
    BY <1>2, <1>8, <2>1, <2>3, CreateNextIs
  <2> QED BY <2>2, <2>3
<1>9. CASE \E k \in Nat : Picks(k)
  <2>1. PICK p : /\ Moves(p) /\ Prime[p].condition = 1 /\ Prime'[p].condition = 2
                 /\ UNCHANGED countVars
    BY <1>9 DEF Picks
  <2> QED BY <1>3, <2>1 DEF countVars
<1>10. CASE countdown
  <2>1. \A p \in Procs : Prime'[p].condition = Prime[p].condition
    BY <1>1, <1>10, TickIs DEF countdown, Types
  <2> QED BY <1>2, <1>10, <2>1 DEF countdown, countVars
<1>11. CASE EndPass
  <2>1. \A p \in Procs : Prime'[p].condition = 0
    BY <1>11, ExtraIs
  <2>2. Come' = {} /\ Done' = {}
    BY <2>1
  <2>3. totalPrime' = 0 /\ completion' = 0
    BY <1>11 DEF EndPass, Extra
  <2> HIDE DEF Come, Done
  <2>4. totalPrime' = Cardinality(Come') /\ completion' = Cardinality(Done')
    BY <2>2, <2>3, FS_EmptySet
  <2> QED BY <2>4 DEF Counters, Come, Done
<1> QED BY Steps, <1>4, <1>5, <1>6, <1>7, <1>8, <1>9, <1>10, <1>11

LEMMA ArrivalsKept ==
    ASSUME IInv, [Next]_vars
    PROVE  Arrivals'
<1>1. Types /\ \A p \in Procs : Prime[p] \in Process
  BY DEF IInv, Types
<1>2. \A p \in Procs : p \in Nat /\ p >= 1 /\ p <= countPrime
  BY CountAssumption DEF Procs
<1>3. \A p \in Procs :
         /\ Prime[p].condition = 0 =>
               present <= Prime[p].A /\ (Visited(p) => present < Prime[p].A)
         /\ Prime[p].condition # 0 =>
               Prime[p].A <= present /\ (Visited(p) \/ Prime[p].A < present)
  BY DEF IInv, Arrivals
<1>4. ASSUME \A p \in Procs : /\ Prime'[p].A = Prime[p].A
                              /\ Prime'[p].condition = 0 <=> Prime[p].condition = 0
                              /\ Visited(p)' <=> Visited(p),
             present' = present
      PROVE  Arrivals'
  BY <1>3, <1>4 DEF Arrivals
<1>5. CASE UNCHANGED vars
  BY <1>4, <1>5 DEF vars, clockVars, localVars, Visited
<1>6. CASE Quiet
  <2>1. \A p \in Procs : Visited(p)' <=> Visited(p)
    <3>1. i \in Nat /\ (pc \in {"proceed", "wake"} => i = 0)
      BY <1>1, CountAssumption DEF Types
    <3> QED BY <1>2, <1>6, <3>1 DEF Quiet, Visited, Executing
  <2> QED BY <1>4, <1>6, <2>1 DEF Quiet, Alike
<1>7. CASE CreateNext
  <2>1. PICK p : p = i + 1 /\ p \in Procs
    BY <1>7, CreateNextIs
  <2>2. /\ ~Visited(p) /\ present' = present /\ Visited(p)'
        /\ \A x \in Procs : x # p => (Visited(x)' <=> Visited(x))
    BY <1>2, <1>7, <2>1, CreateNextIs DEF Visited, Executing
  <2>3. present \in Int /\ \A x \in Procs : Prime[x].A \in Int
    BY <1>1 DEF Types, Process
  <2>4. CASE Arrives(p)
    <3>1. /\ Prime'[p].condition = 1 /\ Prime'[p].A = present
          /\ \A x \in Procs : x # p => Prime'[x] = Prime[x]
      BY <1>7, <2>1, <2>4, CreateNextIs DEF Arrives, Moves, Alike
    <3>2. ASSUME NEW x \in Procs
          PROVE  /\ Prime'[x].condition = 0 =>
                       present <= Prime'[x].A /\ (Visited(x)' => present < Prime'[x].A)
                 /\ Prime'[x].condition # 0 =>
                       Prime'[x].A <= present /\ (Visited(x)' \/ Prime'[x].A < present)
      <4>1. CASE x = p
        BY <2>2, <2>3, <3>1, <4>1
      <4>2. CASE x # p
        BY <1>3, <2>2, <3>1, <4>2
      <4> QED BY <4>1, <4>2
    <3> QED BY <2>2, <3>2 DEF Arrivals
  <2>5. CASE ~Arrives(p)
    <3>1. Prime' = Prime /\ Prime[p].A # present
      BY <1>7, <2>1, <2>5, CreateNextIs DEF Arrives
    <3>2. ASSUME NEW x \in Procs
          PROVE  /\ Prime[x].condition = 0 =>
                       present <= Prime[x].A /\ (Visited(x)' => present < Prime[x].A)
                 /\ Prime[x].condition # 0 =>
                       Prime[x].A <= present /\ (Visited(x)' \/ Prime[x].A < present)
      <4>1. CASE x = p
        BY <1>3, <2>2, <2>3, <3>1, <4>1
      <4>2. CASE x # p
        BY <1>3, <2>2, <4>2
      <4> QED BY <4>1, <4>2
    <3> QED BY <2>2, <3>1, <3>2 DEF Arrivals
  <2> QED BY <2>4, <2>5
<1>8. CASE CreateEnd
  <2>1. /\ pc = "create" /\ pc' \in Executing /\ Prime' = Prime /\ present' = present
        /\ i = countPrime \/ (i = 0 /\ totalPrime = countPrime)
    BY <1>8 DEF CreateEnd, AllVisited, clockVars, Executing
  <2>2. \A p \in Procs : Visited(p)'
    BY <2>1 DEF Visited
  <2>3. CASE i = countPrime
    <3>1. \A p \in Procs : Visited(p)
      BY <1>2, <2>1, <2>3 DEF Visited
    <3> QED BY <1>4, <2>1, <2>2, <3>1
  <2>4. CASE totalPrime = countPrime
    <3>1. \A p \in Procs : Prime[p].condition # 0
      <4> DEFINE Come == {p \in Procs : Prime[p].condition # 0}
      <4>1. Cardinality(Come) = countPrime
        BY <2>4 DEF IInv, Counters
      <4>2. Come \in SUBSET Procs
        OBVIOUS
      <4>3. Come = Procs
        <5> HIDE DEF Come
        <5> QED BY <4>1, <4>2, ProcsFinite
      <4> QED BY <4>3
    <3>2. \A p \in Procs : Prime'[p].A <= present' /\ Prime'[p].condition # 0
      BY <1>3, <2>1, <3>1
    <3> QED BY <2>2, <3>2 DEF Arrivals
  <2> QED BY <2>1, <2>3, <2>4
<1>9. CASE countdown
  <2>1. /\ present' = present + 1 /\ present \in Int /\ pc = "count" /\ pc' = "proceed"
        /\ \A p \in Procs : Prime'[p] = Tick(Prime[p])
    BY <1>1, <1>9 DEF countdown, Types
  <2>2. \A p \in Procs : Prime'[p].condition = Prime[p].condition /\ Prime'[p].A = Prime[p].A
    BY <1>1, <2>1, TickIs DEF Types
  <2>3. \A p \in Procs : Visited(p) /\ ~Visited(p)' /\ Prime[p].A \in Int
    BY <1>1, <2>1 DEF Visited, Executing, Process
  <2>4. ASSUME NEW p \in Procs
        PROVE  /\ Prime'[p].condition = 0 => present' <= Prime'[p].A
               /\ Prime'[p].condition # 0 => Prime'[p].A < present'
    BY <1>3, <2>1, <2>2, <2>3
  <2>5. \A p \in Procs : Prime'[p].A \in Int /\ present' \in Int
    BY <2>1, <2>2, <2>3
  <2> QED BY <2>3, <2>4, <2>5 DEF Arrivals
<1>10. CASE EndPass
  <2>1. present' = 0 /\ pc' \in {"proceed", "done"}
    BY <1>10 DEF EndPass, Extra
  <2>2. \A p \in Procs : Prime'[p].condition = 0 /\ Prime'[p].A = Prime[p].A
    BY <1>10 DEF EndPass, Extra, ExtraProcesses, Fresh
  <2>3. \A p \in Procs : Prime[p].A \in Nat
    BY <1>1 DEF Process
  <2>4. \A p \in Procs : ~Visited(p)'
    BY <2>1 DEF Visited, Executing
  <2> QED BY <2>1, <2>2, <2>3, <2>4 DEF Arrivals
<1> QED BY Steps, QuietSteps, <1>5, <1>6, <1>7, <1>8, <1>9, <1>10 DEF proceedForward

-----------------------------------------------------------------------------
(* Bursts. *)

\* What Bursts says of a process, when the part of datapoint that is next is given.
Fits(r, next) ==
    /\ r.CPUTime <= r.C
    /\ r.condition \in {1, 3} => r.CPUTime < r.C
    /\ r.condition = 2 =>
          /\ r.CPUBurst \in 0 .. r.C - r.CPUTime
          /\ next # "proceed" => r.CPUBurst > 0
          /\ next # "proceed" /\ selectAlg = RR => r.quantum > 0
          /\ r.operating \/ r.BurstTime > 0

LEMMA BurstsAre == Bursts <=> \A p \in Procs : Fits(Prime[p], pc)
BY DEF Bursts, Fits, Remaining

LEMMA BurstsIf ==
    ASSUME selectAlg' = selectAlg, \A p \in Procs : Fits(Prime'[p], pc')
    PROVE  Bursts'
BY DEF Bursts, Fits, Remaining

LEMMA BurstsKept ==
    ASSUME IInv, [Next]_vars
    PROVE  Bursts'
<1>1. /\ Types /\ Bursts
      /\ \A p \in Procs : Prime[p] \in Process /\ Fits(Prime[p], pc)
                          /\ (Prime[p].condition = 2 <=> selection = p)
  BY BurstsAre DEF IInv, Types, Seats
<1>2. ASSUME selectAlg' = selectAlg, Prime' = Prime,
             pc # "proceed" \/ selection = Null
      PROVE  Bursts'
  <2>1. ASSUME NEW p \in Procs
        PROVE  Fits(Prime[p], pc')
    <3>1. CASE pc # "proceed"
      BY <1>1, <3>1 DEF Fits
    <3>2. CASE selection = Null
      <4>1. Prime[p].condition # 2
        BY <1>1, <3>2, ProcsAreNodes
      <4> QED BY <1>1, <4>1 DEF Fits
    <3> QED BY <1>2, <3>1, <3>2
  <2> QED BY <1>2, <2>1, BurstsIf
<1>3. ASSUME NEW p, selectAlg' = selectAlg, Moves(p), Fits(Prime'[p], pc'),
             pc # "proceed" \/ selection = p
      PROVE  Bursts'
  <2>1. ASSUME NEW x \in Procs, x # p
        PROVE  Fits(Prime[x], pc')
    <3>1. CASE pc # "proceed"
      BY <1>1, <3>1 DEF Fits
    <3>2. CASE selection = p
      <4>1. Prime[x].condition # 2
        BY <1>1, <2>1, <3>2
      <4> QED BY <1>1, <4>1 DEF Fits
    <3> QED BY <1>3, <3>1, <3>2
  <2>2. \A x \in Procs : x # p => Prime'[x] = Prime[x]
    BY <1>3 DEF Moves
  <2> QED BY <1>3, <2>1, <2>2, BurstsIf
<1>4. CASE UNCHANGED vars
  BY <1>1, <1>4 DEF vars, passVars, Bursts, Remaining
<1>5. CASE Idle
  BY <1>2, <1>5 DEF Idle, StartWake, passVars
<1>6. CASE Terminate \/ insertB \/ Preempt \/ KeepRunning
  <2>1. PICK p : p = selection
    OBVIOUS
  <2>2. AtHead /\ p \in Procs /\ Prime[p].condition = 2 /\ selectAlg' = selectAlg
    BY <1>6, <2>1, Where DEF Terminate, insertB, Preempt, KeepRunning, StartWake, passVars
  <2>3. CASE Terminate
    <3>1. Moves(p) /\ Prime'[p].condition = 4
      BY <1>1, <2>1, <2>2, <2>3, ProceedMoves
    <3>2. Fits(Prime'[p], pc')
      BY <1>1, <2>2, <3>1 DEF Moves, Alike, Fits
    <3> QED BY <1>3, <2>1, <2>2, <3>1, <3>2
  <2>4. CASE insertB \/ Preempt
    <3>1. Moves(p) /\ Prime'[p].condition \in {1, 3} /\ Prime[p].CPUTime < Prime[p].C
      BY <1>1, <2>1, <2>2, <2>4, ProceedMoves
    <3>2. Fits(Prime'[p], pc')
      BY <1>1, <2>2, <3>1 DEF Moves, Alike, Fits
    <3> QED BY <1>3, <2>1, <2>2, <3>1, <3>2
  <2>5. CASE KeepRunning
    <3>1. /\ Moves(p) /\ Prime'[p].condition = 2
          /\ Prime'[p].CPUBurst = Prime[p].CPUBurst /\ Prime'[p].CPUBurst > 0
          /\ selectAlg = RR => Prime'[p].quantum > 0
          /\ Prime'[p].BurstTime > 0
      BY <1>1, <2>1, <2>2, <2>5, ProceedMoves
    <3>2. Fits(Prime'[p], pc')
      BY <1>1, <2>2, <3>1 DEF Moves, Alike, Fits
    <3> QED BY <1>3, <2>1, <2>2, <3>1, <3>2
  <2> QED BY <1>6, <2>3, <2>4, <2>5
<1>7. CASE execxuteB
  <2>1. /\ pc = "wake" /\ selectAlg' = selectAlg /\ presentN \in Procs
        /\ Prime[presentN].condition = 3
    BY <1>7, Where DEF execxuteB, passVars
  <2>2. CASE Due
    <3>1. Moves(presentN) /\ Prime'[presentN].condition = 1
      BY <1>1, <1>7, <2>1, <2>2, ReadyMoves DEF execxuteB
    <3>2. Fits(Prime'[presentN], pc')
      BY <1>1, <2>1, <3>1 DEF Moves, Alike, Fits
    <3> QED BY <1>3, <2>1, <3>1, <3>2
  <2>3. CASE ~Due
    BY <1>2, <1>7, <2>1, <2>3 DEF execxuteB
  <2> QED BY <2>2, <2>3
<1>8. CASE CreateNext
  <2>1. CASE Arrives(i + 1)
    <3>1. PICK p : /\ Moves(p) /\ Prime[p].condition = 0 /\ Prime'[p].condition = 1
                   /\ selectAlg' = selectAlg /\ pc = "create"
      BY <1>8, <2>1, CreateNextIs
    <3>2. Prime[p].CPUTime = 0 /\ Prime[p].C > 0
      <4>1. p \in Procs /\ Prime[p] \in Process
        BY <1>1, <3>1 DEF Moves
      <4>2. Prime[p].CPUTime + Prime[p].Btime + Prime[p].currentWaitingTime = 0
        BY <3>1, <4>1 DEF IInv, TimesAddUp
      <4> QED BY <4>1, <4>2 DEF Process
    <3>3. Fits(Prime'[p], pc')
      BY <1>1, <3>1, <3>2 DEF Moves, Alike, Fits
    <3> QED BY <1>3, <3>1, <3>3
  <2>2. CASE ~Arrives(i + 1)
    BY <1>2, <1>8, <2>2, CreateNextIs
  <2> QED BY <2>1, <2>2
<1>9. CASE CreateEnd \/ Rests \/ \E p : Parks(p) \/ Resumes(p)
  BY <1>2, <1>9 DEF CreateEnd, Rests, Parks, Resumes, Stands, passVars
<1>10. CASE \E k \in Nat : Picks(k)
  <2>1. PICK p : /\ Moves(p) /\ Prime[p].condition = 1 /\ Prime'[p].condition = 2
                 /\ Prime'[p].operating /\ Prime'[p].CPUBurst \in 1 .. Remaining(p)
                 /\ selectAlg = RR => Prime'[p].quantum > 0
                 /\ selectAlg' = selectAlg /\ pc = "pick"
    BY <1>10 DEF Picks, passVars
  <2>2. p \in Procs /\ Prime[p] \in Process /\ Fits(Prime[p], pc)
    BY <1>1, <2>1 DEF Moves
  <2>3. /\ Prime'[p].CPUTime = Prime[p].CPUTime /\ Prime'[p].C = Prime[p].C
        /\ Prime[p].C - Prime[p].CPUTime \in Int
        /\ Prime'[p].CPUBurst \in 1 .. Prime[p].C - Prime[p].CPUTime
    BY <2>1, <2>2 DEF Moves, Alike, Remaining, Process
  <2>4. Prime'[p].CPUBurst \in 0 .. Prime[p].C - Prime[p].CPUTime /\ Prime'[p].CPUBurst > 0
    BY <2>3
  <2>5. Prime'[p].CPUTime <= Prime'[p].C
    BY <2>2, <2>3 DEF Fits
  <2>6. Fits(Prime'[p], pc')
    BY <2>1, <2>3, <2>4, <2>5 DEF Fits
  <2> QED BY <1>3, <2>1, <2>6
<1>11. CASE countdown
  <2>1. /\ selectAlg' = selectAlg /\ pc = "count" /\ pc' = "proceed"
        /\ \A p \in Procs : Prime'[p] = Tick(Prime[p])
    BY <1>1, <1>11 DEF countdown, passVars, Types
  <2>2. ASSUME NEW p \in Procs
        PROVE  Fits(Prime'[p], pc')
    <3>1. PICK r, t : r = Prime[p] /\ r \in Process /\ Fits(r, "count") /\ t = Tick(r)
      BY <1>1, <2>1
    <3>2. /\ t.condition = r.condition /\ t.C = r.C /\ t.operating = r.operating
          /\ t.CPUTime = IF r.condition = 2 THEN r.CPUTime + 1 ELSE r.CPUTime
          /\ t.BurstTime = IF r.condition = 3 THEN r.BurstTime - 1 ELSE r.BurstTime
          /\ t.CPUBurst = IF r.condition = 2 THEN r.CPUBurst - 1 ELSE r.CPUBurst
      BY <1>1, <3>1, TickIs DEF Types
    <3>3. r.C \in Nat /\ r.CPUTime \in Nat /\ r.CPUBurst \in Int
      BY <3>1 DEF Process
    <3>4. CASE r.condition = 2
      <4>1. /\ r.CPUBurst \in 0 .. r.C - r.CPUTime /\ r.CPUBurst > 0
            /\ r.operating \/ r.BurstTime > 0
        BY <3>1, <3>4 DEF Fits
      <4>2. /\ t.CPUTime <= t.C /\ t.CPUBurst \in 0 .. t.C - t.CPUTime
        BY <3>2, <3>3, <3>4, <4>1
      <4>3. t.operating \/ t.BurstTime > 0
        BY <3>2, <3>4, <4>1
      <4>4. Fits(t, "proceed")
        BY <3>2, <3>4, <4>2, <4>3 DEF Fits
      <4> QED BY <2>1, <3>1, <4>4
    <3>5. CASE r.condition # 2
      <4>1. Fits(t, "proceed")
        BY <3>1, <3>2, <3>5 DEF Fits
      <4> QED BY <2>1, <3>1, <4>1
    <3> QED BY <3>4, <3>5
  <2> QED BY <2>1, <2>2, BurstsIf
<1>12. CASE EndPass
  <2>1. selectAlg' = selectAlg
    BY <1>12 DEF EndPass
  <2>2. \A p \in Procs : /\ Prime'[p].condition = 0 /\ Prime'[p].CPUTime = 0
                         /\ Prime'[p].C = Prime[p].C /\ Prime[p].C \in Nat
    BY <1>1, <1>12 DEF EndPass, Extra, ExtraProcesses, Fresh, Process
  <2>3. \A p \in Procs : Fits(Prime'[p], pc')
    BY <2>2 DEF Fits
  <2> QED BY <2>1, <2>3, BurstsIf
<1> QED BY Steps, <1>4, <1>5, <1>6, <1>7, <1>8, <1>9, <1>10, <1>11, <1>12

-----------------------------------------------------------------------------
(* Lateness. *)

\* A list of processes is no longer than there are processes.
LEMMA OnceShort ==
    ASSUME NEW s \in Seq(Procs), Once(s)
    PROVE  Len(s) <= countPrime
<1>1. Len(s) \in Nat /\ countPrime \in Nat /\ s \in [1 .. Len(s) -> Procs]
  BY LenProperties, CountAssumption
<1>2. IsFiniteSet(1 .. Len(s)) /\ Cardinality(1 .. Len(s)) = Len(s)
  BY <1>1, FS_Interval
<1>3. ASSUME Cardinality(Procs) < Cardinality(1 .. Len(s))
      PROVE  FALSE
  <2>1. \E x, y \in 1 .. Len(s) : x # y /\ s[x] = s[y]
    BY <1>1, <1>2, <1>3, ProcsFinite, FS_PigeonHole
  <2> QED BY <2>1 DEF Once
<1> QED BY <1>1, <1>2, <1>3, ProcsFinite

\* Lateness of the process at k, when its BurstTime and what is next are given.
Bounded(k, burst, next) ==
    burst <= 0 => /\ k - burst <= countPrime
                  /\ next \in {"create"} \cup Executing => k - burst < countPrime
                  /\ next = "wake" => \E w \in 1 .. k : blocked[w] = presentN

LEMMA LatenessKept ==
    ASSUME IInv, [Next]_vars
    PROVE  Lateness'
<1>1. /\ Types /\ Bursts /\ blocked \in Seq(Procs) /\ Once(blocked) /\ countPrime \in Nat
      /\ \A p \in Procs : /\ Prime[p] \in Process
                          /\ Prime[p].condition = 3 <=> In(p, blocked)
  BY CountAssumption DEF IInv, Types, Seats
<1>2. PICK n : n = Len(blocked) /\ n \in Nat /\ n <= countPrime
  BY <1>1, OnceShort, LenProperties
<1>3. ASSUME NEW k \in 1 .. n
      PROVE  /\ blocked[k] \in Procs /\ Prime[blocked[k]].condition = 3
             /\ Prime[blocked[k]].BurstTime \in Int
             /\ Bounded(k, Prime[blocked[k]].BurstTime, pc)
  <2>1. blocked[k] \in Procs /\ In(blocked[k], blocked)
    BY <1>1, <1>2, ElementOfSeq DEF In
  <2>2. Prime[blocked[k]].condition = 3 /\ Prime[blocked[k]].BurstTime \in Int
    BY <1>1, <2>1 DEF Process
  <2>3. PICK b : b = Prime[blocked[k]].BurstTime /\ b \in Int
    BY <2>2
  <2>4. -b >= 0 =>
           /\ k + (-b) <= countPrime
           /\ pc \in {"create"} \cup Executing => k + (-b) < countPrime
           /\ pc = "wake" => \E w \in 1 .. k : blocked[w] = presentN
    BY <1>2, <2>3 DEF IInv, Lateness
  <2>5. (b <= 0 <=> -b >= 0) /\ k + (-b) = k - b
    BY <1>2, <2>3
  <2> QED BY <2>1, <2>2, <2>3, <2>4, <2>5 DEF Bounded
<1>4. ASSUME \A k \in 1 .. Len(blocked') :
                /\ Prime'[blocked'[k]].BurstTime \in Int
                /\ Prime'[blocked'[k]].BurstTime <= 0 =>
                      /\ k - Prime'[blocked'[k]].BurstTime <= countPrime
                      /\ pc' \in {"create"} \cup Executing =>
                            k - Prime'[blocked'[k]].BurstTime < countPrime
                      /\ pc' = "wake" => \E w \in 1 .. k : blocked'[w] = presentN'
      PROVE  Lateness'
  <2>1. \A b \in Int : b <= 0 <=> -b >= 0
    OBVIOUS
  <2>2. \A b, k \in Int : k + (-b) = k - b
    OBVIOUS
  <2>3. \A k \in 1 .. Len(blocked') : k \in Int
    OBVIOUS
  <2> QED BY <1>4, <2>1, <2>2, <2>3 DEF Lateness
<1>5. ASSUME blocked' = blocked, presentN' = presentN,
             \A p \in Procs : Prime[p].condition = 3 => Prime'[p].BurstTime = Prime[p].BurstTime,
             \/ pc' = pc
             \/ pc \in {"create"} \cup Executing /\ pc' \in {"create"} \cup Executing
      PROVE  Lateness'
  BY <1>2, <1>3, <1>4, <1>5 DEF Bounded, Executing
<1>6. CASE UNCHANGED vars
  BY <1>5, <1>6 DEF vars, queueVars, localVars
<1>7. CASE proceedForward
  <2>1. /\ pc = "proceed" /\ pc' = (IF blocked' = <<>> THEN "create" ELSE "wake")
        /\ presentN' = IF blocked' = <<>> THEN Null ELSE Head(blocked')
    BY <1>7 DEF proceedForward, Idle, Terminate, insertB, Preempt, KeepRunning, AtHead, StartWake
  <2>2. blocked' \in Seq(Procs)
    BY SeatsKept DEF Seats
  <2>3. ASSUME NEW k \in 1 .. Len(blocked')
        PROVE  /\ Prime'[blocked'[k]].BurstTime \in Int
               /\ Prime'[blocked'[k]].BurstTime <= 0 =>
                     /\ k \in 1 .. n /\ blocked'[k] = blocked[k]
                     /\ Prime'[blocked'[k]].BurstTime = Prime[blocked[k]].BurstTime
    <3>1. CASE Idle
      BY <1>2, <1>3, <2>3, <3>1 DEF Idle
    <3>2. CASE Terminate \/ insertB \/ Preempt \/ KeepRunning
      <4>1. PICK p : p = selection
        OBVIOUS
      <4>2. AtHead /\ p \in Procs /\ Prime[p].condition = 2
        BY <3>2, <4>1, Where DEF Terminate, insertB, Preempt, KeepRunning
      <4>3. /\ Moves(p) /\ \A x \in Procs : x # p => Prime'[x] = Prime[x]
            /\ insertB => Prime'[p].BurstTime > 0
        BY <1>1, <3>2, <4>1, <4>2, ProceedMoves DEF Moves
      <4>4. \A j \in 1 .. n : blocked[j] # p /\ Prime'[blocked[j]] = Prime[blocked[j]]
        BY <1>3, <4>2, <4>3
      <4>5. CASE insertB
        <5>1. PICK t : t = Append(blocked, p) /\ t = blocked'
          BY <4>1, <4>5 DEF insertB
        <5>2. Len(t) = n + 1 /\ t[n + 1] = p /\ \A j \in 1 .. n : t[j] = blocked[j]
          <6>1. /\ Len(Append(blocked, p)) = Len(blocked) + 1
                /\ Append(blocked, p)[Len(blocked) + 1] = p
                /\ \A j \in 1 .. Len(blocked) : Append(blocked, p)[j] = blocked[j]
            BY <1>1, <4>2, AppendProperties
          <6> QED BY <1>2, <5>1, <6>1
        <5>3. k \in 1 .. n \/ k = n + 1
          BY <1>2, <2>3, <5>1, <5>2
        <5>4. Prime'[p].BurstTime \in Int /\ ~(Prime'[p].BurstTime <= 0)
          <6>1. Prime'[p] \in Process
            BY <4>2, <4>3 DEF Moves
          <6>2. Prime'[p].BurstTime \in Int
            BY <6>1 DEF Process
          <6> QED BY <4>3, <4>5, <6>2
        <5>5. CASE k \in 1 .. n
          BY <1>3, <4>4, <5>1, <5>2, <5>5
        <5>6. CASE k = n + 1
          BY <5>1, <5>2, <5>4, <5>6
        <5> QED BY <5>3, <5>5, <5>6
      <4>6. CASE Terminate \/ Preempt \/ KeepRunning
        <5>1. blocked' = blocked
          BY <4>6 DEF Terminate, Preempt, KeepRunning
        <5> QED BY <1>2, <1>3, <2>3, <4>4, <5>1
      <4> QED BY <3>2, <4>5, <4>6
    <3> QED BY <1>7, <3>1, <3>2 DEF proceedForward
  <2>4. ASSUME NEW k \in 1 .. Len(blocked')
        PROVE  pc' = "wake" /\ \E w \in 1 .. k : blocked'[w] = presentN'
    <3>1. blocked' # <<>>
      BY <2>4
    <3>2. presentN' = blocked'[1] /\ 1 \in 1 .. k
      BY <2>1, <2>2, <2>4, <3>1
    <3> QED BY <2>1, <3>1, <3>2
  <2> QED BY <1>3, <1>4, <2>3, <2>4 DEF Bounded, Executing
<1>8. CASE execxuteB
  <2>1. /\ pc = "wake" /\ presentN' = (IF Due THEN Null ELSE NextBlocked)
        /\ pc' = IF presentN' = Null THEN "create" ELSE "wake"
    BY <1>8 DEF execxuteB, AfterRemoval
  <2>2. PICK m, p : m = WalkAt /\ p = presentN /\ m \in 1 .. n /\ blocked[m] = p
                    /\ p \in Procs /\ Prime[p].condition = 3
    BY <1>2, <2>1, Where
  <2>3. ASSUME NEW k \in 1 .. n, Prime[blocked[k]].BurstTime <= 0
        PROVE  m <= k
    <3>1. PICK w \in 1 .. k : blocked[w] = p
      BY <1>3, <2>1, <2>2, <2>3 DEF Bounded
    <3>2. w = m
      BY <1>1, <1>2, <2>2, <3>1 DEF Once
    <3> QED BY <3>1, <3>2
  <2>4. CASE Due
    <3>1. /\ Prime' = [Prime EXCEPT ![p].condition = 1] /\ pc' = "create"
          /\ blocked' = RemoveAt(blocked, m)
      BY <1>8, <2>1, <2>2, <2>4 DEF execxuteB
    <3>2. PICK t : t = blocked' /\ Len(t) = n - 1
                   /\ \A j \in 1 .. n - 1 : t[j] = IF j < m THEN blocked[j] ELSE blocked[j + 1]
      BY <1>1, <1>2, <2>2, <3>1, Removed
    <3>3. ASSUME NEW k \in 1 .. n - 1
          PROVE  /\ Prime'[t[k]].BurstTime \in Int
                 /\ Prime'[t[k]].BurstTime <= 0 => k - Prime'[t[k]].BurstTime < countPrime
      <4>1. PICK j : j = IF k < m THEN k ELSE k + 1
        OBVIOUS
      <4>2. /\ j \in 1 .. n /\ j # m /\ t[k] = blocked[j]
            /\ m <= j => j = k + 1
        BY <1>2, <2>2, <3>2, <4>1
      <4>3. Prime'[blocked[j]].BurstTime = Prime[blocked[j]].BurstTime
        BY <1>1, <1>3, <3>1, <4>2 DEF Types
      <4>4. PICK b : b = Prime[blocked[j]].BurstTime /\ b \in Int
        BY <1>3, <4>2
      <4>5. ASSUME b <= 0
            PROVE  k - b < countPrime
        <5>1. j = k + 1 /\ j - b <= countPrime
          BY <1>3, <2>3, <4>2, <4>4, <4>5 DEF Bounded
        <5> QED BY <1>1, <1>2, <4>4, <5>1
      <4> QED BY <4>2, <4>3, <4>4, <4>5
    <3>4. \A k \in 1 .. n - 1 :
             Prime'[t[k]].BurstTime <= 0 => k - Prime'[t[k]].BurstTime <= countPrime
      BY <1>1, <1>2, <3>3
    <3> QED BY <1>4, <3>1, <3>2, <3>3, <3>4
  <2>5. CASE ~Due
    <3>1. /\ Prime' = Prime /\ blocked' = blocked
          /\ presentN' = IF m = n THEN Null ELSE blocked[m + 1]
      BY <1>2, <1>8, <2>1, <2>2, <2>5 DEF execxuteB, NextBlocked
    <3>2. ~(Prime[p].BurstTime <= 0)
      BY <2>2, <2>5 DEF Due
    <3>3. ASSUME NEW k \in 1 .. n, Prime[blocked[k]].BurstTime <= 0
          PROVE  m + 1 \in 1 .. k /\ m # n
      BY <1>2, <2>2, <2>3, <3>2, <3>3
    <3>4. ASSUME NEW k \in 1 .. n, Prime[blocked[k]].BurstTime <= 0
          PROVE  /\ k - Prime[blocked[k]].BurstTime <= countPrime
                 /\ pc' \notin {"create"} \cup Executing
                 /\ \E w \in 1 .. k : blocked'[w] = presentN'
      <4>1. m + 1 \in 1 .. k /\ m # n /\ m + 1 \in 1 .. n
        BY <1>2, <3>3, <3>4
      <4>2. presentN' = blocked[m + 1] /\ blocked[m + 1] \in Procs
        BY <1>3, <3>1, <4>1
      <4>3. pc' = "wake"
        BY <2>1, <4>2, ProcsAreNodes
      <4>4. k - Prime[blocked[k]].BurstTime <= countPrime
        BY <1>3, <3>4 DEF Bounded
      <4> QED BY <3>1, <4>1, <4>2, <4>3, <4>4 DEF Executing
    <3> QED BY <1>2, <1>3, <1>4, <3>1, <3>4
  <2> QED BY <2>4, <2>5
<1>9. CASE CreateNext
  <2>1. blocked' = blocked /\ presentN' = presentN /\ pc' = pc
    BY <1>9 DEF CreateNext
  <2>2. \A p \in Procs : Prime[p].condition = 3 => Prime'[p].BurstTime = Prime[p].BurstTime
    <3>1. CASE Arrives(i + 1)
      <4>1. PICK p : Moves(p) /\ Prime[p].condition = 0
        BY <1>9, <3>1, CreateNextIs
      <4> QED BY <4>1 DEF Moves
    <3>2. CASE ~Arrives(i + 1)
      BY <1>9, <3>2, CreateNextIs
    <3> QED BY <3>1, <3>2
  <2> QED BY <1>5, <2>1, <2>2
<1>10. CASE CreateEnd \/ Rests \/ \E p : Parks(p) \/ Resumes(p)
  <2>1. /\ blocked' = blocked /\ presentN' = presentN /\ Prime' = Prime
        /\ pc \in {"create"} \cup Executing /\ pc' \in {"create"} \cup Executing
    BY <1>10 DEF CreateEnd, Rests, Parks, Resumes, Stands, Executing, queueVars
  <2> QED BY <1>5, <2>1
<1>11. CASE \E k \in Nat : Picks(k)
  <2>1. PICK p : /\ Moves(p) /\ Prime[p].condition = 1
                 /\ pc \in {"create"} \cup Executing /\ pc' \in {"create"} \cup Executing
                 /\ blocked' = blocked /\ UNCHANGED localVars
    BY <1>11 DEF Picks, AfterPick, Executing
  <2>2. \A x \in Procs : Prime[x].condition = 3 => Prime'[x].BurstTime = Prime[x].BurstTime
    BY <2>1 DEF Moves
  <2> QED BY <1>5, <2>1, <2>2 DEF localVars
<1>12. CASE countdown
  <2>1. /\ blocked' = blocked /\ pc = "count" /\ pc' = "proceed"
        /\ \A p \in Procs : Prime'[p] = Tick(Prime[p])
    BY <1>1, <1>12 DEF countdown, queueVars, Types
  <2>2. ASSUME NEW k \in 1 .. n
        PROVE  /\ Prime'[blocked[k]].BurstTime \in Int
               /\ Prime'[blocked[k]].BurstTime <= 0 =>
                     k - Prime'[blocked[k]].BurstTime <= countPrime
    <3>1. PICK b : b = Prime[blocked[k]].BurstTime /\ b \in Int
                   /\ (b <= 0 => k - b < countPrime)
      BY <1>3, <2>1 DEF Bounded, Executing
    <3>2. Prime'[blocked[k]].BurstTime = b - 1
      BY <1>1, <1>3, <2>1, <3>1, TickIs DEF Types
    <3> QED BY <1>1, <1>2, <3>1, <3>2
  <2> QED BY <1>2, <1>4, <2>1, <2>2 DEF Executing
<1>13. CASE EndPass
  <2>1. blocked' = <<>>
    BY <1>13 DEF EndPass, Extra
  <2> QED BY <1>4, <2>1
<1> QED BY Steps, <1>6, <1>7, <1>8, <1>9, <1>10, <1>11, <1>12, <1>13 DEF proceedForward

-----------------------------------------------------------------------------
(* The invariant, and what it says. *)

LEMMA InitIInv ==
    ASSUME Init
    PROVE  IInv
<1>1. PICK c \in Calls : selectAlg = c.alg /\ Prime = [p \in Procs |-> Fresh(c.input[p])]
  BY DEF Init
<1>2. c.alg \in FCFS .. SJF /\ c.input \in [Procs -> [A : Nat, B : Nat \ {0}, C : Nat \ {0}, M : Nat]]
  BY CallsAssumption
<1>3. ASSUME NEW p \in Procs
      PROVE  Prime[p] \in Process /\ Prime[p] = Fresh(c.input[p]) /\ Prime[p].A \in Nat
             /\ Prime[p].C \in Nat
  <2>1. /\ c.input[p].A \in Nat /\ c.input[p].B \in Nat \ {0}
        /\ c.input[p].C \in Nat \ {0} /\ c.input[p].M \in Nat
    BY <1>2
  <2>2. Fresh(c.input[p]) \in Process
    BY <2>1 DEF Fresh, Process
  <2> QED BY <1>1, <2>2 DEF Process
<1>4. \A p \in Procs : /\ Prime[p].condition = 0 /\ Prime[p].CPUTime = 0 /\ Prime[p].Btime = 0
                       /\ Prime[p].currentWaitingTime = 0
  <2> TAKE p \in Procs
  <2>1. Prime[p] = Fresh(c.input[p])
    BY <1>3
  <2> QED BY <2>1 DEF Fresh
<1>5. /\ pass = 1 /\ pc = "proceed" /\ ready = EmptyQ /\ paused = <<>> /\ blocked = <<>>
      /\ presentN = Null /\ i = 0 /\ selection = Null /\ namelessOp = Null
      /\ firstPrime = TRUE /\ present = 0 /\ totalPrime = 0 /\ completion = 0
      /\ totalTimeNumber = 0
  BY DEF Init
<1>6. Prime \in [Procs -> Process]
  BY <1>1, <1>3
<1>7. Types
  BY <1>1, <1>2, <1>5, <1>6, TimeBoundAssumption, CountAssumption DEF Types
<1>8. Seats /\ Counted /\ Order
  <2>1. Chain(ready) = <<>> /\ Represents(ready, <<>>) /\ ready \in Queue /\ ready.n = 0
    BY <1>5, EmptyRepresents, ChainIs, RepresentsIs DEF EmptyQ
  <2>2. <<>> \in Seq(Procs) /\ Once(<<>>) /\ \A p : ~In(p, <<>>)
    BY DEF Once, In
  <2>3. \A p \in Procs : selection # p
    BY <1>5, ProcsAreNodes
  <2>4. Seats
    <3>1. /\ blocked \in Seq(Procs) /\ Once(blocked) /\ paused \in Seq(Procs) /\ Once(paused)
          /\ \A p : ~In(p, blocked) /\ ~In(p, paused)
      BY <1>5, <2>2
    <3> QED BY <1>4, <1>5, <2>3, <3>1 DEF Seats
  <2>5. Waiting = {}
    BY <1>4 DEF Waiting
  <2>6. Linked
    BY <2>1, <2>2, <2>5 DEF Linked
  <2> QED BY <2>1, <2>4, <2>5, <2>6, FS_EmptySet DEF Counted, Order
<1>9. Walks /\ Arrivals /\ Lateness
  BY <1>3, <1>4, <1>5 DEF Walks, Arrivals, Visited, Executing, Lateness
<1>10. TimesAddUp
  BY <1>3, <1>4, <1>5 DEF TimesAddUp
<1>11. Counters
  <2>1. {p \in Procs : Prime[p].condition # 0} = {} /\ {p \in Procs : Prime[p].condition = 4} = {}
    BY <1>4
  <2> QED BY <1>5, <2>1, FS_EmptySet DEF Counters
<1>12. Bursts
  BY <1>3, <1>4 DEF Bursts
<1> QED BY <1>7, <1>8, <1>9, <1>10, <1>11, <1>12 DEF IInv

LEMMA StepIInv ==
    ASSUME IInv, [Next]_vars
    PROVE  IInv'
BY TypesKept, SeatsKept, QueueKept, WalksKept, ArrivalsKept, TimesKept, CountersKept, BurstsKept,
   LatenessKept DEF IInv

LEMMA Invariant == Spec => []IInv
<1>1. Init => IInv
  BY InitIInv
<1>2. IInv /\ [Next]_vars => IInv'
  BY StepIInv
<1> QED BY <1>1, <1>2, PTL DEF Spec

\* The times that are printed add up, whichever the algorithm (countdown, proceedForward).
THEOREM TimesAlwaysAddUp == Spec => []TimesAddUp
<1>1. IInv => TimesAddUp
  BY DEF IInv
<1> QED BY <1>1, Invariant, PTL

\* The unsigned counters of a burst and a quantum do not wrap, and no process
\* runs past its C (countdown, proceedForward).
THEOREM NeverOverrun == Spec => []NoOverrun
<1>1. ASSUME IInv
      PROVE  NoOverrun
  BY <1>1 DEF IInv, Bursts, NoOverrun
<1> QED BY <1>1, Invariant, PTL

\* The walk of execxuteB misses a process whose I/O is over for fewer cycles than there
\* are processes.
THEOREM LatenessIsBounded == Spec => []LatenessBounded
<1>1. ASSUME IInv, NEW p \in Procs, Prime[p].condition = 3
      PROVE  Prime[p].BurstTime > -countPrime
  <2>1. PICK k \in 1 .. Len(blocked) : blocked[k] = p
    BY <1>1 DEF IInv, Seats, In
  <2>2. PICK n, b : n = Len(blocked) /\ n \in Nat /\ n <= countPrime
                    /\ b = Prime[p].BurstTime /\ b \in Int
    <3>1. blocked \in Seq(Procs) /\ Once(blocked) /\ Prime[p] \in Process
      BY <1>1 DEF IInv, Seats, Types
    <3> QED BY <3>1, OnceShort, LenProperties DEF Process
  <2>3. -b >= 0 => k + (-b) <= countPrime
    BY <1>1, <2>1, <2>2 DEF IInv, Lateness
  <2> QED BY <2>1, <2>2, <2>3, CountAssumption
<1>2. IInv => LatenessBounded
  BY <1>1 DEF LatenessBounded
<1> QED BY <1>2, Invariant, PTL

\* Every variable keeps its type: placement counts the processes that wait, and the
\* pointers of the queue are nodes or NULL even when they have come apart.
THEOREM SchedulerTypes == Spec => []TypeOK
<1>1. ASSUME IInv
      PROVE  TypeOK
  <2>1. /\ Types /\ Walks /\ paused \in Seq(Procs) /\ blocked \in Seq(Procs)
        /\ selection \in Procs \cup {Null}
        /\ TimeBound \in Nat /\ countPrime \in Nat
    BY <1>1, TimeBoundAssumption, CountAssumption DEF IInv, Seats
  <2>2. ready \in Queue /\ ready.n = Cardinality(Waiting) /\ Waiting \in SUBSET Procs
    BY <1>1 DEF IInv, Counted, Waiting
  <2>3. /\ ready.n \in 0 .. countPrime
        /\ {ready.front, ready.back} \subseteq Procs \cup {Null}
        /\ ready.link \in [Procs -> Procs \cup {Null}]
    BY <2>2, ProcsFinite DEF Queue
  <2>4. presentN \in Procs \cup {Null}
    BY <1>1, <2>1, Where DEF Walks
  <2>5. {totalPrime, completion} \subseteq 0 .. countPrime
    <3> DEFINE Come == {p \in Procs : Prime[p].condition # 0}
               Done == {p \in Procs : Prime[p].condition = 4}
    <3>1. Come \in SUBSET Procs /\ Done \in SUBSET Procs
      OBVIOUS
    <3>2. totalPrime = Cardinality(Come) /\ completion = Cardinality(Done)
      BY <1>1 DEF IInv, Counters
    <3> HIDE DEF Come, Done
    <3> QED BY <3>1, <3>2, ProcsFinite
  <2>6. ASSUME NEW p \in Procs
        PROVE  /\ Prime[p].condition \in 0 .. 4
               /\ {Prime[p].CPUTime, Prime[p].Btime, Prime[p].currentWaitingTime} \subseteq Nat
               /\ Prime[p].finishingTime \in Nat \cup {-1}
               /\ {Prime[p].BurstTime, Prime[p].CPUBurst, Prime[p].quantum} \subseteq Int
               /\ Prime[p].operating \in BOOLEAN
    <3>1. Prime[p] \in Process
      BY <2>1 DEF Types
    <3> QED BY <3>1 DEF Process
  <2>7. /\ selectAlg \in FCFS .. SJF /\ pass \in 1 .. 3
        /\ pc \in {"proceed", "wake", "create", "yield", "resume", "pick", "park", "count",
                  "done", "crash"}
        /\ namelessOp \in Procs \cup {Null} /\ firstPrime \in BOOLEAN
        /\ i \in 0 .. countPrime
        /\ present \in 0 .. TimeBound /\ totalTimeNumber \in 0 .. present
    BY <2>1 DEF Types
  <2> QED BY <2>1, <2>3, <2>4, <2>5, <2>6, <2>7 DEF TypeOK
<1> QED BY <1>1, Invariant, PTL

-----------------------------------------------------------------------------
(* Except under "block" the queue is always a sequence. *)

\* A process is in the one place that its condition names.
Places ==
    /\ Represents(ready, Chain(ready)) /\ paused = <<>>
    /\ blocked \in Seq(Procs) /\ Once(blocked)
    /\ selection \in Procs \cup {Null}
    /\ \A p \in Procs : /\ Prime[p].condition = 1 <=> In(p, Chain(ready))
                        /\ Prime[p].condition = 2 <=> selection = p
                        /\ Prime[p].condition = 3 <=> In(p, blocked)

LEMMA PlacesAre ==
    ASSUME IInv, selectAlg # BLOCK
    PROVE  Places /\ Linked
<1>1. Linked /\ Represents(ready, Chain(ready)) /\ Seats /\ paused = <<>>
  BY DEF IInv, Order, Linked, Seats
<1>2. \A p : ~In(p, <<>>)
  BY DEF In
<1>3. \A p \in Procs : Prime[p].condition = 1 <=> In(p, Chain(ready))
  BY <1>1, <1>2 DEF Linked, Waiting
<1> QED BY <1>1, <1>3 DEF Places, Seats

\* Except under "block", executeR leaves no process ready and the processor idle.
THEOREM ProcessorNeverIdles == Spec => [](selectAlg # BLOCK => WorkConserving)
<1>1. ASSUME IInv, selectAlg # BLOCK, pc = "count", selection = Null, NEW p \in Procs
      PROVE  Prime[p].condition # 1
  <2>1. Places /\ ready.n = 0 /\ Len(Chain(ready)) = ready.n
    BY <1>1, PlacesAre, Queued DEF IInv, Walks
  <2>2. ~In(p, Chain(ready))
    BY <2>1 DEF In
  <2> QED BY <2>1, <2>2 DEF Places
<1>2. IInv /\ selectAlg # BLOCK => WorkConserving
  BY <1>1 DEF WorkConserving
<1> QED BY <1>2, Invariant, PTL

\* Being in a list, counted.
LEMMA InOnce ==
    ASSUME NEW S, NEW s \in Seq(S)
    PROVE  /\ \A p : p \in ToSet(s) <=> In(p, s)
           /\ Once(s) => \A p : In(p, s) => Cardinality({k \in DOMAIN s : s[k] = p}) = 1
<1>1. DOMAIN s = 1 .. Len(s)
  OBVIOUS
<1>2. \A p : p \in ToSet(s) <=> In(p, s)
  BY <1>1 DEF ToSet, In
<1>3. ASSUME Once(s), NEW p, In(p, s)
      PROVE  Cardinality({k \in DOMAIN s : s[k] = p}) = 1
  <2>1. PICK j \in 1 .. Len(s) : s[j] = p
    BY <1>3 DEF In
  <2>2. {k \in DOMAIN s : s[k] = p} = {j}
    BY <1>1, <1>3, <2>1 DEF Once
  <2> QED BY <2>2, FS_Singleton
<1> QED BY <1>2, <1>3

\* Except under "block", a process that has arrived and has not terminated is in one
\* place, once, and the chain of the ready queue ends at its back (Qsetup, dsetup,
\* insertB, removeB, SJF in executeR).
THEOREM NobodyIsLost == Spec => [](selectAlg # BLOCK => EveryoneSomewhere)
<1>1. ASSUME IInv, selectAlg # BLOCK
      PROVE  EveryoneSomewhere
  <2>1. PICK s : s = Chain(ready) /\ Represents(ready, s)
    BY <1>1, PlacesAre DEF Places
  <2>2. /\ s \in Seq(Procs) /\ Once(s) /\ blocked \in Seq(Procs) /\ Once(blocked)
        /\ paused = <<>> /\ ready.n = Len(s)
        /\ \A p \in Procs : /\ Prime[p].condition \in 0 .. 4
                            /\ Prime[p].condition = 1 <=> In(p, s)
                            /\ Prime[p].condition = 2 <=> selection = p
                            /\ Prime[p].condition = 3 <=> In(p, blocked)
    BY <1>1, <2>1, PlacesAre DEF IInv, Places, Represents, Types, Process
  <2>3. s \o paused = s /\ s \o paused \o blocked = s \o blocked
    BY <2>2, ConcatEmptySeq
  <2>4. /\ \A p : p \in ToSet(s) <=> In(p, s)
        /\ \A p : In(p, s) => Cardinality({k \in DOMAIN s : s[k] = p}) = 1
        /\ \A p : p \in ToSet(blocked) <=> In(p, blocked)
        /\ \A p : In(p, blocked) => Cardinality({k \in DOMAIN blocked : blocked[k] = p}) = 1
        /\ s \o blocked \in Seq(Procs)
        /\ \A p : p \in ToSet(s \o blocked) <=> In(p, s \o blocked)
    <3>1. /\ \A p : p \in ToSet(s) <=> In(p, s)
          /\ \A p : In(p, s) => Cardinality({k \in DOMAIN s : s[k] = p}) = 1
      BY ONLY <2>2, InOnce
    <3>2. /\ \A p : p \in ToSet(blocked) <=> In(p, blocked)
          /\ \A p : In(p, blocked) => Cardinality({k \in DOMAIN blocked : blocked[k] = p}) = 1
      BY ONLY <2>2, InOnce
    <3>3. s \o blocked \in Seq(Procs)
      BY <2>2, ConcatProperties
    <3>4. \A p : p \in ToSet(s \o blocked) <=> In(p, s \o blocked)
      BY ONLY <3>3, InOnce
    <3> QED BY <3>1, <3>2, <3>3, <3>4
  <2>5. \A p : (In(p, s) => p \in Procs) /\ (In(p, blocked) => p \in Procs)
    BY <2>2, ElementOfSeq DEF In
  <2>6. \A p : In(p, s \o blocked) <=> In(p, s) \/ In(p, blocked)
    <3>1. PICK m, n, t : m = Len(s) /\ n = Len(blocked) /\ t = s \o blocked
      OBVIOUS
    <3>2. /\ m \in Nat /\ n \in Nat /\ Len(t) = m + n
          /\ \A k \in 1 .. m + n : t[k] = IF k <= m THEN s[k] ELSE blocked[k - m]
      BY <2>2, <3>1, ConcatProperties, LenProperties
    <3>3. \A k \in 1 .. m + n : (k <= m => k \in 1 .. m) /\ (~(k <= m) => k - m \in 1 .. n)
      BY <3>2
    <3>4. \A p : In(p, t) => In(p, s) \/ In(p, blocked)
      BY <3>1, <3>2, <3>3 DEF In
    <3>5. \A k \in 1 .. m : k \in 1 .. m + n /\ k <= m /\ t[k] = s[k]
      BY <3>2
    <3>6. \A k \in 1 .. n : m + k \in 1 .. m + n /\ ~(m + k <= m) /\ (m + k) - m = k
                            /\ t[m + k] = blocked[k]
      BY <3>2
    <3>7. ASSUME NEW p, In(p, s)
          PROVE  In(p, t)
      <4>1. PICK k \in 1 .. m : s[k] = p
        BY <3>1, <3>7 DEF In
      <4> QED BY <3>2, <3>5, <4>1 DEF In
    <3>8. ASSUME NEW p, In(p, blocked)
          PROVE  In(p, t)
      <4>1. PICK k \in 1 .. n : blocked[k] = p
        BY <3>1, <3>8 DEF In
      <4> QED BY <3>2, <3>6, <4>1 DEF In
    <3> QED BY <3>1, <3>4, <3>7, <3>8
  <2>7. Null \notin ToSet(s)
    BY <2>4, <2>5, ProcsAreNodes
  <2>8. ready.n # 0 => ready.back = Last(s) /\ ready.link[ready.back] = Null
    <3> SUFFICES ASSUME ready.n # 0
                 PROVE  ready.back = Last(s) /\ ready.link[ready.back] = Null
      OBVIOUS
    <3>1. s # <<>> /\ Len(s) \in 1 .. Len(s)
      BY <2>2, LenProperties
    <3> QED BY <2>1, <3>1 DEF Represents, Last
  <2>9. ASSUME NEW p \in Live
        PROVE  CASE Prime[p].condition = 1 ->
                       Cardinality({k \in DOMAIN (s \o paused) : (s \o paused)[k] = p}) = 1
                 [] Prime[p].condition = 2 -> selection = p
                 [] Prime[p].condition = 3 ->
                       Cardinality({k \in DOMAIN blocked : blocked[k] = p}) = 1
    <3>1. p \in Procs /\ Prime[p].condition \in {1, 2, 3}
      BY DEF Live
    <3>2. CASE Prime[p].condition = 1
      <4>1. Cardinality({k \in DOMAIN s : s[k] = p}) = 1
        BY <2>2, <2>4, <3>1, <3>2
      <4> QED BY <2>3, <3>2, <4>1
    <3>3. CASE Prime[p].condition = 2
      BY <2>2, <3>1, <3>3
    <3>4. CASE Prime[p].condition = 3
      BY <2>2, <2>4, <3>1, <3>4
    <3> QED BY <3>1, <3>2, <3>3, <3>4
  <2>10. ToSet(s \o blocked) \cup ({selection} \ {Null}) = Live
    <3>1. selection # Null => selection \in Procs
      BY <1>1, Where
    <3>2. \A p : p \in ToSet(s \o blocked) <=> In(p, s) \/ In(p, blocked)
      BY <2>4, <2>6
    <3>3. \A p \in Procs : p \in Live <=> (In(p, s) \/ In(p, blocked) \/ selection = p)
      BY <2>2 DEF Live
    <3>4. Live \subseteq Procs /\ Null \notin Procs
      BY ProcsAreNodes DEF Live
    <3> QED BY <2>5, <3>1, <3>2, <3>3, <3>4
  <2>11. ToSet(s \o paused \o blocked) \cup ({selection} \ {Null}) = Live
    BY <2>3, <2>10
  <2> QED BY <2>1, <2>7, <2>8, <2>9, <2>11, Zenon DEF EveryoneSomewhere
<1> QED BY <1>1, Invariant, PTL

-----------------------------------------------------------------------------
(* The ready queue implements CpuQueue. *)

\* The row of the times still needed.
Rest == [p \in Procs |-> Remaining(p)]

\* A process appended to the queue joins it.
LEMMA JoinsAtBack ==
    ASSUME NEW s, NEW p \in Procs, s \in Seq(Procs), Once(s), ~In(p, s)
    PROVE  /\ IsStrictPrefix(s, Append(s, p)) /\ IsInjective(Append(s, p))
           /\ \A q : q \in ToSet(Append(s, p)) <=> In(q, s) \/ q = p
<1>1. PICK t, n : t = Append(s, p) /\ n = Len(s)
  OBVIOUS
<1>2. /\ n \in Nat /\ t \in Seq(Procs) /\ Len(t) = n + 1 /\ Once(t)
      /\ \A k \in 1 .. n : t[k] = s[k]
      /\ \A q : In(q, t) <=> In(q, s) \/ q = p
  BY <1>1, AppendOnce, LenProperties
<1>3. DOMAIN t = 1 .. Len(t) /\ \A q : q \in ToSet(t) <=> In(q, t)
  BY <1>2, InOnce
<1>4. IsInjective(t)
  BY <1>2, <1>3 DEF IsInjective, Once
<1>5. IsPrefix(s, t) /\ s # t
  <2>1. SubSeq(s, 1, Len(s)) = SubSeq(t, 1, Len(s))
    BY <1>1, <1>2
  <2> QED BY <1>1, <1>2, <2>1 DEF IsPrefix
<1> QED BY <1>1, <1>2, <1>3, <1>4, <1>5 DEF IsStrictPrefix

\* What is left of each process, and when it stays.
LEMMA RestIs ==
    ASSUME IInv
    PROVE  Rest \in [Procs -> Nat] /\ \A p \in Procs : Rest[p] = Prime[p].C - Prime[p].CPUTime
<1>1. ASSUME NEW p \in Procs
      PROVE  Remaining(p) \in Nat
  <2>1. Prime[p] \in Process /\ Prime[p].CPUTime <= Prime[p].C
    BY DEF IInv, Types, Bursts
  <2> QED BY <2>1 DEF Remaining, Process
<1> QED BY <1>1 DEF Rest, Remaining

LEMMA RestStays ==
    ASSUME \A p \in Procs : Prime'[p].C = Prime[p].C /\ Prime'[p].CPUTime = Prime[p].CPUTime
    PROVE  Rest' = Rest
BY DEF Rest, Remaining

LEMMA MovesRest ==
    ASSUME NEW p, Moves(p)
    PROVE  Rest' = Rest
<1>1. \A x \in Procs : Prime'[x].C = Prime[x].C /\ Prime'[x].CPUTime = Prime[x].CPUTime
  BY DEF Moves, Alike
<1> QED BY <1>1, RestStays

LEMMA ViewStays ==
    ASSUME Chain(ready') = Chain(ready), selection' = selection, Rest' = Rest
    PROVE  UNCHANGED Abstract!vars
BY DEF Abstract!vars, Rest

\* Qsetup in execxuteB or creation.
LEMMA QsetupJoins ==
    ASSUME Places, NEW p, Moves(p), Prime[p].condition \in {0, 3},
           ready' = Qsetup(ready, p), selection' = selection
    PROVE  Abstract!Next(selectAlg)
<1>1. PICK s, t : s = Chain(ready) /\ Represents(ready, s) /\ t = Append(s, p)
  BY DEF Places
<1>2. p \in Procs /\ s \in Seq(Procs) /\ Once(s) /\ ~In(p, s) /\ selection # p
  BY <1>1 DEF Moves, Represents, Places
<1>3. Represents(ready', t)
  BY <1>1, <1>2, QsetupAppends
<1>4. Chain(ready') = t
  BY <1>3, ChainIs
<1>5. IsStrictPrefix(s, t) /\ IsInjective(t) /\ \A q : q \in ToSet(t) <=> In(q, s) \/ q = p
  BY <1>1, <1>2, JoinsAtBack
<1>6. selection \notin ToSet(t)
  <2>1. ASSUME In(selection, s)
        PROVE  FALSE
    <3>1. selection \in Procs
      BY <1>2, <2>1, ElementOfSeq DEF In
    <3>2. Prime[selection].condition = 1 /\ Prime[selection].condition = 2
      BY <1>1, <2>1, <3>1 DEF Places
    <3> QED BY <3>2
  <2> QED BY <1>2, <1>5, <2>1
<1>7. Rest' = Rest
  BY MovesRest
<1>8. Abstract!IsStrictPrefix(s, t) /\ Abstract!IsInjective(t) /\ selection \notin Abstract!ToSet(t)
  BY <1>5, <1>6 DEF Abstract!IsStrictPrefix, Abstract!IsPrefix, Abstract!IsInjective,
     Abstract!ToSet, IsStrictPrefix, IsPrefix, IsInjective, ToSet
<1>9. Abstract!Join
  BY <1>1, <1>4, <1>7, <1>8 DEF Abstract!Join, Rest
<1> QED BY <1>9 DEF Abstract!Next, Abstract!Common

\* proceedForward.
LEMMA ProceedLeaves ==
    ASSUME IInv, Places, Terminate \/ insertB \/ Preempt \/ KeepRunning
    PROVE  Abstract!Next(selectAlg) \/ UNCHANGED Abstract!vars
<1>1. /\ Types /\ Bursts /\ AtHead /\ selection \in Procs /\ Prime[selection].condition = 2
      /\ selection # Null
  BY Where DEF IInv, Terminate, insertB, Preempt, KeepRunning
<1>2. Rest' = Rest
  BY <1>1, ProceedMoves, MovesRest
<1>3. CASE Terminate \/ insertB
  <2>1. ready' = ready /\ selection' = Null
    BY <1>3 DEF Terminate, insertB
  <2>2. Abstract!Leave
    BY <1>1, <1>2, <2>1 DEF Abstract!Leave, Rest
  <2> QED BY <2>2 DEF Abstract!Next, Abstract!Common
<1>4. CASE Preempt
  <2>1. ready' = Qsetup(ready, selection) /\ selection' = Null /\ selectAlg = 1
    BY <1>4 DEF Preempt, Expired, RR
  <2>2. PICK s, t : s = Chain(ready) /\ Represents(ready, s) /\ t = Append(s, selection)
    BY DEF Places
  <2>3. ~In(selection, s)
    BY <1>1, <2>2 DEF Places
  <2>4. Represents(ready', t)
    BY <1>1, <2>1, <2>2, <2>3, QsetupAppends
  <2>5. Chain(ready') = t
    BY <2>4, ChainIs
  <2>6. Abstract!Preempt
    BY <1>1, <1>2, <2>1, <2>2, <2>5 DEF Abstract!Preempt, Rest
  <2> QED BY <2>1, <2>6 DEF Abstract!Next
<1>5. CASE KeepRunning
  <2>1. ready' = ready /\ selection' = selection
    BY <1>5 DEF KeepRunning
  <2> QED BY <1>2, <2>1, ViewStays
<1> QED BY <1>3, <1>4, <1>5

\* executeR's selection.
LEMMA PicksRun ==
    ASSUME IInv, Places, NEW k, Picks(k)
    PROVE  Abstract!Next(selectAlg)
<1>1. PICK s, p, t, n : /\ s = Chain(ready) /\ Represents(ready, s) /\ p = s[k]
                        /\ t = RemoveAt(s, k) /\ n = ready.n
  BY DEF Places
<1>2. /\ s \in Seq(Procs) /\ n = Len(s) /\ n \in Nat /\ DOMAIN s = 1 .. n
      /\ \A l \in 1 .. n : s[l] \in Procs
  BY <1>1, ElementOfSeq, LenProperties DEF Represents
<1>3. /\ k \in 1 .. n /\ Moves(p) /\ Represents(ready', t)
      /\ selection = Null /\ selection' = p
      /\ selectAlg # SJF => k = 1
      /\ selectAlg = SJF => /\ \A l \in 1 .. n : Remaining(p) <= Remaining(s[l])
                            /\ \A l \in 1 .. k - 1 : Remaining(p) < Remaining(s[l])
  BY <1>1 DEF Picks
<1>4. Chain(ready') = t /\ Rest' = Rest
  BY <1>3, ChainIs, MovesRest
<1>5. CASE selectAlg # SJF
  <2>1. s # <<>> /\ p = Head(s) /\ t = Tail(s)
    <3>1. s # <<>> /\ k = 1
      BY <1>2, <1>3, <1>5
    <3> QED BY <1>1, <1>2, <3>1, RemovedFirst
  <2>2. Abstract!RunFirst
    BY <1>1, <1>3, <1>4, <2>1 DEF Abstract!RunFirst, Rest
  <2>3. selectAlg # 3
    BY <1>5 DEF SJF
  <2> QED BY <2>2, <2>3 DEF Abstract!Next
<1>6. CASE selectAlg = SJF
  <2>1. \A l \in 1 .. n : Rest[s[l]] = Remaining(s[l]) /\ Rest[s[l]] \in Nat
    BY <1>2, RestIs DEF Rest
  <2>2. \A l \in 1 .. n : \/ Rest[s[k]] < Rest[s[l]]
                          \/ Rest[s[k]] = Rest[s[l]] /\ k <= l
    <3> SUFFICES ASSUME NEW l \in 1 .. n
                 PROVE  \/ Rest[s[k]] < Rest[s[l]]
                        \/ Rest[s[k]] = Rest[s[l]] /\ k <= l
      OBVIOUS
    <3>1. Rest[s[k]] <= Rest[s[l]] /\ Rest[s[k]] \in Nat /\ Rest[s[l]] \in Nat
      BY <1>1, <1>3, <1>6, <2>1
    <3>2. CASE k <= l
      BY <3>1, <3>2
    <3>3. CASE ~(k <= l)
      <4>1. l \in 1 .. k - 1
        BY <1>2, <1>3, <3>3
      <4> QED BY <1>1, <1>3, <1>6, <2>1, <4>1
    <3> QED BY <3>2, <3>3
  <2>3. t = Abstract!RemoveAt(s, k)
    BY <1>1 DEF RemoveAt, Abstract!RemoveAt
  <2>4. Abstract!RunShortest
    BY <1>1, <1>2, <1>3, <1>4, <2>2, <2>3 DEF Abstract!RunShortest, Rest
  <2>5. selectAlg = 3
    BY <1>6 DEF SJF
  <2> QED BY <2>4, <2>5 DEF Abstract!Next
<1> QED BY <1>5, <1>6

\* A cycle.
LEMMA CountdownRuns ==
    ASSUME IInv, Places, countdown
    PROVE  Abstract!Next(selectAlg) \/ UNCHANGED Abstract!vars
<1>1. /\ Types /\ ready' = ready /\ selection' = selection /\ pc = "count"
      /\ \A p \in Procs : Prime[p] \in Process /\ Prime'[p] = Tick(Prime[p])
                          /\ (Prime[p].condition = 2 <=> selection = p)
  BY DEF IInv, Places, countdown, queueVars, Types
<1>2. \A p \in Procs :
         /\ Prime'[p].C = Prime[p].C
         /\ Prime'[p].CPUTime = IF selection = p THEN Prime[p].CPUTime + 1 ELSE Prime[p].CPUTime
  BY <1>1, TickIs DEF Types
<1>3. CASE selection = Null
  <2>1. Rest' = Rest
    BY <1>2, <1>3, ProcsAreNodes, RestStays
  <2> QED BY <1>1, <2>1, ViewStays
<1>4. CASE selection # Null
  <2>1. PICK p, r : p = selection /\ p \in Procs /\ r = Rest
    BY <1>4, Where
  <2>2. r \in [Procs -> Nat] /\ r[p] > 0
    <3>1. r[p] = Remaining(p) /\ Remaining(p) \in Nat
      BY <2>1, RestIs DEF Rest
    <3>2. Prime[p].CPUBurst \in 0 .. Remaining(p) /\ Prime[p].CPUBurst > 0
      BY <1>1, <2>1 DEF IInv, Bursts
    <3> QED BY <2>1, <3>1, <3>2, RestIs
  <2>3. ASSUME NEW x \in Procs
        PROVE  Prime'[x].C - Prime'[x].CPUTime = [r EXCEPT ![p] = @ - 1][x]
    <3>1. Prime[x].C \in Nat /\ Prime[x].CPUTime \in Nat /\ r[x] = Prime[x].C - Prime[x].CPUTime
      BY <1>1, <2>1, RestIs DEF Process
    <3>2. CASE x = p
      BY <1>2, <2>1, <2>2, <3>1, <3>2
    <3>3. CASE x # p
      BY <1>2, <2>1, <2>2, <3>1, <3>3
    <3> QED BY <3>2, <3>3
  <2>4. [r EXCEPT ![p] = @ - 1] = [x \in Procs |-> [r EXCEPT ![p] = @ - 1][x]]
    BY <2>2
  <2>5. Rest' = [x \in Procs |-> Prime'[x].C - Prime'[x].CPUTime]
    BY DEF Rest, Remaining
  <2>6. Rest' = [r EXCEPT ![p] = @ - 1]
    BY <2>3, <2>4, <2>5
  <2>7. Abstract!Run
    BY <1>1, <1>4, <2>1, <2>2, <2>6 DEF Abstract!Run, Rest
  <2> QED BY <2>7 DEF Abstract!Next, Abstract!Common
<1> QED BY <1>3, <1>4

\* Extra.
LEMMA EndPassRestarts ==
    ASSUME IInv, Places, Linked, EndPass
    PROVE  Abstract!Next(selectAlg)
<1>1. \A p \in Procs : Prime[p].condition = 4
  <2> DEFINE Done == {p \in Procs : Prime[p].condition = 4}
  <2>1. Done \in SUBSET Procs /\ Cardinality(Done) = countPrime
    BY DEF IInv, Counters, EndPass
  <2>2. Done = Procs
    <3> HIDE DEF Done
    <3> QED BY <2>1, ProcsFinite
  <2> QED BY <2>2
<1>2. ready.n = 0 /\ Chain(ready) = <<>>
  <2>1. Chain(ready) \in Seq(Procs) /\ Len(Chain(ready)) = ready.n /\ ready.n \in Nat
    BY Queued DEF Places, Represents
  <2>2. ready.n = 0
    <3>1. ASSUME ready.n # 0
          PROVE  FALSE
      <4>1. 1 \in 1 .. ready.n
        BY <2>1, <3>1
      <4> QED BY <1>1, <4>1, Queued
    <3> QED BY <3>1
  <2> QED BY <2>1, <2>2, EmptySeq
<1>3. selection = Null
  BY <1>1, Where
<1>4. \A p \in Procs : Rest[p] = 0
  <2>1. \A p \in Procs : Prime[p].CPUTime = Prime[p].C /\ Prime[p].C \in Nat
    BY <1>1 DEF IInv, TimesAddUp, Types, Process
  <2> QED BY <2>1, RestIs
<1>5. Rest' \in [Procs -> Nat]
  <2>1. \A p \in Procs : Prime'[p].C \in Nat /\ Prime'[p].CPUTime = 0
    <3>1. \A p \in Procs : Prime'[p].C = Prime[p].C /\ Prime'[p].CPUTime = 0
      BY DEF EndPass, Extra, ExtraProcesses, Fresh
    <3> QED BY <3>1 DEF IInv, Types, Process
  <2> QED BY <2>1 DEF Rest, Remaining
<1>6. Chain(ready') = <<>> /\ selection' = Null
  <2>1. ready' = EmptyQ /\ selection' = Null
    BY DEF EndPass, Extra
  <2> QED BY <2>1, EmptyRepresents, ChainIs
<1>7. Abstract!Restart
  BY <1>2, <1>3, <1>4, <1>5, <1>6 DEF Abstract!Restart, Rest
<1> QED BY <1>7 DEF Abstract!Next, Abstract!Common

LEMMA StepRefines ==
    ASSUME IInv, selectAlg # BLOCK, [Next]_vars
    PROVE  Abstract!Next(selectAlg) \/ UNCHANGED Abstract!vars
<1>1. ASSUME ready' = ready, selection' = selection, Prime' = Prime
      PROVE  UNCHANGED Abstract!vars
  <2>1. Rest' = Rest
    BY <1>1, RestStays
  <2> QED BY <1>1, <2>1, ViewStays
<1>2. CASE UNCHANGED vars \/ Idle \/ CreateEnd \/ Rests
  BY <1>1, <1>2 DEF vars, queueVars, Idle, CreateEnd, Rests, Stands
<1>3. CASE Terminate \/ insertB \/ Preempt \/ KeepRunning
  BY <1>3, PlacesAre, ProceedLeaves
<1>4. CASE execxuteB
  <2>1. pc = "wake" /\ selection' = selection
    BY <1>4 DEF execxuteB
  <2>2. PICK p : p = presentN /\ p \in Procs /\ Prime[p].condition = 3
    BY <2>1, Where
  <2>3. CASE Due
    <3>1. Prime' = [Prime EXCEPT ![p].condition = 1] /\ ready' = Qsetup(ready, p)
      BY <1>4, <2>2, <2>3 DEF execxuteB, WakeQueued
    <3>2. Moves(p)
      BY <2>2, <3>1, ReadyMoves DEF IInv
    <3> QED BY <2>1, <2>2, <3>1, <3>2, PlacesAre, QsetupJoins
  <2>4. CASE ~Due
    BY <1>1, <1>4, <2>1, <2>4 DEF execxuteB
  <2> QED BY <2>3, <2>4
<1>5. CASE CreateNext
  <2>1. selection' = selection
    BY <1>5 DEF CreateNext
  <2>2. CASE Arrives(i + 1)
    <3>1. PICK p : Moves(p) /\ Prime[p].condition = 0 /\ ready' = Qsetup(ready, p)
      BY <1>5, <2>2, CreateNextIs
    <3> QED BY <2>1, <3>1, PlacesAre, QsetupJoins
  <2>3. CASE ~Arrives(i + 1)
    BY <1>1, <1>5, <2>1, <2>3, CreateNextIs
  <2> QED BY <2>2, <2>3
<1>6. CASE \E k \in Nat : Picks(k)
  BY <1>6, PlacesAre, PicksRun
<1>7. CASE countdown
  BY <1>7, PlacesAre, CountdownRuns
<1>8. CASE EndPass
  BY <1>8, PlacesAre, EndPassRestarts
<1>9. \A p : ~Parks(p) /\ ~Resumes(p)
  BY DEF Parks, Resumes
<1> QED BY Steps, <1>2, <1>3, <1>4, <1>5, <1>6, <1>7, <1>8, <1>9

\* Except under "block", the queue of pointers is a sequence, served in the order in which processes
\* became ready (FCFS, RR) or shortest first (SJF); Qsetup, dsetup and SJF's unlinking
\* on the links do nothing else to it.
THEOREM SchedulerImplementsCpuQueue == Spec /\ selectAlg # BLOCK => ImplementsCpuQueue
<1>1. ASSUME Init, selectAlg # BLOCK
      PROVE  Abstract!Init
  <2>1. IInv
    BY <1>1, InitIInv
  <2>2. Chain(ready) = <<>> /\ selection = Null
    BY <1>1, EmptyRepresents, ChainIs DEF Init
  <2>3. Rest \in [Procs -> Nat]
    BY <2>1, RestIs
  <2> QED BY <2>2, <2>3 DEF Abstract!Init, Rest
<1>2. ASSUME IInv, [Next]_vars, selectAlg # BLOCK
      PROVE  [Abstract!Next(selectAlg)]_(Abstract!vars)
  BY <1>2, StepRefines
<1>3. selectAlg # BLOCK /\ [Next]_vars => (selectAlg # BLOCK)'
  BY AlgorithmStays
<1> QED BY <1>1, <1>2, <1>3, Invariant, PTL DEF Spec, ImplementsCpuQueue

-----------------------------------------------------------------------------
(* Under "block", one process at a time, when they all arrive together. *)

\* p has been given the processor and has not terminated.
Began(p) ==
    \/ Prime[p].condition \in {2, 3}
    \/ Prime[p].condition = 1 /\ Prime[p].CPUTime > 0

Nobody == \A p \in Procs : ~Began(p)

Alone == \A p, q \in Procs : Began(p) /\ Began(q) => p = q

\* What is read is not changed, and only Extra takes an arrival back.
LEMMA InputsStay ==
    ASSUME IInv, [Next]_vars, NEW p \in Procs
    PROVE  /\ Prime'[p].A = Prime[p].A
           /\ Prime[p].condition # 0 => Prime'[p].condition # 0 \/ EndPass
<1>1. Types /\ Prime[p] \in Process
  BY DEF IInv, Types
<1>2. CASE UNCHANGED vars \/ CreateEnd
  BY <1>2 DEF vars, CreateEnd
<1>3. CASE Quiet
  BY <1>3 DEF Quiet, Alike
<1>4. CASE CreateNext
  <2>1. CASE Arrives(i + 1)
    BY <1>4, <2>1, CreateNextIs DEF Moves, Alike
  <2>2. CASE ~Arrives(i + 1)
    BY <1>4, <2>2, CreateNextIs
  <2> QED BY <2>1, <2>2
<1>5. CASE countdown
  <2>1. Prime'[p] = Tick(Prime[p])
    BY <1>5 DEF countdown
  <2> QED BY <1>1, <2>1, TickIs DEF Types
<1>6. CASE EndPass
  <2>1. Prime'[p] = [Fresh(Prime[p]) EXCEPT !.quantum = Prime[p].quantum]
    BY <1>6 DEF EndPass, Extra, ExtraProcesses
  <2> QED BY <1>1, <1>6, <2>1, FreshIs DEF Process
<1> QED BY Steps, QuietSteps, <1>2, <1>3, <1>4, <1>5, <1>6 DEF proceedForward

\* Who has left the processor for I/O has run, and so has who comes to proceedForward.
Ran == \A p \in Procs :
          /\ Prime[p].condition = 3 => Prime[p].CPUTime > 0
          /\ Prime[p].condition = 2 /\ pc \notin {"park", "count", "crash"} => Prime[p].CPUTime > 0

\* Only a selection begins a process, and Terminate alone ends one.
LEMMA BeganKept ==
    ASSUME IInv, selectAlg = BLOCK, Ran, [Next]_vars, ~EndPass, ~\E k \in Nat : Picks(k)
    PROVE  \/ \A p \in Procs : Began(p)' <=> Began(p)
           \/ Terminate /\ selection # Null
              /\ \A p \in Procs : Began(p)' <=> Began(p) /\ p # selection
<1>1. Types /\ Bursts /\ \A p \in Procs : Prime[p] \in Process
  BY DEF IInv, Types
<1>2. ASSUME NEW p, Moves(p), Began(p)' <=> Began(p)
      PROVE  \A x \in Procs : Began(x)' <=> Began(x)
  BY <1>2 DEF Moves, Began
<1>3. ASSUME Prime' = Prime
      PROVE  \A x \in Procs : Began(x)' <=> Began(x)
  BY <1>3 DEF Began
<1>4. CASE UNCHANGED vars \/ Idle \/ CreateEnd \/ Rests \/ (\E p : Parks(p)) \/ \E p : Resumes(p)
  BY <1>3, <1>4 DEF vars, Idle, CreateEnd, Rests, Parks, Resumes, Stands
<1>5. CASE Terminate \/ insertB \/ Preempt \/ KeepRunning
  <2>1. PICK p : p = selection /\ p \in Procs /\ Prime[p].condition = 2 /\ AtHead /\ p # Null
    BY <1>5, Where DEF Terminate, insertB, Preempt, KeepRunning
  <2>2. Began(p)
    BY <2>1 DEF Began
  <2>3. CASE Terminate
    <3>1. Moves(p) /\ Prime'[p].condition = 4
      BY <1>1, <2>1, <2>3, ProceedMoves
    <3>2. ~Began(p)'
      BY <3>1 DEF Began
    <3>3. \A x \in Procs : x # p => (Began(x)' <=> Began(x))
      BY <3>1 DEF Moves, Began
    <3> QED BY <2>1, <2>3, <3>2, <3>3
  <2>4. CASE insertB \/ KeepRunning
    <3>1. Moves(p) /\ Prime'[p].condition \in {2, 3}
      BY <1>1, <2>1, <2>4, ProceedMoves
    <3>2. Began(p)'
      BY <3>1 DEF Began
    <3> QED BY <1>2, <2>2, <3>1, <3>2
  <2>5. CASE Preempt
    BY <2>5 DEF Preempt, Expired, RR, BLOCK
  <2> QED BY <1>5, <2>3, <2>4, <2>5
<1>6. CASE execxuteB
  <2>1. CASE Due
    <3>1. PICK p : p = presentN /\ p \in Procs /\ Prime[p].condition = 3
      BY <1>6, Where DEF execxuteB
    <3>2. Prime' = [Prime EXCEPT ![p].condition = 1]
      BY <1>6, <2>1, <3>1 DEF execxuteB
    <3>3. Moves(p) /\ Prime'[p].condition = 1
      BY <1>1, <3>1, <3>2, ReadyMoves
    <3>4. Prime'[p].CPUTime > 0
      BY <3>1, <3>3 DEF Ran, Moves, Alike
    <3> QED BY <1>2, <3>1, <3>3, <3>4 DEF Began
  <2>2. CASE ~Due
    BY <1>3, <1>6, <2>2 DEF execxuteB
  <2> QED BY <2>1, <2>2
<1>7. CASE CreateNext
  <2>1. CASE Arrives(i + 1)
    <3>1. PICK p : p \in Procs /\ Moves(p) /\ Prime[p].condition = 0 /\ Prime'[p].condition = 1
      BY <1>7, <2>1, CreateNextIs
    <3>2. Prime[p].CPUTime = 0
      BY <1>1, <3>1 DEF IInv, TimesAddUp, Process
    <3>3. Prime'[p].CPUTime = 0
      BY <3>1, <3>2 DEF Moves, Alike
    <3> QED BY <1>2, <3>1, <3>3 DEF Began
  <2>2. CASE ~Arrives(i + 1)
    BY <1>3, <1>7, <2>2, CreateNextIs
  <2> QED BY <2>1, <2>2
<1>8. CASE countdown
  <2>1. ASSUME NEW p \in Procs
        PROVE  Began(p)' <=> Began(p)
    <3>1. Prime'[p] = Tick(Prime[p])
      BY <1>8 DEF countdown
    <3>2. /\ Prime'[p].condition = Prime[p].condition
          /\ Prime[p].condition # 2 => Prime'[p].CPUTime = Prime[p].CPUTime
      BY <1>1, <3>1, TickIs DEF Types
    <3> QED BY <3>2 DEF Began
  <2> QED BY <2>1
<1> QED BY Steps, <1>4, <1>5, <1>6, <1>7, <1>8

LEMMA RanKept ==
    ASSUME IInv, selectAlg = BLOCK, Ran, [Next]_vars
    PROVE  Ran'
<1>1. Types /\ Bursts /\ \A p \in Procs : Prime[p] \in Process
  BY DEF IInv, Types
<1> DEFINE Has(r, next) == /\ r.condition = 3 => r.CPUTime > 0
                           /\ r.condition = 2 /\ next \notin {"park", "count", "crash"} =>
                                 r.CPUTime > 0
<1>2. \A p \in Procs : Has(Prime[p], pc)
  BY DEF Ran
<1>3. ASSUME \A p \in Procs : Has(Prime'[p], pc')
      PROVE  Ran'
  BY <1>3 DEF Ran
<1>4. ASSUME Prime' = Prime, pc' \in {"park", "count", "crash"} \/ pc \notin {"park", "count", "crash"}
      PROVE  Ran'
  BY <1>2, <1>3, <1>4
<1>5. ASSUME NEW p, Moves(p), Has(Prime'[p], pc'),
             pc' \in {"park", "count", "crash"} \/ pc \notin {"park", "count", "crash"}
      PROVE  Ran'
  <2>1. \A x \in Procs : Has(Prime'[x], pc')
    BY <1>2, <1>5 DEF Moves
  <2> QED BY <1>3, <2>1
<1>6. CASE UNCHANGED vars
  BY <1>6 DEF vars, Ran
<1>7. CASE Idle \/ CreateEnd \/ Rests \/ (\E p : Parks(p)) \/ \E p : Resumes(p)
  <2>1. Prime' = Prime
    BY <1>7 DEF Idle, CreateEnd, Rests, Parks, Resumes, Stands
  <2>2. pc' \in {"park", "count", "crash"} \/ pc \notin {"park", "count", "crash"}
    BY <1>7 DEF Idle, AtHead, CreateEnd, Rests, Parks, Resumes
  <2> QED BY <1>4, <2>1, <2>2
<1>8. CASE Terminate \/ insertB \/ Preempt \/ KeepRunning
  <2>1. /\ selection \in Procs /\ Prime[selection].condition = 2 /\ AtHead /\ pc = "proceed"
    BY <1>8, Where DEF Terminate, insertB, Preempt, KeepRunning, AtHead
  <2>2. Moves(selection)
    BY <1>1, <1>8, <2>1, ProceedMoves
  <2>3. Prime'[selection].CPUTime > 0
    BY <2>1, <2>2 DEF Ran, Moves, Alike
  <2> QED BY <1>5, <2>1, <2>2, <2>3
<1>9. CASE execxuteB
  <2>1. pc = "wake"
    BY <1>9 DEF execxuteB
  <2>2. CASE Due
    <3>1. PICK p : p = presentN /\ p \in Procs
      BY <2>1, Where
    <3>2. Prime' = [Prime EXCEPT ![p].condition = 1]
      BY <1>9, <2>2, <3>1 DEF execxuteB
    <3>3. Moves(p) /\ Prime'[p].condition = 1
      BY <1>1, <3>1, <3>2, ReadyMoves
    <3> QED BY <1>5, <2>1, <3>3
  <2>3. CASE ~Due
    BY <1>4, <1>9, <2>1, <2>3 DEF execxuteB
  <2> QED BY <2>2, <2>3
<1>10. CASE CreateNext
  <2>1. CASE Arrives(i + 1)
    BY <1>5, <1>10, <2>1, CreateNextIs
  <2>2. CASE ~Arrives(i + 1)
    BY <1>4, <1>10, <2>2, CreateNextIs
  <2> QED BY <2>1, <2>2
<1>11. CASE \E k \in Nat : Picks(k)
  <2>1. PICK p : Moves(p) /\ Prime'[p].condition = 2 /\ pc' = AfterPick /\ pc = "pick"
    BY <1>11 DEF Picks
  <2>2. pc' = "park"
    BY <2>1 DEF AfterPick
  <2> QED BY <1>5, <2>1, <2>2
<1>12. CASE countdown
  <2>1. ASSUME NEW p \in Procs
        PROVE  Has(Prime'[p], pc')
    <3>1. PICK r : r = Prime[p] /\ r \in Process
      BY <1>1
    <3>2. PICK t : t = Tick(r)
      OBVIOUS
    <3>3. /\ t.condition = r.condition
          /\ t.CPUTime = IF r.condition = 2 THEN r.CPUTime + 1 ELSE r.CPUTime
      BY <1>1, <3>1, <3>2, TickIs DEF Types
    <3>4. t = Prime'[p]
      BY <1>12, <3>1, <3>2 DEF countdown
    <3>5. r.CPUTime \in Nat /\ (r.condition = 3 => r.CPUTime > 0)
      BY <1>2, <3>1 DEF Process
    <3> QED BY <3>3, <3>4, <3>5
  <2> QED BY <1>3, <2>1
<1>13. CASE EndPass
  BY <1>13, ExtraIs DEF Ran
<1> QED BY Steps, <1>6, <1>7, <1>8, <1>9, <1>10, <1>11, <1>12, <1>13

-----------------------------------------------------------------------------
(* Whose turn it is. *)

\* Nobody has arrived, and the first to do so will own the processor.
Before ==
    /\ \A p \in Procs : Prime[p].condition = 0
    /\ paused = <<>> /\ namelessOp = Null /\ firstPrime

\* They have arrived, and the owner, at the front, is not yet selected.
First ==
    /\ Linked /\ Nobody /\ paused = <<>> /\ pc \in {"create", "resume", "pick"}
    /\ ready.n # 0 /\ namelessOp = ready.front

\* One process is ready that has not run, and was not parked in the first round.
Spare == ready.n = 1 /\ ~Began(ready.front)

\* Who is ready, at each part of datapoint, once they have all arrived.
FewReady ==
    /\ pc \in {"proceed", "wake", "create", "count"} =>
          /\ ready.n <= 1
          /\ Spare =>
                /\ paused # <<>> /\ namelessOp # ready.front
                /\ pc \in {"count", "proceed"} => selection # Null
                /\ pc = "wake" => \A p \in Procs : Prime[p].condition = 3 => Prime[p].BurstTime > 0
    /\ pc = "yield" => ready.n <= 1 /\ (i # 0 => ready.n = 0) /\ namelessOp # Null
    /\ pc = "resume" =>
          /\ ready.n <= 1
          /\ namelessOp = Null /\ paused = <<>> => ready.n = 0
          /\ namelessOp # Null => ~Spare
    /\ pc = "pick" =>
          /\ namelessOp = Null => ready.n = 0
          /\ (Nobody /\ ready.n <= 2) \/ (ready.n <= 1 /\ ~Spare)
    /\ pc = "park" =>
          \/ ready.n = 0
          \/ /\ selection # Null
             /\ \/ i = 0 /\ ready.n <= 1
                \/ i = 0 /\ paused = <<>> /\ namelessOp = selection
                \/ i = 1 /\ ready.n = 1 /\ paused # <<>> /\ namelessOp = selection

Rounds ==
    /\ Linked /\ \A p \in Procs : Prime[p].condition # 0
    /\ namelessOp = Null => Nobody
    /\ FewReady

Turns == Before \/ First \/ Rounds \/ Slipped \/ Stuck \/ pc = "crash"

OInv == Ran /\ Alone /\ Turns

\* What is known before each step.
Taken == IInv /\ selectAlg = BLOCK /\ Together /\ Ran /\ Alone

-----------------------------------------------------------------------------

\* Who waits, when at most one does.
LEMMA WaitsAlone ==
    ASSUME Linked, ready.n <= 1, NEW p \in Waiting
    PROVE  ready.n = 1 /\ p = ready.front
<1>1. /\ ready.n \in Nat /\ Len(Chain(ready)) = ready.n
      /\ ready.n # 0 => ready.front = Chain(ready)[1]
  BY Queued
<1>2. In(p, Chain(ready))
  BY DEF Linked, Waiting
<1>3. PICK k \in 1 .. Len(Chain(ready)) : Chain(ready)[k] = p
  BY <1>2 DEF In
<1>4. ready.n = 1 /\ k = 1
  BY <1>1, <1>3
<1> QED BY <1>1, <1>3, <1>4

\* The owner has begun, and is not ready.
LEMMA OwnerBegan ==
    ASSUME Taken, selection # Null
    PROVE  /\ selection \in Procs /\ Began(selection) /\ selection \notin Waiting
           /\ \A p \in Procs : Began(p) => p = selection
<1>1. selection \in Procs /\ Prime[selection].condition = 2
  BY Where DEF Taken
<1>2. Began(selection) /\ selection \notin Waiting
  BY <1>1 DEF Began, Waiting
<1> QED BY <1>1, <1>2 DEF Taken, Alone

\* Together, once one has arrived they all have.
LEMMA AllArrived ==
    ASSUME Taken, pc \in Executing, NEW p \in Procs, Prime[p].condition # 0, NEW q \in Procs
    PROVE  Prime[q].condition # 0
<1>1. Prime[p] \in Process /\ Prime[q] \in Process /\ present \in Int
  BY DEF Taken, IInv, Types
<1>2. Prime[p].A <= present
  BY DEF Taken, IInv, Arrivals
<1>3. Prime[q].condition = 0 => present < Prime[q].A
  BY DEF Taken, IInv, Arrivals, Visited
<1>4. Prime[p].A = Prime[q].A
  BY DEF Taken, Together
<1> QED BY <1>1, <1>2, <1>3, <1>4 DEF Process

\* One process keeps the processor, if none is selected.
LEMMA AloneKept ==
    ASSUME Taken, [Next]_vars, ~\E k \in Nat : Picks(k)
    PROVE  /\ Alone'
           /\ \A p \in Procs : Began(p)' => Began(p)
           /\ Nobody => Nobody'
<1>1. \A p \in Procs : Began(p)' => Began(p)
  <2>1. CASE EndPass
    <3>1. \A p \in Procs : Prime'[p].condition = 0
      BY <2>1, ExtraIs
    <3> QED BY <3>1 DEF Began
  <2>2. CASE ~EndPass
    BY <2>2, BeganKept DEF Taken
  <2> QED BY <2>1, <2>2
<1>2. Alone'
  BY <1>1 DEF Taken, Alone
<1> QED BY <1>1, <1>2 DEF Nobody

\* The next pass begins as the first did.
LEMMA PassBegins ==
    ASSUME EndPass
    PROVE  Before'
<1>1. \A p \in Procs : Prime'[p].condition = 0
  BY ExtraIs
<1> QED BY <1>1 DEF EndPass, Extra, ExtraUni, Before

\* A step that does not move the queue on, in the rounds.
LEMMA RoundsIf ==
    ASSUME Taken, Rounds, [Next]_vars, ~EndPass,
           ~\E p : Parks(p), ~\E k \in Nat : Picks(k),
           namelessOp' = Null => namelessOp = Null \/ Terminate, FewReady'
    PROVE  Rounds'
<1>1. Linked'
  BY QueueKept DEF Taken, Persists, Rounds
<1>2. \A p \in Procs : Prime'[p].condition # 0
  BY InputsStay DEF Taken, Rounds
<1>3. CASE ~Terminate
  <2>1. namelessOp' = Null => Nobody'
    BY <1>3, AloneKept DEF Rounds
  <2> QED BY <1>1, <1>2, <2>1 DEF Rounds
<1>4. CASE Terminate
  <2>1. PICK p : p = selection /\ p # Null
    BY <1>4 DEF Terminate
  <2>2. p \in Procs /\ Prime[p].condition = 2 /\ AtHead /\ Types /\ Bursts
    BY <1>4, <2>1, Where DEF Terminate, Taken, IInv
  <2>3. Prime'[p].condition = 4
    BY <1>4, <2>1, <2>2, ProceedMoves
  <2>4. ~Began(p)'
    BY <2>3 DEF Began
  <2>5. \A x \in Procs : Began(x)' => x = p
    BY <2>1, AloneKept, OwnerBegan
  <2>6. Nobody'
    BY <2>4, <2>5 DEF Nobody
  <2> QED BY <1>1, <1>2, <2>6 DEF Rounds
<1> QED BY <1>3, <1>4

\* proceedForward.
LEMMA ProceedTurns ==
    ASSUME Taken, Rounds, [Next]_vars, pc = "proceed",
           Idle \/ Terminate \/ insertB \/ KeepRunning
    PROVE  Rounds'
<1>1. /\ ready' = ready /\ paused' = paused /\ pc' \in {"wake", "create"}
      /\ namelessOp' \in {Null, namelessOp} /\ (namelessOp' = namelessOp \/ Terminate)
  BY DEF Idle, Terminate, insertB, KeepRunning, StartWake, uniVars
<1>2. ~EndPass /\ (~\E p : Parks(p)) /\ ~\E k \in Nat : Picks(k)
  BY DEF EndPass, Idle, Terminate, insertB, KeepRunning, AtHead, Parks, Picks
<1>3. ready.n <= 1
  BY DEF Rounds, FewReady
<1>4. ASSUME Spare'
      PROVE  /\ paused # <<>> /\ namelessOp' # ready.front
             /\ \A p \in Procs : Prime'[p].condition = 3 => Prime'[p].BurstTime > 0
  <2>1. PICK f : f = ready.front
    OBVIOUS
  <2>2. ready.n = 1 /\ ~Began(f)' /\ f \in Waiting /\ f \in Procs /\ f # Null
    BY <1>1, <1>4, <2>1, Queued DEF Spare, Began, Rounds, Waiting
  <2>3. ~Began(f)
    <3>1. Began(f)' <=> Began(f)
      <4>1. selection # Null => f # selection
        BY <2>2, OwnerBegan
      <4> QED BY <1>2, <2>2, <4>1, BeganKept DEF Taken
    <3> QED BY <2>2, <3>1
  <2>4. paused # <<>> /\ namelessOp # f /\ selection # Null
    BY <2>1, <2>2, <2>3 DEF Rounds, FewReady, Spare
  <2>5. PICK s : s = selection /\ s \in Procs /\ Prime[s].condition = 2
    BY <2>4, Where DEF Taken
  <2>6. ASSUME NEW p \in Procs, Prime'[p].condition = 3
        PROVE  Prime'[p].BurstTime > 0
    <3>1. AtHead /\ Types /\ Bursts
      BY <2>4 DEF Idle, Terminate, insertB, KeepRunning, Taken, IInv
    <3>2. Moves(s)
      BY <2>4, <2>5, <3>1, ProceedMoves DEF Idle
    <3>3. p = s
      <4>1. ASSUME p # s
            PROVE  FALSE
        <5>1. Prime[p].condition = 3
          BY <2>6, <3>2, <4>1 DEF Moves
        <5>2. Began(p)
          BY <5>1 DEF Began
        <5> QED BY <2>4, <2>5, <4>1, <5>2, OwnerBegan
      <4> QED BY <4>1
    <3>4. insertB
      BY <2>4, <2>5, <2>6, <3>1, <3>3, ProceedMoves DEF Idle
    <3> QED BY <2>5, <3>1, <3>3, <3>4, ProceedMoves
  <2> QED BY <1>1, <2>1, <2>2, <2>4, <2>6
<1>5. FewReady'
  BY <1>1, <1>3, <1>4 DEF FewReady
<1> QED BY <1>1, <1>2, <1>5, RoundsIf

\* execxuteB: who is woken has begun, so nobody else is ready.
LEMMA WakeTurns ==
    ASSUME Taken, Rounds, [Next]_vars, execxuteB
    PROVE  Rounds'
<1>1. /\ pc = "wake" /\ pc' \in {"wake", "create"} /\ paused' = paused /\ namelessOp' = namelessOp
  BY DEF execxuteB, uniVars
<1>2. ~EndPass /\ (~\E p : Parks(p)) /\ (~\E k \in Nat : Picks(k)) /\ ~Terminate
  BY <1>1 DEF EndPass, Terminate, AtHead, Parks, Picks
<1>3. ready.n <= 1
  BY <1>1 DEF Rounds, FewReady
<1>4. CASE Due
  <2>1. PICK p : p = presentN /\ p \in Procs /\ Prime[p].condition = 3
    BY <1>1, Where DEF Taken
  <2>2. Began(p) /\ p \notin Waiting /\ Prime[p].BurstTime <= 0
    BY <1>4, <2>1 DEF Began, Waiting, Due
  <2>3. ready.n = 0
    <3>1. ASSUME ready.n # 0
          PROVE  FALSE
      <4>1. ready.n = 1 /\ ready.front \in Waiting
        BY <1>3, <3>1, Queued DEF Rounds
      <4>2. ~Spare
        BY <1>1, <2>1, <2>2 DEF Rounds, FewReady, Taken, IInv, Types, Process
      <4>3. Began(ready.front) /\ ready.front \in Procs
        BY <4>1, <4>2 DEF Spare, Waiting
      <4> QED BY <2>1, <2>2, <4>1, <4>3 DEF Taken, Alone
    <3> QED BY <3>1
  <2>4. ready' = Qsetup(ready, p) /\ pc' = "create"
    BY <1>4, <2>1 DEF execxuteB, WakeQueued, AfterRemoval
  <2>5. ready'.n = 1 /\ ready'.front = p
    BY <2>3, <2>4 DEF Qsetup, Taken, IInv, Counted, Queue
  <2>6. Began(p)'
    BY <1>2, <2>1, <2>2, BeganKept DEF Taken
  <2>7. ~Spare'
    BY <2>5, <2>6 DEF Spare, Began
  <2>8. FewReady'
    BY <2>4, <2>5, <2>7 DEF FewReady
  <2> QED BY <1>1, <1>2, <2>8, RoundsIf
<1>5. CASE ~Due
  <2>1. Prime' = Prime /\ ready' = ready
    BY <1>5 DEF execxuteB
  <2>2. Spare' <=> Spare
    BY <2>1 DEF Spare, Began
  <2>3. FewReady'
    BY <1>1, <1>3, <2>1, <2>2 DEF FewReady, Rounds
  <2> QED BY <1>1, <1>2, <2>3, RoundsIf
<1> QED BY <1>4, <1>5

\* creation: nobody arrives any more, and nobody is parked whose turn it is.
LEMMA CreateTurns ==
    ASSUME Taken, Rounds, [Next]_vars, CreateNext \/ CreateEnd
    PROVE  Rounds'
<1>1. pc = "create" /\ paused' = paused /\ i \in Nat
  BY CountAssumption DEF CreateNext, CreateEnd, queueVars, Taken, IInv, Types
<1>2. ~EndPass /\ (~\E p : Parks(p)) /\ (~\E k \in Nat : Picks(k)) /\ ~Terminate
  BY <1>1 DEF EndPass, Terminate, AtHead, Parks, Picks
<1>3. ready.n <= 1 /\ ready.n \in Nat
        /\ (Spare => paused # <<>> /\ namelessOp # ready.front)
  BY <1>1, Queued DEF Rounds, FewReady
<1>4. /\ Prime' = Prime /\ ready' = ready /\ namelessOp' = namelessOp
      /\ \/ pc' = "create"
         \/ /\ i' = 0
            /\ pc' = IF MustPark(ready, namelessOp) THEN "yield" ELSE "resume"
  <2>1. CASE CreateNext
    <3>1. ~Arrives(i + 1)
      BY <2>1, CreateNextIs DEF Rounds, Taken, Moves
    <3> QED BY <2>1, <3>1, CreateNextIs DEF CreateNext, Taken, uniVars
  <2>2. CASE CreateEnd
    BY <2>2 DEF CreateEnd, Taken, queueVars, uniVars
  <2> QED BY <2>1, <2>2
<1>5. Spare' <=> Spare
  BY <1>4 DEF Spare, Began
<1>6. CASE pc' = "create"
  <2>1. FewReady'
    BY <1>1, <1>3, <1>4, <1>5, <1>6 DEF FewReady
  <2> QED BY <1>2, <1>4, <2>1, RoundsIf
<1>7. CASE pc' = "yield" /\ i' = 0 /\ MustPark(ready, namelessOp)
  <2>1. namelessOp # Null
    BY <1>7 DEF MustPark
  <2>2. FewReady'
    BY <1>3, <1>4, <1>7, <2>1 DEF FewReady
  <2> QED BY <1>2, <1>4, <2>2, RoundsIf
<1>8. CASE pc' = "resume" /\ ~MustPark(ready, namelessOp)
  <2>1. namelessOp = Null /\ paused = <<>> => ready.n = 0
    <3>1. ASSUME namelessOp = Null, ready.n # 0
          PROVE  Spare
      <4>1. ready.front \in Procs /\ ready.n = 1
        BY <1>3, <3>1, Queued DEF Rounds, Waiting
      <4>2. ~Began(ready.front)
        BY <3>1, <4>1 DEF Rounds, Nobody
      <4> QED BY <4>1, <4>2 DEF Spare
    <3> QED BY <1>3, <3>1
  <2>2. namelessOp # Null => ~Spare
    BY <1>3, <1>8 DEF MustPark, Spare
  <2>3. FewReady'
    BY <1>1, <1>3, <1>4, <1>5, <1>8, <2>1, <2>2 DEF FewReady
  <2> QED BY <1>2, <1>4, <2>3, RoundsIf
<1> QED BY <1>4, <1>6, <1>7, <1>8

\* A step of executeR that moves nobody.
LEMMA RestTurns ==
    ASSUME Taken, Rounds, [Next]_vars, Rests, pc' # "crash"
    PROVE  Rounds'
<1>1. /\ pc \in {"yield", "resume", "pick", "park"} /\ i' = 0 /\ i \in Nat
      /\ UNCHANGED <<Prime, ready, paused, namelessOp, selection>>
      /\ \/ pc = "yield" /\ pc' = "resume" /\ ~(i < ready.n)
         \/ pc = "resume" /\ pc' = "pick" /\ ~(paused # <<>> /\ namelessOp = Null)
         \/ pc = "pick" /\ pc' = "park" /\ (ready.n = 0 \/ selection # Null)
         \/ pc = "park" /\ pc' = "count" /\ (selection = Null \/ ~(i < ready.n))
  BY CountAssumption DEF Rests, Stands, AfterPick, Taken, IInv, Types
<1>2. ~EndPass /\ (~\E p : Parks(p)) /\ (~\E k \in Nat : Picks(k)) /\ ~Terminate
  BY <1>1 DEF EndPass, Terminate, AtHead, Parks, Picks
<1>3. ready.n \in Nat
  BY Queued DEF Rounds
<1>4. (Spare' <=> Spare) /\ (Nobody' <=> Nobody)
  BY <1>1 DEF Spare, Nobody, Began
<1>5. FewReady /\ (ready.n = 0 => ~Spare)
  BY DEF Rounds, Spare
<1>6. CASE pc = "yield"
  <2>1. ready.n = 0 /\ pc' = "resume"
    BY <1>1, <1>3, <1>5, <1>6 DEF FewReady
  <2> QED BY <1>1, <1>2, <1>4, <1>5, <2>1, RoundsIf DEF FewReady
<1>7. CASE pc = "resume"
  <2>1. /\ pc' = "pick" /\ ready.n <= 1 /\ ~Spare
        /\ namelessOp = Null => ready.n = 0
    BY <1>1, <1>5, <1>7 DEF FewReady
  <2> QED BY <1>1, <1>2, <1>4, <2>1, RoundsIf DEF FewReady
<1>8. CASE pc = "pick"
  <2>1. selection # Null => ~Nobody
    BY OwnerBegan DEF Nobody
  <2>2. pc' = "park" /\ (ready.n = 0 \/ (selection # Null /\ ready.n <= 1))
    BY <1>1, <1>5, <1>8, <2>1 DEF FewReady
  <2> QED BY <1>1, <1>2, <2>2, RoundsIf DEF FewReady
<1>9. CASE pc = "park"
  <2>1. ASSUME ready.n # 0
        PROVE  /\ ready.n = 1 /\ selection # Null /\ paused # <<>>
               /\ namelessOp # ready.front
    <3>1. ready.n = 1 /\ selection # Null /\ paused # <<>> /\ namelessOp = selection
      BY <1>1, <1>3, <1>5, <1>9, <2>1 DEF FewReady
    <3>2. ready.front \in Waiting
      BY <2>1, Queued DEF Rounds
    <3> QED BY <3>1, <3>2, OwnerBegan
  <2>2. pc' = "count" /\ ready.n <= 1
    BY <1>1, <1>3, <1>9, <2>1
  <2>3. FewReady'
    BY <1>1, <1>4, <1>5, <2>1, <2>2 DEF FewReady
  <2> QED BY <1>1, <1>2, <2>3, RoundsIf
<1> QED BY <1>1, <1>6, <1>7, <1>8, <1>9

\* One of the others is parked: none is left then, or one, or the queue comes apart.
LEMMA ParkTurns ==
    ASSUME Taken, Rounds, [Next]_vars, NEW p, Parks(p)
    PROVE  Rounds' \/ Slipped'
<1>1. /\ pc \in {"yield", "park"} /\ pc' = pc /\ i < ready.n /\ i' = i + 1 /\ i \in Nat
      /\ pc = "park" => selection # Null
      /\ UNCHANGED <<Prime, selection, namelessOp>>
  BY CountAssumption DEF Parks, Stands, Taken, IInv, Types
<1>2. /\ ready'.n = ready.n - 1 /\ paused' # <<>> /\ ready.n \in Nat
      /\ \/ Linked' /\ (paused = <<>> => ready'.n <= 1)
         \/ Slipped'
  BY ParksKept, AlgorithmStays, Queued DEF Taken, Rounds
<1>3. /\ \A x \in Procs : Prime'[x].condition # 0
      /\ namelessOp' = Null => Nobody'
  BY <1>1 DEF Rounds, Nobody, Began
<1>4. CASE Linked' /\ (paused = <<>> => ready'.n <= 1)
  <2>1. CASE pc = "yield"
    <3>1. ready.n = 1 /\ i = 0 /\ namelessOp # Null
      BY <1>1, <1>2, <2>1 DEF Rounds, FewReady
    <3>2. FewReady'
      BY <1>1, <1>2, <2>1, <3>1 DEF FewReady
    <3> QED BY <1>3, <1>4, <3>2 DEF Rounds
  <2>2. CASE pc = "park"
    <3>1. /\ i = 0 /\ selection # Null
          /\ ready.n = 1 \/ (ready.n \in 1 .. 2 /\ namelessOp = selection)
      BY <1>1, <1>2, <1>4, <2>2 DEF Rounds, FewReady
    <3>2. FewReady'
      BY <1>1, <1>2, <2>2, <3>1 DEF FewReady
    <3> QED BY <1>3, <1>4, <3>2 DEF Rounds
  <2> QED BY <1>1, <2>1, <2>2
<1> QED BY <1>2, <1>4

\* The next of the parked becomes ready, and is the owner.
LEMMA ResumeTurns ==
    ASSUME Taken, Rounds, [Next]_vars, NEW p, Resumes(p)
    PROVE  Rounds'
<1>1. /\ pc = "resume" /\ pc' = "pick" /\ namelessOp = Null /\ namelessOp' = p
      /\ ready' = Qsetup(ready, p) /\ paused # <<>> /\ p = Head(paused)
  BY DEF Resumes
<1>2. p \in Procs /\ p # Null
  <2>1. paused \in Seq(Procs)
    BY DEF Taken, IInv, Seats
  <2>2. Head(paused) \in Procs
    BY <1>1, <2>1, HeadTailProperties
  <2> QED BY <1>1, <2>2, ProcsAreNodes
<1>3. ~EndPass /\ (~\E x : Parks(x)) /\ (~\E k \in Nat : Picks(k)) /\ ~Terminate
  BY <1>1 DEF EndPass, Terminate, AtHead, Parks, Picks
<1>4. ready.n <= 1 /\ ready.n \in Nat /\ ready'.n = ready.n + 1
  BY <1>1, <1>2, QsetupIs DEF Rounds, FewReady, Taken, IInv, Counted, Queue
<1>5. Nobody'
  BY <1>1, <1>3, AloneKept DEF Rounds
<1>6. FewReady'
  BY <1>1, <1>2, <1>4, <1>5 DEF FewReady
<1> QED BY <1>1, <1>2, <1>3, <1>6, RoundsIf

\* The one at the front is selected, and if another has begun it is that one.
LEMMA PickTurns ==
    ASSUME Taken, Rounds \/ First, [Next]_vars, NEW k \in Nat, Picks(k)
    PROVE  Alone' /\ Rounds'
<1>1. PICK p : p = Chain(ready)[k]
  OBVIOUS
<1>2. /\ k = 1 /\ k \in 1 .. ready.n /\ pc = "pick" /\ pc' = "park" /\ Moves(p)
      /\ p # Null /\ selection = Null /\ selection' = p /\ Prime'[p].condition = 2
      /\ paused' = paused /\ i' = i /\ namelessOp' = namelessOp /\ Linked
      /\ Represents(ready', RemoveAt(Chain(ready), k))
  BY <1>1 DEF Picks, Taken, AfterPick, BLOCK, SJF, localVars, uniVars
<1>3. ready.n \in Nat /\ ready.n # 0 /\ p = ready.front /\ p \in Procs /\ i = 0
  BY <1>1, <1>2, Queued DEF Moves, Taken, IInv, Types
<1>4. ready'.n = ready.n - 1
  <2>1. PICK s, t : s = Chain(ready) /\ t = RemoveAt(s, k)
    OBVIOUS
  <2>2. s \in Seq(Procs) /\ Len(s) = ready.n
    BY <1>2, <2>1, Queued DEF Linked, Represents
  <2>3. Len(t) = Len(s) - 1
    BY <1>2, <2>1, <2>2, Removed
  <2> QED BY <1>2, <2>1, <2>2, <2>3 DEF Represents
<1>5. Linked'
  BY <1>2, QueueKept DEF Taken, Persists, EndPass, Parks
<1>6. \A x \in Procs : Began(x) => x = p
  <2>1. CASE First
    BY <2>1 DEF First, Nobody
  <2>2. CASE Rounds /\ Nobody
    BY <2>2 DEF Nobody
  <2>3. CASE Rounds /\ ~Nobody
    <3>1. ready.n = 1 /\ ~Spare
      BY <1>2, <1>3, <2>3 DEF Rounds, FewReady
    <3>2. Began(p)
      BY <1>3, <3>1 DEF Spare
    <3> QED BY <1>3, <3>2 DEF Taken, Alone
  <2> QED BY <2>1, <2>2, <2>3
<1>7. \A x \in Procs : Began(x)' => x = p
  BY <1>2, <1>6 DEF Moves, Began
<1>8. \A x \in Procs : Prime'[x].condition # 0
  <2>1. \A x \in Procs : Prime[x].condition # 0
    <3>1. CASE Rounds
      BY <3>1 DEF Rounds
    <3>2. CASE First
      <4>1. pc \in Executing /\ Prime[p].condition = 1
        BY <1>1, <1>2 DEF Executing, Picks
      <4> QED BY <1>3, <4>1, AllArrived
    <3> QED BY <3>1, <3>2
  <2> QED BY <1>2, <2>1, InputsStay DEF Taken, EndPass
<1>9. namelessOp # Null
  BY <1>2, <1>3 DEF First, Rounds, FewReady
<1>10. FewReady'
  <2>1. CASE First
    <3>1. paused' = <<>> /\ namelessOp' = selection' /\ i' = 0 /\ selection' # Null
      BY <1>2, <1>3, <2>1 DEF First
    <3> QED BY <1>2, <3>1 DEF FewReady
  <2>2. CASE Rounds
    <3>1. ready'.n <= 1 /\ i' = 0 /\ selection' # Null
      BY <1>2, <1>3, <1>4, <2>2 DEF Rounds, FewReady
    <3> QED BY <1>2, <3>1 DEF FewReady
  <2> QED BY <2>1, <2>2
<1> QED BY <1>2, <1>5, <1>7, <1>8, <1>9, <1>10 DEF Alone, Rounds

\* countdown.
LEMMA CountTurns ==
    ASSUME Taken, Rounds, [Next]_vars, countdown
    PROVE  Rounds'
<1>1. /\ pc = "count" /\ pc' = "proceed"
      /\ UNCHANGED <<ready, paused, selection, namelessOp>>
  BY DEF countdown, queueVars, uniVars
<1>2. ~EndPass /\ (~\E p : Parks(p)) /\ (~\E k \in Nat : Picks(k)) /\ ~Terminate
  BY <1>1 DEF EndPass, Terminate, AtHead, Parks, Picks
<1>3. Spare' => Spare
  <2>1. PICK f : f = ready.front
    OBVIOUS
  <2>2. ready.n = 1 => f \in Procs
    BY <2>1, Queued DEF Rounds, Waiting
  <2>3. f \in Procs => (Began(f)' <=> Began(f))
    BY <1>2, BeganKept DEF Taken
  <2> QED BY <1>1, <2>1, <2>2, <2>3 DEF Spare, Began
<1>4. FewReady'
  BY <1>1, <1>3 DEF FewReady, Rounds
<1> QED BY <1>1, <1>2, <1>4, RoundsIf

\* All steps of the rounds.
LEMMA RoundsTurn ==
    ASSUME Taken, Rounds, [Next]_vars
    PROVE  Alone' /\ Turns'
<1>1. CASE UNCHANGED vars
  <2>1. UNCHANGED <<Prime, ready, paused, namelessOp, selection, pc, i>>
    BY <1>1 DEF vars, queueVars, uniVars, localVars
  <2>2. Linked' /\ (Spare' <=> Spare) /\ (Nobody' <=> Nobody) /\ Alone'
    BY <2>1 DEF Linked, Waiting, Spare, Nobody, Began, Alone, Taken, Rounds
  <2>3. FewReady'
    BY <2>1, <2>2 DEF Rounds, FewReady
  <2> QED BY <2>1, <2>2, <2>3 DEF Rounds, Turns
<1>2. CASE \E k \in Nat : Picks(k)
  BY <1>2, PickTurns DEF Turns
<1>3. CASE ~\E k \in Nat : Picks(k)
  <2>1. Alone'
    BY <1>3, AloneKept
  <2>2. CASE Idle \/ Terminate \/ insertB \/ KeepRunning
    BY <2>1, <2>2, ProceedTurns DEF Turns, Idle, Terminate, insertB, KeepRunning, AtHead
  <2>3. CASE Preempt
    BY <2>3 DEF Preempt, Expired, Taken, RR, BLOCK
  <2>4. CASE execxuteB
    BY <2>1, <2>4, WakeTurns DEF Turns
  <2>5. CASE CreateNext \/ CreateEnd
    BY <2>1, <2>5, CreateTurns DEF Turns
  <2>6. CASE Rests
    BY <2>1, <2>6, RestTurns DEF Turns
  <2>7. CASE \E p : Parks(p)
    BY <2>1, <2>7, ParkTurns DEF Turns
  <2>8. CASE \E p : Resumes(p)
    BY <2>1, <2>8, ResumeTurns DEF Turns
  <2>9. CASE countdown
    BY <2>1, <2>9, CountTurns DEF Turns
  <2>10. CASE EndPass
    BY <2>1, <2>10, PassBegins DEF Turns
  <2> QED BY Steps, <1>1, <1>3, <2>2, <2>3, <2>4, <2>5, <2>6, <2>7, <2>8, <2>9, <2>10
          DEF Taken
<1> QED BY <1>2, <1>3

\* Until they arrive, nobody does anything.
LEMMA BeforeTurns ==
    ASSUME Taken, Before, [Next]_vars
    PROVE  Before' \/ First'
<1>1. /\ \A p \in Procs : Prime[p].condition = 0
      /\ selection = Null /\ Waiting = {} /\ paused = <<>> /\ namelessOp = Null /\ firstPrime
  <2>1. selection = Null
    BY Where DEF Taken, Before
  <2> QED BY <2>1 DEF Before, Waiting
<1>2. CASE UNCHANGED vars \/ Idle \/ CreateEnd \/ Rests
  <2>1. UNCHANGED <<Prime, paused, namelessOp, firstPrime>>
    BY <1>2 DEF vars, Idle, StartWake, CreateEnd, Rests, Stands, queueVars, uniVars
  <2> QED BY <2>1 DEF Before
<1>3. ~(Terminate \/ insertB \/ Preempt \/ KeepRunning)
  BY <1>1 DEF Terminate, insertB, Preempt, KeepRunning
<1>4. ~execxuteB
  BY <1>1, Where DEF execxuteB, Taken
<1>5. ~(\E p : Parks(p)) /\ ~\E p : Resumes(p)
  BY <1>1 DEF Parks, Resumes
<1>6. ~\E k \in Nat : Picks(k)
  BY <1>1 DEF Picks, Moves
<1>7. CASE CreateNext
  <2>1. paused' = paused /\ pc' = "create"
    BY <1>7, CreateNextIs DEF CreateNext, Taken
  <2>2. CASE Arrives(i + 1)
    <3>1. PICK p : p = i + 1 /\ p \in Procs
      BY <1>7, CreateNextIs DEF Taken
    <3>2. ready' = Qsetup(ready, p) /\ namelessOp' = p
      BY <1>1, <1>7, <2>2, <3>1 DEF CreateNext
    <3>3. ready \in Queue /\ ready.n = 0
      BY <1>1, FS_EmptySet DEF Taken, IInv, Counted
    <3>4. ready'.n # 0 /\ ready'.front = p
      BY <3>2, <3>3 DEF Qsetup, Queue
    <3>5. Linked
      BY <3>3 DEF Taken, IInv, Order, Slipped, Stuck
    <3>6. Linked'
      BY <1>7, <3>5, QueueKept DEF Taken, Persists, EndPass, Parks, CreateNext
    <3>7. Nobody /\ ~EndPass
      BY <1>1, <1>7 DEF Nobody, Began, EndPass, CreateNext
    <3>8. Nobody'
      BY <1>6, <3>7, AloneKept
    <3> QED BY <1>1, <2>1, <3>2, <3>4, <3>6, <3>8 DEF First
  <2>3. CASE ~Arrives(i + 1)
    <3>1. UNCHANGED <<Prime, paused, namelessOp, firstPrime>>
      BY <1>7, <2>1, <2>3, CreateNextIs DEF CreateNext, uniVars, Taken
    <3> QED BY <3>1 DEF Before
  <2> QED BY <2>2, <2>3
<1>8. CASE countdown
  <2>1. \A p \in Procs : Prime'[p].condition = Prime[p].condition
    BY <1>8, TickIs DEF countdown, Taken, IInv, Types
  <2> QED BY <1>8, <2>1 DEF Before, countdown, queueVars, uniVars
<1>9. CASE EndPass
  BY <1>9, PassBegins
<1> QED BY Steps, <1>2, <1>3, <1>4, <1>5, <1>6, <1>7, <1>8, <1>9 DEF Taken

\* The first to arrive stays at the front until it is selected.
LEMMA FirstTurns ==
    ASSUME Taken, First, [Next]_vars
    PROVE  Alone' /\ (First' \/ Rounds' \/ pc' = "crash")
<1>1. /\ Linked /\ Nobody /\ paused = <<>> /\ pc \in {"create", "resume", "pick"}
      /\ ready.n # 0 /\ namelessOp = ready.front /\ ready \in Queue
      /\ selection = Null /\ namelessOp # Null
  <2>1. selection = Null
    BY OwnerBegan DEF First, Nobody
  <2> QED BY <2>1, Queued DEF First, Taken, IInv, Counted
<1>2. CASE \E k \in Nat : Picks(k)
  BY <1>2, PickTurns
<1>3. CASE ~\E k \in Nat : Picks(k)
  <2>1. Alone' /\ Nobody'
    BY <1>1, <1>3, AloneKept
  <2>2. ~EndPass /\ ~\E p : Parks(p)
    BY <1>1 DEF EndPass, Parks
  <2>3. Linked'
    BY <1>1, <2>2, QueueKept DEF Taken, Persists
  <2>4. ASSUME paused' = paused, namelessOp' = namelessOp, ready'.n # 0,
               ready'.front = ready.front, pc' \in {"create", "resume", "pick"}
        PROVE  First'
    BY <1>1, <2>1, <2>3, <2>4 DEF First
  <2>5. CASE UNCHANGED vars
    <3>1. UNCHANGED <<paused, namelessOp, ready, pc>>
      BY <2>5 DEF vars, queueVars, uniVars
    <3> QED BY <1>1, <2>1, <2>4, <3>1
  <2>6. CASE CreateNext
    <3>1. UNCHANGED <<paused, namelessOp>> /\ pc' = "create"
      BY <1>1, <2>6 DEF CreateNext, uniVars
    <3>2. ready' = ready \/ (i + 1 \in Procs /\ ready' = Qsetup(ready, i + 1))
      BY <2>6, CreateNextIs DEF Taken
    <3>3. ready'.n # 0 /\ ready'.front = ready.front
      BY <1>1, <3>2, QsetupIs DEF Queue
    <3> QED BY <2>1, <2>4, <3>1, <3>3
  <2>7. CASE CreateEnd
    <3>1. UNCHANGED <<paused, namelessOp, ready>> /\ pc' = "resume"
      BY <1>1, <2>7 DEF CreateEnd, MustPark, queueVars, uniVars, Taken
    <3> QED BY <1>1, <2>1, <2>4, <3>1
  <2>8. CASE Rests
    <3>1. UNCHANGED <<paused, namelessOp, ready>> /\ pc' \in {"pick", "crash"}
      BY <1>1, <2>8 DEF Rests
    <3> QED BY <1>1, <2>1, <2>4, <3>1
  <2>9. ~\E p : Resumes(p)
    BY <1>1 DEF Resumes
  <2>10. ~(Idle \/ Terminate \/ insertB \/ Preempt \/ KeepRunning \/ execxuteB \/ countdown)
    BY <1>1 DEF Idle, Terminate, insertB, Preempt, KeepRunning, AtHead, execxuteB, countdown
  <2> QED BY Steps, <1>3, <2>2, <2>5, <2>6, <2>7, <2>8, <2>9, <2>10 DEF Taken
<1> QED BY <1>2, <1>3

\* A sequence has not come apart.
LEMMA LinkedHolds ==
    ASSUME Linked
    PROVE  ~Slipped /\ ~Stuck
<1>1. ~Stuck
  BY Queued DEF Stuck
<1>2. ASSUME ready.n > 1
      PROVE  ready.link[ready.front] # Null
  <2>1. PICK s : s = Chain(ready) /\ Represents(ready, s)
    BY DEF Linked
  <2>2. s \in Seq(Procs) /\ Len(s) = ready.n /\ ready.n \in Nat /\ ready.front = s[1]
    <3>1. s \in Seq(Procs) /\ ready.n = Len(s) /\ Len(s) \in Nat
      BY <2>1, LenProperties DEF Represents
    <3> QED BY <1>2, <2>1, <3>1, Queued
  <2>3. 1 \in 1 .. Len(s) /\ 2 \in 1 .. Len(s) /\ Len(s) # 1
    BY <1>2, <2>2
  <2>4. ready.link[s[1]] = s[2] /\ s[2] \in Procs
    BY <2>1, <2>2, <2>3, ElementOfSeq DEF Represents
  <2> QED BY <2>2, <2>4, ProcsAreNodes
<1> QED BY <1>1, <1>2 DEF Slipped

\* A queue that has come apart gives nobody the processor.
LEMMA ApartTurns ==
    ASSUME Taken, Slipped \/ Stuck \/ pc = "crash", [Next]_vars
    PROVE  Alone' /\ Turns'
<1>1. ~\E k \in Nat : Picks(k)
  BY LinkedHolds DEF Picks
<1>2. Alone'
  BY <1>1, AloneKept
<1>3. CASE pc = "crash"
  <2>1. UNCHANGED vars
    BY <1>3, Steps DEF Taken, Idle, Terminate, insertB, Preempt, KeepRunning, AtHead, execxuteB,
       CreateNext, CreateEnd, Rests, Parks, Resumes, Stands, Picks, countdown, EndPass
  <2>2. pc' = "crash"
    BY <1>3, <2>1 DEF vars
  <2> QED BY <1>2, <2>2 DEF Turns
<1>4. CASE Stuck /\ pc # "crash"
  <2>1. ~\E p : Parks(p)
    BY <1>4, ProcsAreNodes DEF Parks, Stuck, Waiting
  <2>2. Stuck' \/ EndPass
    BY <1>4, <2>1, QueueKept DEF Taken, Persists
  <2> QED BY <1>2, <2>2, PassBegins DEF Turns
<1>5. CASE Slipped /\ pc # "crash"
  <2>1. pc \in {"yield", "park"}
    BY <1>5 DEF Slipped
  <2>2. CASE UNCHANGED vars
    <3>1. UNCHANGED <<Prime, ready, paused, selection, pc, i>>
      BY <2>2 DEF vars, queueVars, localVars
    <3>2. Slipped'
      BY <1>5, <3>1 DEF Slipped, Waiting
    <3> QED BY <1>2, <3>2 DEF Turns
  <2>3. CASE \E p : Parks(p)
    <3>1. Stuck'
      BY <1>5, <2>3, LinkedHolds, ParksKept, AlgorithmStays DEF Taken
    <3> QED BY <1>2, <3>1 DEF Turns
  <2>4. ~(Idle \/ Terminate \/ insertB \/ Preempt \/ KeepRunning \/ execxuteB
          \/ CreateNext \/ CreateEnd \/ countdown \/ EndPass)
    BY <2>1 DEF Idle, Terminate, insertB, Preempt, KeepRunning, AtHead, execxuteB,
       CreateNext, CreateEnd, countdown, EndPass
  <2>5. ~Rests /\ ~\E p : Resumes(p)
    BY <1>5, <2>1 DEF Rests, Resumes
  <2> QED BY Steps, <1>1, <2>2, <2>3, <2>4, <2>5 DEF Taken
<1> QED BY <1>3, <1>4, <1>5

LEMMA InitTurns ==
    ASSUME Init
    PROVE  Ran /\ Alone /\ Before
<1>1. \A p \in Procs : Prime[p].condition = 0
  BY DEF Init, Fresh
<1> QED BY <1>1 DEF Init, Ran, Alone, Began, Before

\* Under "block", when all arrive together, a process keeps the processor to itself until
\* it terminates, whether or not pauseQue breaks the queue (executeR, pauseQue).
THEOREM OneRunsAtATime == Spec => []OneAtATimeTogether
<1> DEFINE Inv == selectAlg = BLOCK /\ Together => OInv
<1>1. Init => Inv
  BY InitTurns DEF OInv, Turns
<1>2. IInv /\ [Next]_vars /\ Together' => Together
  BY InputsStay DEF Together
<1>3. ASSUME IInv, Inv, [Next]_vars
      PROVE  Inv'
  <2> SUFFICES ASSUME (selectAlg = BLOCK)', Together'
               PROVE  OInv'
    OBVIOUS
  <2>1. Taken /\ Turns
    <3>1. selectAlg = BLOCK
      BY <1>3, AlgorithmStays
    <3>2. Together
      BY <1>2, <1>3
    <3> QED BY <1>3, <3>1, <3>2 DEF OInv, Taken
  <2>2. Ran'
    BY <1>3, <2>1, RanKept DEF Taken
  <2>3. Alone' /\ Turns'
    <3>1. CASE Before
      <4>1. ~\E k \in Nat : Picks(k)
        BY <3>1 DEF Before, Picks, Moves
      <4> QED BY <1>3, <2>1, <3>1, <4>1, BeforeTurns, AloneKept DEF Turns
    <3>2. CASE First
      BY <1>3, <2>1, <3>2, FirstTurns DEF Turns
    <3>3. CASE Rounds
      BY <1>3, <2>1, <3>3, RoundsTurn
    <3>4. CASE Slipped \/ Stuck \/ pc = "crash"
      BY <1>3, <2>1, <3>4, ApartTurns
    <3> QED BY <2>1, <3>1, <3>2, <3>3, <3>4 DEF Turns
  <2> QED BY <2>2, <2>3 DEF OInv
<1>4. ASSUME Inv
      PROVE  OneAtATimeTogether
  BY <1>4 DEF OInv, Alone, Began, OneAtATime, OneAtATimeTogether, Live
<1> HIDE DEF Inv
<1>5. IInv /\ Inv /\ [Next]_vars => Inv'
  BY <1>3
<1>6. Inv => OneAtATimeTogether
  BY <1>4
<1> QED BY <1>1, <1>5, <1>6, Invariant, PTL DEF Spec
=============================================================================
