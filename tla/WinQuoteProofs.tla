--------------------------- MODULE WinQuoteProofs ---------------------------
(***************************************************************************)
(* The quoting of winquote.rs against the reading of the CRT, for every    *)
(* argument vector.  The three loops of the code are folds here.  A fold   *)
(* is brought back to a table of its steps (Run), of which it is known how *)
(* it goes on; then induction over the text shows that the reader is never *)
(* further from the argument than by the backslashes the quoter holds back.*)
(***************************************************************************)
EXTENDS WinQuote, SequenceTheorems, WellFoundedInduction, TLAPS

(* A set of naturals that holds 0 and with every number the next one.      *)
LEMMA NatSet ==
    ASSUME NEW S \in SUBSET Nat, 0 \in S, \A n \in S : n + 1 \in S
    PROVE  S = Nat
<1> DEFINE T == Nat \ S
           R == OpToRel(<, Nat)
<1>1. SUFFICES ASSUME T # {} PROVE FALSE
  OBVIOUS
<1>2. PICK x \in T : \A y \in T : ~(<<y, x>> \in R)
  <2>1. IsWellFoundedOn(R, Nat)
    BY NatLessThanWellFounded
  <2>2. T \subseteq Nat
    OBVIOUS
  <2> HIDE DEF T, R
  <2> QED BY <2>1, <2>2, <1>1, WFMin
<1>3. x \in Nat \ {0} /\ x - 1 \in Nat
  OBVIOUS
<1>4. x - 1 \in S => x \in S
  BY <1>3
<1>5. x - 1 \in T
  BY <1>3, <1>4
<1>6. <<x - 1, x>> \in R
  BY <1>3 DEF OpToRel
<1> QED BY <1>2, <1>5, <1>6

(* The same for sequences: the empty one, and with one also every longer one. *)
LEMMA SeqSet ==
    ASSUME NEW C, NEW S \in SUBSET Seq(C), <<>> \in S,
           \A s \in S, c \in C : Append(s, c) \in S
    PROVE  S = Seq(C)
<1> DEFINE N == {n \in Nat : \A s \in Seq(C) : Len(s) = n => s \in S}
<1>1. 0 \in N
  BY EmptySeq
<1>2. ASSUME NEW n \in N PROVE n + 1 \in N
  <2> SUFFICES ASSUME NEW s \in Seq(C), Len(s) = n + 1 PROVE s \in S
    OBVIOUS
  <2>1. s # <<>>
    BY EmptySeq
  <2>2. PICK t \in Seq(C), c \in C : s = Append(t, c)
    BY <2>1, SequenceEmptyOrAppend
  <2>3. Len(t) = n
    BY <2>2, AppendProperties, LenProperties
  <2> QED BY <2>2, <2>3
<1>3. N = Nat
  <2> HIDE DEF N
  <2>1. N \in SUBSET Nat
    BY DEF N
  <2> QED BY <1>1, <1>2, <2>1, NatSet
<1> QED BY <1>3, LenProperties

(* The greatest number of a part of 1 .. n.                                 *)
LEMMA MaxOfPart ==
    ASSUME NEW n \in Nat, NEW s \in SUBSET (1 .. n), s # {}
    PROVE  Max(s) \in s /\ \A i \in s : i <= Max(s)
<1> DEFINE N == {m \in Nat : \A t \in SUBSET (1 .. m) :
                                 t # {} => \E x \in t : \A y \in t : x >= y}
<1>1. 0 \in N
  <2>1. 1 .. 0 = {}
    OBVIOUS
  <2> QED BY <2>1
<1>2. ASSUME NEW m \in N PROVE m + 1 \in N
  <2> SUFFICES ASSUME NEW t \in SUBSET (1 .. m + 1), t # {}
               PROVE  \E x \in t : \A y \in t : x >= y
    OBVIOUS
  <2>0. m \in Nat
    OBVIOUS
  <2>1. CASE m + 1 \in t
    <3>1. \A y \in t : m + 1 >= y
      BY <2>0
    <3> QED BY <2>1, <3>1
  <2>2. CASE m + 1 \notin t
    <3>1. t \in SUBSET (1 .. m)
      BY <2>0, <2>2
    <3> QED BY <3>1
  <2> QED BY <2>1, <2>2
<1>3. N = Nat
  <2> HIDE DEF N
  <2>1. N \in SUBSET Nat
    BY DEF N
  <2> QED BY <1>1, <1>2, <2>1, NatSet
<1>4. \E x \in s : \A y \in s : x >= y
  BY <1>3
<1> QED BY <1>4 DEF Max

\* Hence of 1 .. n itself.
LEMMA MaxOfInterval ==
    ASSUME NEW n \in Nat \ {0} PROVE Max(1 .. n) = n
<1>1. n \in Nat /\ 1 .. n # {} /\ n \in 1 .. n
  OBVIOUS
<1>2. Max(1 .. n) \in 1 .. n /\ n <= Max(1 .. n)
  BY <1>1, MaxOfPart
<1> QED BY <1>2

(***************************************************************************)
(* A fold whose operator is given as a table h.                            *)
(***************************************************************************)
IsTable(h, A, C) == h \in [A \X C -> A]

Run(h, b, s) == FoldLeft(LAMBDA a, c : h[<<a, c>>], b, s)

\* What the fold is defined by: the results for the parts of the domain.
Parts(iter, h, b, s) ==
    iter = [t \in SUBSET DOMAIN s |->
              IF t = {} THEN b ELSE h[<<iter[t \ {Max(t)}], s[Max(t)]>>]]

\* FoldLeft picks some function on the parts of the domain, and takes its value for the whole.
LEMMA RunDef ==
    ASSUME NEW h, NEW b, NEW s
    PROVE  Run(h, b, s) = (CHOOSE iter : Parts(iter, h, b, s))[DOMAIN s]
BY DEF Run, FoldLeft, MapThenFoldSet, Parts

PartsUpTo(iter, n, h, b, s) ==
    \A t \in SUBSET (1 .. n) :
        iter[t] = IF t = {} THEN b ELSE h[<<iter[t \ {Max(t)}], s[Max(t)]>>]

HasParts(A, h, b, s) == \E iter \in [SUBSET DOMAIN s -> A] : Parts(iter, h, b, s)

\* There is such a function, built up one element at a time.
LEMMA PartsExist ==
    ASSUME NEW A, NEW C, NEW h, IsTable(h, A, C), NEW b \in A, NEW s \in Seq(C)
    PROVE  HasParts(A, h, b, s)
<1> DEFINE Good(iter, n) == PartsUpTo(iter, n, h, b, s)
           Q(n) == n <= Len(s) => \E iter \in [SUBSET (1 .. n) -> A] : Good(iter, n)
           N == {n \in Nat : Q(n)}
<1>0. Len(s) \in Nat
  BY LenProperties
<1>1. 0 \in N
  <2> DEFINE iter == [t \in SUBSET (1 .. 0) |-> b]
  <2>1. iter \in [SUBSET (1 .. 0) -> A] /\ Good(iter, 0)
    BY DEF PartsUpTo
  <2> QED BY <2>1
<1>2. ASSUME NEW n \in N PROVE n + 1 \in N
  <2>0. n \in Nat /\ n + 1 \in Nat /\ Q(n)
    <3> HIDE DEF Q
    <3> QED BY <1>2
  <2> SUFFICES ASSUME n + 1 <= Len(s)
               PROVE  \E iter \in [SUBSET (1 .. n + 1) -> A] : Good(iter, n + 1)
    <3>1. Q(n + 1) => n + 1 \in N
      <4> HIDE DEF Q
      <4> QED BY <2>0
    <3> HIDE DEF N, Good
    <3> QED BY <3>1
  <2>1. PICK iter \in [SUBSET (1 .. n) -> A] : Good(iter, n)
    <3>1. n <= Len(s)
      BY <2>0, <1>0
    <3> HIDE DEF N, Good
    <3> QED BY <2>0, <3>1
  <2>2. s[n + 1] \in C
    BY ElementOfSeq, LenProperties
  <2> DEFINE next == [t \in SUBSET (1 .. n + 1) |->
                        IF n + 1 \in t THEN h[<<iter[t \ {n + 1}], s[n + 1]>>] ELSE iter[t]]
  <2>3. ASSUME NEW t \in SUBSET (1 .. n + 1), n + 1 \in t
        PROVE  /\ t \ {n + 1} \in SUBSET (1 .. n)
               /\ Max(t) = n + 1
               /\ next[t \ {n + 1}] = iter[t \ {n + 1}]
               /\ next[t] = h[<<iter[t \ {n + 1}], s[n + 1]>>]
    <3>1. t \ {n + 1} \in SUBSET (1 .. n)
      BY <2>3, <2>0
    <3>2. Max(t) = n + 1
      <4>1. n + 1 \in Nat /\ t # {}
        BY <2>3, <2>0
      <4>2. Max(t) \in t /\ n + 1 <= Max(t)
        BY <4>1, <2>3, MaxOfPart
      <4>3. Max(t) \in 1 .. n + 1
        BY <4>2
      <4> HIDE DEF next, N
      <4> QED BY <4>2, <4>3, <2>0
    <3> QED BY <3>1, <3>2, <2>3, <2>0
  <2>4. ASSUME NEW t \in SUBSET (1 .. n + 1), n + 1 \notin t
        PROVE  t \in SUBSET (1 .. n) /\ next[t] = iter[t]
               /\ next[t \ {Max(t)}] = iter[t \ {Max(t)}]
    <3>1. t \in SUBSET (1 .. n)
      BY <2>4, <2>0
    <3> QED BY <3>1, <2>4, <2>0
  <2>5. next \in [SUBSET (1 .. n + 1) -> A]
    <3> SUFFICES ASSUME NEW t \in SUBSET (1 .. n + 1) PROVE next[t] \in A
      OBVIOUS
    <3> HIDE DEF next
    <3>1. CASE n + 1 \in t
      <4>1. iter[t \ {n + 1}] \in A
        BY <3>1, <2>3
      <4>2. <<iter[t \ {n + 1}], s[n + 1]>> \in A \X C
        BY <4>1, <2>2
      <4> QED BY <4>2, <3>1, <2>3 DEF IsTable
    <3>2. CASE n + 1 \notin t
      BY <3>2, <2>4
    <3> QED BY <3>1, <3>2
  <2>6. Good(next, n + 1)
    <3> SUFFICES ASSUME NEW t \in SUBSET (1 .. n + 1)
                 PROVE  next[t] = IF t = {} THEN b
                                  ELSE h[<<next[t \ {Max(t)}], s[Max(t)]>>]
      BY DEF PartsUpTo
    <3> HIDE DEF next
    <3>1. CASE n + 1 \in t
      BY <3>1, <2>3
    <3>2. CASE n + 1 \notin t
      BY <3>2, <2>1, <2>4 DEF PartsUpTo
    <3> QED BY <3>1, <3>2
  <2> HIDE DEF next
  <2> QED BY <2>5, <2>6
<1>3. N = Nat
  <2> HIDE DEF N
  <2>1. N \in SUBSET Nat
    BY DEF N
  <2> QED BY <1>1, <1>2, <2>1, NatSet
<1>4. PICK iter \in [SUBSET (1 .. Len(s)) -> A] : Good(iter, Len(s))
  <2>1. Q(Len(s))
    <3> HIDE DEF Q
    <3> QED BY <1>3, <1>0
  <2>2. Len(s) <= Len(s)
    BY <1>0
  <2> HIDE DEF N, Good
  <2> QED BY <2>1, <2>2
<1>5. DOMAIN s = 1 .. Len(s)
  BY LenProperties
<1> QED BY <1>4, <1>5 DEF HasParts, Parts, PartsUpTo

(* A fold leaves a trail: f[i] is its result for the first i elements.      *)
Trail(f, h, b, s) == f[0] = b /\ \A i \in 1 .. Len(s) : f[i] = h[<<f[i - 1], s[i]>>]

\* Of a fold that is only known to do as the table says within A.
Follows(f, h, A, b, s, n) ==
    f[0] = b /\ \A i \in 1 .. n : f[i - 1] \in A => f[i] = h[<<f[i - 1], s[i]>>]

\* Two that start alike and take the same steps are alike.
LEMMA TrailUnique ==
    ASSUME NEW A, NEW C, NEW h, IsTable(h, A, C), NEW b \in A, NEW s \in Seq(C),
           NEW g, Trail(g, h, b, s),
           NEW n \in 0 .. Len(s), NEW f, Follows(f, h, A, b, s, n)
    PROVE  f[n] = g[n] /\ f[n] \in A
<1> DEFINE Q(i) == i <= n => f[i] = g[i] /\ f[i] \in A
           N == {i \in Nat : Q(i)}
<1>0. Len(s) \in Nat /\ n \in Nat
  BY LenProperties
<1>1. 0 \in N
  BY DEF Trail, Follows
<1>2. ASSUME NEW i \in N PROVE i + 1 \in N
  <2>0. i \in Nat /\ i + 1 \in Nat /\ Q(i)
    <3> HIDE DEF Q
    <3> QED BY <1>2
  <2>1. ASSUME i + 1 <= n PROVE f[i + 1] = g[i + 1] /\ f[i + 1] \in A
    <3>1. i <= n /\ i + 1 \in 1 .. n /\ i + 1 \in 1 .. Len(s) /\ (i + 1) - 1 = i
      BY <2>0, <2>1, <1>0
    <3>2. f[i] = g[i] /\ f[i] \in A
      BY <2>0, <3>1
    <3>3. f[i + 1] = h[<<f[i], s[i + 1]>>]
      BY <3>1, <3>2 DEF Follows
    <3>4. g[i + 1] = h[<<g[i], s[i + 1]>>]
      BY <3>1 DEF Trail
    <3>5. s[i + 1] \in C
      BY <3>1, ElementOfSeq
    <3> QED BY <3>2, <3>3, <3>4, <3>5 DEF IsTable
  <2> HIDE DEF N
  <2> QED BY <2>0, <2>1 DEF N
<1>3. N = Nat
  <2> HIDE DEF N
  <2>1. N \in SUBSET Nat
    BY DEF N
  <2> QED BY <1>1, <1>2, <2>1, NatSet
<1>4. Q(n)
  <2> HIDE DEF Q
  <2> QED BY <1>3, <1>0
<1>5. n <= n
  BY <1>0
<1> QED BY <1>4, <1>5

HasTrail(A, h, b, s) ==
    \E f \in [0 .. Len(s) -> A] : Trail(f, h, b, s) /\ Run(h, b, s) = f[Len(s)]

\* The fold's own trail, cut out of the function it is defined by.
LEMMA RunTrail ==
    ASSUME NEW A, NEW C, NEW h, IsTable(h, A, C), NEW b \in A, NEW s \in Seq(C)
    PROVE  HasTrail(A, h, b, s)
<1>0. Len(s) \in Nat /\ DOMAIN s = 1 .. Len(s)
  BY LenProperties
<1> DEFINE iter == CHOOSE iter : Parts(iter, h, b, s)
<1>1. Parts(iter, h, b, s)
  <2>1. \E i : Parts(i, h, b, s)
    <3>1. HasParts(A, h, b, s)
      BY PartsExist
    <3> QED BY <3>1 DEF HasParts
  <2> QED BY <2>1
<1> HIDE DEF iter
<1> DEFINE f == [i \in 0 .. Len(s) |-> iter[1 .. i]]
<1>2. Trail(f, h, b, s)
  <2>1. f[0] = b
    <3>1. 1 .. 0 = {} /\ {} \in SUBSET DOMAIN s
      OBVIOUS
    <3>2. iter[{}] = b
      BY <1>1, <3>1 DEF Parts
    <3> QED BY <3>1, <3>2, <1>0
  <2>2. ASSUME NEW i \in 1 .. Len(s) PROVE f[i] = h[<<f[i - 1], s[i]>>]
    <3>1. i \in Nat \ {0} /\ 1 .. i \in SUBSET DOMAIN s /\ 1 .. i # {}
      <4>1. i \in Nat \ {0} /\ i <= Len(s) /\ i \in 1 .. i
        BY <1>0
      <4>2. 1 .. i \in SUBSET (1 .. Len(s))
        BY <1>0, <4>1
      <4> QED BY <4>1, <4>2, <1>0
    <3>2. Max(1 .. i) = i /\ (1 .. i) \ {i} = 1 .. i - 1
      BY <3>1, MaxOfInterval
    <3>3. iter[1 .. i] = h[<<iter[1 .. i - 1], s[i]>>]
      BY <1>1, <3>1, <3>2 DEF Parts
    <3>4. f[i] = iter[1 .. i] /\ f[i - 1] = iter[1 .. i - 1]
      BY <1>0
    <3> QED BY <3>3, <3>4
  <2> HIDE DEF f
  <2> QED BY <2>1, <2>2 DEF Trail
<1>3. Run(h, b, s) = f[Len(s)]
  <2>1. Run(h, b, s) = iter[DOMAIN s]
    BY RunDef DEF iter
  <2> QED BY <2>1, <1>0
<1>4. ASSUME NEW i \in 0 .. Len(s) PROVE f[i] \in A
  <2>1. Follows(f, h, A, b, s, i)
    <3>1. \A j \in 1 .. i : j \in 1 .. Len(s)
      BY <1>0
    <3> HIDE DEF f
    <3> QED BY <1>2, <3>1 DEF Trail, Follows
  <2> HIDE DEF f
  <2> QED BY <1>2, <2>1, TrailUnique
<1>5. f \in [0 .. Len(s) -> A]
  BY <1>4
<1> HIDE DEF f
<1> QED BY <1>2, <1>3, <1>5 DEF HasTrail

(* How a fold goes on: its result for nothing, for one more element, and    *)
(* for one sequence after another.                                          *)
LEMMA RunType ==
    ASSUME NEW A, NEW C, NEW h, IsTable(h, A, C), NEW b \in A, NEW s \in Seq(C)
    PROVE  Run(h, b, s) \in A
<1>1. HasTrail(A, h, b, s) /\ Len(s) \in Nat
  BY RunTrail, LenProperties
<1> QED BY <1>1 DEF HasTrail

\* Nothing to fold.
LEMMA RunEmpty ==
    ASSUME NEW A, NEW C, NEW h, IsTable(h, A, C), NEW b \in A
    PROVE  Run(h, b, <<>>) = b
<1>1. <<>> \in Seq(C) /\ Len(<<>>) = 0
  BY EmptySeq
<1>2. HasTrail(A, h, b, <<>>)
  BY <1>1, RunTrail
<1> QED BY <1>1, <1>2 DEF Trail, HasTrail

\* One element more.
LEMMA RunAppend ==
    ASSUME NEW A, NEW C, NEW h, IsTable(h, A, C), NEW b \in A,
           NEW s \in Seq(C), NEW c \in C
    PROVE  Run(h, b, Append(s, c)) = h[<<Run(h, b, s), c>>]
<1> DEFINE t == Append(s, c)
<1>0. Len(s) \in Nat /\ Len(t) = Len(s) + 1 /\ t \in Seq(C) /\ t[Len(s) + 1] = c
      /\ \A i \in 1 .. Len(s) : t[i] = s[i]
  BY LenProperties, AppendProperties
<1> HIDE DEF t
<1>1. PICK g \in [0 .. Len(s) -> A] : Trail(g, h, b, s) /\ Run(h, b, s) = g[Len(s)]
  <2>1. HasTrail(A, h, b, s)
    BY RunTrail
  <2> QED BY <2>1 DEF HasTrail
<1>2. PICK f \in [0 .. Len(t) -> A] : Trail(f, h, b, t) /\ Run(h, b, t) = f[Len(t)]
  <2>1. HasTrail(A, h, b, t)
    BY <1>0, RunTrail
  <2> QED BY <2>1 DEF HasTrail
<1>3. f[Len(s)] = g[Len(s)]
  <2>1. Follows(f, h, A, b, s, Len(s))
    BY <1>2, <1>0 DEF Trail, Follows
  <2>2. Len(s) \in 0 .. Len(s)
    BY <1>0
  <2> QED BY <1>1, <2>1, <2>2, TrailUnique
<1>4. f[Len(t)] = h[<<f[Len(s)], c>>]
  <2>1. Len(t) \in 1 .. Len(t) /\ Len(t) - 1 = Len(s)
    BY <1>0
  <2> QED BY <1>0, <1>2, <2>1 DEF Trail
<1> QED BY <1>1, <1>2, <1>3, <1>4 DEF t

\* One sequence after another.
LEMMA RunConcat ==
    ASSUME NEW A, NEW C, NEW h, IsTable(h, A, C), NEW b \in A,
           NEW s \in Seq(C), NEW t \in Seq(C)
    PROVE  Run(h, b, s \o t) = Run(h, Run(h, b, s), t)
<1> DEFINE S == {u \in Seq(C) : Run(h, b, s \o u) = Run(h, Run(h, b, s), u)}
<1>0. Run(h, b, s) \in A
  BY RunType
<1>1. <<>> \in S
  <2>1. <<>> \in Seq(C) /\ s \o <<>> = s
    BY EmptySeq, ConcatEmptySeq
  <2> QED BY <2>1, <1>0, RunEmpty
<1>2. ASSUME NEW u \in S, NEW c \in C PROVE Append(u, c) \in S
  <2>0. u \in Seq(C) /\ Append(u, c) \in Seq(C) /\ s \o u \in Seq(C)
    BY AppendProperties, ConcatProperties
  <2>1. s \o Append(u, c) = Append(s \o u, c)
    <3>1. <<c>> \in Seq(C)
      OBVIOUS
    <3> QED BY <2>0, <3>1, AppendIsConcat, ConcatAssociative
  <2>2. Run(h, b, Append(s \o u, c)) = h[<<Run(h, b, s \o u), c>>]
    <3> DEFINE v == s \o u
    <3>1. v \in Seq(C)
      BY <2>0
    <3> HIDE DEF S, v
    <3>2. Run(h, b, Append(v, c)) = h[<<Run(h, b, v), c>>]
      BY <3>1, RunAppend
    <3> QED BY <3>2 DEF v
  <2>3. Run(h, Run(h, b, s), Append(u, c)) = h[<<Run(h, Run(h, b, s), u), c>>]
    <3> DEFINE d == Run(h, b, s)
    <3>1. d \in A
      BY <1>0
    <3> HIDE DEF S, d
    <3>2. Run(h, d, Append(u, c)) = h[<<Run(h, d, u), c>>]
      BY <2>0, <3>1, RunAppend
    <3> QED BY <3>2 DEF d
  <2> QED BY <2>0, <2>1, <2>2, <2>3
<1>3. S \in SUBSET Seq(C)
  OBVIOUS
<1> HIDE DEF S
<1>4. S = Seq(C)
  BY <1>1, <1>2, <1>3, SeqSet
<1> QED BY <1>4 DEF S

(* A fold that does as the table says within A is the table's.              *)
PartsFollow(iter, h, A, b, s) ==
    /\ iter[{}] = b
    /\ \A t \in SUBSET DOMAIN s :
          t # {} /\ iter[t \ {Max(t)}] \in A => iter[t] = h[<<iter[t \ {Max(t)}], s[Max(t)]>>]

\* Whichever function it was defined by.
LEMMA PartsGiveRun ==
    ASSUME NEW A, NEW C, NEW h, IsTable(h, A, C), NEW b \in A, NEW s \in Seq(C), NEW iter,
           PartsFollow(iter, h, A, b, s)
    PROVE  iter[DOMAIN s] = Run(h, b, s)
<1>0. Len(s) \in Nat /\ DOMAIN s = 1 .. Len(s)
  BY LenProperties
<1> DEFINE f == [i \in 0 .. Len(s) |-> iter[1 .. i]]
<1>1. Follows(f, h, A, b, s, Len(s))
  <2>1. f[0] = b
    <3>1. 1 .. 0 = {}
      OBVIOUS
    <3> QED BY <3>1, <1>0 DEF PartsFollow
  <2>2. ASSUME NEW i \in 1 .. Len(s), f[i - 1] \in A PROVE f[i] = h[<<f[i - 1], s[i]>>]
    <3>1. i \in Nat \ {0} /\ i <= Len(s) /\ i \in 1 .. i
      BY <1>0
    <3>2. 1 .. i \in SUBSET DOMAIN s
      BY <1>0, <3>1
    <3>3. Max(1 .. i) = i /\ (1 .. i) \ {i} = 1 .. i - 1
      BY <3>1, MaxOfInterval
    <3>4. f[i] = iter[1 .. i] /\ f[i - 1] = iter[1 .. i - 1]
      BY <1>0
    <3>5. 1 .. i # {}
      BY <3>1
    <3> HIDE DEF f
    <3> QED BY <2>2, <3>2, <3>3, <3>4, <3>5 DEF PartsFollow
  <2> HIDE DEF f
  <2> QED BY <2>1, <2>2 DEF Follows
<1>2. PICK g \in [0 .. Len(s) -> A] : Trail(g, h, b, s) /\ Run(h, b, s) = g[Len(s)]
  <2>1. HasTrail(A, h, b, s)
    BY RunTrail
  <2> QED BY <2>1 DEF HasTrail
<1>3. f[Len(s)] = iter[DOMAIN s]
  BY <1>0
<1>4. Len(s) \in 0 .. Len(s)
  BY <1>0
<1> HIDE DEF f
<1>5. f[Len(s)] = g[Len(s)]
  BY <1>1, <1>2, <1>4, TrailUnique
<1> QED BY <1>2, <1>3, <1>5
-----------------------------------------------------------------------------
(* The three folds of WinQuote, as tables.                                  *)

\* The named characters are strings like all others, which the provers are not told.
Chars == STRING \cup {Space, Newline, Quote, Backslash, Surrogate, Replacement}

QuoterState == [out : Seq(Chars), held : Nat]
ReaderState == [args : Seq(Seq(Chars)), current : Seq(Chars), started : BOOLEAN,
                in_quotes : BOOLEAN, closed : BOOLEAN, held : Nat]

QuoteTable == [x \in QuoterState \X Chars |-> QuoteChar(x[1], x[2])]
JoinTable == [x \in Seq(Chars) \X Seq(Chars) |-> Join(x[1], x[2])]
ReadTable(doubled) == [x \in ReaderState \X Chars |-> ReadChar(x[1], x[2], doubled)]

\* A run of n backslashes.
LEMMA BackslashesType ==
    ASSUME NEW n \in Nat
    PROVE  Backslashes(n) \in Seq(Chars) /\ Len(Backslashes(n)) = n
           /\ \A i \in 1 .. n : Backslashes(n)[i] = Backslash
<1>1. Backslash \in Chars
  BY DEF Chars
<1> HIDE DEF Chars, Backslash
<1>2. Backslashes(n) \in [1 .. n -> Chars]
  BY <1>1 DEF Backslashes
<1>3. Backslashes(n) \in Seq(Chars)
  BY <1>2, SeqDef
<1>4. Len(Backslashes(n)) = n
  BY <1>2, <1>3, LenProperties
<1> QED BY <1>3, <1>4 DEF Backslashes

\* No backslash, and one more.
LEMMA BackslashesNext ==
    ASSUME NEW n \in Nat
    PROVE  Backslashes(0) = <<>> /\ Backslashes(n + 1) = Append(Backslashes(n), Backslash)
<1>1. Backslashes(0) = <<>>
  <2>1. Backslashes(0) \in Seq(Chars) /\ Len(Backslashes(0)) = 0
    BY BackslashesType
  <2> QED BY <2>1, EmptySeq
<1>2. Backslashes(n + 1) = Append(Backslashes(n), Backslash)
  <2>0. Backslash \in Chars
    BY DEF Chars
  <2> DEFINE s == Backslashes(n)
             t == Backslashes(n + 1)
             u == Append(s, Backslash)
  <2>1. s \in Seq(Chars) /\ Len(s) = n /\ \A i \in 1 .. n : s[i] = Backslash
    BY BackslashesType
  <2>2. t \in Seq(Chars) /\ Len(t) = n + 1 /\ \A i \in 1 .. n + 1 : t[i] = Backslash
    BY BackslashesType
  <2> HIDE DEF s, t
  <2>3. u \in Seq(Chars) /\ Len(u) = n + 1 /\ (\A i \in 1 .. n : u[i] = s[i]) /\ u[n + 1] = Backslash
    BY <2>0, <2>1, AppendProperties
  <2> HIDE DEF u
  <2>4. \A i \in 1 .. n + 1 : t[i] = u[i]
    BY <2>1, <2>2, <2>3
  <2>5. t = u
    BY <2>2, <2>3, <2>4, SeqEqual
  <2> QED BY <2>5 DEF s, t, u
<1> QED BY <1>1, <1>2

\* The quoter stays within its states.
LEMMA QuoteCharType ==
    ASSUME NEW acc \in QuoterState, NEW c \in Chars
    PROVE  QuoteChar(acc, c) \in QuoterState
<1>0. acc.out \in Seq(Chars) /\ acc.held \in Nat /\ 2 * acc.held + 1 \in Nat
      /\ <<c>> \in Seq(Chars)
  BY DEF QuoterState
<1>1. CASE c = Backslash
  <2>1. QuoteChar(acc, c) = [acc EXCEPT !.held = acc.held + 1]
    BY <1>1 DEF QuoteChar, Quote, Backslash
  <2>2. acc.held + 1 \in Nat
    BY <1>0
  <2> QED BY <2>1, <2>2 DEF QuoterState
<1>2. CASE c = Quote
  <2> DEFINE b == Backslashes(2 * acc.held + 1)
  <2>1. b \in Seq(Chars)
    BY <1>0, BackslashesType
  <2>2. acc.out \o b \o <<c>> \in Seq(Chars)
    <3> HIDE DEF b
    <3>1. acc.out \o b \in Seq(Chars)
      BY <1>0, <2>1, ConcatProperties
    <3> QED BY <1>0, <3>1, ConcatProperties
  <2>3. c # Backslash
    BY <1>2 DEF Quote, Backslash
  <2>4. QuoteChar(acc, c) = [out |-> acc.out \o b \o <<c>>, held |-> 0]
    BY <1>2, <2>3 DEF QuoteChar
  <2> HIDE DEF b
  <2> QED BY <2>2, <2>4 DEF QuoterState
<1>3. CASE c # Backslash /\ c # Quote
  <2> DEFINE b == Backslashes(acc.held)
  <2>1. b \in Seq(Chars)
    BY <1>0, BackslashesType
  <2>2. acc.out \o b \o <<c>> \in Seq(Chars)
    <3> HIDE DEF b
    <3>1. acc.out \o b \in Seq(Chars)
      BY <1>0, <2>1, ConcatProperties
    <3> QED BY <1>0, <3>1, ConcatProperties
  <2>3. QuoteChar(acc, c) = [out |-> acc.out \o b \o <<c>>, held |-> 0]
    BY <1>3 DEF QuoteChar
  <2> HIDE DEF b
  <2> QED BY <2>2, <2>3 DEF QuoterState
<1> QED BY <1>1, <1>2, <1>3

\* The records the reader goes on with.
LEMMA ReaderAfterQuote ==
    ASSUME NEW acc \in ReaderState, NEW x \in Seq(Chars), NEW i \in BOOLEAN, NEW c \in BOOLEAN
    PROVE  [acc EXCEPT !.current = x, !.in_quotes = i, !.closed = c,
                       !.started = TRUE, !.held = 0] \in ReaderState
BY DEF ReaderState

\* After any other character.
LEMMA ReaderAfterPlain ==
    ASSUME NEW acc \in ReaderState, NEW x \in Seq(Chars)
    PROVE  [acc EXCEPT !.current = x, !.started = TRUE, !.closed = FALSE, !.held = 0]
               \in ReaderState
BY DEF ReaderState

\* After a backslash, which is held back.
LEMMA ReaderAfterBackslash ==
    ASSUME NEW acc \in ReaderState, NEW n \in Nat
    PROVE  [acc EXCEPT !.held = n, !.started = TRUE, !.closed = FALSE] \in ReaderState
BY DEF ReaderState

\* The reader stays within its states: at a quote, ...
LEMMA ReadQuoteType ==
    ASSUME NEW acc \in ReaderState, NEW doubled \in BOOLEAN
    PROVE  ReadQuote(acc, doubled) \in ReaderState
<1> DEFINE flushed == acc.current \o Backslashes(acc.held \div 2)
<1>1. acc.current \in Seq(Chars) /\ acc.held \div 2 \in Nat /\ Quote \in Chars
  BY DEF ReaderState, Chars
<1>2. flushed \in Seq(Chars)
  BY <1>1, BackslashesType, ConcatProperties
<1>3. flushed \o <<Quote>> \in Seq(Chars)
  <2>1. <<Quote>> \in Seq(Chars)
    BY <1>1
  <2> HIDE DEF flushed
  <2> QED BY <1>2, <2>1, ConcatProperties
<1> DEFINE literal == acc.held % 2 = 1 \/ (doubled /\ acc.closed /\ acc.held = 0)
           current == IF literal THEN flushed \o <<Quote>> ELSE flushed
           in_quotes == IF acc.held % 2 = 1 THEN acc.in_quotes ELSE ~acc.in_quotes
           closed == acc.in_quotes /\ acc.held % 2 = 0
<1>4. ReadQuote(acc, doubled) = [acc EXCEPT !.current = current, !.in_quotes = in_quotes,
                                            !.closed = closed, !.started = TRUE, !.held = 0]
  BY DEF ReadQuote
<1>5. current \in Seq(Chars)
  <2> HIDE DEF flushed
  <2> QED BY <1>2, <1>3
<1>6. in_quotes \in BOOLEAN
  BY DEF ReaderState
<1>7. closed \in BOOLEAN
  OBVIOUS
<1> HIDE DEF current, in_quotes, closed
<1>8. [acc EXCEPT !.current = current, !.in_quotes = in_quotes,
                  !.closed = closed, !.started = TRUE, !.held = 0] \in ReaderState
  BY <1>5, <1>6, <1>7, ReaderAfterQuote, Zenon
<1> QED BY <1>4, <1>8

\* ... at the start of a line, ...
LEMMA UnreadType == Unread \in ReaderState
<1>1. <<>> \in Seq(Chars) /\ <<>> \in Seq(Seq(Chars))
  BY EmptySeq
<1> QED BY <1>1 DEF Unread, ReaderState

\* ... at a character that ends or extends an argument, ...
LEMMA ReadPlainType ==
    ASSUME NEW acc \in ReaderState, NEW c \in Chars
    PROVE  ReadPlain(acc, c) \in ReaderState
<1> DEFINE flushed == acc.current \o Backslashes(acc.held)
<1>1. flushed \in Seq(Chars)
  BY BackslashesType, ConcatProperties DEF ReaderState
<1>2. Append(flushed, c) \in Seq(Chars)
  BY <1>1, AppendProperties
<1> DEFINE args == IF acc.started THEN Append(acc.args, flushed) ELSE acc.args
<1>3. args \in Seq(Seq(Chars))
  <2>1. acc.args \in Seq(Seq(Chars))
    BY DEF ReaderState
  <2>2. Append(acc.args, flushed) \in Seq(Seq(Chars))
    BY <1>1, <2>1, AppendProperties
  <2> HIDE DEF flushed
  <2> QED BY <2>1, <2>2
<1>4. CASE c = Space /\ ~acc.in_quotes
  <2>1. ReadPlain(acc, c) = [Unread EXCEPT !.args = args]
    BY <1>4 DEF ReadPlain
  <2> HIDE DEF args
  <2> QED BY <1>3, <2>1, UnreadType DEF ReaderState
<1>5. CASE ~(c = Space /\ ~acc.in_quotes)
  <2>1. ReadPlain(acc, c) = [acc EXCEPT !.current = Append(flushed, c), !.started = TRUE,
                                        !.closed = FALSE, !.held = 0]
    BY <1>5 DEF ReadPlain
  <2> HIDE DEF flushed
  <2> QED BY <1>2, <2>1, ReaderAfterPlain
<1> QED BY <1>4, <1>5

\* ... at any character.
LEMMA ReadCharType ==
    ASSUME NEW acc \in ReaderState, NEW c \in Chars, NEW doubled \in BOOLEAN
    PROVE  ReadChar(acc, c, doubled) \in ReaderState
<1>1. CASE c = Quote
  <2>1. ReadChar(acc, c, doubled) = ReadQuote(acc, doubled)
    BY <1>1 DEF ReadChar, Quote, Backslash
  <2> QED BY <2>1, ReadQuoteType
<1>2. CASE c = Backslash
  <2>1. ReadChar(acc, c, doubled) =
            [acc EXCEPT !.held = acc.held + 1, !.started = TRUE, !.closed = FALSE]
    BY <1>2 DEF ReadChar, Quote, Backslash
  <2>2. acc.held + 1 \in Nat
    BY DEF ReaderState
  <2> QED BY <2>1, <2>2, ReaderAfterBackslash
<1>3. CASE c # Quote /\ c # Backslash
  BY <1>3, ReadPlainType DEF ReadChar
<1> QED BY <1>1, <1>2, <1>3

\* So both steps are given by their tables.
LEMMA TablesAreTables ==
    ASSUME NEW doubled \in BOOLEAN
    PROVE  IsTable(QuoteTable, QuoterState, Chars)
           /\ IsTable(ReadTable(doubled), ReaderState, Chars)
BY QuoteCharType, ReadCharType DEF IsTable, QuoteTable, ReadTable

\* The quoter's fold is its table's, ...
LEMMA QuoterRun ==
    ASSUME NEW b \in QuoterState, NEW s \in Seq(Chars)
    PROVE  FoldLeft(QuoteChar, b, s) = Run(QuoteTable, b, s)
<1> DEFINE Is(iter) == iter = [t \in SUBSET DOMAIN s |->
                 IF t = {} THEN b ELSE QuoteChar(iter[t \ {Max(t)}], s[Max(t)])]
           iter == CHOOSE iter : Is(iter)
<1>0. Len(s) \in Nat /\ DOMAIN s = 1 .. Len(s) /\ IsTable(QuoteTable, QuoterState, Chars)
      /\ \A i \in 1 .. Len(s) : s[i] \in Chars
  BY LenProperties, TablesAreTables, ElementOfSeq
<1>1. \A t \in SUBSET DOMAIN s : t # {} => s[Max(t)] \in Chars
  BY <1>0, MaxOfPart
<1>2. PICK given \in [SUBSET DOMAIN s -> QuoterState] : Parts(given, QuoteTable, b, s)
  <2>1. HasParts(QuoterState, QuoteTable, b, s)
    BY <1>0, PartsExist
  <2> QED BY <2>1 DEF HasParts
<1>3. Is(given)
  <2>1. \A t \in SUBSET DOMAIN s : given[t \ {Max(t)}] \in QuoterState
    OBVIOUS
  <2> QED BY <1>1, <1>2, <2>1 DEF Parts, QuoteTable
<1>4. Is(iter)
  BY <1>3
<1>5. FoldLeft(QuoteChar, b, s) = iter[DOMAIN s]
  BY DEF FoldLeft, MapThenFoldSet
<1> HIDE DEF iter
<1>6. iter[{}] = b
  BY <1>4
<1>7. ASSUME NEW t \in SUBSET DOMAIN s, t # {}, iter[t \ {Max(t)}] \in QuoterState
      PROVE  iter[t] = QuoteTable[<<iter[t \ {Max(t)}], s[Max(t)]>>]
  BY <1>1, <1>4, <1>7 DEF QuoteTable
<1> HIDE DEF Is
<1> DEFINE T == QuoteTable
<1> HIDE DEF T
<1>8. iter[DOMAIN s] = Run(T, b, s)
  <2>1. PartsFollow(iter, T, QuoterState, b, s)
    BY <1>6, <1>7 DEF T, PartsFollow
  <2>2. IsTable(T, QuoterState, Chars)
    BY <1>0 DEF T
  <2> QED BY <2>1, <2>2, PartsGiveRun
<1> QED BY <1>5, <1>8 DEF T

\* ... and so is the reader's.
LEMMA ReaderRun ==
    ASSUME NEW s \in Seq(Chars), NEW doubled \in BOOLEAN
    PROVE  FoldLeft(LAMBDA acc, c : ReadChar(acc, c, doubled), Unread, s)
               = Run(ReadTable(doubled), Unread, s)
<1> DEFINE T == ReadTable(doubled)
           Is(iter) == iter = [t \in SUBSET DOMAIN s |->
                 IF t = {} THEN Unread
                 ELSE ReadChar(iter[t \ {Max(t)}], s[Max(t)], doubled)]
           iter == CHOOSE iter : Is(iter)
<1>0. Len(s) \in Nat /\ DOMAIN s = 1 .. Len(s) /\ \A i \in 1 .. Len(s) : s[i] \in Chars
  BY LenProperties, ElementOfSeq
<1>1. \A t \in SUBSET DOMAIN s : t # {} => s[Max(t)] \in Chars
  BY <1>0, MaxOfPart
<1>2. IsTable(T, ReaderState, Chars) /\ Unread \in ReaderState
  BY TablesAreTables, UnreadType
<1>3. PICK given \in [SUBSET DOMAIN s -> ReaderState] : Parts(given, T, Unread, s)
  <2>1. HasParts(ReaderState, T, Unread, s)
    <3> HIDE DEF T
    <3> QED BY <1>2, PartsExist
  <2> QED BY <2>1 DEF HasParts
<1>4. Is(given)
  <2>1. \A t \in SUBSET DOMAIN s : given[t \ {Max(t)}] \in ReaderState
    OBVIOUS
  <2> QED BY <1>1, <1>3, <2>1 DEF Parts, ReadTable
<1>5. Is(iter)
  BY <1>4
<1>6. FoldLeft(LAMBDA acc, c : ReadChar(acc, c, doubled), Unread, s) = iter[DOMAIN s]
  BY DEF FoldLeft, MapThenFoldSet
<1> HIDE DEF iter
<1>7. PartsFollow(iter, T, ReaderState, Unread, s)
  <2>1. iter[{}] = Unread
    BY <1>5
  <2>2. ASSUME NEW t \in SUBSET DOMAIN s, t # {}, iter[t \ {Max(t)}] \in ReaderState
        PROVE  iter[t] = T[<<iter[t \ {Max(t)}], s[Max(t)]>>]
    BY <1>1, <1>5, <2>2 DEF ReadTable
  <2> HIDE DEF Is, T
  <2> QED BY <2>1, <2>2 DEF PartsFollow
<1>8. iter[DOMAIN s] = Run(T, Unread, s)
  <2> HIDE DEF Is, T
  <2> QED BY <1>2, <1>7, PartsGiveRun
<1> QED BY <1>6, <1>8
-----------------------------------------------------------------------------
(***************************************************************************)
(* How the reader goes over what the quoter has written.                   *)
(***************************************************************************)
Reads(doubled, acc, s) == Run(ReadTable(doubled), acc, s)

\* Before an argument that follows those done, and within its quotes.
Start(done) == [Unread EXCEPT !.args = done]
Inside(done, current, held) ==
    [args |-> done, current |-> current, started |-> TRUE,
     in_quotes |-> TRUE, closed |-> FALSE, held |-> held]

\* The reader holds the whole argument, which only has to be ended.
Holds(acc, done, arg) ==
    /\ acc \in ReaderState /\ acc.args = done /\ acc.started /\ ~acc.in_quotes
    /\ acc.current \o Backslashes(acc.held) = arg

\* Two states of the reader are equal if their parts are.
LEMMA ReaderEqual ==
    ASSUME NEW a \in ReaderState, NEW b \in ReaderState,
           a.args = b.args, a.current = b.current, a.started = b.started,
           a.in_quotes = b.in_quotes, a.closed = b.closed, a.held = b.held
    PROVE  a = b
<1> DEFINE Rebuilt(r) == [args |-> r.args, current |-> r.current, started |-> r.started,
                          in_quotes |-> r.in_quotes, closed |-> r.closed, held |-> r.held]
<1>1. a = Rebuilt(a)
  BY DEF ReaderState
<1>2. b = Rebuilt(b)
  BY DEF ReaderState
<1>3. Rebuilt(a) = Rebuilt(b)
  OBVIOUS
<1> HIDE DEF Rebuilt
<1> QED BY <1>1, <1>2, <1>3

\* How reading goes on.
LEMMA ReadsOn ==
    ASSUME NEW doubled \in BOOLEAN, NEW acc \in ReaderState, NEW s \in Seq(Chars)
    PROVE  /\ Reads(doubled, acc, s) \in ReaderState
           /\ Reads(doubled, acc, <<>>) = acc
           /\ \A c \in Chars :
                 Reads(doubled, acc, Append(s, c)) = ReadChar(Reads(doubled, acc, s), c, doubled)
           /\ \A t \in Seq(Chars) :
                 Reads(doubled, acc, s \o t) = Reads(doubled, Reads(doubled, acc, s), t)
<1> DEFINE T == ReadTable(doubled)
<1>1. IsTable(T, ReaderState, Chars)
  BY TablesAreTables
<1>2. \A r \in ReaderState, c \in Chars : T[<<r, c>>] = ReadChar(r, c, doubled)
  BY DEF ReadTable
<1> HIDE DEF T
<1>3. Run(T, acc, s) \in ReaderState
  BY <1>1, RunType
<1>4. Run(T, acc, <<>>) = acc
  BY <1>1, RunEmpty
<1>5. ASSUME NEW c \in Chars
      PROVE  Run(T, acc, Append(s, c)) = ReadChar(Run(T, acc, s), c, doubled)
  <2>1. Run(T, acc, Append(s, c)) = T[<<Run(T, acc, s), c>>]
    BY <1>1, RunAppend
  <2> QED BY <1>2, <1>3, <2>1
<1>6. ASSUME NEW t \in Seq(Chars)
      PROVE  Run(T, acc, s \o t) = Run(T, Run(T, acc, s), t)
  BY <1>1, RunConcat
<1> QED BY <1>3, <1>4, <1>5, <1>6 DEF T, Reads

\* Reading a single character.
LEMMA ReadsOne ==
    ASSUME NEW doubled \in BOOLEAN, NEW acc \in ReaderState, NEW c \in Chars
    PROVE  Reads(doubled, acc, <<c>>) = ReadChar(acc, c, doubled)
<1>1. <<>> \in Seq(Chars) /\ <<c>> = Append(<<>>, c)
  BY EmptySeq
<1>2. Reads(doubled, acc, <<>>) = acc
  BY <1>1, ReadsOn
<1>3. Reads(doubled, acc, Append(<<>>, c)) = ReadChar(Reads(doubled, acc, <<>>), c, doubled)
  BY <1>1, ReadsOn
<1> QED BY <1>1, <1>2, <1>3

\* Both are states of the reader.
LEMMA InsideType ==
    ASSUME NEW done \in Seq(Seq(Chars)), NEW current \in Seq(Chars), NEW n \in Nat
    PROVE  Start(done) \in ReaderState /\ Inside(done, current, n) \in ReaderState
<1>1. Start(done) \in ReaderState
  BY UnreadType DEF Start, ReaderState
<1>2. Inside(done, current, n) \in ReaderState
  BY DEF Inside, ReaderState
<1> QED BY <1>1, <1>2

QuoteRead(r, acc, current, in_quotes, closed) ==
    /\ r \in ReaderState /\ r.args = acc.args /\ r.current = current /\ r.held = 0
    /\ r.started = TRUE /\ r.in_quotes = in_quotes /\ r.closed = closed

\* What a quote does after an even and after an odd number of backslashes.
LEMMA QuoteAfterEven ==
    ASSUME NEW acc \in ReaderState, NEW doubled \in BOOLEAN, NEW k \in Nat,
           acc.held = 2 * k, ~acc.closed
    PROVE  QuoteRead(ReadQuote(acc, doubled), acc, acc.current \o Backslashes(k),
                     ~acc.in_quotes, acc.in_quotes)
<1> DEFINE r == ReadQuote(acc, doubled)
<1>0. r \in ReaderState
  BY ReadQuoteType
<1>1. acc.held \div 2 = k /\ acc.held % 2 = 0 /\ acc.held % 2 # 1
  OBVIOUS
<1> DEFINE flushed == acc.current \o Backslashes(k)
<1>2. r = [acc EXCEPT !.current = flushed, !.in_quotes = ~acc.in_quotes,
                      !.closed = acc.in_quotes, !.started = TRUE, !.held = 0]
  BY <1>1 DEF ReadQuote, ReaderState
<1> HIDE DEF flushed
<1>3. r.args = acc.args /\ r.held = 0 /\ r.current = flushed
  BY <1>2 DEF ReaderState
<1>4. r.started = TRUE
  BY <1>2 DEF ReaderState
<1>5. r.in_quotes = ~acc.in_quotes
  BY <1>2 DEF ReaderState
<1>6. r.closed = acc.in_quotes
  BY <1>2 DEF ReaderState
<1> HIDE DEF r
<1> QED BY <1>0, <1>3, <1>4, <1>5, <1>6 DEF flushed, r, QuoteRead

\* An odd number escapes it.
LEMMA QuoteAfterOdd ==
    ASSUME NEW acc \in ReaderState, NEW doubled \in BOOLEAN, NEW k \in Nat,
           acc.held = 2 * k + 1
    PROVE  QuoteRead(ReadQuote(acc, doubled), acc, acc.current \o Backslashes(k) \o <<Quote>>,
                     acc.in_quotes, FALSE)
<1> DEFINE r == ReadQuote(acc, doubled)
<1>0. r \in ReaderState
  BY ReadQuoteType
<1>1. acc.held \div 2 = k /\ acc.held % 2 = 1 /\ acc.held % 2 # 0
  OBVIOUS
<1> DEFINE flushed == acc.current \o Backslashes(k) \o <<Quote>>
<1>2. r = [acc EXCEPT !.current = flushed, !.in_quotes = acc.in_quotes,
                      !.closed = FALSE, !.started = TRUE, !.held = 0]
  BY <1>1 DEF ReadQuote, ReaderState
<1> HIDE DEF flushed
<1>3. r.args = acc.args /\ r.held = 0 /\ r.current = flushed
  BY <1>2 DEF ReaderState
<1>4. r.started = TRUE
  BY <1>2 DEF ReaderState
<1>5. r.in_quotes = acc.in_quotes
  BY <1>2 DEF ReaderState
<1>6. r.closed = FALSE
  BY <1>2 DEF ReaderState
<1> HIDE DEF r
<1> QED BY <1>0, <1>3, <1>4, <1>5, <1>6 DEF flushed, r, QuoteRead

IsInside(acc, done, current, held) ==
    /\ acc.args = done /\ acc.current = current /\ acc.held = held
    /\ acc.started = TRUE /\ acc.in_quotes = TRUE /\ acc.closed = FALSE

\* The parts of the state within quotes.
LEMMA InsideFields ==
    ASSUME NEW done, NEW current, NEW held
    PROVE  IsInside(Inside(done, current, held), done, current, held)
BY DEF Inside, IsInside

\* Each character the quoter may write between the quotes, as the reader takes it.
LEMMA InsideBackslash ==
    ASSUME NEW doubled \in BOOLEAN, NEW done \in Seq(Seq(Chars)), NEW current \in Seq(Chars),
           NEW n \in Nat
    PROVE  ReadChar(Inside(done, current, n), Backslash, doubled) = Inside(done, current, n + 1)
<1> DEFINE acc == Inside(done, current, n)
           r == ReadChar(acc, Backslash, doubled)
           next == Inside(done, current, n + 1)
<1>1. acc \in ReaderState /\ next \in ReaderState /\ Backslash \in Chars
  <2>1. n + 1 \in Nat
    OBVIOUS
  <2>2. acc \in ReaderState /\ next \in ReaderState
    BY <2>1, InsideType
  <2> QED BY <2>2 DEF Chars
<1>2. r \in ReaderState
  BY <1>1, ReadCharType
<1>3. r = [acc EXCEPT !.held = acc.held + 1, !.started = TRUE, !.closed = FALSE]
  BY DEF ReadChar, Quote, Backslash
<1>4. IsInside(acc, done, current, n)
  BY InsideFields
<1>5. IsInside(next, done, current, n + 1)
  BY InsideFields
<1> HIDE DEF acc, r, next
<1>6. r.args = done /\ r.current = current
  BY <1>1, <1>3, <1>4 DEF ReaderState, IsInside
<1>7. r.held = n + 1
  BY <1>1, <1>3, <1>4 DEF ReaderState, IsInside
<1>8. r.started = TRUE /\ r.closed = FALSE
  BY <1>1, <1>3 DEF ReaderState
<1>9. r.in_quotes = TRUE
  BY <1>1, <1>3, <1>4 DEF ReaderState, IsInside
<1>10. r = next
  BY <1>1, <1>2, <1>5, <1>6, <1>7, <1>8, <1>9, ReaderEqual DEF IsInside
<1> QED BY <1>10 DEF acc, r, next

\* A plain one, before which backslashes are only themselves.
LEMMA InsidePlain ==
    ASSUME NEW doubled \in BOOLEAN, NEW done \in Seq(Seq(Chars)), NEW current \in Seq(Chars),
           NEW n \in Nat, NEW c \in Chars, c # Quote, c # Backslash
    PROVE  ReadChar(Inside(done, current, n), c, doubled)
               = Inside(done, current \o Backslashes(n) \o <<c>>, 0)
<1> DEFINE acc == Inside(done, current, n)
           flushed == current \o Backslashes(n)
           longer == flushed \o <<c>>
           r == ReadChar(acc, c, doubled)
           next == Inside(done, longer, 0)
<1>0. flushed \in Seq(Chars) /\ longer \in Seq(Chars) /\ Append(flushed, c) = longer
  <2>1. flushed \in Seq(Chars)
    BY BackslashesType, ConcatProperties
  <2>2. Append(flushed, c) \in Seq(Chars) /\ Append(flushed, c) = flushed \o <<c>>
    <3> HIDE DEF flushed
    <3> QED BY <2>1, AppendProperties, AppendIsConcat
  <2> QED BY <2>1, <2>2
<1>4. IsInside(acc, done, current, n)
  BY InsideFields
<1>1. acc \in ReaderState /\ next \in ReaderState
  <2> HIDE DEF flushed, longer
  <2> QED BY <1>0, InsideType
<1>2. r \in ReaderState
  <2> HIDE DEF flushed, longer
  <2> QED BY <1>1, ReadCharType
<1>3. r = [acc EXCEPT !.current = longer, !.started = TRUE, !.closed = FALSE, !.held = 0]
  <2>1. r = ReadPlain(acc, c)
    BY DEF ReadChar
  <2>2. ~(c = Space /\ ~acc.in_quotes)
    BY <1>4 DEF IsInside
  <2>3. ReadPlain(acc, c) = [acc EXCEPT !.current = Append(acc.current \o Backslashes(acc.held), c),
                                        !.started = TRUE, !.closed = FALSE, !.held = 0]
    BY <2>2 DEF ReadPlain
  <2> HIDE DEF acc
  <2> QED BY <2>1, <2>3, <1>0, <1>4 DEF IsInside
<1>5. IsInside(next, done, longer, 0)
  BY InsideFields
<1> HIDE DEF acc, r, next, flushed, longer
<1>6. r.args = done /\ r.current = longer /\ r.held = 0
  BY <1>1, <1>3, <1>4 DEF ReaderState, IsInside
<1>7. r.started = TRUE /\ r.closed = FALSE
  BY <1>1, <1>3 DEF ReaderState
<1>8. r.in_quotes = TRUE
  BY <1>1, <1>3, <1>4 DEF ReaderState, IsInside
<1>10. r = next
  BY <1>1, <1>2, <1>5, <1>6, <1>7, <1>8, ReaderEqual DEF IsInside
<1> QED BY <1>10 DEF acc, r, next, longer, flushed

\* A quote of the argument's own, which the quoter has escaped.
LEMMA InsideQuote ==
    ASSUME NEW doubled \in BOOLEAN, NEW done \in Seq(Seq(Chars)), NEW current \in Seq(Chars),
           NEW k \in Nat
    PROVE  ReadChar(Inside(done, current, 2 * k + 1), Quote, doubled)
               = Inside(done, current \o Backslashes(k) \o <<Quote>>, 0)
<1> DEFINE acc == Inside(done, current, 2 * k + 1)
           longer == current \o Backslashes(k) \o <<Quote>>
           r == ReadQuote(acc, doubled)
           next == Inside(done, longer, 0)
<1>0. longer \in Seq(Chars)
  <2>1. current \o Backslashes(k) \in Seq(Chars)
    BY BackslashesType, ConcatProperties
  <2>2. <<Quote>> \in Seq(Chars)
    BY DEF Chars
  <2> QED BY <2>1, <2>2, ConcatProperties
<1>1. acc \in ReaderState /\ next \in ReaderState
  <2> HIDE DEF longer
  <2>1. 2 * k + 1 \in Nat
    OBVIOUS
  <2> QED BY <1>0, <2>1, InsideType
<1>2. ReadChar(acc, Quote, doubled) = r
  BY DEF ReadChar, Quote, Backslash
<1>4. IsInside(acc, done, current, 2 * k + 1)
  BY InsideFields
<1>5. IsInside(next, done, longer, 0)
  BY InsideFields
<1> HIDE DEF acc, next
<1>6. QuoteRead(r, acc, longer, acc.in_quotes, FALSE)
  BY <1>1, <1>4, QuoteAfterOdd DEF IsInside
<1> HIDE DEF r, longer
<1>7. /\ r \in ReaderState /\ r.args = done /\ r.started = TRUE /\ r.held = 0
      /\ r.current = longer /\ r.in_quotes = TRUE /\ r.closed = FALSE
  BY <1>4, <1>6 DEF QuoteRead, IsInside
<1>8. r = next
  BY <1>1, <1>5, <1>7, ReaderEqual DEF IsInside
<1> QED BY <1>2, <1>8 DEF acc, next, longer

\* The quote that opens an argument.
LEMMA OpeningQuote ==
    ASSUME NEW doubled \in BOOLEAN, NEW done \in Seq(Seq(Chars))
    PROVE  ReadChar(Start(done), Quote, doubled) = Inside(done, <<>>, 0)
<1> DEFINE acc == Start(done)
           r == ReadQuote(acc, doubled)
           next == Inside(done, <<>>, 0)
<1>0. <<>> \in Seq(Chars) /\ <<>> \o Backslashes(0) = <<>>
  BY EmptySeq, BackslashesNext, ConcatEmptySeq
<1>1. acc \in ReaderState /\ next \in ReaderState
  BY <1>0, InsideType
<1>2. ReadChar(acc, Quote, doubled) = r
  BY DEF ReadChar, Quote, Backslash
<1>4. acc.args = done /\ acc.current = <<>> /\ acc.held = 0 /\ acc.held = 2 * 0
      /\ acc.in_quotes = FALSE /\ acc.closed = FALSE
  BY DEF Start, Unread
<1>5. IsInside(next, done, <<>>, 0)
  BY InsideFields
<1> HIDE DEF acc, next
<1>6. QuoteRead(r, acc, acc.current \o Backslashes(0), ~acc.in_quotes, acc.in_quotes)
  <2> DEFINE k == 0
  <2>1. k \in Nat /\ acc.held = 2 * k
    BY <1>4
  <2> HIDE DEF k
  <2>2. QuoteRead(r, acc, acc.current \o Backslashes(k), ~acc.in_quotes, acc.in_quotes)
    BY <1>1, <1>4, <2>1, QuoteAfterEven
  <2> QED BY <2>2 DEF k
<1> HIDE DEF r
<1>7. /\ r \in ReaderState /\ r.args = done /\ r.started = TRUE /\ r.held = 0
      /\ r.current = <<>> /\ r.in_quotes = TRUE /\ r.closed = FALSE
  BY <1>0, <1>4, <1>6 DEF QuoteRead, IsInside
<1>8. r = next
  BY <1>1, <1>5, <1>7, ReaderEqual DEF IsInside
<1> QED BY <1>2, <1>8 DEF acc, next

\* The quote that closes it, after an even number of backslashes: the reader has it all.
LEMMA ClosingQuote ==
    ASSUME NEW doubled \in BOOLEAN, NEW done \in Seq(Seq(Chars)), NEW current \in Seq(Chars),
           NEW k \in Nat
    PROVE  Holds(ReadChar(Inside(done, current, 2 * k), Quote, doubled),
                 done, current \o Backslashes(k))
<1> DEFINE acc == Inside(done, current, 2 * k)
           r == ReadQuote(acc, doubled)
           arg == current \o Backslashes(k)
<1>0. arg \in Seq(Chars) /\ arg \o Backslashes(0) = arg
  <2>1. arg \in Seq(Chars)
    BY BackslashesType, ConcatProperties
  <2> HIDE DEF arg
  <2> QED BY <2>1, BackslashesNext, ConcatEmptySeq
<1>1. acc \in ReaderState
  <2>1. 2 * k \in Nat
    OBVIOUS
  <2> QED BY <2>1, InsideType
<1>2. ReadChar(acc, Quote, doubled) = r
  BY DEF ReadChar, Quote, Backslash
<1>4. IsInside(acc, done, current, 2 * k)
  BY InsideFields
<1> HIDE DEF acc
<1>6. QuoteRead(r, acc, arg, ~acc.in_quotes, acc.in_quotes)
  BY <1>1, <1>4, QuoteAfterEven DEF IsInside
<1> HIDE DEF r, arg
<1>8. Holds(r, done, arg)
  BY <1>0, <1>4, <1>6 DEF Holds, QuoteRead, IsInside
<1> QED BY <1>2, <1>8 DEF acc, arg

\* A run of backslashes is held back as a whole.
LEMMA InsideBackslashes ==
    ASSUME NEW doubled \in BOOLEAN, NEW done \in Seq(Seq(Chars)), NEW current \in Seq(Chars),
           NEW n \in Nat
    PROVE  Reads(doubled, Inside(done, current, 0), Backslashes(n)) = Inside(done, current, n)
<1> DEFINE acc == Inside(done, current, 0)
           Q(i) == Reads(doubled, acc, Backslashes(i)) = Inside(done, current, i)
           N == {i \in Nat : Q(i)}
<1>0. acc \in ReaderState /\ Backslash \in Chars
  <2>1. acc \in ReaderState
    BY InsideType
  <2> QED BY <2>1 DEF Chars
<1>1. Q(0)
  <2>1. <<>> \in Seq(Chars) /\ Backslashes(0) = <<>>
    BY EmptySeq, BackslashesNext
  <2> HIDE DEF acc
  <2>2. Reads(doubled, acc, <<>>) = acc
    BY <1>0, <2>1, ReadsOn
  <2> QED BY <2>1, <2>2 DEF acc
<1>2. ASSUME NEW i \in Nat, Q(i) PROVE Q(i + 1)
  <2>1. Backslashes(i) \in Seq(Chars) /\ Backslashes(i + 1) = Append(Backslashes(i), Backslash)
    BY BackslashesType, BackslashesNext
  <2> DEFINE b == Backslashes(i)
  <2> HIDE DEF acc, b
  <2>2. Reads(doubled, acc, Append(b, Backslash)) =
            ReadChar(Reads(doubled, acc, b), Backslash, doubled)
    BY <1>0, <2>1, ReadsOn DEF b
  <2> QED BY <1>2, <2>1, <2>2, InsideBackslash DEF b
<1>3. N = Nat
  <2> HIDE DEF Q
  <2>1. N \in SUBSET Nat /\ 0 \in N /\ \A i \in N : i + 1 \in N
    BY <1>1, <1>2
  <2> HIDE DEF N
  <2> QED BY <2>1, NatSet
<1> HIDE DEF Q
<1>4. Q(n)
  BY <1>3
<1> QED BY <1>4 DEF Q

\* n backslashes and another character, as one step of the quoter writes them.
LEMMA InsideStep ==
    ASSUME NEW doubled \in BOOLEAN, NEW done \in Seq(Seq(Chars)), NEW current \in Seq(Chars),
           NEW acc \in ReaderState, NEW out \in Seq(Chars),
           Reads(doubled, acc, out) = Inside(done, current, 0), NEW n \in Nat, NEW c \in Chars
    PROVE  Reads(doubled, acc, out \o Backslashes(n) \o <<c>>)
               = ReadChar(Inside(done, current, n), c, doubled)
<1> DEFINE b == Backslashes(n)
<1>1. b \in Seq(Chars) /\ <<c>> \in Seq(Chars)
  BY BackslashesType
<1>2. Reads(doubled, Inside(done, current, 0), b) = Inside(done, current, n)
  BY InsideBackslashes
<1> HIDE DEF b
<1>3. Reads(doubled, acc, out \o b) = Inside(done, current, n)
  BY <1>1, <1>2, ReadsOn
<1>4. out \o b \in Seq(Chars)
  BY <1>1, ConcatProperties
<1>5. Reads(doubled, acc, (out \o b) \o <<c>>) = Reads(doubled, Inside(done, current, n), <<c>>)
  <2> DEFINE o == out \o b
         x == <<c>>
  <2>1. o \in Seq(Chars) /\ x \in Seq(Chars)
    BY <1>1, <1>4
  <2> HIDE DEF o, x
  <2>2. Reads(doubled, acc, o \o x) = Reads(doubled, Reads(doubled, acc, o), x)
    BY <2>1, ReadsOn
  <2> QED BY <1>3, <2>2 DEF o, x
<1>6. Inside(done, current, n) \in ReaderState
  BY InsideType
<1>7. Reads(doubled, Inside(done, current, n), <<c>>)
          = ReadChar(Inside(done, current, n), c, doubled)
  BY <1>6, ReadsOne
<1> QED BY <1>5, <1>7 DEF b

\* A run may be extended from either side of the concatenation.
LEMMA OneMoreBackslash ==
    ASSUME NEW s \in Seq(Chars), NEW n \in Nat
    PROVE  (s \o Backslashes(n)) \o <<Backslash>> = s \o Backslashes(n + 1)
<1> DEFINE b == Backslashes(n)
           x == <<Backslash>>
<1>1. b \in Seq(Chars) /\ x \in Seq(Chars) /\ Append(b, Backslash) = b \o x
  <2>1. b \in Seq(Chars) /\ Backslash \in Chars
    BY BackslashesType DEF Chars
  <2> HIDE DEF b
  <2> QED BY <2>1, AppendIsConcat
<1>2. Backslashes(n + 1) = b \o x
  BY <1>1, BackslashesNext
<1> HIDE DEF b, x
<1>3. (s \o b) \o x = s \o (b \o x)
  BY <1>1, ConcatAssociative
<1> QED BY <1>2, <1>3 DEF b, x

(* What has been written of a quoted argument, and what the reader has of it. *)
Opened == [out |-> <<Quote>>, held |-> 0]
Quoted(arg) == FoldLeft(QuoteChar, Opened, arg)

Stretch(doubled, done, arg) ==
    \E current \in Seq(Chars) :
        /\ Reads(doubled, Start(done), Quoted(arg).out) = Inside(done, current, 0)
        /\ current \o Backslashes(Quoted(arg).held) = arg

\* The quoter starts in one of its states, ...
LEMMA OpenedType == Opened \in QuoterState
<1>1. <<Quote>> \in Seq(Chars)
  BY DEF Chars
<1> QED BY <1>1 DEF Opened, QuoterState

\* ... and goes on one character at a time.
LEMMA QuotedNext ==
    ASSUME NEW arg \in Seq(Chars)
    PROVE  /\ Quoted(arg) \in QuoterState
           /\ Quoted(<<>>) = Opened
           /\ \A c \in Chars : Quoted(Append(arg, c)) = QuoteChar(Quoted(arg), c)
<1> DEFINE T == QuoteTable
<1>1. IsTable(T, QuoterState, Chars)
  <2>1. FALSE \in BOOLEAN
    OBVIOUS
  <2> QED BY <2>1, TablesAreTables
<1>2. \A q \in QuoterState, c \in Chars : T[<<q, c>>] = QuoteChar(q, c)
  BY DEF QuoteTable
<1>3. \A s \in Seq(Chars) : Quoted(s) = Run(T, Opened, s)
  BY OpenedType, QuoterRun DEF Quoted
<1> HIDE DEF T
<1>4. Run(T, Opened, arg) \in QuoterState
  BY <1>1, OpenedType, RunType
<1>5. Run(T, Opened, <<>>) = Opened
  BY <1>1, OpenedType, RunEmpty
<1>6. ASSUME NEW c \in Chars
      PROVE  Run(T, Opened, Append(arg, c)) = QuoteChar(Run(T, Opened, arg), c)
  <2>1. Run(T, Opened, Append(arg, c)) = T[<<Run(T, Opened, arg), c>>]
    BY <1>1, OpenedType, RunAppend
  <2> QED BY <1>2, <1>4, <2>1
<1>7. <<>> \in Seq(Chars) /\ \A c \in Chars : Append(arg, c) \in Seq(Chars)
  BY EmptySeq, AppendProperties
<1> QED BY <1>3, <1>4, <1>5, <1>6, <1>7

\* After every part of the argument the reader has what the quoter has written,
\* and what the quoter still holds back is what is missing of it.
LEMMA ReadsStretch ==
    ASSUME NEW doubled \in BOOLEAN, NEW done \in Seq(Seq(Chars)), NEW arg \in Seq(Chars)
    PROVE  Stretch(doubled, done, arg)
<1> DEFINE S == {a \in Seq(Chars) : Stretch(doubled, done, a)}
<1>0. <<>> \in Seq(Chars) /\ Start(done) \in ReaderState /\ Quote \in Chars
  BY EmptySeq, InsideType DEF Chars
<1>1. Stretch(doubled, done, <<>>)
  <2>1. Quoted(<<>>).out = <<Quote>> /\ Quoted(<<>>).held = 0
    BY <1>0, QuotedNext DEF Opened
  <2>2. Reads(doubled, Start(done), <<Quote>>) = Inside(done, <<>>, 0)
    BY <1>0, ReadsOne, OpeningQuote
  <2>3. <<>> \o Backslashes(0) = <<>>
    BY <1>0, BackslashesNext, ConcatEmptySeq
  <2> QED BY <1>0, <2>1, <2>2, <2>3 DEF Stretch
<1>2. ASSUME NEW a \in Seq(Chars), Stretch(doubled, done, a), NEW c \in Chars
      PROVE  Stretch(doubled, done, Append(a, c))
  <2>1. PICK current \in Seq(Chars) :
            /\ Reads(doubled, Start(done), Quoted(a).out) = Inside(done, current, 0)
            /\ current \o Backslashes(Quoted(a).held) = a
    BY <1>2 DEF Stretch
  <2> DEFINE q == Quoted(a)
             h == q.held
             b == Backslashes(h)
             next == Quoted(Append(a, c))
  <2>2. next = QuoteChar(q, c)
    BY QuotedNext
  <2>3. q.out \in Seq(Chars) /\ h \in Nat
    BY QuotedNext DEF QuoterState
  <2>4. b \in Seq(Chars) /\ <<c>> \in Seq(Chars)
    <3> HIDE DEF h
    <3> QED BY <2>3, BackslashesType
  <2>5. Append(a, c) = current \o b \o <<c>>
    BY AppendIsConcat, <2>1
  <2>6. current \o b \o <<c>> \in Seq(Chars)
    <3> HIDE DEF b
    <3>1. current \o b \in Seq(Chars)
      BY <2>4, ConcatProperties
    <3> QED BY <2>4, <3>1, ConcatProperties
  <2>7. CASE c = Backslash
    <3>1. next.out = q.out /\ next.held = h + 1
      <4>1. next = [q EXCEPT !.held = q.held + 1]
        BY <2>2, <2>7 DEF QuoteChar, Quote, Backslash
      <4> HIDE DEF next
      <4> QED BY <4>1, QuotedNext DEF QuoterState
    <3>2. current \o Backslashes(h + 1) = Append(a, c)
      <4> HIDE DEF q, h, next
      <4>1. (current \o Backslashes(h)) \o <<Backslash>> = current \o Backslashes(h + 1)
        BY <2>3, OneMoreBackslash
      <4> QED BY <2>5, <2>7, <4>1
    <3> HIDE DEF q, h, next
    <3> QED BY <2>1, <3>1, <3>2 DEF Stretch, q, h, next
  <2>8. CASE c = Quote
    <3>1. next = [out |-> q.out \o Backslashes(2 * h + 1) \o <<c>>, held |-> 0]
      BY <2>2, <2>8 DEF QuoteChar, Quote, Backslash
    <3>2. Reads(doubled, Start(done), q.out \o Backslashes(2 * h + 1) \o <<c>>)
              = Inside(done, current \o b \o <<c>>, 0)
      <4>1. 2 * h + 1 \in Nat
        BY <2>3
      <4>2. ReadChar(Inside(done, current, 2 * h + 1), Quote, doubled)
                = Inside(done, current \o b \o <<Quote>>, 0)
        BY <2>3, InsideQuote
      <4> DEFINE n == 2 * h + 1
      <4> HIDE DEF n, h, b
      <4>3. Reads(doubled, Start(done), q.out \o Backslashes(n) \o <<c>>)
                = ReadChar(Inside(done, current, n), c, doubled)
        BY <1>0, <2>1, <2>3, <4>1, InsideStep DEF n
      <4> QED BY <2>8, <4>2, <4>3 DEF n
    <3> DEFINE longer == current \o b \o <<c>>
    <3>3. longer \o Backslashes(0) = longer
      <4>1. longer \in Seq(Chars)
        BY <2>6
      <4> HIDE DEF longer
      <4> QED BY <4>1, BackslashesNext, ConcatEmptySeq
    <3>4. next.out = q.out \o Backslashes(2 * h + 1) \o <<c>> /\ next.held = 0
      <4> HIDE DEF next
      <4> QED BY <3>1
    <3>5. longer \in Seq(Chars) /\ longer = Append(a, c)
      BY <2>5, <2>6
    <3>6. Reads(doubled, Start(done), next.out) = Inside(done, longer, 0)
      <4> HIDE DEF next
      <4> QED BY <3>2, <3>4
    <3> HIDE DEF longer, next
    <3> QED BY <3>3, <3>4, <3>5, <3>6 DEF Stretch, next
  <2>9. CASE c # Backslash /\ c # Quote
    <3>1. next = [out |-> q.out \o b \o <<c>>, held |-> 0]
      BY <2>2, <2>9 DEF QuoteChar
    <3>2. Reads(doubled, Start(done), q.out \o b \o <<c>>)
              = Inside(done, current \o b \o <<c>>, 0)
      <4>1. ReadChar(Inside(done, current, h), c, doubled)
                = Inside(done, current \o b \o <<c>>, 0)
        BY <2>3, <2>9, InsidePlain
      <4> HIDE DEF h
      <4>2. Reads(doubled, Start(done), q.out \o Backslashes(h) \o <<c>>)
                = ReadChar(Inside(done, current, h), c, doubled)
        BY <1>0, <2>1, <2>3, InsideStep
      <4> QED BY <4>1, <4>2
    <3> DEFINE longer == current \o b \o <<c>>
    <3>3. longer \o Backslashes(0) = longer
      <4>1. longer \in Seq(Chars)
        BY <2>6
      <4> HIDE DEF longer
      <4> QED BY <4>1, BackslashesNext, ConcatEmptySeq
    <3>4. next.out = q.out \o b \o <<c>> /\ next.held = 0
      <4> HIDE DEF next
      <4> QED BY <3>1
    <3>5. longer \in Seq(Chars) /\ longer = Append(a, c)
      BY <2>5, <2>6
    <3>6. Reads(doubled, Start(done), next.out) = Inside(done, longer, 0)
      <4> HIDE DEF next
      <4> QED BY <3>2, <3>4
    <3> HIDE DEF longer, next
    <3> QED BY <3>3, <3>4, <3>5, <3>6 DEF Stretch, next
  <2> QED BY <2>7, <2>8, <2>9
<1>3. S \in SUBSET Seq(Chars) /\ <<>> \in S /\ \A a \in S, c \in Chars : Append(a, c) \in S
  BY <1>0, <1>1, <1>2, AppendProperties
<1> HIDE DEF S
<1>4. S = Seq(Chars)
  BY <1>3, SeqSet
<1> QED BY <1>4 DEF S

(***************************************************************************)
(* A whole argument, quoted or not, as the reader takes it.                *)
(***************************************************************************)
LEMMA QuotedArg ==
    ASSUME NEW doubled \in BOOLEAN, NEW done \in Seq(Seq(Chars)), NEW arg \in Seq(Chars)
    PROVE  /\ Close(Quoted(arg)) \in Seq(Chars) \ {<<>>}
           /\ Holds(Reads(doubled, Start(done), Close(Quoted(arg))), done, arg)
<1> DEFINE out == Quoted(arg).out
           h == Quoted(arg).held
           b == Backslashes(2 * h)
<1>1. PICK current \in Seq(Chars) :
          /\ Reads(doubled, Start(done), out) = Inside(done, current, 0)
          /\ current \o Backslashes(h) = arg
  BY ReadsStretch DEF Stretch
<1>2. out \in Seq(Chars) /\ h \in Nat /\ 2 * h \in Nat
  BY QuotedNext DEF QuoterState
<1>3. Close(Quoted(arg)) = out \o b \o <<Quote>>
  BY DEF Close
<1>4. Start(done) \in ReaderState /\ Quote \in Chars
  <2>1. <<>> \in Seq(Chars)
    BY EmptySeq
  <2> QED BY <2>1, InsideType DEF Chars
<1> DEFINE n == 2 * h
<1> HIDE DEF out, h, n
<1>5. Reads(doubled, Start(done), out \o Backslashes(n) \o <<Quote>>)
          = ReadChar(Inside(done, current, n), Quote, doubled)
  BY <1>1, <1>2, <1>4, InsideStep DEF n
<1>6. Holds(ReadChar(Inside(done, current, n), Quote, doubled), done,
            current \o Backslashes(h))
  BY <1>2, ClosingQuote DEF n
<1>7. out \o b \o <<Quote>> \in Seq(Chars) \ {<<>>}
  <2>1. b \in Seq(Chars)
    BY <1>2, BackslashesType
  <2> HIDE DEF b
  <2>2. out \o b \in Seq(Chars)
    BY <1>2, <2>1, ConcatProperties
  <2> DEFINE o == out \o b
  <2>3. o \in Seq(Chars)
    BY <2>2
  <2> HIDE DEF o
  <2>4. Append(o, Quote) = o \o <<Quote>> /\ Append(o, Quote) \in Seq(Chars)
        /\ Append(o, Quote) # <<>>
    BY <2>3, <1>4, AppendIsConcat, AppendProperties
  <2> QED BY <2>4 DEF o
<1> QED BY <1>1, <1>3, <1>5, <1>6, <1>7 DEF n

\* The reader outside quotes, with all that it has been given of an argument.
Nears(acc, done, arg) ==
    /\ acc \in ReaderState /\ acc.args = done /\ ~acc.in_quotes
    /\ acc.current \o Backslashes(acc.held) = arg

\* An unquoted argument grows by any character that needs no quotes.
LEMMA NearsOn ==
    ASSUME NEW doubled \in BOOLEAN, NEW done \in Seq(Seq(Chars)), NEW arg \in Seq(Chars),
           NEW acc, Nears(acc, done, arg),
           NEW c \in Chars, c \notin {Space, Newline, Quote}
    PROVE  Holds(ReadChar(acc, c, doubled), done, Append(arg, c))
<1> DEFINE r == ReadChar(acc, c, doubled)
           longer == Append(arg, c)
<1>0. /\ acc \in ReaderState /\ acc.current \in Seq(Chars) /\ acc.held \in Nat
      /\ acc.args = done /\ acc.in_quotes = FALSE
      /\ acc.current \o Backslashes(acc.held) = arg
  BY DEF Nears, ReaderState
<1>1. r \in ReaderState
  BY <1>0, ReadCharType
<1>2. longer \in Seq(Chars) /\ longer = arg \o <<c>>
  BY AppendProperties, AppendIsConcat
<1>3. CASE c = Backslash
  <2>1. r = [acc EXCEPT !.held = acc.held + 1, !.started = TRUE, !.closed = FALSE]
    BY <1>3 DEF ReadChar, Quote, Backslash
  <2>2. acc.current \o Backslashes(acc.held + 1) = longer
    <3> DEFINE s == acc.current
               n == acc.held
    <3> HIDE DEF s, n
    <3>1. (s \o Backslashes(n)) \o <<Backslash>> = s \o Backslashes(n + 1)
      BY <1>0, OneMoreBackslash DEF s, n
    <3> QED BY <1>0, <1>2, <1>3, <3>1 DEF s, n
  <2> HIDE DEF r, longer
  <2>3. r.args = done /\ r.current = acc.current /\ r.held = acc.held + 1
    BY <2>1, <1>0 DEF ReaderState
  <2>4. r.started = TRUE
    BY <2>1, <1>0 DEF ReaderState
  <2>5. r.in_quotes = FALSE
    BY <2>1, <1>0 DEF ReaderState
  <2> QED BY <1>1, <2>2, <2>3, <2>4, <2>5 DEF Holds, r, longer
<1>4. CASE c # Backslash
  <2>1. r = ReadPlain(acc, c)
    BY <1>4 DEF ReadChar
  <2>2. r = [acc EXCEPT !.current = longer, !.started = TRUE, !.closed = FALSE, !.held = 0]
    BY <2>1, <1>0 DEF ReadPlain
  <2> HIDE DEF r, longer
  <2>3. r.args = done /\ r.current = longer /\ r.held = 0
    BY <2>2, <1>0 DEF ReaderState
  <2>4. r.started = TRUE
    BY <2>2, <1>0 DEF ReaderState
  <2>5. r.in_quotes = FALSE
    BY <2>2, <1>0 DEF ReaderState
  <2>6. longer \o Backslashes(0) = longer
    <3>1. 0 \in Nat
      OBVIOUS
    <3> QED BY <1>2, <3>1, BackslashesNext, ConcatEmptySeq
  <2> QED BY <1>1, <2>3, <2>4, <2>5, <2>6 DEF Holds, r, longer
<1> QED BY <1>3, <1>4

\* An argument that needs no quotes is read as it is.
LEMMA BareArg ==
    ASSUME NEW doubled \in BOOLEAN, NEW done \in Seq(Seq(Chars)), NEW arg \in Seq(Chars),
           ~NeedsQuotes(arg)
    PROVE  Holds(Reads(doubled, Start(done), arg), done, arg)
<1> DEFINE Bare(a) == \A i \in DOMAIN a : a[i] \notin {Space, Newline, Quote}
           Q(a) == Bare(a) => /\ Nears(Reads(doubled, Start(done), a), done, a)
                              /\ a # <<>> => Holds(Reads(doubled, Start(done), a), done, a)
           S == {a \in Seq(Chars) : Q(a)}
<1>0. <<>> \in Seq(Chars) /\ Start(done) \in ReaderState
  <2>1. <<>> \in Seq(Chars)
    BY EmptySeq
  <2> QED BY <2>1, InsideType
<1>1. Q(<<>>)
  <2>1. Reads(doubled, Start(done), <<>>) = Start(done)
    BY <1>0, ReadsOn
  <2>2. Start(done).args = done /\ Start(done).current = <<>> /\ Start(done).held = 0
        /\ Start(done).in_quotes = FALSE
    BY DEF Start, Unread
  <2>3. <<>> \o Backslashes(0) = <<>>
    BY <1>0, BackslashesNext, ConcatEmptySeq
  <2>4. Nears(Start(done), done, <<>>)
    BY <1>0, <2>2, <2>3 DEF Nears
  <2> QED BY <2>1, <2>4
<1>2. ASSUME NEW a \in Seq(Chars), Q(a), NEW c \in Chars PROVE Q(Append(a, c))
  <2> DEFINE t == Append(a, c)
  <2>1. /\ t \in Seq(Chars) /\ t[Len(a) + 1] = c /\ Len(a) + 1 \in DOMAIN t
        /\ \A i \in DOMAIN a : i \in DOMAIN t /\ t[i] = a[i]
    BY AppendProperties, LenProperties
  <2> HIDE DEF t
  <2> SUFFICES ASSUME Bare(t)
               PROVE  Holds(Reads(doubled, Start(done), t), done, t)
    <3>1. \A st : Holds(st, done, t) => Nears(st, done, t)
      BY DEF Holds, Nears
    <3> HIDE DEF Bare
    <3> QED BY <3>1 DEF t
  <2>2. Bare(a) /\ c \notin {Space, Newline, Quote}
    BY <2>1
  <2>3. Nears(Reads(doubled, Start(done), a), done, a)
    <3> HIDE DEF Bare
    <3> QED BY <1>2, <2>2
  <2>4. Reads(doubled, Start(done), t) = ReadChar(Reads(doubled, Start(done), a), c, doubled)
    <3> DEFINE acc == Start(done)
    <3>1. acc \in ReaderState
      BY <1>0
    <3> HIDE DEF acc
    <3>2. Reads(doubled, acc, t) = ReadChar(Reads(doubled, acc, a), c, doubled)
      BY <3>1, ReadsOn DEF t
    <3> QED BY <3>2 DEF acc
  <2>5. Holds(ReadChar(Reads(doubled, Start(done), a), c, doubled), done, t)
    BY <2>2, <2>3, NearsOn DEF t
  <2> QED BY <2>4, <2>5
<1> HIDE DEF Q
<1>3. S \in SUBSET Seq(Chars) /\ <<>> \in S /\ \A a \in S, c \in Chars : Append(a, c) \in S
  BY <1>0, <1>1, <1>2, AppendProperties
<1> HIDE DEF S
<1>4. S = Seq(Chars)
  BY <1>3, SeqSet
<1>5. Q(arg)
  BY <1>4 DEF S
<1>6. Bare(arg) /\ arg # <<>>
  BY DEF NeedsQuotes
<1> QED BY <1>5, <1>6 DEF Q

\* Any argument, as the quoter writes it: never empty, and read as what it was.
LEMMA ReadsArg ==
    ASSUME NEW doubled \in BOOLEAN, NEW done \in Seq(Seq(Chars)), NEW arg \in Seq(Chars)
    PROVE  /\ QuoteArg(arg) \in Seq(Chars) \ {<<>>}
           /\ Holds(Reads(doubled, Start(done), QuoteArg(arg)), done, arg)
<1>1. CASE NeedsQuotes(arg)
  <2>1. QuoteArg(arg) = Close(Quoted(arg))
    BY <1>1 DEF QuoteArg, Quoted, Opened
  <2> QED BY <2>1, QuotedArg
<1>2. CASE ~NeedsQuotes(arg)
  <2>1. QuoteArg(arg) = arg /\ arg # <<>>
    BY <1>2 DEF QuoteArg, NeedsQuotes
  <2> QED BY <1>2, <2>1, BareArg
<1> QED BY <1>1, <1>2

\* A space, or the end of the line, ends an argument that the reader holds.
LEMMA EndsArg ==
    ASSUME NEW doubled \in BOOLEAN, NEW done \in Seq(Seq(Chars)), NEW arg \in Seq(Chars),
           NEW acc, Holds(acc, done, arg)
    PROVE  /\ ReadChar(acc, Space, doubled) = Start(Append(done, arg))
           /\ ReadPlain([acc EXCEPT !.in_quotes = FALSE], Space).args = Append(done, arg)
<1>0. /\ acc \in ReaderState /\ acc.args = done /\ acc.in_quotes = FALSE /\ acc.started
      /\ acc.current \o Backslashes(acc.held) = arg
  BY DEF Holds, ReaderState
<1>1. ReadChar(acc, Space, doubled) = ReadPlain(acc, Space)
  BY DEF ReadChar, Space, Quote, Backslash
<1>2. ReadPlain(acc, Space) = Start(Append(done, arg))
  BY <1>0 DEF ReadPlain, Start
<1> DEFINE end == [acc EXCEPT !.in_quotes = FALSE]
<1>3. /\ end.args = done /\ end.in_quotes = FALSE /\ end.current = acc.current
      /\ end.held = acc.held
  BY <1>0 DEF ReaderState
<1>4. end.started
  BY <1>0 DEF ReaderState
<1> HIDE DEF end
<1>5. ReadPlain(end, Space) = Start(Append(done, arg))
  BY <1>0, <1>3, <1>4 DEF ReadPlain, Start
<1>6. Start(Append(done, arg)).args = Append(done, arg)
  BY DEF Start, Unread
<1> QED BY <1>1, <1>2, <1>5, <1>6 DEF end

\* What a String holds of a text is a text of the same length.
LEMMA LossyType ==
    ASSUME NEW arg \in Seq(Chars)
    PROVE  Lossy(arg) \in Seq(Chars) /\ Len(Lossy(arg)) = Len(arg)
<1> DEFINE out == Lossy(arg)
<1>1. Len(arg) \in Nat /\ DOMAIN arg = 1 .. Len(arg) /\ \A i \in 1 .. Len(arg) : arg[i] \in Chars
  BY LenProperties, ElementOfSeq
<1>2. Replacement \in Chars
  BY DEF Chars
<1> HIDE DEF Chars
<1>3. out \in [1 .. Len(arg) -> Chars]
  BY <1>1, <1>2 DEF Lossy
<1> HIDE DEF out
<1>4. out \in Seq(Chars)
  BY <1>1, <1>3, SeqDef
<1>5. Len(out) = Len(arg)
  BY <1>1, <1>3, <1>4, LenProperties
<1> QED BY <1>4, <1>5 DEF out

\* A line with an argument is not empty.
LEMMA JoinType ==
    ASSUME NEW line \in Seq(Chars), NEW arg \in Seq(Chars)
    PROVE  Join(line, arg) \in Seq(Chars) \ {<<>>}
<1> DEFINE q == QuoteArg(Lossy(arg))
           gap == IF line = <<>> THEN <<>> ELSE <<Space>>
<1>1. q \in Seq(Chars) \ {<<>>}
  <2>1. FALSE \in BOOLEAN /\ <<>> \in Seq(Seq(Chars))
    BY EmptySeq
  <2> QED BY <2>1, LossyType, ReadsArg
<1>2. gap \in Seq(Chars)
  <2>1. Space \in Chars /\ <<>> \in Seq(Chars)
    BY EmptySeq DEF Chars
  <2> QED BY <2>1
<1>3. Join(line, arg) = line \o gap \o q
  BY DEF Join
<1> HIDE DEF q, gap
<1>4. line \o gap \in Seq(Chars) /\ Len(line \o gap) \in Nat
  BY <1>2, ConcatProperties, LenProperties
<1> DEFINE l == line \o gap
<1>5. l \in Seq(Chars) /\ Len(l) \in Nat
  BY <1>4
<1> HIDE DEF l
<1>6. l \o q \in Seq(Chars) /\ Len(l \o q) = Len(l) + Len(q)
  BY <1>1, <1>5, ConcatProperties
<1>7. Len(q) \in Nat /\ Len(q) # 0
  BY <1>1, LenProperties, EmptySeq
<1>8. l \o q # <<>>
  BY <1>5, <1>6, <1>7, EmptySeq
<1> QED BY <1>3, <1>6, <1>8 DEF l

\* The line is the fold of a table too.
LEMMA LineRun ==
    ASSUME NEW args \in Seq(Seq(Chars))
    PROVE  /\ IsTable(JoinTable, Seq(Chars), Seq(Chars))
           /\ QuoteCommandLine(args) = Run(JoinTable, <<>>, args)
<1> DEFINE A == Seq(Chars)
           s == args
           b == <<>>
           T == JoinTable
           Is(iter) == iter = [t \in SUBSET DOMAIN s |->
                 IF t = {} THEN b ELSE Join(iter[t \ {Max(t)}], s[Max(t)])]
           iter == CHOOSE iter : Is(iter)
<1>0. /\ Len(s) \in Nat /\ DOMAIN s = 1 .. Len(s) /\ b \in A
      /\ \A i \in 1 .. Len(s) : s[i] \in A
  BY LenProperties, ElementOfSeq, EmptySeq
<1>1. IsTable(T, A, A)
  BY JoinType DEF IsTable, JoinTable
<1>2. \A t \in SUBSET DOMAIN s : t # {} => s[Max(t)] \in A
  BY <1>0, MaxOfPart
<1>3. PICK given \in [SUBSET DOMAIN s -> A] : Parts(given, T, b, s)
  <2>1. s \in Seq(A)
    OBVIOUS
  <2>2. HasParts(A, T, b, s)
    <3> HIDE DEF T, A, s
    <3> QED BY <1>0, <1>1, <2>1, PartsExist
  <2> QED BY <2>2 DEF HasParts
<1>4. Is(given)
  <2>1. \A t \in SUBSET DOMAIN s : given[t \ {Max(t)}] \in A
    OBVIOUS
  <2> QED BY <1>2, <1>3, <2>1 DEF Parts, JoinTable
<1>5. Is(iter)
  BY <1>4
<1>6. QuoteCommandLine(args) = iter[DOMAIN s]
  BY DEF QuoteCommandLine, FoldLeft, MapThenFoldSet
<1> HIDE DEF iter
<1>7. PartsFollow(iter, T, A, b, s)
  <2>1. iter[{}] = b
    BY <1>5
  <2>2. ASSUME NEW t \in SUBSET DOMAIN s, t # {}, iter[t \ {Max(t)}] \in A
        PROVE  iter[t] = T[<<iter[t \ {Max(t)}], s[Max(t)]>>]
    BY <1>2, <1>5, <2>2 DEF JoinTable
  <2> HIDE DEF Is, T, A, s, b
  <2> QED BY <2>1, <2>2 DEF PartsFollow
<1>8. iter[DOMAIN s] = Run(T, b, s)
  <2>1. s \in Seq(A)
    OBVIOUS
  <2> HIDE DEF Is, T, A, s, b
  <2> QED BY <1>0, <1>1, <1>7, <2>1, PartsGiveRun
<1> QED BY <1>1, <1>6, <1>8

\* What the reader gets of an argument vector.
LossyAll(args) == [i \in DOMAIN args |-> Lossy(args[i])]

\* One argument more.
LEMMA LossyAllNext ==
    ASSUME NEW args \in Seq(Seq(Chars)), NEW arg \in Seq(Chars)
    PROVE  /\ LossyAll(<<>>) = <<>>
           /\ LossyAll(args) \in Seq(Seq(Chars))
           /\ LossyAll(Append(args, arg)) = Append(LossyAll(args), Lossy(arg))
<1> DEFINE A == Seq(Chars)
           n == Len(args)
           longer == Append(args, arg)
<1>0. Lossy(arg) \in A /\ \A a \in A : Lossy(a) \in A
  BY LossyType
<1> HIDE DEF A
<1>1. /\ n \in Nat /\ DOMAIN args = 1 .. n /\ \A i \in 1 .. n : args[i] \in A
      /\ longer \in Seq(A) /\ DOMAIN longer = 1 .. n + 1 /\ longer[n + 1] = arg
      /\ \A i \in 1 .. n : longer[i] = args[i]
  BY LenProperties, ElementOfSeq, AppendProperties DEF A
<1> HIDE DEF n, longer
<1> DEFINE l == LossyAll(args)
           m == LossyAll(longer)
<1>2. l \in [1 .. n -> A] /\ \A i \in 1 .. n : l[i] = Lossy(args[i])
  BY <1>0, <1>1 DEF LossyAll
<1>3. m \in [1 .. n + 1 -> A] /\ \A i \in 1 .. n + 1 : m[i] = Lossy(longer[i])
  <2>1. \A i \in 1 .. n + 1 : longer[i] \in A
    BY <1>1, ElementOfSeq, LenProperties
  <2> QED BY <1>0, <1>1, <2>1 DEF LossyAll
<1> HIDE DEF l, m
<1>4. l \in Seq(A) /\ Len(l) = n
  BY <1>1, <1>2, SeqDef, LenProperties
<1>5. m \in Seq(A) /\ Len(m) = n + 1
  <2>1. n + 1 \in Nat
    BY <1>1
  <2>2. m \in Seq(A)
    BY <1>3, <2>1, SeqDef
  <2> QED BY <1>3, <2>1, <2>2, LenProperties
<1> DEFINE a == Append(l, Lossy(arg))
<1>6. /\ a \in Seq(A) /\ Len(a) = n + 1 /\ a[n + 1] = Lossy(arg)
      /\ \A i \in 1 .. n : a[i] = l[i]
  BY <1>0, <1>4, AppendProperties
<1> HIDE DEF a
<1>7. \A i \in 1 .. n + 1 : m[i] = a[i]
  BY <1>1, <1>2, <1>3, <1>6
<1>8. m = a
  BY <1>5, <1>6, <1>7, SeqEqual
<1>9. LossyAll(<<>>) = <<>>
  BY DEF LossyAll
<1> QED BY <1>4, <1>8, <1>9 DEF A, l, m, a, longer
-----------------------------------------------------------------------------
(***************************************************************************)
(* The round trip.                                                         *)
(***************************************************************************)
\* What the reader has of the line that holds the arguments args.
Read(doubled, args, line) ==
    /\ line \in Seq(Chars)
    /\ \/ args = <<>> /\ line = <<>>
       \/ \E done \in Seq(Seq(Chars)), arg \in Seq(Chars) :
              /\ LossyAll(args) = Append(done, arg) /\ line # <<>>
              /\ Holds(Reads(doubled, Unread, line), done, arg)

\* The start of the line is the start of an argument.
LEMMA StartOfLine ==
    Start(<<>>) = Unread /\ Unread \in ReaderState /\ <<>> \in Seq(Seq(Chars))
    /\ <<>> \in Seq(Chars) /\ Space \in Chars
<1>1. <<>> \in Seq(Seq(Chars)) /\ <<>> \in Seq(Chars)
  BY EmptySeq
<1> QED BY <1>1, UnreadType DEF Start, Unread, Chars

\* One argument more on the line is one more for the reader.
LEMMA ReadNext ==
    ASSUME NEW doubled \in BOOLEAN, NEW args \in Seq(Seq(Chars)), NEW line,
           Read(doubled, args, line), NEW arg \in Seq(Chars)
    PROVE  Read(doubled, Append(args, arg), Join(line, arg))
<1> DEFINE x == Lossy(arg)
           q == QuoteArg(x)
<1>0. line \in Seq(Chars) /\ x \in Seq(Chars)
  BY LossyType DEF Read
<1>1. /\ q \in Seq(Chars) \ {<<>>}
      /\ \A done \in Seq(Seq(Chars)) : Holds(Reads(doubled, Start(done), q), done, x)
  <2> HIDE DEF x
  <2>1. <<>> \in Seq(Seq(Chars))
    BY StartOfLine
  <2> QED BY <1>0, <2>1, ReadsArg
<1>2. Join(line, arg) \in Seq(Chars) \ {<<>>}
  BY <1>0, JoinType
<1>3. LossyAll(Append(args, arg)) = Append(LossyAll(args), x)
      /\ LossyAll(args) \in Seq(Seq(Chars)) /\ LossyAll(<<>>) = <<>>
  BY LossyAllNext
<1>4. Holds(Reads(doubled, Unread, Join(line, arg)), LossyAll(args), x)
  <2>1. CASE args = <<>> /\ line = <<>>
    <3>1. Join(line, arg) = <<>> \o <<>> \o q
      BY <2>1 DEF Join
    <3> HIDE DEF q
    <3>2. <<>> \o <<>> \o q = q
      BY <1>1, StartOfLine, ConcatEmptySeq
    <3>3. Holds(Reads(doubled, Start(<<>>), q), <<>>, x)
      BY <1>1, StartOfLine
    <3>4. LossyAll(args) = <<>>
      BY <1>3, <2>1
    <3> QED BY <3>1, <3>2, <3>3, <3>4, StartOfLine
  <2>2. ASSUME NEW done \in Seq(Seq(Chars)), NEW last \in Seq(Chars),
               LossyAll(args) = Append(done, last), line # <<>>,
               Holds(Reads(doubled, Unread, line), done, last)
        PROVE  Holds(Reads(doubled, Unread, Join(line, arg)), LossyAll(args), x)
    <3>1. Join(line, arg) = line \o <<Space>> \o q
      BY <2>2 DEF Join
    <3> DEFINE spaced == line \o <<Space>>
    <3>2. spaced = Append(line, Space) /\ spaced \in Seq(Chars)
      BY <1>0, StartOfLine, AppendIsConcat, AppendProperties
    <3>3. Reads(doubled, Unread, Append(line, Space))
              = ReadChar(Reads(doubled, Unread, line), Space, doubled)
      BY <1>0, StartOfLine, ReadsOn
    <3>4. ReadChar(Reads(doubled, Unread, line), Space, doubled) = Start(LossyAll(args))
      <4> DEFINE acc == Reads(doubled, Unread, line)
      <4>1. Holds(acc, done, last)
        BY <2>2
      <4> HIDE DEF acc
      <4>2. ReadChar(acc, Space, doubled) = Start(Append(done, last))
        BY <4>1, EndsArg
      <4> QED BY <2>2, <4>2 DEF acc
    <3> HIDE DEF q, x, spaced
    <3>5. Reads(doubled, Unread, spaced \o q)
              = Reads(doubled, Reads(doubled, Unread, spaced), q)
      <4> DEFINE acc == Unread
      <4>1. spaced \in Seq(Chars) /\ q \in Seq(Chars) /\ acc \in ReaderState
        BY <1>1, <3>2, StartOfLine
      <4> HIDE DEF acc
      <4>2. Reads(doubled, acc, spaced \o q) = Reads(doubled, Reads(doubled, acc, spaced), q)
        BY <4>1, ReadsOn
      <4> QED BY <4>2 DEF acc
    <3>6. Reads(doubled, Unread, spaced \o q) = Reads(doubled, Start(LossyAll(args)), q)
      BY <3>2, <3>3, <3>4, <3>5
    <3>7. Join(line, arg) = spaced \o q
      BY <3>1 DEF spaced
    <3> QED BY <1>1, <1>3, <3>6, <3>7
  <2> QED BY <2>1, <2>2 DEF Read
<1> QED BY <1>0, <1>2, <1>3, <1>4 DEF Read

\* Hence for the whole line.
LEMMA ReadLine ==
    ASSUME NEW doubled \in BOOLEAN, NEW args \in Seq(Seq(Chars))
    PROVE  Read(doubled, args, QuoteCommandLine(args))
<1> DEFINE C == Seq(Chars)
           Q(v) == Read(doubled, v, QuoteCommandLine(v))
           S == {v \in Seq(C) : Q(v)}
           T == JoinTable
<1>0. /\ <<>> \in Seq(C) /\ <<>> \in C /\ IsTable(T, C, C)
      /\ \A v \in Seq(C) : QuoteCommandLine(v) = Run(T, <<>>, v)
  BY StartOfLine, LineRun
<1>1. Q(<<>>)
  <2> DEFINE b == <<>>
  <2> HIDE DEF T, C
  <2>1. Run(T, <<>>, <<>>) = <<>>
    BY <1>0, RunEmpty
  <2> QED BY <1>0, <2>1 DEF Read, C
<1>2. ASSUME NEW v \in Seq(C), Q(v), NEW a \in C PROVE Q(Append(v, a))
  <2>1. Append(v, a) \in Seq(C)
    BY AppendProperties
  <2>2. QuoteCommandLine(v) \in C
    BY <1>2 DEF Read
  <2>3. QuoteCommandLine(Append(v, a)) = Join(QuoteCommandLine(v), a)
    <3>1. \A line \in C : T[<<line, a>>] = Join(line, a)
      BY DEF JoinTable
    <3> HIDE DEF T, C
    <3>2. Run(T, <<>>, Append(v, a)) = T[<<Run(T, <<>>, v), a>>]
      BY <1>0, RunAppend
    <3> QED BY <1>0, <2>1, <2>2, <3>1, <3>2
  <2>4. Read(doubled, Append(v, a), Join(QuoteCommandLine(v), a))
    BY <1>2, ReadNext
  <2> QED BY <2>3, <2>4
<1>3. S \in SUBSET Seq(C) /\ <<>> \in S /\ \A v \in S, a \in C : Append(v, a) \in S
  <2> HIDE DEF Q, C
  <2> QED BY <1>0, <1>1, <1>2, AppendProperties
<1> HIDE DEF S, Q
<1>4. S = Seq(C)
  <2> HIDE DEF C
  <2> QED BY <1>3, SeqSet
<1>5. Q(args)
  BY <1>4 DEF S
<1> QED BY <1>5 DEF Q

(* What quote_command_line has written comes back from a process's own      *)
(* reading of its line as the same arguments, for every argument vector and *)
(* whichever way the reader takes "" within quotes; only what a String      *)
(* cannot hold has been replaced (winquote.rs, the round trip its tests try *)
(* on examples).                                                            *)
THEOREM RoundTrip ==
    ASSUME NEW doubled \in BOOLEAN, NEW args \in Seq(Seq(Chars))
    PROVE  ParseCommandLine(QuoteCommandLine(args), doubled) = LossyAll(args)
<1> DEFINE line == QuoteCommandLine(args)
           read == Reads(doubled, Unread, line)
<1>1. Read(doubled, args, line)
  BY ReadLine
<1>2. line \in Seq(Chars)
  BY <1>1 DEF Read
<1> HIDE DEF line
<1>3. ParseCommandLine(line, doubled) = ReadPlain([read EXCEPT !.in_quotes = FALSE], Space).args
  BY <1>2, ReaderRun DEF ParseCommandLine, Reads
<1>4. CASE args = <<>> /\ line = <<>>
  <2>1. read = Unread
    BY <1>4, StartOfLine, ReadsOn
  <2>2. ReadPlain([Unread EXCEPT !.in_quotes = FALSE], Space).args = <<>>
    BY DEF ReadPlain, Unread
  <2>3. LossyAll(args) = <<>>
    BY <1>4 DEF LossyAll
  <2> HIDE DEF read
  <2> QED BY <1>3, <2>1, <2>2, <2>3 DEF line
<1>5. ASSUME NEW done \in Seq(Seq(Chars)), NEW arg \in Seq(Chars),
             LossyAll(args) = Append(done, arg), Holds(read, done, arg)
      PROVE  ParseCommandLine(line, doubled) = LossyAll(args)
  <2> HIDE DEF read
  <2> QED BY <1>3, <1>5, EndsArg
<1> QED BY <1>1, <1>4, <1>5 DEF Read, line
=============================================================================
