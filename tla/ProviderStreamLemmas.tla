-------------------------- MODULE ProviderStreamLemmas --------------------------
(***************************************************************************)
(* What the operators of ProviderStream compute, for every argument, and   *)
(* the types of its variables.  A text, a sum of usages and the merge of   *)
(* the frames are FlattenSeq or a recursive function in the model, as they *)
(* are loops in the code; the lemmas say what one element more does to     *)
(* them, by induction over sets of naturals and of sequences.              *)
(***************************************************************************)
EXTENDS ProviderStream, SequenceTheorems, WellFoundedInduction, TLAPS
-----------------------------------------------------------------------------
(***************************************************************************)
(* Induction, and the concatenation of sequences.                          *)
(***************************************************************************)
\* A set of naturals that is not empty has a least element (WFMin of the
\* library, without its operator parameter).
LEMMA Least ==
    ASSUME NEW T, T \subseteq Nat, T # {}
    PROVE  \E m \in T : \A k \in T : ~(k < m)
<1> DEFINE R == OpToRel(<, Nat)
<1>1. IsWellFoundedOn(R, Nat)
    BY NatLessThanWellFounded, Zenon
<1>2. \A x, y \in Nat : y < x => <<y, x>> \in R
    BY DEF OpToRel
<1> HIDE DEF R
<1>3. \E x \in T : \A y \in T : ~(<<y, x>> \in R)
    BY <1>1, WFMin
<1> QED
    BY <1>2, <1>3

\* Induction over the naturals, of a set instead of a predicate: the lemmas of
\* the library take an operator.
LEMMA SetInduction ==
    ASSUME NEW S, 0 \in S, \A n \in Nat : n \in S => n + 1 \in S
    PROVE  Nat \subseteq S
<1> SUFFICES ASSUME Nat \ S # {} PROVE FALSE
    OBVIOUS
<1>1. PICK m \in Nat \ S : \A k \in Nat \ S : ~(k < m)
    BY Least
<1>2. m - 1 \in Nat /\ m - 1 < m
    BY <1>1
<1>3. m - 1 \in S
    BY <1>1, <1>2
<1> QED
    BY <1>1, <1>2, <1>3

\* The table of the partial concatenations that FlattenSeq of the community
\* modules builds.
Flat(f, s) == f = [i \in 1 .. Len(s) |-> IF i = 1 THEN s[i] ELSE f[i - 1] \o s[i]]

\* One sequence has one table, by induction over its length.
LEMMA TableIsUnique ==
    ASSUME NEW s, NEW f, NEW g, Len(s) \in Nat, Flat(f, s), Flat(g, s)
    PROVE  f = g
<1> DEFINE n == Len(s)
           S == {i \in Nat : i \in 1 .. n => f[i] = g[i]}
<1>0. n \in Nat
    OBVIOUS
<1>1. \A i \in 1 .. n : /\ f[i] = IF i = 1 THEN s[i] ELSE f[i - 1] \o s[i]
                        /\ g[i] = IF i = 1 THEN s[i] ELSE g[i - 1] \o s[i]
    BY DEF Flat
<1>2. /\ f = [i \in 1 .. n |-> f[i]]
      /\ g = [i \in 1 .. n |-> g[i]]
    BY DEF Flat
<1> HIDE DEF n
<1>3. 0 \in S
    BY <1>0
<1>4. ASSUME NEW i \in Nat, i \in S PROVE i + 1 \in S
    <2> SUFFICES ASSUME i + 1 \in 1 .. n PROVE f[i + 1] = g[i + 1]
        OBVIOUS
    <2>1. CASE i = 0
        BY <1>1, <2>1
    <2>2. CASE i # 0
        <3>1. i \in 1 .. n /\ (i + 1) - 1 = i /\ i + 1 # 1
            BY <1>0, <2>2
        <3> QED
            BY <1>1, <1>4, <3>1
    <2> QED
        BY <2>1, <2>2
<1> HIDE DEF S
<1>5. Nat \subseteq S
    BY <1>3, <1>4, SetInduction
<1>6. \A i \in 1 .. n : f[i] = g[i]
    BY <1>0, <1>5 DEF S
<1> QED
    BY <1>2, <1>6

\* The choice in FlattenSeq is of that table.
LEMMA FlattenIsTable ==
    ASSUME NEW s, Len(s) \in Nat, Len(s) # 0, NEW f, Flat(f, s)
    PROVE  FlattenSeq(s) = f[Len(s)]
<1>1. \A g : Flat(g, s) => g = f
    BY TableIsUnique
<1> QED
    BY <1>1 DEF FlattenSeq, Flat

\* The tables of a sequence of sequences, which are functions into sequences.
Tables(s, S) == {f \in [1 .. Len(s) -> Seq(S)] : Flat(f, s)}

\* The table of a longer sequence is the table of the shorter one and one
\* concatenation more.
LEMMA TableGrows ==
    ASSUME NEW S, NEW s \in Seq(Seq(S)), NEW x \in Seq(S), NEW f \in Tables(s, S)
    PROVE  \E g \in Tables(Append(s, x), S) :
              g[Len(s) + 1] = IF Len(s) = 0 THEN x ELSE f[Len(s)] \o x
<1> DEFINE n == Len(s)
           t == Append(s, x)
           g == [i \in 1 .. n + 1 |-> IF i <= n THEN f[i] ELSE IF n = 0 THEN x ELSE f[n] \o x]
<1>1. /\ n \in Nat /\ Len(t) = n + 1 /\ t[n + 1] = x
      /\ \A i \in 1 .. n : t[i] = s[i]
    OBVIOUS
<1>2. /\ f \in [1 .. n -> Seq(S)]
      /\ \A i \in 1 .. n : f[i] = IF i = 1 THEN s[i] ELSE f[i - 1] \o s[i]
    BY DEF Tables, Flat
<1> HIDE DEF n, t
<1>3. g \in [1 .. n + 1 -> Seq(S)]
    <2> SUFFICES ASSUME NEW i \in 1 .. n + 1
                 PROVE  (IF i <= n THEN f[i] ELSE IF n = 0 THEN x ELSE f[n] \o x) \in Seq(S)
        BY DEF g
    <2>1. CASE i <= n
        BY <1>1, <1>2, <2>1
    <2>2. n # 0 => f[n] \in Seq(S)
        BY <1>1, <1>2
    <2> QED
        BY <2>1, <2>2
<1>4. ASSUME NEW i \in 1 .. n + 1 PROVE g[i] = IF i = 1 THEN t[i] ELSE g[i - 1] \o t[i]
    <2>1. CASE i <= n
        <3>1. i \in 1 .. n /\ t[i] = s[i] /\ g[i] = f[i]
            BY <1>1, <2>1
        <3>2. i # 1 => i - 1 \in 1 .. n + 1 /\ i - 1 <= n
            BY <1>1, <2>1
        <3>3. i # 1 => g[i - 1] = f[i - 1]
            BY <3>2
        <3> HIDE DEF g
        <3> QED
            BY <1>2, <3>1, <3>3
    <2>2. CASE i = n + 1
        BY <1>1, <2>2
    <2> QED
        BY <1>1, <2>1, <2>2
<1>5. g[n + 1] = IF n = 0 THEN x ELSE f[n] \o x
    BY <1>1
<1>6. Flat(g, t)
    <2>1. g = [i \in 1 .. n + 1 |-> g[i]]
        OBVIOUS
    <2> HIDE DEF g
    <2> QED
        BY <1>1, <1>4, <2>1 DEF Flat
<1> HIDE DEF g
<1> QED
    BY <1>1, <1>3, <1>5, <1>6 DEF Tables, n, t

\* There is a table for every sequence: without this nothing is known of the
\* choice in FlattenSeq.
LEMMA TablesExist ==
    ASSUME NEW S
    PROVE  \A s \in Seq(Seq(S)) : Tables(s, S) # {}
<1> DEFINE N == {n \in Nat : \A s \in Seq(Seq(S)) : Len(s) = n => Tables(s, S) # {}}
<1>1. 0 \in N
    <2> SUFFICES ASSUME NEW s \in Seq(Seq(S)), Len(s) = 0 PROVE Tables(s, S) # {}
        OBVIOUS
    <2> DEFINE f == [i \in 1 .. Len(s) |-> <<>>]
    <2>1. f \in [1 .. Len(s) -> Seq(S)] /\ Flat(f, s)
        BY DEF Flat
    <2> QED
        BY <2>1 DEF Tables
<1>2. ASSUME NEW n \in Nat, n \in N PROVE n + 1 \in N
    <2> SUFFICES ASSUME NEW s \in Seq(Seq(S)), Len(s) = n + 1 PROVE Tables(s, S) # {}
        OBVIOUS
    <2> DEFINE t == SubSeq(s, 1, n)
    <2>1. t \in Seq(Seq(S)) /\ Len(t) = n /\ s[n + 1] \in Seq(S) /\ s = Append(t, s[n + 1])
        OBVIOUS
    <2> HIDE DEF t
    <2>2. PICK f \in Tables(t, S) : TRUE
        BY <1>2, <2>1
    <2> QED
        BY <2>1, <2>2, TableGrows
<1> HIDE DEF N
<1>3. Nat \subseteq N
    BY <1>1, <1>2, SetInduction
<1> SUFFICES ASSUME NEW s \in Seq(Seq(S)) PROVE Tables(s, S) # {}
    OBVIOUS
<1>4. Len(s) \in N
    BY <1>3
<1> QED
    BY <1>4 DEF N

\* The concatenation of no sequences is empty.
LEMMA FlattenEmpty == FlattenSeq(<<>>) = <<>>
BY DEF FlattenSeq

\* What FlattenSeq computes, one element at a time.
LEMMA FlattenAppend ==
    ASSUME NEW S, NEW s \in Seq(Seq(S)), NEW x \in Seq(S)
    PROVE  /\ FlattenSeq(s) \in Seq(S)
           /\ FlattenSeq(Append(s, x)) = FlattenSeq(s) \o x
<1>1. PICK f \in Tables(s, S) : TRUE
    BY TablesExist
<1>2. PICK g \in Tables(Append(s, x), S) : g[Len(s) + 1] = IF Len(s) = 0 THEN x ELSE f[Len(s)] \o x
    BY TableGrows
<1>3. /\ Len(s) \in Nat /\ Len(Append(s, x)) = Len(s) + 1
      /\ Flat(f, s) /\ f \in [1 .. Len(s) -> Seq(S)] /\ Flat(g, Append(s, x))
    BY DEF Tables
<1>4. FlattenSeq(Append(s, x)) = g[Len(s) + 1]
    <2> DEFINE t == Append(s, x)
    <2>1. Len(t) \in Nat /\ Len(t) # 0 /\ Len(t) = Len(s) + 1 /\ Flat(g, t)
        BY <1>3
    <2> HIDE DEF t
    <2>2. FlattenSeq(t) = g[Len(t)]
        BY <2>1, FlattenIsTable
    <2> QED
        BY <2>1, <2>2 DEF t
<1>5. CASE Len(s) = 0
    <2>1. s = <<>>
        BY <1>5
    <2>2. FlattenSeq(s) = <<>> /\ <<>> \o x = x /\ <<>> \in Seq(S)
        BY <2>1, FlattenEmpty
    <2> QED
        BY <1>2, <1>4, <1>5, <2>2
<1>6. CASE Len(s) # 0
    <2>1. FlattenSeq(s) = f[Len(s)]
        BY <1>3, <1>6, FlattenIsTable
    <2>2. Len(s) \in 1 .. Len(s)
        BY <1>3, <1>6
    <2> QED
        BY <1>2, <1>3, <1>4, <1>6, <2>1, <2>2
<1> QED
    BY <1>5, <1>6

\* Induction over sequences, of a set of sequences that is closed under Append.
LEMMA SeqInduction ==
    ASSUME NEW S, NEW P, <<>> \in P,
           \A s \in Seq(S), x \in S : s \in P => Append(s, x) \in P
    PROVE  Seq(S) \subseteq P
<1> DEFINE N == {n \in Nat : \A s \in Seq(S) : Len(s) = n => s \in P}
<1>1. 0 \in N
    <2>1. \A s \in Seq(S) : Len(s) = 0 => s = <<>>
        OBVIOUS
    <2> QED
        BY <2>1
<1>2. ASSUME NEW n \in Nat, n \in N PROVE n + 1 \in N
    <2> SUFFICES ASSUME NEW s \in Seq(S), Len(s) = n + 1 PROVE s \in P
        OBVIOUS
    <2> DEFINE t == SubSeq(s, 1, n)
    <2>1. t \in Seq(S) /\ Len(t) = n /\ s[n + 1] \in S /\ s = Append(t, s[n + 1])
        OBVIOUS
    <2> HIDE DEF t
    <2> QED
        BY <1>2, <2>1
<1> HIDE DEF N
<1>3. Nat \subseteq N
    BY <1>1, <1>2, SetInduction
<1> SUFFICES ASSUME NEW s \in Seq(S) PROVE s \in P
    OBVIOUS
<1>4. Len(s) \in N
    BY <1>3
<1> QED
    BY <1>4 DEF N

LEMMA FlattenType ==
    ASSUME NEW S, NEW s \in Seq(Seq(S))
    PROVE  FlattenSeq(s) \in Seq(S)
<1>1. <<>> \in Seq(S)
    OBVIOUS
<1> QED
    BY <1>1, FlattenAppend

\* ConcatAssociative of the library as a fact about a set of elements: the
\* provers find the set at once when they need not look into the formula.
Associative(S) == \A s, t, u \in Seq(S) : (s \o t) \o u = s \o (t \o u)

LEMMA ConcatIsAssociative == \A S : Associative(S)
<1> SUFFICES ASSUME NEW S, NEW s \in Seq(S), NEW t \in Seq(S), NEW u \in Seq(S)
             PROVE  (s \o t) \o u = s \o (t \o u)
    BY DEF Associative
<1> QED
    OBVIOUS

\* The concatenation of the parts is the concatenation of the whole.
LEMMA FlattenConcat ==
    ASSUME NEW S, NEW s \in Seq(Seq(S)), NEW t \in Seq(Seq(S))
    PROVE  FlattenSeq(s \o t) = FlattenSeq(s) \o FlattenSeq(t)
<1> DEFINE P == {u \in Seq(Seq(S)) : FlattenSeq(s \o u) = FlattenSeq(s) \o FlattenSeq(u)}
<1>1. <<>> \in P
    BY FlattenEmpty, FlattenType, ConcatEmptySeq
<1>2. ASSUME NEW u \in Seq(Seq(S)), NEW x \in Seq(S), u \in P PROVE Append(u, x) \in P
    <2>1. s \o Append(u, x) = Append(s \o u, x) /\ s \o u \in Seq(Seq(S)) /\ Append(u, x) \in Seq(Seq(S))
        OBVIOUS
    <2>2. FlattenSeq(s \o Append(u, x)) = FlattenSeq(s \o u) \o x
        BY <2>1, FlattenAppend
    <2>3. FlattenSeq(s \o u) = FlattenSeq(s) \o FlattenSeq(u)
        BY <1>2
    <2>4. FlattenSeq(Append(u, x)) = FlattenSeq(u) \o x
        BY FlattenAppend
    <2>5. FlattenSeq(s) \in Seq(S) /\ FlattenSeq(u) \in Seq(S)
        BY FlattenType
    <2>6. (FlattenSeq(s) \o FlattenSeq(u)) \o x = FlattenSeq(s) \o (FlattenSeq(u) \o x)
        <3>1. Associative(S)
            BY ConcatIsAssociative, Zenon
        <3> QED
            BY <2>5, <3>1, Zenon DEF Associative
    <2> QED
        BY <2>1, <2>2, <2>3, <2>4, <2>6
<1> HIDE DEF P
<1>3. Seq(Seq(S)) \subseteq P
    BY <1>1, <1>2, SeqInduction
<1> QED
    BY <1>3 DEF P

LEMMA FlattenOne ==
    ASSUME NEW S, NEW x \in Seq(S)
    PROVE  FlattenSeq(<<x>>) = x
<1>1. <<>> \in Seq(Seq(S)) /\ Append(<<>>, x) = <<x>> /\ <<>> \o x = x
    OBVIOUS
<1> QED
    BY <1>1, FlattenAppend, FlattenEmpty

\* A function on 1..n is a sequence, and one more value extends it.
LEMMA Extended ==
    ASSUME NEW T, NEW m \in Seq(T), NEW x \in T, NEW g, DOMAIN g = 1 .. Len(m) + 1,
           g = [i \in DOMAIN g |-> g[i]], \A i \in 1 .. Len(m) : g[i] = m[i], g[Len(m) + 1] = x
    PROVE  g = Append(m, x)
OBVIOUS

\* f makes a sequence over T of each element of S; those of the elements of s,
\* joined.
Maps(f, S, T) == \A y \in S : f[y] \in Seq(T)

\* What f gives for each element, concatenated: the loops of the code that
\* collect something of every frame, id or piece.
Join(f, s) == FlattenSeq([k \in DOMAIN s |-> f[s[k]]])

LEMMA JoinEmpty == \A f : Join(f, <<>>) = <<>>
BY FlattenEmpty DEF Join

\* A loop that has seen one element more has collected what f gives for that
\* one, at the end.
LEMMA JoinAppend ==
    ASSUME NEW S, NEW T, NEW f, Maps(f, S, T), NEW s \in Seq(S), NEW x \in S
    PROVE  /\ Join(f, s) \in Seq(T)
           /\ Join(f, Append(s, x)) = Join(f, s) \o f[x]
<1> DEFINE m == [k \in DOMAIN s |-> f[s[k]]]
           t == Append(s, x)
           g == [k \in DOMAIN t |-> f[t[k]]]
<1>1. m \in Seq(Seq(T)) /\ Len(m) = Len(s) /\ f[x] \in Seq(T)
    <2>1. DOMAIN s = 1 .. Len(s) /\ Len(s) \in Nat /\ \A k \in 1 .. Len(s) : s[k] \in S
        OBVIOUS
    <2>2. \A k \in 1 .. Len(s) : f[s[k]] \in Seq(T)
        BY <2>1 DEF Maps
    <2>3. f[x] \in Seq(T)
        BY DEF Maps
    <2> QED
        BY <2>1, <2>2, <2>3
<1>2. DOMAIN t = 1 .. Len(s) + 1 /\ t[Len(s) + 1] = x /\ \A i \in 1 .. Len(s) : t[i] = s[i]
    OBVIOUS
<1>3. g = Append(m, f[x])
    <2>1. DOMAIN g = 1 .. Len(m) + 1 /\ g = [i \in DOMAIN g |-> g[i]] /\ g[Len(m) + 1] = f[x]
        BY <1>1, <1>2
    <2>2. \A i \in 1 .. Len(m) : g[i] = m[i]
        BY <1>1, <1>2
    <2> HIDE DEF m, g
    <2> QED
        BY <1>1, <2>1, <2>2, Extended
<1>4. Join(f, s) = FlattenSeq(m) /\ Join(f, t) = FlattenSeq(g)
    BY DEF Join
<1> HIDE DEF m, g, t
<1>5. FlattenSeq(m) \in Seq(T) /\ FlattenSeq(g) = FlattenSeq(m) \o f[x]
    BY <1>1, <1>3, FlattenAppend
<1> QED
    BY <1>4, <1>5 DEF t

LEMMA JoinType ==
    ASSUME NEW S, NEW T, NEW f, Maps(f, S, T), NEW s \in Seq(S)
    PROVE  Join(f, s) \in Seq(T)
<1>1. CASE s = <<>>
    <2>1. <<>> \in Seq(T)
        OBVIOUS
    <2> QED
        BY <1>1, <2>1, JoinEmpty
<1>2. CASE s # <<>>
    <2>1. s[1] \in S
        BY <1>2
    <2> QED
        BY <2>1, JoinAppend
<1> QED
    BY <1>1, <1>2

LEMMA JoinOne ==
    ASSUME NEW S, NEW T, NEW f, Maps(f, S, T), NEW x \in S
    PROVE  Join(f, <<x>>) = f[x]
<1> DEFINE e == <<>>
<1>1. e \in Seq(S)
    OBVIOUS
<1>2. f[x] \in Seq(T) /\ e \o f[x] = f[x] /\ Append(e, x) = <<x>>
    BY DEF Maps
<1>3. Join(f, e) = e
    BY JoinEmpty
<1> HIDE DEF e
<1>4. Join(f, Append(e, x)) = Join(f, e) \o f[x]
    BY <1>1, JoinAppend
<1> QED
    BY <1>2, <1>3, <1>4

\* A loop over two parts collects what the loops over the parts collect.
LEMMA JoinConcat ==
    ASSUME NEW S, NEW T, NEW f, Maps(f, S, T), NEW s \in Seq(S), NEW t \in Seq(S)
    PROVE  Join(f, s \o t) = Join(f, s) \o Join(f, t)
<1> DEFINE P == {u \in Seq(S) : Join(f, s \o u) = Join(f, s) \o Join(f, u)}
<1>0. Join(f, s) \in Seq(T)
    BY JoinType
<1>1. <<>> \in P
    BY <1>0, JoinEmpty, ConcatEmptySeq
<1>2. ASSUME NEW u \in Seq(S), NEW x \in S, u \in P PROVE Append(u, x) \in P
    <2>1. Append(u, x) \in Seq(S)
        OBVIOUS
    <2> DEFINE v == s \o u
    <2>a. v \in Seq(S) /\ s \o Append(u, x) = Append(v, x)
        OBVIOUS
    <2> HIDE DEF v
    <2>b. Join(f, Append(v, x)) = Join(f, v) \o f[x]
        BY <2>a, JoinAppend
    <2>c. Join(f, Append(u, x)) = Join(f, u) \o f[x] /\ Join(f, u) \in Seq(T)
        BY JoinAppend
    <2>2. /\ Join(f, s \o Append(u, x)) = Join(f, s \o u) \o f[x]
          /\ Join(f, Append(u, x)) = Join(f, u) \o f[x] /\ Join(f, u) \in Seq(T)
        BY <2>a, <2>b, <2>c DEF v
    <2>3. Join(f, s \o u) = Join(f, s) \o Join(f, u)
        BY <1>2
    <2>4. f[x] \in Seq(T)
        BY DEF Maps
    <2>5. (Join(f, s) \o Join(f, u)) \o f[x] = Join(f, s) \o (Join(f, u) \o f[x])
        <3>1. Join(f, s) \in Seq(T) /\ Join(f, u) \in Seq(T) /\ f[x] \in Seq(T)
            BY <1>0, <2>c, <2>4
        <3>2. Associative(T)
            BY ConcatIsAssociative, Zenon
        <3> QED
            BY <3>1, <3>2, Zenon DEF Associative
    <2> QED
        BY <2>1, <2>2, <2>3, <2>5
<1> HIDE DEF P
<1>3. Seq(S) \subseteq P
    BY <1>1, <1>2, SeqInduction
<1> QED
    BY <1>3 DEF P

\* It depends on what f makes of the elements of s only.
LEMMA JoinSame ==
    ASSUME NEW f, NEW s, NEW g, \A k \in DOMAIN s : g[k] = f[s[k]], DOMAIN g = DOMAIN s,
           g = [k \in DOMAIN g |-> g[k]]
    PROVE  FlattenSeq(g) = Join(f, s)
<1>1. g = [k \in DOMAIN s |-> f[s[k]]]
    OBVIOUS
<1> QED
    BY <1>1 DEF Join

-----------------------------------------------------------------------------
(***************************************************************************)
(* Texts: Text leaves out the special tokens.                              *)
(***************************************************************************)
Tokens == 0 .. InternBase - 1

\* What a piece contributes to a text: nothing when it is a special token.
Letters(S) == [x \in S |-> IF x \in Specials THEN <<>> ELSE <<x>>]

\* Text is such a loop.
LEMMA TextIsJoin ==
    ASSUME NEW S
    PROVE  /\ Maps(Letters(S), S, S)
           /\ \A s \in Seq(S) : Text(s) = Join(Letters(S), s)
<1>1. \A x \in S : <<>> \in Seq(S) /\ <<x>> \in Seq(S)
    OBVIOUS
<1>2. Maps(Letters(S), S, S)
    BY <1>1 DEF Letters, Maps
<1>3. ASSUME NEW s \in Seq(S) PROVE Text(s) = Join(Letters(S), s)
    <2> DEFINE g == [k \in DOMAIN s |-> IF s[k] \in Specials THEN <<>> ELSE <<s[k]>>]
    <2>1. \A k \in DOMAIN s : s[k] \in S
        OBVIOUS
    <2>2. /\ \A k \in DOMAIN s : g[k] = Letters(S)[s[k]]
          /\ DOMAIN g = DOMAIN s /\ g = [k \in DOMAIN g |-> g[k]]
        BY <2>1 DEF Letters
    <2>3. Text(s) = FlattenSeq(g)
        BY DEF Text
    <2> HIDE DEF g
    <2> QED
        BY <2>2, <2>3, JoinSame
<1> QED
    BY <1>2, <1>3

LEMMA TextEmpty == Text(<<>>) = <<>>
BY FlattenEmpty DEF Text

LEMMA TextAppend ==
    ASSUME NEW S, NEW s \in Seq(S), NEW x \in S
    PROVE  /\ Text(s) \in Seq(S)
           /\ Text(Append(s, x)) = Text(s) \o (IF x \in Specials THEN <<>> ELSE <<x>>)
<1>1. Append(s, x) \in Seq(S)
    OBVIOUS
<1>2. Letters(S)[x] = IF x \in Specials THEN <<>> ELSE <<x>>
    BY DEF Letters
<1>3. Join(Letters(S), s) \in Seq(S) /\ Join(Letters(S), Append(s, x)) = Join(Letters(S), s) \o Letters(S)[x]
    BY TextIsJoin, JoinAppend
<1> QED
    BY <1>1, <1>2, <1>3, TextIsJoin

LEMMA TextOne ==
    ASSUME NEW x
    PROVE  Text(<<x>>) = IF x \in Specials THEN <<>> ELSE <<x>>
<1>1. x \in {x} /\ <<x>> \in Seq({x})
    OBVIOUS
<1>2. Letters({x})[x] = IF x \in Specials THEN <<>> ELSE <<x>>
    BY DEF Letters
<1> QED
    BY <1>1, <1>2, TextIsJoin, JoinOne

\* The text of two parts is the texts of the parts, in their order.
LEMMA TextConcat ==
    ASSUME NEW S, NEW s \in Seq(S), NEW t \in Seq(S)
    PROVE  Text(s \o t) = Text(s) \o Text(t)
<1>1. s \o t \in Seq(S)
    OBVIOUS
<1>2. Join(Letters(S), s \o t) = Join(Letters(S), s) \o Join(Letters(S), t)
    BY TextIsJoin, JoinConcat
<1> QED
    BY <1>1, <1>2, TextIsJoin

\* A text is no longer than the pieces it is of, and has no blank one.
LEMMA TextLength ==
    ASSUME NEW S, NEW s \in Seq(S)
    PROVE  Text(s) \in Seq(S) /\ Len(Text(s)) <= Len(s)
<1> DEFINE P == {u \in Seq(S) : Text(u) \in Seq(S) /\ Len(Text(u)) <= Len(u)}
<1>1. <<>> \in P
    <2>1. <<>> \in Seq(S) /\ Len(<<>>) <= Len(<<>>)
        OBVIOUS
    <2> QED
        BY <2>1, TextEmpty
<1>2. ASSUME NEW u \in Seq(S), NEW x \in S, u \in P PROVE Append(u, x) \in P
    <2> DEFINE one == IF x \in Specials THEN <<>> ELSE <<x>>
    <2>1. one \in Seq(S) /\ Len(one) <= 1
        OBVIOUS
    <2>2. Text(u) \in Seq(S) /\ Len(Text(u)) <= Len(u) /\ Text(Append(u, x)) = Text(u) \o one
        BY <1>2, TextAppend
    <2> HIDE DEF one
    <2>3. Text(u) \o one \in Seq(S) /\ Len(Text(u) \o one) = Len(Text(u)) + Len(one)
        BY <2>1, <2>2, ConcatProperties
    <2>4. Append(u, x) \in Seq(S) /\ Len(Append(u, x)) = Len(u) + 1
        OBVIOUS
    <2> QED
        BY <2>1, <2>2, <2>3, <2>4
<1> HIDE DEF P
<1>3. Seq(S) \subseteq P
    BY <1>1, <1>2, SeqInduction
<1> QED
    BY <1>3 DEF P

\* A sequence without special tokens is its own text.
LEMMA TextPlain ==
    ASSUME NEW S, NEW s \in Seq(S), S \cap Specials = {}
    PROVE  Text(s) = s
<1> DEFINE P == {u \in Seq(S) : Text(u) = u}
<1>1. <<>> \in P
    BY TextEmpty
<1>2. ASSUME NEW u \in Seq(S), NEW x \in S, u \in P PROVE Append(u, x) \in P
    <2>1. x \notin Specials /\ Text(u) = u /\ Append(u, x) \in Seq(S)
        BY <1>2
    <2>2. u \o <<x>> = Append(u, x)
        OBVIOUS
    <2>3. Text(Append(u, x)) = Text(u) \o <<x>>
        BY <2>1, TextAppend
    <2> QED
        BY <2>1, <2>2, <2>3
<1> HIDE DEF P
<1>3. Seq(S) \subseteq P
    BY <1>1, <1>2, SeqInduction
<1> QED
    BY <1>3 DEF P

\* The elements of a joined sequence are those of its parts.
LEMMA ElementsOf ==
    /\ ToSet(<<>>) = {}
    /\ \A x : ToSet(<<x>>) = {x}
    /\ \A T : \A s, t \in Seq(T) : ToSet(s \o t) = ToSet(s) \cup ToSet(t)
    /\ \A T : \A s \in Seq(T), x \in T : ToSet(Append(s, x)) = ToSet(s) \cup {x}
<1>1. ToSet(<<>>) = {}
    BY DEF ToSet
<1>2. ASSUME NEW x PROVE ToSet(<<x>>) = {x}
    <2>1. DOMAIN <<x>> = {1} /\ <<x>>[1] = x
        OBVIOUS
    <2> QED
        BY <2>1 DEF ToSet
<1>3. ASSUME NEW T, NEW s \in Seq(T), NEW t \in Seq(T) PROVE ToSet(s \o t) = ToSet(s) \cup ToSet(t)
    <2> DEFINE u == s \o t
    <2>0. Len(s) \in Nat /\ Len(t) \in Nat /\ DOMAIN s = 1 .. Len(s) /\ DOMAIN t = 1 .. Len(t)
        OBVIOUS
    <2>1. /\ DOMAIN u = 1 .. Len(s) + Len(t)
          /\ \A k \in 1 .. Len(s) : u[k] = s[k]
          /\ \A k \in 1 .. Len(t) : u[Len(s) + k] = t[k]
        OBVIOUS
    <2> HIDE DEF u
    <2>2. ASSUME NEW k \in DOMAIN u PROVE (k \in DOMAIN s /\ u[k] = s[k]) \/ (k - Len(s) \in DOMAIN t /\ u[k] = t[k - Len(s)])
        <3>1. CASE k <= Len(s)
            BY <2>0, <2>1, <3>1
        <3>2. CASE k > Len(s)
            <4>1. k - Len(s) \in 1 .. Len(t) /\ Len(s) + (k - Len(s)) = k
                BY <2>0, <2>1, <3>2
            <4> QED
                BY <2>0, <2>1, <4>1
        <3> QED
            BY <2>0, <2>1, <3>1, <3>2
    <2>3. \A k \in DOMAIN s : k \in DOMAIN u /\ u[k] = s[k]
        BY <2>0, <2>1
    <2>4. \A k \in DOMAIN t : Len(s) + k \in DOMAIN u /\ u[Len(s) + k] = t[k]
        BY <2>0, <2>1
    <2>5. ToSet(u) \subseteq ToSet(s) \cup ToSet(t)
        <3> SUFFICES ASSUME NEW k \in DOMAIN u PROVE u[k] \in ToSet(s) \cup ToSet(t)
            BY DEF ToSet
        <3> QED
            BY <2>2 DEF ToSet
    <2>6. ToSet(s) \subseteq ToSet(u) /\ ToSet(t) \subseteq ToSet(u)
        BY <2>3, <2>4 DEF ToSet
    <2> QED
        BY <2>5, <2>6 DEF u
<1>4. ASSUME NEW T, NEW s \in Seq(T), NEW x \in T PROVE ToSet(Append(s, x)) = ToSet(s) \cup {x}
    <2>1. <<x>> \in Seq(T) /\ Append(s, x) = s \o <<x>>
        OBVIOUS
    <2>2. ToSet(s \o <<x>>) = ToSet(s) \cup ToSet(<<x>>)
        BY <1>3, <2>1
    <2>3. ToSet(<<x>>) = {x}
        BY <1>2
    <2> QED
        BY <2>1, <2>2, <2>3
<1> QED
    BY <1>1, <1>2, <1>3, <1>4

\* What is in a concatenation is in one of its parts.
LEMMA FlattenElements ==
    ASSUME NEW T, NEW s \in Seq(Seq(T))
    PROVE  ToSet(FlattenSeq(s)) = UNION {ToSet(s[k]) : k \in DOMAIN s}
<1> DEFINE P == {u \in Seq(Seq(T)) : ToSet(FlattenSeq(u)) = UNION {ToSet(u[k]) : k \in DOMAIN u}}
<1>1. <<>> \in P
    <2>1. UNION {ToSet(<<>>[k]) : k \in DOMAIN <<>>} = {}
        OBVIOUS
    <2> QED
        BY <2>1, FlattenEmpty, ElementsOf
<1>2. ASSUME NEW u \in Seq(Seq(T)), NEW x \in Seq(T), u \in P PROVE Append(u, x) \in P
    <2> DEFINE v == Append(u, x)
    <2>1. FlattenSeq(v) = FlattenSeq(u) \o x /\ FlattenSeq(u) \in Seq(T)
        BY FlattenAppend
    <2>2. ToSet(FlattenSeq(v)) = ToSet(FlattenSeq(u)) \cup ToSet(x)
        BY <2>1, ElementsOf
    <2>3. /\ v \in Seq(Seq(T)) /\ DOMAIN v = DOMAIN u \cup {Len(u) + 1}
          /\ v[Len(u) + 1] = x /\ \A k \in DOMAIN u : v[k] = u[k]
        OBVIOUS
    <2> HIDE DEF v
    <2>4. {ToSet(v[k]) : k \in DOMAIN v} = {ToSet(u[k]) : k \in DOMAIN u} \cup {ToSet(x)}
        BY <2>3
    <2>5. ToSet(FlattenSeq(u)) = UNION {ToSet(u[k]) : k \in DOMAIN u}
        BY <1>2
    <2>6. ToSet(FlattenSeq(v)) = UNION {ToSet(v[k]) : k \in DOMAIN v}
        BY <2>2, <2>4, <2>5
    <2> QED
        BY <2>3, <2>6 DEF v
<1> HIDE DEF P
<1>3. Seq(Seq(T)) \subseteq P
    BY <1>1, <1>2, SeqInduction
<1> QED
    BY <1>3 DEF P

\* The sequence that a loop concatenates.
LEMMA MappedSeq ==
    ASSUME NEW S, NEW T, NEW f, Maps(f, S, T), NEW s \in Seq(S)
    PROVE  [k \in DOMAIN s |-> f[s[k]]] \in Seq(Seq(T))
<1>1. DOMAIN s = 1 .. Len(s) /\ Len(s) \in Nat /\ \A k \in 1 .. Len(s) : s[k] \in S
    OBVIOUS
<1>2. \A k \in 1 .. Len(s) : f[s[k]] \in Seq(T)
    BY <1>1 DEF Maps
<1> QED
    BY <1>1, <1>2

\* What a loop collects comes from the elements it saw.
LEMMA JoinElements ==
    ASSUME NEW S, NEW T, NEW f, Maps(f, S, T), NEW s \in Seq(S)
    PROVE  ToSet(Join(f, s)) = UNION {ToSet(f[x]) : x \in ToSet(s)}
<1> DEFINE m == [k \in DOMAIN s |-> f[s[k]]]
<1>1. m \in Seq(Seq(T)) /\ DOMAIN m = DOMAIN s /\ \A k \in DOMAIN m : m[k] = f[s[k]]
    BY MappedSeq
<1>2. Join(f, s) = FlattenSeq(m)
    BY DEF Join
<1> HIDE DEF m
<1>3. ToSet(FlattenSeq(m)) = UNION {ToSet(m[k]) : k \in DOMAIN m}
    BY <1>1, FlattenElements
<1>4. {ToSet(m[k]) : k \in DOMAIN m} = {ToSet(f[x]) : x \in ToSet(s)}
    <2>1. \A k \in DOMAIN s : s[k] \in ToSet(s)
        BY DEF ToSet
    <2>2. \A x \in ToSet(s) : \E k \in DOMAIN s : x = s[k]
        BY DEF ToSet
    <2>3. \A k \in DOMAIN m : ToSet(m[k]) = ToSet(f[s[k]])
        BY <1>1
    <2>4. ASSUME NEW y \in {ToSet(m[k]) : k \in DOMAIN m} PROVE y \in {ToSet(f[x]) : x \in ToSet(s)}
        BY <1>1, <2>1, <2>3
    <2>5. ASSUME NEW y \in {ToSet(f[x]) : x \in ToSet(s)} PROVE y \in {ToSet(m[k]) : k \in DOMAIN m}
        BY <1>1, <2>2, <2>3
    <2> QED
        BY <2>4, <2>5
<1> QED
    BY <1>2, <1>3, <1>4

\* Nothing joined is nothing of each.
LEMMA NothingJoined ==
    ASSUME NEW S, NEW T, NEW f, Maps(f, S, T), NEW s \in Seq(S)
    PROVE  Join(f, s) = <<>> <=> \A k \in DOMAIN s : f[s[k]] = <<>>
<1>1. \A u \in Seq(T) : u = <<>> <=> ToSet(u) = {}
    <2> SUFFICES ASSUME NEW u \in Seq(T) PROVE u = <<>> <=> ToSet(u) = {}
        OBVIOUS
    <2>1. DOMAIN u = 1 .. Len(u) /\ Len(u) \in Nat
        OBVIOUS
    <2>2. CASE Len(u) = 0
        <3>1. u = <<>>
            BY <2>2
        <3> QED
            BY <3>1, ElementsOf
    <2>3. CASE Len(u) # 0
        <3>1. 1 \in DOMAIN u /\ u # <<>>
            BY <2>1, <2>3
        <3>2. u[1] \in ToSet(u)
            BY <3>1 DEF ToSet
        <3> QED
            BY <3>1, <3>2
    <2> QED
        BY <2>2, <2>3
<1>2. Join(f, s) \in Seq(T) /\ ToSet(Join(f, s)) = UNION {ToSet(f[x]) : x \in ToSet(s)}
    BY JoinType, JoinElements
<1>3. \A k \in DOMAIN s : s[k] \in S
    OBVIOUS
<1>4. \A k \in DOMAIN s : f[s[k]] \in Seq(T)
    BY <1>3 DEF Maps
<1>5. ToSet(s) = {s[k] : k \in DOMAIN s}
    BY DEF ToSet
<1>6. Join(f, s) = <<>> <=> UNION {ToSet(f[x]) : x \in ToSet(s)} = {}
    BY <1>1, <1>2
<1>7. UNION {ToSet(f[x]) : x \in ToSet(s)} = {} <=> \A k \in DOMAIN s : ToSet(f[s[k]]) = {}
    <2>1. ASSUME UNION {ToSet(f[x]) : x \in ToSet(s)} = {}, NEW k \in DOMAIN s PROVE ToSet(f[s[k]]) = {}
        <3>1. s[k] \in ToSet(s)
            BY <1>5
        <3>2. ToSet(f[s[k]]) \subseteq UNION {ToSet(f[x]) : x \in ToSet(s)}
            BY <3>1
        <3> QED
            BY <2>1, <3>2
    <2>2. ASSUME \A k \in DOMAIN s : ToSet(f[s[k]]) = {} PROVE UNION {ToSet(f[x]) : x \in ToSet(s)} = {}
        <3>1. \A x \in ToSet(s) : ToSet(f[x]) = {}
            BY <1>5, <2>2
        <3> QED
            BY <3>1
    <2> QED
        BY <2>1, <2>2
<1>8. \A k \in DOMAIN s : ToSet(f[s[k]]) = {} <=> f[s[k]] = <<>>
    BY <1>1, <1>4
<1> QED
    BY <1>6, <1>7, <1>8

\* Joining twice.
LEMMA JoinJoin ==
    ASSUME NEW S, NEW T, NEW U, NEW f, Maps(f, S, T), NEW h, Maps(h, T, U), NEW s \in Seq(S),
           NEW g, \A x \in S : g[x] = Join(h, f[x])
    PROVE  Join(h, Join(f, s)) = Join(g, s)
<1>0. Maps(g, S, U)
    <2>1. \A x \in S : f[x] \in Seq(T)
        BY DEF Maps
    <2>2. \A u \in Seq(T) : Join(h, u) \in Seq(U)
        BY JoinType
    <2> QED
        BY <2>1, <2>2 DEF Maps
<1> DEFINE P == {u \in Seq(S) : Join(h, Join(f, u)) = Join(g, u)}
<1>1. <<>> \in P
    BY JoinEmpty
<1>2. ASSUME NEW u \in Seq(S), NEW x \in S, u \in P PROVE Append(u, x) \in P
    <2>1. Append(u, x) \in Seq(S)
        OBVIOUS
    <2>2. Join(f, Append(u, x)) = Join(f, u) \o f[x] /\ Join(f, u) \in Seq(T)
        BY JoinAppend
    <2>3. f[x] \in Seq(T)
        BY DEF Maps
    <2>4. Join(h, Join(f, u) \o f[x]) = Join(h, Join(f, u)) \o Join(h, f[x])
        BY <2>2, <2>3, JoinConcat
    <2>5. Join(g, Append(u, x)) = Join(g, u) \o g[x]
        BY <1>0, JoinAppend
    <2>6. Join(h, Join(f, u)) = Join(g, u)
        BY <1>2
    <2> QED
        BY <2>1, <2>2, <2>4, <2>5, <2>6
<1> HIDE DEF P
<1>3. Seq(S) \subseteq P
    BY <1>1, <1>2, SeqInduction
<1> QED
    BY <1>3 DEF P

\* Two functions that agree on what is there collect the same.
LEMMA JoinAgree ==
    ASSUME NEW f, NEW g, NEW s, \A k \in DOMAIN s : f[s[k]] = g[s[k]]
    PROVE  Join(f, s) = Join(g, s)
<1>1. [k \in DOMAIN s |-> f[s[k]]] = [k \in DOMAIN s |-> g[s[k]]]
    OBVIOUS
<1> QED
    BY <1>1 DEF Join

\* An element that has one value for itself.
LEMMA JoinSingles ==
    ASSUME NEW S, NEW T, NEW f, NEW s \in Seq(S), NEW t \in Seq(T), Len(t) = Len(s), Maps(f, S, T),
           \A k \in DOMAIN s : f[s[k]] = <<t[k]>>
    PROVE  Join(f, s) = t
<1> DEFINE n == Len(s)
           P == {m \in Nat : m <= n => Join(f, SubSeq(s, 1, m)) = SubSeq(t, 1, m)}
<1>0. n \in Nat /\ DOMAIN s = 1 .. n
    OBVIOUS
<1>1. 0 \in P
    <2>1. SubSeq(s, 1, 0) = <<>> /\ SubSeq(t, 1, 0) = <<>>
        OBVIOUS
    <2> QED
        BY <2>1, JoinEmpty
<1>2. ASSUME NEW m \in Nat, m \in P PROVE m + 1 \in P
    <2> SUFFICES ASSUME m + 1 <= n PROVE Join(f, SubSeq(s, 1, m + 1)) = SubSeq(t, 1, m + 1)
        OBVIOUS
    <2>1. /\ SubSeq(s, 1, m + 1) = Append(SubSeq(s, 1, m), s[m + 1])
          /\ SubSeq(s, 1, m) \in Seq(S) /\ s[m + 1] \in S
        OBVIOUS
    <2>2. /\ SubSeq(t, 1, m + 1) = Append(SubSeq(t, 1, m), t[m + 1])
          /\ SubSeq(t, 1, m) \in Seq(T) /\ t[m + 1] \in T
        OBVIOUS
    <2>6. SubSeq(t, 1, m) \o <<t[m + 1]>> = Append(SubSeq(t, 1, m), t[m + 1])
        <3> DEFINE a == SubSeq(t, 1, m)
                   b == t[m + 1]
        <3>1. a \in Seq(T) /\ b \in T
            BY <2>2
        <3> HIDE DEF a, b
        <3>2. a \o <<b>> = Append(a, b)
            BY <3>1
        <3> QED
            BY <3>2 DEF a, b
    <2>3. Join(f, Append(SubSeq(s, 1, m), s[m + 1])) = Join(f, SubSeq(s, 1, m)) \o f[s[m + 1]]
        <3>1. \A u \in Seq(S), x \in S : Join(f, Append(u, x)) = Join(f, u) \o f[x]
            BY JoinAppend
        <3> QED
            BY <2>1, <3>1, Zenon
    <2>4. Join(f, SubSeq(s, 1, m)) = SubSeq(t, 1, m)
        <3>1. m <= n
            BY <1>0
        <3> QED
            BY <1>2, <3>1
    <2>5. f[s[m + 1]] = <<t[m + 1]>>
        <3>1. m + 1 \in DOMAIN s
            BY <1>0
        <3> QED
            BY <3>1
    <2> QED
        BY <2>1, <2>2, <2>3, <2>4, <2>5, <2>6, Zenon
<1> HIDE DEF P
<1>3. Nat \subseteq P
    BY <1>1, <1>2, SetInduction
<1>4. Join(f, SubSeq(s, 1, n)) = SubSeq(t, 1, n)
    BY <1>0, <1>3 DEF P
<1>5. SubSeq(s, 1, n) = s /\ SubSeq(t, 1, n) = t
    OBVIOUS
<1> QED
    BY <1>4, <1>5

-----------------------------------------------------------------------------
(***************************************************************************)
(* Sums, and what is charged for the entries of the log.                   *)
(***************************************************************************)
Sums(f, s) == f = [k \in 0 .. Len(s) |-> IF k = 0 THEN 0 ELSE f[k - 1] + s[k]]

\* One sequence of numbers has one table of partial sums.
LEMMA SumIsUnique ==
    ASSUME NEW s, NEW f, NEW g, Len(s) \in Nat, Sums(f, s), Sums(g, s)
    PROVE  f = g
<1> DEFINE n == Len(s)
           S == {i \in Nat : i <= n => f[i] = g[i]}
<1>0. n \in Nat
    OBVIOUS
<1>1. \A i \in 0 .. n : /\ f[i] = IF i = 0 THEN 0 ELSE f[i - 1] + s[i]
                        /\ g[i] = IF i = 0 THEN 0 ELSE g[i - 1] + s[i]
    BY DEF Sums
<1>2. /\ f = [i \in 0 .. n |-> f[i]]
      /\ g = [i \in 0 .. n |-> g[i]]
    BY DEF Sums
<1> HIDE DEF n
<1>3. 0 \in S
    BY <1>0, <1>1
<1>4. ASSUME NEW i \in Nat, i \in S PROVE i + 1 \in S
    <2> SUFFICES ASSUME i + 1 <= n PROVE f[i + 1] = g[i + 1]
        OBVIOUS
    <2>1. i + 1 \in 0 .. n /\ (i + 1) - 1 = i /\ i + 1 # 0 /\ i <= n
        BY <1>0
    <2> QED
        BY <1>1, <1>4, <2>1
<1> HIDE DEF S
<1>5. Nat \subseteq S
    BY <1>3, <1>4, SetInduction
<1>6. \A i \in 0 .. n : f[i] = g[i]
    BY <1>0, <1>5 DEF S
<1> QED
    BY <1>2, <1>6

\* Total is the last of the partial sums.
LEMMA TotalIsSum ==
    ASSUME NEW s, Len(s) \in Nat, NEW f, Sums(f, s)
    PROVE  Total(s) = f[Len(s)]
<1>1. \A g : Sums(g, s) => g = f
    BY SumIsUnique
<1> QED
    BY <1>1 DEF Total, Sums

\* One number more is one partial sum more.
LEMMA SumGrows ==
    ASSUME NEW s \in Seq(Nat), NEW x \in Nat, NEW f \in [0 .. Len(s) -> Nat], Sums(f, s)
    PROVE  \E g \in [0 .. Len(s) + 1 -> Nat] :
              Sums(g, Append(s, x)) /\ g[Len(s) + 1] = f[Len(s)] + x
<1> DEFINE n == Len(s)
           t == Append(s, x)
           g == [i \in 0 .. n + 1 |-> IF i <= n THEN f[i] ELSE f[n] + x]
<1>1. /\ n \in Nat /\ Len(t) = n + 1 /\ t[n + 1] = x
      /\ \A i \in 1 .. n : t[i] = s[i]
    OBVIOUS
<1>2. f \in [0 .. n -> Nat] /\ \A i \in 0 .. n : f[i] = IF i = 0 THEN 0 ELSE f[i - 1] + s[i]
    BY DEF Sums
<1> HIDE DEF n, t
<1>3. g \in [0 .. n + 1 -> Nat] /\ g[n + 1] = f[n] + x
    BY <1>1, <1>2
<1>4. ASSUME NEW i \in 0 .. n + 1 PROVE g[i] = IF i = 0 THEN 0 ELSE g[i - 1] + t[i]
    <2>1. CASE i = 0
        BY <1>1, <1>2, <2>1
    <2>2. CASE i # 0 /\ i <= n
        <3>1. i \in 1 .. n /\ i \in 0 .. n /\ i - 1 \in 0 .. n + 1 /\ i - 1 <= n
            BY <1>1, <2>2
        <3>2. g[i] = f[i] /\ g[i - 1] = f[i - 1] /\ t[i] = s[i]
            BY <1>1, <3>1
        <3> HIDE DEF g
        <3> QED
            BY <1>2, <2>2, <3>1, <3>2
    <2>3. CASE i = n + 1
        BY <1>1, <2>3
    <2> QED
        BY <1>1, <2>1, <2>2, <2>3
<1>5. Sums(g, t)
    <2>1. g = [i \in 0 .. n + 1 |-> g[i]]
        OBVIOUS
    <2> HIDE DEF g
    <2> QED
        BY <1>1, <1>4, <2>1 DEF Sums
<1> HIDE DEF g
<1> QED
    BY <1>3, <1>5 DEF n, t

\* What Total computes, one count at a time.
LEMMA TotalAppend ==
    /\ Total(<<>>) = 0
    /\ \A s \in Seq(Nat) : Total(s) \in Nat
    /\ \A s \in Seq(Nat), x \in Nat : Total(Append(s, x)) = Total(s) + x
<1> DEFINE P == {s \in Seq(Nat) : \E f \in [0 .. Len(s) -> Nat] : Sums(f, s)}
<1>0. Len(<<>>) = 0
    OBVIOUS
<1>1. \E f \in [0 .. Len(<<>>) -> Nat] : Sums(f, <<>>) /\ f[0] = 0
    <2> DEFINE f == [k \in 0 .. 0 |-> 0]
    <2>1. f \in [0 .. Len(<<>>) -> Nat] /\ f[0] = 0
        BY <1>0
    <2>2. f = [k \in 0 .. 0 |-> IF k = 0 THEN 0 ELSE f[k - 1] + <<>>[k]]
        OBVIOUS
    <2>3. Sums(f, <<>>)
        BY <1>0, <2>2 DEF Sums
    <2> QED
        BY <2>1, <2>3
<1>2. <<>> \in P
    BY <1>1
<1>3. ASSUME NEW s \in Seq(Nat), NEW x \in Nat, s \in P PROVE Append(s, x) \in P
    <2>1. PICK f \in [0 .. Len(s) -> Nat] : Sums(f, s)
        BY <1>3
    <2>2. PICK g \in [0 .. Len(s) + 1 -> Nat] : Sums(g, Append(s, x))
        BY <2>1, SumGrows
    <2>3. Append(s, x) \in Seq(Nat) /\ Len(Append(s, x)) = Len(s) + 1
        OBVIOUS
    <2> QED
        BY <2>2, <2>3
<1> HIDE DEF P
<1>4. Seq(Nat) \subseteq P
    BY <1>2, <1>3, SeqInduction
<1>5. Total(<<>>) = 0
    BY <1>0, <1>1, TotalIsSum
<1>6. ASSUME NEW s \in Seq(Nat), NEW x \in Nat
      PROVE  Total(s) \in Nat /\ Total(Append(s, x)) = Total(s) + x
    <2>1. PICK f \in [0 .. Len(s) -> Nat] : Sums(f, s)
        BY <1>4 DEF P
    <2>2. PICK g \in [0 .. Len(s) + 1 -> Nat] : Sums(g, Append(s, x)) /\ g[Len(s) + 1] = f[Len(s)] + x
        BY <2>1, SumGrows
    <2>3. Len(s) \in Nat /\ Len(Append(s, x)) = Len(s) + 1 /\ Len(Append(s, x)) \in Nat
        OBVIOUS
    <2>4. Total(s) = f[Len(s)]
        BY <2>1, <2>3, TotalIsSum
    <2>5. Total(Append(s, x)) = g[Len(s) + 1]
        BY <2>2, <2>3, TotalIsSum
    <2> QED
        BY <2>2, <2>3, <2>4, <2>5
<1>7. \A s \in Seq(Nat) : Total(s) \in Nat
    BY <1>6
<1> QED
    BY <1>5, <1>6, <1>7

\* The log entries of the attempts.
Entries == [text : Seq(Nat), positions : Nat, finish : Reasons \cup {None},
            usage : Usages \cup {None}, error : BOOLEAN]

\* The frames of a stream and their positions.
Positions(S) == [k : Nat, piece : S, id : S \cup {None}, cands : Seq(Seq(S)),
                 off : Nat \cup {None}, signal : BOOLEAN]
Frames == [kind : {"json", "junk", "done"}, event : {"none", "step", "done"},
           choices : BOOLEAN, recs : Seq(Positions(Nat)), finish : Reasons \cup {None},
           usage : Usages \cup {None}, error : BOOLEAN]

\* Both may tell of a usage.
Sources == Entries \cup Frames
Slots == {"prompt", "completion"}

\* The numbers that those with a usage have in one slot.
Counts(slot) == [e \in Sources |-> IF e.usage = None THEN <<>> ELSE <<e.usage[slot]>>]

\* What they add up to in one slot: None while none of them has a usage.
Bill(slot, es) ==
    LET counts == Join(Counts(slot), es)
    IN  IF counts = <<>> THEN None ELSE Total(counts)

\* A slot of a report.
Slot(usage, slot) == IF usage = None THEN None ELSE usage[slot]

\* record_tokens of one slot: None counts as nothing on either side.
PlusOf(slot, n) == IF n = None THEN slot ELSE IF slot = None THEN n ELSE slot + n

LEMMA NoneIsNone ==
    /\ None \notin Nat /\ None \notin Reasons /\ None \notin Usages
    /\ None # "dsbx" /\ None # "openai"
BY CallAssumption, LogAssumption

\* A usage is None or has numbers, in an entry and in a frame.
LEMMA SourceTypes ==
    /\ \A e \in Sources : e.usage \in Usages \cup {None}
    /\ \A u \in Usages \cup {None}, slot \in Slots : Slot(u, slot) \in Nat \cup {None}
    /\ \A s \in Seq(Entries) : s \in Seq(Sources)
    /\ \A s \in Seq(Frames) : s \in Seq(Sources)
<1>1. \A e \in Sources : e.usage \in Usages \cup {None}
    BY DEF Sources, Entries, Frames
<1>2. \A u \in Usages \cup {None}, slot \in Slots : Slot(u, slot) \in Nat \cup {None}
    BY DEF Slot, Slots, Usages
<1>3. Entries \subseteq Sources /\ Frames \subseteq Sources
    BY DEF Sources
<1> HIDE DEF Sources
<1> QED
    BY <1>1, <1>2, <1>3, SeqMonotonic

LEMMA CountsMap ==
    ASSUME NEW slot \in Slots
    PROVE  Maps(Counts(slot), Sources, Nat)
<1> SUFFICES ASSUME NEW e \in Sources PROVE Counts(slot)[e] \in Seq(Nat)
    BY DEF Maps
<1>1. Counts(slot)[e] = IF e.usage = None THEN <<>> ELSE <<e.usage[slot]>>
    BY DEF Counts
<1>2. e.usage # None => e.usage \in Usages
    BY SourceTypes
<1>3. e.usage # None => e.usage[slot] \in Nat
    BY <1>2 DEF Usages, Slots
<1> QED
    BY <1>1, <1>3

\* The number that UsageIsCharged compares is the bill of those who tell.
LEMMA ChargedIsBill ==
    ASSUME NEW es \in Seq(Sources), NEW slot
    PROVE  Charged(slot, es) = Bill(slot, es)
<1> DEFINE g == [k \in DOMAIN es |-> IF es[k].usage = None THEN <<>> ELSE <<es[k].usage[slot]>>]
<1>1. \A k \in DOMAIN es : es[k] \in Sources
    OBVIOUS
<1>2. DOMAIN g = DOMAIN es /\ g = [k \in DOMAIN g |-> g[k]]
    OBVIOUS
<1>3. \A k \in DOMAIN es : g[k] = Counts(slot)[es[k]]
    BY <1>1 DEF Counts
<1>4. Charged(slot, es) = IF FlattenSeq(g) = <<>> THEN None ELSE Total(FlattenSeq(g))
    BY DEF Charged
<1> HIDE DEF g
<1>5. FlattenSeq(g) = Join(Counts(slot), es)
    BY <1>2, <1>3, JoinSame
<1> QED
    BY <1>4, <1>5 DEF Bill

\* The sum of two runs of numbers.
LEMMA TotalConcat ==
    ASSUME NEW s \in Seq(Nat), NEW t \in Seq(Nat)
    PROVE  Total(s \o t) = Total(s) + Total(t)
<1> DEFINE P == {u \in Seq(Nat) : Total(s \o u) = Total(s) + Total(u)}
<1>1. <<>> \in P
    <2>1. <<>> \in Seq(Nat) /\ s \o <<>> = s
        OBVIOUS
    <2>2. Total(<<>>) = 0 /\ Total(s) \in Nat
        BY TotalAppend
    <2> QED
        BY <2>1, <2>2
<1>2. ASSUME NEW u \in Seq(Nat), NEW x \in Nat, u \in P PROVE Append(u, x) \in P
    <2>1. s \o u \in Seq(Nat) /\ s \o Append(u, x) = Append(s \o u, x) /\ Append(u, x) \in Seq(Nat)
        OBVIOUS
    <2>2. /\ Total(Append(s \o u, x)) = Total(s \o u) + x /\ Total(Append(u, x)) = Total(u) + x
          /\ Total(s) \in Nat /\ Total(u) \in Nat
        BY <2>1, TotalAppend
    <2>3. Total(s \o u) = Total(s) + Total(u)
        BY <1>2
    <2> DEFINE a == Total(s)
               b == Total(u)
               v == Append(u, x)
               c == Total(v)
               d == Total(s \o v)
    <2>4. /\ a \in Nat /\ b \in Nat /\ c = b + x /\ v \in Seq(Nat)
          /\ d = a + b + x
        BY <2>1, <2>2, <2>3
    <2> HIDE DEF a, b, c
    <2>5. d = a + c
        BY <2>4
    <2> QED
        BY <2>4, <2>5 DEF a, c
<1>3. Seq(Nat) \subseteq P
    <2> HIDE DEF P
    <2> QED
        BY <1>1, <1>2, SeqInduction
<1> QED
    BY <1>3

\* record_tokens of a slot adds up, and None is nothing.
LEMMA PlusLaws ==
    \A x, y, z \in Nat \cup {None} :
        /\ PlusOf(x, y) \in Nat \cup {None}
        /\ PlusOf(x, None) = x /\ PlusOf(None, x) = x
        /\ PlusOf(PlusOf(x, y), z) = PlusOf(x, PlusOf(y, z))
BY NoneIsNone DEF PlusOf

\* The bill of two runs is what record_tokens makes of their bills.
LEMMA BillConcat ==
    ASSUME NEW slot \in Slots, NEW s \in Seq(Sources), NEW t \in Seq(Sources)
    PROVE  /\ Bill(slot, s) \in Nat \cup {None}
           /\ Bill(slot, s \o t) = PlusOf(Bill(slot, s), Bill(slot, t))
<1> DEFINE x == Join(Counts(slot), s)
           y == Join(Counts(slot), t)
<1>1. x \in Seq(Nat) /\ y \in Seq(Nat)
    BY CountsMap, JoinType
<1>2. Join(Counts(slot), s \o t) = x \o y
    BY CountsMap, JoinConcat
<1>3. /\ Bill(slot, s) = IF x = <<>> THEN None ELSE Total(x)
      /\ Bill(slot, t) = IF y = <<>> THEN None ELSE Total(y)
      /\ Bill(slot, s \o t) = IF x \o y = <<>> THEN None ELSE Total(x \o y)
    BY <1>2 DEF Bill
<1> HIDE DEF x, y
<1>4. /\ x = <<>> => x \o y = y
      /\ y = <<>> => x \o y = x
      /\ x # <<>> => x \o y # <<>>
    <2>1. x = <<>> => x \o y = y
        BY <1>1
    <2>2. y = <<>> => x \o y = x
        BY <1>1
    <2>3. x # <<>> => Len(x) > 0
        BY <1>1
    <2>4. Len(x \o y) = Len(x) + Len(y) /\ Len(x) \in Nat /\ Len(y) \in Nat
        BY <1>1
    <2>5. x # <<>> => x \o y # <<>>
        BY <2>3, <2>4
    <2> QED
        BY <2>1, <2>2, <2>5
<1>5. Total(x) \in Nat /\ Total(y) \in Nat /\ Total(x \o y) = Total(x) + Total(y)
    BY <1>1, TotalAppend, TotalConcat
<1> QED
    BY <1>3, <1>4, <1>5, NoneIsNone DEF PlusOf

\* One entry or frame adds its report.
LEMMA BillOne ==
    ASSUME NEW slot \in Slots, NEW e \in Sources
    PROVE  /\ Bill(slot, <<>>) = None
           /\ Bill(slot, <<e>>) = Slot(e.usage, slot)
           /\ \A s \in Seq(Sources) : Bill(slot, Append(s, e)) = PlusOf(Bill(slot, s), Slot(e.usage, slot))
<1>1. Bill(slot, <<>>) = None
    BY JoinEmpty DEF Bill
<1>2. Bill(slot, <<e>>) = Slot(e.usage, slot)
    <2>1. Join(Counts(slot), <<e>>) = Counts(slot)[e]
        BY CountsMap, JoinOne
    <2>2. Counts(slot)[e] = IF e.usage = None THEN <<>> ELSE <<e.usage[slot]>>
        BY DEF Counts
    <2>3. CASE e.usage = None
        BY <2>1, <2>2, <2>3 DEF Bill, Slot
    <2>4. CASE e.usage # None
        <3> DEFINE n == e.usage[slot]
        <3>0. e.usage \in Usages
            BY <2>4, SourceTypes
        <3>1. n \in Nat
            BY <3>0 DEF Usages, Slots
        <3>2. Slot(e.usage, slot) = n /\ Join(Counts(slot), <<e>>) = <<n>>
            BY <2>1, <2>2, <2>4 DEF Slot
        <3> HIDE DEF n
        <3>3. <<n>> # <<>> /\ Append(<<>>, n) = <<n>> /\ <<>> \in Seq(Nat)
            OBVIOUS
        <3>4. Total(<<n>>) = n
            <4>1. Total(Append(<<>>, n)) = Total(<<>>) + n /\ Total(<<>>) = 0
                BY <3>1, <3>3, TotalAppend
            <4> QED
                BY <3>1, <3>3, <4>1
        <3> QED
            BY <3>2, <3>3, <3>4 DEF Bill
    <2> QED
        BY <2>3, <2>4
<1>3. ASSUME NEW s \in Seq(Sources)
      PROVE  Bill(slot, Append(s, e)) = PlusOf(Bill(slot, s), Slot(e.usage, slot))
    <2> DEFINE t == <<e>>
    <2>1. t \in Seq(Sources) /\ Append(s, e) = s \o t
        OBVIOUS
    <2>2. Bill(slot, t) = Slot(e.usage, slot)
        BY <1>2
    <2> HIDE DEF t
    <2> QED
        BY <2>1, <2>2, BillConcat
<1> QED
    BY <1>1, <1>2, <1>3

-----------------------------------------------------------------------------
(***************************************************************************)
(* What is logged of a stream: the loops of the aggregator.                *)
(***************************************************************************)
\* What it takes from each frame: the positions, the reasons, the reports and
\* the done events.
RecsOf == [f \in Frames |-> f.recs]
FinishOf == [f \in Frames |-> IF f.finish = None THEN <<>> ELSE <<f.finish>>]
UsageOf == [f \in Frames |-> IF f.usage = None THEN <<>> ELSE <<f.usage>>]
DoneOf == [f \in Frames |-> IF f.event = "done" THEN <<f>> ELSE <<>>]

JsonOf == [f \in Frames |-> IF f.kind = "json" THEN <<f>> ELSE <<>>]
StepRecsOf == [f \in Frames |-> IF f.event = "step" THEN f.recs ELSE <<>>]
DoneFinishOf == [f \in Frames |-> IF f.event = "done" /\ f.finish # None THEN <<f.finish>> ELSE <<>>]
ShapeOf == [f \in Frames |-> IF f.event # "none" THEN <<"dsbx">> ELSE IF f.choices THEN <<"openai">> ELSE <<>>]

\* The types of what is taken.
LEMMA FrameMaps ==
    /\ Maps(RecsOf, Frames, Positions(Nat)) /\ Maps(FinishOf, Frames, Reasons)
    /\ Maps(UsageOf, Frames, Usages) /\ Maps(DoneOf, Frames, Frames)
    /\ Maps(JsonOf, Frames, Frames) /\ Maps(StepRecsOf, Frames, Positions(Nat))
    /\ Maps(DoneFinishOf, Frames, Reasons) /\ Maps(ShapeOf, Frames, {"dsbx", "openai"})
<1>0. \A T : <<>> \in Seq(T) /\ \A x \in T : <<x>> \in Seq(T)
    OBVIOUS
<1>1. \A f \in Frames : /\ f.recs \in Seq(Positions(Nat))
                        /\ f.finish # None => f.finish \in Reasons
                        /\ f.usage # None => f.usage \in Usages
    BY DEF Frames
<1>2. Maps(RecsOf, Frames, Positions(Nat))
    BY <1>1 DEF Maps, RecsOf
<1>3. Maps(FinishOf, Frames, Reasons)
    BY <1>0, <1>1 DEF Maps, FinishOf
<1>4. Maps(UsageOf, Frames, Usages)
    BY <1>0, <1>1 DEF Maps, UsageOf
<1>5. Maps(DoneOf, Frames, Frames)
    BY <1>0 DEF Maps, DoneOf
<1>6. Maps(JsonOf, Frames, Frames)
    BY <1>0 DEF Maps, JsonOf
<1>7. Maps(StepRecsOf, Frames, Positions(Nat))
    BY <1>0, <1>1 DEF Maps, StepRecsOf
<1>8. Maps(DoneFinishOf, Frames, Reasons)
    BY <1>0, <1>1 DEF Maps, DoneFinishOf
<1>9. Maps(ShapeOf, Frames, {"dsbx", "openai"})
    BY <1>0 DEF Maps, ShapeOf
<1> QED
    BY <1>2, <1>3, <1>4, <1>5, <1>6, <1>7, <1>8, <1>9

\* The last value that was given.
Latest(u) == IF u = <<>> THEN None ELSE Last(u)

\* What Given collects is what a loop with IF ... THEN <<value>> collects.
LEMMA GivenIsJoin ==
    ASSUME NEW f, NEW s, NEW values, DOMAIN values = DOMAIN s,
           \A k \in DOMAIN s : f[s[k]] = IF values[k] = None THEN <<>> ELSE <<values[k]>>
    PROVE  Given(values) = Join(f, s) /\ LatestOf(values) = Latest(Join(f, s))
<1> DEFINE g == [k \in DOMAIN values |-> IF values[k] = None THEN <<>> ELSE <<values[k]>>]
<1>1. DOMAIN g = DOMAIN s /\ g = [k \in DOMAIN g |-> g[k]] /\ \A k \in DOMAIN s : g[k] = f[s[k]]
    OBVIOUS
<1>2. Given(values) = FlattenSeq(g)
    BY DEF Given
<1> HIDE DEF g
<1>3. FlattenSeq(g) = Join(f, s)
    BY <1>1, JoinSame
<1> QED
    BY <1>2, <1>3 DEF LatestOf, Latest

\* The parsed frames, the shape and the two merges, each as a loop over the
\* frames.
LEMMA ParseIsJoin ==
    ASSUME NEW captured \in Seq(Frames)
    PROVE  ParseFrames(captured) = Join(JsonOf, captured) /\ ParseFrames(captured) \in Seq(Frames)
<1> DEFINE g == [k \in DOMAIN captured |-> IF captured[k].kind = "json" THEN <<captured[k]>> ELSE <<>>]
<1>1. \A k \in DOMAIN captured : captured[k] \in Frames
    OBVIOUS
<1>2. DOMAIN g = DOMAIN captured /\ g = [k \in DOMAIN g |-> g[k]]
      /\ \A k \in DOMAIN captured : g[k] = JsonOf[captured[k]]
    BY <1>1 DEF JsonOf
<1>3. ParseFrames(captured) = FlattenSeq(g)
    BY DEF ParseFrames
<1> HIDE DEF g
<1>4. FlattenSeq(g) = Join(JsonOf, captured)
    BY <1>2, JoinSame
<1> QED
    BY <1>3, <1>4, FrameMaps, JoinType

LEMMA ShapeIsJoin ==
    ASSUME NEW frames \in Seq(Frames)
    PROVE  DetectShape(frames) = IF Join(ShapeOf, frames) = <<>> THEN "openai" ELSE Head(Join(ShapeOf, frames))
<1> DEFINE shape(f) == IF f.event # "none" THEN "dsbx" ELSE IF f.choices THEN "openai" ELSE None
           values == [k \in DOMAIN frames |-> shape(frames[k])]
<1>1. \A k \in DOMAIN frames : frames[k] \in Frames
    OBVIOUS
<1>2. ASSUME NEW k \in DOMAIN frames
      PROVE  ShapeOf[frames[k]] = IF shape(frames[k]) = None THEN <<>> ELSE <<shape(frames[k])>>
    BY <1>1, NoneIsNone DEF ShapeOf
<1>3. DOMAIN values = DOMAIN frames
      /\ \A k \in DOMAIN frames : ShapeOf[frames[k]] = IF values[k] = None THEN <<>> ELSE <<values[k]>>
    BY <1>2
<1>4. DetectShape(frames) = IF Given(values) = <<>> THEN "openai" ELSE Head(Given(values))
    BY DEF DetectShape
<1> HIDE DEF values
<1>5. Given(values) = Join(ShapeOf, frames)
    BY <1>3, GivenIsJoin
<1> QED
    BY <1>4, <1>5

LEMMA MergeOpenAIIsJoin ==
    ASSUME NEW frames \in Seq(Frames)
    PROVE  MergeOpenAI(frames) =
              [text |-> Joined(Join(RecsOf, frames)), positions |-> Len(Join(RecsOf, frames)),
               finish |-> Latest(Join(FinishOf, frames)), usage |-> Latest(Join(UsageOf, frames)),
               error |-> FALSE]
<1> DEFINE recs == [k \in DOMAIN frames |-> frames[k].recs]
           finishes == [k \in DOMAIN frames |-> frames[k].finish]
           usages == [k \in DOMAIN frames |-> frames[k].usage]
<1>1. \A k \in DOMAIN frames : frames[k] \in Frames
    OBVIOUS
<1>2. DOMAIN recs = DOMAIN frames /\ recs = [k \in DOMAIN recs |-> recs[k]]
      /\ \A k \in DOMAIN frames : recs[k] = RecsOf[frames[k]]
    BY <1>1 DEF RecsOf
<1>3. DOMAIN finishes = DOMAIN frames
      /\ \A k \in DOMAIN frames : FinishOf[frames[k]] = IF finishes[k] = None THEN <<>> ELSE <<finishes[k]>>
    BY <1>1 DEF FinishOf
<1>4. DOMAIN usages = DOMAIN frames
      /\ \A k \in DOMAIN frames : UsageOf[frames[k]] = IF usages[k] = None THEN <<>> ELSE <<usages[k]>>
    BY <1>1 DEF UsageOf
<1>5. MergeOpenAI(frames) =
          [text |-> Joined(FlattenSeq(recs)), positions |-> Len(FlattenSeq(recs)),
           finish |-> LatestOf(finishes), usage |-> LatestOf(usages), error |-> FALSE]
    BY DEF MergeOpenAI
<1> HIDE DEF recs, finishes, usages
<1>6. FlattenSeq(recs) = Join(RecsOf, frames)
    BY <1>2, JoinSame
<1>7. LatestOf(finishes) = Latest(Join(FinishOf, frames))
    BY <1>3, GivenIsJoin
<1>8. LatestOf(usages) = Latest(Join(UsageOf, frames))
    BY <1>4, GivenIsJoin
<1> QED
    BY <1>5, <1>6, <1>7, <1>8

LEMMA MergeDsbxIsJoin ==
    ASSUME NEW frames \in Seq(Frames)
    PROVE  /\ MergeDsbx(frames).text = Joined(Join(StepRecsOf, frames))
           /\ MergeDsbx(frames).positions = Len(Join(StepRecsOf, frames))
           /\ MergeDsbx(frames).finish = Latest(Join(DoneFinishOf, frames))
           /\ MergeDsbx(frames).usage \in Usages \cup {None}
           /\ MergeDsbx(frames).error = \E k \in DOMAIN frames : frames[k].event = "done" /\ frames[k].error
           /\ MergeDsbx(frames) = [text |-> MergeDsbx(frames).text, positions |-> MergeDsbx(frames).positions,
                                   finish |-> MergeDsbx(frames).finish, usage |-> MergeDsbx(frames).usage,
                                   error |-> MergeDsbx(frames).error]
<1> DEFINE recs == [k \in DOMAIN frames |-> IF frames[k].event = "step" THEN frames[k].recs ELSE <<>>]
           finishes == [k \in DOMAIN frames |-> IF frames[k].event = "done" THEN frames[k].finish ELSE None]
           usages == [k \in DOMAIN frames |-> IF frames[k].event = "usage" THEN frames[k].usage ELSE None]
           UsageEventOf == [f \in Frames |-> IF f.event = "usage" /\ f.usage # None THEN <<f.usage>> ELSE <<>>]
<1>1. \A k \in DOMAIN frames : frames[k] \in Frames
    OBVIOUS
<1>2. DOMAIN recs = DOMAIN frames /\ recs = [k \in DOMAIN recs |-> recs[k]]
      /\ \A k \in DOMAIN frames : recs[k] = StepRecsOf[frames[k]]
    BY <1>1 DEF StepRecsOf
<1>3. DOMAIN finishes = DOMAIN frames
      /\ \A k \in DOMAIN frames : DoneFinishOf[frames[k]] = IF finishes[k] = None THEN <<>> ELSE <<finishes[k]>>
    BY <1>1 DEF DoneFinishOf
<1>4. DOMAIN usages = DOMAIN frames
      /\ \A k \in DOMAIN frames : UsageEventOf[frames[k]] = IF usages[k] = None THEN <<>> ELSE <<usages[k]>>
    BY <1>1
<1>a. Maps(UsageEventOf, Frames, Usages)
    <2>1. \A f \in Frames : f.usage # None => f.usage \in Usages
        BY DEF Frames
    <2>2. <<>> \in Seq(Usages) /\ \A x \in Usages : <<x>> \in Seq(Usages)
        OBVIOUS
    <2> QED
        BY <2>1, <2>2 DEF Maps
<1>5. MergeDsbx(frames) =
          [text |-> Joined(FlattenSeq(recs)), positions |-> Len(FlattenSeq(recs)),
           finish |-> LatestOf(finishes), usage |-> LatestOf(usages),
           error |-> \E k \in DOMAIN frames : frames[k].event = "done" /\ frames[k].error]
    BY DEF MergeDsbx
<1> HIDE DEF recs, finishes, usages, UsageEventOf
<1>6. FlattenSeq(recs) = Join(StepRecsOf, frames)
    BY <1>2, JoinSame
<1>7. LatestOf(finishes) = Latest(Join(DoneFinishOf, frames))
    BY <1>3, GivenIsJoin
<1>8. LatestOf(usages) = Latest(Join(UsageEventOf, frames))
    BY <1>4, GivenIsJoin
<1>9. Latest(Join(UsageEventOf, frames)) \in Usages \cup {None}
    <2>1. Join(UsageEventOf, frames) \in Seq(Usages)
        BY <1>a, JoinType
    <2>2. \A u \in Seq(Usages) : u # <<>> => Last(u) \in Usages
        BY DEF Last
    <2> QED
        BY <2>1, <2>2 DEF Latest
<1> HIDE DEF MergeDsbx
<1> QED
    BY <1>5, <1>6, <1>7, <1>8, <1>9

LEMMA LatestType ==
    /\ \A u \in Seq(Reasons) : Latest(u) \in Reasons \cup {None}
    /\ \A u \in Seq(Usages) : Latest(u) \in Usages \cup {None}
BY DEF Latest, Last

LEMMA JoinedType ==
    ASSUME NEW S, NEW recs \in Seq(Positions(S))
    PROVE  Joined(recs) \in Seq(S) /\ Joined(recs) = Text([k \in DOMAIN recs |-> recs[k].piece])
<1> DEFINE m == [k \in DOMAIN recs |-> recs[k].piece]
<1>1. m \in Seq(S)
    <2>1. DOMAIN recs = 1 .. Len(recs) /\ Len(recs) \in Nat /\ \A k \in 1 .. Len(recs) : recs[k] \in Positions(S)
        OBVIOUS
    <2>2. \A k \in 1 .. Len(recs) : recs[k].piece \in S
        BY <2>1 DEF Positions
    <2> QED
        BY <2>1, <2>2
<1>2. Joined(recs) = Text(m)
    BY DEF Joined
<1> HIDE DEF m
<1>3. Text(m) \in Seq(S)
    BY <1>1, TextLength
<1> QED
    BY <1>2, <1>3 DEF m

LEMMA EntryType ==
    ASSUME NEW a \in Seq(Nat), NEW b \in Nat, NEW c \in Reasons \cup {None},
           NEW d \in Usages \cup {None}, NEW e \in BOOLEAN
    PROVE  [text |-> a, positions |-> b, finish |-> c, usage |-> d, error |-> e] \in Entries
BY DEF Entries

\* An aggregated stream is a log entry, whatever the frames were.
LEMMA MergedType ==
    ASSUME NEW captured \in Seq(Frames)
    PROVE  AggregateStream(captured) \in Entries
<1> DEFINE frames == ParseFrames(captured)
           merged == AggregateStream(captured)
<1>1. frames \in Seq(Frames)
    BY ParseIsJoin
<1>2. merged = IF DetectShape(frames) = "dsbx" THEN MergeDsbx(frames) ELSE MergeOpenAI(frames)
    BY DEF AggregateStream
<1> HIDE DEF frames, merged
<1>4. /\ Join(RecsOf, frames) \in Seq(Positions(Nat)) /\ Join(StepRecsOf, frames) \in Seq(Positions(Nat))
      /\ Join(FinishOf, frames) \in Seq(Reasons) /\ Join(DoneFinishOf, frames) \in Seq(Reasons)
      /\ Join(UsageOf, frames) \in Seq(Usages)
    BY <1>1, FrameMaps, JoinType
<1>5. MergeOpenAI(frames) \in Entries
    <2>1. Joined(Join(RecsOf, frames)) \in Seq(Nat) /\ Len(Join(RecsOf, frames)) \in Nat
        <3>1. Join(RecsOf, frames) \in Seq(Positions(Nat))
            BY <1>4
        <3> QED
            BY <3>1, JoinedType, LenProperties
    <2>2. Latest(Join(FinishOf, frames)) \in Reasons \cup {None}
        BY <1>4, LatestType
    <2>3. Latest(Join(UsageOf, frames)) \in Usages \cup {None}
        BY <1>4, LatestType
    <2> QED
        BY <1>1, <2>1, <2>2, <2>3, MergeOpenAIIsJoin, EntryType
<1>6. MergeDsbx(frames) \in Entries
    <2>1. Joined(Join(StepRecsOf, frames)) \in Seq(Nat) /\ Len(Join(StepRecsOf, frames)) \in Nat
        <3>1. Join(StepRecsOf, frames) \in Seq(Positions(Nat))
            BY <1>4
        <3> QED
            BY <3>1, JoinedType, LenProperties
    <2>2. Latest(Join(DoneFinishOf, frames)) \in Reasons \cup {None}
        BY <1>4, LatestType
    <2>3. (\E k \in DOMAIN frames : frames[k].event = "done" /\ frames[k].error) \in BOOLEAN
        OBVIOUS
    <2> QED
        <3> DEFINE m == MergeDsbx(frames)
        <3>1. /\ m.text \in Seq(Nat) /\ m.positions \in Nat /\ m.finish \in Reasons \cup {None}
              /\ m.usage \in Usages \cup {None} /\ m.error \in BOOLEAN
              /\ m = [text |-> m.text, positions |-> m.positions, finish |-> m.finish,
                      usage |-> m.usage, error |-> m.error]
            BY <1>1, <2>1, <2>2, <2>3, MergeDsbxIsJoin
        <3> HIDE DEF m
        <3>2. m \in Entries
            BY <3>1, EntryType
        <3> QED
            BY <3>2 DEF m
<1>7. merged \in Entries
    BY <1>2, <1>5, <1>6
<1> QED
    BY <1>7 DEF merged

\* The error is all that a stream that broke off adds.
LEMMA StreamedFields ==
    ASSUME NEW captured \in Seq(Frames), NEW broken \in BOOLEAN
    PROVE  /\ StreamedEntry(captured, broken).text = AggregateStream(captured).text
           /\ StreamedEntry(captured, broken).positions = AggregateStream(captured).positions
           /\ StreamedEntry(captured, broken).finish = AggregateStream(captured).finish
           /\ StreamedEntry(captured, broken).error <=> AggregateStream(captured).error \/ broken
           /\ StreamedEntry(captured, broken) \in Entries
<1> DEFINE m == AggregateStream(captured)
<1>1. m \in Entries /\ StreamedEntry(captured, broken) = [m EXCEPT !.error = @ \/ broken]
    BY MergedType DEF StreamedEntry
<1> HIDE DEF m
<1>2. /\ [m EXCEPT !.error = @ \/ broken] \in Entries
      /\ [m EXCEPT !.error = @ \/ broken].text = m.text
      /\ [m EXCEPT !.error = @ \/ broken].positions = m.positions
      /\ [m EXCEPT !.error = @ \/ broken].finish = m.finish
    BY <1>1 DEF Entries
<1>3. [m EXCEPT !.error = @ \/ broken].error <=> m.error \/ broken
    BY <1>1, Zenon DEF Entries
<1> QED
    BY <1>1, <1>2, <1>3 DEF m

LEMMA AggregateType ==
    ASSUME NEW captured \in Seq(Frames), NEW broken \in BOOLEAN
    PROVE  StreamedEntry(captured, broken) \in Entries
BY StreamedFields

\* A frame of a provider and one of a GPU host.
ProviderFrame(f) ==
    /\ f.event = "none"
    /\ f.kind # "json" => f.recs = <<>> /\ f.finish = None /\ f.usage = None
    /\ f.kind = "done" => ~f.error
\* The frames of a GPU host.
HostFrame(f) ==
    /\ f.kind # "done" /\ ~f.choices
    /\ f.event # "step" => f.recs = <<>>
    /\ f.kind # "json" => f.event = "none"

\* A loop that takes nothing from the frames that are not JSON may run over the
\* raw frames.
LEMMA ThroughJson ==
    ASSUME NEW T, NEW f, Maps(f, Frames, T), NEW w \in Seq(Frames),
           \A k \in DOMAIN w : w[k].kind # "json" => f[w[k]] = <<>>
    PROVE  Join(f, ParseFrames(w)) = Join(f, w)
<1> DEFINE g == [x \in Frames |-> Join(f, JsonOf[x])]
<1>1. ParseFrames(w) = Join(JsonOf, w)
    BY ParseIsJoin
<1>2. Join(f, Join(JsonOf, w)) = Join(g, w)
    BY FrameMaps, JoinJoin
<1>3. ASSUME NEW k \in DOMAIN w PROVE g[w[k]] = f[w[k]]
    <2>1. w[k] \in Frames
        OBVIOUS
    <2>2. JsonOf[w[k]] = IF w[k].kind = "json" THEN <<w[k]>> ELSE <<>>
        BY <2>1 DEF JsonOf
    <2>3. Join(f, <<w[k]>>) = f[w[k]]
        BY <2>1, JoinOne
    <2>4. Join(f, <<>>) = <<>>
        BY JoinEmpty
    <2>5. g[w[k]] = Join(f, JsonOf[w[k]])
        BY <2>1
    <2> HIDE DEF g
    <2> QED
        BY <2>2, <2>3, <2>4, <2>5
<1> HIDE DEF g
<1>4. Join(g, w) = Join(f, w)
    BY <1>3, JoinAgree
<1> QED
    BY <1>1, <1>2, <1>4

LEMMA HeadIsElement ==
    ASSUME NEW T, NEW u \in Seq(T), u # <<>>
    PROVE  Head(u) \in ToSet(u)
<1>1. 1 \in DOMAIN u /\ Head(u) = u[1]
    OBVIOUS
<1> QED
    BY <1>1 DEF ToSet

\* The frames parsed are some of those captured.
LEMMA ParsedFrames ==
    ASSUME NEW w \in Seq(Frames)
    PROVE  ToSet(ParseFrames(w)) = {f \in ToSet(w) : f.kind = "json"}
<1>1. ToSet(ParseFrames(w)) = UNION {ToSet(JsonOf[f]) : f \in ToSet(w)}
    BY ParseIsJoin, FrameMaps, JoinElements
<1>2. \A k \in DOMAIN w : w[k] \in Frames
    OBVIOUS
<1>3. \A f \in ToSet(w) : f \in Frames
    BY <1>2 DEF ToSet
<1>4. \A f \in ToSet(w) : ToSet(JsonOf[f]) = IF f.kind = "json" THEN {f} ELSE {}
    BY <1>3, ElementsOf DEF JsonOf
<1>5. \A f \in ToSet(w) : f.kind = "json" => f \in UNION {ToSet(JsonOf[x]) : x \in ToSet(w)}
    BY <1>4
<1>6. ASSUME NEW f \in UNION {ToSet(JsonOf[x]) : x \in ToSet(w)} PROVE f \in ToSet(w) /\ f.kind = "json"
    <2>1. PICK x \in ToSet(w) : f \in ToSet(JsonOf[x])
        BY <1>6
    <2> QED
        BY <1>4, <2>1
<1> QED
    BY <1>1, <1>5, <1>6

\* The shape is decided by a frame that is there.
LEMMA ShapeElements ==
    ASSUME NEW w \in Seq(Frames)
    PROVE  /\ Join(ShapeOf, ParseFrames(w)) \in Seq({"dsbx", "openai"})
           /\ \A x \in ToSet(Join(ShapeOf, ParseFrames(w))) : \E f \in ToSet(w) : x \in ToSet(ShapeOf[f]) /\ f \in Frames
<1> DEFINE frames == ParseFrames(w)
<1>1. frames \in Seq(Frames)
    BY ParseIsJoin
<1>2. ToSet(frames) \subseteq ToSet(w)
    BY ParsedFrames
<1>5. \A k \in DOMAIN frames : frames[k] \in Frames
    BY <1>1
<1>6. \A f \in ToSet(frames) : f \in Frames
    BY <1>5 DEF ToSet
<1> HIDE DEF frames
<1>3. ToSet(Join(ShapeOf, frames)) = UNION {ToSet(ShapeOf[f]) : f \in ToSet(frames)}
    BY <1>1, FrameMaps, JoinElements
<1>4. Join(ShapeOf, frames) \in Seq({"dsbx", "openai"})
    BY <1>1, FrameMaps, JoinType
<1> QED
    BY <1>2, <1>3, <1>4, <1>6 DEF frames

\* Of a provider's frames the entry has all positions, the last finish_reason
\* and the last usage.
LEMMA AggregateOfProvider ==
    ASSUME NEW w \in Seq(Frames), \A k \in DOMAIN w : ProviderFrame(w[k])
    PROVE  AggregateStream(w) =
              [text |-> Joined(Join(RecsOf, w)), positions |-> Len(Join(RecsOf, w)),
               finish |-> Latest(Join(FinishOf, w)), usage |-> Latest(Join(UsageOf, w)),
               error |-> FALSE]
<1> DEFINE frames == ParseFrames(w)
           shapes == Join(ShapeOf, frames)
<1>1. frames \in Seq(Frames)
    BY ParseIsJoin
<1>2. \A f \in ToSet(w) : f.event = "none"
    BY DEF ProviderFrame, ToSet
<1>3. DetectShape(frames) # "dsbx"
    <2>1. DetectShape(frames) = IF shapes = <<>> THEN "openai" ELSE Head(shapes)
        BY <1>1, ShapeIsJoin
    <2>2. \A f \in Frames : f.event = "none" => ToSet(ShapeOf[f]) \subseteq {"openai"}
        BY ElementsOf DEF ShapeOf
    <2>3. shapes \in Seq({"dsbx", "openai"}) /\ "dsbx" \notin ToSet(shapes)
        BY <1>2, <2>2, ShapeElements
    <2> HIDE DEF shapes, frames
    <2>4. shapes # <<>> => Head(shapes) \in ToSet(shapes)
        BY <2>3, HeadIsElement
    <2> QED
        BY <2>1, <2>3, <2>4
<1>4. AggregateStream(w) = MergeOpenAI(frames)
    BY <1>3 DEF AggregateStream
<1>5. \A k \in DOMAIN w : w[k] \in Frames
    OBVIOUS
<1>6. \A k \in DOMAIN w : w[k].kind # "json" =>
          RecsOf[w[k]] = <<>> /\ FinishOf[w[k]] = <<>> /\ UsageOf[w[k]] = <<>>
    BY <1>5 DEF ProviderFrame, RecsOf, FinishOf, UsageOf
<1>7. Join(RecsOf, frames) = Join(RecsOf, w)
    BY <1>6, FrameMaps, ThroughJson
<1>8. Join(FinishOf, frames) = Join(FinishOf, w)
    BY <1>6, FrameMaps, ThroughJson
<1>9. Join(UsageOf, frames) = Join(UsageOf, w)
    BY <1>6, FrameMaps, ThroughJson
<1> HIDE DEF frames
<1> QED
    BY <1>1, <1>4, <1>7, <1>8, <1>9, MergeOpenAIIsJoin

\* Of a host's frames the entry has the positions of all steps, and what the
\* done event says.
LEMMA AggregateOfHost ==
    ASSUME NEW w \in Seq(Frames), \A k \in DOMAIN w : HostFrame(w[k])
    PROVE  /\ AggregateStream(w).text = Joined(Join(RecsOf, w))
           /\ AggregateStream(w).positions = Len(Join(RecsOf, w))
           /\ \A d \in Frames : Join(DoneOf, w) = <<d>> =>
                 AggregateStream(w).finish = d.finish /\ AggregateStream(w).error = d.error
<1> DEFINE frames == ParseFrames(w)
           shapes == Join(ShapeOf, frames)
<1>1. frames \in Seq(Frames) /\ ToSet(frames) = {f \in ToSet(w) : f.kind = "json"}
    BY ParseIsJoin, ParsedFrames
<1>2. \A k \in DOMAIN w : w[k] \in Frames /\ w[k] \in ToSet(w)
    BY DEF ToSet
<1>3. \A f \in ToSet(w) : f \in Frames /\ HostFrame(f)
    BY <1>2 DEF ToSet
<1>4. \A k \in DOMAIN w : w[k].kind # "json" =>
          /\ RecsOf[w[k]] = <<>> /\ StepRecsOf[w[k]] = <<>>
          /\ DoneOf[w[k]] = <<>> /\ DoneFinishOf[w[k]] = <<>>
    BY <1>2 DEF HostFrame, RecsOf, StepRecsOf, DoneOf, DoneFinishOf
<1>5. Join(RecsOf, frames) = Join(RecsOf, w)
    BY <1>4, FrameMaps, ThroughJson
<1>6. Join(StepRecsOf, frames) = Join(StepRecsOf, w)
    BY <1>4, FrameMaps, ThroughJson
<1>7. Join(DoneOf, frames) = Join(DoneOf, w)
    BY <1>4, FrameMaps, ThroughJson
<1>8. Join(DoneFinishOf, frames) = Join(DoneFinishOf, w)
    BY <1>4, FrameMaps, ThroughJson
<1>9. Join(StepRecsOf, w) = Join(RecsOf, w)
    <2>1. \A k \in DOMAIN w : StepRecsOf[w[k]] = RecsOf[w[k]]
        BY <1>2 DEF StepRecsOf, RecsOf, HostFrame
    <2> QED
        BY <2>1, JoinAgree
<1>10. Join(DoneFinishOf, w) = Join(FinishOf, Join(DoneOf, w))
    <2> DEFINE g == [f \in Frames |-> Join(FinishOf, DoneOf[f])]
    <2>1. Join(FinishOf, Join(DoneOf, w)) = Join(g, w)
        BY FrameMaps, JoinJoin
    <2>2. ASSUME NEW k \in DOMAIN w PROVE g[w[k]] = DoneFinishOf[w[k]]
        <3>1. g[w[k]] = Join(FinishOf, DoneOf[w[k]])
            BY <1>2
        <3> HIDE DEF g
        <3>2. Join(FinishOf, <<w[k]>>) = FinishOf[w[k]] /\ Join(FinishOf, <<>>) = <<>>
            BY <1>2, FrameMaps, JoinOne, JoinEmpty
        <3>3. /\ DoneOf[w[k]] = IF w[k].event = "done" THEN <<w[k]>> ELSE <<>>
              /\ FinishOf[w[k]] = IF w[k].finish = None THEN <<>> ELSE <<w[k].finish>>
              /\ DoneFinishOf[w[k]] = IF w[k].event = "done" /\ w[k].finish # None THEN <<w[k].finish>> ELSE <<>>
            BY <1>2 DEF DoneOf, FinishOf, DoneFinishOf
        <3>4. CASE w[k].event = "done"
            BY <3>1, <3>2, <3>3, <3>4
        <3>5. CASE w[k].event # "done"
            BY <3>1, <3>2, <3>3, <3>5
        <3> QED
            BY <3>4, <3>5
    <2> HIDE DEF g
    <2>3. Join(g, w) = Join(DoneFinishOf, w)
        BY <2>2, JoinAgree
    <2> QED
        BY <2>1, <2>3
<1>11. /\ AggregateStream(w) = IF DetectShape(frames) = "dsbx" THEN MergeDsbx(frames) ELSE MergeOpenAI(frames)
       /\ DetectShape(frames) = IF shapes = <<>> THEN "openai" ELSE Head(shapes)
    BY <1>1, ShapeIsJoin DEF AggregateStream
<1>12. shapes # <<>> => Head(shapes) = "dsbx"
    <2>1. \A f \in Frames : HostFrame(f) => ToSet(ShapeOf[f]) \subseteq {"dsbx"}
        BY ElementsOf DEF ShapeOf, HostFrame
    <2>2. shapes \in Seq({"dsbx", "openai"}) /\ "openai" \notin ToSet(shapes)
        BY <1>3, <2>1, ShapeElements
    <2> HIDE DEF shapes, frames
    <2>3. shapes # <<>> => Head(shapes) \in ToSet(shapes)
        BY <2>2, HeadIsElement
    <2>4. ToSet(shapes) \subseteq {"dsbx", "openai"}
        BY <2>2 DEF ToSet
    <2> QED
        BY <2>2, <2>3, <2>4
<1>13. shapes = <<>> => Join(DoneOf, frames) = <<>>
    <2> HIDE DEF frames
    <2>1. shapes = <<>> => \A k \in DOMAIN frames : ShapeOf[frames[k]] = <<>>
        BY <1>1, FrameMaps, NothingJoined
    <2>2. \A k \in DOMAIN frames : ShapeOf[frames[k]] = <<>> => DoneOf[frames[k]] = <<>>
        BY <1>1 DEF ShapeOf, DoneOf
    <2>3. (\A k \in DOMAIN frames : DoneOf[frames[k]] = <<>>) => Join(DoneOf, frames) = <<>>
        BY <1>1, FrameMaps, NothingJoined
    <2> QED
        BY <2>1, <2>2, <2>3
<1> HIDE DEF frames, shapes
<1>14. CASE shapes = <<>>
    <2>1. AggregateStream(w) = MergeOpenAI(frames)
        BY <1>11, <1>14
    <2>2. /\ MergeOpenAI(frames).text = Joined(Join(RecsOf, frames))
          /\ MergeOpenAI(frames).positions = Len(Join(RecsOf, frames))
        BY <1>1, MergeOpenAIIsJoin
    <2>3. \A d : Join(DoneOf, w) # <<d>>
        BY <1>7, <1>13, <1>14
    <2> QED
        BY <1>5, <2>1, <2>2, <2>3
<1>15. CASE shapes # <<>>
    <2>1. AggregateStream(w) = MergeDsbx(frames)
        BY <1>11, <1>12, <1>15
    <2>2. /\ MergeDsbx(frames).text = Joined(Join(RecsOf, w))
          /\ MergeDsbx(frames).positions = Len(Join(RecsOf, w))
        BY <1>1, <1>6, <1>9, MergeDsbxIsJoin
    <2>3. ASSUME NEW d \in Frames, Join(DoneOf, w) = <<d>>
          PROVE  MergeDsbx(frames).finish = d.finish /\ MergeDsbx(frames).error = d.error
        <3>1. Join(FinishOf, <<d>>) = FinishOf[d]
            BY FrameMaps, JoinOne
        <3>2. MergeDsbx(frames).finish = Latest(FinishOf[d])
            BY <1>1, <1>8, <1>10, <2>3, <3>1, MergeDsbxIsJoin
        <3>3. Latest(FinishOf[d]) = d.finish
            BY DEF Latest, FinishOf, Last
        <3>4. ToSet(Join(DoneOf, frames)) = UNION {ToSet(DoneOf[f]) : f \in ToSet(frames)}
            BY <1>1, FrameMaps, JoinElements
        <3>5. ToSet(Join(DoneOf, frames)) = {d}
            BY <1>7, <2>3, ElementsOf
        <3>6. \A f \in ToSet(frames) : ToSet(DoneOf[f]) = IF f.event = "done" THEN {f} ELSE {}
            BY <1>1, <1>3, ElementsOf DEF DoneOf
        <3>7. \A f \in ToSet(frames) : f.event = "done" => f = d
            <4> SUFFICES ASSUME NEW f \in ToSet(frames), f.event = "done" PROVE f = d
                OBVIOUS
            <4>1. f \in ToSet(DoneOf[f])
                BY <3>6
            <4>2. f \in UNION {ToSet(DoneOf[x]) : x \in ToSet(frames)}
                BY <4>1
            <4> QED
                BY <3>4, <3>5, <4>2
        <3>8. d \in ToSet(frames) /\ d.event = "done"
            <4>1. PICK f \in ToSet(frames) : d \in ToSet(DoneOf[f])
                <5>1. d \in UNION {ToSet(DoneOf[x]) : x \in ToSet(frames)}
                    BY <3>4, <3>5
                <5> QED
                    BY <5>1
            <4> QED
                BY <3>6, <4>1
        <3>9. \A k \in DOMAIN frames : frames[k] \in ToSet(frames)
            BY DEF ToSet
        <3>10. PICK k \in DOMAIN frames : frames[k] = d
            BY <3>8 DEF ToSet
        <3>11. MergeDsbx(frames).error = \E j \in DOMAIN frames : frames[j].event = "done" /\ frames[j].error
            BY <1>1, MergeDsbxIsJoin
        <3>12. d.error \in BOOLEAN
            BY DEF Frames
        <3>13. (\E j \in DOMAIN frames : frames[j].event = "done" /\ frames[j].error) <=> d.error
            <4>1. ASSUME NEW j \in DOMAIN frames, frames[j].event = "done", frames[j].error PROVE d.error
                BY <3>7, <3>9, <4>1
            <4>2. d.error => frames[k].event = "done" /\ frames[k].error
                BY <3>8, <3>10
            <4> QED
                BY <4>1, <4>2
        <3> QED
            BY <3>2, <3>3, <3>11, <3>12, <3>13
    <2> QED
        BY <2>1, <2>2, <2>3
<1> QED
    BY <1>14, <1>15

-----------------------------------------------------------------------------
(***************************************************************************)
(* Instances: interning, tokenize, detokenize and learn.                   *)
(***************************************************************************)
Insts == [tokenizer : {"untried", "ready", "absent"}, interned : Seq(Seq(Nat)), known : SUBSET Nat]

\* An instance forgets nothing of what it has learned.
Grows(i, j) ==
    /\ j.tokenizer = i.tokenizer /\ i.known \subseteq j.known
    /\ \E t \in Seq(Seq(Nat)) : j.interned = i.interned \o t

\* An instance is at most as far as itself, and so on in a chain.
LEMMA GrowsOrder ==
    /\ \A i \in Insts : Grows(i, i)
    /\ \A i, j, k \in Insts : Grows(i, j) /\ Grows(j, k) => Grows(i, k)
<1>1. ASSUME NEW i \in Insts PROVE Grows(i, i)
    <2>1. i.interned \in Seq(Seq(Nat))
        BY DEF Insts
    <2>2. i.interned = i.interned \o <<>> /\ <<>> \in Seq(Seq(Nat))
        BY <2>1, ConcatEmptySeq
    <2> QED
        BY <2>2 DEF Grows
<1>2. ASSUME NEW i \in Insts, NEW j \in Insts, NEW k \in Insts, Grows(i, j), Grows(j, k)
      PROVE  Grows(i, k)
    <2>1. PICK t \in Seq(Seq(Nat)) : j.interned = i.interned \o t
        BY <1>2 DEF Grows
    <2>2. PICK u \in Seq(Seq(Nat)) : k.interned = j.interned \o u
        BY <1>2 DEF Grows
    <2>3. i.interned \in Seq(Seq(Nat))
        BY DEF Insts
    <2>4. k.interned = i.interned \o (t \o u) /\ t \o u \in Seq(Seq(Nat))
        <3> DEFINE a == i.interned
        <3>1. a \in Seq(Seq(Nat)) /\ k.interned = (a \o t) \o u
            BY <2>1, <2>2, <2>3
        <3> HIDE DEF a
        <3>2. Associative(Seq(Nat))
            BY ConcatIsAssociative, Zenon
        <3>3. (a \o t) \o u = a \o (t \o u)
            BY <3>1, <3>2, Zenon DEF Associative
        <3>4. t \o u \in Seq(Seq(Nat))
            BY ConcatProperties
        <3> QED
            BY <3>1, <3>3, <3>4 DEF a
    <2>5. k.tokenizer = i.tokenizer /\ i.known \subseteq k.known
        BY <1>2 DEF Grows
    <2> QED
        BY <2>4, <2>5 DEF Grows
<1> QED
    BY <1>1, <1>2

\* Interning forgets nothing, keeps what each id stands for, and has every text
\* in the end.
LEMMA InternGrows ==
    ASSUME NEW i \in Insts, NEW texts \in Seq(Seq(Nat))
    PROVE  /\ Intern(i, texts) \in Insts /\ Grows(i, Intern(i, texts))
           /\ Intern(i, texts).known = i.known
           /\ ToSet(texts) \subseteq ToSet(Intern(i, texts).interned)
<1> DEFINE g == [k \in DOMAIN texts |->
                    IF Contains(i.interned, texts[k]) \/ \E j \in 1 .. k - 1 : texts[j] = texts[k]
                    THEN <<>> ELSE <<texts[k]>>]
           new == FlattenSeq(g)
<1>1. Intern(i, texts) = [i EXCEPT !.interned = @ \o new]
    BY DEF Intern
<1>2. g \in Seq(Seq(Seq(Nat)))
    <2>1. DOMAIN texts = 1 .. Len(texts) /\ Len(texts) \in Nat /\ \A k \in 1 .. Len(texts) : texts[k] \in Seq(Nat)
        OBVIOUS
    <2>2. \A T : \A x \in T : <<x>> \in Seq(T) /\ <<>> \in Seq(T)
        OBVIOUS
    <2>3. \A k \in 1 .. Len(texts) : g[k] \in Seq(Seq(Nat))
        BY <2>1, <2>2
    <2>4. g = [k \in 1 .. Len(texts) |-> g[k]]
        BY <2>1
    <2> HIDE DEF g
    <2> QED
        BY <2>1, <2>3, <2>4
<1>3. \A k \in DOMAIN texts : g[k] = IF Contains(i.interned, texts[k]) \/ \E j \in 1 .. k - 1 : texts[j] = texts[k]
                                     THEN <<>> ELSE <<texts[k]>>
    OBVIOUS
<1>4. DOMAIN g = DOMAIN texts
    OBVIOUS
<1> HIDE DEF g
<1>5. new \in Seq(Seq(Nat))
    BY <1>2, FlattenType
<1>6. ToSet(new) = UNION {ToSet(g[k]) : k \in DOMAIN g}
    BY <1>2, FlattenElements
<1> HIDE DEF new
<1>7. i.interned \in Seq(Seq(Nat))
    BY DEF Insts
<1>8. i.interned \o new \in Seq(Seq(Nat))
    BY <1>5, <1>7, ConcatProperties
<1>9. Intern(i, texts) \in Insts
    BY <1>1, <1>8 DEF Insts
<1>10. /\ Intern(i, texts).known = i.known /\ Intern(i, texts).tokenizer = i.tokenizer
       /\ Intern(i, texts).interned = i.interned \o new
    BY <1>1 DEF Insts
<1>11. Grows(i, Intern(i, texts))
    BY <1>5, <1>10 DEF Grows
<1>12. ToSet(i.interned \o new) = ToSet(i.interned) \cup ToSet(new)
    BY <1>5, <1>7, ElementsOf
<1>13. ASSUME NEW x \in ToSet(texts) PROVE x \in ToSet(i.interned) \cup ToSet(new)
    <2> DEFINE T == {k \in DOMAIN texts : texts[k] = x}
    <2>1. DOMAIN texts = 1 .. Len(texts) /\ Len(texts) \in Nat
        OBVIOUS
    <2>2. T \subseteq Nat /\ T # {}
        BY <1>13, <2>1 DEF ToSet
    <2>3. PICK m \in T : \A k \in T : ~(k < m)
        BY <2>2, Least
    <2>4. m \in DOMAIN texts /\ texts[m] = x /\ m \in Nat
        BY <2>2
    <2>5. \A j \in 1 .. m - 1 : texts[j] # texts[m]
        <3> SUFFICES ASSUME NEW j \in 1 .. m - 1, texts[j] = texts[m] PROVE FALSE
            OBVIOUS
        <3>1. j \in DOMAIN texts /\ j < m
            BY <2>1, <2>4
        <3> QED
            BY <2>3, <2>4, <3>1
    <2>6. CASE Contains(i.interned, texts[m])
        <3>1. DOMAIN i.interned = 1 .. Len(i.interned)
            BY <1>7
        <3> QED
            BY <2>4, <2>6, <3>1 DEF Contains, ToSet
    <2>7. CASE ~Contains(i.interned, texts[m])
        <3>1. g[m] = <<x>>
            BY <1>3, <2>4, <2>5, <2>7
        <3>2. x \in ToSet(g[m])
            BY <3>1, ElementsOf
        <3>3. ToSet(g[m]) \subseteq UNION {ToSet(g[k]) : k \in DOMAIN g}
            BY <1>4, <2>4
        <3> QED
            BY <1>6, <3>2, <3>3
    <2> QED
        BY <2>6, <2>7
<1> QED
    BY <1>9, <1>10, <1>11, <1>12, <1>13

\* The id made up for a text stands for it.
LEMMA InternedIdNames ==
    ASSUME NEW i \in Insts, NEW text \in ToSet(i.interned)
    PROVE  /\ InternedId(i, text) \in Nat /\ InternedId(i, text) >= InternBase
           /\ IdToText(i, InternedId(i, text)) = text
<1>1. i.interned \in Seq(Seq(Nat)) /\ DOMAIN i.interned = 1 .. Len(i.interned) /\ Len(i.interned) \in Nat
    BY DEF Insts
<1> DEFINE k == CHOOSE k \in DOMAIN i.interned : i.interned[k] = text
<1>2. k \in DOMAIN i.interned /\ i.interned[k] = text
    BY DEF ToSet
<1>3. InternedId(i, text) = InternBase + k - 1
    BY DEF InternedId
<1> HIDE DEF k
<1>4. InternBase \in Nat
    BY CallAssumption
<1>5. /\ InternedId(i, text) \in Nat /\ InternedId(i, text) >= InternBase
      /\ InternedId(i, text) - InternBase + 1 = k /\ InternedId(i, text) - InternBase < Len(i.interned)
    BY <1>1, <1>2, <1>3, <1>4
<1> QED
    BY <1>2, <1>4, <1>5 DEF IdToText

\* What an id stands for is a text.
LEMMA TextOfIdType ==
    ASSUME NEW i \in Insts, NEW id \in Nat
    PROVE  TextOfId(i, id) \in Seq(Nat)
<1>1. i.interned \in Seq(Seq(Nat)) /\ InternBase \in Nat
    BY CallAssumption DEF Insts
<1>2. <<>> \in Seq(Nat) /\ <<id>> \in Seq(Nat)
    OBVIOUS
<1>3. id >= InternBase /\ id - InternBase < Len(i.interned) => i.interned[id - InternBase + 1] \in Seq(Nat)
    BY <1>1
<1> QED
    BY <1>1, <1>2, <1>3 DEF TextOfId, IdToText

\* An id that stands for a piece stands for it in every later instance: the
\* table only grows at its end.
LEMMA NamesStay ==
    ASSUME NEW i \in Insts, NEW j \in Insts, Grows(i, j), NEW id \in Nat, NEW x, TextOfId(i, id) = <<x>>
    PROVE  TextOfId(j, id) = <<x>>
<1>1. PICK t \in Seq(Seq(Nat)) : j.interned = i.interned \o t
    BY DEF Grows
<1>2. i.interned \in Seq(Seq(Nat)) /\ InternBase \in Nat
    BY CallAssumption DEF Insts
<1>3. <<>> # <<x>>
    OBVIOUS
<1>4. j.tokenizer = i.tokenizer /\ i.known \subseteq j.known /\ (Ready(i) <=> Ready(j))
    BY DEF Grows, Ready
<1>5. CASE Ready(i)
    BY <1>4, <1>5 DEF TextOfId
<1>6. CASE ~Ready(i) /\ id < InternBase
    BY <1>3, <1>4, <1>6 DEF TextOfId, IdToText
<1>7. CASE ~Ready(i) /\ ~(id < InternBase)
    <2> DEFINE a == i.interned
               n == id - InternBase + 1
    <2>1. a \in Seq(Seq(Nat)) /\ Len(a) \in Nat
        BY <1>2
    <2>2. n - 1 < Len(a) /\ n \in Nat /\ n # 0 /\ a[n] = <<x>>
        <3>1. IdToText(i, id) = <<x>>
            BY <1>7 DEF TextOfId
        <3>2. IdToText(i, id) = IF id - InternBase < Len(a) THEN a[n] ELSE <<>>
            BY <1>7 DEF IdToText
        <3>3. id - InternBase < Len(a) /\ a[n] = <<x>>
            BY <1>3, <3>1, <3>2
        <3>4. n \in Nat /\ n # 0 /\ n - 1 = id - InternBase
            BY <1>2, <1>7
        <3> QED
            BY <3>3, <3>4
    <2>3. j.interned = a \o t
        BY <1>1
    <2> HIDE DEF a
    <2>4. (a \o t)[n] = a[n] /\ n - 1 < Len(a \o t)
        BY <2>1, <2>2
    <2> QED
        BY <1>2, <1>4, <1>7, <2>2, <2>3, <2>4 DEF TextOfId, IdToText
<1> QED
    BY <1>5, <1>6, <1>7

\* Detokenizing is a loop over the ids.
TextsOf(i) == [id \in Nat |-> TextOfId(i, id)]

LEMMA DetokenizeIsJoin ==
    ASSUME NEW i \in Insts
    PROVE  /\ Maps(TextsOf(i), Nat, Nat)
           /\ \A ids \in Seq(Nat) : Detokenize(i, ids) = Join(TextsOf(i), ids) /\ Detokenize(i, ids) \in Seq(Nat)
<1>1. Maps(TextsOf(i), Nat, Nat)
    BY TextOfIdType DEF Maps, TextsOf
<1>2. ASSUME NEW ids \in Seq(Nat) PROVE Detokenize(i, ids) = Join(TextsOf(i), ids)
    <2> DEFINE g == [k \in DOMAIN ids |-> TextOfId(i, ids[k])]
    <2>1. \A k \in DOMAIN ids : ids[k] \in Nat
        OBVIOUS
    <2>2. DOMAIN g = DOMAIN ids /\ g = [k \in DOMAIN g |-> g[k]] /\ \A k \in DOMAIN ids : g[k] = TextsOf(i)[ids[k]]
        BY <2>1 DEF TextsOf
    <2>3. Detokenize(i, ids) = FlattenSeq(g)
        BY DEF Detokenize
    <2> HIDE DEF g
    <2> QED
        BY <2>2, <2>3, JoinSame
<1> QED
    BY <1>1, <1>2, JoinType

\* The text of two sequences of ids is their texts, in their order.
LEMMA DetokenizeConcat ==
    ASSUME NEW i \in Insts
    PROVE  /\ Detokenize(i, <<>>) = <<>>
           /\ \A id \in Nat : Detokenize(i, <<id>>) = TextOfId(i, id)
           /\ \A s, t \in Seq(Nat) : Detokenize(i, s \o t) = Detokenize(i, s) \o Detokenize(i, t)
<1>1. Maps(TextsOf(i), Nat, Nat)
    BY DetokenizeIsJoin
<1>2. Detokenize(i, <<>>) = <<>>
    <2>1. <<>> \in Seq(Nat)
        OBVIOUS
    <2> QED
        BY <2>1, DetokenizeIsJoin, JoinEmpty
<1>3. ASSUME NEW id \in Nat PROVE Detokenize(i, <<id>>) = TextOfId(i, id)
    <2>1. <<id>> \in Seq(Nat)
        OBVIOUS
    <2>2. Join(TextsOf(i), <<id>>) = TextsOf(i)[id]
        BY <1>1, JoinOne
    <2> QED
        BY <2>1, <2>2, DetokenizeIsJoin DEF TextsOf
<1>4. ASSUME NEW s \in Seq(Nat), NEW t \in Seq(Nat)
      PROVE  Detokenize(i, s \o t) = Detokenize(i, s) \o Detokenize(i, t)
    <2>1. s \o t \in Seq(Nat)
        OBVIOUS
    <2>2. Join(TextsOf(i), s \o t) = Join(TextsOf(i), s) \o Join(TextsOf(i), t)
        BY <1>1, JoinConcat
    <2> QED
        BY <2>1, <2>2, DetokenizeIsJoin
<1> QED
    BY <1>2, <1>3, <1>4

\* The text of ids that stand for some pieces.
LEMMA DetokenizeNames ==
    ASSUME NEW i \in Insts, NEW ids \in Seq(Nat), NEW pieces \in Seq(Nat), Len(pieces) = Len(ids),
           \A k \in DOMAIN ids : TextOfId(i, ids[k]) = <<pieces[k]>>
    PROVE  Detokenize(i, ids) = pieces
<1>1. \A k \in DOMAIN ids : ids[k] \in Nat
    OBVIOUS
<1>2. \A k \in DOMAIN ids : TextsOf(i)[ids[k]] = <<pieces[k]>>
    BY <1>1 DEF TextsOf
<1>3. Join(TextsOf(i), ids) = pieces
    BY <1>2, DetokenizeIsJoin, JoinSingles
<1> QED
    BY <1>3, DetokenizeIsJoin

\* An instance can give the ids of a text.
Knows(i, text) == Ready(i) \/ text \in ToSet(i.interned)

\* After tokenize the instance knows the text.
LEMMA TokenizedKnows ==
    ASSUME NEW i \in Insts, NEW text \in Seq(Nat)
    PROVE  /\ Tokenized(i, text) \in Insts /\ Grows(i, Tokenized(i, text))
           /\ Knows(Tokenized(i, text), text)
           /\ Tokenized(i, text).known = i.known
<1>1. <<text>> \in Seq(Seq(Nat)) /\ ToSet(<<text>>) = {text}
    BY ElementsOf
<1>2. CASE Ready(i)
    BY <1>2, GrowsOrder DEF Tokenized, Knows
<1>3. CASE ~Ready(i)
    BY <1>1, <1>3, InternGrows DEF Tokenized, Knows
<1> QED
    BY <1>2, <1>3

\* What was known is known later.
LEMMA KnowsStays ==
    ASSUME NEW i \in Insts, NEW j \in Insts, Grows(i, j), NEW text, Knows(i, text)
    PROVE  Knows(j, text)
<1>1. PICK t \in Seq(Seq(Nat)) : j.interned = i.interned \o t
    BY DEF Grows
<1>2. i.interned \in Seq(Seq(Nat))
    BY DEF Insts
<1>3. ToSet(i.interned \o t) = ToSet(i.interned) \cup ToSet(t)
    BY <1>2, ElementsOf
<1> QED
    BY <1>1, <1>3 DEF Knows, Ready, Grows

\* Of a known text detokenize undoes tokenize: what makes a prompt that was
\* shown the prompt that is sent.
LEMMA TokenizeInverse ==
    ASSUME NEW i \in Insts, NEW text \in Seq(Nat), Knows(i, text)
    PROVE  /\ Tokenize(i, text) \in Seq(Nat)
           /\ text \in Seq(Tokens) => Detokenize(i, Tokenize(i, text)) = text
<1>1. CASE Ready(i)
    <2>1. Tokenize(i, text) = text
        BY <1>1 DEF Tokenize
    <2>2. ASSUME text \in Seq(Tokens) PROVE \A k \in DOMAIN text : TextOfId(i, text[k]) = <<text[k]>>
        <3>1. \A k \in DOMAIN text : text[k] < InternBase
            BY <2>2, CallAssumption DEF Tokens
        <3> QED
            BY <1>1, <3>1 DEF TextOfId
    <2>3. text \in Seq(Tokens) => Detokenize(i, text) = text
        BY <2>2, DetokenizeNames
    <2> QED
        BY <2>1, <2>3
<1>2. CASE ~Ready(i)
    <2> DEFINE id == InternedId(i, text)
    <2>1. Tokenize(i, text) = <<id>>
        BY <1>2 DEF Tokenize
    <2>2. text \in ToSet(i.interned)
        BY <1>2 DEF Knows
    <2>3. id \in Nat /\ id >= InternBase /\ IdToText(i, id) = text
        BY <2>2, InternedIdNames
    <2> HIDE DEF id
    <2>4. TextOfId(i, id) = text
        BY <1>2, <2>3 DEF TextOfId
    <2>5. Detokenize(i, <<id>>) = text
        BY <2>3, <2>4, DetokenizeConcat
    <2>6. <<id>> \in Seq(Nat)
        BY <2>3
    <2> QED
        BY <2>1, <2>5, <2>6
<1> QED
    BY <1>1, <1>2

\* The text of one piece.
LEMMA PieceTexts ==
    ASSUME NEW x \in Nat
    PROVE  Text(<<x>>) \in Seq(Nat) /\ ToSet(Text(<<x>>)) \subseteq {x}
           /\ (x \notin Specials => Text(<<x>>) = <<x>> /\ ToSet(Text(<<x>>)) = {x})
<1>1. Text(<<x>>) = IF x \in Specials THEN <<>> ELSE <<x>>
    BY TextOne
<1>2. <<>> \in Seq(Nat) /\ <<x>> \in Seq(Nat)
    OBVIOUS
<1> QED
    BY <1>1, <1>2, ElementsOf

\* What an instance learns of some positions: the texts of those without an
\* id, and the ids of the others.
LEMMA LearnAllGrows ==
    ASSUME NEW i \in Insts, NEW recs \in Seq(Positions(Nat))
    PROVE  /\ LearnAll(i, recs) \in Insts /\ Grows(i, LearnAll(i, recs))
           /\ \A k \in DOMAIN recs :
                 IF recs[k].id = None
                 THEN Text(<<recs[k].piece>>) \in ToSet(LearnAll(i, recs).interned)
                 ELSE ToSet(Text(<<recs[k].piece>>)) \subseteq LearnAll(i, recs).known
<1> DEFINE texts(rec) == IF rec.id = None THEN rec.cands \o <<Text(<<rec.piece>>)>> ELSE <<>>
           ids(rec) == IF rec.id = None THEN {}
                       ELSE (UNION {ToSet(c) : c \in ToSet(rec.cands)}) \cup ToSet(Text(<<rec.piece>>))
           g == [k \in DOMAIN recs |-> texts(recs[k])]
           new == FlattenSeq(g)
           more == UNION {ids(rec) : rec \in ToSet(recs)}
           j == Intern(i, new)
<1>1. LearnAll(i, recs) = [j EXCEPT !.known = @ \cup more]
    BY DEF LearnAll
<1>2. DOMAIN recs = 1 .. Len(recs) /\ Len(recs) \in Nat /\ \A k \in 1 .. Len(recs) : recs[k] \in Positions(Nat)
    OBVIOUS
<1>3. ASSUME NEW rec \in Positions(Nat)
      PROVE  texts(rec) \in Seq(Seq(Nat)) /\ ids(rec) \subseteq Nat
    <2>1. rec.piece \in Nat /\ rec.cands \in Seq(Seq(Nat))
        BY DEF Positions
    <2>2. Text(<<rec.piece>>) \in Seq(Nat) /\ ToSet(Text(<<rec.piece>>)) \subseteq Nat
        BY <2>1, PieceTexts
    <2> DEFINE t == Text(<<rec.piece>>)
               cs == rec.cands
    <2>3. cs \in Seq(Seq(Nat)) /\ t \in Seq(Nat)
        BY <2>1, <2>2
    <2> HIDE DEF t, cs
    <2>4. cs \o <<t>> \in Seq(Seq(Nat)) /\ <<>> \in Seq(Seq(Nat))
        BY <2>3
    <2>5. \A c \in ToSet(cs) : ToSet(c) \subseteq Nat
        <3>1. \A k \in DOMAIN cs : cs[k] \in Seq(Nat)
            BY <2>3
        <3>2. \A c \in Seq(Nat) : ToSet(c) \subseteq Nat
            BY DEF ToSet
        <3> QED
            BY <3>1, <3>2 DEF ToSet
    <2>6. UNION {ToSet(c) : c \in ToSet(cs)} \subseteq Nat
        BY <2>5
    <2> QED
        <3>1. texts(rec) = (IF rec.id = None THEN cs \o <<t>> ELSE <<>>)
            BY DEF t, cs
        <3>2. texts(rec) \in Seq(Seq(Nat))
            BY <2>4, <3>1
        <3>3. ids(rec) = IF rec.id = None THEN {} ELSE (UNION {ToSet(c) : c \in ToSet(cs)}) \cup ToSet(t)
            BY DEF t, cs
        <3>4. ids(rec) \subseteq Nat
            <4> DEFINE u == UNION {ToSet(c) : c \in ToSet(cs)}
            <4>1. u \subseteq Nat /\ ToSet(t) \subseteq Nat
                BY <2>2, <2>6 DEF t
            <4>2. ids(rec) = IF rec.id = None THEN {} ELSE u \cup ToSet(t)
                BY <3>3
            <4> HIDE DEF u, ids
            <4> QED
                BY <4>1, <4>2
        <3> QED
            BY <3>2, <3>4
<1>4. g \in Seq(Seq(Seq(Nat)))
    <2>1. \A k \in 1 .. Len(recs) : texts(recs[k]) \in Seq(Seq(Nat))
        BY <1>2, <1>3
    <2> HIDE DEF texts
    <2> QED
        BY <1>2, <2>1
<1>5. new \in Seq(Seq(Nat)) /\ ToSet(new) = UNION {ToSet(g[k]) : k \in DOMAIN g}
    BY <1>4, FlattenType, FlattenElements
<1>6. more \subseteq Nat
    <2>1. \A rec \in ToSet(recs) : rec \in Positions(Nat)
        BY <1>2 DEF ToSet
    <2>2. \A rec \in ToSet(recs) : ids(rec) \subseteq Nat
        BY <1>3, <2>1
    <2> HIDE DEF ids
    <2> QED
        BY <2>2
<1>7. \A k \in DOMAIN recs : ids(recs[k]) \subseteq more
    <2>1. \A k \in DOMAIN recs : recs[k] \in ToSet(recs)
        BY DEF ToSet
    <2> HIDE DEF ids
    <2> QED
        BY <2>1
<1>8. \A k \in DOMAIN recs : recs[k].id = None => Text(<<recs[k].piece>>) \in ToSet(new)
    <2> SUFFICES ASSUME NEW k \in DOMAIN recs, recs[k].id = None PROVE Text(<<recs[k].piece>>) \in ToSet(new)
        OBVIOUS
    <2> DEFINE t == Text(<<recs[k].piece>>)
               cs == recs[k].cands
    <2>1. k \in DOMAIN g /\ g[k] = cs \o <<t>>
        OBVIOUS
    <2>2. recs[k].piece \in Nat /\ cs \in Seq(Seq(Nat))
        BY <1>2 DEF Positions
    <2>3. t \in Seq(Nat)
        BY <2>2, PieceTexts
    <2> HIDE DEF t, cs, g, new
    <2>4. <<t>> \in Seq(Seq(Nat)) /\ ToSet(<<t>>) = {t}
        BY <2>3, ElementsOf
    <2>5. ToSet(g[k]) = ToSet(cs) \cup {t}
        <3>1. \A a, b \in Seq(Seq(Nat)) : ToSet(a \o b) = ToSet(a) \cup ToSet(b)
            BY ElementsOf
        <3> QED
            BY <2>1, <2>2, <2>4, <3>1
    <2>6. t \in UNION {ToSet(g[m]) : m \in DOMAIN g}
        BY <2>1, <2>5
    <2> QED
        BY <1>5, <2>6 DEF t
<1>9. \A k \in DOMAIN recs : recs[k].id # None => ToSet(Text(<<recs[k].piece>>)) \subseteq more
    <2> SUFFICES ASSUME NEW k \in DOMAIN recs, recs[k].id # None
                 PROVE  ToSet(Text(<<recs[k].piece>>)) \subseteq more
        OBVIOUS
    <2> DEFINE u == UNION {ToSet(c) : c \in ToSet(recs[k].cands)}
    <2>1. ids(recs[k]) = u \cup ToSet(Text(<<recs[k].piece>>))
        BY Zenon
    <2>2. ids(recs[k]) \subseteq more
        BY <1>7
    <2> HIDE DEF ids, more, u
    <2> QED
        BY <2>1, <2>2
<1> HIDE DEF texts, ids, g, new, more
<1>10. j \in Insts /\ Grows(i, j) /\ ToSet(new) \subseteq ToSet(j.interned)
    BY <1>5, InternGrows
<1> HIDE DEF j
<1>11. /\ LearnAll(i, recs).tokenizer = j.tokenizer /\ LearnAll(i, recs).interned = j.interned
       /\ LearnAll(i, recs).known = j.known \cup more /\ LearnAll(i, recs) \in Insts
    BY <1>1, <1>6, <1>10 DEF Insts
<1>12. Grows(i, LearnAll(i, recs))
    BY <1>10, <1>11 DEF Grows
<1> QED
    BY <1>8, <1>9, <1>10, <1>11, <1>12

\* What a position teaches: its piece is interned when it has no real id, and
\* known when it has one.
LEMMA LearnGrows ==
    ASSUME NEW i \in Insts, NEW rec \in Positions(Nat)
    PROVE  /\ Learn(i, rec) \in Insts /\ Grows(i, Learn(i, rec))
           /\ rec.id = None => Text(<<rec.piece>>) \in ToSet(Learn(i, rec).interned)
           /\ rec.id # None => ToSet(Text(<<rec.piece>>)) \subseteq Learn(i, rec).known
<1>1. <<rec>> \in Seq(Positions(Nat)) /\ 1 \in DOMAIN <<rec>> /\ <<rec>>[1] = rec
    OBVIOUS
<1> DEFINE recs == <<rec>>
<1>2. recs \in Seq(Positions(Nat)) /\ 1 \in DOMAIN recs /\ recs[1] = rec /\ Learn(i, rec) = LearnAll(i, recs)
    BY <1>1 DEF Learn
<1> HIDE DEF recs
<1> QED
    BY <1>2, LearnAllGrows

\* The id of a token, for an instance that has learned of it.
LEMMA IdOfNames ==
    ASSUME NEW i \in Insts, NEW rec \in Positions(Nat),
           rec.id = None => Text(<<rec.piece>>) \in ToSet(i.interned)
    PROVE  /\ IdOf(i, rec) \in Nat
           /\ rec.id # None => IdOf(i, rec) = rec.id
           /\ rec.id = None => IdOf(i, rec) >= InternBase
           /\ rec.id = None /\ ~Ready(i) => TextOfId(i, IdOf(i, rec)) = Text(<<rec.piece>>)
<1>1. CASE rec.id = None
    <2> DEFINE t == Text(<<rec.piece>>)
    <2>1. t \in ToSet(i.interned) /\ IdOf(i, rec) = InternedId(i, t)
        BY <1>1 DEF IdOf
    <2> HIDE DEF t
    <2>2. InternBase \in Nat
        BY CallAssumption
    <2>3. InternedId(i, t) \in Nat /\ InternedId(i, t) >= InternBase /\ IdToText(i, InternedId(i, t)) = t
        BY <2>1, InternedIdNames
    <2>4. ~Ready(i) => TextOfId(i, InternedId(i, t)) = t
        BY <2>2, <2>3 DEF TextOfId
    <2> QED
        BY <1>1, <2>1, <2>3, <2>4 DEF t
<1>2. CASE rec.id # None
    BY <1>2 DEF IdOf, Positions
<1> QED
    BY <1>1, <1>2

-----------------------------------------------------------------------------
(***************************************************************************)
(* The types, and what goes with the stage of a call.                      *)
(***************************************************************************)
\* The records of the model.
Reported == Reasons \cup {"user_stop", None}
Steps == [pos : Nat, id : Nat, piece : Nat, k : Nat, reason : Reported]
Shows == [id : Nat, piece : Nat, old : BOOLEAN]
Rows == [pos : Nat, k : Nat \cup {None}]
Readers == [buf : Seq(Frames), recs : Seq(Positions(Nat)), held : Seq(Positions(Nat)),
            emitting : BOOLEAN, running : Nat, finish : Reasons \cup {None},
            echoed : Seq([pos : Nat, k : Nat]), before : Nat, promptLen : Nat]
Sinks == [requests : Nat, prompt : Nat \cup {None}, completion : Nat \cup {None}, noted : BOOLEAN]
Uppers == [sent : Nat, phase : {"closed", "more", "finished", "counted", "ended"},
           style : {"offset", "signal", "bare"}, noise : Nat, reason : Reasons \cup {None}]

\* Each variable has its type.
Types ==
    /\ p \in Provider
    /\ inst \in Insts
    /\ shown \subseteq Shows
    /\ at \in {"idle", "score", "step", "open", "read", "flush", "over"}
    /\ paused \in BOOLEAN
    /\ http = [body |-> http.body, tries |-> http.tries] /\ http.tries \in 0 .. MaxRetries
    /\ up \in Uppers
    /\ wire \in Seq(Frames)
    /\ rd \in Readers /\ Len(rd.held) <= 1 /\ Len(rd.buf) <= 2
    /\ rows \in Seq(Rows)
    /\ steps \in Seq(Steps)
    /\ sink \in Sinks
    /\ entries \in Seq(Entries)
    /\ outcome \in {"ok", "error", "left"}

\* Between calls there is nothing left of one, and until a stream is open
\* nothing of a stream.
Resting ==
    /\ at = "idle" => /\ http = NoHttp /\ ~paused
                      /\ sink = NoSink /\ entries = <<>> /\ steps = <<>>
    /\ at \in {"idle", "score", "step", "open"} =>
          up.phase = "closed" /\ wire = <<>> /\ rd = NewReader
    /\ at \in {"score", "open"} => steps = <<>>
    /\ at \in {"read", "flush"} => up.phase # "closed"
    /\ at = "flush" => ~p.host
    /\ at # "over" => outcome = "ok"

\* What a call asks for.
Asked(call) ==
    /\ call.prompt \in Seq(Tokens) /\ call.prepend \in Seq(Tokens) /\ call.picks \in Seq(Nat)
    /\ call.include \in BOOLEAN /\ call.respectEos \in BOOLEAN
    /\ call.want \in Nat /\ call.top \in Int /\ call.echoLast \in (Nat \ {0}) \cup {None}
    /\ call.extras \subseteq Flags /\ call.penalties \subseteq {"repetition_penalty"}
    /\ call.way = Way(p, call)

\* The call under way is one that was asked for.
CallOK ==
    at # "idle" =>
        /\ p.completions
        /\ Asked(q)
        /\ q.picked \in Seq(shown) /\ Len(q.picked) <= 1
        /\ q.picks = [j \in DOMAIN q.picked |-> q.picked[j].id]
        /\ q.prepend # <<>> => Ready(inst)
        /\ at = "step" => q.way = "steps" /\ Knows(inst, q.prompt)

\* A body, and one that asks for a stream.
BodyFits(b) ==
    /\ b.prompt.tokens \in Seq(Nat)
    /\ b.want \in Nat /\ b.logprobs.top \in Int
    /\ ~p.host => b.logprobs.new = FlagForModel(p, "new_logprobs")

\* Of a streamed call the body also says from which position on.
StreamBodyFits(b, call) ==
    /\ p.host <=> call.way = "remote"
    /\ call.way \in {"remote", "native", "combined"}
    /\ b.echo <=> call.way = "combined"
    /\ b.last \in (Nat \ {0}) \cup {None}
    /\ b.prompt.array <=> ~p.host /\ call.prepend # <<>>
    /\ b.prompt.array => b.prompt.tokens = call.prepend \o call.prompt \o call.picks

BodyOK ==
    /\ at # "idle" => BodyFits(http.body)
    /\ at = "open" \/ Streamed => at # "idle" /\ StreamBodyFits(http.body, q)

\* A response ends when the prompt is over.
PromptSent ==
    Streamed /\ ~p.host /\ up.phase # "more" => FirstSent + up.sent > Len(Pieces)

\* The types, and what goes with the stage.
Control == Types /\ Resting /\ CallOK /\ BodyOK /\ PromptSent

\* Concatenations of sequences of naturals and of tokens.
LEMMA ConcatTypes ==
    /\ \A s, t \in Seq(Nat) : s \o t \in Seq(Nat)
    /\ \A s, t \in Seq(Tokens) : s \o t \in Seq(Tokens)
    /\ \A s \in Seq(Tokens) : s \in Seq(Nat)
    /\ \A s, t, u \in Seq(Nat) : s \o t \o u \in Seq(Nat)
    /\ Tokens \subseteq Nat
<1>1. Tokens \subseteq Nat
    BY CallAssumption DEF Tokens
<1>2. \A s, t \in Seq(Nat) : s \o t \in Seq(Nat)
    BY ConcatProperties
<1>3. \A s, t \in Seq(Tokens) : s \o t \in Seq(Tokens)
    BY ConcatProperties
<1>4. \A s \in Seq(Tokens) : s \in Seq(Nat)
    BY <1>1, SeqMonotonic
<1> QED
    BY <1>1, <1>2, <1>3, <1>4

\* The fields of a request body that the invariants look at.
LEMMA ScoreBodyFields ==
    ASSUME NEW i, NEW call
    PROVE  /\ ScoreBody(p, i, call).prompt.tokens = call.prepend \o call.prompt \o Detokenize(i, call.picks)
           /\ ScoreBody(p, i, call).want = 1
           /\ ScoreBody(p, i, call).logprobs = Logprobs(p, call)
<1>1. ScoreBody(p, i, call).prompt.tokens = call.prepend \o call.prompt \o Detokenize(i, call.picks)
    BY DEF ScoreBody
<1>2. ScoreBody(p, i, call).want = 1
    BY DEF ScoreBody
<1>3. ScoreBody(p, i, call).logprobs = Logprobs(p, call)
    BY DEF ScoreBody
<1> QED
    BY <1>1, <1>2, <1>3, Zenon

LEMMA HostBodyFields ==
    ASSUME NEW call
    PROVE  /\ HostBody(call).prompt.tokens = call.prompt \o call.picks
           /\ HostBody(call).prompt.array = FALSE
           /\ HostBody(call).want = call.want
           /\ HostBody(call).echo = FALSE
           /\ HostBody(call).last = None
           /\ HostBody(call).logprobs.top = call.top
<1>1. HostBody(call).prompt.tokens = call.prompt \o call.picks
    BY DEF HostBody
<1>2. HostBody(call).prompt.array = FALSE /\ HostBody(call).want = call.want /\ HostBody(call).echo = FALSE
    BY DEF HostBody
<1>3. HostBody(call).last = None
    BY DEF HostBody
<1>4. HostBody(call).logprobs.top = call.top
    BY DEF HostBody
<1> QED
    BY <1>1, <1>2, <1>3, <1>4, Zenon

\* The body of a call is one the upstream model can answer.
LEMMA BodyOfCall ==
    ASSUME p \in Provider, NEW i \in Insts, NEW call, Asked(call), NEW emitted \in Seq(Nat),
           NEW stage \in {"score", "step", "open"},
           stage = "step" => Knows(i, call.prompt),
           stage = "open" => call.way # "steps"
    PROVE  /\ BodyFits(BodyAt(stage, i, call, emitted))
           /\ stage = "open" => StreamBodyFits(BodyAt(stage, i, call, emitted), call)
<1> DEFINE b == BodyAt(stage, i, call, emitted)
           L == Logprobs(p, call)
<1>0. /\ call.prompt \in Seq(Tokens) /\ call.prepend \in Seq(Tokens) /\ call.picks \in Seq(Nat)
      /\ call.prompt \in Seq(Nat) /\ call.prepend \in Seq(Nat)
      /\ call.want \in Nat /\ call.top \in Int /\ call.echoLast \in (Nat \ {0}) \cup {None}
      /\ call.way = Way(p, call) /\ call.include \in BOOLEAN
    BY ConcatTypes DEF Asked
<1>1. /\ L.top \in Int /\ L.new = FlagForModel(p, "new_logprobs")
    <2>1. p.top \in Nat
        BY ProviderAssumption
    <2> QED
        BY <1>0, <2>1 DEF Logprobs
<1>2. /\ p.host => call.way = "remote"
      /\ ~p.host => call.way \in {"steps", "native", "combined"}
    BY <1>0 DEF Way
<1>3. Detokenize(i, call.picks) \in Seq(Nat)
    BY <1>0, DetokenizeIsJoin
<1>4. CASE stage = "score"
    <2>1. b = ScoreBody(p, i, call)
        BY <1>4 DEF BodyAt
    <2>2. call.prepend \o call.prompt \o Detokenize(i, call.picks) \in Seq(Nat)
        BY <1>0, <1>3, ConcatTypes
    <2>4. L = Logprobs(p, call)
        OBVIOUS
    <2> HIDE DEF L, b
    <2>3. /\ b.prompt.tokens = call.prepend \o call.prompt \o Detokenize(i, call.picks)
          /\ b.want = 1 /\ b.logprobs = L
        BY <2>1, <2>4, ScoreBodyFields
    <2> QED
        <3>1. 1 \in Nat
            OBVIOUS
        <3> DEFINE ts == b.prompt.tokens
        <3>2. ts \in Seq(Nat)
            BY <2>2, <2>3
        <3> HIDE DEF ts
        <3>3. BodyFits(b)
            BY <1>1, <2>3, <3>2 DEF BodyFits, ts
        <3> QED
            BY <1>4, <3>3 DEF b
<1>5. CASE stage = "step"
    <2>1. b = NextBody(p, i, call, LoopIds(i, call, emitted))
        BY <1>5 DEF BodyAt
    <2>2. Tokenize(i, call.prompt) \in Seq(Nat)
        BY <1>0, <1>5, TokenizeInverse
    <2>3. LoopIds(i, call, emitted) \in Seq(Nat)
        BY <1>0, <2>2, ConcatTypes DEF LoopIds
    <2>4. Detokenize(i, LoopIds(i, call, emitted)) \in Seq(Nat)
        BY <2>3, DetokenizeIsJoin
    <2>5. /\ b.prompt.tokens = Detokenize(i, LoopIds(i, call, emitted))
          /\ b.want = 1 /\ b.logprobs = L
        BY <2>1 DEF NextBody
    <2> HIDE DEF L, b
    <2> QED
        BY <1>1, <1>5, <2>4, <2>5 DEF b, BodyFits
<1>6. CASE stage = "open"
    <2>1. /\ Payload(i, call).tokens \in Seq(Nat)
          /\ Payload(i, call).array = (call.prepend # <<>>)
          /\ call.prepend # <<>> => Payload(i, call).tokens = call.prepend \o call.prompt \o call.picks
        <3>1. call.prompt \o Detokenize(i, call.picks) \in Seq(Nat)
            BY <1>0, <1>3, ConcatTypes
        <3>2. call.prepend \o call.prompt \o call.picks \in Seq(Nat)
            BY <1>0, ConcatTypes
        <3>3. CASE call.prepend = <<>>
            BY <3>1, <3>3 DEF Payload, ClientPrompt
        <3>4. CASE call.prepend # <<>>
            BY <3>2, <3>4 DEF Payload
        <3> QED
            BY <3>3, <3>4
    <2>2. CASE call.way = "native"
        <3>1. b = NativeBody(p, i, call) /\ ~p.host
            BY <1>2, <1>6, <2>2 DEF BodyAt
        <3>2. /\ b.prompt = Payload(i, call) /\ b.want = call.want /\ b.echo = FALSE
              /\ b.last = None /\ b.logprobs = L
            BY <3>1 DEF NativeBody
        <3> HIDE DEF b, L
        <3>3. BodyFits(b)
            BY <1>0, <1>1, <2>1, <3>2 DEF BodyFits
        <3>4. StreamBodyFits(b, call)
            BY <2>1, <2>2, <3>1, <3>2 DEF StreamBodyFits
        <3> QED
            BY <3>3, <3>4 DEF b
    <2>3. CASE call.way = "combined"
        <3>1. b = CombinedBody(p, i, call) /\ ~p.host
            BY <1>2, <1>6, <2>3 DEF BodyAt
        <3>2. /\ b.prompt = Payload(i, call) /\ b.want = call.want /\ b.echo = TRUE
              /\ b.last = (IF FlagForModel(p, "echo_last") THEN call.echoLast ELSE None) /\ b.logprobs = L
            BY <3>1 DEF CombinedBody, NativeBody
        <3> HIDE DEF b, L
        <3>3. BodyFits(b)
            BY <1>0, <1>1, <2>1, <3>2 DEF BodyFits
        <3>4. b.last \in (Nat \ {0}) \cup {None}
            BY <1>0, <3>2
        <3>5. StreamBodyFits(b, call)
            BY <2>1, <2>3, <3>1, <3>2, <3>4 DEF StreamBodyFits
        <3> QED
            BY <3>3, <3>5 DEF b
    <2>4. CASE call.way = "remote"
        <3>1. b = HostBody(call) /\ p.host
            BY <1>2, <1>6, <2>4 DEF BodyAt
        <3>2. call.prompt \o call.picks \in Seq(Nat)
            BY <1>0, ConcatTypes
        <3>3. /\ b.prompt.tokens = call.prompt \o call.picks /\ b.prompt.array = FALSE
              /\ b.want = call.want /\ b.echo = FALSE
              /\ b.last = None /\ b.logprobs.top = call.top
            BY <3>1, HostBodyFields
        <3> HIDE DEF b, L
        <3>4. BodyFits(b)
            BY <1>0, <3>1, <3>2, <3>3 DEF BodyFits
        <3>5. StreamBodyFits(b, call)
            BY <2>4, <3>1, <3>3 DEF StreamBodyFits
        <3> QED
            BY <3>4, <3>5 DEF b
    <2> QED
        BY <1>2, <1>6, <2>2, <2>3, <2>4
<1> QED
    BY <1>4, <1>5, <1>6

\* A candidate that the upstream model makes up is a token, and no special one.
LEMMA VocabularyIndex ==
    ASSUME NEW m \in Nat
    PROVE  /\ (m % Len(Vocabulary)) + 1 \in DOMAIN Vocabulary
           /\ Vocabulary[(m % Len(Vocabulary)) + 1] \in Tokens \ Specials
<1>1. /\ Vocabulary \in Seq(Tokens) /\ Vocabulary # <<>> /\ ToSet(Vocabulary) \cap Specials = {}
    BY CallAssumption DEF Tokens
<1>2. Len(Vocabulary) \in Nat /\ Len(Vocabulary) # 0 /\ DOMAIN Vocabulary = 1 .. Len(Vocabulary)
    BY <1>1
<1>3. m % Len(Vocabulary) \in 0 .. Len(Vocabulary) - 1
    BY <1>2
<1>4. (m % Len(Vocabulary)) + 1 \in DOMAIN Vocabulary
    BY <1>2, <1>3
<1>5. \A k \in DOMAIN Vocabulary : Vocabulary[k] \in Tokens /\ Vocabulary[k] \in ToSet(Vocabulary)
    BY <1>1 DEF ToSet
<1> QED
    BY <1>1, <1>4, <1>5

-----------------------------------------------------------------------------
(***************************************************************************)
(* What the upstream sends, one frame at a time.                           *)
(***************************************************************************)
PieceAt(k) ==
    IF k <= Len(Pieces) THEN Pieces[k] ELSE Vocabulary[((k - Len(Pieces) - 1) % Len(Vocabulary)) + 1]

\* The candidates of a position: the ones asked for, in the order of the
\* vocabulary.
Listed ==
    IF http.body.logprobs.top >= Len(Vocabulary) THEN Vocabulary
    ELSE SubSeq(Vocabulary, 1, http.body.logprobs.top)

CandsAt(k) == IF k = 1 THEN <<>> ELSE [j \in DOMAIN Listed |-> <<Listed[j]>>]

OffAt(k) ==
    IF up.style # "offset" THEN None
    ELSE IF k > Len(Pieces) THEN Shown(Pieces) + k - Len(Pieces) - 1
    ELSE Shown(SubSeq(Pieces, 1, k - 1))

RealIds == http.body.logprobs.new \/ p.host

LEMMA PositionFields ==
    ASSUME NEW k
    PROVE  /\ Position(k) = [k |-> k, piece |-> PieceAt(k), id |-> IF RealIds THEN PieceAt(k) ELSE None,
                             cands |-> CandsAt(k), off |-> OffAt(k),
                             signal |-> (up.style = "signal" /\ k > Len(Pieces))]
           /\ Position(k).k = k /\ Position(k).piece = PieceAt(k)
           /\ Position(k).id = IF RealIds THEN PieceAt(k) ELSE None
           /\ Position(k).cands = CandsAt(k) /\ Position(k).off = OffAt(k)
           /\ Position(k).signal = (up.style = "signal" /\ k > Len(Pieces))
<1>1. Position(k) = [k |-> k, piece |-> PieceAt(k), id |-> IF RealIds THEN PieceAt(k) ELSE None,
                     cands |-> CandsAt(k), off |-> OffAt(k),
                     signal |-> (up.style = "signal" /\ k > Len(Pieces))]
    BY DEF Position, PieceAt, CandsAt, OffAt, Listed, RealIds
<1> QED
    BY <1>1

LEMMA PieceAtType ==
    ASSUME Pieces \in Seq(Nat), NEW k \in Nat \ {0}
    PROVE  /\ PieceAt(k) \in Nat
           /\ k > Len(Pieces) => PieceAt(k) \in Tokens /\ PieceAt(k) \notin Specials
<1>1. Len(Pieces) \in Nat /\ DOMAIN Pieces = 1 .. Len(Pieces) /\ \A j \in 1 .. Len(Pieces) : Pieces[j] \in Nat
    OBVIOUS
<1>2. CASE k <= Len(Pieces)
    BY <1>1, <1>2 DEF PieceAt
<1>3. CASE k > Len(Pieces)
    <2>1. k - Len(Pieces) - 1 \in Nat
        BY <1>1, <1>3
    <2> DEFINE m == k - Len(Pieces) - 1
    <2>2. PieceAt(k) = Vocabulary[(m % Len(Vocabulary)) + 1]
        BY <1>1, <1>3 DEF PieceAt
    <2>3. m \in Nat
        BY <2>1
    <2> HIDE DEF m
    <2>4. Vocabulary[(m % Len(Vocabulary)) + 1] \in Tokens \ Specials
        BY <2>3, VocabularyIndex
    <2> QED
        BY <2>2, <2>4, ConcatTypes
<1> QED
    BY <1>1, <1>2, <1>3

LEMMA CandsAtType ==
    ASSUME http.body.logprobs.top \in Int, NEW k
    PROVE  /\ CandsAt(k) \in Seq(Seq(Nat))
           /\ \A x \in UNION {ToSet(c) : c \in ToSet(CandsAt(k))} : x \in Tokens /\ x \notin Specials
<1> DEFINE top == http.body.logprobs.top
<1>0. top \in Int
    OBVIOUS
<1>1. /\ Vocabulary \in Seq(Tokens) /\ ToSet(Vocabulary) \cap Specials = {}
    BY CallAssumption DEF Tokens
<1>2. Len(Vocabulary) \in Nat /\ DOMAIN Vocabulary = 1 .. Len(Vocabulary)
    BY <1>1
<1> HIDE DEF top
<1>3. Listed \in Seq(Tokens) /\ \A j \in DOMAIN Listed : Listed[j] \in Tokens /\ Listed[j] \notin Specials
    <2>1. \A j \in DOMAIN Vocabulary : Vocabulary[j] \in Tokens /\ Vocabulary[j] \in ToSet(Vocabulary)
        BY <1>1 DEF ToSet
    <2>2. CASE top >= Len(Vocabulary)
        <3>1. Listed = Vocabulary
            BY <2>2 DEF Listed, top
        <3> QED
            BY <1>1, <2>1, <3>1
    <2>3. CASE top < Len(Vocabulary)
        <3>1. Listed = SubSeq(Vocabulary, 1, top)
            BY <1>0, <1>2, <2>3 DEF Listed, top
        <3>2. SubSeq(Vocabulary, 1, top) \in Seq(Tokens)
            BY <1>0, <1>1, <1>2, <2>3
        <3>3. \A j \in DOMAIN SubSeq(Vocabulary, 1, top) :
                  j \in DOMAIN Vocabulary /\ SubSeq(Vocabulary, 1, top)[j] = Vocabulary[j]
            BY <1>0, <1>1, <1>2, <2>3
        <3> QED
            BY <1>1, <2>1, <3>1, <3>2, <3>3
    <2> QED
        BY <1>0, <1>2, <2>2, <2>3
<1> DEFINE cs == [j \in DOMAIN Listed |-> <<Listed[j]>>]
<1>4. cs \in Seq(Seq(Nat))
    <2>1. DOMAIN Listed = 1 .. Len(Listed) /\ Len(Listed) \in Nat
        BY <1>3
    <2>2. \A x \in Tokens : <<x>> \in Seq(Nat)
        BY ConcatTypes
    <2>3. \A j \in 1 .. Len(Listed) : <<Listed[j]>> \in Seq(Nat)
        BY <1>3, <2>1, <2>2
    <2> QED
        BY <2>1, <2>3
<1>5. ASSUME NEW c \in ToSet(cs), NEW x \in ToSet(c) PROVE x \in Tokens /\ x \notin Specials
    <2>1. PICK j \in DOMAIN Listed : c = <<Listed[j]>>
        BY DEF ToSet
    <2>2. ToSet(c) = {Listed[j]}
        BY <2>1, ElementsOf
    <2> QED
        BY <1>3, <2>2
<1>6. CandsAt(k) = IF k = 1 THEN <<>> ELSE cs
    BY DEF CandsAt
<1> HIDE DEF cs
<1>7. <<>> \in Seq(Seq(Nat)) /\ ToSet(<<>>) = {}
    BY ElementsOf
<1>8. CASE k = 1
    BY <1>6, <1>7, <1>8
<1>9. CASE k # 1
    <2>1. CandsAt(k) = cs
        BY <1>6, <1>9
    <2> QED
        BY <1>4, <1>5, <2>1
<1> QED
    BY <1>8, <1>9

LEMMA ShownType ==
    ASSUME NEW s \in Seq(Nat)
    PROVE  Shown(s) \in Nat /\ Shown(s) <= Len(s)
<1>1. Text(s) \in Seq(Nat) /\ Len(Text(s)) <= Len(s)
    BY TextLength
<1> QED
    BY <1>1 DEF Shown

LEMMA PositionType ==
    ASSUME Pieces \in Seq(Nat), http.body.logprobs.top \in Int, NEW k \in Nat \ {0}
    PROVE  Position(k) \in Positions(Nat)
<1>1. PieceAt(k) \in Nat
    BY PieceAtType
<1>2. CandsAt(k) \in Seq(Seq(Nat))
    BY CandsAtType
<1>3. OffAt(k) \in Nat \cup {None}
    <2>1. Len(Pieces) \in Nat
        OBVIOUS
    <2>2. Shown(Pieces) \in Nat
        BY ShownType
    <2>3. CASE k > Len(Pieces)
        BY <2>2, <2>3 DEF OffAt
    <2>4. CASE k <= Len(Pieces)
        <3> DEFINE s == SubSeq(Pieces, 1, k - 1)
        <3>1. s \in Seq(Nat)
            BY <2>4
        <3>2. OffAt(k) = IF up.style # "offset" THEN None ELSE Shown(s)
            BY <2>4 DEF OffAt
        <3> HIDE DEF s
        <3>3. Shown(s) \in Nat
            BY <3>1, ShownType
        <3> QED
            BY <3>2, <3>3
    <2> QED
        BY <2>3, <2>4
<1>4. Position(k) = [k |-> k, piece |-> PieceAt(k), id |-> IF RealIds THEN PieceAt(k) ELSE None,
                     cands |-> CandsAt(k), off |-> OffAt(k),
                     signal |-> (up.style = "signal" /\ k > Len(Pieces))]
    BY PositionFields
<1> QED
    BY <1>1, <1>2, <1>3, <1>4 DEF Positions

\* The positions do not depend on how much was sent.
LEMMA PositionsStay ==
    ASSUME p' = p, http' = http, up'.style = up.style
    PROVE  /\ \A k : Position(k)' = Position(k)
           /\ Pieces' = Pieces /\ FirstSent' = FirstSent /\ RealIds' = RealIds
           /\ \A k : PieceAt(k)' = PieceAt(k)
<1>1. Pieces' = Pieces
    BY DEF Pieces
<1>2. ASSUME NEW k PROVE PieceAt(k)' = PieceAt(k)
    BY <1>1 DEF PieceAt
<1>3. RealIds' = RealIds
    BY DEF RealIds
<1>4. FirstSent' = FirstSent
    BY <1>1 DEF FirstSent
<1>5. Listed' = Listed
    BY DEF Listed
<1>6. ASSUME NEW k PROVE Position(k)' = Position(k)
    <2>1. CandsAt(k)' = CandsAt(k)
        BY <1>5 DEF CandsAt
    <2>2. OffAt(k)' = OffAt(k)
        BY <1>1 DEF OffAt, Shown
    <2>3. Position(k) = [k |-> k, piece |-> PieceAt(k), id |-> IF RealIds THEN PieceAt(k) ELSE None,
                         cands |-> CandsAt(k), off |-> OffAt(k),
                         signal |-> (up.style = "signal" /\ k > Len(Pieces))]
        BY PositionFields
    <2>4. Position(k)' = [k |-> k, piece |-> PieceAt(k)', id |-> IF RealIds' THEN PieceAt(k)' ELSE None,
                          cands |-> CandsAt(k)', off |-> OffAt(k)',
                          signal |-> (up'.style = "signal" /\ k > Len(Pieces'))]
        BY DEF Position, PieceAt, CandsAt, OffAt, Listed, RealIds
    <2> QED
        BY <1>1, <1>2, <1>3, <2>1, <2>2, <2>3, <2>4
<1> QED
    BY <1>1, <1>2, <1>3, <1>4, <1>6

\* The first position that is sent is one of the prompt or the one after it.
LEMMA FirstSentType ==
    ASSUME Pieces \in Seq(Nat), http.body.last \in (Nat \ {0}) \cup {None}
    PROVE  FirstSent \in Nat \ {0} /\ FirstSent <= Len(Pieces) + 1
<1>1. Len(Pieces) \in Nat
    OBVIOUS
<1>2. CASE http.body.last = None
    BY <1>1, <1>2 DEF FirstSent
<1>3. CASE http.body.last \in Nat \ {0}
    BY <1>1, <1>3 DEF FirstSent
<1> QED
    BY <1>2, <1>3

\* The frames that are ever sent have one position at most, and the fields of
\* their kind.
FrameOK(f) == Len(f.recs) <= 1 /\ IF p.host THEN HostFrame(f) ELSE ProviderFrame(f)

\* A frame f that comes next after the state u, and leaves the state v.
HostEmits(u, f, v) ==
    \/ f.event = "done" /\ f.kind = "json" /\ f.recs = <<>> /\ f.finish = u.reason
       /\ v.phase = "ended" /\ v.reason = u.reason /\ (u.phase # "finished" => f.error)
    \/ f.event = "step" /\ u.phase = "more" /\ f.recs # <<>> /\ v.reason = f.finish
       /\ v.phase = IF f.finish = None THEN "more" ELSE "finished"
    \/ f.event = "none" /\ f.recs = <<>> /\ v.phase = u.phase /\ v.reason = u.reason

\* What one frame of a provider does to what was sent.
ProviderEmits(u, f, v) ==
    \/ f.finish = None /\ f.kind # "done" /\ v.phase = u.phase /\ v.reason = u.reason
    \/ u.phase = "more" /\ f.kind = "json" /\ f.finish # None
       /\ v.phase = "finished" /\ v.reason = f.finish /\ f.finish \in {"length", "stop"}
       /\ FirstSent + v.sent > Len(Pieces)
    \/ u.phase = "finished" /\ f.kind = "json" /\ f.finish = None /\ f.usage # None /\ f.recs = <<>>
       /\ v.phase = "counted" /\ v.reason = u.reason
    \/ u.phase \in {"finished", "counted"} /\ f.kind = "done" /\ f.finish = None /\ f.usage = None
       /\ f.recs = <<>> /\ v.phase = "ended" /\ v.reason = u.reason

\* A frame that the upstream sends.
Emits(u, f, v) ==
    /\ f \in Frames /\ FrameOK(f) /\ v \in Uppers
    /\ u.phase # "ended" /\ v.style = u.style /\ (u.phase # "closed" => v.phase # "closed")
    /\ \/ f.recs = <<>> /\ v.sent = u.sent
       \/ u.phase = "more" /\ f.recs = <<Position(FirstSent + u.sent)>> /\ v.sent = u.sent + 1
    /\ IF p.host THEN HostEmits(u, f, v) ELSE ProviderEmits(u, f, v)

LEMMA BlankFrame ==
    /\ Blank \in Frames
    /\ Blank.kind = "json" /\ Blank.event = "none" /\ Blank.choices = FALSE /\ Blank.recs = <<>>
    /\ Blank.finish = None /\ Blank.usage = None /\ Blank.error = FALSE
<1>1. <<>> \in Seq(Positions(Nat))
    OBVIOUS
<1> QED
    BY <1>1 DEF Blank, Frames

\* Each kind of frame the upstream may send next is one that Emits allows.
LEMMA NoiseEmits ==
    ASSUME NEW u \in Uppers, u.phase # "ended", NEW fr \in Noise(u)
    PROVE  Emits(u, fr[1], fr[2])
<1> DEFINE v == [u EXCEPT !.noise = @ + 1]
<1>1. PICK f \in {[Blank EXCEPT !.kind = "junk"], [Blank EXCEPT !.error = TRUE]} : fr = <<f, v>>
    BY DEF Noise
<1>2. /\ v \in Uppers /\ v.style = u.style /\ v.phase = u.phase /\ v.sent = u.sent /\ v.reason = u.reason
    BY DEF Uppers
<1> HIDE DEF v
<1>3. /\ f \in Frames /\ f.event = "none" /\ f.choices = FALSE /\ f.recs = <<>> /\ f.finish = None
      /\ f.usage = None /\ f.kind # "done"
    <2>1. CASE f = [Blank EXCEPT !.kind = "junk"]
        BY <2>1, BlankFrame DEF Frames
    <2>2. CASE f = [Blank EXCEPT !.error = TRUE]
        BY <2>2, BlankFrame DEF Frames
    <2> QED
        BY <2>1, <2>2
<1>4. FrameOK(f)
    <2>1. Len(<<>>) <= 1
        OBVIOUS
    <2> QED
        BY <1>3, <2>1 DEF FrameOK, HostFrame, ProviderFrame
<1>5. Emits(u, f, v)
    <2>1. HostEmits(u, f, v)
        BY <1>2, <1>3 DEF HostEmits
    <2>2. ProviderEmits(u, f, v)
        BY <1>2, <1>3 DEF ProviderEmits
    <2> QED
        BY <1>2, <1>3, <1>4, <2>1, <2>2 DEF Emits
<1> QED
    BY <1>1, <1>5

\* A report has numbers.
LEMMA ReportType ==
    ASSUME Pieces \in Seq(Nat), FirstSent \in Nat, NEW u \in Uppers
    PROVE  Usage(Generated(u)) \in Usages
<1>1. Len(Pieces) \in Nat /\ u.sent \in Nat
    BY DEF Uppers
<1>2. Generated(u) \in Nat
    BY <1>1 DEF Generated
<1> QED
    BY <1>1, <1>2 DEF Usage, Usages

LEMMA ClosingEmits ==
    ASSUME Pieces \in Seq(Nat), NEW u \in Uppers, u.phase # "ended",
           FirstSent \in Nat, ~p.host /\ u.phase # "more" /\ u.phase # "closed" => FirstSent + u.sent > Len(Pieces),
           NEW fr \in Closing(u)
    PROVE  Emits(u, fr[1], fr[2])
<1> DEFINE n == Len(Pieces)
           report == Usage(Generated(u))
           usage == [Blank EXCEPT !.usage = report]
           done == [Blank EXCEPT !.kind = "done"]
           hostDone(error) == [Blank EXCEPT !.event = "done", !.finish = u.reason, !.error = error]
           over == [u EXCEPT !.phase = "ended"]
           counted == [u EXCEPT !.phase = "counted"]
<1>0. n \in Nat /\ u.reason \in Reasons \cup {None} /\ report \in Usages
    BY ReportType DEF Uppers
<1>1. over \in Uppers /\ over.style = u.style /\ over.phase = "ended" /\ over.sent = u.sent /\ over.reason = u.reason
    BY DEF Uppers
<1>2. counted \in Uppers /\ counted.style = u.style /\ counted.phase = "counted" /\ counted.sent = u.sent
      /\ counted.reason = u.reason
    BY DEF Uppers
<1>3. Len(<<>>) <= 1
    OBVIOUS
<1>4. CASE p.host
    <2>1. PICK error \in BOOLEAN : fr = <<hostDone(error), over>> /\ (u.phase # "finished" => error)
        BY <1>4 DEF Closing
    <2> DEFINE f == hostDone(error)
    <2>2. /\ f \in Frames /\ f.event = "done" /\ f.choices = FALSE /\ f.recs = <<>> /\ f.finish = u.reason
          /\ f.usage = None /\ f.kind = "json" /\ f.error = error
        BY <1>0, BlankFrame DEF Frames
    <2>3. fr = <<f, over>>
        BY <2>1
    <2> HIDE DEF f, over
    <2>4. FrameOK(f)
        BY <1>3, <1>4, <2>2 DEF FrameOK, HostFrame
    <2>5. HostEmits(u, f, over)
        BY <1>1, <2>1, <2>2 DEF HostEmits
    <2> QED
        BY <1>1, <1>4, <2>2, <2>3, <2>4, <2>5 DEF Emits
<1>5. CASE ~p.host
    <2>0. Generated(counted) = Generated(u)
        BY DEF Generated
    <2>1. \/ u.phase = "finished" /\ fr = <<usage, counted>>
          \/ u.phase \in {"finished", "counted"} /\ fr = <<done, over>>
        BY <1>5, <2>0 DEF Closing, Reports
    <2>2. CASE u.phase = "finished" /\ fr = <<usage, counted>>
        <3>1. report \in Usages
            BY <1>0
        <3> DEFINE f == usage
        <3> HIDE DEF report
        <3>2. /\ f \in Frames /\ f.event = "none" /\ f.choices = FALSE /\ f.recs = <<>> /\ f.finish = None
              /\ f.usage = report /\ f.kind = "json" /\ f.error = FALSE
            BY <3>1, BlankFrame DEF Frames
        <3>3. fr = <<f, counted>>
            BY <2>2
        <3> HIDE DEF f, usage, counted
        <3>4. FrameOK(f)
            BY <1>3, <1>5, <3>2 DEF FrameOK, ProviderFrame
        <3>5. ProviderEmits(u, f, counted)
            BY <1>2, <2>2, <3>1, <3>2, NoneIsNone DEF ProviderEmits
        <3> QED
            BY <1>2, <1>5, <3>2, <3>3, <3>4, <3>5 DEF Emits
    <2>3. CASE u.phase \in {"finished", "counted"} /\ fr = <<done, over>>
        <3> DEFINE f == done
        <3>2. /\ f \in Frames /\ f.event = "none" /\ f.choices = FALSE /\ f.recs = <<>> /\ f.finish = None
              /\ f.usage = None /\ f.kind = "done" /\ f.error = FALSE
            BY BlankFrame DEF Frames
        <3>3. fr = <<f, over>>
            BY <2>3
        <3> HIDE DEF f, done, over
        <3>4. FrameOK(f)
            BY <1>3, <1>5, <3>2 DEF FrameOK, ProviderFrame
        <3>5. ProviderEmits(u, f, over)
            BY <1>1, <2>3, <3>2 DEF ProviderEmits
        <3> QED
            BY <1>1, <1>5, <3>2, <3>3, <3>4, <3>5 DEF Emits
    <2> QED
        BY <2>1, <2>2, <2>3
<1> QED
    BY <1>4, <1>5

\* A frame with one position.
LEMMA OneFrame ==
    ASSUME NEW rec \in Positions(Nat)
    PROVE  <<rec>> \in Seq(Positions(Nat)) /\ Len(<<rec>>) = 1 /\ <<rec>> # <<>> /\ <<rec>>[1] = rec
OBVIOUS

LEMMA StepEmits ==
    ASSUME p.host, NEW u \in Uppers, u.phase = "more", Position(FirstSent + u.sent) \in Positions(Nat),
           NEW fr \in HostFrames(u)
    PROVE  Emits(u, fr[1], fr[2])
<1> DEFINE k == FirstSent + u.sent
           rec == Position(k)
           step(why) == [Blank EXCEPT !.event = "step", !.recs = <<rec>>, !.finish = why]
           next(why) == [u EXCEPT !.sent = @ + 1, !.reason = why,
                                  !.phase = IF why = None THEN "more" ELSE "finished"]
<1>1. PICK why \in {None, "eos", "max_tokens"} : fr = <<step(why), next(why)>>
    BY DEF HostFrames
<1> DEFINE f == step(why)
           v == next(why)
<1>2. rec \in Positions(Nat) /\ why \in Reasons \cup {None}
    BY DEF Reasons
<1> HIDE DEF rec
<1>3. /\ f \in Frames /\ f.event = "step" /\ f.choices = FALSE /\ f.recs = <<rec>> /\ f.finish = why
      /\ f.usage = None /\ f.kind = "json"
    BY <1>2, BlankFrame, OneFrame DEF Frames
<1>4. /\ v \in Uppers /\ v.style = u.style /\ v.sent = u.sent + 1 /\ v.reason = why
      /\ v.phase = IF why = None THEN "more" ELSE "finished"
    <2> DEFINE e == [u EXCEPT !.sent = @ + 1]
               ph == IF why = None THEN "more" ELSE "finished"
    <2>1. e \in Uppers /\ e.style = u.style /\ e.sent = u.sent + 1
        BY DEF Uppers
    <2>2. v = [e EXCEPT !.reason = why, !.phase = ph]
        BY DEF Uppers
    <2>3. ph \in {"more", "finished"}
        OBVIOUS
    <2> HIDE DEF e, v, ph
    <2>4. v \in Uppers /\ v.style = u.style /\ v.sent = u.sent + 1 /\ v.reason = why /\ v.phase = ph
        BY <1>2, <2>1, <2>2, <2>3 DEF Uppers
    <2> QED
        BY <2>4 DEF ph
<1>5. fr = <<f, v>>
    BY <1>1
<1> HIDE DEF f, v
<1>6. FrameOK(f)
    BY <1>2, <1>3, OneFrame DEF FrameOK, HostFrame
<1>7. HostEmits(u, f, v)
    BY <1>2, <1>3, <1>4, OneFrame DEF HostEmits
<1> QED
    BY <1>3, <1>4, <1>5, <1>6, <1>7 DEF Emits, rec

\* One position more has been sent, and nothing else has changed.
LEMMA OneMoreSent ==
    ASSUME NEW e \in Uppers, NEW l, l = [e EXCEPT !.sent = @ + 1]
    PROVE  /\ l \in Uppers /\ l.style = e.style /\ l.sent = e.sent + 1
           /\ l.reason = e.reason /\ l.phase = e.phase
<1>1. e.sent \in Nat /\ e.sent + 1 \in Nat
    BY DEF Uppers
<1>2. l \in Uppers
    BY <1>1 DEF Uppers
<1>3. l.sent = e.sent + 1
    BY DEF Uppers
<1>4. l.style = e.style /\ l.reason = e.reason /\ l.phase = e.phase
    BY DEF Uppers
<1> QED
    BY <1>2, <1>3, <1>4, Zenon

LEMMA ChunkEmits ==
    ASSUME ~p.host, Pieces \in Seq(Nat), http.body.want \in Nat, FirstSent \in Nat,
           NEW u \in Uppers, u.phase = "more", Position(FirstSent + u.sent) \in Positions(Nat),
           NEW fr \in Chunks(u)
    PROVE  Emits(u, fr[1], fr[2]) /\ fr[1].kind = "json"
<1> DEFINE k == FirstSent + u.sent
           rec == Position(k)
           data == [Blank EXCEPT !.choices = TRUE]
           with == [data EXCEPT !.recs = <<rec>>]
           more == [u EXCEPT !.sent = @ + 1]
           ended(why) == [u EXCEPT !.phase = "finished", !.reason = why]
           last == [ended("length") EXCEPT !.sent = @ + 1]
           bare(why) == [data EXCEPT !.finish = why]
<1>0. /\ Len(Pieces) \in Nat /\ u.sent \in Nat /\ k \in Nat
      /\ LastSent = Len(Pieces) + http.body.want
    BY DEF Uppers, LastSent
<1>1. \/ \E why \in {"length", "stop"} : k > Len(Pieces) /\ fr = <<bare(why), ended(why)>>
      \/ fr = <<with, more>>
      \/ k >= Len(Pieces) /\ fr = <<[with EXCEPT !.finish = "length"], last>>
    <2> DEFINE full == <<[with EXCEPT !.finish = "length"], last>>
    <2>1. fr \in (IF k > LastSent THEN {<<bare("length"), ended("length")>>}
                  ELSE {<<with, more>>} \cup (IF k = LastSent THEN {full} ELSE {}))
                 \cup (IF k > Len(Pieces) THEN {<<bare("stop"), ended("stop")>>} ELSE {})
        BY Zenon DEF Chunks
    <2>2. fr = full => fr = <<[with EXCEPT !.finish = "length"], last>>
        OBVIOUS
    <2> HIDE DEF full, k, with, more, last, bare, ended
    <2>3. (k > LastSent => k > Len(Pieces)) /\ (k = LastSent => k >= Len(Pieces))
        BY <1>0
    <2>4. \/ fr = <<bare("length"), ended("length")>> /\ k > LastSent
          \/ fr = <<with, more>>
          \/ fr = full /\ k = LastSent
          \/ fr = <<bare("stop"), ended("stop")>> /\ k > Len(Pieces)
        BY <2>1
    <2> QED
        BY <2>2, <2>3, <2>4
<1>2. rec \in Positions(Nat) /\ Len(<<>>) <= 1
    OBVIOUS
<1>3. /\ data \in Frames /\ data.kind = "json" /\ data.event = "none" /\ data.recs = <<>> /\ data.finish = None
      /\ data.usage = None /\ data.error = FALSE
    BY BlankFrame DEF Frames
<1>4. "length" \in Reasons /\ "stop" \in Reasons /\ None # "length" /\ None # "stop"
    BY NoneIsNone DEF Reasons
<1>5. ASSUME NEW why \in {"length", "stop"}, k > Len(Pieces), fr = <<bare(why), ended(why)>>
      PROVE  Emits(u, fr[1], fr[2]) /\ fr[1].kind = "json"
    <2> DEFINE f == bare(why)
               v == ended(why)
    <2> HIDE DEF data
    <2>1. /\ f \in Frames /\ f.kind = "json" /\ f.event = "none" /\ f.recs = <<>> /\ f.finish = why
          /\ f.usage = None
        BY <1>3, <1>4 DEF Frames
    <2>2. v \in Uppers /\ v.style = u.style /\ v.sent = u.sent /\ v.reason = why /\ v.phase = "finished"
        BY <1>4 DEF Uppers
    <2>3. fr = <<f, v>> /\ FirstSent + v.sent > Len(Pieces)
        BY <1>5, <2>2
    <2> HIDE DEF f, v
    <2>4. FrameOK(f)
        BY <1>2, <2>1 DEF FrameOK, ProviderFrame
    <2>5. ProviderEmits(u, f, v)
        BY <1>4, <2>1, <2>2, <2>3 DEF ProviderEmits
    <2> QED
        BY <2>1, <2>2, <2>3, <2>4, <2>5 DEF Emits
<1>6. CASE fr = <<with, more>>
    <2> DEFINE f == with
    <2> HIDE DEF data, rec
    <2>1. /\ f \in Frames /\ f.kind = "json" /\ f.event = "none" /\ f.recs = <<rec>> /\ f.finish = None
          /\ f.usage = None
        <3>1. <<rec>> \in Seq(Positions(Nat))
            BY <1>2
        <3>2. f \in Frames
            BY <1>3, <3>1 DEF Frames
        <3> QED
            BY <1>3, <3>2 DEF Frames
    <2>2. more \in Uppers /\ more.style = u.style /\ more.sent = u.sent + 1 /\ more.reason = u.reason
          /\ more.phase = "more"
        BY DEF Uppers
    <2>3. fr = <<f, more>>
        BY <1>6
    <2> HIDE DEF f, with, more
    <2>4. FrameOK(f)
        BY <1>2, <2>1, OneFrame DEF FrameOK, ProviderFrame
    <2>5. ProviderEmits(u, f, more)
        BY <2>1, <2>2 DEF ProviderEmits
    <2> QED
        BY <2>1, <2>2, <2>3, <2>4, <2>5 DEF Emits, rec
<1>7. CASE k >= Len(Pieces) /\ fr = <<[with EXCEPT !.finish = "length"], last>>
    <2> DEFINE f == [with EXCEPT !.finish = "length"]
    <2> HIDE DEF data, rec
    <2>1. /\ f \in Frames /\ f.kind = "json" /\ f.event = "none" /\ f.recs = <<rec>> /\ f.finish = "length"
          /\ f.usage = None
        BY <1>2, <1>3, <1>4, OneFrame DEF Frames
    <2>2. last \in Uppers /\ last.style = u.style /\ last.sent = u.sent + 1 /\ last.reason = "length"
          /\ last.phase = "finished"
        <3> DEFINE e == ended("length")
        <3>1. e \in Uppers /\ e.style = u.style /\ e.sent = u.sent /\ e.reason = "length" /\ e.phase = "finished"
            BY <1>4 DEF Uppers
        <3>2. last = [e EXCEPT !.sent = @ + 1]
            OBVIOUS
        <3> HIDE DEF e, last
        <3>3. last \in Uppers /\ last.style = e.style /\ last.sent = e.sent + 1
            BY <3>1, <3>2, OneMoreSent
        <3>4. last.reason = e.reason /\ last.phase = e.phase
            BY <3>1, <3>2, OneMoreSent
        <3> QED
            BY <3>1, <3>3, <3>4, Zenon
    <2>3. fr = <<f, last>> /\ FirstSent + last.sent > Len(Pieces)
        BY <1>0, <1>7, <2>2
    <2> HIDE DEF f, with, last
    <2>4. FrameOK(f)
        BY <1>2, <2>1, OneFrame DEF FrameOK, ProviderFrame
    <2>5. ProviderEmits(u, f, last)
        BY <1>4, <2>1, <2>2, <2>3 DEF ProviderEmits
    <2> QED
        BY <2>1, <2>2, <2>3, <2>4, <2>5 DEF Emits, rec
<1> QED
    BY <1>1, <1>5, <1>6, <1>7

\* A report on a frame leaves what else it does alone.
LEMMA DataEmits ==
    ASSUME ~p.host, Pieces \in Seq(Nat), http.body.want \in Nat, FirstSent \in Nat,
           NEW u \in Uppers, u.phase = "more", Position(FirstSent + u.sent) \in Positions(Nat),
           NEW fr \in DataFrames(u)
    PROVE  Emits(u, fr[1], fr[2])
<1>0. PICK c \in Chunks(u) : \E report \in Reports(c[2]) : fr = <<[c[1] EXCEPT !.usage = report], c[2]>>
    BY DEF DataFrames
<1>1. PICK report \in Reports(c[2]) : fr = <<[c[1] EXCEPT !.usage = report], c[2]>>
    BY <1>0
<1> DEFINE f == c[1]
           v == c[2]
           g == [f EXCEPT !.usage = report]
<1>2. Emits(u, f, v) /\ f.kind = "json"
    BY ChunkEmits
<1>3. fr = <<g, v>>
    BY <1>1
<1> HIDE DEF f, v
<1>4. f \in Frames /\ v \in Uppers /\ FrameOK(f) /\ ProviderEmits(u, f, v)
    BY <1>2 DEF Emits
<1>5. report \in Usages \cup {None}
    BY <1>1, <1>4, ReportType DEF Reports, v
<1>6. /\ g \in Frames /\ g.kind = f.kind /\ g.event = f.event /\ g.recs = f.recs
      /\ g.finish = f.finish /\ g.error = f.error
    BY <1>4, <1>5 DEF Frames
<1> HIDE DEF g
<1>7. FrameOK(g)
    BY <1>2, <1>4, <1>6 DEF FrameOK, ProviderFrame
<1>8. ProviderEmits(u, g, v)
    BY <1>2, <1>4, <1>6 DEF ProviderEmits
<1> QED
    BY <1>2, <1>3, <1>6, <1>7, <1>8 DEF Emits

LEMMA NextFramesEmit ==
    ASSUME Pieces \in Seq(Nat), http.body.want \in Nat, http.body.logprobs.top \in Int,
           http.body.last \in (Nat \ {0}) \cup {None}, NEW u \in Uppers,
           ~p.host /\ u.phase # "more" /\ u.phase # "closed" => FirstSent + u.sent > Len(Pieces),
           NEW fr \in NextFrames(u)
    PROVE  Emits(u, fr[1], fr[2])
<1>1. FirstSent \in Nat /\ FirstSent + u.sent \in Nat \ {0}
    BY FirstSentType DEF Uppers
<1>2. Position(FirstSent + u.sent) \in Positions(Nat)
    BY <1>1, PositionType
<1>3. /\ u.phase # "ended"
      /\ fr \in Noise(u) \/ fr \in Closing(u)
         \/ (u.phase = "more" /\ p.host /\ fr \in HostFrames(u))
         \/ (u.phase = "more" /\ ~p.host /\ fr \in DataFrames(u))
    BY DEF NextFrames
<1>4. CASE fr \in Noise(u)
    BY <1>3, <1>4, NoiseEmits
<1>5. CASE fr \in Closing(u)
    BY <1>1, <1>3, <1>5, ClosingEmits
<1>6. CASE u.phase = "more" /\ p.host /\ fr \in HostFrames(u)
    BY <1>2, <1>6, StepEmits
<1>7. CASE u.phase = "more" /\ ~p.host /\ fr \in DataFrames(u)
    BY <1>1, <1>2, <1>7, DataEmits
<1> QED
    BY <1>3, <1>4, <1>5, <1>6, <1>7

\* The frames are those of a provider or those of a GPU host, and the positions
\* of a GPU host have ids.
FramesFit ==
    /\ \A j \in DOMAIN wire : FrameOK(wire[j])
    /\ \A j \in DOMAIN rd.buf : FrameOK(rd.buf[j])
    /\ p.host => /\ \A j \in DOMAIN rd.recs : rd.recs[j].id # None
                 /\ \A j \in DOMAIN rd.buf : \A m \in DOMAIN rd.buf[j].recs : rd.buf[j].recs[m].id # None

\* The first invariant: the types, what goes with the stage, and which frames
\* there are.
Shape == Control /\ FramesFit

\* Members of the types that many steps use.
LEMMA Usable ==
    /\ \A i \in Insts : i.interned \in Seq(Seq(Nat)) /\ i.known \subseteq Nat
                        /\ i.tokenizer \in {"untried", "ready", "absent"}
    /\ \A u \in Usages \cup {None}, e \in BOOLEAN : PlainEntry(u, e) \in Entries /\ PlainEntry(u, e).usage = u
    /\ NewInstance \in Insts /\ NoUp \in Uppers /\ NewReader \in Readers /\ NoSink \in Sinks
    /\ Len(NewReader.held) = 0 /\ Len(NewReader.buf) = 0
    /\ NewReader.buf = <<>> /\ NewReader.recs = <<>> /\ NewReader.held = <<>> /\ NewReader.echoed = <<>>
    /\ NewReader.emitting = FALSE /\ NewReader.running = 0 /\ NewReader.finish = None
<1>1. \A i \in Insts : i.interned \in Seq(Seq(Nat)) /\ i.known \subseteq Nat
                       /\ i.tokenizer \in {"untried", "ready", "absent"}
    BY DEF Insts
<1>2. ASSUME NEW u \in Usages \cup {None}, NEW e \in BOOLEAN
      PROVE  PlainEntry(u, e) \in Entries /\ PlainEntry(u, e).usage = u
    <2>1. <<>> \in Seq(Nat) /\ 0 \in Nat /\ None \in Reasons \cup {None}
        OBVIOUS
    <2>2. PlainEntry(u, e) = [text |-> <<>>, positions |-> 0, finish |-> None, usage |-> u, error |-> e]
        BY DEF PlainEntry
    <2> DEFINE x == PlainEntry(u, e)
    <2>3. x = [text |-> <<>>, positions |-> 0, finish |-> None, usage |-> u, error |-> e]
        BY <2>2
    <2> HIDE DEF x
    <2>4. x \in Entries /\ x.usage = u
        BY <2>1, <2>3 DEF Entries
    <2> QED
        BY <2>4 DEF x
<1>3. NewInstance \in Insts
    <2>1. <<>> \in Seq(Seq(Nat))
        OBVIOUS
    <2> QED
        BY <2>1 DEF NewInstance, Insts
<1>4. NoUp \in Uppers
    BY DEF NoUp, Uppers
<1>5. NewReader \in Readers
    <2>1. <<>> \in Seq(Frames) /\ <<>> \in Seq(Positions(Nat)) /\ <<>> \in Seq([pos : Nat, k : Nat])
        OBVIOUS
    <2> QED
        BY <2>1 DEF NewReader, Readers
<1>6. NoSink \in Sinks
    BY DEF NoSink, Sinks
<1>7. Len(NewReader.held) = 0 /\ Len(NewReader.buf) = 0
    BY DEF NewReader
<1>8. /\ NewReader.buf = <<>> /\ NewReader.recs = <<>> /\ NewReader.held = <<>> /\ NewReader.echoed = <<>>
      /\ NewReader.emitting = FALSE /\ NewReader.running = 0 /\ NewReader.finish = None
    BY DEF NewReader
<1> QED
    BY <1>1, <1>2, <1>3, <1>4, <1>5, <1>6, <1>7, <1>8

LEMMA Appended ==
    /\ \A e \in Entries : entries \in Seq(Entries) => Append(entries, e) \in Seq(Entries)
    /\ \A s \in Steps : steps \in Seq(Steps) => Append(steps, s) \in Seq(Steps)
    /\ \A f \in Frames : wire \in Seq(Frames) => Append(wire, f) \in Seq(Frames)
OBVIOUS

\* What is written to the usage dict.
LEMMA Recorded ==
    ASSUME NEW s \in Sinks, NEW usage \in Usages \cup {None}
    PROVE  /\ RecordRequest(s) \in Sinks
           /\ RecordRequest(s).prompt = s.prompt /\ RecordRequest(s).completion = s.completion
           /\ RecordRequest(s).noted = s.noted
           /\ ~p.host => RecordRequest(s).requests = s.requests + 1
           /\ RecordTokens(s, usage) \in Sinks
           /\ RecordTokens(s, usage).requests = s.requests /\ RecordTokens(s, usage).noted = s.noted
           /\ ~p.host => /\ RecordTokens(s, usage).prompt =
                               PlusOf(s.prompt, IF usage = None THEN None ELSE usage.prompt)
                         /\ RecordTokens(s, usage).completion =
                               PlusOf(s.completion, IF usage = None THEN None ELSE usage.completion)
<1>1. /\ RecordRequest(s) \in Sinks
      /\ RecordRequest(s).prompt = s.prompt /\ RecordRequest(s).completion = s.completion
      /\ RecordRequest(s).noted = s.noted
      /\ ~p.host => RecordRequest(s).requests = s.requests + 1
    BY DEF RecordRequest, Sinks
<1>2. CASE p.host \/ usage = None
    <2>1. RecordTokens(s, usage) = s
        BY <1>2 DEF RecordTokens
    <2>2. ASSUME ~p.host
          PROVE  /\ s.prompt = PlusOf(s.prompt, IF usage = None THEN None ELSE usage.prompt)
                 /\ s.completion = PlusOf(s.completion, IF usage = None THEN None ELSE usage.completion)
        BY <1>2, <2>2 DEF PlusOf
    <2> QED
        BY <1>1, <2>1, <2>2, Zenon
<1>3. CASE ~(p.host \/ usage = None)
    <2>1. usage.prompt \in Nat /\ usage.completion \in Nat
        BY <1>3 DEF Usages
    <2>2. usage.prompt # None /\ usage.completion # None
        BY <2>1, NoneIsNone
    <2> DEFINE a == PlusOf(s.prompt, usage.prompt)
               b == PlusOf(s.completion, usage.completion)
    <2>3. s.prompt \in Nat \cup {None} /\ s.completion \in Nat \cup {None}
        BY DEF Sinks
    <2>4. a \in Nat /\ b \in Nat
        BY <2>1, <2>2, <2>3 DEF PlusOf
    <2>5. RecordTokens(s, usage) = [s EXCEPT !.prompt = a, !.completion = b]
        BY <1>3, <2>2 DEF RecordTokens, PlusOf
    <2>6. a = PlusOf(s.prompt, IF usage = None THEN None ELSE usage.prompt)
          /\ b = PlusOf(s.completion, IF usage = None THEN None ELSE usage.completion)
        BY <1>3
    <2> HIDE DEF a, b
    <2> DEFINE x == RecordTokens(s, usage)
    <2>7. x = [s EXCEPT !.prompt = a, !.completion = b]
        BY <2>5
    <2> HIDE DEF x
    <2>8. /\ x \in Sinks /\ x.requests = s.requests /\ x.noted = s.noted
          /\ x.prompt = a /\ x.completion = b
        BY <2>4, <2>7 DEF Sinks
    <2> QED
        BY <1>1, <2>6, <2>8, Zenon DEF x
<1> QED
    BY <1>1, <1>2, <1>3

LEMMA UsageType ==
    ASSUME Pieces \in Seq(Nat), NEW n \in Nat
    PROVE  Usage(n) \in Usages
BY DEF Usage, Usages

\* The way a call is decoded goes with its provider.
LEMMA WayIs ==
    ASSUME NEW call, call.way = Way(p, call)
    PROVE  /\ p.host => call.way = "remote"
           /\ ~p.host => call.way \in {"steps", "native", "combined"}
BY DEF Way

\* The call goes on to its tokens.
LEMMA Enters ==
    ASSUME p \in Provider, NEW i \in Insts, NEW call, Asked(call), NEW s \in Sinks, EnterDecoding(i, call, s)
    PROVE  /\ at' \in {"step", "open"} /\ (at' = "step" <=> call.way = "steps")
           /\ inst' \in Insts /\ Grows(i, inst')
           /\ at' = "step" => Knows(inst', call.prompt)
           /\ sink' \in Sinks /\ sink'.requests = s.requests
           /\ sink'.prompt = s.prompt /\ sink'.completion = s.completion
           /\ http' = [body |-> http'.body, tries |-> http'.tries]
           /\ http'.tries = 0 /\ BodyFits(http'.body)
           /\ http'.body = BodyAt(at', IF at' = "step" THEN inst' ELSE i, call, <<>>)
           /\ at' = "open" => StreamBodyFits(http'.body, call)
           /\ sink'.noted = (call.way \in {"native", "combined"} /\ ~call.respectEos
                             /\ ~FlagForModel(p, "ignore_eos"))
<1>0. /\ call.prompt \in Seq(Nat) /\ call.picks \in Seq(Nat) /\ call.way = Way(p, call)
    BY ConcatTypes DEF Asked
<1>1. ClientPrompt(i, call) \in Seq(Nat)
    <2>1. Detokenize(i, call.picks) \in Seq(Nat)
        BY <1>0, DetokenizeIsJoin
    <2>2. call.prompt \o Detokenize(i, call.picks) \in Seq(Nat)
        BY <1>0, <2>1, ConcatTypes
    <2> QED
        BY <1>0, <2>2 DEF ClientPrompt
<1>2. at' = IF call.way = "steps" THEN "step" ELSE "open"
    BY DEF EnterDecoding, Decoding
<1> DEFINE text == IF call.way = "steps" THEN call.prompt ELSE ClientPrompt(i, call)
<1>3. inst' = IF call.way = "remote" THEN i ELSE Tokenized(i, text)
    BY DEF EnterDecoding
<1>4. text \in Seq(Nat) /\ (call.way = "steps" => text = call.prompt)
    BY <1>0, <1>1
<1> HIDE DEF text
<1>5. /\ inst' \in Insts /\ Grows(i, inst')
      /\ at' = "step" => Knows(inst', call.prompt)
    <2>1. Tokenized(i, text) \in Insts /\ Grows(i, Tokenized(i, text)) /\ Knows(Tokenized(i, text), text)
        BY <1>4, TokenizedKnows
    <2>2. Grows(i, i)
        BY GrowsOrder
    <2> QED
        BY <1>2, <1>3, <1>4, <2>1, <2>2
<1> DEFINE j == IF at' = "step" THEN inst' ELSE i
<1>6. http' = [body |-> BodyAt(at', j, call, <<>>), tries |-> 0]
    BY <1>2 DEF EnterDecoding, Decoding
<1>7. j \in Insts /\ (at' = "step" => Knows(j, call.prompt)) /\ <<>> \in Seq(Nat)
      /\ at' \in {"score", "step", "open"} /\ (at' = "open" => call.way # "steps")
    BY <1>2, <1>5
<1> HIDE DEF j
<1>8. /\ BodyFits(BodyAt(at', j, call, <<>>))
      /\ at' = "open" => StreamBodyFits(BodyAt(at', j, call, <<>>), call)
    BY <1>7, BodyOfCall
<1>9. sink' = [s EXCEPT !.noted = call.way \in {"native", "combined"} /\ ~call.respectEos
                                  /\ ~FlagForModel(p, "ignore_eos")]
    BY DEF EnterDecoding
<1>10. /\ sink' \in Sinks /\ sink'.requests = s.requests
       /\ sink'.prompt = s.prompt /\ sink'.completion = s.completion
       /\ sink'.noted = (call.way \in {"native", "combined"} /\ ~call.respectEos /\ ~FlagForModel(p, "ignore_eos"))
    BY <1>9 DEF Sinks
<1>11. /\ http'.tries = 0 /\ http'.body = BodyAt(at', j, call, <<>>)
       /\ http' = [body |-> http'.body, tries |-> http'.tries]
    BY <1>6
<1> QED
    BY <1>2, <1>5, <1>8, <1>10, <1>11 DEF j

=============================================================================
