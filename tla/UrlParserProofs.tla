--------------------------- MODULE UrlParserProofs ---------------------------
(***************************************************************************)
(* The lexer and the parser, for any sources and any URLs spelled by them, *)
(* whatever an int, a float and memory hold.                               *)
(***************************************************************************)
EXTENDS UrlParser, FiniteSetTheorems, SequenceTheorems, WellFoundedInduction, TLAPS

(* The token at hand is one of the source, and the lexer is behind it.     *)
TokenInv ==
  /\ \E pos \in 0..Len(source) : m_current = lexNext(pos)
  /\ m_pos = After(m_current)

(* What was scanned of the path is one.  After a word no word can follow,  *)
(* and after a slash nothing but a word: so whatever ends the path ends    *)
(* every path of the source.                                               *)
LongestPath == Max({n \in 0..Len(source) : IsPath(n)})
PathInv ==
  /\ at \in {"path", "segment"} => path_length = m_current.begin /\ IsPath(path_length)
  /\ at = "path" =>
       \/ path_length = 0
       \/ /\ source[path_length] \in Wordy
          /\ path_length < Len(source) => source[path_length + 1] \notin Wordy
  /\ at = "segment" => path_length > 0 /\ source[path_length] = "/"
  /\ at \notin {"path", "segment"} => path_length = LongestPath

(* A value is behind a '='.                                                *)
ValueInv == at = "value" => m_current.begin > 0 /\ source[m_current.begin] = "="

(* The process only dies on an item.                                       *)
DeadInv == ~alive => at \in {"item", "assign", "value"}

SourceInv == source \in Sources
QueryInv == \E S : query \in Seq(S)

UrlInv == TypeOK /\ SourceInv /\ QueryInv /\ TokenInv /\ PathInv /\ ValueInv
            /\ DeadInv /\ DiesOnlyOn

-----------------------------------------------------------------------------
(* Least and greatest numbers. *)

LEMMA LeastNumber ==
  ASSUME NEW T \in SUBSET Nat, T # {}
  PROVE  \E x \in T : \A y \in T : x <= y
<1> DEFINE R == {ss \in Nat \X Nat : ss[1] < ss[2]}
<1>1. IsWellFoundedOn(R, Nat)
  BY NatLessThanWellFounded DEF OpToRel
<1>2. PICK x \in T : \A y \in T : ~(<<y, x>> \in R)
  <2> HIDE DEF R
  <2> QED BY <1>1, WFMin
<1>3. ASSUME NEW y \in T
      PROVE  x <= y
  <2>1. x \in Nat /\ y \in Nat
    OBVIOUS
  <2>2. <<y, x>> \in R <=> y < x
    BY <2>1
  <2> QED
    BY <1>2, <2>1, <2>2
<1> QED
  BY <1>3

(* What holds of 0 and of every number up to n with the one before it.     *)
LEMMA UpTo ==
  ASSUME NEW n \in Nat, NEW G, 0 \in G, \A i \in 1..n : i - 1 \in G => i \in G
  PROVE  \A i \in 0..n : i \in G
<1> DEFINE bad == {i \in 0..n : i \notin G}
<1> SUFFICES ASSUME bad # {}
             PROVE  FALSE
  OBVIOUS
<1>1. PICK i \in bad : \A j \in bad : i <= j
  <2>1. bad \in SUBSET Nat
    OBVIOUS
  <2> HIDE DEF bad
  <2> QED
    BY <2>1, LeastNumber
<1>2. i \in 1..n /\ i - 1 \in 0..n /\ ~(i <= i - 1)
  BY <1>1
<1>3. i - 1 \in G
  BY <1>1, <1>2
<1> QED
  BY <1>1, <1>2, <1>3

LEMMA MaxIs ==
  ASSUME NEW S \in SUBSET Int, NEW m \in S, \A n \in S : n <= m
  PROVE  Max(S) = m
<1>1. \A x \in S : (\A y \in S : x >= y) => x = m
  OBVIOUS
<1>2. m \in S /\ \A y \in S : m >= y
  OBVIOUS
<1> QED
  BY <1>1, <1>2 DEF Max

-----------------------------------------------------------------------------
(* Sequences laid end to end. *)

(* The recursion that FlattenSeq is defined by has a solution.             *)
LEMMA FlattenDef ==
  ASSUME NEW seqs, Len(seqs) \in Nat
  PROVE  \E g : g = [i \in 1..Len(seqs) |-> IF i = 1 THEN seqs[i] ELSE g[i - 1] \o seqs[i]]
<1> DEFINE n == Len(seqs)
           Solves(g, m) == g = [i \in 1..m |-> IF i = 1 THEN seqs[i] ELSE g[i - 1] \o seqs[i]]
           G == {m \in 0..n : \E g : Solves(g, m)}
<1>1. 0 \in G
  <2>1. <<>> = [i \in 1..0 |-> IF i = 1 THEN seqs[i] ELSE <<>>[i - 1] \o seqs[i]]
    OBVIOUS
  <2>2. Solves(<<>>, 0)
    BY <2>1
  <2> HIDE DEF Solves
  <2> QED
    BY <2>2
<1>2. ASSUME NEW m \in 1..n, m - 1 \in G
      PROVE  m \in G
  <2>1. PICK g : g = [i \in 1..m - 1 |-> IF i = 1 THEN seqs[i] ELSE g[i - 1] \o seqs[i]]
    BY <1>2
  <2> DEFINE last == IF m = 1 THEN seqs[m] ELSE g[m - 1] \o seqs[m]
             h == [i \in 1..m |-> IF i = m THEN last ELSE g[i]]
  <2>2. ASSUME NEW i \in 1..m
        PROVE  h[i] = IF i = 1 THEN seqs[i] ELSE h[i - 1] \o seqs[i]
    <3>1. CASE i = m
      <4>1. CASE m = 1
        BY <3>1, <4>1
      <4>2. CASE m # 1
        <5>1. m - 1 \in 1..m /\ m - 1 # m
          BY <4>2
        <5> QED
          BY <3>1, <4>2, <5>1
      <4> QED
        BY <4>1, <4>2
    <3>2. CASE i # m
      <4>1. i \in 1..m - 1
        BY <3>2
      <4>2. g[i] = IF i = 1 THEN seqs[i] ELSE g[i - 1] \o seqs[i]
        BY <2>1, <4>1
      <4>3. h[i] = g[i]
        BY <3>2
      <4>4. i # 1 => i - 1 \in 1..m /\ i - 1 # m
        BY <3>2
      <4>5. i # 1 => h[i - 1] = g[i - 1]
        BY <4>4
      <4> QED
        BY <4>2, <4>3, <4>5
    <3> QED
      BY <3>1, <3>2
  <2>3. h = [i \in 1..m |-> h[i]]
    OBVIOUS
  <2> HIDE DEF h
  <2>4. h = [i \in 1..m |-> IF i = 1 THEN seqs[i] ELSE h[i - 1] \o seqs[i]]
    BY <2>2, <2>3, Zenon
  <2>5. Solves(h, m)
    BY <2>4
  <2> HIDE DEF Solves
  <2> QED
    BY <2>5
<1> HIDE DEF G
<1>3. n \in Nat
  OBVIOUS
<1>4. \A i \in 0..n : i \in G
  BY <1>1, <1>2, <1>3, UpTo
<1>5. n \in G
  BY <1>3, <1>4
<1>6. PICK g : Solves(g, n)
  BY <1>5 DEF G
<1> QED
  BY <1>6

LEMMA FlattenRec ==
  ASSUME NEW seqs, Len(seqs) \in Nat \ {0}
  PROVE  \E g : /\ g = [i \in 1..Len(seqs) |-> IF i = 1 THEN seqs[i] ELSE g[i - 1] \o seqs[i]]
                /\ FlattenSeq(seqs) = g[Len(seqs)]
<1> DEFINE gg == CHOOSE g : g = [i \in 1..Len(seqs) |-> IF i = 1 THEN seqs[i] ELSE g[i - 1] \o seqs[i]]
<1>1. gg = [i \in 1..Len(seqs) |-> IF i = 1 THEN seqs[i] ELSE gg[i - 1] \o seqs[i]]
  BY FlattenDef, Zenon
<1>2. FlattenSeq(seqs) = gg[Len(seqs)]
  BY Zenon DEF FlattenSeq
<1> QED BY <1>1, <1>2, Zenon

LEMMA ConcatIs ==
  ASSUME NEW S, NEW s \in Seq(S), NEW t \in Seq(S)
  PROVE  /\ s \o t \in Seq(S) /\ Len(s \o t) = Len(s) + Len(t)
         /\ \A x \in 1..Len(s) : (s \o t)[x] = s[x]
         /\ \A x \in 1..Len(t) : (s \o t)[Len(s) + x] = t[x]
<1> DEFINE c == s \o t
<1>1. /\ c \in Seq(S) /\ Len(c) = Len(s) + Len(t) /\ Len(s) \in Nat /\ Len(t) \in Nat
      /\ \A i \in 1..Len(s) + Len(t) : c[i] = IF i <= Len(s) THEN s[i] ELSE t[i - Len(s)]
  BY ConcatProperties
<1> HIDE DEF c
<1>2. ASSUME NEW x \in 1..Len(s)
      PROVE  c[x] = s[x]
  BY <1>1
<1>3. ASSUME NEW x \in 1..Len(t)
      PROVE  c[Len(s) + x] = t[x]
  <2>1. /\ Len(s) + x \in 1..Len(s) + Len(t) /\ ~(Len(s) + x <= Len(s))
        /\ (Len(s) + x) - Len(s) = x
    BY <1>1
  <2> QED
    BY <1>1, <2>1
<1> QED
  BY <1>1, <1>2, <1>3 DEF c

(* A flattened sequence is its parts laid end to end: the i-th ends at     *)
(* e[i].                                                                   *)
LaidOut(s, parts, e) ==
  /\ e \in [0..Len(parts) -> 0..Len(s)]
  /\ e[0] = 0 /\ e[Len(parts)] = Len(s)
  /\ \A i \in 1..Len(parts) :
       /\ e[i] = e[i - 1] + Len(parts[i])
       /\ \A x \in 1..Len(parts[i]) : s[e[i - 1] + x] = parts[i][x]

LEMMA FlattenIs ==
  ASSUME NEW S, NEW parts \in Seq(Seq(S))
  PROVE  FlattenSeq(parts) \in Seq(S) /\ \E e : LaidOut(FlattenSeq(parts), parts, e)
<1> DEFINE n == Len(parts)
           flat == FlattenSeq(parts)
<1>1. n \in Nat /\ \A i \in 1..n : parts[i] \in Seq(S)
  OBVIOUS
<1>2. CASE n = 0
  <2>1. flat = parts
    BY <1>2 DEF FlattenSeq
  <2>2. parts = <<>>
    BY <1>2, EmptySeq
  <2> DEFINE e == [i \in 0..0 |-> 0]
  <2>3. flat = <<>> /\ flat \in Seq(S)
    BY <2>1, <2>2
  <2>4. e \in [0..n -> 0..Len(flat)] /\ e[0] = 0 /\ e[n] = Len(flat)
    BY <1>2, <2>3
  <2>5. LaidOut(flat, parts, e)
    BY <1>2, <2>4 DEF LaidOut
  <2> QED
    BY <2>3, <2>5
<1>3. CASE n # 0
  <2>1. n \in Nat \ {0}
    BY <1>1, <1>3
  <2>2. PICK g : /\ g = [i \in 1..n |-> IF i = 1 THEN parts[i] ELSE g[i - 1] \o parts[i]]
                 /\ flat = g[n]
    BY <2>1, FlattenRec, Zenon
  <2>3. g[1] = parts[1]
    BY <2>1, <2>2
  <2>4. \A i \in 2..n : g[i] = g[i - 1] \o parts[i]
    <3>1. \A i \in 2..n : i \in 1..n /\ i # 1
      BY <2>1
    <3> QED
      BY <2>2, <3>1
  <2> DEFINE pre == [i \in 0..n |-> IF i = 0 THEN <<>> ELSE g[i]]
  <2>5. pre[0] = <<>> /\ pre[n] = flat
    BY <2>1, <2>2
  <2>6. \A i \in 1..n : pre[i] = g[i] /\ (i > 1 => pre[i - 1] = g[i - 1])
    OBVIOUS
  <2> HIDE DEF pre
  <2>7. ASSUME NEW i \in 1..n, pre[i - 1] \in Seq(S)
        PROVE  /\ pre[i] \in Seq(S) /\ Len(pre[i]) = Len(pre[i - 1]) + Len(parts[i])
               /\ \A x \in 1..Len(pre[i - 1]) : pre[i][x] = pre[i - 1][x]
               /\ \A x \in 1..Len(parts[i]) : pre[i][Len(pre[i - 1]) + x] = parts[i][x]
    <3>1. CASE i = 1
      <4>1. pre[i] = parts[i] /\ pre[i - 1] = <<>> /\ parts[i] \in Seq(S)
        BY <1>1, <2>3, <2>5, <2>6, <3>1
      <4>2. Len(pre[i - 1]) = 0 /\ Len(parts[i]) \in Nat
        BY <4>1
      <4> QED
        BY <4>1, <4>2
    <3>2. CASE i # 1
      <4>1. i \in 2..n /\ i > 1
        BY <3>2
      <4>2. pre[i] = pre[i - 1] \o parts[i] /\ parts[i] \in Seq(S)
        BY <1>1, <2>4, <2>6, <4>1
      <4>3. PICK p \in Seq(S) : p = pre[i - 1]
        BY <2>7
      <4>4. PICK q \in Seq(S) : q = parts[i]
        BY <4>2
      <4>5. /\ p \o q \in Seq(S) /\ Len(p \o q) = Len(p) + Len(q)
            /\ \A x \in 1..Len(p) : (p \o q)[x] = p[x]
            /\ \A x \in 1..Len(q) : (p \o q)[Len(p) + x] = q[x]
        BY ConcatIs
      <4> QED
        BY <4>2, <4>3, <4>4, <4>5, Zenon
    <3> QED
      BY <3>1, <3>2
  <2> DEFINE G == {i \in 0..n : pre[i] \in Seq(S)}
  <2>8. \A i \in 0..n : pre[i] \in Seq(S)
    <3>1. 0 \in G
      <4>1. <<>> \in Seq(S) /\ 0 \in 0..n
        BY <2>1
      <4>2. pre[0] \in Seq(S)
        BY <2>5, <4>1, Zenon
      <4> QED
        BY <4>1, <4>2
    <3>2. ASSUME NEW i \in 1..n, i - 1 \in G
          PROVE  i \in G
      <4>1. pre[i] \in Seq(S)
        BY <2>7, <3>2
      <4> QED
        BY <4>1
    <3> HIDE DEF G
    <3>3. \A i \in 0..n : i \in G
      BY <2>1, <3>1, <3>2, UpTo
    <3> QED
      BY <3>3 DEF G
  <2> DEFINE e == [i \in 0..n |-> Len(pre[i])]
             l == [i \in 1..n |-> Len(parts[i])]
  <2>9. \A i \in 0..n : e[i] = Len(pre[i]) /\ e[i] \in Nat
    BY <2>8
  <2>10. \A i \in 1..n : l[i] = Len(parts[i]) /\ l[i] \in Nat
    BY <1>1
  <2>11. e = [i \in 0..n |-> e[i]]
    OBVIOUS
  <2> HIDE DEF e, l
  <2>12. \A i \in 1..n :
           /\ i \in 0..n /\ i - 1 \in 0..n
           /\ e[i] = e[i - 1] + l[i]
           /\ \A x \in 1..e[i - 1] : pre[i][x] = pre[i - 1][x]
           /\ \A x \in 1..l[i] : pre[i][e[i - 1] + x] = parts[i][x]
    <3> SUFFICES ASSUME NEW i \in 1..n
                 PROVE  /\ i \in 0..n /\ i - 1 \in 0..n
                        /\ e[i] = e[i - 1] + l[i]
                        /\ \A x \in 1..e[i - 1] : pre[i][x] = pre[i - 1][x]
                        /\ \A x \in 1..l[i] : pre[i][e[i - 1] + x] = parts[i][x]
      OBVIOUS
    <3>1. i \in 0..n /\ i - 1 \in 0..n
      OBVIOUS
    <3>2. e[i] = Len(pre[i]) /\ e[i - 1] = Len(pre[i - 1]) /\ l[i] = Len(parts[i])
      BY <2>9, <2>10, <3>1
    <3> QED
      BY <2>7, <2>8, <3>1, <3>2
  <2>13. ASSUME NEW i \in 0..n
         PROVE  e[i] <= e[n] /\ \A x \in 1..e[i] : flat[x] = pre[i][x]
    <3> DEFINE H == {m \in 0..n : m < i \/ (/\ e[i] <= e[m]
                                            /\ \A x \in 1..e[i] : pre[m][x] = pre[i][x])}
    <3>1. 0 \in H
      <4>1. CASE i = 0
        BY <2>9, <4>1
      <4>2. CASE i # 0
        BY <4>2
      <4> QED
        BY <4>1, <4>2
    <3>2. ASSUME NEW m \in 1..n, m - 1 \in H
          PROVE  m \in H
      <4>1. CASE m < i
        BY <4>1
      <4>2. CASE m = i
        BY <2>9, <4>2
      <4>3. CASE m > i
        <5>1. m - 1 >= i /\ m - 1 \in 0..n /\ ~(m - 1 < i)
          BY <4>3
        <5>2. e[i] <= e[m - 1] /\ \A x \in 1..e[i] : pre[m - 1][x] = pre[i][x]
          BY <3>2, <5>1
        <5>3. e[i] \in Nat /\ e[m - 1] \in Nat /\ l[m] \in Nat /\ e[m] = e[m - 1] + l[m]
          BY <2>9, <2>10, <2>12, <5>1
        <5>4. e[i] <= e[m] /\ \A x \in 1..e[i] : x \in 1..e[m - 1]
          BY <5>2, <5>3
        <5>5. \A x \in 1..e[i] : pre[m][x] = pre[i][x]
          BY <2>12, <5>2, <5>4
        <5> QED
          BY <5>4, <5>5
      <4> QED
        BY <4>1, <4>2, <4>3
    <3> HIDE DEF H
    <3>3. \A m \in 0..n : m \in H
      BY <2>1, <3>1, <3>2, UpTo
    <3>4. n \in H /\ ~(n < i)
      BY <2>1, <3>3
    <3> QED
      BY <2>5, <3>4 DEF H
  <2>14. flat \in Seq(S) /\ Len(flat) = e[n] /\ e[n] \in Nat
    BY <2>1, <2>5, <2>8, <2>9
  <2>15. e \in [0..n -> 0..e[n]] /\ e[0] = 0
    <3>1. \A i \in 0..n : e[i] \in 0..e[n]
      BY <2>9, <2>13, <2>14
    <3>2. e[0] = Len(<<>>)
      BY <2>1, <2>5, <2>9
    <3> QED
      BY <2>11, <3>1, <3>2
  <2> HIDE DEF flat
  <2>16. ASSUME NEW i \in 1..n
         PROVE  /\ e[i] = e[i - 1] + Len(parts[i])
                /\ \A x \in 1..Len(parts[i]) : flat[e[i - 1] + x] = parts[i][x]
    <3>1. /\ e[i] = e[i - 1] + l[i] /\ e[i - 1] \in Nat /\ l[i] \in Nat /\ l[i] = Len(parts[i])
          /\ i \in 0..n
      BY <2>9, <2>10, <2>12
    <3>2. \A x \in 1..l[i] : e[i - 1] + x \in 1..e[i]
      BY <3>1
    <3>3. \A x \in 1..l[i] : flat[e[i - 1] + x] = pre[i][e[i - 1] + x]
      BY <2>13, <3>1, <3>2
    <3> QED
      BY <2>12, <3>1, <3>3
  <2>17. LaidOut(flat, parts, e)
    BY <2>14, <2>15, <2>16 DEF LaidOut
  <2> QED
    BY <2>14, <2>17 DEF flat
<1> QED
  BY <1>2, <1>3

-----------------------------------------------------------------------------
(* The lexer. *)

(* The longest run of such characters, from a place on.                    *)
LEMMA LengthIs ==
  ASSUME source \in Seq(Characters), NEW pos \in 0..Len(source), NEW chars
  PROVE  /\ Length(pos, chars) \in 0..Len(source) - pos
         /\ \A i \in 1..Length(pos, chars) : source[pos + i] \in chars
         /\ pos + Length(pos, chars) < Len(source) =>
              source[pos + Length(pos, chars) + 1] \notin chars
<1> DEFINE rest == Len(source) - pos
           ends == {n \in Nat : n <= rest /\ (n < rest => source[pos + n + 1] \notin chars)}
           runs == {n \in 0..rest : \A i \in 1..n : source[pos + i] \in chars}
<1>1. Len(source) \in Nat /\ pos \in Nat /\ rest \in Nat
  OBVIOUS
<1>2. rest \in ends
  BY <1>1
<1>3. PICK l \in ends : \A n \in ends : l <= n
  BY <1>2, LeastNumber
<1>4. l \in Nat /\ l <= rest /\ (l < rest => source[pos + l + 1] \notin chars)
  BY <1>3
<1>5. \A i \in 1..l : source[pos + i] \in chars
  <2> SUFFICES ASSUME NEW i \in 1..l, source[pos + i] \notin chars
               PROVE  FALSE
    OBVIOUS
  <2>1. i - 1 \in Nat /\ i - 1 < l /\ i - 1 < rest /\ pos + (i - 1) + 1 = pos + i
    BY <1>1, <1>4
  <2>2. i - 1 \in ends
    BY <2>1
  <2> QED
    BY <1>3, <2>1, <2>2
<1>6. l \in runs
  BY <1>1, <1>4, <1>5
<1>7. \A n \in runs : n <= l
  <2> SUFFICES ASSUME NEW n \in runs, n > l
               PROVE  FALSE
    BY <1>1, <1>4
  <2>1. l + 1 \in 1..n /\ l < rest
    BY <1>1, <1>4
  <2>2. source[pos + (l + 1)] \in chars
    BY <2>1
  <2>3. pos + (l + 1) = pos + l + 1
    BY <1>1, <1>4
  <2> QED
    BY <1>4, <2>1, <2>2, <2>3
<1>8. Length(pos, chars) = l
  <2>1. runs \in SUBSET Int
    BY <1>1
  <2> HIDE DEF runs
  <2>2. Max(runs) = l
    BY <1>6, <1>7, <2>1, MaxIs
  <2> QED
    BY <2>2 DEF Length, runs
<1> QED
  BY <1>1, <1>4, <1>5, <1>8

LEMMA SinglesAre ==
  /\ DOMAIN Singles = {"/", "?", "&", "=", "#"}
  /\ Singles["/"] = "path_split" /\ Singles["?"] = "query_start"
  /\ Singles["&"] = "query_split" /\ Singles["="] = "query_assign"
  /\ Singles["#"] = "unknown"
  BY DEF Singles

LEMMA NumericIs ==
  ASSUME source \in Seq(Characters), NEW pos \in 0..Len(source)
  PROVE  /\ lexNumeric(pos).begin = pos
         /\ lexNumeric(pos).length = Length(pos, Numeric)
         /\ lexNumeric(pos).tag \in {"integral_num", "float_num", "unknown"}
  BY DEF lexNumeric

(* A token by the characters it begins with.                               *)
LEMMA TokenIs ==
  ASSUME source \in Seq(Characters), NEW pos \in 0..Len(source)
  PROVE  LET t == lexNext(pos) IN
         /\ t.begin = pos /\ t.tag \in Tags /\ t.length \in Nat
         /\ After(t) \in pos..Len(source)
         /\ t.tag = "path_split" =>
              pos < Len(source) /\ source[pos + 1] = "/" /\ t.length = 1 /\ After(t) = pos + 1
         /\ pos < Len(source) /\ source[pos + 1] = "/" => t.tag = "path_split"
         /\ t.tag = "query_assign" =>
              pos < Len(source) /\ source[pos + 1] = "=" /\ After(t) = pos + 1
         /\ t.tag = "wordy" =>
              /\ pos < Len(source) /\ source[pos + 1] = "a"
              /\ t.length = Length(pos, Wordy) /\ t.length > 0 /\ After(t) = pos + t.length
         /\ pos < Len(source) /\ source[pos + 1] = "a" => t.tag = "wordy"
         /\ t.tag \in {"integral_num", "float_num"} =>
              pos < Len(source) /\ source[pos + 1] \in Numeric /\ t = lexNumeric(pos)
<1> DEFINE t == lexNext(pos)
           c == source[pos + 1]
<1>1. Len(source) \in Nat /\ pos \in Nat /\ pos <= Len(source)
  OBVIOUS
<1>2. CASE pos = Len(source)
  <2>1. t = [begin |-> pos, length |-> 1, tag |-> "eos"]
    BY <1>1, <1>2 DEF lexNext
  <2> QED
    BY <1>1, <1>2, <2>1 DEF After, Tags
<1>3. CASE pos < Len(source)
  <2>1. c \in Characters /\ pos + 1 \in 1..Len(source)
    BY <1>1, <1>3
  <2>2. CASE c \in DOMAIN Singles
    <3>1. t = [begin |-> pos, length |-> 1, tag |-> Singles[c]]
      BY <1>1, <1>3, <2>2 DEF lexNext
    <3>2. /\ t.begin = pos /\ t.length = 1 /\ t.tag = Singles[c]
          /\ t.tag \in {"path_split", "query_start", "query_split", "query_assign", "unknown"}
          /\ t.tag = "path_split" <=> c = "/"
          /\ t.tag = "query_assign" <=> c = "="
          /\ c # "a"
      BY <2>2, <3>1, SinglesAre
    <3>3. After(t) = pos + 1
      BY <3>2 DEF After
    <3> HIDE DEF t, c
    <3>4. t.tag \in Tags
      BY <3>2 DEF Tags
    <3> QED
      BY <1>1, <1>3, <3>2, <3>3, <3>4 DEF t, c
  <2>3. CASE c \in Numeric
    <3>1. c \notin DOMAIN Singles /\ c # "a" /\ c # "/"
      BY <2>3, SinglesAre DEF Numeric
    <3>2. t = lexNumeric(pos)
      BY <1>1, <1>3, <2>3, <3>1 DEF lexNext
    <3>3. /\ t.begin = pos /\ t.length = Length(pos, Numeric)
          /\ t.tag \in {"integral_num", "float_num", "unknown"}
      BY <3>2, NumericIs
    <3>4. t.length \in Nat /\ pos + t.length <= Len(source)
      BY <1>1, <3>3, LengthIs
    <3>5. After(t) = pos + t.length
      BY <3>3 DEF After
    <3>6. t.tag \in Tags
      BY <3>3 DEF Tags
    <3> HIDE DEF t
    <3> QED
      BY <1>1, <1>3, <2>3, <3>1, <3>2, <3>3, <3>4, <3>5, <3>6 DEF t
  <2>4. CASE c = "a"
    <3>1. c \notin DOMAIN Singles /\ c \notin Numeric /\ c # "/" /\ c # "="
      BY <2>4, SinglesAre DEF Numeric
    <3>2. t = [begin |-> pos, length |-> Length(pos, Wordy), tag |-> "wordy"]
      BY <1>1, <1>3, <3>1 DEF lexNext
    <3>3. t.begin = pos /\ t.length = Length(pos, Wordy) /\ t.tag = "wordy"
      BY <3>2
    <3>4. t.length \in Nat /\ pos + t.length <= Len(source)
      BY <1>1, <3>3, LengthIs
    <3>5. t.length # 0
      <4> DEFINE l == Length(pos, Wordy)
      <4>1. l \in Nat /\ (pos + l < Len(source) => source[pos + l + 1] \notin Wordy)
        BY <1>1, LengthIs
      <4>2. c \in Wordy
        BY <2>4 DEF Wordy
      <4> HIDE DEF l
      <4>3. l # 0
        BY <1>1, <1>3, <4>1, <4>2
      <4> QED
        BY <3>3, <4>3 DEF l
    <3>6. After(t) = pos + t.length
      BY <3>3 DEF After
    <3>7. t.tag \in Tags
      BY <3>3 DEF Tags
    <3> HIDE DEF t
    <3> QED
      BY <1>1, <1>3, <2>4, <3>1, <3>3, <3>4, <3>5, <3>6, <3>7 DEF t
  <2> QED
    BY <2>1, <2>2, <2>3, <2>4, SinglesAre DEF Characters, Numeric
<1> QED
  BY <1>1, <1>2, <1>3

(* The source stays, and with it what is lexed at a place.                 *)
LEMMA TokenStays ==
  ASSUME source' = source
  PROVE  /\ \A n : lexNext(n)' = lexNext(n)
         /\ \A n : IsPath(n)' = IsPath(n)
         /\ LongestPath' = LongestPath
<1>1. \A n, chars : Length(n, chars)' = Length(n, chars)
  BY DEF Length
<1>2. \A t : Dots(t)' = Dots(t)
  BY DEF Dots, Lexeme
<1>3. \A n : lexNumeric(n)' = lexNumeric(n)
  BY <1>1, <1>2 DEF lexNumeric
<1>4. \A n : lexNext(n)' = lexNext(n)
  BY <1>1, <1>3 DEF lexNext
<1>5. \A n : IsPath(n)' = IsPath(n)
  BY DEF IsPath
<1> QED
  BY <1>4, <1>5 DEF LongestPath

-----------------------------------------------------------------------------
(* The token at hand. *)

LEMMA CurrentIs ==
  ASSUME TypeOK, TokenInv
  PROVE  LET pos == m_current.begin IN
         /\ source \in Seq(Characters) /\ Len(source) \in Nat
         /\ pos \in 0..Len(source) /\ m_current.length \in Nat
         /\ m_pos \in pos..Len(source)
         /\ m_current.tag = "path_split" =>
              pos < Len(source) /\ source[pos + 1] = "/" /\ m_pos = pos + 1
         /\ pos < Len(source) /\ source[pos + 1] = "/" => m_current.tag = "path_split"
         /\ m_current.tag = "query_assign" =>
              pos < Len(source) /\ source[pos + 1] = "=" /\ m_pos = pos + 1
         /\ m_current.tag = "wordy" =>
              /\ pos < Len(source) /\ source[pos + 1] = "a"
              /\ m_current.length = Length(pos, Wordy) /\ m_current.length > 0
              /\ m_pos = pos + m_current.length
         /\ pos < Len(source) /\ source[pos + 1] = "a" => m_current.tag = "wordy"
         /\ m_current.tag \in {"integral_num", "float_num"} =>
              pos < Len(source) /\ source[pos + 1] \in Numeric /\ m_current = lexNumeric(pos)
<1>1. source \in Seq(Characters) /\ Len(source) \in Nat
  BY DEF TypeOK
<1>2. PICK pos \in 0..Len(source) : m_current = lexNext(pos)
  BY DEF TokenInv
<1>3. m_current.begin = pos /\ m_pos = After(m_current)
  BY <1>1, <1>2, TokenIs DEF TokenInv
<1> QED
  BY <1>1, <1>2, <1>3, TokenIs

LEMMA ConsumeToken ==
  ASSUME TypeOK, TokenInv, consume, source' = source
  PROVE  /\ TokenInv' /\ m_current'.begin = m_pos
         /\ m_pos' \in 0..Len(source) /\ m_current'.tag \in Tags
<1>1. source \in Seq(Characters) /\ m_pos \in 0..Len(source) /\ Len(source) \in Nat
  BY DEF TypeOK
<1>2. PICK pos \in 0..Len(source) : pos = m_pos
  BY <1>1
<1>3. m_current' = lexNext(pos) /\ m_pos' = After(lexNext(pos))
  BY <1>2 DEF consume
<1>4. lexNext(pos).begin = pos /\ lexNext(pos).tag \in Tags /\ After(lexNext(pos)) \in pos..Len(source)
  BY <1>1, TokenIs
<1>5. lexNext(pos)' = lexNext(pos)
  BY TokenStays
<1>6. m_pos' = After(m_current)'
  BY <1>3 DEF After
<1>7. TokenInv'
  BY <1>3, <1>5, <1>6 DEF TokenInv
<1> QED
  BY <1>1, <1>2, <1>3, <1>4, <1>7

LEMMA StayToken ==
  ASSUME TypeOK, TokenInv, Stay, source' = source
  PROVE  /\ TokenInv' /\ m_current' = m_current
         /\ m_pos' \in 0..Len(source) /\ m_current'.tag \in Tags
<1>1. m_current' = m_current /\ m_pos' = m_pos
  BY DEF Stay
<1>2. \A pos : lexNext(pos)' = lexNext(pos)
  BY TokenStays
<1> QED
  BY <1>1, <1>2 DEF TypeOK, TokenInv, After

-----------------------------------------------------------------------------
(* The path. *)

(* At its end, wherever that is, what was scanned is the longest path.     *)
LEMMA PathEndsLongest ==
  ASSUME TypeOK, TokenInv, PathInv, PathEnds
  PROVE  path_length = LongestPath
<1> DEFINE p == path_length
           lengths == {n \in 0..Len(source) : IsPath(n)}
<1>1. p = m_current.begin /\ IsPath(p) /\ p \in 0..Len(source) /\ Len(source) \in Nat
  BY CurrentIs DEF PathInv, PathEnds, Step
<1>2. ASSUME NEW n \in 0..Len(source), IsPath(n), n > p
      PROVE  FALSE
  <2>1. /\ p \in Nat /\ p < Len(source) /\ p + 1 \in 1..n
        /\ p > 0 => p \in 1..n - 1
    BY <1>1, <1>2
  <2>2. /\ source[1] = "/"
        /\ source[p + 1] \in {"/"} \cup Wordy
        /\ p > 0 /\ source[p] = "/" => source[p + 1] = "a"
    BY <1>1, <1>2, <2>1 DEF IsPath
  <2>3. CASE at = "segment"
    <3>1. m_current.tag = "wordy"
      BY <1>1, <2>1, <2>2, <2>3, CurrentIs DEF PathInv
    <3> QED
      BY <2>3, <3>1 DEF PathEnds, Step
  <2>4. CASE at = "path"
    <3>1. m_current.tag # "path_split"
      BY <2>4 DEF PathEnds, Step
    <3>2. source[p + 1] # "/"
      BY <1>1, <2>1, <3>1, CurrentIs
    <3>3. p # 0
      BY <2>2, <3>2
    <3>4. source[p + 1] \notin Wordy
      BY <2>1, <2>4, <3>3 DEF PathInv
    <3> QED
      BY <2>2, <3>2, <3>4
  <2> QED
    BY <2>3, <2>4 DEF PathEnds, Step
<1>3. lengths \in SUBSET Int /\ p \in lengths
  BY <1>1
<1>4. \A n \in lengths : n <= p
  BY <1>1, <1>2
<1> HIDE DEF lengths
<1>5. Max(lengths) = p
  BY <1>3, <1>4, MaxIs
<1> QED
  BY <1>5 DEF LongestPath, lengths

LEMMA PathSplitInv ==
  ASSUME TypeOK, TokenInv, PathInv, PathSplit
  PROVE  PathInv' /\ path_length' \in 0..Len(source)
<1> DEFINE p == path_length
<1>1. /\ p = m_current.begin /\ IsPath(p) /\ p \in Nat /\ Len(source) \in Nat /\ p < Len(source)
      /\ source[p + 1] = "/" /\ m_pos = p + 1
      /\ p = 0 \/ source[p] \in Wordy
  BY CurrentIs DEF PathInv, PathSplit, Step
<1>2. IsPath(p + 1)
  <2>1. source[1] = "/"
    <3>1. CASE p = 0
      BY <1>1, <3>1
    <3>2. CASE p > 0
      BY <1>1, <3>2 DEF IsPath
    <3> QED
      BY <1>1, <3>1, <3>2
  <2>2. \A i \in 1..p + 1 : i \in 1..p \/ i = p + 1
    BY <1>1
  <2>3. \A i \in 1..p + 1 : source[i] \in {"/"} \cup Wordy
    BY <1>1, <2>2 DEF IsPath
  <2>4. \A i \in 1..(p + 1) - 1 : i \in 1..p - 1 \/ (i = p /\ p > 0)
    BY <1>1
  <2>5. "/" \notin Wordy
    BY DEF Wordy
  <2>6. \A i \in 1..(p + 1) - 1 : source[i] = "/" => source[i + 1] = "a"
    BY <1>1, <2>4, <2>5 DEF IsPath
  <2> QED
    BY <2>1, <2>3, <2>6 DEF IsPath
<1>3. /\ source' = source /\ at' = "segment" /\ path_length' = p + 1
      /\ m_current'.begin = p + 1
  BY <1>1, ConsumeToken DEF PathSplit, Step
<1>4. PICK q \in Nat : q = p + 1
  BY <1>1
<1>5. IsPath(path_length)'
  <2>1. IsPath(q)' = IsPath(q) /\ IsPath(q)
    BY <1>2, <1>3, <1>4, TokenStays
  <2>2. path_length' = q
    BY <1>3, <1>4
  <2> QED
    BY <2>1, <2>2 DEF IsPath
<1> QED
  BY <1>1, <1>3, <1>5 DEF PathInv

LEMMA SegmentInv ==
  ASSUME TypeOK, TokenInv, PathInv, Segment
  PROVE  PathInv' /\ path_length' \in 0..Len(source)
<1> DEFINE p == path_length
           l == Length(p, Wordy)
<1>1. /\ p = m_current.begin /\ IsPath(p) /\ p \in Nat /\ p > 0 /\ source[p] = "/"
      /\ Len(source) \in Nat /\ p < Len(source) /\ source[p + 1] = "a"
      /\ m_current.length = l /\ l > 0 /\ m_pos = p + l
  BY CurrentIs DEF PathInv, Segment, Step
<1>2. /\ l \in 0..Len(source) - p
      /\ \A i \in 1..l : source[p + i] \in Wordy
      /\ p + l < Len(source) => source[p + l + 1] \notin Wordy
  BY <1>1, LengthIs DEF TypeOK
<1>2a. l \in Nat /\ p + l <= Len(source)
  BY <1>1, <1>2
<1>2b. p \in Nat
  BY <1>1
<1> HIDE DEF l, p
<1>3. PICK q \in Nat : q = p + l /\ q <= Len(source) /\ q > p
  BY <1>1, <1>2a
<1>4. \A i \in p + 1 .. q : source[i] \in Wordy
  <2> SUFFICES ASSUME NEW i \in p + 1 .. q
               PROVE  source[i] \in Wordy
    OBVIOUS
  <2>1. i - p \in 1..l /\ p + (i - p) = i
    BY <1>2a, <1>2b, <1>3
  <2> QED
    BY <1>2, <2>1
<1>5. IsPath(q)
  <2>1. source[1] = "/"
    BY <1>1 DEF IsPath
  <2>2. \A i \in 1..q : i \in 1..p \/ i \in p + 1 .. q
    BY <1>1, <1>3
  <2>3. \A i \in 1..q : source[i] \in {"/"} \cup Wordy
    BY <1>1, <1>4, <2>2 DEF IsPath
  <2>4. \A i \in 1..q - 1 : i \in 1..p - 1 \/ i = p \/ i \in p + 1 .. q
    BY <1>1, <1>3
  <2>5. "/" \notin Wordy
    BY DEF Wordy
  <2>6. \A i \in 1..q - 1 : source[i] = "/" => source[i + 1] = "a"
    BY <1>1, <1>4, <2>4, <2>5 DEF IsPath
  <2> QED
    BY <2>1, <2>3, <2>6 DEF IsPath
<1>6. /\ source' = source /\ at' = "path" /\ path_length' = q /\ m_current'.begin = q
  BY <1>1, <1>3, ConsumeToken DEF Segment, Step, p
<1>7. IsPath(path_length)'
  <2>1. IsPath(q)'
    BY <1>5, <1>6, TokenStays
  <2> QED
    BY <1>6, <2>1 DEF IsPath
<1>8. source[q] \in Wordy /\ (q < Len(source) => source[q + 1] \notin Wordy)
  BY <1>1, <1>2, <1>3, <1>4
<1> QED
  BY <1>3, <1>6, <1>7, <1>8 DEF PathInv

(* Behind its end the path stays as it was read.                           *)
LEMMA PathStays ==
  ASSUME PathInv, UNCHANGED <<source, path_length>>,
         at \notin {"path", "segment"}, at' \notin {"path", "segment"}
  PROVE  PathInv'
  BY TokenStays DEF PathInv

-----------------------------------------------------------------------------
(* Numbers. *)

(* A number that does not convert is out of range, or a dot alone.         *)
LEMMA NumberIs ==
  ASSUME source \in Seq(Characters), NEW pos \in 0..Len(source), pos < Len(source),
         source[pos + 1] \in Numeric,
         lexNumeric(pos).tag \in {"integral_num", "float_num"},
         ~Convertible(Lexeme(lexNumeric(pos)), lexNumeric(pos).tag)
  PROVE  LET s == Lexeme(lexNumeric(pos)) IN
         \/ Nines(s) > MaxInt /\ Nines(s) = Len(s)
         \/ s = <<".">> \/ Whole(s) > MaxFloat
<1> DEFINE t == lexNumeric(pos)
           s == Lexeme(t)
           l == Length(pos, Numeric)
           dots == {i \in DOMAIN s : s[i] = "."}
           nines == {i \in DOMAIN s : s[i] = "9"}
           whole == {i \in DOMAIN s : s[i] = "9" /\ \A j \in 1..i : s[j] # "."}
<1>1. /\ Len(source) \in Nat /\ pos \in Nat /\ l \in 0..Len(source) - pos
      /\ \A i \in 1..l : source[pos + i] \in Numeric
  BY LengthIs
<1>2. t.begin = pos /\ t.length = l
  BY NumericIs
<1>3. s = SubSeq(source, pos + 1, pos + l)
  BY <1>2 DEF Lexeme
<1> HIDE DEF t
<1>4. s \in Seq(Characters) /\ Len(s) = l /\ DOMAIN s = 1..l
      /\ \A i \in 1..l : s[i] = source[pos + i]
  <2>1. /\ pos + 1 \in 1..Len(source) + 1 /\ pos + l \in 0..Len(source)
        /\ (pos + l) - (pos + 1) + 1 = l /\ l \in Nat
    BY <1>1
  <2>2. \A i \in 1..l : (pos + 1) + i - 1 = pos + i
    BY <1>1
  <2> HIDE DEF l, s
  <2> QED
    BY <1>1, <1>3, <2>1, <2>2, SubSeqProperties
<1> HIDE DEF s
<1>5. \A i \in DOMAIN s : s[i] = "9" \/ s[i] = "."
  BY <1>1, <1>4 DEF Numeric
<1>6. /\ IsFiniteSet(DOMAIN s) /\ Cardinality(DOMAIN s) = l /\ l \in Nat
  BY <1>1, <1>4, FS_Interval
<1>7. IsFiniteSet(dots) /\ IsFiniteSet(nines) /\ IsFiniteSet(whole)
  <2>1. dots \in SUBSET DOMAIN s /\ nines \in SUBSET DOMAIN s /\ whole \in SUBSET DOMAIN s
    OBVIOUS
  <2> HIDE DEF dots, nines, whole
  <2> QED
    BY <1>6, <2>1, FS_Subset
<1>8. Nines(s) = Cardinality(nines) /\ Whole(s) = Cardinality(whole) /\ Dots(t) = Cardinality(dots)
  BY DEF Nines, Whole, Dots, s
<1>9. /\ Cardinality(nines) \in Nat /\ Cardinality(whole) \in Nat /\ Cardinality(dots) \in Nat
  BY <1>7, FS_CardinalityType
<1>10. /\ t.tag = "integral_num" => Dots(t) = 0
       /\ t.tag = "float_num" => Dots(t) = 1
  BY DEF t, lexNumeric, Dots, Lexeme
<1>11. CASE t.tag = "integral_num"
  <2>1. dots = {}
    <3> HIDE DEF dots
    <3> QED
      BY <1>7, <1>8, <1>10, <1>11, FS_EmptySet
  <2>2. nines = DOMAIN s
    BY <1>5, <2>1
  <2>3. Nines(s) = Len(s)
    BY <1>4, <1>6, <1>8, <2>2
  <2>4. ~(Nines(s) <= MaxInt)
    BY <1>11 DEF Convertible, t, s
  <2> QED
    BY <1>8, <1>9, <2>3, <2>4, UrlAssumption DEF t, s
<1>12. CASE t.tag = "float_num"
  <2>1. PICK d : dots = {d}
    <3> HIDE DEF dots
    <3> QED
      BY <1>7, <1>8, <1>10, <1>12, FS_Singleton
  <2>2. ~(Nines(s) > 0 /\ Whole(s) <= MaxFloat)
    BY <1>12 DEF Convertible, t, s
  <2>3. CASE Nines(s) > 0
    BY <1>8, <1>9, <2>2, <2>3, UrlAssumption DEF t, s
  <2>4. CASE Nines(s) = 0
    <3>1. nines = {}
      <4> HIDE DEF nines
      <4> QED
        BY <1>7, <1>8, <2>4, FS_EmptySet
    <3>2. \A i \in 1..l : s[i] = "." /\ i = d
      BY <1>4, <1>5, <2>1, <3>1
    <3>3. l = 1
      <4>1. d \in 1..l
        BY <1>4, <2>1
      <4>2. l >= 1 /\ 1 \in 1..l /\ l \in 1..l
        BY <1>6, <4>1
      <4> QED
        BY <3>2, <4>2
    <3>4. s = <<".">>
      BY <1>4, <3>2, <3>3
    <3> QED
      BY <3>4 DEF t, s
  <2> QED
    BY <1>8, <1>9, <2>3, <2>4
<1> QED
  BY <1>11, <1>12 DEF t

LEMMA UnconvertibleStays ==
  ASSUME source' = source
  PROVE  Unconvertible' = Unconvertible
  BY DEF Unconvertible, Lexeme, lexNumeric, Dots, Length, Nines, Whole

-----------------------------------------------------------------------------
(* The steps. *)

LEMMA InitUrlInv == Init => UrlInv
<1> SUFFICES ASSUME Init
             PROVE  UrlInv
  OBVIOUS
<1>1. /\ source \in Sources /\ source \in Seq(Characters) /\ Len(source) \in Nat
      /\ 0 \in 0..Len(source)
  BY UrlAssumption DEF Init
<1>2. /\ m_current = lexNext(0) /\ m_pos = After(lexNext(0)) /\ at = "path"
      /\ path_length = 0 /\ query = <<>> /\ alive = TRUE
  BY DEF Init
<1>3. /\ m_current.begin = 0 /\ m_current.tag \in Tags /\ m_pos \in 0..Len(source)
  BY <1>1, <1>2, TokenIs
<1>4. Len(query) <= MaxItems /\ query \in Seq({})
  BY <1>2, UrlAssumption
<1>5. TypeOK
  BY <1>1, <1>2, <1>3, <1>4 DEF TypeOK
<1>6. TokenInv
  BY <1>1, <1>2 DEF TokenInv
<1>7. IsPath(0)
  BY DEF IsPath
<1>8. PathInv
  BY <1>2, <1>3, <1>7 DEF PathInv
<1> QED
  BY <1>1, <1>2, <1>4, <1>5, <1>6, <1>8 DEF UrlInv, SourceInv, QueryInv, ValueInv, DeadInv, DiesOnlyOn

(* Every step of a parser that runs leaves or consumes the token at hand,  *)
(* and leaves the query or appends to it.                                  *)
LEMMA QueryGrows ==
  ASSUME UrlInv, NEW k, NEW v, Emplace(k, v)
  PROVE  QueryInv' /\ Len(query') <= MaxItems
<1>1. PICK S : query \in Seq(S)
  BY DEF UrlInv, QueryInv
<1> DEFINE e == [key |-> k, value |-> v]
           T == S \cup {e}
<1>2. query \in Seq(T) /\ e \in T
  BY <1>1
<1>3. query' = Append(query, e) /\ Len(query) < MaxItems /\ Len(query) \in Nat
  BY <1>1 DEF Emplace
<1> HIDE DEF e, T
<1>4. query' \in Seq(T) /\ Len(query') = Len(query) + 1
  BY <1>2, <1>3
<1> QED
  BY <1>3, <1>4, UrlAssumption DEF QueryInv

LEMMA RunningStep ==
  ASSUME UrlInv, alive, alive' = alive, source' = source,
         consume \/ Stay, UNCHANGED query \/ \E k, v : Emplace(k, v),
         at' \in {"path", "segment", "query", "item", "assign", "value", "split", "done"},
         path_length' \in 0..Len(source), PathInv', ValueInv'
  PROVE  UrlInv'
<1>1. TypeOK /\ TokenInv /\ SourceInv /\ QueryInv
  BY DEF UrlInv
<1>2. /\ TokenInv' /\ m_pos' \in 0..Len(source) /\ m_current'.tag \in Tags
      /\ m_current'.begin \in 0..Len(source)
  BY <1>1, ConsumeToken, StayToken DEF TypeOK
<1>3. QueryInv' /\ Len(query') <= MaxItems
  BY <1>1, QueryGrows DEF QueryInv, TypeOK
<1>4. TypeOK'
  BY <1>1, <1>2, <1>3 DEF TypeOK
<1> QED
  BY <1>1, <1>2, <1>3, <1>4 DEF UrlInv, SourceInv, DeadInv, DiesOnlyOn

LEMMA PathStepInv ==
  ASSUME UrlInv, parsePath
  PROVE  UrlInv'
<1>1. TypeOK /\ TokenInv /\ PathInv
  BY DEF UrlInv
<1>2. CASE PathSplit
  <2>1. PathInv' /\ path_length' \in 0..Len(source)
    BY <1>1, <1>2, PathSplitInv
  <2>2. ValueInv'
    BY <1>2 DEF PathSplit, Step, ValueInv
  <2> QED
    BY <1>2, <2>1, <2>2, RunningStep DEF PathSplit, Step
<1>3. CASE Segment
  <2>1. PathInv' /\ path_length' \in 0..Len(source)
    BY <1>1, <1>3, SegmentInv
  <2>2. ValueInv'
    BY <1>3 DEF Segment, Step, ValueInv
  <2> QED
    BY <1>3, <2>1, <2>2, RunningStep DEF Segment, Step
<1>4. CASE PathEnds
  <2>1. path_length = LongestPath
    BY <1>1, <1>4, PathEndsLongest
  <2>2. UNCHANGED <<source, path_length, query, alive>> /\ alive /\ at' = "query" /\ Stay
    BY <1>4 DEF PathEnds, Step, resultVars
  <2>3. PathInv'
    BY <2>1, <2>2, TokenStays DEF PathInv
  <2>4. ValueInv'
    BY <2>2 DEF ValueInv
  <2>5. path_length' \in 0..Len(source)
    BY <1>1, <2>2 DEF TypeOK
  <2> QED
    BY <2>2, <2>3, <2>4, <2>5, RunningStep
<1> QED
  BY <1>2, <1>3, <1>4 DEF parsePath

(* The steps of the query leave the path alone.                            *)
LEMMA QueryStep ==
  ASSUME UrlInv, alive, UNCHANGED <<source, path_length, alive>>,
         consume \/ Stay, UNCHANGED query \/ \E k, v : Emplace(k, v),
         at \in {"query", "item", "assign", "value", "split"},
         at' \in {"query", "item", "assign", "value", "split", "done"}, ValueInv'
  PROVE  UrlInv'
<1>1. PathInv'
  BY PathStays DEF UrlInv
<1>2. path_length' \in 0..Len(source)
  BY DEF UrlInv, TypeOK
<1> QED
  BY <1>1, <1>2, RunningStep

LEMMA AssignInv ==
  ASSUME UrlInv, Assign
  PROVE  UrlInv'
<1> DEFINE pos == m_current.begin
<1>1. pos < Len(source) /\ pos \in Nat /\ source[pos + 1] = "=" /\ m_pos = pos + 1
  BY CurrentIs DEF UrlInv, Assign, Step
<1>2. m_current'.begin = pos + 1 /\ source' = source
  BY <1>1, ConsumeToken DEF UrlInv, Assign
<1> HIDE DEF pos
<1>3. ValueInv'
  BY <1>1, <1>2 DEF ValueInv
<1> QED
  BY <1>3, QueryStep DEF Assign, Step, resultVars

LEMMA ItemStepInv ==
  ASSUME UrlInv, Key \/ NoKey \/ NoAssign \/ Value \/ NoValue
  PROVE  UrlInv'
<1>1. CASE Key
  BY <1>1, QueryStep DEF Key, Step, ValueInv
<1>2. CASE NoKey
  <2>1. Emplace(<<>>, Nil)
    BY <1>2 DEF NoKey
  <2> QED
    BY <1>2, <2>1, QueryStep DEF NoKey, Step, ValueInv, Emplace
<1>3. CASE NoAssign
  <2>1. Emplace(key, Nil)
    BY <1>3 DEF NoAssign
  <2> QED
    BY <1>3, <2>1, QueryStep DEF NoAssign, Step, ValueInv, Emplace
<1>4. CASE Value
  <2>1. Emplace(key, ValueOf(m_current))
    BY <1>4 DEF Value
  <2> QED
    BY <1>4, <2>1, QueryStep DEF Value, Step, ValueInv, Emplace
<1>5. CASE NoValue
  <2>1. Emplace(<<>>, Nil)
    BY <1>5 DEF NoValue
  <2> QED
    BY <1>5, <2>1, QueryStep DEF NoValue, Step, ValueInv, Emplace
<1> QED
  BY <1>1, <1>2, <1>3, <1>4, <1>5

(* What a step that leaves the parser where it is keeps.                   *)
LEMMA NothingParsed ==
  ASSUME UrlInv, UNCHANGED <<source, m_pos, m_current, at, resultVars>>, alive' \in BOOLEAN,
         alive \/ ~alive', alive' \/ at \in {"item", "assign", "value"},
         alive' \/ ~alive \/ Unconvertible \/ Len(query) > Len(source)
  PROVE  UrlInv'
<1>1. /\ \A n : lexNext(n)' = lexNext(n)
      /\ \A n : IsPath(n)' = IsPath(n)
      /\ LongestPath' = LongestPath /\ Unconvertible' = Unconvertible
  BY TokenStays, UnconvertibleStays
<1>2. TypeOK' /\ SourceInv' /\ QueryInv' /\ ValueInv' /\ DeadInv'
  BY DEF UrlInv, TypeOK, SourceInv, QueryInv, ValueInv, DeadInv, resultVars
<1>3. TokenInv'
  BY <1>1 DEF UrlInv, TokenInv, After
<1>4. IsPath(path_length)' = IsPath(path_length)
  BY DEF IsPath, resultVars
<1>5. PathInv'
  BY <1>1, <1>4 DEF UrlInv, PathInv, resultVars
<1>6. DiesOnlyOn'
  BY <1>1 DEF UrlInv, DiesOnlyOn, resultVars
<1> QED
  BY <1>2, <1>3, <1>5, <1>6 DEF UrlInv

LEMMA DeathInv ==
  ASSUME UrlInv, ValueThrows \/ MemoryRunsOut
  PROVE  UrlInv'
<1>1. CASE ValueThrows
  <2> DEFINE i == m_current.begin
  <2>1. /\ i \in 0..Len(source) /\ i < Len(source) /\ source[i + 1] \in Numeric
        /\ m_current = lexNumeric(i) /\ source \in Seq(Characters) /\ Len(source) \in Nat
    BY <1>1, CurrentIs DEF UrlInv, ValueThrows
  <2>2. i > 0 /\ source[i] = "="
    BY <1>1 DEF UrlInv, ValueInv, ValueThrows
  <2>3. /\ lexNumeric(i).tag \in {"integral_num", "float_num"}
        /\ ~Convertible(Lexeme(lexNumeric(i)), lexNumeric(i).tag)
    BY <1>1, <2>1 DEF ValueThrows
  <2> HIDE DEF i
  <2>4. i \in DOMAIN source
    BY <2>1, <2>2
  <2>5. LET s == Lexeme(lexNumeric(i)) IN
          \/ Nines(s) > MaxInt /\ Nines(s) = Len(s)
          \/ s = <<".">> \/ Whole(s) > MaxFloat
    BY <2>1, <2>3, NumberIs
  <2>6. Unconvertible
    BY <2>1, <2>2, <2>4, <2>5 DEF Unconvertible
  <2> QED
    BY <1>1, <2>6, NothingParsed DEF ValueThrows, Dies
<1>2. CASE MemoryRunsOut
  <2>1. Len(query) > Len(source)
    <3>1. Len(source) \in Nat /\ Len(query) \in Nat
      BY DEF UrlInv, TypeOK, QueryInv
    <3>2. Len(query) >= MaxItems /\ Len(source) < MaxItems /\ MaxItems \in Nat
      BY <1>2, UrlAssumption DEF UrlInv, SourceInv, MemoryRunsOut
    <3> QED
      BY <3>1, <3>2
  <2> QED
    BY <1>2, <2>1, NothingParsed DEF MemoryRunsOut, Dies
<1> QED
  BY <1>1, <1>2

LEMMA NextUrlInv == UrlInv /\ [Next]_vars => UrlInv'
<1> SUFFICES ASSUME UrlInv, [Next]_vars
             PROVE  UrlInv'
  OBVIOUS
<1>1. CASE parsePath
  BY <1>1, PathStepInv
<1>2. CASE QueryStart
  BY <1>2, QueryStep DEF QueryStart, Step, ValueInv, resultVars
<1>3. CASE Assign
  BY <1>3, AssignInv
<1>4. CASE Key \/ NoKey \/ NoAssign \/ Value \/ NoValue
  BY <1>4, ItemStepInv
<1>5. CASE ValueThrows \/ MemoryRunsOut
  BY <1>5, DeathInv
<1>6. CASE QuerySplit
  <2>1. alive
    BY <1>6 DEF QuerySplit, UrlInv, DeadInv, TypeOK
  <2> QED
    BY <1>6, <2>1, QueryStep DEF QuerySplit, ValueInv, resultVars
<1>7. CASE Return
  BY <1>7, QueryStep DEF Return, Step, ValueInv, resultVars
<1>8. CASE UNCHANGED vars
  BY <1>8, NothingParsed DEF vars, UrlInv, TypeOK, DeadInv, DiesOnlyOn
<1> QED
  BY <1>1, <1>2, <1>3, <1>4, <1>5, <1>6, <1>7, <1>8
     DEF Next, parseQueryChain, parseQueryItem

LEMMA UrlInvInductive == Spec => []UrlInv
  BY InitUrlInv, NextUrlInv, PTL DEF Spec

-----------------------------------------------------------------------------
(* What is lexed where. *)

(* A run of characters that ends where the source does or another begins.  *)
LEMMA RunIs ==
  ASSUME source \in Seq(Characters), NEW pos \in 0..Len(source), NEW chars,
         NEW n \in Nat, pos + n <= Len(source),
         \A i \in 1..n : source[pos + i] \in chars,
         pos + n < Len(source) => source[pos + n + 1] \notin chars
  PROVE  Length(pos, chars) = n
<1> DEFINE l == Length(pos, chars)
<1>1. Len(source) \in Nat /\ pos \in Nat
  OBVIOUS
<1>2. /\ l \in 0..Len(source) - pos
      /\ \A i \in 1..l : source[pos + i] \in chars
      /\ pos + l < Len(source) => source[pos + l + 1] \notin chars
  BY LengthIs
<1> HIDE DEF l
<1>3. l \in Nat /\ pos + l <= Len(source)
  BY <1>1, <1>2
<1>4. ~(l < n)
  <2> SUFFICES ASSUME l < n
               PROVE  FALSE
    OBVIOUS
  <2>1. l + 1 \in 1..n /\ pos + (l + 1) = pos + l + 1 /\ pos + l < Len(source)
    BY <1>1, <1>3
  <2>2. source[pos + (l + 1)] \in chars
    BY <2>1
  <2> QED
    BY <1>2, <2>1, <2>2
<1>5. ~(n < l)
  <2> SUFFICES ASSUME n < l
               PROVE  FALSE
    OBVIOUS
  <2>1. n + 1 \in 1..l /\ pos + (n + 1) = pos + n + 1 /\ pos + n < Len(source)
    BY <1>1, <1>3
  <2>2. source[pos + (n + 1)] \in chars
    BY <1>2, <2>1
  <2> QED
    BY <2>1, <2>2
<1> QED
  BY <1>3, <1>4, <1>5 DEF l

(* The lexeme of a token is what stands there.                             *)
LEMMA LexemeIs ==
  ASSUME source \in Seq(Characters), NEW pos \in 0..Len(source), NEW w \in Seq(Characters),
         pos + Len(w) <= Len(source),
         \A i \in 1..Len(w) : source[pos + i] = w[i],
         NEW t, t.begin = pos, t.length = Len(w)
  PROVE  Lexeme(t) = w
<1> DEFINE l == Len(w)
           s == SubSeq(source, pos + 1, pos + l)
<1>1. Len(source) \in Nat /\ pos \in Nat /\ l \in Nat
  OBVIOUS
<1>2. Lexeme(t) = s
  BY DEF Lexeme
<1>3. pos + 1 \in Int /\ pos + l \in Int /\ (pos + l) - (pos + 1) + 1 = l
      /\ (pos + 1 <= pos + l <=> l > 0)
  BY <1>1
<1>4. \A i \in (pos + 1)..(pos + l) : source[i] \in Characters
  <2>1. \A i \in (pos + 1)..(pos + l) : i \in 1..Len(source)
    BY <1>1
  <2> QED
    BY <2>1
<1>5. \A i \in 1..l : (pos + 1) + i - 1 = pos + i
  BY <1>1
<1> HIDE DEF l
<1>6. /\ s \in Seq(Characters)
      /\ Len(s) = (IF pos + 1 <= pos + l THEN (pos + l) - (pos + 1) + 1 ELSE 0)
      /\ \A i \in 1..(pos + l) - (pos + 1) + 1 : s[i] = source[(pos + 1) + i - 1]
  BY <1>3, <1>4, SubSeqProperties
<1> HIDE DEF s
<1>7. Len(s) = l
  BY <1>1, <1>3, <1>6
<1>8. \A i \in 1..l : s[i] = w[i]
  BY <1>3, <1>5, <1>6 DEF l
<1>9. s = w
  BY <1>6, <1>7, <1>8, SeqEqual DEF l
<1> QED
  BY <1>2, <1>9

(* A mark is a token of its own, and what ends the source is none.         *)
LEMMA MarkIs ==
  ASSUME source \in Seq(Characters), NEW pos \in 0..Len(source)
  PROVE  LET t == lexNext(pos) IN
         /\ pos < Len(source) /\ source[pos + 1] = "?" => t.tag = "query_start" /\ After(t) = pos + 1
         /\ pos < Len(source) /\ source[pos + 1] = "&" => t.tag = "query_split" /\ After(t) = pos + 1
         /\ pos < Len(source) /\ source[pos + 1] = "=" => t.tag = "query_assign" /\ After(t) = pos + 1
         /\ t.tag = "query_start" => pos < Len(source) /\ source[pos + 1] = "?"
         /\ t.tag = "eos" <=> pos = Len(source)
<1> DEFINE t == lexNext(pos)
           c == source[pos + 1]
<1>1. Len(source) \in Nat /\ pos \in Nat /\ pos <= Len(source)
  OBVIOUS
<1>2. CASE pos = Len(source)
  <2>1. t = [begin |-> pos, length |-> 1, tag |-> "eos"]
    BY <1>1, <1>2 DEF lexNext
  <2> QED
    BY <1>1, <1>2, <2>1
<1>3. CASE pos < Len(source)
  <2>1. CASE c \in DOMAIN Singles
    <3>1. t = [begin |-> pos, length |-> 1, tag |-> Singles[c]]
      BY <1>1, <1>3, <2>1 DEF lexNext
    <3>2. t.begin = pos /\ t.length = 1 /\ t.tag = Singles[c]
      BY <3>1
    <3>3. /\ t.tag = "query_start" <=> c = "?"
          /\ t.tag = "query_split" <=> c = "&"
          /\ t.tag = "query_assign" <=> c = "="
          /\ t.tag # "eos"
      BY <2>1, <3>2, SinglesAre
    <3>4. After(t) = pos + 1
      BY <3>2, <3>3 DEF After
    <3> HIDE DEF t, c
    <3> QED
      BY <1>1, <1>3, <3>3, <3>4 DEF t, c
  <2>2. CASE c \notin DOMAIN Singles
    <3>1. c # "?" /\ c # "&" /\ c # "="
      BY <2>2, SinglesAre
    <3>2. \/ t = lexNumeric(pos)
          \/ t = [begin |-> pos, length |-> Length(pos, Wordy), tag |-> "wordy"]
      BY <1>1, <1>3, <2>2 DEF lexNext
    <3>3. t.tag \in {"integral_num", "float_num", "unknown", "wordy"}
      BY <3>2, NumericIs
    <3> HIDE DEF t, c
    <3> QED
      BY <1>1, <1>3, <3>1, <3>3 DEF t, c
  <2> QED
    BY <2>1, <2>2
<1> QED
  BY <1>1, <1>2, <1>3

(* A word that ends where the source does or a mark begins is read.        *)
LEMMA WordRead ==
  ASSUME source \in Seq(Characters), NEW pos \in 0..Len(source), NEW w \in Words,
         pos + Len(w) <= Len(source),
         \A i \in 1..Len(w) : source[pos + i] = w[i],
         pos + Len(w) < Len(source) => source[pos + Len(w) + 1] \notin Wordy
  PROVE  LET t == lexNext(pos) IN
         t.tag = "wordy" /\ Lexeme(t) = w /\ After(t) = pos + Len(w)
<1> DEFINE t == lexNext(pos)
           l == Len(w)
<1>1. w \in Seq(Wordy) /\ w # <<>> /\ w[1] = "a"
  BY DEF Words
<1>2. l \in Nat /\ l > 0 /\ pos \in Nat /\ Len(source) \in Nat
  BY <1>1, EmptySeq
<1>3. w \in Seq(Characters)
  BY <1>1, SeqMonotonic DEF Wordy, Characters
<1>4. \A i \in 1..l : w[i] \in Wordy
  BY <1>1
<1>5. l = Length(pos, Wordy)
  BY <1>2, <1>4, RunIs
<1>6. t.tag = "wordy" /\ t.begin = pos /\ t.length = Length(pos, Wordy) /\ After(t) = pos + t.length
  <2>1. pos < Len(source) /\ source[pos + 1] = "a"
    BY <1>1, <1>2
  <2> QED
    BY <2>1, TokenIs
<1> HIDE DEF t
<1>7. Lexeme(t) = w
  BY <1>3, <1>5, <1>6, LexemeIs
<1> QED
  BY <1>5, <1>6, <1>7 DEF t

(* Digits, and a dot among them or none.                                   *)
NumberText(s, m, n) ==
  /\ s \in Seq(Characters) /\ Len(s) = m + 1 + n
  /\ \A i \in 1..m + 1 + n : s[i] = IF i = m + 1 THEN "." ELSE "9"
IntegerText(s, n) == s \in Seq(Characters) /\ Len(s) = n /\ \A i \in 1..n : s[i] = "9"

LEMMA IntegerCounts ==
  ASSUME NEW s, NEW n \in Nat, IntegerText(s, n)
  PROVE  Nines(s) = n /\ {i \in DOMAIN s : s[i] = "."} = {}
<1>1. DOMAIN s = 1..n /\ \A i \in 1..n : s[i] = "9"
  BY DEF IntegerText
<1>2. {i \in DOMAIN s : s[i] = "9"} = 1..n
  BY <1>1
<1>3. Cardinality(1..n) = n
  BY FS_Interval
<1>4. {i \in DOMAIN s : s[i] = "."} = {}
  BY <1>1
<1> QED
  BY <1>2, <1>3, <1>4 DEF Nines

LEMMA NumberCounts ==
  ASSUME NEW s, NEW m \in Nat, NEW n \in Nat, NumberText(s, m, n)
  PROVE  /\ Nines(s) = m + n /\ Whole(s) = m
         /\ {i \in DOMAIN s : s[i] = "."} = {m + 1}
<1> DEFINE l == m + 1 + n
           nines == {i \in DOMAIN s : s[i] = "9"}
           whole == {i \in DOMAIN s : s[i] = "9" /\ \A j \in 1..i : s[j] # "."}
<1>1. /\ DOMAIN s = 1..l /\ l \in Nat /\ m + 1 \in 1..l
      /\ \A i \in 1..l : s[i] = IF i = m + 1 THEN "." ELSE "9"
  BY DEF NumberText
<1>2. {i \in DOMAIN s : s[i] = "."} = {m + 1}
  BY <1>1
<1>3. nines = (1..l) \ {m + 1}
  BY <1>1
<1>4. whole = 1..m
  <2>1. \A i \in 1..m : i \in 1..l /\ i # m + 1 /\ \A j \in 1..i : j \in 1..l /\ j # m + 1
    OBVIOUS
  <2>2. \A i \in 1..m : i \in whole
    BY <1>1, <2>1
  <2>3. ASSUME NEW i \in whole
        PROVE  i \in 1..m
    <3>1. i \in 1..l /\ s[i] = "9" /\ \A j \in 1..i : s[j] # "."
      BY <1>1
    <3>2. s[m + 1] = "."
      BY <1>1
    <3>3. ~(m + 1 \in 1..i)
      BY <3>1, <3>2
    <3> QED
      BY <3>1, <3>3
  <2> HIDE DEF whole
  <2> QED
    BY <2>2, <2>3
<1>5. Cardinality(whole) = m
  <2>1. Cardinality(1..m) = m
    BY FS_Interval
  <2> HIDE DEF whole
  <2> QED
    BY <1>4, <2>1
<1>6. Cardinality(nines) = m + n
  <2>1. IsFiniteSet(1..l) /\ Cardinality(1..l) = l
    BY <1>1, FS_Interval
  <2>2. Cardinality((1..l) \ {m + 1}) = l - 1
    <3> DEFINE S == 1..l
    <3>1. IsFiniteSet(S) /\ m + 1 \in S /\ Cardinality(S) = l
      BY <1>1, <2>1
    <3> HIDE DEF S
    <3>2. Cardinality(S \ {m + 1}) = Cardinality(S) - 1
      BY <3>1, FS_RemoveElement
    <3> QED
      BY <3>1, <3>2 DEF S
  <2>3. l - 1 = m + n
    OBVIOUS
  <2> HIDE DEF nines
  <2> QED
    BY <1>3, <2>2, <2>3
<1> HIDE DEF nines, whole
<1> QED
  BY <1>2, <1>5, <1>6 DEF Nines, Whole, nines, whole

(* A number that ends where the source does or a mark begins is read.      *)
LEMMA NumberRead ==
  ASSUME source \in Seq(Characters), NEW pos \in 0..Len(source), NEW s \in Seq(Characters),
         Len(s) > 0, \A i \in 1..Len(s) : s[i] \in Numeric,
         pos + Len(s) <= Len(source),
         \A i \in 1..Len(s) : source[pos + i] = s[i],
         pos + Len(s) < Len(source) => source[pos + Len(s) + 1] \notin Numeric
  PROVE  LET t == lexNext(pos)
             dots == Cardinality({i \in DOMAIN s : s[i] = "."})
         IN
         /\ Lexeme(t) = s
         /\ dots = 0 => t.tag = "integral_num" /\ After(t) = pos + Len(s)
         /\ dots = 1 => t.tag = "float_num" /\ After(t) = pos + Len(s)
<1> DEFINE t == lexNext(pos)
           l == Len(s)
           dots == Cardinality({i \in DOMAIN s : s[i] = "."})
<1>1. l \in Nat /\ pos \in Nat /\ Len(source) \in Nat
  OBVIOUS
<1>2. l = Length(pos, Numeric)
  BY <1>1, RunIs
<1>3. t = lexNumeric(pos)
  <2>1. pos < Len(source) /\ source[pos + 1] \in Numeric
    BY <1>1
  <2>2. source[pos + 1] \notin DOMAIN Singles
    BY <2>1, SinglesAre DEF Numeric
  <2> QED
    BY <1>1, <2>1, <2>2 DEF lexNext
<1>4. t.begin = pos /\ t.length = l
  BY <1>2, <1>3, NumericIs
<1>5. Lexeme(t) = s
  <2> HIDE DEF t
  <2> QED
    BY <1>4, LexemeIs
<1> DEFINE token == [begin |-> pos, length |-> Length(pos, Numeric), tag |-> "unknown"]
<1>6. Dots(token) = dots
  <2>1. token.begin = pos /\ token.length = l
    BY <1>2
  <2> HIDE DEF token
  <2>2. Lexeme(token) = s
    BY <2>1, LexemeIs
  <2> QED
    BY <2>2 DEF Dots
<1>7. /\ dots = 0 => t.tag = "integral_num"
      /\ dots = 1 => t.tag = "float_num"
  <2>1. t = CASE Dots(token) = 0 -> [token EXCEPT !.tag = "integral_num"]
               [] Dots(token) = 1 -> [token EXCEPT !.tag = "float_num"]
               [] OTHER -> token
    BY <1>3 DEF lexNumeric
  <2> HIDE DEF t, dots
  <2> QED
    BY <1>6, <2>1
<1>8. t.tag # "eos" => After(t) = pos + l
  BY <1>4 DEF After
<1> HIDE DEF t, dots
<1> QED
  BY <1>5, <1>7, <1>8 DEF t, dots

(* What a value is spelled as, by its kind.                                *)
LEMMA SpelledIs ==
  ASSUME NEW v \in Values
  PROVE  LET s == Spelled(v) IN
         /\ s \in Seq(Characters)
         /\ v = Nil => s = <<>>
         /\ v # Nil =>
              \E text \in Seq(Characters) :
                /\ Len(s) = Len(text) + 1 /\ s[1] = "=" /\ \A i \in 1..Len(text) : s[i + 1] = text[i]
                /\ \/ \E n \in 1..MaxInt : v = [kind |-> "int", nines |-> n] /\ IntegerText(text, n)
                   \/ \E m \in 0..MaxFloat, n \in Nat :
                        /\ v = [kind |-> "float", whole |-> m, fraction |-> n]
                        /\ m + n > 0 /\ NumberText(text, m, n)
                   \/ text \in Words /\ v = [kind |-> "string", text |-> text]
<1> DEFINE s == Spelled(v)
<1>0. PICK equals \in Seq(Characters) : equals = <<"=">> /\ Len(equals) = 1 /\ equals[1] = "="
  <2>1. <<"=">> \in Seq(Characters) /\ Len(<<"=">>) = 1 /\ <<"=">>[1] = "="
    BY DEF Characters
  <2> QED
    BY <2>1, Zenon
<1>1. ASSUME NEW text \in Seq(Characters), s = equals \o text
      PROVE  /\ s \in Seq(Characters) /\ Len(s) = Len(text) + 1 /\ s[1] = "="
             /\ \A i \in 1..Len(text) : s[i + 1] = text[i]
  <2> HIDE DEF s
  <2> DEFINE c == equals \o text
  <2>0. /\ c \in Seq(Characters) /\ Len(c) = Len(equals) + Len(text)
        /\ \A i \in 1..Len(equals) : c[i] = equals[i]
        /\ \A i \in 1..Len(text) : c[Len(equals) + i] = text[i]
    BY ConcatIs
  <2> HIDE DEF c
  <2>1. /\ s \in Seq(Characters) /\ Len(s) = 1 + Len(text)
        /\ \A i \in 1..1 : s[i] = equals[i]
        /\ \A i \in 1..Len(text) : s[1 + i] = text[i]
    BY <1>0, <1>1, <2>0 DEF c
  <2>2. Len(text) \in Nat
    OBVIOUS
  <2>3. \A i \in 1..Len(text) : 1 + i = i + 1
    BY <2>2
  <2> QED
    BY <1>0, <2>1, <2>2, <2>3
<1>2. CASE v = Nil
  <2>1. s = <<>>
    BY <1>2 DEF Spelled, Nil
  <2> QED
    BY <1>2, <2>1
<1>3. CASE v \in [kind : {"int"}, nines : 1..MaxInt]
  <2>1. v.kind = "int" /\ v.nines \in 1..MaxInt /\ v = [kind |-> "int", nines |-> v.nines]
    BY <1>3
  <2>2. PICK n \in 1..MaxInt : n = v.nines
    BY <2>1
  <2> DEFINE text == [i \in 1..n |-> "9"]
  <2>3. n \in Nat /\ "9" \in Characters
    BY UrlAssumption DEF Characters
  <2>4. text \in Seq(Characters) /\ Len(text) = n /\ \A i \in 1..n : text[i] = "9"
    BY <2>3
  <2>5. s = equals \o text
    BY <1>0, <2>1, <2>2 DEF Spelled
  <2> HIDE DEF text, s
  <2>6. IntegerText(text, n)
    BY <2>4 DEF IntegerText
  <2>7. v # Nil
    BY <2>1 DEF Nil
  <2> QED
    BY <1>1, <2>1, <2>2, <2>4, <2>5, <2>6, <2>7 DEF s
<1>4. CASE v \in [kind : {"string"}, text : Words]
  <2>1. v.kind = "string" /\ v.text \in Words /\ v = [kind |-> "string", text |-> v.text]
    BY <1>4
  <2>2. PICK text \in Words : text = v.text
    BY <2>1
  <2>3. text \in Seq(Characters)
    BY SeqMonotonic DEF Words, Wordy, Characters
  <2>4. s = equals \o text
    BY <1>0, <2>1, <2>2 DEF Spelled
  <2>5. v # Nil
    BY <2>1 DEF Nil
  <2> HIDE DEF s
  <2> QED
    BY <1>1, <2>1, <2>2, <2>3, <2>4, <2>5 DEF s
<1>5. CASE v \in Floats
  <2>1. /\ v.kind = "float" /\ v.whole \in 0..MaxFloat /\ v.fraction \in Nat \ {0}
        /\ v = [kind |-> "float", whole |-> v.whole, fraction |-> v.fraction]
    BY <1>5 DEF Floats
  <2>2. PICK m \in 0..MaxFloat, n \in Nat \ {0} : m = v.whole /\ n = v.fraction
    BY <2>1
  <2> DEFINE l == m + 1 + n
             text == [i \in 1..l |-> IF i = m + 1 THEN "." ELSE "9"]
  <2>3. m \in Nat /\ n \in Nat /\ l \in Nat /\ "9" \in Characters /\ "." \in Characters
    BY UrlAssumption DEF Characters
  <2>4. /\ text \in Seq(Characters) /\ Len(text) = l
        /\ \A i \in 1..l : text[i] = IF i = m + 1 THEN "." ELSE "9"
    BY <2>3
  <2>5. s = equals \o text
    BY <1>0, <2>1, <2>2 DEF Spelled
  <2>6. NumberText(text, m, n)
    <3> HIDE DEF text
    <3> QED
      BY <2>4 DEF NumberText
  <2> HIDE DEF text, s
  <2>7. v # Nil
    BY <2>1 DEF Nil
  <2>8. m + n > 0
    BY <2>3, <2>2
  <2>9. v = [kind |-> "float", whole |-> m, fraction |-> n]
    BY <2>1, <2>2
  <2> QED
    BY <1>1, <2>4, <2>5, <2>6, <2>7, <2>8, <2>9 DEF s
<1> QED
  BY <1>2, <1>3, <1>4, <1>5 DEF Values

(* A value is read back, behind its '=' and up to what follows it.         *)
LEMMA ValueRead ==
  ASSUME source \in Seq(Characters), NEW pos \in 0..Len(source), NEW v \in Values, v # Nil,
         NEW end \in pos..Len(source), end + 1 = pos + Len(Spelled(v)),
         \A i \in 2..Len(Spelled(v)) : source[pos + i - 1] = Spelled(v)[i],
         end < Len(source) => source[end + 1] = "&"
  PROVE  LET t == lexNext(pos) IN
         /\ t.tag \in {"integral_num", "float_num", "wordy"}
         /\ t.tag # "wordy" => Convertible(Lexeme(t), t.tag)
         /\ ValueOf(t) = v /\ After(t) = end
<1> DEFINE t == lexNext(pos)
           s == Spelled(v)
<1>1. PICK text \in Seq(Characters) :
        /\ Len(s) = Len(text) + 1 /\ s[1] = "=" /\ \A i \in 1..Len(text) : s[i + 1] = text[i]
        /\ \/ \E n \in 1..MaxInt : v = [kind |-> "int", nines |-> n] /\ IntegerText(text, n)
           \/ \E m \in 0..MaxFloat, n \in Nat :
                /\ v = [kind |-> "float", whole |-> m, fraction |-> n]
                /\ m + n > 0 /\ NumberText(text, m, n)
           \/ text \in Words /\ v = [kind |-> "string", text |-> text]
  BY SpelledIs
<1> DEFINE l == Len(text)
<1>2. /\ l \in Nat /\ pos \in Nat /\ end \in Nat /\ Len(source) \in Nat
      /\ end = pos + l /\ end <= Len(source)
  BY <1>1
<1>3. \A i \in 1..l : source[pos + i] = text[i]
  <2> SUFFICES ASSUME NEW i \in 1..l
               PROVE  source[pos + i] = text[i]
    OBVIOUS
  <2>1. i + 1 \in 2..Len(s) /\ pos + (i + 1) - 1 = pos + i
    BY <1>1, <1>2
  <2>2. source[pos + (i + 1) - 1] = s[i + 1]
    BY <2>1
  <2> QED
    BY <1>1, <2>1, <2>2
<1>4. pos + l < Len(source) => source[pos + l + 1] \notin Numeric /\ source[pos + l + 1] \notin Wordy
  BY <1>2 DEF Numeric, Wordy
<1> HIDE DEF s, t
<1>5. CASE \E n \in 1..MaxInt : v = [kind |-> "int", nines |-> n] /\ IntegerText(text, n)
  <2>1. PICK n \in 1..MaxInt : v = [kind |-> "int", nines |-> n] /\ IntegerText(text, n)
    BY <1>5
  <2>2. n \in Nat /\ n > 0 /\ n <= MaxInt /\ l = n
    BY <2>1, UrlAssumption DEF IntegerText
  <2>3. \A i \in 1..l : text[i] \in Numeric
    BY <2>1, <2>2 DEF IntegerText, Numeric
  <2> DEFINE dotted == {i \in DOMAIN text : text[i] = "."}
  <2>4. Nines(text) = n /\ dotted = {}
    BY <2>1, <2>2, IntegerCounts
  <2>5. Cardinality(dotted) = 0
    <3> HIDE DEF dotted
    <3> QED
      BY <2>4, FS_EmptySet
  <2>6. Lexeme(t) = text /\ t.tag = "integral_num" /\ After(t) = pos + l
    BY <1>2, <1>3, <1>4, <2>2, <2>3, <2>5, NumberRead DEF t
  <2>7. Convertible(Lexeme(t), t.tag)
    BY <2>2, <2>4, <2>6 DEF Convertible
  <2>8. ValueOf(t) = v
    BY <2>1, <2>4, <2>6 DEF ValueOf
  <2> QED
    BY <1>2, <2>6, <2>7, <2>8 DEF t
<1>6. CASE \E m \in 0..MaxFloat, n \in Nat :
             /\ v = [kind |-> "float", whole |-> m, fraction |-> n]
             /\ m + n > 0 /\ NumberText(text, m, n)
  <2>1. PICK m \in 0..MaxFloat, n \in Nat :
          /\ v = [kind |-> "float", whole |-> m, fraction |-> n]
          /\ m + n > 0 /\ NumberText(text, m, n)
    BY <1>6
  <2>2. m \in Nat /\ m <= MaxFloat /\ l = m + 1 + n /\ l > 0
    BY <2>1, UrlAssumption DEF NumberText
  <2>3. \A i \in 1..l : text[i] \in Numeric
    BY <2>1, <2>2 DEF NumberText, Numeric
  <2> DEFINE dotted == {i \in DOMAIN text : text[i] = "."}
  <2>4. Nines(text) = m + n /\ Whole(text) = m /\ dotted = {m + 1}
    BY <2>1, <2>2, NumberCounts
  <2>5. Cardinality(dotted) = 1
    <3> HIDE DEF dotted
    <3> QED
      BY <2>4, FS_Singleton
  <2>6. Lexeme(t) = text /\ t.tag = "float_num" /\ After(t) = pos + l
    BY <1>2, <1>3, <1>4, <2>2, <2>3, <2>5, NumberRead DEF t
  <2>7. Convertible(Lexeme(t), t.tag)
    BY <2>1, <2>2, <2>4, <2>6 DEF Convertible
  <2>8. ValueOf(t) = v
    <3>1. (m + n) - m = n
      BY <2>2
    <3> QED
      BY <2>1, <2>4, <2>6, <3>1 DEF ValueOf
  <2> QED
    BY <1>2, <2>6, <2>7, <2>8 DEF t
<1>7. CASE text \in Words /\ v = [kind |-> "string", text |-> text]
  <2>1. t.tag = "wordy" /\ Lexeme(t) = text /\ After(t) = pos + l
    BY <1>2, <1>3, <1>4, <1>7, WordRead DEF t
  <2>2. ValueOf(t) = v
    BY <1>7, <2>1 DEF ValueOf
  <2> QED
    BY <1>2, <2>1, <2>2 DEF t
<1> QED
  BY <1>1, <1>5, <1>6, <1>7

-----------------------------------------------------------------------------
(* The spelling of a URL. *)

KeyOf(u, i) == u.query[i].key
TextOf(u, i) == Spelled(u.query[i].value)
ItemOf(u, i) == <<IF i = 1 THEN "?" ELSE "&">> \o KeyOf(u, i) \o TextOf(u, i)

(* Where the items of a URL end in its spelling: the i-th at e[i], and the *)
(* path at e[0].                                                           *)
Layout(u, e) ==
  /\ e \in [0..Len(u.query) -> 0..Len(source)]
  /\ e[0] = Len(PathOf(u)) /\ e[Len(u.query)] = Len(source)
  /\ \A i \in 1..Len(u.query) :
       LET b == e[i - 1] + 1
           c == b + Len(KeyOf(u, i))
       IN
       /\ e[i] = c + Len(TextOf(u, i))
       /\ source[b] = IF i = 1 THEN "?" ELSE "&"
       /\ \A x \in 1..Len(KeyOf(u, i)) : source[b + x] = KeyOf(u, i)[x]
       /\ \A x \in 1..Len(TextOf(u, i)) : source[c + x] = TextOf(u, i)[x]

LEMMA UrlIs ==
  ASSUME NEW u \in Urls
  PROVE  /\ u.segments \in Seq(Words) /\ u.query \in Seq([key : Words, value : Values])
         /\ Len(u.query) \in Nat
         /\ \A i \in 1..Len(u.query) :
              /\ KeyOf(u, i) \in Words /\ KeyOf(u, i) \in Seq(Characters)
              /\ u.query[i].value \in Values /\ TextOf(u, i) \in Seq(Characters)
              /\ u.query[i] = [key |-> KeyOf(u, i), value |-> u.query[i].value]
<1>1. u \in [segments : Seq(Words), query : Seq([key : Words, value : Values])]
  BY UrlsAssumption
<1>2. u.segments \in Seq(Words) /\ u.query \in Seq([key : Words, value : Values])
  BY <1>1
<1> SUFFICES ASSUME NEW i \in 1..Len(u.query)
             PROVE  /\ KeyOf(u, i) \in Words /\ KeyOf(u, i) \in Seq(Characters)
                    /\ u.query[i].value \in Values /\ TextOf(u, i) \in Seq(Characters)
                    /\ u.query[i] = [key |-> KeyOf(u, i), value |-> u.query[i].value]
  BY <1>2
<1>3. u.query[i] \in [key : Words, value : Values]
  BY <1>2, ElementOfSeq
<1>4. /\ u.query[i].key \in Words /\ u.query[i].value \in Values
      /\ u.query[i] = [key |-> u.query[i].key, value |-> u.query[i].value]
  BY <1>3
<1>5. u.query[i].key \in Seq(Characters)
  BY <1>4, SeqMonotonic DEF Words, Wordy, Characters
<1>6. Spelled(u.query[i].value) \in Seq(Characters)
  BY <1>4, SpelledIs
<1> QED
  BY <1>4, <1>5, <1>6 DEF KeyOf, TextOf

(* An item in its three parts.                                             *)
LEMMA ItemIs ==
  ASSUME NEW u \in Urls, NEW i \in 1..Len(u.query)
  PROVE  LET item == ItemOf(u, i)
             k == KeyOf(u, i)
             t == TextOf(u, i)
         IN
         /\ item \in Seq(Characters) /\ Len(item) = 1 + Len(k) + Len(t)
         /\ item[1] = IF i = 1 THEN "?" ELSE "&"
         /\ \A x \in 1..Len(k) : item[1 + x] = k[x]
         /\ \A x \in 1..Len(t) : item[1 + Len(k) + x] = t[x]
<1>1. PICK c \in {"?", "&"} : c = IF i = 1 THEN "?" ELSE "&"
  OBVIOUS
<1>2. PICK m \in Seq(Characters) : m = <<c>> /\ Len(m) = 1 /\ m[1] = c
  <2>1. <<c>> \in Seq(Characters) /\ Len(<<c>>) = 1 /\ <<c>>[1] = c
    BY DEF Characters
  <2> QED
    BY <2>1, Zenon
<1>3. PICK k \in Seq(Characters) : k = KeyOf(u, i)
  BY UrlIs
<1>4. PICK t \in Seq(Characters) : t = TextOf(u, i)
  BY UrlIs
<1>4a. PICK head \in Seq(Characters) : head = m \o k
  BY ConcatIs
<1> DEFINE item == head \o t
<1>5. /\ head \in Seq(Characters) /\ Len(head) = Len(m) + Len(k)
      /\ \A x \in 1..Len(m) : head[x] = m[x]
      /\ \A x \in 1..Len(k) : head[Len(m) + x] = k[x]
  BY <1>4a, ConcatIs
<1>6. /\ item \in Seq(Characters) /\ Len(item) = Len(head) + Len(t)
      /\ \A x \in 1..Len(head) : item[x] = head[x]
      /\ \A x \in 1..Len(t) : item[Len(head) + x] = t[x]
  BY ConcatIs
<1>7. item = ItemOf(u, i)
  BY <1>1, <1>2, <1>3, <1>4, <1>4a DEF ItemOf
<1> HIDE DEF item
<1>8. Len(head) = 1 + Len(k) /\ Len(k) \in Nat /\ Len(t) \in Nat
  BY <1>2, <1>5
<1>9. item[1] = c
  <2>1. 1 \in 1..Len(head) /\ 1 \in 1..Len(m)
    BY <1>2, <1>8
  <2> QED
    BY <1>2, <1>5, <1>6, <2>1
<1>10. \A x \in 1..Len(k) : item[1 + x] = k[x]
  <2> SUFFICES ASSUME NEW x \in 1..Len(k)
               PROVE  item[1 + x] = k[x]
    OBVIOUS
  <2>1. 1 + x \in 1..Len(head)
    BY <1>8
  <2> QED
    BY <1>2, <1>5, <1>6, <2>1
<1> QED
  BY <1>1, <1>3, <1>4, <1>6, <1>7, <1>8, <1>9, <1>10

(* A place in a flattened sequence is one in a part of it.                 *)
LEMMA PartAt ==
  ASSUME NEW s, NEW parts, NEW e, Len(parts) \in Nat, Len(s) \in Nat, LaidOut(s, parts, e),
         NEW y \in 1..Len(s)
  PROVE  \E i \in 1..Len(parts) : e[i - 1] < y /\ y <= e[i]
<1> DEFINE n == Len(parts)
           behind == {i \in 0..n : y <= e[i]}
<1>1. e \in [0..n -> 0..Len(s)] /\ e[0] = 0 /\ e[n] = Len(s) /\ n \in Nat
  BY DEF LaidOut
<1>2. n \in behind /\ behind \in SUBSET Nat
  BY <1>1
<1> HIDE DEF behind
<1>3. PICK i \in behind : \A j \in behind : i <= j
  BY <1>2, LeastNumber
<1>4. i \in 0..n /\ y <= e[i]
  BY <1>3 DEF behind
<1>5. i # 0
  BY <1>1, <1>4
<1>6. i \in 1..n /\ i - 1 \in 0..n /\ ~(i <= i - 1)
  BY <1>1, <1>4, <1>5
<1>7. ~(y <= e[i - 1])
  BY <1>3, <1>6 DEF behind
<1>8. e[i - 1] \in 0..Len(s)
  BY <1>1, <1>6
<1> QED
  BY <1>4, <1>6, <1>7, <1>8

(* What a URL's path is spelled as is a path.                              *)
LEMMA PathOfIs ==
  ASSUME NEW u \in Urls
  PROVE  LET p == PathOf(u) IN
         /\ p \in Seq(Characters) /\ Len(p) > 0 /\ p[1] = "/"
         /\ \A y \in 1..Len(p) : p[y] \in {"/"} \cup Wordy
         /\ \A y \in 1..Len(p) - 1 : p[y] = "/" => p[y + 1] = "a"
<1> DEFINE p == PathOf(u)
<1>0. PICK slash \in Seq(Characters) : slash = <<"/">> /\ Len(slash) = 1 /\ slash[1] = "/"
  <2>1. <<"/">> \in Seq(Characters) /\ Len(<<"/">>) = 1 /\ <<"/">>[1] = "/"
    BY DEF Characters
  <2> QED
    BY <2>1, Zenon
<1>1. CASE u.segments = <<>>
  <2>1. p = slash
    BY <1>0, <1>1 DEF PathOf
  <2> HIDE DEF p
  <2> QED
    BY <1>0, <2>1 DEF p
<1>2. CASE u.segments # <<>>
  <2>1. PICK segments \in Seq(Words) : segments = u.segments
    BY UrlIs
  <2> DEFINE n == Len(segments)
             parts == [i \in 1..n |-> slash \o segments[i]]
  <2>2. n \in Nat /\ n > 0 /\ DOMAIN segments = 1..n
    BY <1>2, <2>1, EmptySeq
  <2>3. \A i \in 1..n : /\ segments[i] \in Seq(Characters) /\ Len(segments[i]) \in Nat /\ Len(segments[i]) > 0
                        /\ segments[i][1] = "a"
                        /\ \A x \in 1..Len(segments[i]) : segments[i][x] \in Wordy
    <3> SUFFICES ASSUME NEW i \in 1..n
                 PROVE  /\ segments[i] \in Seq(Characters)
                        /\ Len(segments[i]) \in Nat /\ Len(segments[i]) > 0
                        /\ segments[i][1] = "a"
                        /\ \A x \in 1..Len(segments[i]) : segments[i][x] \in Wordy
      OBVIOUS
    <3>1. PICK w \in Words : w = segments[i]
      BY <2>1, ElementOfSeq
    <3>2. w \in Seq(Wordy) /\ w # <<>> /\ w[1] = "a"
      BY DEF Words
    <3>3. w \in Seq(Characters)
      BY <3>2, SeqMonotonic DEF Wordy, Characters
    <3>4. Len(w) \in Nat \ {0} /\ \A x \in 1..Len(w) : w[x] \in Wordy
      BY <3>2, EmptySeq
    <3> QED
      BY <3>1, <3>2, <3>3, <3>4
  <2>4. ASSUME NEW i \in 1..n
        PROVE  /\ parts[i] \in Seq(Characters) /\ Len(parts[i]) = 1 + Len(segments[i])
               /\ parts[i][1] = "/"
               /\ \A x \in 1..Len(segments[i]) : parts[i][1 + x] = segments[i][x]
    <3>1. PICK w \in Seq(Characters) : w = segments[i]
      BY <2>3
    <3>2. /\ slash \o w \in Seq(Characters) /\ Len(slash \o w) = Len(slash) + Len(w)
          /\ \A x \in 1..Len(slash) : (slash \o w)[x] = slash[x]
          /\ \A x \in 1..Len(w) : (slash \o w)[Len(slash) + x] = w[x]
      BY ConcatIs
    <3>3. parts[i] = slash \o w
      BY <3>1
    <3>4. 1 \in 1..Len(slash)
      BY <1>0
    <3> HIDE DEF parts
    <3> QED
      BY <1>0, <3>1, <3>2, <3>3, <3>4
  <2>5. /\ p = FlattenSeq(parts) /\ Len(parts) = n /\ parts \in Seq(Seq(Characters))
    <3>1. parts \in [1..n -> Seq(Characters)]
      BY <2>4
    <3>2. parts \in Seq(Seq(Characters)) /\ Len(parts) = n
      BY <2>2, <3>1
    <3>3. p = FlattenSeq([i \in DOMAIN u.segments |-> <<"/">> \o u.segments[i]])
      BY <1>2 DEF PathOf
    <3> QED
      BY <1>0, <2>1, <2>2, <3>2, <3>3, Zenon
  <2> HIDE DEF parts
  <2>6. PICK e : p \in Seq(Characters) /\ LaidOut(p, parts, e)
    BY <2>5, FlattenIs
  <2> HIDE DEF p
  <2>7. /\ e \in [0..n -> 0..Len(p)] /\ e[0] = 0 /\ e[n] = Len(p)
        /\ \A i \in 1..n :
             /\ e[i] = e[i - 1] + Len(parts[i])
             /\ \A x \in 1..Len(parts[i]) : p[e[i - 1] + x] = parts[i][x]
    BY <2>5, <2>6 DEF LaidOut
  <2>8. Len(p) \in Nat
    BY <2>6
  (* The first place of a part is a slash, each other one of a word.       *)
  <2>9. ASSUME NEW y \in 1..Len(p)
        PROVE  \/ /\ p[y] = "/" /\ y < Len(p) /\ p[y + 1] = "a"
               \/ p[y] \in Wordy
    <3>1. PICK i \in 1..n : e[i - 1] < y /\ y <= e[i]
      BY <2>2, <2>5, <2>6, <2>8, PartAt
    <3>1a. PICK l \in Nat : l = Len(segments[i]) /\ l > 0
      BY <2>3
    <3>1b. PICK m \in Nat : m = Len(p)
      BY <2>8
    <3>2. /\ i \in 0..n /\ i - 1 \in 0..n
      BY <2>2
    <3>3. PICK b \in Nat : b = e[i - 1]
      BY <2>7, <2>8, <3>2
    <3>4. /\ Len(parts[i]) = 1 + l /\ e[i] = b + 1 + l /\ e[i] <= m
          /\ y \in Nat /\ b < y /\ y <= e[i]
      <4>1. Len(parts[i]) = 1 + l
        BY <2>4, <3>1a
      <4>2. e[i] = b + Len(parts[i]) /\ e[i] \in 0..m
        BY <2>7, <3>1b, <3>2, <3>3
      <4>3. e[i] = b + (1 + l)
        BY <4>1, <4>2
      <4>4. y \in 1..m
        BY <3>1b
      <4> QED
        <5>1. y \in Nat
          BY <4>4
        <5>2. b < y
          BY <3>1, <3>3
        <5>3. y <= e[i]
          BY <3>1
        <5>4. e[i] <= m
          BY <4>2
        <5>5. e[i] = b + 1 + l
          BY <4>3
        <5> QED
          BY <4>1, <5>1, <5>2, <5>3, <5>4, <5>5
    <3>5. \A x \in 1..1 + l : p[b + x] = parts[i][x]
      BY <2>7, <3>3, <3>4
    <3>6. CASE y = b + 1
      <4>1. 1 \in 1..1 + l /\ 2 \in 1..1 + l /\ 1 \in 1..l /\ 2 = 1 + 1
        BY <3>1a
      <4>2. p[b + 1] = "/"
        BY <2>4, <3>1a, <3>5, <4>1
      <4>3. p[b + 2] = "a"
        BY <2>3, <2>4, <3>1a, <3>5, <4>1
      <4>4. y < Len(p) /\ y + 1 = b + 2
        <5>1. b + 1 + l <= m
          BY <3>4
        <5>2. l > 0
          BY <3>1a
        <5>3. b + 1 < m /\ (b + 1) + 1 = b + 2
          BY <5>1, <5>2
        <5> QED
          BY <3>1b, <3>6, <5>3
      <4> QED
        BY <3>6, <4>2, <4>3, <4>4
    <3>7. CASE y # b + 1
      <4>1. PICK x \in 1..l : y = b + (1 + x)
        <5>1. y - b - 1 \in 1..l /\ y = b + (1 + (y - b - 1))
          BY <3>4, <3>7
        <5> QED
          BY <5>1
      <4>2. 1 + x \in 1..1 + l
        BY <3>4
      <4>3. p[y] = segments[i][x]
        BY <2>4, <3>1a, <3>5, <4>1, <4>2
      <4> QED
        BY <2>3, <3>1a, <4>3
    <3> QED
      BY <3>6, <3>7
  <2>10. Len(p) > 0 /\ p[1] = "/"
    <3>1. 1 \in 1..n /\ 1 - 1 = 0 /\ 0 + 1 = 1
      BY <2>2
    <3>2. PICK l \in Nat : l = Len(segments[1]) /\ l > 0
      BY <2>3, <3>1
    <3>3. Len(parts[1]) = 1 + l /\ parts[1][1] = "/"
      BY <2>4, <3>1, <3>2
    <3>4. e[1] = 1 + l /\ p[1] = "/"
      <4>1. e[1] = e[0] + Len(parts[1]) /\ \A x \in 1..Len(parts[1]) : p[e[0] + x] = parts[1][x]
        BY <2>7, <3>1
      <4>2. 1 \in 1..Len(parts[1])
        BY <3>2, <3>3
      <4>3. p[0 + 1] = parts[1][1]
        BY <2>7, <4>1, <4>2
      <4> QED
        BY <2>7, <3>1, <3>2, <3>3, <4>1, <4>3
    <3>5. e[1] \in 0..Len(p)
      BY <2>2, <2>7
    <3> QED
      BY <2>8, <3>2, <3>4, <3>5
  <2>11. "/" \notin Wordy
    BY DEF Wordy
  <2>12. \A y \in 1..Len(p) - 1 : y \in 1..Len(p)
    BY <2>8
  <2> QED
    BY <2>6, <2>9, <2>10, <2>11, <2>12 DEF p
<1> QED
  BY <1>1, <1>2

LEMMA SpellingLaidOut ==
  ASSUME NEW u \in Urls, source = Spelling[u]
  PROVE  /\ \E e : Layout(u, e)
         /\ Len(source) \in Nat /\ Len(PathOf(u)) <= Len(source)
         /\ \A y \in 1..Len(PathOf(u)) : source[y] = PathOf(u)[y]
<1> DEFINE n == Len(u.query)
           items == [i \in 1..n |-> ItemOf(u, i)]
<1>1. n \in Nat /\ DOMAIN u.query = 1..n
  BY UrlIs, LenProperties
<1>2. \A i \in 1..n : items[i] = ItemOf(u, i) /\ items[i] \in Seq(Characters)
  BY ItemIs
<1>3. items \in Seq(Seq(Characters)) /\ Len(items) = n
  <2>1. items \in [1..n -> Seq(Characters)]
    BY <1>2
  <2> QED
    BY <1>1, <2>1
<1>4. QueryOf(u) = FlattenSeq(items)
  BY <1>1 DEF QueryOf, ItemOf, KeyOf, TextOf
<1> HIDE DEF items, n
<1>5. PICK p \in Seq(Characters) : p = PathOf(u)
  BY PathOfIs
<1>6. PICK q \in Seq(Characters) : q = QueryOf(u)
  BY <1>3, <1>4, FlattenIs
<1>7. PICK d : LaidOut(q, items, d)
  BY <1>3, <1>4, <1>6, FlattenIs
<1>8. /\ d \in [0..n -> 0..Len(q)] /\ d[0] = 0 /\ d[n] = Len(q)
      /\ \A i \in 1..n : /\ d[i] = d[i - 1] + Len(items[i])
                         /\ \A x \in 1..Len(items[i]) : q[d[i - 1] + x] = items[i][x]
  BY <1>3, <1>7 DEF LaidOut
<1>9. source = p \o q
  BY <1>5, <1>6 DEF Spelling
<1>10. /\ source \in Seq(Characters) /\ Len(source) = Len(p) + Len(q)
       /\ \A x \in 1..Len(p) : source[x] = p[x]
       /\ \A x \in 1..Len(q) : source[Len(p) + x] = q[x]
  BY <1>9, ConcatIs
<1>11. PICK P \in Nat : P = Len(p)
  OBVIOUS
<1>12. PICK Q \in Nat : Q = Len(q)
  OBVIOUS
<1>13. Len(source) = P + Q /\ \A x \in 1..Q : source[P + x] = q[x]
  BY <1>10, <1>11, <1>12
<1> DEFINE e == [i \in 0..n |-> P + d[i]]
<1>14. \A i \in 0..n : e[i] = P + d[i] /\ d[i] \in 0..Q
  BY <1>8, <1>12
<1>15. e \in [0..n -> 0..Len(source)]
  <2>1. \A i \in 0..n : P + d[i] \in 0..P + Q
    BY <1>14
  <2> QED
    BY <1>13, <2>1
<1> HIDE DEF e
<1>16. e[0] = P /\ e[n] = Len(source)
  <2>1. 0 \in 0..n /\ n \in 0..n
    BY <1>1 DEF n
  <2>2. d[0] = 0 /\ d[n] = Q
    BY <1>8, <1>12
  <2> QED
    BY <1>13, <1>14, <2>1, <2>2
<1>17. ASSUME NEW i \in 1..n
       PROVE  LET b == e[i - 1] + 1
                  c == b + Len(KeyOf(u, i))
              IN
              /\ e[i] = c + Len(TextOf(u, i))
              /\ source[b] = IF i = 1 THEN "?" ELSE "&"
              /\ \A x \in 1..Len(KeyOf(u, i)) : source[b + x] = KeyOf(u, i)[x]
              /\ \A x \in 1..Len(TextOf(u, i)) : source[c + x] = TextOf(u, i)[x]
  <2>1. i \in 1..Len(u.query) /\ i \in 0..n /\ i - 1 \in 0..n
    BY <1>1 DEF n
  <2>2. PICK k \in Seq(Characters) : k = KeyOf(u, i)
    BY <2>1, UrlIs
  <2>3. PICK t \in Seq(Characters) : t = TextOf(u, i)
    BY <2>1, UrlIs
  <2>4. PICK K \in Nat : K = Len(k)
    OBVIOUS
  <2>5. PICK T \in Nat : T = Len(t)
    OBVIOUS
  <2>6. PICK item : item = ItemOf(u, i)
    OBVIOUS
  <2>7. /\ Len(item) = 1 + K + T /\ item[1] = IF i = 1 THEN "?" ELSE "&"
        /\ \A x \in 1..K : item[1 + x] = k[x]
        /\ \A x \in 1..T : item[1 + K + x] = t[x]
    <3>1. /\ Len(item) = 1 + Len(k) + Len(t) /\ item[1] = IF i = 1 THEN "?" ELSE "&"
          /\ \A x \in 1..Len(k) : item[1 + x] = k[x]
          /\ \A x \in 1..Len(t) : item[1 + Len(k) + x] = t[x]
      BY <2>1, <2>2, <2>3, <2>6, ItemIs, Zenon
    <3> QED
      BY <2>4, <2>5, <3>1, Zenon
  <2>8. PICK a \in 0..Q : a = d[i - 1]
    BY <1>14, <2>1
  <2>9. PICK z \in 0..Q : z = d[i]
    BY <1>14, <2>1
  <2>10. z = a + Len(item) /\ \A x \in 1..Len(item) : q[a + x] = item[x]
    BY <1>2, <1>8, <2>6, <2>8, <2>9
  <2>11. z = a + (1 + K + T) /\ \A x \in 1..1 + K + T : q[a + x] = item[x]
    BY <2>7, <2>10
  <2>12. \A x \in 1..1 + K + T : source[P + a + x] = item[x]
    <3> SUFFICES ASSUME NEW x \in 1..1 + K + T
                 PROVE  source[P + a + x] = item[x]
      OBVIOUS
    <3>1. a + x \in 1..Q /\ P + (a + x) = P + a + x
      BY <2>11
    <3>2. source[P + (a + x)] = q[a + x]
      BY <1>13, <3>1
    <3> QED
      BY <2>11, <3>1, <3>2
  <2>13. /\ e[i - 1] = P + a /\ e[i] = P + z
    BY <1>14, <2>1, <2>8, <2>9
  <2>14. P + a \in Nat /\ e[i] = ((P + a) + 1 + K) + T
    <3>1. P + z = ((P + a) + 1 + K) + T /\ P + a \in Nat
      BY <2>11
    <3> QED
      BY <2>13, <3>1
  <2>15. PICK f \in Nat : f = P + a
    BY <2>14
  <2>16. source[f + 1] = IF i = 1 THEN "?" ELSE "&"
    <3>1. 1 \in 1..1 + K + T
      OBVIOUS
    <3> QED
      BY <2>7, <2>12, <2>15, <3>1
  <2>17. \A x \in 1..K : source[f + 1 + x] = k[x]
    <3> SUFFICES ASSUME NEW x \in 1..K
                 PROVE  source[f + 1 + x] = k[x]
      OBVIOUS
    <3>1. 1 + x \in 1..1 + K + T /\ f + (1 + x) = f + 1 + x
      OBVIOUS
    <3>2. source[f + (1 + x)] = item[1 + x]
      BY <2>12, <2>15, <3>1
    <3> QED
      BY <2>7, <3>1, <3>2
  <2>18. \A x \in 1..T : source[f + 1 + K + x] = t[x]
    <3> SUFFICES ASSUME NEW x \in 1..T
                 PROVE  source[f + 1 + K + x] = t[x]
      OBVIOUS
    <3>1. 1 + K + x \in 1..1 + K + T /\ f + (1 + K + x) = f + 1 + K + x
      OBVIOUS
    <3>2. source[f + (1 + K + x)] = item[1 + K + x]
      BY <2>12, <2>15, <3>1
    <3> QED
      BY <2>7, <3>1, <3>2
  <2>19. e[i - 1] = f /\ e[i] = f + 1 + K + T
    BY <2>13, <2>14, <2>15
  <2> QED
    BY <2>2, <2>3, <2>4, <2>5, <2>16, <2>17, <2>18, <2>19
<1>18. Layout(u, e)
  BY <1>5, <1>11, <1>15, <1>16, <1>17 DEF Layout, n
<1>19. Len(p) <= Len(source) /\ Len(source) \in Nat
  BY <1>11, <1>13
<1> QED
  BY <1>5, <1>10, <1>18, <1>19

(* The path of a URL is the longest of its spelling: behind it is a '?',   *)
(* or nothing.                                                             *)
LEMMA PathOfLongest ==
  ASSUME NEW u \in Urls, source = Spelling[u]
  PROVE  LongestPath = Len(PathOf(u))
<1>1. PICK p \in Seq(Characters) :
        /\ p = PathOf(u) /\ Len(p) > 0 /\ p[1] = "/"
        /\ \A y \in 1..Len(p) : p[y] \in {"/"} \cup Wordy
        /\ \A y \in 1..Len(p) - 1 : p[y] = "/" => p[y + 1] = "a"
  BY PathOfIs
<1>2. PICK P \in Nat : P = Len(p) /\ P > 0
  BY <1>1
<1>3. PICK L \in Nat : L = Len(source)
  BY SpellingLaidOut
<1>4. P <= L /\ \A y \in 1..P : source[y] = p[y]
  BY <1>1, <1>2, <1>3, SpellingLaidOut
<1>5. P < L => source[P + 1] = "?"
  <2> SUFFICES ASSUME P < L
               PROVE  source[P + 1] = "?"
    OBVIOUS
  <2>1. PICK e : Layout(u, e)
    BY SpellingLaidOut
  <2>2. PICK n \in Nat : n = Len(u.query)
    BY UrlIs
  <2>3. e[0] = P /\ e[n] = L
    BY <1>1, <1>2, <1>3, <2>1, <2>2 DEF Layout
  <2>4. 1 \in 1..n /\ 1 - 1 = 0
    <3>1. n # 0
      BY <2>3
    <3> QED
      BY <3>1
  <2>5. source[e[1 - 1] + 1] = IF 1 = 1 THEN "?" ELSE "&"
    BY <2>1, <2>2, <2>4 DEF Layout
  <2> QED
    BY <2>3, <2>4, <2>5
<1>6. IsPath(P)
  <2>1. P > 0 /\ \A y \in 1..P : source[y] \in {"/"} \cup Wordy
    BY <1>1, <1>2, <1>4
  <2>2. source[1] = "/"
    <3>1. 1 \in 1..P
      BY <1>2
    <3> QED
      BY <1>1, <1>4, <3>1
  <2>3. \A y \in 1..P - 1 : source[y] = "/" => source[y + 1] = "a"
    <3>1. \A y \in 1..P - 1 : y \in 1..P /\ y + 1 \in 1..P
      OBVIOUS
    <3> QED
      BY <1>1, <1>2, <1>4, <3>1
  <2> QED
    BY <2>1, <2>2, <2>3 DEF IsPath
<1> DEFINE lengths == {n \in 0..Len(source) : IsPath(n)}
<1>7. \A n \in lengths : n <= P
  <2> SUFFICES ASSUME NEW n \in 0..L, IsPath(n), ~(n <= P)
               PROVE  FALSE
    BY <1>3
  <2>1. P + 1 \in 1..n /\ P < L
    OBVIOUS
  <2>2. source[P + 1] \in {"/"} \cup Wordy
    BY <2>1 DEF IsPath
  <2> QED
    BY <1>5, <2>1, <2>2 DEF Wordy
<1>8. P \in lengths /\ lengths \in SUBSET Int
  BY <1>3, <1>4, <1>6
<1> HIDE DEF lengths
<1>9. Max(lengths) = P
  BY <1>7, <1>8, MaxIs
<1> QED
  BY <1>1, <1>2, <1>9 DEF LongestPath, lengths

(* What the lexer makes of the item behind the first k of them: a mark, a  *)
(* key, and if there is a value a '=' and the value.                       *)
ItemLexed(u, e, k) ==
  LET b == e[k] + 1
      c == b + Len(KeyOf(u, k + 1))
      v == u.query[k + 1].value
  IN
  /\ e[k] \in Nat /\ e[k + 1] \in Nat /\ e[k] < e[k + 1]
  /\ LET t == lexNext(e[k]) IN
       t.tag = (IF k = 0 THEN "query_start" ELSE "query_split") /\ After(t) = b
  /\ LET t == lexNext(b) IN
       t.tag = "wordy" /\ Lexeme(t) = KeyOf(u, k + 1) /\ After(t) = c
  /\ v = Nil => e[k + 1] = c /\ lexNext(c).tag # "query_assign"
  /\ v # Nil =>
       /\ lexNext(c).tag = "query_assign" /\ After(lexNext(c)) = c + 1
       /\ LET t == lexNext(c + 1) IN
            /\ t.tag \in {"integral_num", "float_num", "wordy"}
            /\ t.tag # "wordy" => Convertible(Lexeme(t), t.tag)
            /\ ValueOf(t) = v /\ After(t) = e[k + 1]

LEMMA ItemRead ==
  ASSUME source \in Seq(Characters), NEW u \in Urls, NEW e, Layout(u, e),
         NEW k \in Nat, k < Len(u.query)
  PROVE  ItemLexed(u, e, k)
<1> DEFINE i == k + 1
           v == u.query[i].value
<1>1. PICK n \in Nat : n = Len(u.query)
  BY UrlIs
<1>2. PICK L \in Nat : L = Len(source)
  OBVIOUS
<1>3. i \in 1..n /\ i \in 0..n /\ k \in 0..n /\ i - 1 = k
  BY <1>1
<1>4. PICK w \in Words : w = KeyOf(u, i) /\ w \in Seq(Characters)
  BY <1>1, <1>3, UrlIs
<1>5. PICK s \in Seq(Characters) : s = TextOf(u, i)
  BY <1>1, <1>3, UrlIs
<1>6. v \in Values /\ s = Spelled(v)
  BY <1>1, <1>3, <1>5, UrlIs DEF TextOf
<1>7. PICK K \in Nat : K = Len(w)
  BY <1>4
<1>8. PICK S \in Nat : S = Len(s)
  OBVIOUS
<1>9. PICK f \in 0..L : f = e[k]
  BY <1>1, <1>2, <1>3 DEF Layout
<1>10. PICK z \in 0..L : z = e[i]
  BY <1>1, <1>2, <1>3 DEF Layout
<1> DEFINE b == f + 1
           c == b + K
<1>11. /\ e[i] = c + S
       /\ source[b] = IF i = 1 THEN "?" ELSE "&"
       /\ \A x \in 1..K : source[b + x] = w[x]
       /\ \A x \in 1..S : source[c + x] = s[x]
  <2>1. LET bb == e[i - 1] + 1
            cc == bb + Len(KeyOf(u, i))
        IN
        /\ e[i] = cc + Len(TextOf(u, i))
        /\ source[bb] = IF i = 1 THEN "?" ELSE "&"
        /\ \A x \in 1..Len(KeyOf(u, i)) : source[bb + x] = KeyOf(u, i)[x]
        /\ \A x \in 1..Len(TextOf(u, i)) : source[cc + x] = TextOf(u, i)[x]
    BY <1>1, <1>3 DEF Layout
  <2> HIDE DEF i
  <2> QED
    BY <1>3, <1>4, <1>5, <1>7, <1>8, <1>9, <2>1, Zenon
<1>12. z = f + 1 + K + S
  BY <1>10, <1>11
<1>13. b \in 0..L /\ c \in 0..L /\ f < L /\ f \in 0..L
  BY <1>12
<1>14. z < L => source[z + 1] = "&"
  <2> SUFFICES ASSUME z < L
               PROVE  source[z + 1] = "&"
    OBVIOUS
  <2>1. e[n] = L
    BY <1>1, <1>2 DEF Layout
  <2>2. i # n
    BY <1>10, <2>1
  <2>3. i + 1 \in 1..n /\ (i + 1) - 1 = i /\ i + 1 # 1
    BY <1>3, <2>2
  <2>4. source[e[(i + 1) - 1] + 1] = IF i + 1 = 1 THEN "?" ELSE "&"
    BY <1>1, <2>3 DEF Layout
  <2> HIDE DEF i
  <2> QED
    BY <1>10, <2>3, <2>4
<1>15. "&" \notin Wordy /\ "=" \notin Wordy
  BY DEF Wordy
<1> HIDE DEF v
<1>16. /\ lexNext(f).tag = (IF k = 0 THEN "query_start" ELSE "query_split")
       /\ After(lexNext(f)) = b
  <2>1. i = 1 <=> k = 0
    OBVIOUS
  <2> HIDE DEF i
  <2> QED
    BY <1>2, <1>11, <1>13, <2>1, MarkIs
<1>17. v = Nil => S = 0
  BY <1>6, <1>8, SpelledIs
<1>18. v # Nil => S > 0 /\ s[1] = "="
  BY <1>6, <1>8, SpelledIs
<1>19. c < L => source[c + 1] = "&" \/ source[c + 1] = "="
  <2>1. CASE v = Nil
    BY <1>12, <1>14, <1>17, <2>1
  <2>2. CASE v # Nil
    <3>1. 1 \in 1..S
      BY <1>18, <2>2
    <3> QED
      BY <1>11, <1>18, <2>2, <3>1
  <2> QED
    BY <2>1, <2>2
<1>20. lexNext(b).tag = "wordy" /\ Lexeme(lexNext(b)) = w /\ After(lexNext(b)) = c
  <2>1. b \in 0..Len(source) /\ b + Len(w) <= Len(source)
    BY <1>2, <1>7, <1>13
  <2>2. b + Len(w) < Len(source) => source[b + Len(w) + 1] \notin Wordy
    BY <1>2, <1>7, <1>15, <1>19
  <2> HIDE DEF b
  <2> QED
    BY <1>7, <1>11, <2>1, <2>2, WordRead
<1>21. v = Nil => z = c /\ lexNext(c).tag # "query_assign"
  <2> SUFFICES ASSUME v = Nil
               PROVE  z = c /\ lexNext(c).tag # "query_assign"
    OBVIOUS
  <2>1. z = c
    BY <1>12, <1>17
  <2>2. c < L => source[c + 1] # "="
    BY <1>14, <2>1
  <2>3. c \in 0..Len(source)
    BY <1>2, <1>13
  <2> HIDE DEF c
  <2> QED
    BY <1>2, <2>1, <2>2, <2>3, TokenIs
<1>22. ASSUME v # Nil
       PROVE  /\ lexNext(c).tag = "query_assign" /\ After(lexNext(c)) = c + 1
              /\ LET t == lexNext(c + 1) IN
                   /\ t.tag \in {"integral_num", "float_num", "wordy"}
                   /\ t.tag # "wordy" => Convertible(Lexeme(t), t.tag)
                   /\ ValueOf(t) = v /\ After(t) = z
  <2>1. S > 0 /\ s[1] = "=" /\ 1 \in 1..S
    BY <1>18, <1>22
  <2>2. source[c + 1] = "=" /\ c < L
    BY <1>11, <1>12, <2>1
  <2>3. c \in 0..Len(source)
    BY <1>2, <1>13
  <2>4. lexNext(c).tag = "query_assign" /\ After(lexNext(c)) = c + 1
    <3> HIDE DEF c
    <3> QED
      BY <1>2, <2>2, <2>3, MarkIs
  <2>5. PICK p \in 0..Len(source) : p = c + 1
    BY <1>2, <1>13, <2>2
  <2>6. z \in p..Len(source) /\ z + 1 = p + S
    BY <1>2, <1>12, <2>1, <2>5
  <2>7. \A x \in 2..S : source[p + x - 1] = s[x]
    <3> SUFFICES ASSUME NEW x \in 2..S
                 PROVE  source[p + x - 1] = s[x]
      OBVIOUS
    <3>1. x \in 1..S /\ p + x - 1 = c + x
      BY <2>5
    <3> QED
      BY <1>11, <3>1
  <2>8. LET t == lexNext(p) IN
        /\ t.tag \in {"integral_num", "float_num", "wordy"}
        /\ t.tag # "wordy" => Convertible(Lexeme(t), t.tag)
        /\ ValueOf(t) = v /\ After(t) = z
    BY <1>2, <1>6, <1>8, <1>14, <1>22, <2>6, <2>7, ValueRead
  <2> QED
    BY <2>4, <2>5, <2>8, Zenon
<1>23. e[k] \in Nat /\ e[k + 1] \in Nat /\ e[k] < e[k + 1]
  BY <1>9, <1>10, <1>12
<1> QED
  <2> DEFINE bb == e[k] + 1
             cc == bb + Len(KeyOf(u, k + 1))
             vv == u.query[k + 1].value
  <2>1. bb = b /\ cc = c /\ vv = v /\ KeyOf(u, k + 1) = w /\ e[k] = f /\ e[k + 1] = z
    BY <1>4, <1>7, <1>9, <1>10 DEF v
  <2> HIDE DEF b, c, v, bb, cc, vv
  <2>2. /\ e[k] \in Nat /\ e[k + 1] \in Nat /\ e[k] < e[k + 1]
        /\ LET t == lexNext(e[k]) IN
             t.tag = (IF k = 0 THEN "query_start" ELSE "query_split") /\ After(t) = bb
        /\ LET t == lexNext(bb) IN
             t.tag = "wordy" /\ Lexeme(t) = KeyOf(u, k + 1) /\ After(t) = cc
        /\ vv = Nil => e[k + 1] = cc /\ lexNext(cc).tag # "query_assign"
        /\ vv # Nil =>
             /\ lexNext(cc).tag = "query_assign" /\ After(lexNext(cc)) = cc + 1
             /\ LET t == lexNext(cc + 1) IN
                  /\ t.tag \in {"integral_num", "float_num", "wordy"}
                  /\ t.tag # "wordy" => Convertible(Lexeme(t), t.tag)
                  /\ ValueOf(t) = vv /\ After(t) = e[k + 1]
    BY <1>16, <1>20, <1>21, <1>22, <1>23, <2>1, Zenon
  <2> QED
    BY <2>2, Zenon DEF ItemLexed, bb, cc, vv

-----------------------------------------------------------------------------
(* Reading a spelling. *)

(* The items parsed are the URL's first, and the token at hand is where    *)
(* the next of its parts is.                                               *)
ReadInv(u, e) ==
  LET n == Len(u.query)
      k == Len(query)
      b == m_current.begin
      c == e[k] + 1 + Len(KeyOf(u, k + 1))
  IN
  /\ alive /\ k <= n /\ k <= e[k]
  /\ \A i \in 1..k : query[i] = u.query[i]
  /\ at \in {"path", "segment", "query"} => k = 0
  /\ at = "query" => b = e[0]
  /\ at = "item" => b = IF k < n THEN e[k] + 1 ELSE e[k]
  /\ at \in {"assign", "value"} => k < n /\ key = KeyOf(u, k + 1)
  /\ at = "assign" => b = c
  /\ at = "value" => b = c + 1 /\ u.query[k + 1].value # Nil
  /\ at = "split" => k > 0 /\ b = e[k]
  /\ at = "done" => k = n

Reading(u, e) == UrlInv /\ source = Spelling[u] /\ Layout(u, e) /\ ReadInv(u, e)

LEMMA ReadingIs ==
  ASSUME NEW u \in Urls, NEW e, Reading(u, e)
  PROVE  LET n == Len(u.query)
             k == Len(query)
         IN
         /\ alive /\ n \in Nat /\ k \in Nat /\ k <= n
         /\ m_current = lexNext(m_current.begin) /\ m_pos = After(m_current)
         /\ k < n => ItemLexed(u, e, k) /\ k < MaxItems
         /\ k = n => e[k] = Len(source) /\ lexNext(e[k]).tag = "eos"
<1> DEFINE n == Len(u.query)
           k == Len(query)
<1>1. UrlInv /\ ReadInv(u, e) /\ Layout(u, e) /\ source \in Seq(Characters)
  BY DEF Reading, UrlInv, TypeOK
<1>2. n \in Nat /\ k \in Nat
  <2>1. n \in Nat
    BY UrlIs
  <2>2. k \in Nat
    BY <1>1 DEF UrlInv, QueryInv
  <2> QED
    BY <2>1, <2>2
<1>3. alive /\ k <= n /\ k <= e[k]
  BY <1>1 DEF ReadInv
<1>4. m_current = lexNext(m_current.begin) /\ m_pos = After(m_current)
  <2>1. PICK pos \in 0..Len(source) : m_current = lexNext(pos)
    BY <1>1 DEF UrlInv, TokenInv
  <2>2. m_current.begin = pos
    BY <1>1, <2>1, TokenIs
  <2> QED
    BY <1>1, <2>1, <2>2 DEF UrlInv, TokenInv
<1>5. PICK L \in Nat : L = Len(source)
  BY <1>1
<1>6. e \in [0..n -> 0..L] /\ e[n] = L
  BY <1>1, <1>5 DEF Layout
<1> HIDE DEF k, n
<1>7. k < MaxItems
  <2>1. k \in 0..n
    BY <1>2, <1>3
  <2>2. e[k] \in 0..L
    BY <1>6, <2>1
  <2>3. L < MaxItems /\ MaxItems \in Nat
    BY <1>1, <1>5, UrlAssumption DEF UrlInv, SourceInv
  <2> QED
    BY <1>2, <1>3, <2>2, <2>3
<1>8. k < n => ItemLexed(u, e, k)
  BY <1>1, <1>2, ItemRead DEF n
<1>9. k = n => e[k] = L /\ lexNext(e[k]).tag = "eos"
  <2>1. L \in 0..Len(source) /\ L = Len(source)
    BY <1>5
  <2>2. lexNext(L).tag = "eos"
    BY <1>1, <2>1, MarkIs
  <2> QED
    BY <1>6, <2>2
<1> QED
  BY <1>2, <1>3, <1>4, <1>5, <1>7, <1>8, <1>9 DEF k, n

(* The token behind the one at hand, and the one at hand again.            *)
LEMMA BeginIs ==
  ASSUME UrlInv, source' = source
  PROVE  /\ consume => m_current'.begin = m_pos
         /\ Stay => m_current'.begin = m_current.begin
  BY ConsumeToken, StayToken DEF UrlInv

(* The next item is the URL's.                                             *)
LEMMA ItemKept ==
  ASSUME NEW u \in Urls, NEW e, Reading(u, e), NEW w, NEW v, Emplace(w, v),
         u.query[Len(query) + 1] = [key |-> w, value |-> v]
  PROVE  Len(query') = Len(query) + 1 /\ \A i \in 1..Len(query) + 1 : query'[i] = u.query[i]
<1> DEFINE x == [key |-> w, value |-> v]
<1>1. PICK S : query \in Seq(S)
  BY DEF Reading, UrlInv, QueryInv
<1>2. PICK T : query \in Seq(T) /\ x \in T
  <2>1. query \in Seq(S \cup {x}) /\ x \in S \cup {x}
    BY <1>1
  <2> QED
    BY <2>1
<1>3. query' = Append(query, x)
  BY DEF Emplace
<1>4. x = u.query[Len(query) + 1]
  OBVIOUS
<1> HIDE DEF x
<1>5. PICK k \in Nat : k = Len(query)
  BY <1>1
<1>6. /\ Len(query') = k + 1 /\ query'[k + 1] = x
      /\ \A i \in 1..k : query'[i] = query[i]
  BY <1>2, <1>3, <1>5
<1>7. \A i \in 1..k : query[i] = u.query[i]
  BY <1>5 DEF Reading, ReadInv
<1>8. \A i \in 1..k + 1 : i \in 1..k \/ i = k + 1
  OBVIOUS
<1> QED
  BY <1>4, <1>5, <1>6, <1>7, <1>8

(* The path is the URL's, and a '?' or nothing is behind it.               *)
LEMMA PathIsRead ==
  ASSUME NEW u \in Urls, NEW e, Reading(u, e), parsePath
  PROVE  ReadInv(u, e)'
<1>1. UNCHANGED query /\ alive' = alive /\ at \in {"path", "segment"} /\ Len(query) = 0 /\ source' = source
  BY DEF parsePath, PathSplit, Segment, PathEnds, Step, Reading, ReadInv, resultVars
<1>2. CASE PathSplit \/ Segment
  <2>1. at' \in {"path", "segment"}
    BY <1>2 DEF PathSplit, Segment, Step
  <2> QED
    BY <1>1, <2>1 DEF Reading, ReadInv
<1>3. CASE PathEnds
  <2>1. at' = "query" /\ Stay
    BY <1>3 DEF PathEnds, Step
  <2>2. m_current'.begin = m_current.begin
    BY <1>1, <2>1, BeginIs DEF Reading
  <2>3. m_current.begin = path_length
    BY <1>1 DEF Reading, UrlInv, PathInv
  <2>4. path_length = LongestPath
    BY <1>3, PathEndsLongest DEF Reading, UrlInv
  <2>5. LongestPath = e[0]
    BY PathOfLongest DEF Reading, Layout
  <2>6. m_current'.begin = e[0]
    BY <2>2, <2>3, <2>4, <2>5
  <2> QED
    BY <1>1, <2>1, <2>6 DEF Reading, ReadInv
<1> QED
  BY <1>2, <1>3 DEF parsePath

(* A step that does not add an item.                                       *)
LEMMA MarksRead ==
  ASSUME NEW u \in Urls, NEW e, Reading(u, e), QueryStart \/ QuerySplit \/ Return \/ Key \/ Assign
  PROVE  ReadInv(u, e)'
<1> DEFINE n == Len(u.query)
           k == Len(query)
           b == m_current.begin
           c == e[k] + 1 + Len(KeyOf(u, k + 1))
<1>1. /\ alive /\ n \in Nat /\ k \in Nat /\ k <= n
      /\ m_current = lexNext(b) /\ m_pos = After(m_current)
      /\ k < n => ItemLexed(u, e, k)
      /\ k = n => lexNext(e[k]).tag = "eos"
  BY ReadingIs
<1>2. UNCHANGED <<query, source>> /\ alive'
  BY <1>1 DEF QueryStart, QuerySplit, Return, Key, Assign, resultVars
<1>3. /\ consume => m_current'.begin = After(lexNext(b))
      /\ Stay => m_current'.begin = b
  BY <1>1, <1>2, BeginIs DEF Reading
<1>4. k' = k /\ n' = n /\ k' <= n /\ k <= e[k] /\ \A i \in 1..k : query'[i] = u.query[i]
  BY <1>1, <1>2 DEF Reading, ReadInv
<1>5. CASE QueryStart
  <2>1. at = "query" /\ m_current.tag = "query_start" /\ at' = "item" /\ consume
    BY <1>5 DEF QueryStart, Step
  <2>2. k = 0 /\ b = e[0]
    BY <2>1 DEF Reading, ReadInv
  <2>3. k < n
    BY <1>1, <2>1, <2>2
  <2>4. m_current'.begin = e[k] + 1
    BY <1>1, <1>3, <2>1, <2>2, <2>3 DEF ItemLexed
  <2> QED
    BY <1>2, <1>4, <2>1, <2>3, <2>4 DEF ReadInv
<1>6. CASE QuerySplit
  <2>1. at = "split" /\ at' = "item" /\ IF m_current.tag = "query_split" THEN consume ELSE Stay
    BY <1>6 DEF QuerySplit
  <2>2. k > 0 /\ b = e[k]
    BY <2>1 DEF Reading, ReadInv
  <2>3. CASE k < n
    <3>1. m_current.tag = "query_split" /\ After(lexNext(b)) = e[k] + 1
      BY <1>1, <2>2, <2>3 DEF ItemLexed
    <3>2. m_current'.begin = e[k] + 1
      BY <1>3, <2>1, <3>1
    <3> QED
      BY <1>2, <1>4, <2>1, <2>3, <3>2 DEF ReadInv
  <2>4. CASE k = n
    <3>1. m_current.tag = "eos"
      BY <1>1, <2>2, <2>4
    <3>2. m_current'.begin = e[k]
      BY <1>3, <2>1, <2>2, <3>1
    <3> QED
      BY <1>1, <1>2, <1>4, <2>1, <2>4, <3>2 DEF ReadInv
  <2> QED
    BY <1>1, <2>3, <2>4
<1>7. CASE Return
  <2>1. at' = "done"
    BY <1>7 DEF Return, Step
  <2>2. k = n
    <3> SUFFICES ASSUME k # n
                 PROVE  FALSE
      OBVIOUS
    <3>1. k < n /\ ItemLexed(u, e, k)
      BY <1>1
    <3>2. CASE at = "query"
      <4>1. k = 0 /\ b = e[0] /\ m_current.tag # "query_start"
        BY <1>7, <3>2 DEF Reading, ReadInv, Return, Step
      <4> QED
        BY <1>1, <3>1, <4>1 DEF ItemLexed
    <3>3. CASE at = "item"
      <4>1. b = e[k] + 1 /\ m_current.tag = "eos"
        BY <1>7, <3>1, <3>3 DEF Reading, ReadInv, Return, Step
      <4> QED
        BY <1>1, <3>1, <4>1 DEF ItemLexed
    <3> QED
      BY <1>7, <3>2, <3>3 DEF Return, Step
  <2> QED
    BY <1>2, <1>4, <2>1, <2>2 DEF ReadInv
<1>8. CASE Key
  <2>1. /\ at = "item" /\ at' = "assign" /\ m_current.tag = "wordy" /\ consume
        /\ key' = Lexeme(m_current)
    BY <1>8 DEF Key, Step
  <2>2. b = IF k < n THEN e[k] + 1 ELSE e[k]
    BY <2>1 DEF Reading, ReadInv
  <2>3. k < n
    <3>1. k = n => m_current.tag = "eos"
      BY <1>1, <2>2
    <3> QED
      BY <1>1, <2>1, <3>1
  <2>4. key' = KeyOf(u, k + 1) /\ m_current'.begin = c
    BY <1>1, <1>3, <2>1, <2>2, <2>3 DEF ItemLexed
  <2> QED
    BY <1>2, <1>4, <2>1, <2>3, <2>4 DEF ReadInv
<1>9. CASE Assign
  <2>1. /\ at = "assign" /\ at' = "value" /\ m_current.tag = "query_assign" /\ consume /\ key' = key
    BY <1>9 DEF Assign, Step, resultVars
  <2>2. k < n /\ key = KeyOf(u, k + 1) /\ b = c
    BY <2>1 DEF Reading, ReadInv
  <2>3. u.query[k + 1].value # Nil
    BY <1>1, <2>1, <2>2 DEF ItemLexed
  <2>4. m_current'.begin = c + 1
    BY <1>1, <1>3, <2>1, <2>2, <2>3 DEF ItemLexed
  <2> QED
    BY <1>2, <1>4, <2>1, <2>2, <2>3, <2>4 DEF ReadInv
<1> QED
  BY <1>5, <1>6, <1>7, <1>8, <1>9

(* A step that adds an item adds the URL's next, and none is lost.         *)
LEMMA ItemIsRead ==
  ASSUME NEW u \in Urls, NEW e, Reading(u, e), NoKey \/ NoAssign \/ Value \/ NoValue
  PROVE  ReadInv(u, e)'
<1> DEFINE n == Len(u.query)
           k == Len(query)
           b == m_current.begin
           c == e[k] + 1 + Len(KeyOf(u, k + 1))
<1>1. /\ alive /\ n \in Nat /\ k \in Nat /\ k <= n
      /\ m_current = lexNext(b) /\ m_pos = After(m_current)
      /\ k < n => ItemLexed(u, e, k)
      /\ k = n => lexNext(e[k]).tag = "eos"
  BY ReadingIs
<1>2. source' = source /\ alive' /\ at' = "split"
  BY <1>1 DEF NoKey, NoAssign, Value, NoValue, Emplace, Step
<1>3. /\ consume => m_current'.begin = After(lexNext(b))
      /\ Stay => m_current'.begin = b
  BY <1>1, <1>2, BeginIs DEF Reading
<1>4. k <= e[k]
  BY DEF Reading, ReadInv
<1>5. ASSUME k < n
      PROVE  u.query[k + 1] = [key |-> KeyOf(u, k + 1), value |-> u.query[k + 1].value]
  <2>1. k + 1 \in 1..n
    BY <1>1, <1>5
  <2> QED
    BY <2>1, UrlIs
<1>6. ASSUME k < n, Emplace(KeyOf(u, k + 1), u.query[k + 1].value), m_current'.begin = e[k + 1]
      PROVE  ReadInv(u, e)'
  <2>1. Len(query') = k + 1 /\ \A i \in 1..k + 1 : query'[i] = u.query[i]
    BY <1>5, <1>6, ItemKept
  <2>2. k + 1 <= n /\ k + 1 > 0 /\ k + 1 <= e[k + 1]
    <3>1. e[k] \in Nat /\ e[k + 1] \in Nat /\ e[k] < e[k + 1]
      BY <1>1, <1>6 DEF ItemLexed
    <3> HIDE DEF k, n
    <3> QED
      BY <1>1, <1>4, <1>6, <3>1
  <2> HIDE DEF k
  <2> QED
    BY <1>2, <1>6, <2>1, <2>2 DEF ReadInv
<1>7. CASE NoKey
  <2>1. at = "item" /\ m_current.tag \notin {"wordy", "eos"}
    BY <1>7 DEF NoKey, Step
  <2>2. b = IF k < n THEN e[k] + 1 ELSE e[k]
    BY <2>1 DEF Reading, ReadInv
  <2> QED
    BY <1>1, <2>1, <2>2 DEF ItemLexed
<1>8. CASE NoAssign
  <2>1. at = "assign" /\ m_current.tag # "query_assign" /\ Stay /\ Emplace(key, Nil)
    BY <1>8 DEF NoAssign, Step
  <2>2. k < n /\ key = KeyOf(u, k + 1) /\ b = c
    BY <2>1 DEF Reading, ReadInv
  <2>3. u.query[k + 1].value = Nil /\ e[k + 1] = c
    BY <1>1, <2>1, <2>2 DEF ItemLexed
  <2> QED
    BY <1>3, <1>6, <2>1, <2>2, <2>3
<1>9. CASE Value \/ NoValue
  <2>1. at = "value" /\ consume
    BY <1>9 DEF Value, NoValue, Step
  <2>2. k < n /\ key = KeyOf(u, k + 1) /\ b = c + 1 /\ u.query[k + 1].value # Nil
    BY <2>1 DEF Reading, ReadInv
  <2>3. /\ m_current.tag \in {"integral_num", "float_num", "wordy"}
        /\ ValueOf(m_current) = u.query[k + 1].value /\ After(lexNext(b)) = e[k + 1]
    BY <1>1, <2>2 DEF ItemLexed
  <2>4. Emplace(key, ValueOf(m_current))
    BY <1>9, <2>3 DEF Value, NoValue, Step
  <2> QED
    BY <1>3, <1>6, <2>1, <2>2, <2>3, <2>4
<1> QED
  BY <1>7, <1>8, <1>9

(* No number of a URL is out of range, and memory holds its items.         *)
LEMMA NothingThrown ==
  ASSUME NEW u \in Urls, NEW e, Reading(u, e)
  PROVE  ~ValueThrows /\ ~MemoryRunsOut
<1> DEFINE n == Len(u.query)
           k == Len(query)
           b == m_current.begin
           c == e[k] + 1 + Len(KeyOf(u, k + 1))
<1>1. /\ n \in Nat /\ k \in Nat /\ k <= n
      /\ m_current = lexNext(b)
      /\ k < n => ItemLexed(u, e, k) /\ k < MaxItems
      /\ k = n => lexNext(e[k]).tag = "eos"
  BY ReadingIs
<1>2. ~ValueThrows
  <2> SUFFICES ASSUME ValueThrows
               PROVE  FALSE
    OBVIOUS
  <2>1. /\ at = "value" /\ m_current.tag \in {"integral_num", "float_num"}
        /\ ~Convertible(Lexeme(m_current), m_current.tag)
    BY DEF ValueThrows
  <2>2. k < n /\ b = c + 1 /\ u.query[k + 1].value # Nil
    BY <2>1 DEF Reading, ReadInv
  <2> QED
    BY <1>1, <2>1, <2>2 DEF ItemLexed
<1>3. ~MemoryRunsOut
  <2> SUFFICES ASSUME MemoryRunsOut
               PROVE  FALSE
    OBVIOUS
  <2>1. CASE at = "item"
    <3>1. m_current.tag \notin {"wordy", "eos"} /\ b = IF k < n THEN e[k] + 1 ELSE e[k]
      BY <2>1 DEF MemoryRunsOut, Reading, ReadInv
    <3> QED
      BY <1>1, <3>1 DEF ItemLexed
  <2>2. CASE at # "item"
    <3>1. k < n /\ k >= MaxItems
      BY <2>2 DEF MemoryRunsOut, Reading, ReadInv
    <3> QED
      BY <1>1, <3>1, UrlAssumption
  <2> QED
    BY <2>1, <2>2
<1> QED
  BY <1>2, <1>3

SpellingInv ==
  \A u \in Urls : source = Spelling[u] => \E e : Layout(u, e) /\ ReadInv(u, e)

LEMMA InitSpellingInv == Init => SpellingInv
<1> SUFFICES ASSUME Init, NEW u \in Urls, source = Spelling[u]
             PROVE  \E e : Layout(u, e) /\ ReadInv(u, e)
  BY DEF SpellingInv
<1>1. PICK e : Layout(u, e)
  BY SpellingLaidOut
<1>2. Len(u.query) \in Nat
  BY UrlIs
<1>3. e[0] \in 0..Len(source) /\ Len(source) \in Nat
  BY <1>1, <1>2, SpellingLaidOut DEF Layout
<1>4. alive /\ at = "path" /\ Len(query) = 0
  BY DEF Init
<1>5. ReadInv(u, e)
  BY <1>2, <1>3, <1>4 DEF ReadInv
<1> QED
  BY <1>1, <1>5

LEMMA NextSpellingInv == UrlInv /\ SpellingInv /\ [Next]_vars => SpellingInv'
<1> SUFFICES ASSUME UrlInv, SpellingInv, [Next]_vars, NEW u \in Urls, source' = Spelling[u]
             PROVE  \E e : Layout(u, e)' /\ ReadInv(u, e)'
  BY DEF SpellingInv, Spelling, PathOf, QueryOf, Spelled
<1>1. source' = source
  BY DEF Next, parsePath, parseQueryChain, parseQueryItem, PathSplit, Segment, PathEnds, QueryStart,
         Return, Key, Assign, NoKey, NoAssign, Value, NoValue, Emplace, QuerySplit, ValueThrows,
         MemoryRunsOut, Dies, vars
<1>2. PICK e : Layout(u, e) /\ ReadInv(u, e)
  BY <1>1 DEF SpellingInv
<1>3. Reading(u, e)
  BY <1>1, <1>2 DEF Reading
<1>4. Layout(u, e)'
  <2>1. Layout(u, e)' = Layout(u, e)
    BY <1>1 DEF Layout
  <2> QED
    BY <1>2, <2>1
<1>5. ReadInv(u, e)'
  <2>1. CASE parsePath
    BY <1>3, <2>1, PathIsRead
  <2>2. CASE QueryStart \/ QuerySplit \/ Return \/ Key \/ Assign
    BY <1>3, <2>2, MarksRead
  <2>3. CASE NoKey \/ NoAssign \/ Value \/ NoValue
    BY <1>3, <2>3, ItemIsRead
  <2>4. CASE ValueThrows \/ MemoryRunsOut
    BY <1>3, <2>4, NothingThrown
  <2>5. CASE UNCHANGED vars
    BY <1>2, <2>5 DEF ReadInv, vars, resultVars
  <2> QED
    BY <2>1, <2>2, <2>3, <2>4, <2>5 DEF Next, parseQueryChain, parseQueryItem
<1> QED
  BY <1>4, <1>5

LEMMA SpellingInvInductive == Spec => [](UrlInv /\ SpellingInv)
<1>1. Init => UrlInv /\ SpellingInv
  BY InitUrlInv, InitSpellingInv
<1>2. UrlInv /\ SpellingInv /\ [Next]_vars => (UrlInv /\ SpellingInv)'
  BY NextUrlInv, NextSpellingInv
<1> QED
  BY <1>1, <1>2, PTL DEF Spec

LEMMA ReadBack == UrlInv /\ SpellingInv => RoundTrip
<1> SUFFICES ASSUME UrlInv, SpellingInv, at = "done" \/ ~alive, NEW u \in Urls, source = Spelling[u]
             PROVE  ReadAs(u)
  BY DEF RoundTrip
<1>1. PICK e : ReadInv(u, e)
  BY DEF SpellingInv
<1>2. /\ alive /\ at = "done" /\ Len(query) = Len(u.query)
      /\ \A i \in 1..Len(query) : query[i] = u.query[i]
  BY <1>1 DEF ReadInv
<1>3. path_length = Len(PathOf(u))
  BY <1>2, PathOfLongest DEF UrlInv, PathInv
<1>4. query = u.query
  <2>1. PICK S : query \in Seq(S)
    BY DEF UrlInv, QueryInv
  <2>2. PICK T : u.query \in Seq(T)
    BY UrlIs
  <2>3. query \in Seq(S \cup T) /\ u.query \in Seq(S \cup T)
    BY <2>1, <2>2, SeqMonotonic
  <2> QED
    BY <1>2, <2>3, SeqEqual
<1> QED
  BY <1>2, <1>3, <1>4 DEF ReadAs

-----------------------------------------------------------------------------
(* The steps run out. *)

(* What is left: characters and room for items, each of them worth more    *)
(* than a step that takes none, and the steps of this kind in a row.       *)
Rank == [path |-> 3, segment |-> 3, query |-> 2, split |-> 2,
         item |-> 1, assign |-> 1, value |-> 1, done |-> 0]
Left == 2 * ((Len(source) - m_current.begin) + (MaxItems - Len(query)))
          + Rank[at] + IF alive THEN 1 ELSE 0

LEMMA ConsumeTakes ==
  ASSUME UrlInv, consume, source' = source
  PROVE  /\ m_current'.begin >= m_current.begin
         /\ m_current.tag # "eos" => m_current'.begin > m_current.begin
<1>1. source \in Seq(Characters) /\ TokenInv /\ TypeOK
  BY DEF UrlInv, TypeOK
<1>2. PICK pos \in 0..Len(source) : m_current = lexNext(pos)
  BY <1>1 DEF TokenInv
<1>3. m_current.begin = pos /\ m_pos = After(m_current) /\ m_pos \in pos..Len(source)
  BY <1>1, <1>2, TokenIs DEF TokenInv
<1>4. m_current'.begin = m_pos
  BY <1>1, ConsumeToken
<1>5. m_current.tag # "eos" => pos < Len(source)
  BY <1>1, <1>2, MarkIs
<1>6. ASSUME pos < Len(source)
      PROVE  m_pos # pos
  <2> DEFINE c == source[pos + 1]
  <2>1. m_current.tag # "eos"
    BY <1>1, <1>2, <1>6, MarkIs
  <2>2. m_pos = pos + m_current.length
    BY <1>3, <2>1 DEF After
  <2>3. c \in Characters
    BY <1>1, <1>6
  <2>4. m_current.length # 0
    <3>1. CASE c \in DOMAIN Singles
      BY <1>1, <1>2, <1>6, <3>1 DEF lexNext
    <3>2. CASE c \notin DOMAIN Singles /\ c \in Numeric
      <4>1. m_current = lexNumeric(pos)
        BY <1>1, <1>2, <1>6, <3>2 DEF lexNext
      <4>2. m_current.length = Length(pos, Numeric)
        BY <1>1, <4>1, NumericIs
      <4>3. PICK l \in Nat : l = Length(pos, Numeric)
        BY <1>1, LengthIs
      <4>4. l = 0 => c \notin Numeric
        <5>1. pos + l < Len(source) => source[pos + l + 1] \notin Numeric
          BY <1>1, <4>3, LengthIs
        <5> QED
          BY <1>6, <5>1
      <4> QED
        BY <3>2, <4>2, <4>3, <4>4
    <3>3. CASE c \notin DOMAIN Singles /\ c \notin Numeric
      <4>1. c = "a"
        BY <2>3, <3>3, SinglesAre DEF Characters, Numeric
      <4>2. m_current.tag = "wordy" /\ m_current.length > 0
        BY <1>1, <1>2, <1>6, <4>1, TokenIs
      <4> QED
        BY <4>2
    <3> QED
      BY <3>1, <3>2, <3>3
  <2>5. m_current.length \in Nat
    BY <1>1, <1>2, TokenIs
  <2> QED
    BY <2>2, <2>4, <2>5
<1> QED
  BY <1>3, <1>4, <1>5, <1>6

LEMMA LessLeft ==
  ASSUME NEW r \in Nat, NEW f \in Nat, NEW s \in Nat, NEW g \in Nat,
         NEW x \in 0..3, NEW y \in 0..3, NEW c \in 0..1, NEW d \in 0..1,
         s <= r, g <= f, d <= c,
         \/ (s < r \/ g < f) /\ y <= x + 1
         \/ y < x
         \/ y = x /\ d < c
  PROVE  2 * (s + g) + y + d < 2 * (r + f) + x + c
  OBVIOUS

(* Every step takes of what is left.                                       *)
LEMMA StepTakes ==
  ASSUME UrlInv, UrlInv', Next
  PROVE  Left \in Nat /\ Left' < Left
<1>1. source' = source
  BY DEF Next, parsePath, parseQueryChain, parseQueryItem, PathSplit, Segment, PathEnds, QueryStart,
         Return, Key, Assign, NoKey, NoAssign, Value, NoValue, Emplace, QuerySplit, ValueThrows,
         MemoryRunsOut, Dies
<1>2. PICK L \in Nat : L = Len(source) /\ L = Len(source')
  BY <1>1 DEF UrlInv, TypeOK
<1>3. PICK b \in 0..L : b = m_current.begin
  BY <1>2 DEF UrlInv, TypeOK
<1>4. PICK bb \in 0..L : bb = m_current'.begin
  BY <1>2 DEF UrlInv, TypeOK
<1>5. PICK k \in Nat : k = Len(query)
  BY DEF UrlInv, QueryInv
<1>6. PICK kk \in Nat : kk = Len(query')
  BY DEF UrlInv, QueryInv
<1>7. MaxItems \in Nat /\ k <= MaxItems /\ kk <= MaxItems
  BY <1>5, <1>6, UrlAssumption DEF UrlInv, TypeOK
<1>8. PICK x \in 0..3 : x = Rank[at]
  BY DEF UrlInv, TypeOK, Rank
<1>9. PICK y \in 0..3 : y = Rank[at']
  BY DEF UrlInv, TypeOK, Rank
<1>10. PICK c \in 0..1 : c = IF alive THEN 1 ELSE 0
  OBVIOUS
<1>11. PICK d \in 0..1 : d = IF alive' THEN 1 ELSE 0
  OBVIOUS
<1>12. PICK r \in Nat : r = L - b
  OBVIOUS
<1>13. PICK f \in Nat : f = MaxItems - k
  BY <1>7
<1>14. PICK s \in Nat : s = L - bb
  OBVIOUS
<1>15. PICK g \in Nat : g = MaxItems - kk
  BY <1>7
<1>16. Left = 2 * (r + f) + x + c
  BY <1>2, <1>3, <1>5, <1>8, <1>10, <1>12, <1>13 DEF Left
<1>17. Left' = 2 * (s + g) + y + d
  BY <1>2, <1>4, <1>6, <1>9, <1>11, <1>14, <1>15 DEF Left
<1>18. /\ Stay => bb = b
       /\ consume => bb >= b
       /\ consume /\ m_current.tag # "eos" => bb > b
  BY <1>1, <1>3, <1>4, BeginIs, ConsumeTakes
<1>19. (\E w, v : Emplace(w, v)) => kk = k + 1
  <2> SUFFICES ASSUME NEW w, NEW v, Emplace(w, v)
               PROVE  kk = k + 1
    OBVIOUS
  <2> DEFINE item == [key |-> w, value |-> v]
  <2>1. PICK T : query \in Seq(T)
    BY DEF UrlInv, QueryInv
  <2>2. query \in Seq(T \cup {item}) /\ item \in T \cup {item}
    BY <2>1
  <2>3. query' = Append(query, item)
    BY DEF Emplace
  <2> HIDE DEF item
  <2>4. Len(query') = Len(query) + 1
    BY <2>2, <2>3
  <2> QED
    BY <1>5, <1>6, <2>4
<1>20. UNCHANGED query => kk = k
  BY <1>5, <1>6
<1>21. /\ s <= r /\ g <= f /\ d <= c
       /\ \/ (s < r \/ g < f) /\ y <= x + 1
          \/ y < x
          \/ y = x /\ d < c
  <2>1. CASE PathSplit \/ Segment \/ QueryStart \/ Key \/ Assign
    <3>1. consume /\ UNCHANGED query /\ m_current.tag # "eos" /\ UNCHANGED alive
      BY <2>1 DEF PathSplit, Segment, QueryStart, Key, Assign, Step, resultVars
    <3>2. bb > b /\ kk = k /\ d = c
      BY <1>10, <1>11, <1>18, <1>20, <3>1
    <3>3. y <= x
      BY <1>8, <1>9, <2>1 DEF PathSplit, Segment, QueryStart, Key, Assign, Step, Rank
    <3>4. s < r /\ g = f
      BY <1>12, <1>13, <1>14, <1>15, <3>2
    <3> QED
      BY <3>2, <3>3, <3>4
  <2>2. CASE PathEnds \/ Return
    <3>1. Stay /\ UNCHANGED query /\ UNCHANGED alive
      BY <2>2 DEF PathEnds, Return, Step, resultVars
    <3>2. bb = b /\ kk = k /\ d = c
      BY <1>10, <1>11, <1>18, <1>20, <3>1
    <3>3. y < x
      BY <1>8, <1>9, <2>2 DEF PathEnds, Return, Step, Rank
    <3>4. s = r /\ g = f
      BY <1>12, <1>13, <1>14, <1>15, <3>2
    <3> QED
      BY <3>2, <3>3, <3>4
  <2>3. CASE NoKey \/ NoAssign \/ Value \/ NoValue
    <3>1. (consume \/ Stay) /\ (\E w, v : Emplace(w, v)) /\ UNCHANGED alive
      BY <2>3 DEF NoKey, NoAssign, Value, NoValue, Emplace
    <3>2. bb >= b /\ kk = k + 1 /\ d = c
      BY <1>10, <1>11, <1>18, <1>19, <3>1
    <3>3. y <= x + 1
      BY <1>8, <1>9, <2>3 DEF NoKey, NoAssign, Value, NoValue, Step, Rank
    <3>4. s <= r /\ g < f
      <4>1. g = MaxItems - (k + 1) /\ f = MaxItems - k
        BY <1>13, <1>15, <3>2
      <4>2. MaxItems \in Nat
        BY <1>7
      <4>3. s <= r
        BY <1>12, <1>14, <3>2
      <4> QED
        BY <4>1, <4>2, <4>3
    <3> QED
      BY <3>2, <3>3, <3>4
  <2>4. CASE QuerySplit
    <3>1. (consume \/ Stay) /\ UNCHANGED query /\ UNCHANGED alive
      BY <2>4 DEF QuerySplit, resultVars
    <3>2. bb >= b /\ kk = k /\ d = c
      BY <1>10, <1>11, <1>18, <1>20, <3>1
    <3>3. y < x
      BY <1>8, <1>9, <2>4 DEF QuerySplit, Rank
    <3>4. s <= r /\ g = f
      BY <1>12, <1>13, <1>14, <1>15, <3>2
    <3> QED
      BY <3>2, <3>3, <3>4
  <2>5. CASE ValueThrows \/ MemoryRunsOut
    <3>1. UNCHANGED <<m_current, query, at>> /\ alive /\ ~alive'
      BY <2>5 DEF ValueThrows, MemoryRunsOut, Dies, resultVars
    <3>2. bb = b /\ kk = k /\ y = x /\ d < c
      BY <1>3, <1>4, <1>8, <1>9, <1>10, <1>11, <1>20, <3>1
    <3>3. s = r /\ g = f
      BY <1>12, <1>13, <1>14, <1>15, <3>2
    <3> QED
      BY <3>2, <3>3
  <2> QED
    BY <2>1, <2>2, <2>3, <2>4, <2>5 DEF Next, parsePath, parseQueryChain, parseQueryItem
<1>22. 2 * (s + g) + y + d < 2 * (r + f) + x + c
  BY <1>21, LessLeft
<1>23. 2 * (r + f) + x + c \in Nat
  OBVIOUS
<1> QED
  BY <1>16, <1>17, <1>22, <1>23

-----------------------------------------------------------------------------
(* The promises. *)

(* Every variable of the parser has a value of its type.                   *)
THEOREM UrlTypeCorrect == Spec => []TypeOK
<1>1. UrlInv => TypeOK
  BY DEF UrlInv
<1> QED
  BY <1>1, UrlInvInductive, PTL

(* parsePath() returns the longest path the source begins with, of any     *)
(* source: what it counts token by token is never too little or too much.  *)
THEOREM PathExactCorrect == Spec => []PathExact
<1>1. UrlInv => PathExact
  BY DEF UrlInv, PathInv, PathExact, LongestPath
<1> QED
  BY <1>1, UrlInvInductive, PTL

(* parseAll() only ends the process on a number behind a '=' that does not *)
(* convert, or on an item made again until memory has run out.             *)
THEOREM UrlDiesCorrect == Spec => []DiesOnlyOn
<1>1. UrlInv => DiesOnlyOn
  BY DEF UrlInv
<1> QED
  BY <1>1, UrlInvInductive, PTL

(* A URL is read back from its spelling, whatever its length: parseAll()   *)
(* ends with the path as it is spelled and with every key and value of the *)
(* query, and nothing of it ends the process.                              *)
THEOREM RoundTripCorrect == Spec => []RoundTrip
  BY SpellingInvInductive, ReadBack, PTL

(* parseAll() cannot go on for ever, on any source: every step leaves less *)
(* of a number that is never negative, and that begins at two for each     *)
(* character and each item that memory holds, and four.                    *)
THEOREM StepsRunOut == Spec => [][Left' < Left /\ Left \in Nat]_vars
<1>1. UrlInv /\ UrlInv' /\ [Next]_vars => [Left' < Left /\ Left \in Nat]_vars
  BY StepTakes
<1> QED
  BY <1>1, UrlInvInductive, PTL DEF Spec
==============================================================================
