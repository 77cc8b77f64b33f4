--------------------------- MODULE UnitFileProofs ---------------------------
(***************************************************************************)
(* UnitFile for names, paths and arguments of any length and any symbols:  *)
(* what systemd starts from the unit file, and what status and uninstall   *)
(* read in it, is what install was asked for.  Facts about all texts are   *)
(* proved by induction, on the set of the texts that they hold of: what a  *)
(* fold computes, what each substitution of the quoting does to a symbol,  *)
(* what the reader of a line makes of what is written for a symbol, an     *)
(* argument and a list of arguments, and where the lines of the file end.  *)
(***************************************************************************)
EXTENDS UnitFile, SequenceTheorems, WellFoundedInduction, TLAPS

-----------------------------------------------------------------------------
(* Induction on numbers and on sequences, as a fact about sets: the set of  *)
(* those of which something holds is the set of all.                        *)

\* The order of the natural numbers, as the well-founded relation that it is.
LEMMA Less ==
  \E R : /\ IsWellFoundedOn(R, Nat)
         /\ \A x, y \in Nat : <<x, y>> \in R <=> x < y
<1> DEFINE R == OpToRel(<, Nat)
<1>1. IsWellFoundedOn(R, Nat)
  BY NatLessThanWellFounded
<1>2. \A x, y \in Nat : <<x, y>> \in R <=> x < y
  BY DEF OpToRel
<1> QED BY <1>1, <1>2

\* A set of numbers that is not empty has a member with none below it.
LEMMA Minimal ==
  ASSUME NEW R, IsWellFoundedOn(R, Nat), NEW U, U \subseteq Nat, U # {}
  PROVE  \E x \in U : \A y \in U : ~ (<<y, x>> \in R)
BY WFMin, Zenon

\* Induction: a set with 0 and with every successor is all of Nat.
LEMMA NatSets ==
  ASSUME NEW T \in SUBSET Nat, 0 \in T, \A n \in T : n + 1 \in T
  PROVE  T = Nat
<1> SUFFICES ASSUME Nat \ T # {} PROVE FALSE
  OBVIOUS
<1>1. PICK R : /\ IsWellFoundedOn(R, Nat)
               /\ \A x, y \in Nat : <<x, y>> \in R <=> x < y
  BY Less
<1> DEFINE U == Nat \ T
<1>2. U \subseteq Nat /\ U # {}
  OBVIOUS
<1> HIDE DEF U
<1>3. \E x \in U : \A y \in U : ~ (<<y, x>> \in R)
  BY <1>1, <1>2, Minimal, Zenon
<1>4. PICK x \in U : \A y \in U : ~(y < x)
  BY <1>1, <1>2, <1>3
<1>5. x \in Nat /\ x \notin T
  BY <1>4 DEF U
<1>6. x # 0 /\ x - 1 \in Nat /\ x - 1 < x /\ (x - 1) + 1 = x
  BY <1>5
<1>7. x - 1 \in T
  BY <1>4, <1>6 DEF U
<1> QED BY <1>5, <1>6, <1>7

\* Induction on sequences: a set of them with the empty one, and with every
\* member one longer, is all of Seq(S).
LEMMA SeqSets ==
  ASSUME NEW X, NEW T \in SUBSET Seq(X), <<>> \in T,
         \A t \in T : \A c \in X : Append(t, c) \in T
  PROVE  T = Seq(X)
<1> DEFINE N == {n \in Nat : \A t \in Seq(X) : Len(t) = n => t \in T}
<1>1. 0 \in N
  BY EmptySeq
<1>2. ASSUME NEW n \in N PROVE n + 1 \in N
  <2> SUFFICES ASSUME NEW t \in Seq(X), Len(t) = n + 1 PROVE t \in T
    OBVIOUS
  <2>1. n \in Nat
    OBVIOUS
  <2>2. t # <<>>
    BY <2>1, EmptySeq
  <2>3. PICK s \in Seq(X), c \in X : t = Append(s, c)
    BY <2>2, SequenceEmptyOrAppend
  <2>4. Len(s) = n
    BY <2>1, <2>3, AppendProperties, LenProperties
  <2> QED BY <2>3, <2>4
<1>3. N \in SUBSET Nat
  OBVIOUS
<1> HIDE DEF N
<1>4. N = Nat
  BY <1>1, <1>2, <1>3, NatSets
<1>5. ASSUME NEW t \in Seq(X) PROVE t \in T
  <2>1. Len(t) \in N
    BY <1>4, LenProperties
  <2> QED BY <2>1 DEF N
<1> QED BY <1>5

-----------------------------------------------------------------------------
(* What Fold computes.                                                      *)

\* The states of a reader after each symbol of a text.
IsFold(after, step, first, text) ==
    after = [i \in 0..Len(text) |-> IF i = 0 THEN first ELSE step[after[i - 1]][text[i]]]

\* The recursive definition has a solution, ...
LEMMA FoldExists ==
  ASSUME NEW X, NEW step, NEW first, NEW text \in Seq(X)
  PROVE  \E after : IsFold(after, step, first, text)
<1> DEFINE T == {t \in Seq(X) : \E after : IsFold(after, step, first, t)}
<1>1. <<>> \in T
  <2> DEFINE after == [i \in 0..0 |-> first]
  <2>1. Len(<<>>) = 0 /\ <<>> \in Seq(X)
    OBVIOUS
  <2>2. IsFold(after, step, first, <<>>)
    BY <2>1 DEF IsFold
  <2> QED BY <2>1, <2>2
<1>2. ASSUME NEW t \in T, NEW c \in X PROVE Append(t, c) \in T
  <2>1. t \in Seq(X)
    OBVIOUS
  <2>2. PICK after : IsFold(after, step, first, t)
    OBVIOUS
  <2> DEFINE u == Append(t, c)
             next == [i \in 0..Len(u) |-> IF i <= Len(t) THEN after[i]
                                          ELSE step[after[Len(t)]][c]]
  <2>3. /\ u \in Seq(X) /\ Len(u) = Len(t) + 1 /\ Len(t) \in Nat
        /\ u[Len(u)] = c /\ \A i \in 1..Len(t) : u[i] = t[i]
    BY <2>1, AppendProperties, LenProperties
  <2>4. \A i \in 0..Len(t) : after[i] = IF i = 0 THEN first ELSE step[after[i - 1]][t[i]]
    BY <2>2, <2>3 DEF IsFold
  <2> HIDE DEF u
  <2>5. ASSUME NEW i \in 0..Len(u)
        PROVE  next[i] = IF i = 0 THEN first ELSE step[next[i - 1]][u[i]]
    <3>1. CASE i = 0
      BY <2>3, <2>4, <3>1
    <3>2. CASE i \in 1..Len(t)
      <4>1. next[i] = after[i] /\ next[i - 1] = after[i - 1] /\ u[i] = t[i] /\ i \in 0..Len(t)
        BY <2>3, <3>2
      <4> QED BY <2>4, <3>2, <4>1
    <3>3. CASE i = Len(t) + 1
      <4>1. next[i - 1] = after[Len(t)] /\ next[i] = step[after[Len(t)]][c] /\ u[i] = c /\ i # 0
        BY <2>3, <3>3
      <4> QED BY <4>1
    <3> QED BY <2>3, <3>1, <3>2, <3>3
  <2> DEFINE unfolded == [i \in 0..Len(u) |-> IF i = 0 THEN first ELSE step[next[i - 1]][u[i]]]
  <2>6. next = unfolded
    BY <2>5
  <2>7. IsFold(next, step, first, u)
    BY <2>6 DEF IsFold
  <2>8. u \in T
    BY <2>3, <2>7
  <2> QED BY <2>8 DEF u
<1> HIDE DEF T
<1>3. T = Seq(X)
  BY <1>1, <1>2, SeqSets DEF T
<1> QED BY <1>3 DEF T

\* ... and only one.
LEMMA FoldUnique ==
  ASSUME NEW X, NEW step, NEW first, NEW text \in Seq(X), NEW f, NEW g,
         IsFold(f, step, first, text), IsFold(g, step, first, text)
  PROVE  \A i \in 0..Len(text) : f[i] = g[i]
<1> DEFINE N == {n \in Nat : n <= Len(text) => f[n] = g[n]}
<1>0. /\ Len(text) \in Nat
      /\ \A i \in 0..Len(text) : f[i] = IF i = 0 THEN first ELSE step[f[i - 1]][text[i]]
      /\ \A i \in 0..Len(text) : g[i] = IF i = 0 THEN first ELSE step[g[i - 1]][text[i]]
  BY LenProperties DEF IsFold
<1>1. 0 \in N
  BY <1>0
<1>2. ASSUME NEW n \in N PROVE n + 1 \in N
  <2>1. n \in Nat /\ (n <= Len(text) => f[n] = g[n])
    OBVIOUS
  <2>2. CASE n + 1 <= Len(text)
    <3>1. n + 1 \in 0..Len(text) /\ n + 1 # 0 /\ (n + 1) - 1 = n /\ n <= Len(text)
      BY <1>0, <2>1, <2>2
    <3>2. f[n + 1] = step[f[(n + 1) - 1]][text[n + 1]] /\ g[n + 1] = step[g[(n + 1) - 1]][text[n + 1]]
      BY <1>0, <3>1
    <3>3. f[n + 1] = g[n + 1]
      BY <2>1, <3>1, <3>2
    <3> QED BY <2>1, <3>3
  <2> QED BY <2>1, <2>2
<1> HIDE DEF N
<1>3. N = Nat
  BY <1>1, <1>2, NatSets DEF N
<1> QED BY <1>0, <1>3 DEF N

\* ... and only one, ...
LEMMA FoldIs ==
  ASSUME NEW X, NEW step, NEW first, NEW text \in Seq(X), NEW f, IsFold(f, step, first, text)
  PROVE  Fold(step, first, text) = f[Len(text)]
<1> DEFINE after == CHOOSE g : IsFold(g, step, first, text)
<1>1. IsFold(after, step, first, text)
  OBVIOUS
<1>2. Fold(step, first, text) = after[Len(text)]
  BY DEF Fold, IsFold
<1> HIDE DEF after
<1>3. after[Len(text)] = f[Len(text)]
  BY <1>1, FoldUnique, LenProperties
<1> QED BY <1>2, <1>3

\* A fold over nothing, and over one symbol more.
LEMMA FoldEmpty == ASSUME NEW step, NEW first PROVE Fold(step, first, <<>>) = first
<1> DEFINE after == [i \in 0..0 |-> first]
<1>1. Len(<<>>) = 0 /\ <<>> \in Seq({})
  OBVIOUS
<1>2. IsFold(after, step, first, <<>>)
  BY <1>1 DEF IsFold
<1>3. Fold(step, first, <<>>) = after[Len(<<>>)]
  BY <1>1, <1>2, FoldIs
<1> QED BY <1>1, <1>3

\* ... so reading one symbol more is one step more.
LEMMA FoldAppend ==
  ASSUME NEW X, NEW step, NEW first, NEW text \in Seq(X), NEW c \in X
  PROVE  Fold(step, first, Append(text, c)) = step[Fold(step, first, text)][c]
<1> DEFINE u == Append(text, c)
<1>1. /\ u \in Seq(X) /\ Len(u) = Len(text) + 1 /\ Len(text) \in Nat
      /\ u[Len(u)] = c /\ \A i \in 1..Len(text) : u[i] = text[i]
  BY AppendProperties, LenProperties
<1> HIDE DEF u
<1>2. PICK f : IsFold(f, step, first, u)
  BY <1>1, FoldExists
<1>3. \A i \in 0..Len(u) : f[i] = IF i = 0 THEN first ELSE step[f[i - 1]][u[i]]
  BY <1>1, <1>2 DEF IsFold
<1> DEFINE g == [i \in 0..Len(text) |-> f[i]]
<1>4. ASSUME NEW i \in 0..Len(text)
      PROVE  g[i] = IF i = 0 THEN first ELSE step[g[i - 1]][text[i]]
  <2>1. CASE i = 0
    BY <1>1, <1>3, <2>1
  <2>2. CASE i # 0
    <3>1. i \in 0..Len(u) /\ u[i] = text[i] /\ g[i] = f[i] /\ g[i - 1] = f[i - 1]
      BY <1>1, <2>2
    <3> QED BY <1>3, <2>2, <3>1
  <2> QED BY <2>1, <2>2
<1> DEFINE unfolded == [i \in 0..Len(text) |-> IF i = 0 THEN first ELSE step[g[i - 1]][text[i]]]
<1>5. g = unfolded
  BY <1>4
<1>6. IsFold(g, step, first, text)
  BY <1>5 DEF IsFold
<1>7. Fold(step, first, text) = f[Len(text)]
  <2>1. Fold(step, first, text) = g[Len(text)]
    BY <1>6, FoldIs
  <2> QED BY <1>1, <2>1
<1>8. Fold(step, first, u) = f[Len(u)]
  BY <1>1, <1>2, FoldIs
<1>9. f[Len(u)] = step[f[Len(text)]][c]
  <2>1. Len(u) \in 0..Len(u) /\ Len(u) # 0 /\ Len(u) - 1 = Len(text)
    BY <1>1
  <2>2. f[Len(u)] = step[f[Len(u) - 1]][u[Len(u)]]
    BY <1>3, <2>1
  <2> QED BY <1>1, <2>1, <2>2
<1> QED BY <1>7, <1>8, <1>9 DEF u

\* A fold over two texts is one over the first and then over the second.
LEMMA FoldConcat ==
  ASSUME NEW X, NEW step, NEW first, NEW t \in Seq(X), NEW u \in Seq(X)
  PROVE  Fold(step, first, t \o u) = Fold(step, Fold(step, first, t), u)
<1> DEFINE T == {v \in Seq(X) : Fold(step, first, t \o v) = Fold(step, Fold(step, first, t), v)}
<1>1. <<>> \in T
  BY FoldEmpty, ConcatEmptySeq, EmptySeq
<1>2. ASSUME NEW v \in T, NEW c \in X PROVE Append(v, c) \in T
  <2>1. v \in Seq(X) /\ Fold(step, first, t \o v) = Fold(step, Fold(step, first, t), v)
    OBVIOUS
  <2>2. t \o v \in Seq(X) /\ Append(v, c) \in Seq(X)
    BY <2>1
  <2>3. t \o Append(v, c) = Append(t \o v, c)
    BY <2>1
  <2>4. Fold(step, first, Append(t \o v, c)) = step[Fold(step, first, t \o v)][c]
    <3> DEFINE w == t \o v
    <3>1. w \in Seq(X)
      BY <2>2
    <3> HIDE DEF w
    <3>2. Fold(step, first, Append(w, c)) = step[Fold(step, first, w)][c]
      BY <3>1, FoldAppend
    <3> QED BY <3>2 DEF w
  <2>5. Fold(step, Fold(step, first, t), Append(v, c)) = step[Fold(step, Fold(step, first, t), v)][c]
    BY <2>1, FoldAppend
  <2> QED BY <2>1, <2>2, <2>3, <2>4, <2>5
<1> HIDE DEF T
<1>3. T = Seq(X)
  BY <1>1, <1>2, SeqSets DEF T
<1> QED BY <1>3 DEF T

-----------------------------------------------------------------------------
(* What the replacements and the quoting write.                             *)

\* Texts of one symbol and of two.
One(c)     == <<c>>
Pair(c, d) == <<c, d>>

\* Texts of one and of two symbols, and how they are put together.
LEMMA Two ==
  ASSUME NEW c \in Symbols, NEW d \in Symbols
  PROVE  /\ One(c) \in Text /\ Pair(c, d) \in Text /\ Append(<<>>, c) = One(c)
         /\ Append(One(c), d) = Pair(c, d) /\ One(c) \o One(d) = Pair(c, d)
<1>1. /\ Append(<<c>>, d) \in Seq(Symbols) /\ Len(Append(<<c>>, d)) = 2
      /\ Append(<<c>>, d)[1] = c /\ Append(<<c>>, d)[2] = d
  OBVIOUS
<1>2. Pair(c, d) \in Seq(Symbols) /\ Len(Pair(c, d)) = 2 /\ Pair(c, d)[1] = c /\ Pair(c, d)[2] = d
  BY DEF Pair
<1>3. Append(One(c), d) = Pair(c, d)
  BY <1>1, <1>2, SeqEqual DEF One
<1>4. One(c) \o One(d) = Append(One(c), d)
  BY DEF One
<1>5. One(c) \in Seq(Symbols) /\ Append(<<>>, c) = One(c)
  BY DEF One
<1> QED BY <1>2, <1>3, <1>4, <1>5 DEF Text

Put(c, symbol, by) == IF c = symbol THEN by ELSE One(c)

\* What a symbol is replaced by is a text, ...
LEMMA PutText ==
  ASSUME NEW c \in Symbols, NEW symbol, NEW by \in Text
  PROVE  Put(c, symbol, by) \in Text
BY Two DEF Put

\* One replacement, symbol by symbol.
LEMMA ReplacedEmpty == ASSUME NEW symbol, NEW by PROVE Replaced(<<>>, symbol, by) = <<>>
BY FoldEmpty DEF Replaced, NoText

\* ... a text with a symbol replaced is a text, ...
LEMMA ReplacedText ==
  ASSUME NEW t \in Text, NEW symbol, NEW by \in Text
  PROVE  Replaced(t, symbol, by) \in Text
<1> DEFINE T == {v \in Text : Replaced(v, symbol, by) \in Text}
<1>1. <<>> \in T
  <2>1. Replaced(<<>>, symbol, by) = <<>>
    BY ReplacedEmpty
  <2>2. <<>> \in Text
    BY DEF Text
  <2> QED BY <2>1, <2>2
<1>2. ASSUME NEW v \in T, NEW c \in Symbols PROVE Append(v, c) \in T
  <2>1. v \in Seq(Symbols) /\ Append(v, c) \in Text /\ Replaced(v, symbol, by) \in Text
    BY DEF Text
  <2>2. Fold(substitution(symbol, by), NoText, Append(v, c))
          = substitution(symbol, by)[Fold(substitution(symbol, by), NoText, v)][c]
    BY <2>1, FoldAppend
  <2>3. Replaced(Append(v, c), symbol, by) = Replaced(v, symbol, by) \o Put(c, symbol, by)
    BY <2>1, <2>2 DEF Replaced, substitution, Put, One
  <2>4. Put(c, symbol, by) \in Text
    BY PutText
  <2>5. Replaced(v, symbol, by) \o Put(c, symbol, by) \in Text
    BY <2>1, <2>4, ConcatProperties DEF Text
  <2> QED BY <2>1, <2>3, <2>5
<1> HIDE DEF T
<1>3. T = Text
  BY <1>1, <1>2, SeqSets DEF T, Text
<1> QED BY <1>3 DEF T

\* ... ReplaceAll replaces the last symbol as it replaces the others, ...
LEMMA ReplacedAppend ==
  ASSUME NEW t \in Text, NEW c \in Symbols, NEW symbol, NEW by \in Text
  PROVE  Replaced(Append(t, c), symbol, by) = Replaced(t, symbol, by) \o Put(c, symbol, by)
<1>1. t \in Seq(Symbols) /\ Replaced(t, symbol, by) \in Text
  BY ReplacedText DEF Text
<1>2. Fold(substitution(symbol, by), NoText, Append(t, c))
        = substitution(symbol, by)[Fold(substitution(symbol, by), NoText, t)][c]
  BY <1>1, FoldAppend
<1> QED BY <1>1, <1>2 DEF Replaced, substitution, Put, One

\* ... and goes through two texts one after the other, ...
LEMMA ReplacedConcat ==
  ASSUME NEW t \in Text, NEW u \in Text, NEW symbol, NEW by \in Text
  PROVE  Replaced(t \o u, symbol, by) = Replaced(t, symbol, by) \o Replaced(u, symbol, by)
<1> DEFINE R(v) == Replaced(v, symbol, by)
           T == {v \in Text : R(t \o v) = R(t) \o R(v)}
<1>0. \A v \in Text : R(v) \in Text
  BY ReplacedText
<1>1. <<>> \in T
  BY <1>0, ReplacedEmpty, ConcatEmptySeq DEF Text
<1>2. ASSUME NEW v \in T, NEW c \in Symbols PROVE Append(v, c) \in T
  <2>1. v \in Text /\ R(t \o v) = R(t) \o R(v)
    OBVIOUS
  <2>2. t \o v \in Text /\ Append(v, c) \in Text /\ t \o Append(v, c) = Append(t \o v, c)
    BY <2>1 DEF Text
  <2>3. R(Append(t \o v, c)) = R(t \o v) \o Put(c, symbol, by)
    <3> DEFINE w == t \o v
    <3>1. w \in Text
      BY <2>2
    <3> HIDE DEF w
    <3>2. R(Append(w, c)) = R(w) \o Put(c, symbol, by)
      BY <3>1, ReplacedAppend
    <3> QED BY <3>2 DEF w
  <2>4. R(Append(v, c)) = R(v) \o Put(c, symbol, by)
    BY <2>1, ReplacedAppend
  <2>5. R(t) \in Seq(Symbols) /\ R(v) \in Seq(Symbols) /\ Put(c, symbol, by) \in Seq(Symbols)
    BY <1>0, <2>1, PutText DEF Text
  <2> HIDE DEF R
  <2>6. (R(t) \o R(v)) \o Put(c, symbol, by) = R(t) \o (R(v) \o Put(c, symbol, by))
    BY <2>5, ConcatAssociative
  <2> QED BY <2>1, <2>2, <2>3, <2>4, <2>6
<1> HIDE DEF T
<1>3. T = Text
  BY <1>1, <1>2, SeqSets DEF T, Text
<1> QED BY <1>3 DEF T

\* ... through one symbol, ...
LEMMA ReplacedOne ==
  ASSUME NEW c \in Symbols, NEW symbol, NEW by \in Text
  PROVE  Replaced(One(c), symbol, by) = Put(c, symbol, by)
<1>1. <<>> \in Text /\ Append(<<>>, c) = One(c)
  BY Two DEF Text
<1>2. Replaced(Append(<<>>, c), symbol, by) = Replaced(<<>>, symbol, by) \o Put(c, symbol, by)
  BY <1>1, ReplacedAppend
<1>3. Replaced(<<>>, symbol, by) = <<>>
  BY ReplacedEmpty
<1>4. Put(c, symbol, by) \in Seq(Symbols)
  BY PutText DEF Text
<1>5. <<>> \o Put(c, symbol, by) = Put(c, symbol, by)
  BY <1>4, ConcatEmptySeq
<1> QED BY <1>1, <1>2, <1>3, <1>5

\* ... and through two.
LEMMA ReplacedTwo ==
  ASSUME NEW c \in Symbols, NEW d \in Symbols, NEW symbol, NEW by \in Text
  PROVE  Replaced(Pair(c, d), symbol, by) = Put(c, symbol, by) \o Put(d, symbol, by)
<1>1. One(c) \in Text /\ Append(One(c), d) = Pair(c, d)
  BY Two
<1>2. Replaced(Append(One(c), d), symbol, by) = Replaced(One(c), symbol, by) \o Put(d, symbol, by)
  BY <1>1, ReplacedAppend
<1>3. Replaced(One(c), symbol, by) = Put(c, symbol, by)
  BY ReplacedOne
<1> QED BY <1>1, <1>2, <1>3

\* The symbols that the quoting writes, and those that it looks for.
LEMMA Alphabet ==
  /\ "\\" \in Symbols /\ Quote \in Symbols /\ "%" \in Symbols /\ "t" \in Symbols
  /\ Pair("\\", "\\") \in Text /\ Pair("\\", Quote) \in Text
  /\ Pair("%", "%") \in Text /\ Pair("%", "t") \in Text
<1>1. "\\" \in Symbols /\ Quote \in Symbols /\ "%" \in Symbols /\ "t" \in Symbols
  BY DEF Symbols
<1> QED BY <1>1, Two

\* The quotation mark is none of the other symbols that mean something.
LEMMA QuoteIsNew == Quote \notin {"nl", Blank, "\\", "%", "t"}
BY Zenon DEF Quote, Blank

\* Nor is the blank.
LEMMA BlankIsNew == Blank \notin {"nl", Quote, "\\", "%", "t"}
BY Zenon DEF Quote, Blank

Escaped(text) == Replaced(Replaced(text, "\\", Pair("\\", "\\")), Quote, Pair("\\", Quote))
Doubled(text) == Replaced(text, "%", Pair("%", "%"))
Body(text)    == Doubled(Escaped(text))

Escape(c) == IF c \in {"\\", Quote} THEN Pair("\\", c) ELSE One(c)
Mark(c)   == IF c = "%" THEN Pair("%", "%") ELSE Escape(c)

\* What the three substitutions of quoteSystemdArgument make is a text, ...
LEMMA BodyText == ASSUME NEW t \in Text PROVE Escaped(t) \in Text /\ Doubled(t) \in Text /\ Body(t) \in Text
<1>1. \A v \in Text : Replaced(v, "\\", Pair("\\", "\\")) \in Text
                      /\ Replaced(v, Quote, Pair("\\", Quote)) \in Text
                      /\ Replaced(v, "%", Pair("%", "%")) \in Text
  BY ReplacedText, Alphabet
<1> QED BY <1>1 DEF Escaped, Doubled, Body

\* ... and nothing of nothing.
LEMMA BodyEmpty == Escaped(<<>>) = <<>> /\ Doubled(<<>>) = <<>> /\ Body(<<>>) = <<>>
<1>1. /\ Replaced(<<>>, "\\", Pair("\\", "\\")) = <<>>
      /\ Replaced(<<>>, Quote, Pair("\\", Quote)) = <<>>
      /\ Replaced(<<>>, "%", Pair("%", "%")) = <<>>
  BY ReplacedEmpty
<1> QED BY <1>1 DEF Escaped, Doubled, Body

\* The second substitution of the quoting, which escapes the quotes, goes
\* through a text part by part.
LEMMA QuotesConcat ==
  ASSUME NEW t \in Text, NEW u \in Text
  PROVE  Replaced(t \o u, Quote, Pair("\\", Quote))
           = Replaced(t, Quote, Pair("\\", Quote)) \o Replaced(u, Quote, Pair("\\", Quote))
<1> DEFINE by == Pair("\\", Quote)
<1>1. by \in Text
  BY Alphabet
<1> HIDE DEF by
<1>2. Replaced(t \o u, Quote, by) = Replaced(t, Quote, by) \o Replaced(u, Quote, by)
  BY <1>1, ReplacedConcat
<1> QED BY <1>2 DEF by

\* The second replacement does not touch what the first has written.
LEMMA EscapedAppend ==
  ASSUME NEW t \in Text, NEW c \in Symbols
  PROVE  Escaped(Append(t, c)) = Escaped(t) \o Escape(c) /\ Escape(c) \in Text
<1> DEFINE B(v) == Replaced(v, "\\", Pair("\\", "\\"))
           Q(v) == Replaced(v, Quote, Pair("\\", Quote))
           p == Put(c, "\\", Pair("\\", "\\"))
<1>0. Pair("\\", "\\") \in Text /\ Pair("\\", Quote) \in Text
  BY Alphabet
<1>1. B(Append(t, c)) = B(t) \o p
  BY <1>0, ReplacedAppend
<1>2. B(t) \in Text /\ p \in Text
  BY <1>0, ReplacedText, PutText
<1> HIDE DEF B, p
<1>3. Q(B(t) \o p) = Q(B(t)) \o Q(p)
  <2>1. B(t) \in Text
    BY <1>2
  <2>2. p \in Text
    BY <1>2
  <2> QED BY <2>1, <2>2, QuotesConcat
<1>4. Q(p) = Escape(c)
  <2>1. CASE c = "\\"
    <3>1. p = Pair("\\", "\\")
      BY <2>1 DEF p, Put
    <3>2. Q(Pair("\\", "\\")) = Put("\\", Quote, Pair("\\", Quote)) \o Put("\\", Quote, Pair("\\", Quote))
      <4>1. "\\" \in Symbols
        BY Alphabet
      <4> QED BY <1>0, <4>1, ReplacedTwo
    <3>3. Put("\\", Quote, Pair("\\", Quote)) = One("\\")
      BY QuoteIsNew DEF Put
    <3>4. "\\" \in Symbols
      BY Alphabet
    <3>5. One("\\") \o One("\\") = Pair("\\", "\\")
      BY <3>4, Two
    <3>6. Escape(c) = Pair("\\", "\\")
      BY <2>1 DEF Escape
    <3> QED BY <3>1, <3>2, <3>3, <3>5, <3>6
  <2>2. CASE c # "\\"
    <3>1. p = One(c)
      BY <2>2 DEF p, Put
    <3>2. Q(One(c)) = Put(c, Quote, Pair("\\", Quote))
      BY <1>0, ReplacedOne
    <3> QED BY <2>2, <3>1, <3>2 DEF Put, Escape
  <2> QED BY <2>1, <2>2
<1>5. Escape(c) \in Text
  BY Alphabet, Two DEF Escape
<1> QED BY <1>1, <1>3, <1>4, <1>5 DEF Escaped, B

\* Doubling the percent signs rewrites each symbol on its own.
LEMMA DoubledAppend ==
  ASSUME NEW t \in Text, NEW c \in Symbols
  PROVE  Doubled(Append(t, c)) = Doubled(t) \o Put(c, "%", Pair("%", "%"))
<1>1. Pair("%", "%") \in Text
  BY Alphabet
<1>2. Replaced(Append(t, c), "%", Pair("%", "%"))
        = Replaced(t, "%", Pair("%", "%")) \o Put(c, "%", Pair("%", "%"))
  BY <1>1, ReplacedAppend
<1>3. \A v : Doubled(v) = Replaced(v, "%", Pair("%", "%"))
  BY DEF Doubled
<1> QED BY <1>2, <1>3

\* All three substitutions together write each symbol in its own way.
LEMMA BodyAppend ==
  ASSUME NEW t \in Text, NEW c \in Symbols
  PROVE  Body(Append(t, c)) = Body(t) \o Mark(c) /\ Mark(c) \in Text
<1>1. Escaped(Append(t, c)) = Escaped(t) \o Escape(c) /\ Escape(c) \in Text
  BY EscapedAppend
<1>2. Escaped(t) \in Text
  BY BodyText
<1> DEFINE e == Escaped(t)
<1> HIDE DEF e
<1>0. Pair("%", "%") \in Text
  BY Alphabet
<1>3. Doubled(e \o Escape(c)) = Doubled(e) \o Doubled(Escape(c))
  <2>1. e \in Text
    BY <1>2 DEF e
  <2>2. Replaced(e \o Escape(c), "%", Pair("%", "%"))
          = Replaced(e, "%", Pair("%", "%")) \o Replaced(Escape(c), "%", Pair("%", "%"))
    BY <1>0, <1>1, <2>1, ReplacedConcat
  <2> QED BY <2>2 DEF Doubled
<1>4. Doubled(Escape(c)) = Mark(c)
  <2>1. CASE c \in {"\\", Quote}
    <3>1. Escape(c) = Pair("\\", c)
      BY <2>1 DEF Escape
    <3>2. Doubled(Pair("\\", c)) = Put("\\", "%", Pair("%", "%")) \o Put(c, "%", Pair("%", "%"))
      <4>1. "\\" \in Symbols
        BY Alphabet
      <4>2. Replaced(Pair("\\", c), "%", Pair("%", "%"))
              = Put("\\", "%", Pair("%", "%")) \o Put(c, "%", Pair("%", "%"))
        BY <1>0, <4>1, ReplacedTwo
      <4> QED BY <4>2 DEF Doubled
    <3>3. Put("\\", "%", Pair("%", "%")) = One("\\") /\ Put(c, "%", Pair("%", "%")) = One(c)
      BY <2>1, QuoteIsNew DEF Put
    <3> QED BY <2>1, <3>1, <3>2, <3>3, Two, Alphabet, QuoteIsNew DEF Mark
  <2>2. CASE c \notin {"\\", Quote}
    <3>1. Escape(c) = One(c)
      BY <2>2 DEF Escape
    <3>2. Doubled(One(c)) = Put(c, "%", Pair("%", "%"))
      <4>1. Replaced(One(c), "%", Pair("%", "%")) = Put(c, "%", Pair("%", "%"))
        BY <1>0, ReplacedOne
      <4> QED BY <4>1 DEF Doubled
    <3> QED BY <3>1, <3>2 DEF Put, Mark
  <2> QED BY <2>1, <2>2
<1>5. Mark(c) \in Text
  BY <1>1, Alphabet DEF Mark
<1> QED BY <1>1, <1>3, <1>4, <1>5 DEF Body, e

-----------------------------------------------------------------------------
(* What systemd reads of it.                                                *)

\* A fold over one symbol, and over two.
LEMMA FoldOne ==
  ASSUME NEW step, NEW first, NEW c \in Symbols
  PROVE  Fold(step, first, One(c)) = step[first][c]
<1>1. <<>> \in Seq(Symbols) /\ Append(<<>>, c) = One(c)
  BY Two
<1>2. \A t \in Seq(Symbols) : Fold(step, first, Append(t, c)) = step[Fold(step, first, t)][c]
  BY FoldAppend
<1>3. Fold(step, first, <<>>) = first
  BY FoldEmpty
<1> QED BY <1>1, <1>2, <1>3

\* Reading two symbols is two steps.
LEMMA FoldTwo ==
  ASSUME NEW step, NEW first, NEW c \in Symbols, NEW d \in Symbols
  PROVE  Fold(step, first, Pair(c, d)) = step[step[first][c]][d]
<1>1. One(c) \in Seq(Symbols) /\ Append(One(c), d) = Pair(c, d)
  BY Two DEF Text
<1>2. \A t \in Seq(Symbols) : Fold(step, first, Append(t, d)) = step[Fold(step, first, t)][d]
  BY FoldAppend
<1>3. Fold(step, first, One(c)) = step[first][c]
  BY FoldOne
<1> QED BY <1>1, <1>2, <1>3

\* The reader between two words, and within the quotes of one.
At(words, word, quoted, escape) ==
  [words |-> words, word |-> word, quoted |-> quoted, escape |-> escape, bad |-> FALSE]
Outside(words, word) == At(words, word, FALSE, FALSE)
Inside(words, word)  == At(words, word, TRUE, FALSE)

\* What systemd does with a symbol while it reads a line.
LEMMA AtReader ==
  ASSUME NEW words \in Seq(Text), NEW word \in Text, NEW quoted \in BOOLEAN, NEW escape \in BOOLEAN,
         NEW c \in Symbols
  PROVE  reading[At(words, word, quoted, escape)][c] = ReadSymbol(At(words, word, quoted, escape), c)
<1>1. At(words, word, quoted, escape) \in Reader
  BY DEF At, Reader
<1> QED BY <1>1 DEF reading

\* Joining texts is associative.
LEMMA Assoc ==
  ASSUME NEW s \in Text, NEW t \in Text, NEW u \in Text
  PROVE  (s \o t) \o u = s \o (t \o u)
BY ConcatAssociative DEF Text

\* Two symbols appended are a pair of symbols joined.
LEMMA AppendTwo ==
  ASSUME NEW t \in Text, NEW c \in Symbols, NEW d \in Symbols
  PROVE  Append(Append(t, c), d) = t \o Pair(c, d)
<1>1. t \in Seq(Symbols) /\ One(c) \in Seq(Symbols) /\ One(d) \in Seq(Symbols)
  BY Two DEF Text
<1>2. \A u \in Seq(Symbols), e \in Symbols : Append(u, e) = u \o One(e)
  BY AppendIsConcat DEF One
<1>3. t \o One(c) \in Seq(Symbols)
  BY <1>1, ConcatProperties
<1>4. (t \o One(c)) \o One(d) = t \o (One(c) \o One(d))
  <2>1. One(c) \in Text /\ One(d) \in Text
    BY Two
  <2> QED BY <2>1, Assoc, Zenon
<1> QED BY <1>1, <1>2, <1>3, <1>4, Two

\* Each step of the reader that the quoting leads to.
LEMMA ReadSteps ==
  ASSUME NEW words \in Seq(Text), NEW word \in Text, NEW c \in Symbols
  PROVE  /\ reading[Outside(words, word)][Quote] = Inside(words, word)
         /\ reading[Inside(words, word)][Quote] = Outside(words, word)
         /\ reading[Outside(words, word)][Blank] = Outside(Append(words, word), NoText)
         /\ reading[Inside(words, word)]["\\"] = At(words, word, TRUE, TRUE)
         /\ c \in {"\\", Quote} =>
               reading[At(words, word, TRUE, TRUE)][c] = Inside(words, Append(word, c))
         /\ c \notin {"\\", Quote} =>
               reading[Inside(words, word)][c] = Inside(words, Append(word, c))
<1>0. "\\" \in Symbols /\ Quote \in Symbols /\ Blank \in Symbols
  BY Alphabet DEF Symbols
<1>1. reading[Outside(words, word)][Quote] = Inside(words, word)
  <2>1. ReadSymbol(At(words, word, FALSE, FALSE), Quote) = At(words, word, TRUE, FALSE)
    BY QuoteIsNew DEF ReadSymbol, At
  <2> QED BY <1>0, <2>1, AtReader DEF Outside, Inside
<1>2. reading[Inside(words, word)][Quote] = Outside(words, word)
  <2>1. ReadSymbol(At(words, word, TRUE, FALSE), Quote) = At(words, word, FALSE, FALSE)
    BY QuoteIsNew DEF ReadSymbol, At
  <2> QED BY <1>0, <2>1, AtReader DEF Outside, Inside
<1>3. reading[Outside(words, word)][Blank] = Outside(Append(words, word), NoText)
  <2>1. ReadSymbol(At(words, word, FALSE, FALSE), Blank) = At(Append(words, word), NoText, FALSE, FALSE)
    BY BlankIsNew DEF ReadSymbol, At
  <2> QED BY <1>0, <2>1, AtReader DEF Outside
<1>4. reading[Inside(words, word)]["\\"] = At(words, word, TRUE, TRUE)
  <2>1. ReadSymbol(At(words, word, TRUE, FALSE), "\\") = At(words, word, TRUE, TRUE)
    BY QuoteIsNew, BlankIsNew DEF ReadSymbol, At
  <2> QED BY <1>0, <2>1, AtReader DEF Inside
<1>5. ASSUME c \in {"\\", Quote}
      PROVE  reading[At(words, word, TRUE, TRUE)][c] = Inside(words, Append(word, c))
  <2>1. ReadSymbol(At(words, word, TRUE, TRUE), c) = At(words, Append(word, c), TRUE, FALSE)
    BY <1>5 DEF ReadSymbol, At
  <2> QED BY <2>1, AtReader DEF Inside
<1>6. ASSUME c \notin {"\\", Quote}
      PROVE  reading[Inside(words, word)][c] = Inside(words, Append(word, c))
  <2>1. ReadSymbol(At(words, word, TRUE, FALSE), c) = At(words, Append(word, c), TRUE, FALSE)
    BY <1>6 DEF ReadSymbol, At
  <2> QED BY <2>1, AtReader DEF Inside
<1> QED BY <1>1, <1>2, <1>3, <1>4, <1>5, <1>6

\* Within the quotes the marks of a symbol are read as the symbol; a percent sign
\* is still doubled then.
Once(c) == Put(c, "%", Pair("%", "%"))

\* What is written for a symbol reads, between quotes, as what is saved of it.
LEMMA ReadMark ==
  ASSUME NEW words \in Seq(Text), NEW word \in Text, NEW c \in Symbols
  PROVE  /\ Fold(reading, Inside(words, word), Mark(c)) = Inside(words, word \o Once(c))
         /\ word \o Once(c) \in Text
<1>0. "%" \in Symbols /\ "\\" \in Symbols /\ Append(word, c) \in Text /\ Append(word, "%") \in Text
  BY Alphabet DEF Text
<1>1. CASE c = "%"
  <2>1. Mark(c) = Pair("%", "%") /\ Once(c) = Pair("%", "%")
    BY <1>1 DEF Mark, Once, Put
  <2>2. Fold(reading, Inside(words, word), Pair("%", "%")) = reading[reading[Inside(words, word)]["%"]]["%"]
    BY <1>0, FoldTwo
  <2>3. "%" \notin {"\\", Quote}
    BY QuoteIsNew
  <2>4. reading[Inside(words, word)]["%"] = Inside(words, Append(word, "%"))
    BY <1>0, <2>3, ReadSteps
  <2>5. reading[Inside(words, Append(word, "%"))]["%"] = Inside(words, Append(Append(word, "%"), "%"))
    BY <1>0, <2>3, ReadSteps
  <2>6. Append(Append(word, "%"), "%") = word \o Pair("%", "%")
    BY <1>0, AppendTwo
  <2>7. word \o Pair("%", "%") \in Text
    <3>1. Append(Append(word, "%"), "%") \in Text
      BY <1>0 DEF Text
    <3> QED BY <2>6, <3>1
  <2> QED BY <2>1, <2>2, <2>4, <2>5, <2>6, <2>7
<1>2. CASE c # "%"
  <2>1. Once(c) = One(c) /\ Mark(c) = Escape(c) /\ word \o One(c) = Append(word, c)
    BY <1>0, <1>2 DEF Once, Put, Mark, One, Text
  <2>2. CASE c \in {"\\", Quote}
    <3>1. Escape(c) = Pair("\\", c)
      BY <2>2 DEF Escape
    <3>2. Fold(reading, Inside(words, word), Pair("\\", c)) = reading[reading[Inside(words, word)]["\\"]][c]
      BY <1>0, FoldTwo
    <3>3. /\ reading[Inside(words, word)]["\\"] = At(words, word, TRUE, TRUE)
          /\ reading[At(words, word, TRUE, TRUE)][c] = Inside(words, Append(word, c))
      BY <2>2, ReadSteps
    <3> QED BY <1>0, <2>1, <3>1, <3>2, <3>3
  <2>3. CASE c \notin {"\\", Quote}
    <3>1. Escape(c) = One(c)
      BY <2>3 DEF Escape
    <3>2. Fold(reading, Inside(words, word), One(c)) = reading[Inside(words, word)][c]
      BY FoldOne
    <3>3. reading[Inside(words, word)][c] = Inside(words, Append(word, c))
      BY <2>3, ReadSteps
    <3> QED BY <1>0, <2>1, <3>1, <3>2, <3>3
  <2> QED BY <2>2, <2>3
<1> QED BY <1>1, <1>2

\* The quoted text is read as it was, with its percent signs doubled.
LEMMA ReadBody ==
  ASSUME NEW words \in Seq(Text), NEW word \in Text, NEW t \in Text
  PROVE  Fold(reading, Inside(words, word), Body(t)) = Inside(words, word \o Doubled(t))
<1> DEFINE T == {v \in Text : Fold(reading, Inside(words, word), Body(v)) = Inside(words, word \o Doubled(v))}
<1>1. <<>> \in T
  <2>1. Fold(reading, Inside(words, word), <<>>) = Inside(words, word)
    BY FoldEmpty
  <2>2. word \o <<>> = word /\ <<>> \in Text
    BY DEF Text
  <2> QED BY <2>1, <2>2, BodyEmpty
<1>2. ASSUME NEW v \in T, NEW c \in Symbols PROVE Append(v, c) \in T
  <2>1. v \in Text /\ Fold(reading, Inside(words, word), Body(v)) = Inside(words, word \o Doubled(v))
    OBVIOUS
  <2>2. Append(v, c) \in Text
    BY <2>1 DEF Text
  <2>3. Body(Append(v, c)) = Body(v) \o Mark(c) /\ Body(v) \in Seq(Symbols) /\ Mark(c) \in Seq(Symbols)
    BY <2>1, BodyAppend, BodyText DEF Text
  <2>4. Fold(reading, Inside(words, word), Body(v) \o Mark(c))
          = Fold(reading, Fold(reading, Inside(words, word), Body(v)), Mark(c))
    BY <2>3, FoldConcat
  <2>5. Doubled(v) \in Seq(Symbols) /\ word \o Doubled(v) \in Text
    BY <2>1, BodyText DEF Text
  <2>6. Fold(reading, Inside(words, word \o Doubled(v)), Mark(c)) = Inside(words, (word \o Doubled(v)) \o Once(c))
    BY <2>5, ReadMark
  <2>7. Doubled(Append(v, c)) = Doubled(v) \o Once(c)
    BY <2>1, DoubledAppend DEF Once
  <2>8. Once(c) \in Seq(Symbols)
    BY Alphabet, PutText DEF Once, Text
  <2>9. (word \o Doubled(v)) \o Once(c) = word \o (Doubled(v) \o Once(c))
    <3>1. Doubled(v) \in Text /\ Once(c) \in Text
      BY <2>5, <2>8 DEF Text
    <3> HIDE DEF T
    <3>2. \A x, y \in Text : (word \o x) \o y = word \o (x \o y)
      BY Assoc
    <3> QED BY <3>1, <3>2, Zenon
  <2> QED BY <2>1, <2>2, <2>3, <2>4, <2>6, <2>7, <2>9
<1> HIDE DEF T
<1>3. T = Text
  BY <1>1, <1>2, SeqSets DEF T, Text
<1> QED BY <1>3 DEF T

\* An argument that starts with the directory of the sockets, and what is left of
\* it behind %t.
Rest(a) == SubSeq(a, 3, Len(a))

\* A text under %t/pipeferry/ is %t and what follows.
LEMMA PrefixSplit ==
  ASSUME NEW a \in Text, IsPrefix(Prefix, a)
  PROVE  /\ Rest(a) \in Text /\ a = Pair("%", "t") \o Rest(a)
         /\ Len(a) \in Nat /\ Len(a) >= 5 /\ a[1] = "%" /\ a[2] = "t"
<1>1. a \in Seq(Symbols) /\ Len(a) \in Nat /\ DOMAIN a = 1..Len(a)
  BY LenProperties DEF Text
<1>2. Len(Prefix) = 5 /\ Prefix[1] = "%" /\ Prefix[2] = "t"
  BY DEF Prefix
<1>3. 5 <= Len(a) /\ SubSeq(Prefix, 1, 5) = SubSeq(a, 1, 5)
  BY <1>2 DEF IsPrefix
<1>4. SubSeq(Prefix, 1, 5)[1] = "%" /\ SubSeq(Prefix, 1, 5)[2] = "t"
  BY <1>2
<1>5. SubSeq(a, 1, 5)[1] = a[1] /\ SubSeq(a, 1, 5)[2] = a[2]
  BY <1>1, <1>3
<1>6. a[1] = "%" /\ a[2] = "t"
  BY <1>3, <1>4, <1>5
<1>7. SubSeq(a, 1, 2) = Pair("%", "t")
  <2>1. /\ SubSeq(a, 1, 2) \in Seq(Symbols) /\ Len(SubSeq(a, 1, 2)) = 2
        /\ SubSeq(a, 1, 2)[1] = a[1] /\ SubSeq(a, 1, 2)[2] = a[2]
    BY <1>1, <1>3
  <2>2. Pair("%", "t") \in Seq(Symbols)
    BY Alphabet DEF Text
  <2>3. Len(Pair("%", "t")) = 2 /\ Pair("%", "t")[1] = "%" /\ Pair("%", "t")[2] = "t"
    BY DEF Pair
  <2> HIDE <1>1
  <2> QED BY <1>6, <2>1, <2>2, <2>3, SeqEqual
<1>8. SubSeq(a, 1, 2) \o SubSeq(a, 3, Len(a)) = SubSeq(a, 1, Len(a)) /\ SubSeq(a, 1, Len(a)) = a
  <2>1. 1 \in 1..Len(a)+1 /\ 2 \in 1-1..Len(a) /\ Len(a) \in 2..Len(a) /\ 2 + 1 = 3
    BY <1>1, <1>3
  <2>2. SubSeq(a, 1, 2) \o SubSeq(a, 2 + 1, Len(a)) = SubSeq(a, 1, Len(a))
    BY <1>1, <2>1, ConcatAdjacentSubSeq
  <2> QED BY <1>1, <2>1, <2>2, SubSeqFull
<1>9. SubSeq(a, 3, Len(a)) \in Text
  BY <1>1, <1>3 DEF Text
<1> QED BY <1>1, <1>3, <1>6, <1>7, <1>8, <1>9 DEF Rest

\* What stands between the quotes, and what systemd makes of it at first.
Inner(a) == IF IsPrefix(Prefix, a) THEN Pair("%", "t") \o Body(Rest(a)) ELSE Body(a)
Saved(a) == IF IsPrefix(Prefix, a) THEN Pair("%", "t") \o Doubled(Rest(a)) ELSE Doubled(a)

Written(a) == quoteSystemdArgument(a, IsPrefix(Prefix, a))

\* What is between the quotes, and what systemd saves of it, are texts.
LEMMA InnerText == ASSUME NEW a \in Text PROVE Inner(a) \in Text /\ Saved(a) \in Text
<1>1. CASE IsPrefix(Prefix, a)
  <2>1. Body(Rest(a)) \in Seq(Symbols) /\ Doubled(Rest(a)) \in Seq(Symbols)
    BY <1>1, PrefixSplit, BodyText DEF Text
  <2>2. Pair("%", "t") \in Seq(Symbols)
    BY Alphabet DEF Text
  <2>3. Pair("%", "t") \o Body(Rest(a)) \in Seq(Symbols) /\ Pair("%", "t") \o Doubled(Rest(a)) \in Seq(Symbols)
    BY <2>1, <2>2, ConcatProperties
  <2> QED BY <1>1, <2>3 DEF Inner, Saved, Text
<1>2. CASE ~IsPrefix(Prefix, a)
  BY <1>2, BodyText DEF Inner, Saved
<1> QED BY <1>1, <1>2

\* What is behind %t keeps its place when it is escaped.
LEMMA EscapedPrefix ==
  ASSUME NEW t \in Text
  PROVE  Escaped(Pair("%", "t") \o t) = Pair("%", "t") \o Escaped(t)
<1> DEFINE T == {v \in Text : Escaped(Pair("%", "t") \o v) = Pair("%", "t") \o Escaped(v)}
<1>0. "%" \in Symbols /\ "t" \in Symbols /\ Pair("%", "t") \in Seq(Symbols)
  BY Alphabet DEF Text
<1>1. <<>> \in T
  <2>1. <<>> \in Text /\ Pair("%", "t") \o <<>> = Pair("%", "t")
    BY <1>0, ConcatEmptySeq DEF Text
  <2>2. Escaped(Pair("%", "t")) = Pair("%", "t")
    <3>1. Append(<<>>, "%") = One("%") /\ One("%") \in Text /\ Append(One("%"), "t") = Pair("%", "t")
      BY <1>0, Two
    <3>2. Escape("%") = One("%") /\ Escape("t") = One("t")
      BY QuoteIsNew DEF Escape
    <3>3. Escaped(Append(<<>>, "%")) = Escaped(<<>>) \o Escape("%")
      BY <1>0, <2>1, EscapedAppend
    <3>4. Escaped(Append(One("%"), "t")) = Escaped(One("%")) \o Escape("t")
      BY <1>0, <3>1, EscapedAppend
    <3>5. <<>> \o One("%") = One("%")
      BY <3>1, ConcatEmptySeq DEF Text
    <3>6. One("%") \o One("t") = Pair("%", "t")
      BY <1>0, Two
    <3> QED BY <3>1, <3>2, <3>3, <3>4, <3>5, <3>6, BodyEmpty
  <2> QED BY <2>1, <2>2, BodyEmpty
<1>2. ASSUME NEW v \in T, NEW c \in Symbols PROVE Append(v, c) \in T
  <2>1. v \in Seq(Symbols) /\ Append(v, c) \in Text /\ Escaped(Pair("%", "t") \o v) = Pair("%", "t") \o Escaped(v)
    BY DEF Text
  <2>2. Pair("%", "t") \o v \in Text /\ Pair("%", "t") \o Append(v, c) = Append(Pair("%", "t") \o v, c)
    BY <1>0, <2>1 DEF Text
  <2>3. /\ Escaped(Append(v, c)) = Escaped(v) \o Escape(c)
        /\ Escape(c) \in Seq(Symbols) /\ Escaped(v) \in Seq(Symbols)
    BY <2>1, EscapedAppend, BodyText DEF Text
  <2>4. Escaped(Append(Pair("%", "t") \o v, c)) = Escaped(Pair("%", "t") \o v) \o Escape(c)
    BY <2>2, EscapedAppend
  <2>5. (Pair("%", "t") \o Escaped(v)) \o Escape(c) = Pair("%", "t") \o (Escaped(v) \o Escape(c))
    <3>1. Pair("%", "t") \in Text /\ Escaped(v) \in Text /\ Escape(c) \in Text
      BY <1>0, <2>3 DEF Text
    <3> HIDE DEF T
    <3>2. \A x, y \in Text : (Pair("%", "t") \o x) \o y = Pair("%", "t") \o (x \o y)
      BY <3>1, Assoc
    <3> QED BY <3>1, <3>2, Zenon
  <2> QED BY <2>1, <2>2, <2>3, <2>4, <2>5
<1> HIDE DEF T
<1>3. T = Text
  BY <1>1, <1>2, SeqSets DEF T, Text
<1> QED BY <1>3 DEF T

\* What is behind two symbols is what was joined to them.
LEMMA BehindPair ==
  ASSUME NEW e \in Seq(Symbols)
  PROVE  SubSeq(Pair("%", "t") \o e, 3, Len(Pair("%", "t") \o e)) = e
<1> DEFINE p == Pair("%", "t")
<1>1. p \in Seq(Symbols) /\ Len(p) = 2
  <2>1. p \in Seq(Symbols)
    BY Alphabet DEF Text
  <2>2. Len(p) = 2
    BY DEF Pair
  <2> QED BY <2>1, <2>2
<1> HIDE DEF p
<1>2. /\ p \o e \in Seq(Symbols) /\ Len(p \o e) = 2 + Len(e) /\ Len(e) \in Nat
      /\ \A i \in 3..2 + Len(e) : (p \o e)[i] = e[i - 2]
  <2>1. /\ p \o e \in Seq(Symbols) /\ Len(p \o e) = Len(p) + Len(e)
        /\ \A i \in 1..Len(p) + Len(e) : (p \o e)[i] = IF i <= Len(p) THEN p[i] ELSE e[i - Len(p)]
    BY <1>1, ConcatProperties
  <2>2. Len(e) \in Nat
    BY LenProperties
  <2> QED BY <1>1, <2>1, <2>2
<1> DEFINE s == SubSeq(p \o e, 3, 2 + Len(e))
<1>3. s \in Seq(Symbols) /\ Len(s) = Len(e) /\ \A i \in 1..Len(e) : s[i] = e[i]
  BY <1>2
<1> HIDE DEF s
<1>4. s = e
  BY <1>3, SeqEqual
<1> QED BY <1>2, <1>4 DEF s, p

\* The two are the quoted argument.
LEMMA WrittenIs ==
  ASSUME NEW a \in Text
  PROVE  Written(a) = (One(Quote) \o Inner(a)) \o One(Quote) /\ Written(a) \in Text
<1>1. quoteSystemdArgument(a, FALSE) = (One(Quote) \o Body(a)) \o One(Quote)
  BY DEF quoteSystemdArgument, Body, Doubled, Escaped, One, Pair
<1>2. quoteSystemdArgument(a, TRUE)
        = (One(Quote) \o (Pair("%", "t") \o Doubled(SubSeq(Escaped(a), 3, Len(Escaped(a)))))) \o One(Quote)
  BY DEF quoteSystemdArgument, Doubled, Escaped, One, Pair
<1>3. ASSUME IsPrefix(Prefix, a) PROVE Written(a) = (One(Quote) \o Inner(a)) \o One(Quote)
  <2>1. Rest(a) \in Text /\ a = Pair("%", "t") \o Rest(a)
    BY <1>3, PrefixSplit
  <2> DEFINE e == Escaped(Rest(a))
  <2>2. Escaped(a) = Pair("%", "t") \o e /\ e \in Seq(Symbols)
    BY <2>1, EscapedPrefix, BodyText DEF Text
  <2> HIDE DEF e
  <2>3. SubSeq(Pair("%", "t") \o e, 3, Len(Pair("%", "t") \o e)) = e
    BY <2>2, BehindPair
  <2>4. quoteSystemdArgument(a, TRUE) = (One(Quote) \o (Pair("%", "t") \o Doubled(e))) \o One(Quote)
    BY <1>2, <2>2, <2>3
  <2>5. IsPrefix(Prefix, a) = TRUE
    BY <1>3, Zenon DEF IsPrefix
  <2> QED BY <2>4, <2>5 DEF Written, Inner, Body, e
<1>4. ASSUME ~IsPrefix(Prefix, a) PROVE Written(a) = (One(Quote) \o Inner(a)) \o One(Quote)
  <2>1. IsPrefix(Prefix, a) = FALSE
    BY <1>4, Zenon DEF IsPrefix
  <2> QED BY <1>1, <2>1 DEF Written, Inner
<1>5. One(Quote) \in Seq(Symbols) /\ Inner(a) \in Seq(Symbols)
  BY Alphabet, Two, InnerText DEF Text
<1>6. (One(Quote) \o Inner(a)) \o One(Quote) \in Text
  BY <1>5, ConcatProperties DEF Text
<1> QED BY <1>3, <1>4, <1>6

\* What quoteSystemdArgument writes between the quotes reads as Saved.
LEMMA ReadInner ==
  ASSUME NEW words \in Seq(Text), NEW a \in Text
  PROVE  Fold(reading, Inside(words, NoText), Inner(a)) = Inside(words, Saved(a))
<1>0. NoText \in Text /\ "%" \in Symbols /\ "t" \in Symbols /\ Pair("%", "t") \in Text
  BY Alphabet DEF NoText, Text
<1>1. CASE IsPrefix(Prefix, a)
  <2>1. Rest(a) \in Text
    BY <1>1, PrefixSplit
  <2>2. Fold(reading, Inside(words, NoText), Pair("%", "t") \o Body(Rest(a)))
          = Fold(reading, Fold(reading, Inside(words, NoText), Pair("%", "t")), Body(Rest(a)))
    <3>1. Pair("%", "t") \in Seq(Symbols) /\ Body(Rest(a)) \in Seq(Symbols)
      BY <1>0, <2>1, BodyText DEF Text
    <3> QED BY <3>1, FoldConcat
  <2>3. Fold(reading, Inside(words, NoText), Pair("%", "t")) = Inside(words, Pair("%", "t"))
    <3>1. Append(NoText, "%") = One("%") /\ One("%") \in Text /\ Append(One("%"), "t") = Pair("%", "t")
      BY <1>0, Two DEF NoText
    <3>2. "%" \notin {"\\", Quote} /\ "t" \notin {"\\", Quote}
      BY QuoteIsNew
    <3> DEFINE Steps == \A w \in Text, c \in Symbols \ {"\\", Quote} :
                           reading[Inside(words, w)][c] = Inside(words, Append(w, c))
    <3>3. Steps
      BY ReadSteps
    <3>4. /\ reading[Inside(words, NoText)]["%"] = Inside(words, Append(NoText, "%"))
          /\ reading[Inside(words, One("%"))]["t"] = Inside(words, Append(One("%"), "t"))
      BY <1>0, <3>1, <3>2, <3>3
    <3>5. Fold(reading, Inside(words, NoText), Pair("%", "t")) = reading[reading[Inside(words, NoText)]["%"]]["t"]
      BY <1>0, FoldTwo
    <3> QED BY <3>1, <3>4, <3>5
  <2>4. Fold(reading, Inside(words, Pair("%", "t")), Body(Rest(a)))
          = Inside(words, Pair("%", "t") \o Doubled(Rest(a)))
    BY <1>0, <2>1, ReadBody
  <2> QED BY <1>1, <2>2, <2>3, <2>4 DEF Inner, Saved
<1>2. CASE ~IsPrefix(Prefix, a)
  <2>1. Fold(reading, Inside(words, NoText), Body(a)) = Inside(words, NoText \o Doubled(a))
    BY <1>0, ReadBody
  <2>2. NoText \o Doubled(a) = Doubled(a)
    BY BodyText, ConcatEmptySeq DEF NoText, Text
  <2> QED BY <1>2, <2>1, <2>2 DEF Inner, Saved
<1> QED BY <1>1, <1>2

\* A quoted argument is one word, the one that was quoted.
LEMMA ReadWritten ==
  ASSUME NEW words \in Seq(Text), NEW a \in Text
  PROVE  Fold(reading, Outside(words, NoText), Written(a)) = Outside(words, Saved(a))
<1> DEFINE q == One(Quote)
<1>1. q \in Seq(Symbols) /\ Inner(a) \in Seq(Symbols) /\ q \o Inner(a) \in Seq(Symbols)
  BY Alphabet, Two, InnerText, ConcatProperties DEF Text
<1>2. Quote \in Symbols /\ NoText \in Text /\ Saved(a) \in Text
  BY Alphabet, InnerText DEF NoText, Text
<1>3. \A s : Fold(reading, s, q) = reading[s][Quote]
  BY <1>2, FoldOne
<1> HIDE DEF q
<1>4. \A s : Fold(reading, s, q \o Inner(a)) = Fold(reading, Fold(reading, s, q), Inner(a))
  BY <1>1, FoldConcat
<1>5. \A s : Fold(reading, s, (q \o Inner(a)) \o q) = Fold(reading, Fold(reading, s, q \o Inner(a)), q)
  <2> DEFINE i == q \o Inner(a)
  <2>1. i \in Seq(Symbols)
    BY <1>1
  <2> HIDE DEF i
  <2>2. \A s : Fold(reading, s, i \o q) = Fold(reading, Fold(reading, s, i), q)
    BY <1>1, <2>1, FoldConcat
  <2> QED BY <2>2 DEF i
<1>6. reading[Outside(words, NoText)][Quote] = Inside(words, NoText)
  BY <1>2, ReadSteps
<1>7. reading[Inside(words, Saved(a))][Quote] = Outside(words, Saved(a))
  BY <1>2, ReadSteps
<1>8. Fold(reading, Inside(words, NoText), Inner(a)) = Inside(words, Saved(a))
  BY ReadInner
<1>9. Written(a) = (q \o Inner(a)) \o q
  BY WrittenIs DEF q
<1> QED BY <1>3, <1>4, <1>5, <1>6, <1>7, <1>8, <1>9

-----------------------------------------------------------------------------
(* What becomes of the specifiers.                                          *)

Plainly(out) == [percent |-> FALSE, out |-> out]
Percent(out) == [percent |-> TRUE, out |-> out]

\* What the expansion of specifiers does with a symbol.
LEMMA ExpandSteps ==
  ASSUME NEW out \in Text, NEW c \in Symbols
  PROVE  /\ c # "%" => expanding[Plainly(out)][c] = Plainly(Append(out, c))
         /\ expanding[Plainly(out)]["%"] = Percent(out)
         /\ expanding[Percent(out)]["%"] = Plainly(Append(out, "%"))
         /\ expanding[Percent(out)]["t"] = Plainly(Append(out, "RUNTIME"))
<1>1. Plainly(out) \in [percent : BOOLEAN, out : Text] /\ Percent(out) \in [percent : BOOLEAN, out : Text]
  BY DEF Plainly, Percent
<1>2. "%" \in Symbols /\ "t" \in Symbols
  BY Alphabet
<1>3. \A s \in {Plainly(out), Percent(out)} : \A d \in Symbols : expanding[s][d] = Expand(s, d)
  BY <1>1 DEF expanding
<1>4. c # "%" => Expand(Plainly(out), c) = Plainly(Append(out, c))
  BY DEF Expand, Plainly
<1>5. Expand(Plainly(out), "%") = Percent(out)
  BY DEF Expand, Plainly, Percent
<1>6. Expand(Percent(out), "%") = Plainly(Append(out, "%"))
  BY DEF Expand, Plainly, Percent
<1>7. Expand(Percent(out), "t") = Plainly(Append(out, "RUNTIME"))
  BY DEF Expand, Plainly, Percent
<1> QED BY <1>2, <1>3, <1>4, <1>5, <1>6, <1>7

\* A symbol saved by the quoting expands to itself.
LEMMA ExpandOnce ==
  ASSUME NEW out \in Text, NEW c \in Symbols
  PROVE  Fold(expanding, Plainly(out), Once(c)) = Plainly(Append(out, c))
<1>1. CASE c = "%"
  <2>1. Once(c) = Pair("%", "%") /\ "%" \in Symbols
    BY <1>1, Alphabet DEF Once, Put
  <2>2. Fold(expanding, Plainly(out), Pair("%", "%")) = expanding[expanding[Plainly(out)]["%"]]["%"]
    BY <2>1, FoldTwo
  <2>3. expanding[Plainly(out)]["%"] = Percent(out) /\ expanding[Percent(out)]["%"] = Plainly(Append(out, "%"))
    BY ExpandSteps
  <2> QED BY <1>1, <2>1, <2>2, <2>3
<1>2. CASE c # "%"
  <2>1. Once(c) = One(c)
    BY <1>2 DEF Once, Put
  <2>2. Fold(expanding, Plainly(out), One(c)) = expanding[Plainly(out)][c]
    BY FoldOne
  <2> QED BY <1>2, <2>1, <2>2, ExpandSteps
<1> QED BY <1>1, <1>2

\* Doubled percent signs are read as single ones.
LEMMA ExpandDoubled ==
  ASSUME NEW out \in Text, NEW t \in Text
  PROVE  Fold(expanding, Plainly(out), Doubled(t)) = Plainly(out \o t)
<1> DEFINE T == {v \in Text : Fold(expanding, Plainly(out), Doubled(v)) = Plainly(out \o v)}
<1>1. <<>> \in T
  <2>1. Fold(expanding, Plainly(out), <<>>) = Plainly(out)
    BY FoldEmpty
  <2>2. out \o <<>> = out /\ <<>> \in Text
    BY DEF Text
  <2> QED BY <2>1, <2>2, BodyEmpty
<1>2. ASSUME NEW v \in T, NEW c \in Symbols PROVE Append(v, c) \in T
  <2>1. v \in Text /\ Fold(expanding, Plainly(out), Doubled(v)) = Plainly(out \o v)
    OBVIOUS
  <2>2. Append(v, c) \in Text /\ out \o v \in Text /\ out \o Append(v, c) = Append(out \o v, c)
    BY <2>1 DEF Text
  <2>3. Doubled(Append(v, c)) = Doubled(v) \o Once(c)
    BY <2>1, DoubledAppend DEF Once
  <2>4. Doubled(v) \in Seq(Symbols) /\ Once(c) \in Seq(Symbols)
    BY <2>1, BodyText, Alphabet, PutText DEF Once, Text
  <2>5. Fold(expanding, Plainly(out), Doubled(v) \o Once(c))
          = Fold(expanding, Fold(expanding, Plainly(out), Doubled(v)), Once(c))
    BY <2>4, FoldConcat
  <2>6. Fold(expanding, Plainly(out \o v), Once(c)) = Plainly(Append(out \o v, c))
    BY <2>2, ExpandOnce
  <2> QED BY <2>1, <2>2, <2>3, <2>5, <2>6
<1> HIDE DEF T
<1>3. T = Text
  BY <1>1, <1>2, SeqSets DEF T, Text
<1> QED BY <1>3 DEF T

\* The word comes out as the argument, with the directory that %t names.
LEMMA ExpandSaved ==
  ASSUME NEW a \in Text
  PROVE  Expanded(Saved(a)) = Runtime(a)
<1>0. NoText \in Text /\ "%" \in Symbols /\ "t" \in Symbols /\ "RUNTIME" \in Symbols
  BY Alphabet DEF NoText, Text, Symbols
<1>1. CASE IsPrefix(Prefix, a)
  <2>1. Rest(a) \in Text
    BY <1>1, PrefixSplit
  <2>2. Fold(expanding, Plainly(NoText), Pair("%", "t") \o Doubled(Rest(a)))
          = Fold(expanding, Fold(expanding, Plainly(NoText), Pair("%", "t")), Doubled(Rest(a)))
    <3>1. Pair("%", "t") \in Seq(Symbols) /\ Doubled(Rest(a)) \in Seq(Symbols)
      BY <2>1, Alphabet, BodyText DEF Text
    <3> QED BY <3>1, FoldConcat
  <2>3. Fold(expanding, Plainly(NoText), Pair("%", "t")) = Plainly(One("RUNTIME"))
    <3>1. Fold(expanding, Plainly(NoText), Pair("%", "t")) = expanding[expanding[Plainly(NoText)]["%"]]["t"]
      BY <1>0, FoldTwo
    <3>2. expanding[Plainly(NoText)]["%"] = Percent(NoText)
          /\ expanding[Percent(NoText)]["t"] = Plainly(Append(NoText, "RUNTIME"))
      BY <1>0, ExpandSteps
    <3>3. Append(NoText, "RUNTIME") = One("RUNTIME")
      BY <1>0, Two DEF NoText
    <3> QED BY <3>1, <3>2, <3>3
  <2>4. One("RUNTIME") \in Text
    BY <1>0, Two
  <2>5. Fold(expanding, Plainly(One("RUNTIME")), Doubled(Rest(a))) = Plainly(One("RUNTIME") \o Rest(a))
    BY <2>1, <2>4, ExpandDoubled
  <2>6. Fold(expanding, Plainly(NoText), Saved(a)) = Plainly(One("RUNTIME") \o Rest(a))
    BY <1>1, <2>2, <2>3, <2>5 DEF Saved
  <2> DEFINE r == One("RUNTIME") \o Rest(a)
  <2>7. Expanded(Saved(a)) = Plainly(r).out
    <3>1. Expanded(Saved(a)) = Fold(expanding, Plainly(NoText), Saved(a)).out
      BY Zenon DEF Expanded, Plainly
    <3> QED BY <2>6, <3>1, Zenon
  <2>8. Plainly(r).out = r
    BY DEF Plainly
  <2>9. Runtime(a) = r
    BY <1>1 DEF Runtime, One, Rest
  <2> QED BY <2>7, <2>8, <2>9
<1>2. CASE ~IsPrefix(Prefix, a)
  <2>1. Fold(expanding, Plainly(NoText), Doubled(a)) = Plainly(NoText \o a)
    BY <1>0, ExpandDoubled
  <2>2. NoText \o a = a
    BY ConcatEmptySeq DEF NoText, Text
  <2>3. Fold(expanding, Plainly(NoText), Saved(a)) = Plainly(a)
    BY <1>2, <2>1, <2>2 DEF Saved
  <2>4. Expanded(Saved(a)) = Plainly(a).out
    <3>1. Expanded(Saved(a)) = Fold(expanding, Plainly(NoText), Saved(a)).out
      BY Zenon DEF Expanded, Plainly
    <3> QED BY <2>3, <3>1, Zenon
  <2>6. Plainly(a).out = a
    BY DEF Plainly
  <2>5. Runtime(a) = a
    BY <1>2 DEF Runtime
  <2> QED BY <2>4, <2>5, <2>6
<1> QED BY <1>1, <1>2

-----------------------------------------------------------------------------
(* The command line as a whole.                                             *)

Line(args)     == Spaced(Quoted(args))
SavedAll(args) == [i \in DOMAIN args |-> Saved(args[i])]

\* The list of the quoted arguments, by position.
LEMMA QuotedIs ==
  ASSUME NEW args \in Seq(Text)
  PROVE  /\ Quoted(args) \in Seq(Text) /\ Len(Quoted(args)) = Len(args)
         /\ \A i \in 1..Len(args) : Quoted(args)[i] = Written(args[i])
<1> DEFINE q == [i \in 1..Len(args) |-> Written(args[i])]
<1>1. Len(args) \in Nat /\ DOMAIN args = 1..Len(args) /\ \A i \in 1..Len(args) : args[i] \in Text
  BY LenProperties, ElementOfSeq
<1>2. Quoted(args) = q
  BY <1>1, Zenon DEF Quoted, Written
<1>3. \A i \in 1..Len(args) : Written(args[i]) \in Text
  BY <1>1, WrittenIs
<1> HIDE DEF Written
<1>4. q \in Seq(Text) /\ Len(q) = Len(args)
  BY <1>1, <1>3
<1> QED BY <1>2, <1>4

\* One word more is a blank and the word.
LEMMA Joining ==
  ASSUME NEW line \in Text, NEW word \in Text
  PROVE  joining[line][word] = (line \o One(Blank)) \o word /\ (line \o One(Blank)) \o word \in Text
<1>1. joining[line][word] = (line \o One(Blank)) \o word
  BY DEF joining, One
<1>2. line \in Seq(Symbols) /\ word \in Seq(Symbols) /\ One(Blank) \in Seq(Symbols)
  <2>1. Blank \in Symbols
    BY DEF Symbols
  <2> QED BY <2>1, Two DEF Text
<1>3. line \o One(Blank) \in Seq(Symbols)
  BY <1>2, ConcatProperties
<1>4. (line \o One(Blank)) \o word \in Seq(Symbols)
  BY <1>2, <1>3, ConcatProperties
<1> QED BY <1>1, <1>4 DEF Text

\* Joining quoted arguments with blanks makes a text, ...
LEMMA SpacedText ==
  ASSUME NEW words \in Seq(Text), words # <<>>
  PROVE  Spaced(words) \in Text
<1> DEFINE T == {w \in Seq(Text) : \A first \in Text : Fold(joining, first, w) \in Text}
<1>1. <<>> \in T
  BY FoldEmpty, EmptySeq
<1>2. ASSUME NEW w \in T, NEW word \in Text PROVE Append(w, word) \in T
  <2>1. w \in Seq(Text) /\ Append(w, word) \in Seq(Text)
    BY AppendProperties
  <2>2. ASSUME NEW first \in Text PROVE Fold(joining, first, Append(w, word)) \in Text
    <3>1. Fold(joining, first, Append(w, word)) = joining[Fold(joining, first, w)][word]
      BY <2>1, FoldAppend
    <3>2. Fold(joining, first, w) \in Text
      OBVIOUS
    <3>3. joining[Fold(joining, first, w)][word] \in Text
      BY <3>2, Joining
    <3> QED BY <3>1, <3>3
  <2> QED BY <2>1, <2>2
<1>3. T \in SUBSET Seq(Text)
  OBVIOUS
<1> HIDE DEF T
<1>4. T = Seq(Text)
  BY <1>1, <1>2, <1>3, SeqSets
<1>5. Head(words) \in Text /\ Tail(words) \in Seq(Text)
  BY HeadTailProperties
<1> QED BY <1>4, <1>5 DEF T, Spaced

\* ... of one argument the argument alone, ...
LEMMA LineOne ==
  ASSUME NEW a \in Text
  PROVE  Line(Append(<<>>, a)) = Written(a) /\ Written(a) \in Text
<1> DEFINE args == Append(<<>>, a)
           q == Quoted(args)
<1>1. args \in Seq(Text) /\ Len(args) = 1 /\ args[1] = a
  OBVIOUS
<1> HIDE DEF args
<1>2. q \in Seq(Text) /\ Len(q) = 1 /\ q[1] = Written(a)
  BY <1>1, QuotedIs
<1> HIDE DEF q
<1>3. Head(q) = Written(a) /\ Tail(q) = <<>>
  <2>1. q # <<>>
    BY <1>2
  <2>2. Tail(q) \in Seq(Text) /\ Len(Tail(q)) = 0 /\ Head(q) = q[1]
    BY <1>2, <2>1, HeadTailProperties
  <2> QED BY <1>2, <2>2, EmptySeq
<1>4. Fold(joining, Written(a), <<>>) = Written(a)
  BY FoldEmpty
<1>5. Spaced(q) = Written(a)
  BY <1>3, <1>4 DEF Spaced
<1> QED BY <1>5, WrittenIs DEF Line, q, args

\* ... of one more, a blank and it.
LEMMA LineAppend ==
  ASSUME NEW args \in Seq(Text), args # <<>>, NEW a \in Text
  PROVE  /\ Line(Append(args, a)) = (Line(args) \o One(Blank)) \o Written(a)
         /\ Line(args) \in Text /\ Written(a) \in Text
<1> DEFINE q == Quoted(args)
           r == Quoted(Append(args, a))
           w == Written(a)
<1>0. w \in Text
  BY WrittenIs
<1>1. /\ Append(args, a) \in Seq(Text) /\ Len(Append(args, a)) = Len(args) + 1 /\ Len(args) \in Nat \ {0}
      /\ \A i \in 1..Len(args) : Append(args, a)[i] = args[i]
      /\ Append(args, a)[Len(args) + 1] = a
  BY AppendProperties, EmptySeq
<1>2. /\ q \in Seq(Text) /\ Len(q) = Len(args) /\ \A i \in 1..Len(args) : q[i] = Written(args[i])
  BY QuotedIs
<1>3. /\ r \in Seq(Text) /\ Len(r) = Len(args) + 1
      /\ \A i \in 1..Len(args) + 1 : r[i] = Written(Append(args, a)[i])
  BY <1>1, QuotedIs
<1> HIDE DEF q, r, w
<1>4. r = Append(q, w)
  <2>1. Append(q, w) \in Seq(Text) /\ Len(Append(q, w)) = Len(r)
    BY <1>0, <1>1, <1>2, <1>3
  <2>2. ASSUME NEW i \in 1..Len(r) PROVE r[i] = Append(q, w)[i]
    <3>1. CASE i \in 1..Len(args)
      <4>1. Append(q, w)[i] = q[i]
        BY <1>0, <1>1, <1>2, <3>1
      <4>2. i \in 1..Len(args) + 1
        BY <1>1, <3>1
      <4>3. r[i] = Written(Append(args, a)[i]) /\ Append(args, a)[i] = args[i] /\ q[i] = Written(args[i])
        BY <1>1, <1>2, <1>3, <3>1, <4>2
      <4> QED BY <4>1, <4>3
    <3>2. CASE i = Len(args) + 1
      <4>1. Append(q, w)[i] = w
        BY <1>0, <1>1, <1>2, <3>2
      <4>2. i \in 1..Len(args) + 1
        BY <1>1, <3>2
      <4> QED BY <1>1, <1>3, <3>2, <4>1, <4>2 DEF w
    <3>3. Len(r) = Len(args) + 1 /\ Len(args) \in Nat
      BY <1>1, <1>3
    <3>4. i \in 1..Len(args) \/ i = Len(args) + 1
      BY <3>3
    <3> QED BY <3>1, <3>2, <3>4
  <2> QED BY <1>3, <2>1, <2>2, SeqEqual
<1>5. q # <<>>
  BY <1>1, <1>2
<1>6. Head(r) = Head(q) /\ Tail(r) = Append(Tail(q), w) /\ Tail(q) \in Seq(Text)
  BY <1>2, <1>4, <1>5, HeadTailAppend, HeadTailProperties
<1>7. Fold(joining, Head(q), Append(Tail(q), w)) = joining[Fold(joining, Head(q), Tail(q))][w]
  <2> DEFINE tail == Tail(q)
  <2>1. tail \in Seq(Text)
    BY <1>6
  <2> HIDE DEF tail
  <2>2. \A first : Fold(joining, first, Append(tail, w)) = joining[Fold(joining, first, tail)][w]
    BY <1>0, <2>1, FoldAppend
  <2> QED BY <2>2 DEF tail
<1>8. Spaced(r) = joining[Spaced(q)][w]
  BY <1>6, <1>7 DEF Spaced
<1>9. Spaced(q) \in Text
  BY <1>2, <1>5, SpacedText
<1> QED BY <1>0, <1>8, <1>9, Joining DEF Line, q, r, w

\* Nothing is saved of no arguments, ...
LEMMA SavedEmpty == SavedAll(<<>>) = <<>>
BY DEF SavedAll

\* ... and of one argument more, one word more.
LEMMA SavedAppend ==
  ASSUME NEW args \in Seq(Text), NEW a \in Text
  PROVE  SavedAll(Append(args, a)) = Append(SavedAll(args), Saved(a))
<1> DEFINE u == Append(args, a)
           s == [i \in 1..Len(args) |-> Saved(args[i])]
           t == [i \in 1..Len(args) + 1 |-> Saved(u[i])]
           w == Saved(a)
<1>1. /\ u \in Seq(Text) /\ Len(u) = Len(args) + 1 /\ Len(args) \in Nat
      /\ DOMAIN u = 1..Len(args) + 1 /\ DOMAIN args = 1..Len(args)
      /\ \A i \in 1..Len(args) : u[i] = args[i] /\ args[i] \in Text
      /\ u[Len(args) + 1] = a
  BY AppendProperties, LenProperties, ElementOfSeq
<1> HIDE DEF u
<1>2. SavedAll(args) = s /\ SavedAll(u) = t
  BY <1>1, Zenon DEF SavedAll
<1>3. w \in Text /\ (\A i \in 1..Len(args) : Saved(args[i]) \in Text)
      /\ \A i \in 1..Len(args) + 1 : Saved(u[i]) = IF i = Len(args) + 1 THEN w ELSE Saved(args[i])
  BY <1>1, InnerText
<1> HIDE DEF w
<1>4. s \in Seq(Text) /\ Len(s) = Len(args) /\ \A i \in 1..Len(args) : s[i] = Saved(args[i])
  BY <1>1, <1>3
<1>5. /\ t \in Seq(Text) /\ Len(t) = Len(args) + 1
      /\ \A i \in 1..Len(args) + 1 : t[i] = IF i = Len(args) + 1 THEN w ELSE Saved(args[i])
  BY <1>1, <1>3
<1> HIDE DEF s, t
<1>6. /\ Append(s, w) \in Seq(Text) /\ Len(Append(s, w)) = Len(args) + 1
      /\ Append(s, w)[Len(args) + 1] = w
      /\ \A i \in 1..Len(args) : Append(s, w)[i] = s[i]
  BY <1>3, <1>4, AppendProperties
<1>7. \A i \in 1..Len(args) + 1 : t[i] = Append(s, w)[i]
  BY <1>1, <1>4, <1>5, <1>6
<1>8. t = Append(s, w)
  BY <1>5, <1>6, <1>7, SeqEqual
<1> QED BY <1>2, <1>8 DEF u, w

\* systemd finds the words between the blanks.
LEMMA ReadLine ==
  ASSUME NEW args \in Seq(Text), args # <<>>
  PROVE  \E words \in Seq(Text), word \in Text :
            /\ Fold(reading, Outside(<<>>, NoText), Line(args)) = Outside(words, word)
            /\ Append(words, word) = SavedAll(args)
<1> DEFINE Reads(as) == \E words \in Seq(Text), word \in Text :
                           /\ Fold(reading, Outside(<<>>, NoText), Line(as)) = Outside(words, word)
                           /\ Append(words, word) = SavedAll(as)
           T == {as \in Seq(Text) : as # <<>> => Reads(as)}
<1>1. <<>> \in T
  BY EmptySeq
<1>2. ASSUME NEW as \in T, NEW a \in Text PROVE Append(as, a) \in T
  <2>1. as \in Seq(Text) /\ Append(as, a) \in Seq(Text)
    BY AppendProperties
  <2>2. Reads(Append(as, a))
    <3>1. CASE as = <<>>
      <4>1. <<>> \in Seq(Text) /\ Saved(a) \in Text
        BY EmptySeq, InnerText
      <4>2. Fold(reading, Outside(<<>>, NoText), Line(Append(as, a))) = Outside(<<>>, Saved(a))
        BY <3>1, <4>1, LineOne, ReadWritten
      <4>3. Append(<<>>, Saved(a)) = SavedAll(Append(as, a))
        BY <3>1, <4>1, SavedAppend, SavedEmpty
      <4> QED BY <4>1, <4>2, <4>3
    <3>2. CASE as # <<>>
      <4>1. PICK words \in Seq(Text), word \in Text :
               /\ Fold(reading, Outside(<<>>, NoText), Line(as)) = Outside(words, word)
               /\ Append(words, word) = SavedAll(as)
        BY <3>2
      <4> DEFINE more == Append(words, word)
      <4>2. more \in Seq(Text) /\ Saved(a) \in Text
        BY AppendProperties, InnerText
      <4>3. Fold(reading, Outside(<<>>, NoText), (Line(as) \o One(Blank)) \o Written(a))
              = Outside(more, Saved(a))
        <5> DEFINE l == Line(as)
                   w == Written(a)
                   b == One(Blank)
                   s == Outside(<<>>, NoText)
        <5>1. l \in Seq(Symbols) /\ w \in Seq(Symbols)
          BY <2>1, <3>2, LineAppend DEF Text
        <5>2. Blank \in Symbols
          BY DEF Symbols
        <5>3. b \in Seq(Symbols)
          BY <5>2, Two DEF Text
        <5>4. Fold(reading, Outside(words, word), b) = reading[Outside(words, word)][Blank]
          BY <5>2, FoldOne
        <5>5. reading[Outside(words, word)][Blank] = Outside(more, NoText)
          BY <5>2, ReadSteps
        <5>6. Fold(reading, Outside(more, NoText), w) = Outside(more, Saved(a))
          BY <4>2, ReadWritten
        <5> HIDE DEF l, w, b, s
        <5>7. Fold(reading, s, l \o b) = Fold(reading, Fold(reading, s, l), b)
          BY <5>1, <5>3, FoldConcat
        <5>8. Fold(reading, s, (l \o b) \o w) = Fold(reading, Fold(reading, s, l \o b), w)
          <6> DEFINE lb == l \o b
          <6>1. lb \in Seq(Symbols)
            BY <5>1, <5>3, ConcatProperties
          <6> HIDE DEF lb
          <6>2. Fold(reading, s, lb \o w) = Fold(reading, Fold(reading, s, lb), w)
            BY <5>1, <6>1, FoldConcat
          <6> QED BY <6>2 DEF lb
        <5>9. Fold(reading, s, l) = Outside(words, word)
          BY <4>1 DEF s, l
        <5>10. Fold(reading, s, (l \o b) \o w) = Outside(more, Saved(a))
          BY <5>4, <5>5, <5>6, <5>7, <5>8, <5>9
        <5> QED BY <5>10 DEF l, w, b, s
      <4>4. Line(Append(as, a)) = (Line(as) \o One(Blank)) \o Written(a)
        BY <2>1, <3>2, LineAppend
      <4>5. Append(more, Saved(a)) = SavedAll(Append(as, a))
        BY <2>1, <4>1, SavedAppend
      <4> HIDE DEF more
      <4>6. Fold(reading, Outside(<<>>, NoText), Line(Append(as, a))) = Outside(more, Saved(a))
        BY <4>3, <4>4
      <4> QED BY <4>2, <4>5, <4>6
    <3> QED BY <3>1, <3>2
  <2> HIDE DEF Reads
  <2> QED BY <2>1, <2>2
<1>3. T \in SUBSET Seq(Text)
  OBVIOUS
<1> HIDE DEF T
<1>4. T = Seq(Text)
  BY <1>1, <1>2, <1>3, SeqSets
<1> QED BY <1>4 DEF T

\* Every argument comes back, with the directory that %t names.
LEMMA WordsBack ==
  ASSUME NEW args \in Seq(Text), args # <<>>
  PROVE  Words(Line(args)) = [k \in 1..Len(args) |-> Runtime(args[k])]
<1>1. PICK words \in Seq(Text), word \in Text :
         /\ Fold(reading, Outside(<<>>, NoText), Line(args)) = Outside(words, word)
         /\ Append(words, word) = SavedAll(args)
  BY ReadLine
<1> DEFINE end == Outside(words, word)
<1>2. Words(Line(args))
        = IF end.bad \/ end.quoted \/ end.escape THEN Bad
          ELSE [k \in DOMAIN Append(end.words, end.word) |-> Expanded(Append(end.words, end.word)[k])]
  <2>1. Outside(<<>>, NoText)
          = [words |-> <<>>, word |-> NoText, quoted |-> FALSE, escape |-> FALSE, bad |-> FALSE]
    BY Zenon DEF Outside, At
  <2> HIDE DEF end
  <2>2. Fold(reading, [words |-> <<>>, word |-> NoText, quoted |-> FALSE, escape |-> FALSE, bad |-> FALSE],
             Line(args)) = end
    BY <1>1, <2>1, Zenon DEF end
  <2> QED BY <2>2, Zenon DEF Words
<1>3. /\ end.bad = FALSE /\ end.quoted = FALSE /\ end.escape = FALSE
      /\ end.words = words /\ end.word = word
  BY DEF Outside, At
<1>4. Words(Line(args)) = [k \in DOMAIN SavedAll(args) |-> Expanded(SavedAll(args)[k])]
  BY <1>1, <1>2, <1>3
<1>5. DOMAIN SavedAll(args) = 1..Len(args) /\ \A k \in 1..Len(args) : SavedAll(args)[k] = Saved(args[k])
  BY LenProperties DEF SavedAll
<1>6. \A k \in 1..Len(args) : Expanded(Saved(args[k])) = Runtime(args[k])
  BY ExpandSaved, ElementOfSeq
<1> QED BY <1>4, <1>5, <1>6

-----------------------------------------------------------------------------
(* Nothing in a value that was let through ends a line.                     *)

Solid == Symbols \ {"nl"}

\* A text without line ends is a text.
LEMMA SolidText ==
  ASSUME NEW t \in Seq(Solid)
  PROVE  t \in Text /\ \A i \in 1..Len(t) : t[i] # "nl"
BY ElementOfSeq, SeqMonotonic DEF Text, Solid

\* validateUnitValue lets through only a text without line ends.
LEMMA SolidValue ==
  ASSUME NEW t \in Text, validateUnitValue(t)
  PROVE  t \in Seq(Solid) /\ t # <<>>
<1>1. t \in Seq(Symbols) /\ Len(t) \in Nat /\ DOMAIN t = 1..Len(t) /\ t \in [1..Len(t) -> Symbols]
  BY LenProperties DEF Text
<1>2. \A i \in 1..Len(t) : t[i] # "nl" /\ t[i] \in Symbols
  BY <1>1 DEF validateUnitValue, ToSet
<1>3. \A i \in 1..Len(t) : t[i] \in Solid
  BY <1>2 DEF Solid
<1>4. t \in [1..Len(t) -> Solid]
  BY <1>1, <1>3
<1> QED BY <1>1, <1>4, SeqDef DEF validateUnitValue, NoText

\* One symbol and two, over any set of symbols.
LEMMA TwoIn ==
  ASSUME NEW S, NEW c \in S, NEW d \in S
  PROVE  One(c) \in Seq(S) /\ Pair(c, d) \in Seq(S)
BY DEF One, Pair

\* The symbols that the quoting writes are no line ends.
LEMMA SolidAlphabet ==
  /\ One(Quote) \in Seq(Solid) /\ One(Blank) \in Seq(Solid)
  /\ Pair("%", "%") \in Seq(Solid) /\ Pair("%", "t") \in Seq(Solid)
  /\ \A c \in Solid : One(c) \in Seq(Solid) /\ Pair("\\", c) \in Seq(Solid)
<1>1. Quote \in Solid /\ Blank \in Solid /\ "%" \in Solid /\ "t" \in Solid /\ "\\" \in Solid
  <2>1. Blank \in Symbols
    BY DEF Symbols
  <2> QED BY <2>1, Alphabet, QuoteIsNew, BlankIsNew DEF Solid
<1> QED BY <1>1, TwoIn

\* What is written for a symbol that is no line end has none.
LEMMA MarkSolid == ASSUME NEW c \in Solid PROVE Mark(c) \in Seq(Solid)
BY SolidAlphabet DEF Mark, Escape

\* No substitution brings a line end into a value without one, ...
LEMMA BodySolid == ASSUME NEW t \in Seq(Solid) PROVE Body(t) \in Seq(Solid)
<1> DEFINE T == {v \in Seq(Solid) : Body(v) \in Seq(Solid)}
<1>1. <<>> \in T
  BY BodyEmpty, EmptySeq
<1>2. ASSUME NEW v \in T, NEW c \in Solid PROVE Append(v, c) \in T
  <2>1. v \in Seq(Solid) /\ Append(v, c) \in Seq(Solid) /\ Body(v) \in Seq(Solid)
    BY AppendProperties
  <2>2. v \in Text /\ c \in Symbols
    BY <2>1, SolidText DEF Solid
  <2>3. Body(Append(v, c)) = Body(v) \o Mark(c)
    BY <2>2, BodyAppend
  <2>4. Body(v) \o Mark(c) \in Seq(Solid)
    BY <2>1, MarkSolid, ConcatProperties
  <2> QED BY <2>1, <2>3, <2>4
<1>3. T \in SUBSET Seq(Solid)
  OBVIOUS
<1> HIDE DEF T
<1>4. T = Seq(Solid)
  BY <1>1, <1>2, <1>3, SeqSets
<1> QED BY <1>4 DEF T

\* ... nor do the quotes, ...
LEMMA WrittenSolid == ASSUME NEW a \in Seq(Solid) PROVE Written(a) \in Seq(Solid)
<1>1. a \in Text
  BY SolidText
<1>2. Inner(a) \in Seq(Solid)
  <2>1. CASE IsPrefix(Prefix, a)
    <3>1. Len(a) \in Nat /\ Len(a) >= 5
      BY <1>1, <2>1, PrefixSplit
    <3>2. Rest(a) \in Seq(Solid)
      BY <3>1, ElementOfSeq, SubSeqProperties DEF Rest
    <3>3. Pair("%", "t") \in Seq(Solid) /\ Body(Rest(a)) \in Seq(Solid)
      BY <3>2, BodySolid, SolidAlphabet
    <3> QED BY <2>1, <3>3, ConcatProperties DEF Inner
  <2>2. CASE ~IsPrefix(Prefix, a)
    BY <2>2, BodySolid DEF Inner
  <2> QED BY <2>1, <2>2
<1> DEFINE q == One(Quote)
           i == Inner(a)
<1>3. q \in Seq(Solid) /\ i \in Seq(Solid)
  BY <1>2, SolidAlphabet
<1>4. Written(a) = (q \o i) \o q
  BY <1>1, WrittenIs
<1> HIDE DEF q, i
<1>5. q \o i \in Seq(Solid)
  BY <1>3, ConcatProperties
<1>6. (q \o i) \o q \in Seq(Solid)
  BY <1>3, <1>5, ConcatProperties
<1> QED BY <1>4, <1>6

\* ... nor the blanks between the arguments.
LEMMA LineSolid ==
  ASSUME NEW args \in Seq(Seq(Solid)), args # <<>>
  PROVE  Line(args) \in Seq(Solid)
<1> DEFINE T == {as \in Seq(Seq(Solid)) : as # <<>> => Line(as) \in Seq(Solid)}
<1>1. <<>> \in T
  BY EmptySeq
<1>2. ASSUME NEW as \in T, NEW a \in Seq(Solid) PROVE Append(as, a) \in T
  <2>1. as \in Seq(Seq(Solid)) /\ Append(as, a) \in Seq(Seq(Solid)) /\ (as # <<>> => Line(as) \in Seq(Solid))
    BY AppendProperties
  <2>2. a \in Text /\ Seq(Solid) \subseteq Text /\ Written(a) \in Seq(Solid)
    BY SolidText, WrittenSolid
  <2>3. as \in Seq(Text)
    BY <2>1, <2>2, SeqMonotonic
  <2>4. CASE as = <<>>
    <3>1. Line(Append(as, a)) = Written(a)
      BY <2>2, <2>4, LineOne
    <3> QED BY <2>1, <2>2, <3>1
  <2>5. CASE as # <<>>
    <3> DEFINE l == Line(as)
               b == One(Blank)
               w == Written(a)
    <3>1. Line(Append(as, a)) = (l \o b) \o w
      BY <2>2, <2>3, <2>5, LineAppend
    <3>2. l \in Seq(Solid) /\ b \in Seq(Solid) /\ w \in Seq(Solid)
      BY <2>1, <2>2, <2>5, SolidAlphabet
    <3> HIDE DEF l, b, w
    <3>3. l \o b \in Seq(Solid)
      BY <3>2, ConcatProperties
    <3>4. (l \o b) \o w \in Seq(Solid)
      BY <3>2, <3>3, ConcatProperties
    <3> QED BY <2>1, <3>1, <3>4
  <2> QED BY <2>4, <2>5
<1>3. T \in SUBSET Seq(Seq(Solid))
  OBVIOUS
<1> HIDE DEF T
<1>4. T = Seq(Seq(Solid))
  BY <1>1, <1>2, <1>3, SeqSets
<1> QED BY <1>4 DEF T

-----------------------------------------------------------------------------
(* The lines of the unit file, and what the readers find in them.           *)

\* The two keys and the section are three symbols, none a line end.
LEMMA KeysAreNew ==
  /\ NameKey \notin {"nl", "[Service]", CommandKey}
  /\ CommandKey \notin {"nl", "[Service]"} /\ "[Service]" # "nl"
BY Zenon DEF NameKey, CommandKey

Top    == <<"[Service]", "nl", NameKey>>
Middle == <<"nl", CommandKey>>
Rendered(name, line) == (((Top \o name) \o Middle) \o line) \o One("nl")

\* What stands before the name.
LEMMA TopIs ==
  /\ Top \in Seq(Symbols) /\ Len(Top) = 3
  /\ Top[1] = "[Service]" /\ Top[2] = "nl" /\ Top[3] = NameKey
<1>1. "[Service]" \in Symbols /\ "nl" \in Symbols /\ NameKey \in Symbols
  BY DEF Symbols
<1> QED BY <1>1 DEF Top

\* What stands between the name and the command.
LEMMA MiddleIs ==
  /\ Middle \in Seq(Symbols) /\ Len(Middle) = 2 /\ Middle[1] = "nl" /\ Middle[2] = CommandKey
  /\ One("nl") \in Seq(Symbols) /\ Len(One("nl")) = 1 /\ One("nl")[1] = "nl"
<1>1. "nl" \in Symbols /\ CommandKey \in Symbols
  BY DEF Symbols
<1> QED BY <1>1 DEF Middle, One

\* The members of two sequences joined.
LEMMA Splice ==
  ASSUME NEW S, NEW s \in Seq(S), NEW t \in Seq(S), NEW k \in Nat, k = Len(s),
         NEW u, u = s \o t
  PROVE  /\ u \in Seq(S) /\ Len(u) = k + Len(t) /\ Len(t) \in Nat
         /\ \A i \in 1..k : u[i] = s[i]
         /\ \A i \in 1..Len(t) : u[i + k] = t[i]
<1>1. /\ s \o t \in Seq(S) /\ Len(s \o t) = Len(s) + Len(t)
      /\ \A i \in 1..Len(s) + Len(t) : (s \o t)[i] = IF i <= Len(s) THEN s[i] ELSE t[i - Len(s)]
  BY ConcatProperties
<1>2. Len(t) \in Nat
  BY LenProperties
<1>3. ASSUME NEW i \in 1..k PROVE u[i] = s[i]
  BY <1>1, <1>2, <1>3
<1>4. ASSUME NEW i \in 1..Len(t) PROVE u[i + k] = t[i]
  <2>1. i + k \in 1..k + Len(t) /\ ~(i + k <= k) /\ (i + k) - k = i
    BY <1>2
  <2> QED BY <1>1, <2>1
<1> QED BY <1>1, <1>2, <1>3, <1>4

\* Which symbol stands where, in a text of n symbols of a name and m of a command.
Framed(text, n, m) ==
  /\ text \in Seq(Symbols) /\ n \in Nat /\ m \in Nat /\ Len(text) = n + m + 6
  /\ text[1] = "[Service]" /\ text[2] = "nl" /\ text[3] = NameKey
  /\ text[n + 4] = "nl" /\ text[n + 5] = CommandKey /\ text[n + m + 6] = "nl"
Filled(text, name, line, n, m) ==
  /\ \A i \in 1..n : text[i + 3] = name[i]
  /\ \A i \in 1..m : text[i + (n + 5)] = line[i]

\* Where each symbol of the rendered file is.
LEMMA Layout ==
  ASSUME NEW name \in Seq(Symbols), NEW line \in Seq(Symbols)
  PROVE  /\ Framed(Rendered(name, line), Len(name), Len(line))
         /\ Filled(Rendered(name, line), name, line, Len(name), Len(line))
<1> DEFINE n == Len(name)
           m == Len(line)
           text == Rendered(name, line)
           a == Top \o name
           b == a \o Middle
           c == b \o line
<1>0. n \in Nat /\ m \in Nat /\ n = Len(name) /\ m = Len(line)
  BY LenProperties
<1> DEFINE Laid == text = (b \o line) \o One("nl")
<1>t. Laid
  BY DEF Rendered
<1> HIDE DEF n, m, text, Laid
<1>1. /\ a \in Seq(Symbols) /\ Len(a) = 3 + n
      /\ \A i \in 1..3 : a[i] = Top[i]
      /\ \A i \in 1..n : a[i + 3] = name[i]
  <2> DEFINE j == 3
             s == Top
  <2>1. j \in Nat /\ j = Len(s) /\ s \in Seq(Symbols)
    BY TopIs
  <2> HIDE DEF j, s
  <2>2. /\ s \o name \in Seq(Symbols) /\ Len(s \o name) = j + n
        /\ \A i \in 1..j : (s \o name)[i] = s[i]
        /\ \A i \in 1..n : (s \o name)[i + j] = name[i]
    BY <1>0, <2>1, Splice
  <2> QED BY <2>2 DEF j, s
<1> HIDE DEF a
<1>2. /\ b \in Seq(Symbols) /\ Len(b) = (3 + n) + 2
      /\ \A i \in 1..3 + n : b[i] = a[i]
      /\ \A i \in 1..2 : b[i + (3 + n)] = Middle[i]
  <2> DEFINE j == 3 + n
             t == Middle
  <2>0. Len(t) = 2
    BY MiddleIs
  <2>1. a \in Seq(Symbols) /\ j \in Nat /\ j = Len(a) /\ t \in Seq(Symbols)
    BY <1>0, <1>1, MiddleIs
  <2> HIDE DEF j, t
  <2>2. /\ a \o t \in Seq(Symbols) /\ Len(a \o t) = j + Len(t)
        /\ \A i \in 1..j : (a \o t)[i] = a[i]
        /\ \A i \in 1..Len(t) : (a \o t)[i + j] = t[i]
    BY <2>1, Splice
  <2> QED BY <2>0, <2>2 DEF j, t
<1> HIDE DEF b
<1> DEFINE k == n + 5
<1>3. /\ c \in Seq(Symbols) /\ Len(c) = k + m
      /\ \A i \in 1..k : c[i] = b[i]
      /\ \A i \in 1..m : c[i + k] = line[i]
  <2>1. k \in Nat /\ k = Len(b) /\ b \in Seq(Symbols)
    BY <1>0, <1>2
  <2> HIDE DEF k
  <2>2. /\ c \in Seq(Symbols) /\ Len(c) = k + Len(line)
        /\ \A i \in 1..k : c[i] = b[i]
        /\ \A i \in 1..Len(line) : c[i + k] = line[i]
    BY <2>1, Splice
  <2> QED BY <1>0, <2>2
<1> HIDE DEF c
<1> DEFINE l == n + m + 5
<1>4. /\ text \in Seq(Symbols) /\ Len(text) = l + 1
      /\ \A i \in 1..l : text[i] = c[i]
      /\ \A i \in 1..1 : text[i + l] = "nl"
  <2>1. l \in Nat /\ l = Len(c)
    BY <1>0, <1>3
  <2>2. text = c \o One("nl")
    BY <1>t DEF Laid, c
  <2> HIDE DEF l
  <2>3. /\ text \in Seq(Symbols) /\ Len(text) = l + 1
        /\ \A i \in 1..l : text[i] = c[i]
        /\ \A i \in 1..1 : text[i + l] = One("nl")[i]
    <3> DEFINE t == One("nl")
    <3>0. Len(t) = 1
      BY MiddleIs
    <3>1. c \in Seq(Symbols) /\ t \in Seq(Symbols) /\ l \in Nat /\ l = Len(c) /\ text = c \o t
      BY <1>3, <2>1, <2>2, MiddleIs
    <3> HIDE DEF t
    <3>2. /\ text \in Seq(Symbols) /\ Len(text) = l + Len(t)
          /\ \A i \in 1..l : text[i] = c[i]
          /\ \A i \in 1..Len(t) : text[i + l] = t[i]
      BY <3>1, Splice
    <3> QED BY <3>0, <3>2 DEF t
  <2> QED BY <2>3, MiddleIs
<1>5. text \in Seq(Symbols) /\ Len(text) = n + m + 6 /\ text[n + m + 6] = "nl"
  <2>1. 1 \in 1..1 /\ 1 + l = n + m + 6 /\ l + 1 = n + m + 6
    BY <1>0
  <2> QED BY <1>4, <2>1
<1>6. \A i \in 1..k : text[i] = b[i]
  <2>1. ASSUME NEW i \in 1..k PROVE i \in 1..l
    BY <1>0
  <2> QED BY <1>3, <1>4, <2>1
<1>7. \A i \in 1..n + 3 : text[i] = a[i]
  <2>1. ASSUME NEW i \in 1..n + 3 PROVE i \in 1..k /\ i \in 1..3 + n
    BY <1>0
  <2> QED BY <1>2, <1>6, <2>1
<1>8. text[1] = "[Service]" /\ text[2] = "nl" /\ text[3] = NameKey
  <2>1. \A i \in 1..3 : text[i] = Top[i]
    BY <1>0, <1>1, <1>7
  <2>2. 1 \in 1..3 /\ 2 \in 1..3 /\ 3 \in 1..3
    OBVIOUS
  <2> QED BY <2>1, <2>2, TopIs
<1>9. \A i \in 1..n : text[i + 3] = name[i]
  <2>1. ASSUME NEW i \in 1..n PROVE i + 3 \in 1..n + 3
    BY <1>0
  <2> QED BY <1>1, <1>7, <2>1
<1>10. text[n + 4] = "nl" /\ text[n + 5] = CommandKey
  <2>1. /\ 1 \in 1..2 /\ 2 \in 1..2 /\ 1 + (3 + n) = n + 4 /\ 2 + (3 + n) = n + 5
        /\ n + 4 \in 1..k /\ n + 5 \in 1..k
    BY <1>0
  <2>2. b[n + 4] = Middle[1] /\ b[n + 5] = Middle[2]
    BY <1>2, <2>1
  <2>3. text[n + 4] = b[n + 4] /\ text[n + 5] = b[n + 5]
    BY <1>6, <2>1
  <2> QED BY <2>2, <2>3, MiddleIs
<1>11. \A i \in 1..m : text[i + (n + 5)] = line[i]
  <2>1. ASSUME NEW i \in 1..m PROVE i + k \in 1..l
    BY <1>0
  <2> QED BY <1>3, <1>4, <2>1
<1>12. Framed(text, n, m)
  BY <1>0, <1>5, <1>8, <1>10 DEF Framed
<1>13. Filled(text, name, line, n, m)
  BY <1>9, <1>11 DEF Filled
<1> QED BY <1>12, <1>13 DEF n, m, text

\* A least member is the minimum.
LEMMA MinIs ==
  ASSUME NEW S \in SUBSET Int, NEW x \in S, \A y \in S : x <= y
  PROVE  Min(S) = x
<1>1. \A z \in S : (\A y \in S : z <= y) => z = x
  OBVIOUS
<1> QED BY <1>1 DEF Min

\* The three lines end where they should, whatever the values are made of ...
EndsAt(text, n, m) == \A i \in 1..n + m + 6 : text[i] = "nl" <=> i \in {2, n + 4, n + m + 6}

\* Only the three ends of lines are line ends: no value starts a line.
LEMMA Ends ==
  ASSUME NEW name \in Seq(Solid), NEW line \in Seq(Solid)
  PROVE  EndsAt(Rendered(name, line), Len(name), Len(line))
<1> DEFINE n == Len(name)
           m == Len(line)
           text == Rendered(name, line)
<1>0. n = Len(name) /\ m = Len(line) /\ text = Rendered(name, line)
  OBVIOUS
<1> HIDE DEF n, m, text
<1>1. name \in Seq(Symbols) /\ line \in Seq(Symbols)
  BY SolidText DEF Text
<1>f. Framed(text, n, m) /\ Filled(text, name, line, n, m)
  BY <1>0, <1>1, Layout
<1>2. /\ n \in Nat /\ m \in Nat
      /\ text[1] = "[Service]" /\ text[2] = "nl" /\ text[3] = NameKey
      /\ text[n + 4] = "nl" /\ text[n + 5] = CommandKey /\ text[n + m + 6] = "nl"
  BY <1>f DEF Framed
<1>s. (\A i \in 1..n : name[i] # "nl") /\ \A i \in 1..m : line[i] # "nl"
  <2>1. \A i \in 1..Len(name) : name[i] # "nl"
    BY SolidText
  <2>2. \A i \in 1..Len(line) : line[i] # "nl"
    BY SolidText
  <2> QED BY <1>0, <2>1, <2>2
<1>3. \A i \in 1..n : text[i + 3] = name[i] /\ name[i] # "nl"
  BY <1>f, <1>s DEF Filled
<1>4. \A i \in 1..m : text[i + (n + 5)] = line[i] /\ line[i] # "nl"
  BY <1>f, <1>s DEF Filled
<1>5. ASSUME NEW i \in 1..n + m + 6, i \notin {2, n + 4, n + m + 6} PROVE text[i] # "nl"
  <2>0. n \in Nat /\ m \in Nat
    BY <1>2
  <2>1. \/ i \in {1, 3, n + 5}
        \/ i - 3 \in 1..n
        \/ i - (n + 5) \in 1..m
    BY <1>5, <2>0
  <2>2. CASE i \in {1, 3, n + 5}
    BY <1>2, <2>2, KeysAreNew
  <2>3. CASE i - 3 \in 1..n
    <3>1. (i - 3) + 3 = i
      BY <2>0
    <3> QED BY <1>3, <2>3, <3>1
  <2>4. CASE i - (n + 5) \in 1..m
    <3>1. (i - (n + 5)) + (n + 5) = i
      BY <2>0
    <3> QED BY <1>4, <2>4, <3>1
  <2> QED BY <2>1, <2>2, <2>3, <2>4
<1>6. EndsAt(text, n, m)
  BY <1>2, <1>5 DEF EndsAt
<1> QED BY <1>0, <1>6

\* ... so that each key is found once, with its value.
Found(text, name, line, n) ==
  /\ Keys(text, NameKey) = {3} /\ Keys(text, CommandKey) = {n + 5}
  /\ 3 \in DOMAIN text /\ n + 5 \in DOMAIN text
  /\ Value(text, 3) = name /\ Value(text, n + 5) = line

\* Each key is found once, with the value that was written behind it.
LEMMA KeysFound ==
  ASSUME NEW name \in Seq(Solid), NEW line \in Seq(Solid)
  PROVE  Found(Rendered(name, line), name, line, Len(name))
<1> DEFINE n == Len(name)
           m == Len(line)
           text == Rendered(name, line)
<1>e. n = Len(name) /\ m = Len(line) /\ text = Rendered(name, line)
  OBVIOUS
<1> HIDE DEF n, m, text
<1>0. name \in Seq(Symbols) /\ line \in Seq(Symbols)
  BY SolidText DEF Text
<1>f. Framed(text, n, m) /\ Filled(text, name, line, n, m)
  BY <1>0, <1>e, Layout
<1>1. /\ n \in Nat /\ m \in Nat /\ Len(text) = n + m + 6 /\ text \in Seq(Symbols)
      /\ text[1] = "[Service]" /\ text[2] = "nl" /\ text[3] = NameKey
      /\ text[n + 4] = "nl" /\ text[n + 5] = CommandKey /\ text[n + m + 6] = "nl"
  BY <1>f DEF Framed
<1>2. DOMAIN text = 1..n + m + 6
  BY <1>1, LenProperties
<1>3. \A i \in 1..n + m + 6 : text[i] = "nl" <=> i \in {2, n + 4, n + m + 6}
  BY <1>e, Ends DEF EndsAt
<1>4. n \in Nat /\ m \in Nat
  BY <1>1
<1>5. ASSUME NEW key, key # "[Service]"
      PROVE  Keys(text, key) = {i \in {3, n + 5} : text[i] = key}
  <2>1. ASSUME NEW i \in Keys(text, key) PROVE i \in {3, n + 5} /\ text[i] = key
    <3>1. i \in 1..n + m + 6 /\ text[i] = key /\ (i = 1 \/ text[i - 1] = "nl")
      BY <1>2 DEF Keys
    <3>2. i # 1
      BY <1>1, <1>5, <3>1
    <3>3. i - 1 \in 1..n + m + 6 /\ text[i - 1] = "nl"
      BY <1>4, <3>1, <3>2
    <3>4. i - 1 \in {2, n + 4, n + m + 6}
      BY <1>3, <3>3
    <3>5. i \in {3, n + 5}
      BY <1>4, <3>1, <3>4
    <3> QED BY <3>1, <3>5
  <2>2. ASSUME NEW i \in {3, n + 5}, text[i] = key PROVE i \in Keys(text, key)
    <3>1. i \in 1..n + m + 6 /\ i - 1 \in {2, n + 4}
      BY <1>4
    <3>2. text[i - 1] = "nl"
      BY <1>1, <3>1
    <3> QED BY <1>2, <2>2, <3>1, <3>2 DEF Keys
  <2> QED BY <2>1, <2>2
<1>6. Keys(text, NameKey) = {3} /\ Keys(text, CommandKey) = {n + 5}
  <2>1. /\ Keys(text, NameKey) = {i \in {3, n + 5} : text[i] = NameKey}
        /\ Keys(text, CommandKey) = {i \in {3, n + 5} : text[i] = CommandKey}
    BY <1>5, KeysAreNew
  <2> QED BY <1>1, <2>1, KeysAreNew
<1>7. 3 \in DOMAIN text /\ n + 5 \in DOMAIN text
  BY <1>2, <1>4
<1> DEFINE Ending(i) == {j \in i..Len(text) : text[j] = "nl"} \cup {Len(text) + 1}
<1>8. Min(Ending(3)) = n + 4
  <2>1. Ending(3) \in SUBSET Int
    BY <1>1
  <2>2. n + 4 \in Ending(3)
    BY <1>1
  <2>3. ASSUME NEW j \in Ending(3) PROVE n + 4 <= j
    <3>1. CASE j = Len(text) + 1
      BY <1>1, <3>1
    <3>2. CASE j \in 3..Len(text) /\ text[j] = "nl"
      <4>1. j \in 1..n + m + 6 /\ j # 2
        BY <1>1, <3>2
      <4>2. j \in {2, n + 4, n + m + 6}
        BY <1>3, <3>2, <4>1
      <4> QED BY <1>4, <4>1, <4>2
    <3> QED BY <3>1, <3>2
  <2> HIDE DEF Ending
  <2> QED BY <2>1, <2>2, <2>3, MinIs
<1>9. Min(Ending(n + 5)) = n + m + 6
  <2>1. Ending(n + 5) \in SUBSET Int
    BY <1>1
  <2>2. n + m + 6 \in Ending(n + 5)
    BY <1>1
  <2>3. ASSUME NEW j \in Ending(n + 5) PROVE n + m + 6 <= j
    <3>1. CASE j = Len(text) + 1
      BY <1>1, <3>1
    <3>2. CASE j \in n + 5..Len(text) /\ text[j] = "nl"
      <4>1. j \in 1..n + m + 6 /\ j \notin {2, n + 4}
        BY <1>1, <3>2
      <4>2. j \in {2, n + 4, n + m + 6}
        BY <1>3, <3>2, <4>1
      <4> QED BY <1>4, <4>1, <4>2
    <3> QED BY <3>1, <3>2
  <2> HIDE DEF Ending
  <2> QED BY <2>1, <2>2, <2>3, MinIs
<1>10. Value(text, 3) = name
  <2>1. Value(text, 3) = SubSeq(text, 3 + 1, Min(Ending(3)) - 1)
    BY Zenon DEF Value
  <2>2. 3 + 1 = 4 /\ (n + 4) - 1 = n + 3
    BY <1>4
  <2> DEFINE v == SubSeq(text, 4, n + 3)
  <2>3. Value(text, 3) = v
    BY <1>8, <2>1, <2>2
  <2>4. v \in Seq(Symbols) /\ Len(v) = n /\ \A i \in 1..n : v[i] = text[i + 3]
    BY <1>1
  <2>5. \A i \in 1..n : text[i + 3] = name[i]
    BY <1>f DEF Filled
  <2> HIDE DEF v
  <2>6. v = name
    BY <1>0, <1>e, <2>4, <2>5, SeqEqual
  <2> QED BY <2>3, <2>6
<1>11. Value(text, n + 5) = line
  <2>1. Value(text, n + 5) = SubSeq(text, (n + 5) + 1, Min(Ending(n + 5)) - 1)
    BY Zenon DEF Value
  <2>2. (n + 5) + 1 = n + 6 /\ (n + m + 6) - 1 = n + m + 5
    BY <1>4
  <2> DEFINE v == SubSeq(text, n + 6, n + m + 5)
  <2>3. Value(text, n + 5) = v
    BY <1>9, <2>1, <2>2
  <2>4. v \in Seq(Symbols) /\ Len(v) = m /\ \A i \in 1..m : v[i] = text[i + (n + 5)]
    BY <1>1
  <2>5. \A i \in 1..m : text[i + (n + 5)] = line[i]
    BY <1>f DEF Filled
  <2> HIDE DEF v
  <2>6. v = line
    BY <1>0, <1>e, <2>4, <2>5, SeqEqual
  <2> QED BY <2>3, <2>6
<1>12. Found(text, name, line, n)
  BY <1>6, <1>7, <1>10, <1>11 DEF Found
<1> QED BY <1>12, <1>e

-----------------------------------------------------------------------------
(* The unit file as it is written.                                          *)

\* The members of a list of six.
LEMMA SixIs ==
  ASSUME NEW S, NEW a \in S, NEW b \in S, NEW c \in S, NEW d \in S, NEW e \in S, NEW f \in S
  PROVE  /\ <<a, b, c, d, e, f>> \in Seq(S) /\ Len(<<a, b, c, d, e, f>>) = 6
         /\ <<a, b, c, d, e, f>>[1] = a /\ <<a, b, c, d, e, f>>[4] = d
OBVIOUS

\* %t/pipeferry/ has no line ends.
LEMMA PrefixIs ==
  /\ Prefix \in Seq(Solid) /\ Len(Prefix) = 5
  /\ Prefix[1] = "%" /\ Prefix[2] = "t" /\ Prefix[3] = "/" /\ Prefix[4] = "pipeferry" /\ Prefix[5] = "/"
<1>1. "%" \in Symbols /\ "t" \in Symbols /\ "/" \in Symbols /\ "pipeferry" \in Symbols
  BY DEF Symbols
<1>2. "%" \in Solid /\ "t" \in Solid /\ "/" \in Solid /\ "pipeferry" \in Solid
  BY <1>1 DEF Solid
<1> QED BY <1>2 DEF Prefix

Six(path, socket) ==
  <<path, <<"unix-listen">>, <<"--socket">>, socket, <<"limits">>, <<"--">>>>

\* What the service is started with.
ArgumentsBe(as, path, name, command) ==
  /\ as \in Seq(Seq(Solid)) /\ Len(as) = 6 + Len(command)
  /\ as[1] = path /\ as[4] = Prefix \o name
  /\ \A k \in 1..Len(command) : as[k + 6] = command[k]

LEMMA ArgumentsAre ==
  ASSUME NEW path \in Seq(Solid), NEW name \in Seq(Solid), NEW command \in Seq(Seq(Solid))
  PROVE  ArgumentsBe(Arguments(path, name, command), path, name, command)
<1> DEFINE socket == Prefix \o name
           six == Six(path, socket)
           as == Arguments(path, name, command)
<1>1. socket \in Seq(Solid)
  BY PrefixIs, ConcatProperties
<1>2. <<"unix-listen">> \in Seq(Solid) /\ <<"--socket">> \in Seq(Solid) /\ <<"limits">> \in Seq(Solid)
      /\ <<"--">> \in Seq(Solid)
  <2>1. "unix-listen" \in Symbols /\ "--socket" \in Symbols /\ "limits" \in Symbols /\ "--" \in Symbols
    BY DEF Symbols
  <2>2. "unix-listen" \in Solid /\ "--socket" \in Solid /\ "limits" \in Solid /\ "--" \in Solid
    BY <2>1 DEF Solid
  <2> QED BY <2>2
<1>3. as = six \o command
  BY DEF Arguments, Six
<1> HIDE DEF socket
<1>4. six \in Seq(Seq(Solid)) /\ Len(six) = 6 /\ six[1] = path /\ six[4] = socket
  BY <1>1, <1>2, SixIs DEF Six
<1> HIDE DEF six, as
<1> DEFINE j == 6
<1>5. j \in Nat /\ j = Len(six) /\ six \in Seq(Seq(Solid))
  BY <1>4
<1> HIDE DEF j
<1>6. /\ as \in Seq(Seq(Solid)) /\ Len(as) = j + Len(command)
      /\ \A i \in 1..j : as[i] = six[i]
      /\ \A i \in 1..Len(command) : as[i + j] = command[i]
  BY <1>3, <1>5, Splice
<1>7. 1 \in 1..j /\ 4 \in 1..j
  BY DEF j
<1>8. as[1] = path /\ as[4] = socket
  BY <1>4, <1>6, <1>7
<1>9. ArgumentsBe(as, path, name, command)
  BY <1>6, <1>8 DEF ArgumentsBe, socket, j
<1> QED BY <1>9 DEF as

\* An absolute path comes back as it is, ...
LEMMA RuntimePath ==
  ASSUME NEW path \in Text, IsAbs(path)
  PROVE  Runtime(path) = path
<1>1. ~IsPrefix(Prefix, path)
  <2>1. path[1] = "/"
    BY DEF IsAbs
  <2> QED BY <2>1, PrefixSplit
<1> QED BY <1>1 DEF Runtime

\* ... the path of the socket with the runtime directory.
LEMMA RuntimeSocket ==
  ASSUME NEW name \in Seq(Solid)
  PROVE  Runtime(Prefix \o name) = <<"RUNTIME", "/", "pipeferry", "/">> \o name
<1> DEFINE s == Prefix \o name
           u == <<"RUNTIME", "/", "pipeferry", "/">> \o name
           r == <<"RUNTIME">> \o SubSeq(s, 3, Len(s))
           h == <<"RUNTIME", "/", "pipeferry", "/">>
<1>0. Prefix \in Seq(Symbols) /\ name \in Seq(Symbols)
  BY PrefixIs, SolidText DEF Text
<1> DEFINE j == 5
<1>1. j \in Nat /\ j = Len(Prefix)
  BY PrefixIs
<1> HIDE DEF j
<1>2. /\ s \in Seq(Symbols) /\ Len(s) = j + Len(name) /\ Len(name) \in Nat
      /\ \A i \in 1..j : s[i] = Prefix[i]
      /\ \A i \in 1..Len(name) : s[i + j] = name[i]
  BY <1>0, <1>1, Splice
<1> HIDE DEF s
<1>3. IsPrefix(Prefix, s)
  <2>1. j <= Len(s)
    BY <1>1, <1>2
  <2> DEFINE p == SubSeq(Prefix, 1, j)
             q == SubSeq(s, 1, j)
  <2>2. p \in Seq(Symbols) /\ Len(p) = j /\ \A i \in 1..j : p[i] = Prefix[i]
    BY <1>0, <1>1
  <2>3. q \in Seq(Symbols) /\ Len(q) = j /\ \A i \in 1..j : q[i] = s[i]
    BY <1>1, <1>2, <2>1
  <2> HIDE DEF p, q
  <2>4. p = q
    BY <1>2, <2>2, <2>3, SeqEqual
  <2> QED BY <1>1, <2>1, <2>4 DEF IsPrefix, p, q
<1>4. Runtime(s) = r
  BY <1>3 DEF Runtime
<1> DEFINE t == SubSeq(s, 3, Len(s))
<1>5. /\ t \in Seq(Symbols) /\ Len(t) = 3 + Len(name)
      /\ t[1] = "/" /\ t[2] = "pipeferry" /\ t[3] = "/"
      /\ \A i \in 1..Len(name) : t[i + 3] = name[i]
  <2>1. Len(s) = 5 + Len(name) /\ Len(name) \in Nat
    BY <1>2 DEF j
  <2>2. t \in Seq(Symbols) /\ Len(t) = 3 + Len(name) /\ \A i \in 1..3 + Len(name) : t[i] = s[i + 2]
    BY <1>2, <2>1
  <2>3. t[1] = s[3] /\ t[2] = s[4] /\ t[3] = s[5]
    BY <2>1, <2>2
  <2>4. s[3] = "/" /\ s[4] = "pipeferry" /\ s[5] = "/"
    BY <1>2, PrefixIs DEF j
  <2>5. ASSUME NEW i \in 1..Len(name) PROVE t[i + 3] = name[i]
    <3>1. i + 3 \in 1..3 + Len(name) /\ (i + 3) + 2 = i + 5
      BY <2>1
    <3>2. t[i + 3] = s[i + 5]
      BY <2>2, <3>1
    <3> QED BY <1>2, <3>2 DEF j
  <2> QED BY <2>2, <2>3, <2>4, <2>5
<1> HIDE DEF t
<1>6. "RUNTIME" \in Symbols /\ "/" \in Symbols /\ "pipeferry" \in Symbols
  BY DEF Symbols
<1> DEFINE g == <<"RUNTIME">>
<1>7. g \in Seq(Symbols) /\ Len(g) = 1 /\ g[1] = "RUNTIME"
  BY <1>6
<1>8. /\ h \in Seq(Symbols) /\ Len(h) = 4
      /\ h[1] = "RUNTIME" /\ h[2] = "/" /\ h[3] = "pipeferry" /\ h[4] = "/"
  BY <1>6
<1> HIDE DEF g, h
<1>9. /\ g \o t \in Seq(Symbols) /\ Len(g \o t) = 4 + Len(name)
      /\ (g \o t)[1] = g[1] /\ \A i \in 1..3 + Len(name) : (g \o t)[i + 1] = t[i]
  <2> DEFINE l == 1
  <2>1. l \in Nat /\ l = Len(g) /\ g \in Seq(Symbols) /\ t \in Seq(Symbols)
    BY <1>5, <1>7
  <2> HIDE DEF l
  <2>2. /\ g \o t \in Seq(Symbols) /\ Len(g \o t) = l + Len(t)
        /\ \A i \in 1..l : (g \o t)[i] = g[i]
        /\ \A i \in 1..Len(t) : (g \o t)[i + l] = t[i]
    BY <2>1, Splice
  <2> QED BY <1>2, <1>5, <2>2 DEF l
<1>10. /\ h \o name \in Seq(Symbols) /\ Len(h \o name) = 4 + Len(name)
       /\ \A i \in 1..4 : (h \o name)[i] = h[i]
       /\ \A i \in 1..Len(name) : (h \o name)[i + 4] = name[i]
  <2> DEFINE l == 4
  <2>1. l \in Nat /\ l = Len(h) /\ h \in Seq(Symbols)
    BY <1>8
  <2> HIDE DEF l
  <2>2. /\ h \o name \in Seq(Symbols) /\ Len(h \o name) = l + Len(name)
        /\ \A i \in 1..l : (h \o name)[i] = h[i]
        /\ \A i \in 1..Len(name) : (h \o name)[i + l] = name[i]
    BY <1>0, <2>1, Splice
  <2> QED BY <2>2 DEF l
<1>11. ASSUME NEW i \in 1..4 + Len(name) PROVE (g \o t)[i] = (h \o name)[i]
  <2>1. Len(name) \in Nat
    BY <1>2
  <2>2. CASE i = 1
    <3>1. (h \o name)[1] = h[1]
      BY <1>10
    <3> QED BY <1>7, <1>8, <1>9, <2>2, <3>1
  <2>3. CASE i \in 2..4
    <3>1. i - 1 \in 1..3 + Len(name) /\ (i - 1) + 1 = i /\ i \in 1..4
      BY <2>1, <2>3
    <3>2. (g \o t)[i] = t[i - 1] /\ (h \o name)[i] = h[i]
      BY <1>9, <1>10, <3>1
    <3>3. i = 2 \/ i = 3 \/ i = 4
      BY <2>3
    <3>4. h[2] = t[1] /\ h[3] = t[2] /\ h[4] = t[3]
      BY <1>5, <1>8
    <3>5. CASE i = 2
      BY <3>2, <3>4, <3>5
    <3>6. CASE i = 3
      BY <3>2, <3>4, <3>6
    <3>7. CASE i = 4
      BY <3>2, <3>4, <3>7
    <3> QED BY <3>3, <3>5, <3>6, <3>7
  <2>4. CASE i \in 5..4 + Len(name)
    <3>1. /\ i - 1 \in 1..3 + Len(name) /\ (i - 1) + 1 = i
          /\ i - 4 \in 1..Len(name) /\ (i - 4) + 4 = i /\ (i - 4) + 3 = i - 1
      BY <2>1, <2>4
    <3>2. (g \o t)[i] = t[i - 1]
      BY <1>9, <3>1
    <3>3. t[i - 1] = name[i - 4]
      BY <1>5, <3>1
    <3>4. (h \o name)[i] = name[i - 4]
      BY <1>10, <3>1
    <3> QED BY <3>2, <3>3, <3>4
  <2>5. i = 1 \/ i \in 2..4 \/ i \in 5..4 + Len(name)
    BY <2>1
  <2> QED BY <2>2, <2>3, <2>4, <2>5
<1>12. g \o t = h \o name
  BY <1>9, <1>10, <1>11, SeqEqual
<1> QED BY <1>4, <1>12 DEF g, h, t, s

\* The service is started with some arguments.
LEMMA ArgumentsSome ==
  ASSUME NEW path \in Seq(Solid), NEW name \in Seq(Solid), NEW command \in Seq(Seq(Solid))
  PROVE  Arguments(path, name, command) \in Seq(Seq(Solid)) /\ Arguments(path, name, command) # <<>>
<1> DEFINE as == Arguments(path, name, command)
<1>1. as \in Seq(Seq(Solid)) /\ as # <<>>
  <2>1. as \in Seq(Seq(Solid)) /\ Len(as) = 6 + Len(command)
    BY ArgumentsAre DEF ArgumentsBe
  <2>2. Len(command) \in Nat
    BY LenProperties
  <2> HIDE DEF as
  <2>3. Len(as) # 0
    BY <2>1, <2>2
  <2>4. as # <<>>
    <3>1. Len(<<>>) = 0
      OBVIOUS
    <3> QED BY <2>3, <3>1, Zenon
  <2> QED BY <2>1, <2>4
<1> QED BY <1>1

\* systemd and the readers of the name find in the file what went into it.
LEMMA UnitReadBack ==
  ASSUME NEW path \in Seq(Solid), NEW name \in Seq(Solid), NEW command \in Seq(Seq(Solid)),
         validateSocketName(name)
  PROVE  /\ ExecStart(renderServiceUnit(path, name, command)) =
                Loaded(Words(Line(Arguments(path, name, command))))
         /\ readUnitSocketName(renderServiceUnit(path, name, command)) = name
<1> DEFINE as == Arguments(path, name, command)
           line == Line(as)
           text == renderServiceUnit(path, name, command)
<1>1. as \in Seq(Seq(Solid)) /\ as # <<>>
  BY ArgumentsSome
<1>2. text = Rendered(name, line)
  BY DEF renderServiceUnit, Rendered, Top, Middle, One, Line
<1> HIDE DEF as
<1>3. line \in Seq(Solid)
  BY <1>1, LineSolid
<1> HIDE DEF line, text
<1> DEFINE n == Len(name)
<1>4. /\ Keys(text, NameKey) = {3} /\ Keys(text, CommandKey) = {n + 5}
      /\ n + 5 \in DOMAIN text /\ Value(text, 3) = name /\ Value(text, n + 5) = line
  BY <1>2, <1>3, KeysFound DEF Found
<1>5. n + 5 \in Nat
  BY LenProperties
<1> HIDE DEF n
<1>6. ASSUME NEW x \in Nat PROVE Min({x}) = x
  <2> DEFINE S == {x}
  <2>1. S \in SUBSET Int /\ x \in S /\ \A y \in S : x <= y
    OBVIOUS
  <2> HIDE DEF S
  <2>2. Min(S) = x
    BY <2>1, MinIs
  <2> QED BY <2>2 DEF S
<1>7. ExecStart(text) = Loaded(Words(line))
  <2> DEFINE x == n + 5
  <2>1. Keys(text, CommandKey) = {x} /\ x \in DOMAIN text /\ Value(text, x) = line /\ Min({x}) = x
    BY <1>4, <1>5, <1>6
  <2> HIDE DEF x
  <2>2. ExecStart(text) = Loaded(Words(Value(text, Min(Keys(text, CommandKey)))))
    BY <2>1 DEF ExecStart
  <2> QED BY <2>1, <2>2
<1>8. readUnitSocketName(text) = name
  <2> DEFINE named == {i \in Keys(text, NameKey) : validateSocketName(Value(text, i))}
  <2>1. named = {3}
    BY <1>4
  <2>2. readUnitSocketName(text) = IF named = {} THEN NoText ELSE Value(text, Min(named))
    BY Zenon DEF readUnitSocketName
  <2>3. Min({3}) = 3
    BY <1>6
  <2> HIDE DEF named
  <2>4. readUnitSocketName(text) = Value(text, Min(named))
    BY <2>1, <2>2
  <2> QED BY <1>4, <2>1, <2>3, <2>4
<1> QED BY <1>7, <1>8 DEF as, line, text

\* The two together: the words that systemd starts are the arguments.
BackAs(words, path, name, command) ==
  /\ words # Bad /\ Len(words) = 6 + Len(command)
  /\ words[1] = path
  /\ words[4] = <<"RUNTIME", "/", "pipeferry", "/">> \o name
  /\ \A k \in DOMAIN command : words[6 + k] = Runtime(command[k])

\* systemd reads the path, the socket and the command that the unit was rendered
\* from, whatever their symbols.
LEMMA ArgvReadBack ==
  ASSUME NEW path \in Seq(Solid), IsAbs(path), NEW name \in Seq(Solid),
         NEW command \in Seq(Seq(Solid)), command # <<>>, validateSocketName(name)
  PROVE  \E words : /\ BackAs(words, path, name, command)
                    /\ ExecStart(renderServiceUnit(path, name, command)) = Loaded(words)
<1> DEFINE as == Arguments(path, name, command)
           n == 6 + Len(command)
           words == Words(Line(as))
<1> HIDE DEF as
<1>1. /\ as \in Seq(Seq(Solid)) /\ Len(as) = n
      /\ as[1] = path /\ as[4] = Prefix \o name
      /\ \A k \in 1..Len(command) : as[k + 6] = command[k]
  <2>1. ArgumentsBe(as, path, name, command)
    BY ArgumentsAre DEF as
  <2> QED BY <2>1 DEF ArgumentsBe
<1>2. words = Words(Line(as)) /\ ExecStart(renderServiceUnit(path, name, command)) = Loaded(words)
  BY UnitReadBack DEF as
<1>3. Len(command) \in Nat \ {0} /\ DOMAIN command = 1..Len(command)
  BY EmptySeq, LenProperties
<1>4. as # <<>>
  <2>1. n # 0
    BY <1>3
  <2> HIDE DEF as
  <2> QED BY <1>1, <2>1, EmptySeq
<1>5. as \in Seq(Text)
  <2>1. Seq(Solid) \subseteq Text
    BY SolidText
  <2> HIDE DEF as
  <2> QED BY <1>1, <2>1, SeqMonotonic
<1> HIDE DEF as, n, words
<1>6. words = [k \in 1..n |-> Runtime(as[k])]
  BY <1>1, <1>2, <1>4, <1>5, WordsBack
<1>7. n \in Nat /\ n = 6 + Len(command)
  BY <1>3 DEF n
<1>8. Len(words) = n /\ \A k \in 1..n : words[k] = Runtime(as[k])
  BY <1>6, <1>7
<1>9. words # Bad
  <2>1. Len(Bad) = 0
    BY DEF Bad
  <2>2. n # 0
    BY <1>3, <1>7
  <2> QED BY <1>8, <2>1, <2>2
<1>10. words[1] = path
  <2>1. 1 \in 1..n
    BY <1>3, <1>7
  <2>2. path \in Text
    BY SolidText
  <2> QED BY <1>1, <1>8, <2>1, <2>2, RuntimePath
<1>11. words[4] = <<"RUNTIME", "/", "pipeferry", "/">> \o name
  <2>1. 4 \in 1..n
    BY <1>3, <1>7
  <2>2. words[4] = Runtime(Prefix \o name)
    BY <1>1, <1>8, <2>1
  <2> QED BY <2>2, RuntimeSocket
<1>12. ASSUME NEW k \in DOMAIN command PROVE words[6 + k] = Runtime(command[k])
  <2>1. k \in 1..Len(command) /\ k + 6 \in 1..n /\ k + 6 = 6 + k
    BY <1>3, <1>7
  <2>2. words[k + 6] = Runtime(as[k + 6]) /\ as[k + 6] = command[k]
    BY <1>1, <1>8, <2>1
  <2> QED BY <2>1, <2>2
<1>13. BackAs(words, path, name, command)
  BY <1>7, <1>8, <1>9, <1>10, <1>11, <1>12 DEF BackAs
<1> QED BY <1>2, <1>13

\* A name that is found is one that would be accepted.
LEMMA MinIn == ASSUME NEW S \in SUBSET Nat, S # {} PROVE Min(S) \in S
<1>1. PICK R : /\ IsWellFoundedOn(R, Nat)
               /\ \A x, y \in Nat : <<x, y>> \in R <=> x < y
  BY Less
<1>2. PICK x \in S : \A y \in S : ~(<<y, x>> \in R)
  BY <1>1, Minimal, Zenon
<1>3. \A y \in S : x <= y
  <2>1. ASSUME NEW y \in S PROVE x <= y
    <3>1. x \in Nat /\ y \in Nat
      OBVIOUS
    <3>2. ~(y < x)
      BY <1>1, <1>2, <3>1
    <3> QED BY <3>1, <3>2
  <2> QED BY <2>1
<1> QED BY <1>3, MinIs

\* readUnitSocketName returns a valid name or none, whatever the file says.
LEMMA NameValid ==
  ASSUME NEW text \in Text, readUnitSocketName(text) # NoText
  PROVE  validateSocketName(readUnitSocketName(text))
<1> DEFINE named == {i \in Keys(text, NameKey) : validateSocketName(Value(text, i))}
<1>1. readUnitSocketName(text) = IF named = {} THEN NoText ELSE Value(text, Min(named))
  BY Zenon DEF readUnitSocketName
<1>2. named \in SUBSET Nat
  <2>1. DOMAIN text = 1..Len(text) /\ Len(text) \in Nat
    BY LenProperties DEF Text
  <2> QED BY <2>1 DEF Keys
<1>3. \A i \in named : validateSocketName(Value(text, i))
  OBVIOUS
<1> HIDE DEF named
<1>4. named # {}
  BY <1>1
<1>5. Min(named) \in named
  BY <1>2, <1>4, MinIn
<1>6. readUnitSocketName(text) = Value(text, Min(named))
  BY <1>1, <1>4
<1> QED BY <1>3, <1>5, <1>6

-----------------------------------------------------------------------------
(* What holds of every state.                                               *)

\* What has been let through, by the time it is used.
Accepted == pc \notin {"args", "exited"} => validateServiceConfig(request)

\* An absolute executable, then the arguments of the command line.
Resolved == pc \in {"render", "installed", "read"} =>
           /\ self \in Paths /\ child \in Seq(Text) /\ child # <<>>
           /\ IsAbs(child[1]) /\ Tail(child) = request.args

\* No value that is written has a line end.
Checked == pc \in {"installed", "read"} =>
             validateUnitValue(self) /\ \A value \in ToSet(child) : validateUnitValue(value)

\* The unit file is the rendered one until somebody edits it.
AsRendered ==
  /\ unit \in Text
  /\ pc \in {"args", "resolve", "render", "exited"} => unit = NoText
  /\ (pc \in {"installed", "read"} /\ ~edited) => unit = renderServiceUnit(self, request.name, child)

\* What the readers answered is what the file says now.
Answered == pc = "read" => argv = ExecStart(unit) /\ known = readUnitSocketName(unit)

\* A failure ends the command.
Codes ==
  /\ self \in {NoText} \cup Paths
  /\ code \in {ExitOK, ExitUsage, ExitNotFound}
  /\ code # ExitOK => pc = "exited"

\* The inductive invariant.
UInv ==
  /\ request \in Requests
  /\ pc \in {"args", "resolve", "render", "installed", "read", "exited"}
  /\ Accepted /\ Resolved /\ Checked /\ AsRendered /\ Answered /\ Codes

\* The invariant holds before anything was done, ...
LEMMA UInitially == Init => UInv
<1> SUFFICES ASSUME Init PROVE UInv
  OBVIOUS
<1>1. NoText \in Text
  BY DEF NoText, Text
<1> QED BY <1>1 DEF Init, UInv, Accepted, Resolved, Checked, AsRendered, Answered, Codes, ExitOK

\* A failure leaves nothing but the code.
LEMMA UFails ==
  ASSUME UInv, pc \in {"args", "resolve", "render"}, NEW c \in {ExitUsage, ExitNotFound}, Fails(Error(c))
  PROVE  UInv'
<1>1. /\ pc' = "exited" /\ code' = c
      /\ UNCHANGED <<request, self, child, unit, argv, known, edited>>
  BY DEF Fails, Error, exitCode
<1>2. c \in {ExitOK, ExitUsage, ExitNotFound}
  OBVIOUS
<1>3. request' \in Requests /\ Accepted' /\ Resolved' /\ Checked' /\ Answered'
  BY <1>1 DEF UInv, Accepted, Resolved, Checked, Answered
<1>4. AsRendered'
  BY <1>1 DEF UInv, AsRendered
<1>5. Codes'
  BY <1>1, <1>2 DEF UInv, Codes
<1> QED BY <1>1, <1>3, <1>4, <1>5 DEF UInv

\* ... validateServiceConfig keeps it, ...
LEMMA UValidate == UInv /\ Validate => UInv'
<1> SUFFICES ASSUME UInv, Validate PROVE UInv'
  OBVIOUS
<1>1. CASE validateServiceConfig(request)
  <2>1. pc = "args" /\ pc' = "resolve"
        /\ UNCHANGED <<request, self, child, unit, argv, known, edited, code>>
    BY <1>1 DEF Validate
  <2> QED BY <1>1, <2>1 DEF UInv, Accepted, Resolved, Checked, AsRendered, Answered, Codes
<1>2. CASE ~validateServiceConfig(request)
  BY <1>2, UFails DEF Validate
<1> QED BY <1>1, <1>2

\* A sequence with one member put before it.
LEMMA Ahead ==
  ASSUME NEW S, NEW c \in S, NEW t \in Seq(S)
  PROVE  /\ <<c>> \o t \in Seq(S) /\ <<c>> \o t # <<>>
         /\ (<<c>> \o t)[1] = c /\ Tail(<<c>> \o t) = t
<1> DEFINE g == <<c>>
           u == g \o t
<1>1. g \in Seq(S) /\ Len(g) = 1 /\ g[1] = c
  OBVIOUS
<1> HIDE DEF g
<1> DEFINE l == 1
<1>2. l \in Nat /\ l = Len(g)
  BY <1>1
<1> HIDE DEF l
<1>3. /\ u \in Seq(S) /\ Len(u) = l + Len(t) /\ Len(t) \in Nat
      /\ \A i \in 1..l : u[i] = g[i]
      /\ \A i \in 1..Len(t) : u[i + l] = t[i]
  <2>1. g \in Seq(S) /\ u = g \o t
    BY <1>1
  <2> HIDE DEF u
  <2> QED BY <1>2, <2>1, Splice
<1> HIDE DEF u
<1>4. u[1] = c /\ Len(u) = 1 + Len(t) /\ \A i \in 1..Len(t) : u[i + 1] = t[i]
  BY <1>1, <1>3 DEF l
<1>5. u # <<>>
  <2>1. Len(u) # 0
    BY <1>3, <1>4
  <2>2. Len(<<>>) = 0
    OBVIOUS
  <2> QED BY <2>1, <2>2, Zenon
<1>6. Tail(u) = t
  <2>1. /\ Tail(u) \in Seq(S) /\ Len(Tail(u)) = Len(u) - 1
        /\ \A i \in 1..Len(Tail(u)) : Tail(u)[i] = u[i + 1]
    BY <1>3, <1>5, HeadTailProperties
  <2> DEFINE v == Tail(u)
  <2> HIDE DEF v
  <2>2. Len(v) = Len(t)
    BY <1>3, <1>4, <2>1 DEF v
  <2>3. \A i \in 1..Len(v) : v[i] = t[i]
    BY <1>4, <2>1, <2>2 DEF v
  <2>4. v \in Seq(S)
    BY <2>1 DEF v
  <2>5. v = t
    BY <2>2, <2>3, <2>4, SeqEqual
  <2> QED BY <2>5 DEF v
<1> QED BY <1>3, <1>4, <1>5, <1>6 DEF g, u

\* Whichever way a child is found, its path is absolute.
LEMMA ChildAbsolute ==
  ASSUME request \in Requests, NEW found \in BOOLEAN, NEW config, NEW path \in Paths,
         Child(found, config, path) # NoText
  PROVE  Child(found, config, path) \in Text /\ IsAbs(Child(found, config, path))
<1>1. path \in Text /\ IsAbs(path) /\ request.exe \in Text
  BY UnitFileAssumption
<1> DEFINE bridge    == request.exe = <<"pipeferry.exe">>
           names     == config = "names a file"
           bad       == config = "bad"
           absolute  == IsAbs(request.exe)
           c == CASE bridge /\ (found \/ names) -> path
                  [] bridge /\ ~found /\ bad -> NoText
                  [] absolute -> request.exe
                  [] OTHER -> IF found THEN path ELSE NoText
<1>2. Child(found, config, path) = c
  BY Zenon DEF Child
<1> HIDE DEF bridge, names, bad, absolute
<1>3. c = path \/ c = NoText \/ (c = request.exe /\ absolute)
  OBVIOUS
<1> HIDE DEF c
<1>4. c = path \/ (c = request.exe /\ IsAbs(request.exe))
  BY <1>2, <1>3 DEF absolute
<1> QED BY <1>1, <1>2, <1>4

\* ... the resolution of the two executables does, ...
LEMMA UResolve == UInv /\ Resolve => UInv'
<1> SUFFICES ASSUME UInv, Resolve PROVE UInv'
  OBVIOUS
<1>0. pc = "resolve"
  BY DEF Resolve
<1>1. CASE Fails(Error(ExitNotFound))
  BY <1>0, <1>1, UFails
<1>2. CASE \E found \in BOOLEAN, config \in {"missing", "bad", "names a file"},
              own \in Paths, path \in Paths :
               /\ Child(found, config, path) # NoText
               /\ self' = own
               /\ child' = <<Child(found, config, path)>> \o request.args
               /\ pc' = "render"
               /\ UNCHANGED <<request, unit, argv, known, edited, code>>
  <2>1. PICK found \in BOOLEAN, config \in {"missing", "bad", "names a file"},
             own \in Paths, path \in Paths :
               /\ Child(found, config, path) # NoText
               /\ self' = own
               /\ child' = <<Child(found, config, path)>> \o request.args
               /\ pc' = "render"
               /\ UNCHANGED <<request, unit, argv, known, edited, code>>
    BY <1>2
  <2> DEFINE c == Child(found, config, path)
  <2>2. c \in Text /\ IsAbs(c)
    BY <2>1, ChildAbsolute DEF UInv
  <2> HIDE DEF c
  <2>3. request.args \in Seq(Text)
    BY UnitFileAssumption DEF UInv
  <2>4. child' = <<c>> \o request.args
    BY <2>1 DEF c
  <2>5. /\ child' \in Seq(Text) /\ child' # <<>> /\ child'[1] = c /\ Tail(child') = request.args
    <3> DEFINE t == request.args
    <3>1. t \in Seq(Text)
      BY <2>3
    <3> HIDE DEF t
    <3>2. <<c>> \o t \in Seq(Text) /\ <<c>> \o t # <<>> /\ (<<c>> \o t)[1] = c /\ Tail(<<c>> \o t) = t
      BY <2>2, <3>1, Ahead
    <3> QED BY <2>4, <3>2 DEF t
  <2>6. Resolved'
    BY <2>1, <2>2, <2>5 DEF Resolved
  <2>7. request' \in Requests /\ Accepted' /\ Checked' /\ Answered'
    BY <1>0, <2>1 DEF UInv, Accepted, Checked, Answered
  <2>8. AsRendered'
    BY <1>0, <2>1 DEF UInv, AsRendered
  <2>9. Codes'
    BY <1>0, <2>1 DEF UInv, Codes
  <2> QED BY <2>1, <2>6, <2>7, <2>8, <2>9 DEF UInv
<1> QED BY <1>1, <1>2 DEF Resolve

\* What is rendered is made of values that were let through.
LEMMA SolidValues ==
  ASSUME request \in Requests, validateServiceConfig(request), self \in Paths, child \in Seq(Text),
         validateUnitValue(self), \A value \in ToSet(child) : validateUnitValue(value)
  PROVE  /\ self \in Seq(Solid) /\ IsAbs(self)
         /\ request.name \in Seq(Solid) /\ validateSocketName(request.name)
         /\ child \in Seq(Seq(Solid))
<1>1. self \in Text /\ IsAbs(self) /\ request.name \in Text
  BY UnitFileAssumption
<1>2. validateSocketName(request.name) /\ validateUnitValue(request.name)
  BY DEF validateServiceConfig, validateSocketName
<1>3. self \in Seq(Solid) /\ request.name \in Seq(Solid)
  BY <1>1, <1>2, SolidValue
<1>5. child \in [1..Len(child) -> Text] /\ Len(child) \in Nat /\ DOMAIN child = 1..Len(child)
  BY LenProperties
<1>6. ASSUME NEW i \in 1..Len(child) PROVE child[i] \in Seq(Solid)
  <2>1. child[i] \in Text /\ child[i] \in ToSet(child)
    BY <1>5 DEF ToSet
  <2> QED BY <2>1, SolidValue
<1>7. child \in [1..Len(child) -> Seq(Solid)]
  BY <1>5, <1>6
<1>8. child \in Seq(Seq(Solid))
  <2> DEFINE S == Seq(Solid)
  <2> HIDE DEF S
  <2>1. child \in [1..Len(child) -> S] /\ Len(child) \in Nat
    BY <1>5, <1>7 DEF S
  <2>2. child \in Seq(S)
    BY <2>1, SeqDef
  <2> QED BY <2>2 DEF S
<1> QED BY <1>1, <1>2, <1>3, <1>8

\* What is rendered is a text.
LEMMA RenderedText ==
  ASSUME NEW path \in Seq(Solid), NEW name \in Seq(Solid), NEW command \in Seq(Seq(Solid))
  PROVE  renderServiceUnit(path, name, command) \in Text
<1> DEFINE as == Arguments(path, name, command)
           line == Line(as)
<1>1. as \in Seq(Seq(Solid)) /\ as # <<>>
  BY ArgumentsSome
<1>2. renderServiceUnit(path, name, command) = Rendered(name, line)
  BY DEF renderServiceUnit, Rendered, Top, Middle, One, Line
<1> HIDE DEF as
<1>3. line \in Seq(Solid)
  BY <1>1, LineSolid
<1> HIDE DEF line
<1>4. name \in Seq(Symbols) /\ line \in Seq(Symbols)
  BY <1>3, SolidText DEF Text
<1>5. Framed(Rendered(name, line), Len(name), Len(line))
  BY <1>4, Layout
<1> QED BY <1>2, <1>5 DEF Framed, Text

\* ... rendering does, ...
LEMMA URender == UInv /\ Render => UInv'
<1> SUFFICES ASSUME UInv, Render PROVE UInv'
  OBVIOUS
<1>0. pc = "render"
  BY DEF Render
<1> DEFINE Good == /\ validateUnitValue(self) /\ validateUnitValue(request.name)
                   /\ \A value \in ToSet(child) : validateUnitValue(value)
<1>1. CASE Good
  <2>1. /\ unit' = renderServiceUnit(self, request.name, child) /\ pc' = "installed"
        /\ UNCHANGED <<request, self, child, argv, known, edited, code>>
    BY <1>1 DEF Render
  <2>2. request' \in Requests /\ Accepted' /\ Resolved' /\ Answered'
    BY <1>0, <2>1 DEF UInv, Accepted, Resolved, Answered
  <2>3. Checked'
    BY <1>1, <2>1 DEF Checked
  <2>4. unit' \in Text
    <3>1. request \in Requests /\ validateServiceConfig(request) /\ self \in Paths /\ child \in Seq(Text)
      BY <1>0 DEF UInv, Accepted, Resolved
    <3>2. self \in Seq(Solid) /\ request.name \in Seq(Solid) /\ child \in Seq(Seq(Solid))
      BY <1>1, <3>1, SolidValues
    <3> QED BY <2>1, <3>2, RenderedText
  <2>5. AsRendered'
    BY <2>1, <2>4 DEF AsRendered
  <2>6. Codes'
    BY <1>0, <2>1 DEF UInv, Codes
  <2> QED BY <2>1, <2>2, <2>3, <2>5, <2>6 DEF UInv
<1>2. CASE ~Good
  <2>1. Fails(Error(ExitUsage))
    BY <1>2 DEF Render
  <2> QED BY <1>0, <2>1, UFails
<1> QED BY <1>1, <1>2

\* ... so does somebody who edits the unit file, ...
LEMMA UEdit == UInv /\ Edit => UInv'
<1> SUFFICES ASSUME UInv, Edit PROVE UInv'
  OBVIOUS
<1>1. /\ pc = "installed" /\ edited' = TRUE
      /\ UNCHANGED <<request, pc, self, child, argv, known, code>>
  BY DEF Edit
<1>2. PICK name \in Edits : \E rest \in {NoText, unit} : unit' = ((<<NameKey>> \o name) \o <<"nl">>) \o rest
  BY DEF Edit
<1>3. PICK rest \in {NoText, unit} : unit' = ((One(NameKey) \o name) \o One("nl")) \o rest
  BY <1>2 DEF One
<1>4. unit' \in Text
  <2>1. name \in Seq(Symbols) /\ rest \in Seq(Symbols)
    <3>1. NoText \in Text /\ unit \in Text
      BY DEF NoText, Text, UInv, AsRendered
    <3> QED BY <3>1, UnitFileAssumption DEF Text
  <2>2. "nl" \in Symbols /\ NameKey \in Symbols
    BY DEF Symbols
  <2> DEFINE k == One(NameKey)
             e == One("nl")
  <2>3. k \in Seq(Symbols) /\ e \in Seq(Symbols)
    BY <2>2, TwoIn
  <2>4. unit' = ((k \o name) \o e) \o rest
    BY <1>3
  <2> HIDE DEF k, e
  <2>5. k \o name \in Seq(Symbols)
    BY <2>1, <2>3, ConcatProperties
  <2>6. (k \o name) \o e \in Seq(Symbols)
    BY <2>3, <2>5, ConcatProperties
  <2>7. ((k \o name) \o e) \o rest \in Seq(Symbols)
    BY <2>1, <2>6, ConcatProperties
  <2> QED BY <2>4, <2>7 DEF Text
<1>5. AsRendered'
  BY <1>1, <1>4 DEF AsRendered
<1>6. request' \in Requests /\ Accepted' /\ Resolved' /\ Checked' /\ Answered' /\ Codes'
  BY <1>1 DEF UInv, Accepted, Resolved, Checked, Answered, Codes
<1> QED BY <1>1, <1>5, <1>6 DEF UInv

\* ... so does reading it, ...
LEMMA URead == UInv /\ Read => UInv'
<1> SUFFICES ASSUME UInv, Read PROVE UInv'
  OBVIOUS
<1>1. /\ pc = "installed" /\ pc' = "read"
      /\ argv' = ExecStart(unit) /\ known' = readUnitSocketName(unit)
      /\ UNCHANGED <<request, self, child, unit, edited, code>>
  BY DEF Read
<1>2. request' \in Requests /\ Accepted' /\ Resolved' /\ Checked' /\ Codes'
  BY <1>1 DEF UInv, Accepted, Resolved, Checked, Codes
<1>3. AsRendered' /\ Answered'
  BY <1>1 DEF UInv, AsRendered, Answered
<1> QED BY <1>1, <1>2, <1>3 DEF UInv

\* ... and a stutter.
LEMMA UStays == UInv /\ UNCHANGED vars => UInv'
BY DEF UInv, vars, Accepted, Resolved, Checked, AsRendered, Answered, Codes

\* UInv holds of every state of any run.
LEMMA UInvariant == Spec => []UInv
<1>1. UInv /\ [Next]_vars => UInv'
  BY UValidate, UResolve, URender, UEdit, URead, UStays DEF Next
<1> QED BY UInitially, <1>1, PTL DEF Spec

\* The types; and an install that fails in its validation, its look-ups or the
\* validation of what they found (service_linux.go) has written no unit.
THEOREM TypesHold == Spec => []TypeOK
<1>1. UInv => TypeOK
  BY DEF UInv, TypeOK, Codes, AsRendered
<1> QED BY UInvariant, <1>1, PTL

\* Whatever the names, paths and arguments are made of, and however long they are,
\* what systemd starts from the unit file that install has written is what install
\* was asked for, unless pipeferry's own path is one that systemd refuses:
\* renderServiceUnit and quoteSystemdArgument against a reader of quotes, escapes and
\* specifiers.
THEOREM ArgumentsComeBack == Spec => []ArgvSaved
<1>1. UInv => ArgvSaved
  <2> SUFFICES ASSUME UInv, pc = "read", ~edited
               PROVE  /\ ~Executable(self) => argv = Bad
                      /\ Executable(self) =>
                          /\ IsArgv
                          /\ argv[1] = self
                          /\ argv[4] = <<"RUNTIME", "/", "pipeferry", "/">> \o request.name
                          /\ IsAbs(child[1])
                          /\ \A k \in DOMAIN child : argv[6 + k] = Runtime(child[k])
                          /\ Tail(child) = request.args
    BY DEF ArgvSaved
  <2>1. /\ request \in Requests /\ validateServiceConfig(request) /\ self \in Paths
        /\ child \in Seq(Text) /\ child # <<>> /\ IsAbs(child[1]) /\ Tail(child) = request.args
        /\ validateUnitValue(self) /\ \A value \in ToSet(child) : validateUnitValue(value)
    BY DEF UInv, Accepted, Resolved, Checked
  <2>2. /\ self \in Seq(Solid) /\ IsAbs(self)
        /\ request.name \in Seq(Solid) /\ validateSocketName(request.name)
        /\ child \in Seq(Seq(Solid))
    BY <2>1, SolidValues
  <2>3. argv = ExecStart(renderServiceUnit(self, request.name, child))
    BY DEF UInv, AsRendered, Answered
  <2>4. child # <<>>
    BY <2>1
  <2>5. PICK words : BackAs(words, self, request.name, child) /\ argv = Loaded(words)
    BY <2>2, <2>3, <2>4, ArgvReadBack
  <2>6. words # Bad /\ words[1] = self
    BY <2>5 DEF BackAs
  <2>7. argv = IF Executable(self) THEN words ELSE Bad
    BY <2>5, <2>6 DEF Loaded
  <2>8. CASE Executable(self)
    BY <2>1, <2>5, <2>7, <2>8 DEF IsArgv, BackAs
  <2>9. CASE ~Executable(self)
    BY <2>7, <2>9
  <2> QED BY <2>8, <2>9
<1> QED BY UInvariant, <1>1, PTL

\* The name that `service status` and `service uninstall` find in the unit file
\* (readUnitSocketName) is the one of the installation, and in a file that was
\* edited it is still a file directly in the directory of the sockets, or none.
THEOREM NamesAreKnown == Spec => []NameKnown
<1>1. UInv => NameKnown
  <2> SUFFICES ASSUME UInv, pc = "read" PROVE
                 /\ ~edited => known = request.name
                 /\ known # NoText =>
                      ToSet(known) \cap {"/", "\\", "nl"} = {} /\ known \notin {<<".">>, <<".", ".">>}
    BY DEF NameKnown
  <2>1. unit \in Text /\ known = readUnitSocketName(unit)
    BY DEF UInv, AsRendered, Answered
  <2>2. ASSUME ~edited PROVE known = request.name
    <3>1. /\ request \in Requests /\ validateServiceConfig(request) /\ self \in Paths
          /\ child \in Seq(Text)
          /\ validateUnitValue(self) /\ \A value \in ToSet(child) : validateUnitValue(value)
      BY DEF UInv, Accepted, Resolved, Checked
    <3>2. /\ self \in Seq(Solid) /\ request.name \in Seq(Solid) /\ validateSocketName(request.name)
          /\ child \in Seq(Seq(Solid))
      BY <3>1, SolidValues
    <3>3. unit = renderServiceUnit(self, request.name, child)
      BY <2>2 DEF UInv, AsRendered
    <3>4. readUnitSocketName(renderServiceUnit(self, request.name, child)) = request.name
      BY <3>2, UnitReadBack
    <3> QED BY <2>1, <3>3, <3>4
  <2>3. ASSUME known # NoText
        PROVE  ToSet(known) \cap {"/", "\\", "nl"} = {} /\ known \notin {<<".">>, <<".", ".">>}
    <3>1. validateSocketName(known)
      BY <2>1, <2>3, NameValid
    <3>2. ToSet(known) \cap {"/", "\\"} = {} /\ "nl" \notin ToSet(known) /\ known \notin {<<".">>, <<".", ".">>}
      BY <3>1 DEF validateSocketName, validateUnitValue
    <3> QED BY <3>2
  <2> QED BY <2>2, <2>3
<1> QED BY UInvariant, <1>1, PTL
=============================================================================
