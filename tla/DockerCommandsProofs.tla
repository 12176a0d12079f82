------------------------ MODULE DockerCommandsProofs ------------------------
(***************************************************************************)
(* Proofs about DockerCommands, for texts of every length over any         *)
(* symbols: a shell reads what the builders render as what they mean, and  *)
(* the paths they join lead where they should.                             *)
(*                                                                         *)
(* Both are shown by induction over texts, with the property at hand as    *)
(* the set of the texts that have it (SeqInduct, which rests on the order  *)
(* of the naturals being well-founded).  A fold and a flattening are first *)
(* shown to have a trace, from which it follows what one more symbol does  *)
(* to them.  What the reader does with a text does not depend on the words *)
(* it has finished before (ReadFramed), so that the tokens of a command    *)
(* and the parts of a path can be taken one by one.                        *)
(***************************************************************************)
EXTENDS DockerCommands, SequenceTheorems, WellFoundedInduction, TLAPS

-----------------------------------------------------------------------------
(* Induction and folds.                                                    *)

LEMMA Least ==
  ASSUME NEW I \in SUBSET Nat, I # {}
  PROVE  Min(I) \in I /\ \A y \in I : Min(I) <= y
  <1>1. \E x \in I : \A y \in I : ~(<<y, x>> \in OpToRel(<, Nat))
    BY NatLessThanWellFounded, WFMin
  <1>2. ASSUME NEW x \in Nat, NEW y \in Nat, y < x
        PROVE  <<y, x>> \in OpToRel(<, Nat)
    <2> DEFINE p == <<y, x>>
    <2>1. p \in Nat \X Nat /\ p[1] < p[2]
      BY <1>2
    <2> HIDE DEF p
    <2>2. p \in {q \in Nat \X Nat : q[1] < q[2]}
      BY <2>1
    <2>3. OpToRel(<, Nat) = {q \in Nat \X Nat : q[1] < q[2]}
      BY Zenon DEF OpToRel
    <2> QED BY <2>2, <2>3, Zenon DEF p
  <1>3. \E x \in I : \A y \in I : x <= y
    <2>1. PICK x \in I : \A y \in I : ~(<<y, x>> \in OpToRel(<, Nat))
      BY <1>1, Zenon
    <2>2. ASSUME NEW y \in I
          PROVE  x <= y
      <3>1. x \in Nat /\ y \in Nat
        OBVIOUS
      <3>2. ~(y < x)
        BY <1>2, <2>1, <3>1, Zenon
      <3> QED BY <3>1, <3>2
    <2> QED BY <2>2
  <1> QED BY <1>3 DEF Min

LEMMA Greatest ==
  ASSUME NEW n \in Nat, NEW I \in SUBSET (1 .. n), I # {}
  PROVE  Max(I) \in I /\ \A y \in I : y <= Max(I)
  <1> DEFINE J == {n - i : i \in I}
  <1>1. J \in SUBSET Nat /\ J # {}
    <2>1. \A i \in I : n - i \in Nat
      OBVIOUS
    <2>2. PICK i \in I : TRUE
      OBVIOUS
    <2>3. n - i \in J
      OBVIOUS
    <2>4. \A j \in J : j \in Nat
      BY <2>1
    <2> HIDE DEF J
    <2> QED BY <2>3, <2>4
  <1> HIDE DEF J
  <1>2. Min(J) \in J /\ \A y \in J : Min(J) <= y
    BY <1>1, Least
  <1>3. PICK x \in I : Min(J) = n - x
    BY <1>2 DEF J
  <1>4. ASSUME NEW y \in I
        PROVE  y <= x
    <2>1. n - y \in J
      BY DEF J
    <2>2. n - x <= n - y
      BY <1>2, <1>3, <2>1
    <2> QED BY <2>2
  <1> QED BY <1>4 DEF Max

(* Induction, with the property as a set.                                  *)
LEMMA NatInduct ==
  ASSUME NEW I \in SUBSET Nat, 0 \in I, \A n \in I : n + 1 \in I
  PROVE  \A n \in Nat : n \in I
  <1> DEFINE J == Nat \ I
  <1>1. SUFFICES ASSUME J # {} PROVE FALSE
    OBVIOUS
  <1>2. Min(J) \in J /\ \A y \in J : Min(J) <= y
    BY <1>1, Least
  <1>3. Min(J) \in Nat /\ Min(J) # 0 /\ Min(J) \notin I
    BY <1>2
  <1>4. Min(J) - 1 \in Nat /\ ~(Min(J) <= Min(J) - 1)
    BY <1>3
  <1>5. Min(J) - 1 \in I
    BY <1>2, <1>4
  <1> QED BY <1>3, <1>5

LEMMA SeqInduct ==
  ASSUME NEW S, NEW I \in SUBSET Seq(S), <<>> \in I, \A s \in I, c \in S : Append(s, c) \in I
  PROVE  \A s \in Seq(S) : s \in I
  <1> DEFINE K == {n \in Nat : \A s \in Seq(S) : Len(s) = n => s \in I}
  <1>1. 0 \in K
    BY \A s \in Seq(S) : Len(s) = 0 => s = <<>>
  <1>2. ASSUME NEW n \in K
        PROVE  n + 1 \in K
    <2>1. ASSUME NEW s \in Seq(S), Len(s) = n + 1
          PROVE  s \in I
      <3>1. PICK t \in Seq(S), c \in S : s = Append(t, c)
        <4>1. s # <<>>
          BY <2>1
        <4> QED BY <4>1, SequenceEmptyOrAppend
      <3>2. Len(t) \in Nat /\ Len(s) = Len(t) + 1
        BY <3>1
      <3>3. Len(t) = n
        BY <2>1, <3>2
      <3> QED BY <3>1, <3>3
    <2> QED BY <2>1
  <1>3. \A n \in Nat : n \in K
    <2> HIDE DEF K
    <2>1. K \in SUBSET Nat
      BY DEF K
    <2> QED BY <1>1, <1>2, <2>1, NatInduct
  <1> QED BY <1>3

(* A fold that takes the greatest index first has a value for every set.   *)
Folded(base, step, n, g) ==
  \A s \in SUBSET (1 .. n) : g[s] = IF s = {} THEN base ELSE step[Max(s)][g[s \ {Max(s)}]]

LEMMA FoldExists ==
  ASSUME NEW V, NEW base \in V, NEW len \in Nat, NEW step \in [1 .. len -> [V -> V]]
  PROVE  \E g \in [SUBSET (1 .. len) -> V] : Folded(base, step, len, g)
  <1> DEFINE Holds(n) == \E g \in [SUBSET (1 .. n) -> V] : Folded(base, step, n, g)
             I == {n \in Nat : n <= len => Holds(n)}
  <1>1. 0 \in I
    <2> DEFINE g == [s \in SUBSET (1 .. 0) |-> base]
    <2>1. g \in [SUBSET (1 .. 0) -> V]
      OBVIOUS
    <2>2. \A s \in SUBSET (1 .. 0) : s = {} /\ g[s] = base
      OBVIOUS
    <2> HIDE DEF g
    <2>3. Folded(base, step, 0, g)
      BY <2>2 DEF Folded
    <2>4. Holds(0)
      BY <2>1, <2>3
    <2> HIDE DEF Holds
    <2> QED BY <2>4
  <1>2. ASSUME NEW n \in I
        PROVE  n + 1 \in I
    <2> HIDE DEF Holds
    <2> SUFFICES ASSUME n + 1 <= len
                 PROVE  Holds(n + 1)
      OBVIOUS
    <2>0. n \in Nat /\ n <= len /\ n + 1 \in 1 .. len /\ Holds(n)
      OBVIOUS
    <2> USE DEF Holds
    <2>1. PICK g \in [SUBSET (1 .. n) -> V] : Folded(base, step, n, g)
      BY <2>0
    <2> HIDE DEF I
    <2> DEFINE h == [s \in SUBSET (1 .. n + 1) |->
                        IF n + 1 \in s THEN step[n + 1][g[s \ {n + 1}]] ELSE g[s]]
    <2>2. ASSUME NEW s \in SUBSET (1 .. n + 1)
          PROVE  /\ s \ {n + 1} \in SUBSET (1 .. n)
                 /\ n + 1 \notin s => s \in SUBSET (1 .. n)
                 /\ n + 1 \in s => Max(s) = n + 1
                 /\ n + 1 \notin s /\ s # {} => n + 1 \notin s \ {Max(s)}
      <3>1. \A i \in s : i # n + 1 => i \in 1 .. n
        BY <2>0
      <3>2. n + 1 \in s => Max(s) = n + 1
        <4>1. \A i \in s : i <= n + 1
          BY <2>0
        <4>2. s # {} => Max(s) \in s /\ \A y \in s : y <= Max(s)
          <5>1. n + 1 \in Nat /\ s \in SUBSET (1 .. (n + 1))
            BY <2>0
          <5> QED BY <5>1, Greatest
        <4>3. \A y \in s : y \in Nat
          <5>1. \A y \in 1 .. (n + 1) : y \in Nat
            BY <2>0
          <5> QED BY <5>1
        <4>4. ASSUME n + 1 \in s
              PROVE  Max(s) = n + 1
          <5> DEFINE m == Max(s)
          <5>1. m \in Nat /\ m <= n + 1 /\ n + 1 <= m
            BY <4>1, <4>2, <4>3, <4>4
          <5> HIDE DEF m
          <5>2. m = n + 1
            BY <2>0, <5>1
          <5> QED BY <5>2 DEF m
        <4> QED BY <4>4
      <3> QED BY <3>1, <3>2
    <2>3. h \in [SUBSET (1 .. n + 1) -> V]
      <3>1. ASSUME NEW s \in SUBSET (1 .. n + 1)
            PROVE  (IF n + 1 \in s THEN step[n + 1][g[s \ {n + 1}]] ELSE g[s]) \in V
        BY <2>0, <2>2
      <3> QED BY <3>1
    <2>4. ASSUME NEW s \in SUBSET (1 .. n + 1)
          PROVE  h[s] = IF s = {} THEN base ELSE step[Max(s)][h[s \ {Max(s)}]]
      <3>1. CASE n + 1 \in s
        <4>1. s \ {n + 1} \in SUBSET (1 .. n + 1) /\ n + 1 \notin s \ {n + 1}
          OBVIOUS
        <4>2. h[s] = step[n + 1][g[s \ {n + 1}]] /\ h[s \ {n + 1}] = g[s \ {n + 1}]
          BY <3>1, <4>1
        <4> HIDE DEF h
        <4> QED BY <2>2, <3>1, <4>2
      <3>2. CASE n + 1 \notin s
        <4>1. s \ {Max(s)} \in SUBSET (1 .. n + 1) /\ s \in SUBSET (1 .. n)
          BY <2>2, <3>2
        <4>2. h[s] = g[s]
          BY <3>2
        <4>3. h[s \ {Max(s)}] = g[s \ {Max(s)}]
          BY <3>2, <4>1
        <4> HIDE DEF h
        <4> QED BY <2>1, <4>1, <4>2, <4>3 DEF Folded
      <3> QED BY <3>1, <3>2
    <2> HIDE DEF h
    <2>5. Folded(base, step, n + 1, h)
      BY <2>4 DEF Folded
    <2> QED BY <2>3, <2>5
  <1>3. \A n \in Nat : n \in I
    <2>1. I \in SUBSET Nat
      OBVIOUS
    <2> HIDE DEF I
    <2> QED BY <1>1, <1>2, <2>1, NatInduct
  <1>4. Holds(len)
    <2> HIDE DEF Holds
    <2> QED BY <1>3
  <1> QED BY <1>4

LEMMA Segments ==
  ASSUME NEW len \in Nat, NEW i \in 1 .. len
  PROVE  /\ 1 .. i # {} /\ 1 .. i \in SUBSET (1 .. len) /\ i - 1 \in 0 .. len
         /\ Max(1 .. i) = i /\ (1 .. i) \ {i} = 1 .. (i - 1)
  <1>1. i \in Nat /\ 1 <= i /\ i <= len /\ i - 1 \in 0 .. len
    OBVIOUS
  <1>2. i \in 1 .. i /\ \A j \in 1 .. i : j \in 1 .. len
    BY <1>1
  <1>3. Max(1 .. i) \in 1 .. i /\ \A y \in 1 .. i : y <= Max(1 .. i)
    BY <1>1, <1>2, Greatest
  <1>4. Max(1 .. i) = i
    BY <1>1, <1>2, <1>3
  <1>5. (1 .. i) \ {i} = 1 .. (i - 1)
    BY <1>1
  <1> QED BY <1>1, <1>2, <1>4, <1>5

(* What holds at the start and is handed on from place to place.           *)
LEMMA Inherited ==
  ASSUME NEW len \in Nat, NEW f, NEW V, f[0] \in V,
         \A i \in 1 .. len : f[i - 1] \in V => f[i] \in V
  PROVE  \A i \in 0 .. len : f[i] \in V
  <1> DEFINE I == {n \in Nat : n <= len => f[n] \in V}
  <1>1. 0 \in I
    OBVIOUS
  <1>2. ASSUME NEW n \in I
        PROVE  n + 1 \in I
    <2>1. SUFFICES ASSUME n + 1 <= len PROVE f[n + 1] \in V
      OBVIOUS
    <2>2. n \in Nat /\ n + 1 \in 1 .. len /\ f[n] \in V /\ (n + 1) - 1 = n
      BY <2>1
    <2> QED BY <2>2
  <1>3. \A n \in Nat : n \in I
    <2>1. I \in SUBSET Nat
      OBVIOUS
    <2> HIDE DEF I
    <2> QED BY <1>1, <1>2, <2>1, NatInduct
  <1> QED BY <1>3

-----------------------------------------------------------------------------
(* What the reader is and how it steps.                                    *)

(* The readings of texts over a set of symbols, and reading a whole line.  *)
Read(st, line) == FoldLeft(ReadSymbol, st, line)

Modes == {"plain", "quote", "escape", "path"}
Said(S) == [operator: BOOLEAN, text: Seq(S)]
Reader(S) == [mode: Modes, open: BOOLEAN, word: Seq(S), words: Seq(Said(S))]

(* The blank is none of the signs that mean something else to the reader.  *)
LEMMA SpaceSymbol == Space # "'" /\ Space # "\\" /\ Space \notin Operators /\ Space # "/"
  BY Zenon DEF Space, Operators

LEMMA ReadingFields ==
  ASSUME NEW mode, NEW open, NEW word, NEW words
  PROVE  /\ Reading(mode, open, word, words).mode = mode
         /\ Reading(mode, open, word, words).open = open
         /\ Reading(mode, open, word, words).word = word
         /\ Reading(mode, open, word, words).words = words
  BY DEF Reading

LEMMA ReadingType ==
  ASSUME NEW S, NEW mode \in Modes, NEW open \in BOOLEAN,
         NEW word \in Seq(S), NEW words \in Seq(Said(S))
  PROVE  Reading(mode, open, word, words) \in Reader(S)
  BY DEF Reading, Reader

LEMMA ReaderFields ==
  ASSUME NEW S, NEW st \in Reader(S)
  PROVE  /\ st.mode \in Modes /\ st.open \in BOOLEAN
         /\ st.word \in Seq(S) /\ st.words \in Seq(Said(S))
         /\ st = Reading(st.mode, st.open, st.word, st.words)
  BY DEF Reader, Reading

LEMMA AppendType ==
  ASSUME NEW T, NEW s \in Seq(T), NEW c \in T
  PROVE  Append(s, c) \in Seq(T)
  OBVIOUS

LEMMA WordTypes ==
  ASSUME NEW S
  PROVE  /\ <<>> \in Seq(S) /\ <<>> \in Seq(Said(S))
         /\ \A text \in Seq(S) : Word(text) \in Said(S)
         /\ \A c \in S : Operator(<<c>>) \in Said(S)
  BY DEF Word, Operator, Said

LEMMA BetweenType ==
  ASSUME NEW S, NEW words \in Seq(Said(S))
  PROVE  Between(words) \in Reader(S) /\ Blank \in Reader(S)
  BY WordTypes, ReadingType DEF Between, Blank, Modes

LEMMA CloseType ==
  ASSUME NEW S, NEW st \in Reader(S)
  PROVE  Close(st) \in Reader(S)
  <1>1. st.words \in Seq(Said(S)) /\ Word(st.word) \in Said(S)
    BY ReaderFields, WordTypes
  <1>2. Append(st.words, Word(st.word)) \in Seq(Said(S))
    BY <1>1, AppendType
  <1>3. st.mode \in Modes /\ <<>> \in Seq(S)
    BY ReaderFields, WordTypes
  <1> QED BY <1>2, <1>3, ReadingType DEF Close

LEMMA TakeType ==
  ASSUME NEW S, NEW st \in Reader(S), NEW c \in S
  PROVE  Take(st, c) \in Reader(S)
  <1>1. /\ Append(st.word, c) \in Seq(S) /\ st.words \in Seq(Said(S))
        /\ (IF st.mode = "escape" THEN "plain" ELSE st.mode) \in Modes
    BY ReaderFields, AppendType DEF Modes
  <1> QED BY <1>1, ReadingType DEF Take

LEMMA SymbolType ==
  ASSUME NEW S, NEW st \in Reader(S), NEW c \in S
  PROVE  ReadSymbol(st, c) \in Reader(S)
  <1>1. Close(st) \in Reader(S) /\ Take(st, c) \in Reader(S)
    BY CloseType, TakeType
  <1>2. Between(Append(Close(st).words, Operator(<<c>>))) \in Reader(S)
    <2>1. Close(st).words \in Seq(Said(S)) /\ Operator(<<c>>) \in Said(S)
      BY <1>1, ReaderFields, WordTypes
    <2>2. Append(Close(st).words, Operator(<<c>>)) \in Seq(Said(S))
      BY <2>1, AppendType
    <2> QED BY <2>2, BetweenType
  <1>3. /\ Reading("plain", st.open, st.word, st.words) \in Reader(S)
        /\ Reading("escape", st.open, st.word, st.words) \in Reader(S)
        /\ Reading("quote", TRUE, st.word, st.words) \in Reader(S)
    BY ReaderFields, ReadingType DEF Modes
  <1> QED BY <1>1, <1>2, <1>3 DEF ReadSymbol, Operators

(* The states of the reader between the symbols of a line.                 *)
LEMMA ReadTrace ==
  ASSUME NEW S, NEW st \in Reader(S), NEW line \in Seq(S)
  PROVE  \E f \in [0 .. Len(line) -> Reader(S)] :
            /\ f[0] = st /\ f[Len(line)] = Read(st, line)
            /\ \A i \in 1 .. Len(line) : f[i] = ReadSymbol(f[i - 1], line[i])
  <1> DEFINE V == Reader(S)
             len == Len(line)
             step == [i \in 1 .. len |-> [v \in V |-> ReadSymbol(v, line[i])]]
             Unwound(it) ==
               it = [s \in SUBSET DOMAIN line |->
                       IF s = {} THEN st ELSE ReadSymbol(it[s \ {Max(s)}], line[Max(s)])]
  <1>1. Read(st, line) = (CHOOSE it : Unwound(it))[DOMAIN line]
    BY DEF Read, FoldLeft, MapThenFoldSet
  <1>2. len \in Nat /\ DOMAIN line = 1 .. len /\ \A i \in 1 .. len : line[i] \in S
    OBVIOUS
  <1> HIDE DEF V, len
  <1>3. step \in [1 .. len -> [V -> V]]
    BY <1>2, SymbolType DEF V
  <1>4. \A i \in 1 .. len, v \in V : step[i][v] = ReadSymbol(v, line[i])
    OBVIOUS
  <1> HIDE DEF step
  <1>5. PICK g \in [SUBSET (1 .. len) -> V] : Folded(st, step, len, g)
    BY <1>2, <1>3, FoldExists DEF V
  <1>6. ASSUME NEW s \in SUBSET (1 .. len), s # {}
        PROVE  Max(s) \in 1 .. len /\ s \ {Max(s)} \in SUBSET (1 .. len)
    BY <1>2, <1>6, Greatest
  <1>7. \A s \in SUBSET DOMAIN line :
           g[s] = IF s = {} THEN st ELSE ReadSymbol(g[s \ {Max(s)}], line[Max(s)])
    BY <1>2, <1>4, <1>5, <1>6 DEF Folded
  <1>8. Unwound(g)
    BY <1>2, <1>5, <1>7
  <1>9. PICK h : Unwound(h) /\ Read(st, line) = h[DOMAIN line]
    BY <1>1, <1>8
  <1> DEFINE f == [i \in 0 .. len |-> h[1 .. i]]
  <1>10. f[0] = st /\ f[len] = Read(st, line)
    <2>1. 1 .. 0 = {} /\ {} \in SUBSET DOMAIN line
      OBVIOUS
    <2>2. h[{}] = st
      BY <1>9, <2>1
    <2>3. 0 \in 0 .. len /\ len \in 0 .. len
      BY <1>2
    <2> QED BY <1>2, <1>9, <2>1, <2>2, <2>3
  <1>11. ASSUME NEW i \in 1 .. len
         PROVE  f[i] = ReadSymbol(f[i - 1], line[i])
    <2>1. /\ 1 .. i # {} /\ 1 .. i \in SUBSET DOMAIN line /\ i \in 0 .. len /\ i - 1 \in 0 .. len
          /\ Max(1 .. i) = i /\ (1 .. i) \ {i} = 1 .. (i - 1)
      BY <1>2, Segments
    <2>2. h[1 .. i] = ReadSymbol(h[1 .. (i - 1)], line[i])
      BY <1>9, <2>1
    <2> QED BY <2>1, <2>2
  <1> HIDE DEF f, Unwound
  <1>12. \A i \in 0 .. len : f[i] \in V
    <2>1. f[0] \in V
      BY <1>10 DEF V
    <2>2. \A i \in 1 .. len : f[i - 1] \in V => f[i] \in V
      BY <1>2, <1>11, SymbolType DEF V
    <2> QED BY <1>2, <2>1, <2>2, Inherited
  <1>13. f \in [0 .. len -> V]
    BY <1>12 DEF f
  <1> QED BY <1>10, <1>11, <1>13 DEF V, len

LEMMA ReadType ==
  ASSUME NEW S, NEW st \in Reader(S), NEW line \in Seq(S)
  PROVE  Read(st, line) \in Reader(S)
  <1>1. Len(line) \in 0 .. Len(line)
    OBVIOUS
  <1> QED BY <1>1, ReadTrace

LEMMA ReadEmpty ==
  ASSUME NEW S, NEW st \in Reader(S)
  PROVE  Read(st, <<>>) = st
  <1>1. ASSUME NEW line \in Seq(S), Len(line) = 0
        PROVE  Read(st, line) = st
    <2>1. PICK f \in [0 .. Len(line) -> Reader(S)] :
              /\ f[0] = st /\ f[Len(line)] = Read(st, line)
              /\ \A i \in 1 .. Len(line) : f[i] = ReadSymbol(f[i - 1], line[i])
      BY ReadTrace
    <2> QED BY <1>1, <2>1
  <1>2. <<>> \in Seq(S) /\ Len(<<>>) = 0
    OBVIOUS
  <1> QED BY <1>1, <1>2

(* One more symbol is one more step.                                       *)
LEMMA ReadAppend ==
  ASSUME NEW S, NEW st \in Reader(S), NEW line \in Seq(S), NEW c \in S
  PROVE  Read(st, Append(line, c)) = ReadSymbol(Read(st, line), c)
  <1> DEFINE longer == Append(line, c)
             len == Len(line)
  <1>1. /\ longer \in Seq(S) /\ len \in Nat /\ Len(longer) = len + 1 /\ longer[len + 1] = c
        /\ \A i \in 1 .. len : longer[i] = line[i]
    BY AppendProperties
  <1> HIDE DEF longer
  <1>2. PICK f \in [0 .. len -> Reader(S)] :
            /\ f[0] = st /\ f[len] = Read(st, line)
            /\ \A i \in 1 .. len : f[i] = ReadSymbol(f[i - 1], line[i])
    BY ReadTrace
  <1> HIDE DEF len
  <1>3. PICK g \in [0 .. (len + 1) -> Reader(S)] :
            /\ g[0] = st /\ g[len + 1] = Read(st, longer)
            /\ \A i \in 1 .. (len + 1) : g[i] = ReadSymbol(g[i - 1], longer[i])
    BY <1>1, ReadTrace
  <1> DEFINE I == {n \in Nat : n <= len => f[n] = g[n]}
  <1>4. 0 \in I
    BY <1>2, <1>3
  <1>5. ASSUME NEW n \in I
        PROVE  n + 1 \in I
    <2>1. SUFFICES ASSUME n + 1 <= len PROVE f[n + 1] = g[n + 1]
      OBVIOUS
    <2>2. /\ n + 1 \in 1 .. len /\ n + 1 \in 1 .. (len + 1) /\ (n + 1) - 1 = n
          /\ f[n] = g[n]
      BY <1>1, <2>1
    <2> QED BY <1>1, <1>2, <1>3, <2>2
  <1>6. \A n \in Nat : n \in I
    <2>1. I \in SUBSET Nat
      OBVIOUS
    <2> HIDE DEF I
    <2> QED BY <1>4, <1>5, <2>1, NatInduct
  <1>7. f[len] = g[len]
    BY <1>1, <1>6
  <1>8. len + 1 \in 1 .. (len + 1) /\ (len + 1) - 1 = len
    BY <1>1
  <1> QED BY <1>1, <1>2, <1>3, <1>7, <1>8 DEF longer

LEMMA ReadOne ==
  ASSUME NEW S, NEW st \in Reader(S), NEW c \in S
  PROVE  Read(st, <<c>>) = ReadSymbol(st, c)
  <1> DEFINE line == <<>>
  <1>1. line \in Seq(S) /\ <<c>> = Append(line, c)
    OBVIOUS
  <1>2. Read(st, line) = st
    BY ReadEmpty
  <1> HIDE DEF line
  <1>3. Read(st, Append(line, c)) = ReadSymbol(Read(st, line), c)
    BY <1>1, ReadAppend
  <1> QED BY <1>1, <1>2, <1>3

(* Two texts are read one after the other.                                 *)
LEMMA ReadConcat ==
  ASSUME NEW S, NEW st \in Reader(S), NEW a \in Seq(S), NEW b \in Seq(S)
  PROVE  Read(st, a \o b) = Read(Read(st, a), b)
  <1> DEFINE I == {t \in Seq(S) : Read(st, a \o t) = Read(Read(st, a), t)}
  <1>0. Read(st, a) \in Reader(S)
    BY ReadType
  <1>1. <<>> \in I
    <2>1. a \o <<>> = a /\ <<>> \in Seq(S)
      OBVIOUS
    <2> QED BY <1>0, <2>1, ReadEmpty
  <1>2. ASSUME NEW t \in I, NEW c \in S
        PROVE  Append(t, c) \in I
    <2>1. t \in Seq(S) /\ a \o t \in Seq(S) /\ Append(t, c) \in Seq(S)
      OBVIOUS
    <2>2. a \o Append(t, c) = Append(a \o t, c)
      BY <2>1
    <2>3. Read(st, Append(a \o t, c)) = ReadSymbol(Read(st, a \o t), c)
      <3> DEFINE u == a \o t
      <3>1. u \in Seq(S)
        BY <2>1
      <3> HIDE DEF u
      <3>2. Read(st, Append(u, c)) = ReadSymbol(Read(st, u), c)
        BY <3>1, ReadAppend
      <3> QED BY <3>2 DEF u
    <2>4. Read(Read(st, a), Append(t, c)) = ReadSymbol(Read(Read(st, a), t), c)
      BY <1>0, <2>1, ReadAppend
    <2>5. Read(st, a \o t) = Read(Read(st, a), t)
      OBVIOUS
    <2> QED BY <2>1, <2>2, <2>3, <2>4, <2>5
  <1>3. \A t \in Seq(S) : t \in I
    <2>1. I \in SUBSET Seq(S)
      OBVIOUS
    <2> HIDE DEF I
    <2> QED BY <1>1, <1>2, <2>1, SeqInduct
  <1> QED BY <1>3

(* The same with a name for the concatenation, to be cited by the provers. *)
Cat(a, b) == a \o b

LEMMA ReadCat ==
  ASSUME NEW S, NEW st \in Reader(S), NEW a \in Seq(S), NEW b \in Seq(S)
  PROVE  Cat(a, b) \in Seq(S) /\ Read(st, Cat(a, b)) = Read(Read(st, a), b)
  BY ReadConcat DEF Cat

(* A reader that has finished other words before.                          *)
With(words, st) == Reading(st.mode, st.open, st.word, words \o st.words)

LEMMA WithFields ==
  ASSUME NEW words, NEW st
  PROVE  /\ With(words, st).mode = st.mode /\ With(words, st).open = st.open
         /\ With(words, st).word = st.word /\ With(words, st).words = words \o st.words
  BY DEF With, Reading

LEMMA WithType ==
  ASSUME NEW S, NEW words \in Seq(Said(S)), NEW st \in Reader(S)
  PROVE  With(words, st) \in Reader(S)
  <1>1. \A T : \A a, b \in Seq(T) : a \o b \in Seq(T)
    OBVIOUS
  <1>2. words \o st.words \in Seq(Said(S))
    BY <1>1, ReaderFields
  <1> QED BY <1>2, ReaderFields, ReadingType DEF With

LEMMA BetweenFields ==
  ASSUME NEW words
  PROVE  /\ Between(words).mode = "plain" /\ Between(words).open = FALSE
         /\ Between(words).word = <<>> /\ Between(words).words = words
  BY DEF Between, Reading

LEMMA TakeFields ==
  ASSUME NEW st, NEW c
  PROVE  /\ Take(st, c).mode = IF st.mode = "escape" THEN "plain" ELSE st.mode
         /\ Take(st, c).open = TRUE
         /\ Take(st, c).word = Append(st.word, c) /\ Take(st, c).words = st.words
  BY DEF Take, Reading

LEMMA AppendFramed ==
  ASSUME NEW T, NEW a \in Seq(T), NEW b \in Seq(T), NEW c \in T
  PROVE  a \o Append(b, c) = Append(a \o b, c)
  OBVIOUS

LEMMA CloseFramed ==
  ASSUME NEW S, NEW words \in Seq(Said(S)), NEW st \in Reader(S)
  PROVE  Close(With(words, st)) = With(words, Close(st))
  <1>1. CASE st.open = FALSE
    <2> DEFINE u == With(words, st)
    <2>1. u.open = FALSE
      BY <1>1, WithFields
    <2> HIDE DEF u
    <2>2. Close(u) = u /\ Close(st) = st
      BY <1>1, <2>1 DEF Close
    <2> QED BY <2>2 DEF u
  <1>2. CASE st.open = TRUE
    <2> DEFINE w == Word(st.word)
    <2>1. w \in Said(S) /\ st.words \in Seq(Said(S))
      BY ReaderFields, WordTypes
    <2>2. words \o Append(st.words, w) = Append(words \o st.words, w)
      BY <2>1, AppendFramed
    <2>3. Close(st) = Reading(st.mode, FALSE, <<>>, Append(st.words, w))
      BY <1>2 DEF Close
    <2>4. Close(With(words, st)) = Reading(st.mode, FALSE, <<>>, Append(words \o st.words, w))
      BY <1>2, WithFields DEF Close
    <2>5. With(words, Reading(st.mode, FALSE, <<>>, Append(st.words, w)))
            = Reading(st.mode, FALSE, <<>>, words \o Append(st.words, w))
      BY DEF With, Reading
    <2> QED BY <2>2, <2>3, <2>4, <2>5
  <1> QED BY <1>1, <1>2, ReaderFields

LEMMA SymbolFramed ==
  ASSUME NEW S, NEW words \in Seq(Said(S)), NEW st \in Reader(S), NEW c \in S
  PROVE  ReadSymbol(With(words, st), c) = With(words, ReadSymbol(st, c))
  <1> DEFINE u == With(words, st)
             t == Close(st)
             o == Operator(<<c>>)
  <1>1. /\ u.mode = st.mode /\ u.open = st.open /\ u.word = st.word
        /\ u.words = words \o st.words
    BY WithFields
  <1>2. Close(u) = With(words, t)
    BY CloseFramed
  <1>3. Close(u).words = words \o t.words
    BY <1>2, WithFields
  <1>4. t \in Reader(S) /\ o \in Said(S)
    BY CloseType, WordTypes
  <1> HIDE DEF u, t, o
  <1>5. Take(u, c) = With(words, Take(st, c))
    <2>1. With(words, Take(st, c))
             = Reading(IF st.mode = "escape" THEN "plain" ELSE st.mode, TRUE,
                       Append(st.word, c), words \o st.words)
      BY TakeFields DEF With
    <2> QED BY <1>1, <2>1 DEF Take
  <1>6. \A mode, open : Reading(mode, open, u.word, u.words)
                           = With(words, Reading(mode, open, st.word, st.words))
    BY <1>1, ReadingFields DEF With
  <1>7. Between(Append(Close(u).words, o)) = With(words, Between(Append(t.words, o)))
    <2>1. t.words \in Seq(Said(S))
      BY <1>4, ReaderFields
    <2>2. words \o Append(t.words, o) = Append(words \o t.words, o)
      BY <1>4, <2>1, AppendFramed
    <2>3. With(words, Between(Append(t.words, o))) = Between(words \o Append(t.words, o))
      BY BetweenFields DEF With, Between
    <2> QED BY <1>3, <2>2, <2>3
  <1>8. ReadSymbol(u, c) = With(words, ReadSymbol(st, c))
    BY <1>1, <1>2, <1>5, <1>6, <1>7, SpaceSymbol DEF ReadSymbol, Operators, t, o
  <1> QED BY <1>8 DEF u

(* The words finished before make no difference to what is read.           *)
LEMMA ReadFramed ==
  ASSUME NEW S, NEW words \in Seq(Said(S)), NEW st \in Reader(S), NEW line \in Seq(S)
  PROVE  Read(With(words, st), line) = With(words, Read(st, line))
  <1> DEFINE I == {t \in Seq(S) : Read(With(words, st), t) = With(words, Read(st, t))}
  <1>0. With(words, st) \in Reader(S)
    BY WithType
  <1>1. <<>> \in I
    <2>1. <<>> \in Seq(S)
      OBVIOUS
    <2> QED BY <1>0, <2>1, ReadEmpty
  <1>2. ASSUME NEW t \in I, NEW c \in S
        PROVE  Append(t, c) \in I
    <2>1. /\ t \in Seq(S) /\ Append(t, c) \in Seq(S)
          /\ Read(With(words, st), t) = With(words, Read(st, t))
      OBVIOUS
    <2>2. Read(st, t) \in Reader(S)
      BY <2>1, ReadType
    <2>3. Read(With(words, st), Append(t, c)) = ReadSymbol(Read(With(words, st), t), c)
      BY <1>0, <2>1, ReadAppend
    <2>4. Read(st, Append(t, c)) = ReadSymbol(Read(st, t), c)
      BY <2>1, ReadAppend
    <2>5. ReadSymbol(With(words, Read(st, t)), c) = With(words, ReadSymbol(Read(st, t), c))
      BY <2>2, SymbolFramed
    <2> QED BY <2>1, <2>3, <2>4, <2>5
  <1>3. \A t \in Seq(S) : t \in I
    <2>1. I \in SUBSET Seq(S)
      OBVIOUS
    <2> HIDE DEF I
    <2> QED BY <1>1, <1>2, <2>1, SeqInduct
  <1> QED BY <1>3

-----------------------------------------------------------------------------
(* Flattening, and mapping place by place.                                 *)

(* The texts that flattening puts together, place by place.                *)
LEMMA FlattenTrace ==
  ASSUME NEW S, NEW ss \in Seq(Seq(S)), ss # <<>>
  PROVE  \E f \in [1 .. Len(ss) -> Seq(S)] :
            /\ f[1] = ss[1] /\ f[Len(ss)] = FlattenSeq(ss)
            /\ \A i \in 2 .. Len(ss) : f[i] = f[i - 1] \o ss[i]
  <1> DEFINE len == Len(ss)
             T == Seq(S)
             Flat(n, f) == /\ f \in [1 .. n -> T]
                           /\ \A i \in 1 .. n : f[i] = IF i = 1 THEN ss[i] ELSE f[i - 1] \o ss[i]
             Holds(n) == \E f : Flat(n, f)
             I == {n \in Nat : n + 1 <= len => Holds(n + 1)}
             Unwound(f) == f = [i \in 1 .. len |-> IF i = 1 THEN ss[i] ELSE f[i - 1] \o ss[i]]
  <1>0. /\ len \in Nat /\ len >= 1 /\ \A i \in 1 .. len : ss[i] \in T
    OBVIOUS
  <1>a. \A a, b \in T : a \o b \in T
    OBVIOUS
  <1>b. FlattenSeq(ss) = (CHOOSE f : Unwound(f))[len]
    BY <1>0 DEF FlattenSeq
  <1> HIDE DEF len, T
  <1>1. 0 \in I
    <2> DEFINE f == [i \in 1 .. 1 |-> ss[1]]
    <2>1. Flat(1, f)
      BY <1>0
    <2>2. Holds(1)
      BY <2>1
    <2> HIDE DEF Holds
    <2> QED BY <2>2
  <1>2. ASSUME NEW n \in I
        PROVE  n + 1 \in I
    <2>1. SUFFICES ASSUME n + 2 <= len PROVE Holds(n + 2)
      <3> HIDE DEF Holds
      <3>1. n \in Nat /\ (n + 1) + 1 = n + 2
        OBVIOUS
      <3> QED BY <3>1
    <2>2. n \in Nat /\ n + 2 \in 1 .. len /\ Holds(n + 1)
      <3> HIDE DEF Holds
      <3> QED BY <1>0, <2>1
    <2>3. PICK f : Flat(n + 1, f)
      BY <2>2
    <2> DEFINE g == [i \in 1 .. (n + 2) |-> IF i = n + 2 THEN f[n + 1] \o ss[n + 2] ELSE f[i]]
    <2> HIDE DEF I
    <2>4. f[n + 1] \o ss[n + 2] \in T
      <3>1. n + 1 \in 1 .. (n + 1)
        BY <2>2
      <3> QED BY <1>0, <1>a, <2>2, <2>3, <3>1
    <2>5. ASSUME NEW i \in 1 .. (n + 2)
          PROVE  g[i] \in T /\ g[i] = IF i = 1 THEN ss[i] ELSE g[i - 1] \o ss[i]
      <3>1. CASE i = n + 2
        <4>1. i # 1 /\ i - 1 = n + 1 /\ n + 1 \in 1 .. (n + 2) /\ n + 1 # n + 2
          BY <2>2, <3>1
        <4> QED BY <2>4, <3>1, <4>1
      <3>2. CASE i # n + 2
        <4>1. i \in 1 .. (n + 1) /\ (i # 1 => i - 1 \in 1 .. (n + 2) /\ i - 1 # n + 2)
          BY <2>2, <3>2
        <4> QED BY <2>3, <3>2, <4>1
      <3> QED BY <3>1, <3>2
    <2>6. Flat(n + 2, g)
      BY <2>5
    <2> HIDE DEF Flat
    <2> QED BY <2>6
  <1>3. \A n \in Nat : n \in I
    <2>1. I \in SUBSET Nat
      OBVIOUS
    <2> HIDE DEF I
    <2> QED BY <1>1, <1>2, <2>1, NatInduct
  <1>4. Holds(len)
    <2> HIDE DEF Holds
    <2>1. len - 1 \in Nat /\ (len - 1) + 1 = len
      BY <1>0
    <2> QED BY <1>3, <2>1
  <1>5. PICK f : Flat(len, f)
    BY <1>4
  <1>6. Unwound(f)
    BY <1>5
  <1>7. PICK g : Unwound(g) /\ FlattenSeq(ss) = g[len]
    BY <1>b, <1>6
  <1>8. /\ g[1] = ss[1]
        /\ \A i \in 2 .. len : g[i] = g[i - 1] \o ss[i]
    <2>1. \A i \in 1 .. len : g[i] = IF i = 1 THEN ss[i] ELSE g[i - 1] \o ss[i]
      BY <1>7
    <2>2. 1 \in 1 .. len /\ \A i \in 2 .. len : i \in 1 .. len /\ i # 1
      BY <1>0
    <2> HIDE DEF Unwound
    <2> QED BY <2>1, <2>2
  <1> DEFINE h == [i \in 0 .. (len - 1) |-> g[i + 1]]
  <1>9. \A i \in 0 .. (len - 1) : h[i] \in T
    <2>1. len - 1 \in Nat
      BY <1>0
    <2>2. h[0] \in T
      BY <1>0, <1>8
    <2>3. ASSUME NEW i \in 1 .. (len - 1), h[i - 1] \in T
          PROVE  h[i] \in T
      <3>1. /\ i + 1 \in 2 .. len /\ (i + 1) - 1 = i /\ i - 1 \in 0 .. (len - 1) /\ (i - 1) + 1 = i
            /\ i \in 0 .. (len - 1)
        BY <1>0
      <3>2. h[i] = g[i + 1] /\ h[i - 1] = g[i]
        BY <3>1
      <3> HIDE DEF h
      <3>3. g[i + 1] = g[i] \o ss[i + 1] /\ ss[i + 1] \in T
        <4> DEFINE k == i + 1
        <4>1. k \in 2 .. len /\ k \in 1 .. len /\ k - 1 = i
          BY <1>0, <3>1
        <4> HIDE DEF k, Unwound
        <4>2. g[k] = g[k - 1] \o ss[k] /\ ss[k] \in T
          BY <1>0, <1>8, <4>1
        <4> QED BY <4>1, <4>2 DEF k
      <3> QED BY <1>a, <2>3, <3>2, <3>3
    <2> HIDE DEF h
    <2> QED BY <2>1, <2>2, <2>3, Inherited
  <1>10. \A i \in 1 .. len : g[i] \in T
    <2>1. ASSUME NEW i \in 1 .. len
          PROVE  g[i] \in T
      <3>1. i - 1 \in 0 .. (len - 1) /\ (i - 1) + 1 = i
        BY <1>0
      <3> QED BY <1>9, <3>1
    <2> QED BY <2>1
  <1>11. g \in [1 .. len -> T]
    BY <1>7, <1>10
  <1> QED BY <1>7, <1>8, <1>11 DEF len, T

LEMMA FlattenEmpty == FlattenSeq(<<>>) = <<>>
  BY DEF FlattenSeq

LEMMA FlattenType ==
  ASSUME NEW S, NEW ss \in Seq(Seq(S))
  PROVE  FlattenSeq(ss) \in Seq(S)
  <1>1. CASE ss = <<>>
    <2>1. FlattenSeq(ss) = <<>>
      BY <1>1, FlattenEmpty
    <2>2. <<>> \in Seq(S)
      OBVIOUS
    <2> QED BY <2>1, <2>2
  <1>2. CASE ss # <<>>
    <2>1. PICK f \in [1 .. Len(ss) -> Seq(S)] :
              /\ f[1] = ss[1] /\ f[Len(ss)] = FlattenSeq(ss)
              /\ \A i \in 2 .. Len(ss) : f[i] = f[i - 1] \o ss[i]
      BY <1>2, FlattenTrace
    <2>2. Len(ss) \in 1 .. Len(ss)
      BY <1>2
    <2> DEFINE T == Seq(S)
    <2> HIDE DEF T
    <2>3. f[Len(ss)] \in T
      BY <2>1, <2>2 DEF T
    <2> QED BY <2>1, <2>3 DEF T
  <1> QED BY <1>1, <1>2

LEMMA FlattenAppend ==
  ASSUME NEW S, NEW ss \in Seq(Seq(S)), NEW s \in Seq(S)
  PROVE  FlattenSeq(Append(ss, s)) = FlattenSeq(ss) \o s
  <1> DEFINE T == Seq(S)
             longer == Append(ss, s)
             len == Len(ss)
  <1>1. /\ longer \in Seq(T) /\ len \in Nat /\ Len(longer) = len + 1 /\ longer[len + 1] = s
        /\ \A i \in 1 .. len : longer[i] = ss[i]
    <2> HIDE DEF T
    <2>1. ss \in Seq(T) /\ s \in T
      BY DEF T
    <2> QED BY <2>1, AppendProperties
  <1> HIDE DEF longer
  <1>2. longer # <<>>
    <2>1. Len(longer) # 0
      BY <1>1
    <2> QED BY <2>1
  <1>3. PICK g \in [1 .. (len + 1) -> Seq(S)] :
            /\ g[1] = longer[1] /\ g[len + 1] = FlattenSeq(longer)
            /\ \A i \in 2 .. (len + 1) : g[i] = g[i - 1] \o longer[i]
    <2>1. longer \in Seq(Seq(S))
      BY <1>1
    <2>2. PICK g \in [1 .. Len(longer) -> Seq(S)] :
              /\ g[1] = longer[1] /\ g[Len(longer)] = FlattenSeq(longer)
              /\ \A i \in 2 .. Len(longer) : g[i] = g[i - 1] \o longer[i]
      BY <1>2, <2>1, FlattenTrace
    <2>3. Len(longer) = len + 1
      BY <1>1
    <2> HIDE DEF len
    <2> QED BY <2>2, <2>3
  <1>4. CASE ss = <<>>
    <2>1. len = 0 /\ FlattenSeq(ss) \o s = s
      BY <1>4, FlattenEmpty
    <2> QED BY <1>1, <1>3, <2>1 DEF longer
  <1>5. CASE ss # <<>>
    <2>0. len >= 1
      BY <1>5
    <2>1. PICK f \in [1 .. len -> Seq(S)] :
              /\ f[1] = ss[1] /\ f[len] = FlattenSeq(ss)
              /\ \A i \in 2 .. len : f[i] = f[i - 1] \o ss[i]
      BY <1>5, FlattenTrace
    <2> HIDE DEF len
    <2> DEFINE I == {n \in Nat : n + 1 <= len => f[n + 1] = g[n + 1]}
    <2>2. 0 \in I
      BY <1>1, <1>3, <2>0, <2>1
    <2>3. ASSUME NEW n \in I
          PROVE  n + 1 \in I
      <3>1. SUFFICES ASSUME n + 2 <= len PROVE f[n + 2] = g[n + 2]
        <4>1. n \in Nat /\ (n + 1) + 1 = n + 2
          OBVIOUS
        <4> QED BY <4>1
      <3> DEFINE k == n + 2
      <3>2. k \in 2 .. len /\ k \in 1 .. len /\ k \in 2 .. (len + 1) /\ k - 1 = n + 1
        BY <1>1, <3>1
      <3>3. f[n + 1] = g[n + 1]
        BY <1>1, <3>1
      <3> HIDE DEF k, I
      <3>4. f[k] = f[n + 1] \o ss[k] /\ g[k] = g[n + 1] \o longer[k] /\ longer[k] = ss[k]
        BY <1>1, <1>3, <2>1, <3>2
      <3>5. f[k] = g[k]
        BY <3>3, <3>4
      <3> QED BY <3>5 DEF k
    <2>4. \A n \in Nat : n \in I
      <3>1. I \in SUBSET Nat
        OBVIOUS
      <3> HIDE DEF I
      <3> QED BY <2>2, <2>3, <3>1, NatInduct
    <2>5. f[len] = g[len]
      <3>1. len - 1 \in Nat /\ (len - 1) + 1 = len
        BY <1>1, <2>0
      <3> QED BY <2>4, <3>1
    <2>6. g[len + 1] = g[len] \o longer[len + 1]
      <3> DEFINE k == len + 1
      <3>1. k \in 2 .. (len + 1) /\ k - 1 = len
        BY <1>1, <2>0
      <3> HIDE DEF k
      <3>2. g[k] = g[k - 1] \o longer[k]
        BY <1>3, <3>1
      <3> QED BY <3>1, <3>2 DEF k
    <2> QED BY <1>1, <1>3, <2>1, <2>5, <2>6 DEF longer
  <1> QED BY <1>4, <1>5

LEMMA FunctionIsSeq ==
  ASSUME NEW T, NEW n \in Nat, NEW f \in [1 .. n -> T]
  PROVE  f \in Seq(T) /\ Len(f) = n
  OBVIOUS

LEMMA IsAppend ==
  ASSUME NEW T, NEW a \in Seq(T), NEW b \in Seq(T), NEW c \in T,
         Len(b) = Len(a) + 1, \A i \in 1 .. Len(a) : b[i] = a[i], b[Len(a) + 1] = c
  PROVE  b = Append(a, c)
  OBVIOUS

(* The places of a sequence, each with what a table has for it.            *)
Mapped(h, s) == [i \in DOMAIN s |-> h[i][s[i]]]
Tables(D, T) == [Nat -> [D -> T]]

LEMMA MappedAppend ==
  ASSUME NEW D, NEW T, NEW h \in Tables(D, T), NEW s \in Seq(D), NEW c \in D
  PROVE  /\ Mapped(h, s) \in Seq(T) /\ Len(Mapped(h, s)) = Len(s)
         /\ Mapped(h, Append(s, c)) = Append(Mapped(h, s), h[Len(s) + 1][c])
         /\ h[Len(s) + 1][c] \in T
  <1> DEFINE longer == Append(s, c)
             len == Len(s)
  <1>1. /\ longer \in Seq(D) /\ len \in Nat /\ Len(longer) = len + 1 /\ longer[len + 1] = c
        /\ \A i \in 1 .. len : longer[i] = s[i]
    BY AppendProperties
  <1>2. DOMAIN s = 1 .. len /\ DOMAIN longer = 1 .. (len + 1)
    BY <1>1
  <1>3. (\A i \in 1 .. len : s[i] \in D) /\ (\A i \in 1 .. (len + 1) : longer[i] \in D)
    BY <1>1, <1>2
  <1> HIDE DEF longer, len
  <1>4. \A i \in 1 .. (len + 1) : i \in Nat
    BY <1>1
  <1>5. /\ Mapped(h, s) \in [1 .. len -> T] /\ Mapped(h, longer) \in [1 .. (len + 1) -> T]
        /\ \A i \in 1 .. len : Mapped(h, s)[i] = h[i][s[i]]
        /\ \A i \in 1 .. (len + 1) : Mapped(h, longer)[i] = h[i][longer[i]]
    BY <1>2, <1>3, <1>4 DEF Mapped, Tables
  <1> DEFINE m == Mapped(h, s)
             n == Mapped(h, longer)
             e == h[len + 1][c]
  <1> HIDE DEF m, n
  <1>6. m \in [1 .. len -> T] /\ n \in [1 .. (len + 1) -> T]
    BY <1>5 DEF m, n
  <1>7. m \in Seq(T) /\ Len(m) = len /\ n \in Seq(T) /\ Len(n) = len + 1
    <2> DEFINE k == len + 1
    <2>1. k \in Nat /\ n \in [1 .. k -> T]
      BY <1>1, <1>6
    <2> HIDE DEF k
    <2>2. n \in Seq(T) /\ Len(n) = k
      BY <2>1, FunctionIsSeq
    <2>3. m \in Seq(T) /\ Len(m) = len
      BY <1>1, <1>6, FunctionIsSeq
    <2> QED BY <2>2, <2>3 DEF k
  <1>8. len + 1 \in 1 .. (len + 1) /\ \A i \in 1 .. len : i \in 1 .. (len + 1)
    BY <1>1
  <1>9. (\A i \in 1 .. len : n[i] = m[i]) /\ n[len + 1] = e /\ e \in T
    <2>1. (\A i \in 1 .. len : n[i] = m[i]) /\ n[len + 1] = e
      BY <1>1, <1>5, <1>8 DEF m, n
    <2>2. e \in T
      BY <1>1 DEF Tables
    <2> QED BY <2>1, <2>2
  <1> HIDE DEF e
  <1>10. n = Append(m, e)
    BY <1>7, <1>9, IsAppend
  <1> QED BY <1>7, <1>9, <1>10 DEF m, n, e, len, longer

-----------------------------------------------------------------------------
(* Quoting.                                                                *)

(* The signs with a meaning in a quoted value and around it.               *)
Signs == {"'", "\\", Space}

(* What ShellQuote makes of one symbol, and of each of them.               *)
Escaped(c) == IF c = "'" THEN <<"'", "\\", "'", "'">> ELSE <<c>>
Pieces(value) == [i \in DOMAIN value |-> Escaped(value[i])]

LEMMA EscapedType ==
  ASSUME NEW S, Signs \subseteq S, NEW c \in S
  PROVE  Escaped(c) \in Seq(S)
  BY DEF Escaped, Signs

LEMMA PiecesAppend ==
  ASSUME NEW S, Signs \subseteq S, NEW value \in Seq(S), NEW c \in S
  PROVE  /\ Pieces(value) \in Seq(Seq(S))
         /\ Pieces(Append(value, c)) = Append(Pieces(value), Escaped(c))
  <1> DEFINE T == Seq(S)
             longer == Append(value, c)
             len == Len(value)
  <1>1. /\ longer \in Seq(S) /\ len \in Nat /\ Len(longer) = len + 1 /\ longer[len + 1] = c
        /\ \A i \in 1 .. len : longer[i] = value[i]
    BY AppendProperties
  <1>2. DOMAIN value = 1 .. len /\ DOMAIN longer = 1 .. (len + 1)
    BY <1>1
  <1>3. (\A i \in 1 .. len : value[i] \in S) /\ (\A i \in 1 .. (len + 1) : longer[i] \in S)
    BY <1>1, <1>2
  <1> HIDE DEF longer, len
  <1>4. \A x \in S : Escaped(x) \in T
    BY EscapedType
  <1> HIDE DEF T
  <1>5. /\ Pieces(value) \in [1 .. len -> T] /\ Pieces(longer) \in [1 .. (len + 1) -> T]
        /\ \A i \in 1 .. len : Pieces(value)[i] = Escaped(value[i])
        /\ \A i \in 1 .. (len + 1) : Pieces(longer)[i] = Escaped(longer[i])
    BY <1>2, <1>3, <1>4 DEF Pieces
  <1>6. /\ Pieces(value) \in Seq(T) /\ Len(Pieces(value)) = len
        /\ Pieces(longer) \in Seq(T) /\ Len(Pieces(longer)) = len + 1
    BY <1>1, <1>5, FunctionIsSeq
  <1>7. /\ \A i \in 1 .. len : Pieces(longer)[i] = Pieces(value)[i]
        /\ Pieces(longer)[len + 1] = Escaped(c)
    <2>1. len + 1 \in 1 .. (len + 1) /\ \A i \in 1 .. len : i \in 1 .. (len + 1)
      BY <1>1
    <2> QED BY <1>1, <1>5, <2>1
  <1>8. Pieces(longer) = Append(Pieces(value), Escaped(c))
    BY <1>4, <1>6, <1>7, IsAppend
  <1> QED BY <1>6, <1>8 DEF T, longer

(* The reader inside quotes has taken the value so far.                    *)
LEMMA InsideRead ==
  ASSUME NEW S, Signs \subseteq S, NEW words \in Seq(Said(S)), NEW value \in Seq(S)
  PROVE  /\ FlattenSeq(Pieces(value)) \in Seq(S)
         /\ Read(Reading("quote", TRUE, <<>>, words), FlattenSeq(Pieces(value)))
               = Reading("quote", TRUE, value, words)
  <1> DEFINE start == Reading("quote", TRUE, <<>>, words)
             Text(v) == FlattenSeq(Pieces(v))
             I == {v \in Seq(S) : Read(start, Text(v)) = Reading("quote", TRUE, v, words)}
  <1>1. start \in Reader(S)
    BY ReadingType, WordTypes DEF Modes
  <1>2. \A v \in Seq(S) : Pieces(v) \in Seq(Seq(S)) /\ Text(v) \in Seq(S)
    <2>1. "'" \in S
      BY DEF Signs
    <2> QED BY <2>1, PiecesAppend, FlattenType
  <1>3. <<>> \in I
    <2>1. Pieces(<<>>) = <<>>
      BY DEF Pieces
    <2>2. Text(<<>>) = <<>>
      BY <2>1, FlattenEmpty
    <2>3. <<>> \in Seq(S)
      OBVIOUS
    <2>4. Read(start, <<>>) = start
      BY <1>1, ReadEmpty
    <2>5. Read(start, Text(<<>>)) = Reading("quote", TRUE, <<>>, words)
      BY <2>2, <2>4
    <2> HIDE DEF Text, start
    <2> QED BY <2>3, <2>5
  <1>4. ASSUME NEW v \in I, NEW c \in S
        PROVE  Append(v, c) \in I
    <2>1. /\ v \in Seq(S) /\ Append(v, c) \in Seq(S)
          /\ Read(start, Text(v)) = Reading("quote", TRUE, v, words)
      <3> HIDE DEF start, Text
      <3> QED OBVIOUS
    <2>2. Text(Append(v, c)) = Text(v) \o Escaped(c)
      <3>1. Pieces(Append(v, c)) = Append(Pieces(v), Escaped(c)) /\ Pieces(v) \in Seq(Seq(S))
        BY <2>1, PiecesAppend
      <3>2. Escaped(c) \in Seq(S)
        BY EscapedType
      <3>3. FlattenSeq(Append(Pieces(v), Escaped(c))) = FlattenSeq(Pieces(v)) \o Escaped(c)
        BY <3>1, <3>2, FlattenAppend
      <3> QED BY <3>1, <3>3
    <2> HIDE DEF start, Text
    <2>3. Read(start, Text(v) \o Escaped(c)) = Read(Reading("quote", TRUE, v, words), Escaped(c))
      <3>1. Text(v) \in Seq(S) /\ Escaped(c) \in Seq(S)
        BY <1>2, <2>1, EscapedType
      <3> DEFINE t == Text(v)
                 e == Escaped(c)
      <3>2. t \in Seq(S) /\ e \in Seq(S)
        BY <3>1
      <3> HIDE DEF t, e
      <3>3. Read(start, Cat(t, e)) = Read(Read(start, t), e)
        BY <1>1, <3>2, ReadCat
      <3> QED BY <2>1, <3>3 DEF Cat, t, e
    <2> DEFINE r1 == Reading("quote", TRUE, v, words)
               r2 == Reading("plain", TRUE, v, words)
               r3 == Reading("escape", TRUE, v, words)
               r4 == Reading("plain", TRUE, Append(v, c), words)
               r5 == Reading("quote", TRUE, Append(v, c), words)
    <2>4. /\ r1 \in Reader(S) /\ r2 \in Reader(S) /\ r3 \in Reader(S)
          /\ r4 \in Reader(S) /\ r5 \in Reader(S)
      BY <2>1, ReadingType DEF Modes
    <2>5. CASE c = "'"
      <3>1. ReadSymbol(r1, "'") = r2
        BY DEF ReadSymbol, Reading
      <3>2. ReadSymbol(r2, "\\") = r3
        BY SpaceSymbol DEF ReadSymbol, Reading, Operators
      <3>3. ReadSymbol(r3, "'") = r4
        BY <2>5 DEF ReadSymbol, Take, Reading
      <3>4. ReadSymbol(r4, "'") = r5
        BY SpaceSymbol DEF ReadSymbol, Reading, Operators
      <3>5. Escaped(c) = Cat(<<"'">>, Cat(<<"\\">>, Cat(<<"'">>, <<"'">>)))
        BY <2>5 DEF Escaped, Cat
      <3> HIDE DEF r1, r2, r3, r4, r5
      <3> DEFINE q == <<"'">>
                 b == <<"\\">>
      <3>6. "'" \in S /\ "\\" \in S /\ q \in Seq(S) /\ b \in Seq(S)
        BY DEF Signs
      <3>7. /\ Read(r1, q) = r2 /\ Read(r2, b) = r3 /\ Read(r3, q) = r4 /\ Read(r4, q) = r5
        BY <2>4, <3>1, <3>2, <3>3, <3>4, <3>6, ReadOne
      <3> HIDE DEF q, b
      <3>8. Cat(q, q) \in Seq(S) /\ Read(r3, Cat(q, q)) = r5
        BY <2>4, <3>6, <3>7, ReadCat
      <3> DEFINE qq == Cat(q, q)
                 bqq == Cat(b, qq)
      <3> HIDE DEF qq
      <3>9. bqq \in Seq(S) /\ Read(r2, bqq) = r5
        BY <2>4, <3>6, <3>7, <3>8, ReadCat DEF qq
      <3> HIDE DEF bqq
      <3>10. Read(r1, Cat(q, bqq)) = r5
        BY <2>4, <3>6, <3>7, <3>9, ReadCat
      <3>11. Read(r1, Escaped(c)) = r5
        BY <3>5, <3>10 DEF q, b, qq, bqq
      <3> QED BY <2>1, <2>2, <2>3, <3>11 DEF r1, r5
    <2>6. CASE c # "'"
      <3>1. ReadSymbol(r1, c) = r5
        BY <2>6 DEF ReadSymbol, Take, Reading
      <3>2. Read(r1, Escaped(c)) = r5
        BY <2>4, <2>6, <3>1, ReadOne DEF Escaped
      <3> QED BY <2>1, <2>2, <2>3, <3>2
    <2> QED BY <2>5, <2>6
  <1>5. \A v \in Seq(S) : v \in I
    <2>1. I \in SUBSET Seq(S)
      OBVIOUS
    <2> HIDE DEF I
    <2> QED BY <1>3, <1>4, <2>1, SeqInduct
  <1> QED BY <1>2, <1>5

(* A quoted value is read back as it is, whatever it holds.                *)
LEMMA QuoteRead ==
  ASSUME NEW S, Signs \subseteq S, NEW words \in Seq(Said(S)), NEW value \in Seq(S)
  PROVE  /\ ShellQuote(value) \in Seq(S)
         /\ Read(Between(words), ShellQuote(value)) = Reading("plain", TRUE, value, words)
  <1> DEFINE q == <<"'">>
             text == FlattenSeq(Pieces(value))
  <1>1. ShellQuote(value) = Cat(Cat(q, text), q)
    BY DEF ShellQuote, Pieces, Escaped, Cat
  <1>2. q \in Seq(S) /\ "'" \in S /\ text \in Seq(S)
    <2>1. text \in Seq(S)
      BY InsideRead
    <2>2. "'" \in S /\ q \in Seq(S)
      BY DEF Signs
    <2> QED BY <2>1, <2>2
  <1>3. Read(Reading("quote", TRUE, <<>>, words), text) = Reading("quote", TRUE, value, words)
    BY InsideRead
  <1> HIDE DEF text
  <1>4. Cat(q, text) \in Seq(S) /\ Cat(Cat(q, text), q) \in Seq(S)
    BY <1>2 DEF Cat
  <1>5. /\ Between(words) \in Reader(S) /\ Reading("quote", TRUE, <<>>, words) \in Reader(S)
        /\ Reading("quote", TRUE, value, words) \in Reader(S)
    BY BetweenType, ReadingType, WordTypes DEF Modes
  <1>6. /\ ReadSymbol(Between(words), "'") = Reading("quote", TRUE, <<>>, words)
        /\ ReadSymbol(Reading("quote", TRUE, value, words), "'")
             = Reading("plain", TRUE, value, words)
    BY SpaceSymbol DEF ReadSymbol, Between, Reading, Operators
  <1>7. Read(Between(words), q) = Reading("quote", TRUE, <<>>, words)
    BY <1>2, <1>5, <1>6, ReadOne
  <1>8. Read(Reading("quote", TRUE, value, words), q) = Reading("plain", TRUE, value, words)
    BY <1>2, <1>5, <1>6, ReadOne
  <1> HIDE DEF q
  <1> DEFINE start == Between(words)
             qt == Cat(q, text)
  <1>9. start \in Reader(S) /\ qt \in Seq(S)
    BY <1>4, <1>5
  <1> HIDE DEF start
  <1>a. Read(start, Cat(q, text)) = Read(Read(start, q), text)
    BY <1>2, <1>9, ReadCat
  <1>b. Read(start, qt) = Reading("quote", TRUE, value, words)
    BY <1>3, <1>7, <1>a DEF start
  <1> HIDE DEF qt
  <1>10. Read(start, Cat(qt, q)) = Reading("plain", TRUE, value, words)
    <2>2. Read(start, Cat(qt, q)) = Read(Read(start, qt), q)
      BY <1>2, <1>9, ReadCat
    <2> QED BY <1>8, <1>b, <2>2
  <1> QED BY <1>1, <1>4, <1>10 DEF start, qt

-----------------------------------------------------------------------------
(* Commands.                                                               *)

(* A reader that has no word at hand has collected nothing of one.         *)
Tidy(S) == {st \in Reader(S) : st.open = FALSE => st.word = <<>>}

LEMMA SymbolTidy ==
  ASSUME NEW S, NEW st \in Tidy(S), NEW c \in S
  PROVE  ReadSymbol(st, c) \in Tidy(S)
  <1>1. st \in Reader(S) /\ (st.open = FALSE => st.word = <<>>)
    BY DEF Tidy
  <1>2. ReadSymbol(st, c) \in Reader(S)
    BY <1>1, SymbolType
  <1> DEFINE t == Take(st, c)
             k == Close(st)
             b == Between(Append(Close(st).words, Operator(<<c>>)))
             p == Reading("plain", st.open, st.word, st.words)
             q == Reading("quote", TRUE, st.word, st.words)
             e == Reading("escape", st.open, st.word, st.words)
  <1>3. /\ t.open = TRUE /\ b.word = <<>> /\ q.open = TRUE
        /\ p.open = st.open /\ p.word = st.word /\ e.open = st.open /\ e.word = st.word
    BY TakeFields, BetweenFields DEF Reading
  <1>4. k.open = FALSE => k.word = <<>>
    BY <1>1 DEF Close, Reading
  <1>5. ReadSymbol(st, c) \in {t, k, b, p, q, e}
    BY <1>1, ReaderFields, SpaceSymbol DEF ReadSymbol, Operators
  <1> HIDE DEF t, k, b, p, q, e
  <1>6. ReadSymbol(st, c).open = FALSE => ReadSymbol(st, c).word = <<>>
    BY <1>1, <1>3, <1>4, <1>5
  <1> QED BY <1>2, <1>6 DEF Tidy

LEMMA ReadTidy ==
  ASSUME NEW S, NEW st \in Tidy(S), NEW line \in Seq(S)
  PROVE  Read(st, line) \in Tidy(S)
  <1> DEFINE I == {t \in Seq(S) : Read(st, t) \in Tidy(S)}
  <1>0. st \in Reader(S)
    BY DEF Tidy
  <1>1. <<>> \in I
    <2>1. <<>> \in Seq(S)
      OBVIOUS
    <2> QED BY <1>0, <2>1, ReadEmpty
  <1>2. ASSUME NEW t \in I, NEW c \in S
        PROVE  Append(t, c) \in I
    <2>1. t \in Seq(S) /\ Append(t, c) \in Seq(S) /\ Read(st, t) \in Tidy(S)
      OBVIOUS
    <2>2. Read(st, Append(t, c)) = ReadSymbol(Read(st, t), c)
      BY <1>0, <2>1, ReadAppend
    <2> QED BY <2>1, <2>2, SymbolTidy
  <1>3. \A t \in Seq(S) : t \in I
    <2>1. I \in SUBSET Seq(S)
      OBVIOUS
    <2> HIDE DEF I
    <2> QED BY <1>1, <1>2, <2>1, SeqInduct
  <1> QED BY <1>3

LEMMA CloseSettled ==
  ASSUME NEW S, NEW st \in Tidy(S)
  PROVE  /\ Close(st) = Reading(st.mode, FALSE, <<>>, Close(st).words)
         /\ Close(st).words \in Seq(Said(S)) /\ Close(Close(st)) = Close(st)
  <1>1. st \in Reader(S) /\ (st.open = FALSE => st.word = <<>>)
    BY DEF Tidy
  <1>2. st.open \in BOOLEAN /\ st = Reading(st.mode, st.open, st.word, st.words)
    BY <1>1, ReaderFields
  <1>3. Close(st).words \in Seq(Said(S))
    BY <1>1, CloseType, ReaderFields
  <1>4. CASE st.open = TRUE
    <2> DEFINE w == Append(st.words, Word(st.word))
               k == Close(st)
    <2>1. k = Reading(st.mode, FALSE, <<>>, w)
      BY <1>4 DEF Close
    <2> HIDE DEF w
    <2>2. k.words = w /\ k.open = FALSE
      <3> HIDE DEF k
      <3> QED BY <2>1 DEF Reading
    <2>3. Close(k) = k
      <3> HIDE DEF k
      <3> QED BY <2>2 DEF Close
    <2> QED BY <1>3, <2>1, <2>2, <2>3
  <1>5. CASE st.open = FALSE
    <2>1. Close(st) = st
      BY <1>5 DEF Close
    <2>2. st = Reading(st.mode, FALSE, <<>>, st.words)
      BY <1>1, <1>2, <1>5
    <2> QED BY <1>3, <2>1, <2>2
  <1> QED BY <1>2, <1>4, <1>5

LEMMA BetweenTidy ==
  ASSUME NEW S, NEW words \in Seq(Said(S))
  PROVE  Between(words) \in Tidy(S) /\ Blank \in Tidy(S) /\ Between(words) = With(words, Blank)
  <1>1. /\ Between(words) \in Reader(S) /\ Blank \in Reader(S)
        /\ Between(words).word = <<>> /\ Blank.word = <<>>
    BY BetweenType, BetweenFields DEF Blank
  <1>2. words \o <<>> = words
    OBVIOUS
  <1>3. Between(words) = With(words, Blank)
    BY <1>2, BetweenFields DEF Blank, With, Between
  <1> QED BY <1>1, <1>3 DEF Tidy

(* Fixed text that leaves no quote open reads the same wherever it stands. *)
LEMMA LiteralRead ==
  ASSUME NEW S, NEW words \in Seq(Said(S)), NEW text \in Seq(S), Read(Blank, text).mode = "plain"
  PROVE  /\ ShellReads(text) \in Seq(Said(S))
         /\ Read(Between(words), text) \in Reader(S)
         /\ Read(Between(words), text).mode = "plain"
         /\ Close(Read(Between(words), text)) = Between(words \o ShellReads(text))
  <1> DEFINE r == Read(Blank, text)
             end == Read(Between(words), text)
             said == ShellReads(text)
  <1>1. Blank \in Tidy(S) /\ Blank \in Reader(S) /\ Between(words) \in Reader(S)
        /\ Between(words) = With(words, Blank)
    BY BetweenTidy, BetweenType
  <1>2. r \in Tidy(S) /\ r \in Reader(S)
    BY <1>1, ReadTidy, ReadType
  <1>3. end = With(words, r) /\ end \in Reader(S)
    <2>1. Read(With(words, Blank), text) = With(words, Read(Blank, text))
      BY <1>1, ReadFramed
    <2>2. With(words, r) \in Reader(S)
      BY <1>2, WithType
    <2> QED BY <1>1, <2>1, <2>2
  <1>4. said = Close(r).words
    BY DEF ShellReads, Read
  <1> HIDE DEF r, end, said
  <1>5. r.mode = "plain"
    BY DEF r
  <1>6. Close(r) = Between(said) /\ said \in Seq(Said(S))
    BY <1>2, <1>4, <1>5, CloseSettled DEF Between
  <1>7. end.mode = "plain"
    BY <1>3, <1>5, WithFields
  <1>8. Close(end) = With(words, Between(said))
    BY <1>2, <1>3, <1>6, CloseFramed
  <1>9. With(words, Between(said)) = Between(words \o said)
    BY BetweenFields DEF With, Between
  <1> QED BY <1>3, <1>6, <1>7, <1>8, <1>9 DEF end, said

(* What a token is rendered to, what it says, and the tokens whose fixed   *)
(* text leaves nothing unfinished.                                         *)
Piece(token) == IF token.literal THEN token.text ELSE ShellQuote(token.text)
SaidBy(token) == IF token.literal THEN ShellReads(token.text) ELSE <<Word(token.text)>>
Complete(S) ==
  {token \in [literal: BOOLEAN, text: Seq(S)] :
      token.literal = TRUE => Read(Blank, token.text).mode = "plain"}

(* A token between others is read as what it says.                         *)
LEMMA TokenRead ==
  ASSUME NEW S, Signs \subseteq S, NEW words \in Seq(Said(S)), NEW token \in Complete(S)
  PROVE  /\ Piece(token) \in Seq(S) /\ SaidBy(token) \in Seq(Said(S))
         /\ Read(Between(words), Piece(token)) \in Reader(S)
         /\ Read(Between(words), Piece(token)).mode = "plain"
         /\ Close(Read(Between(words), Piece(token))) = Between(words \o SaidBy(token))
  <1> DEFINE text == token.text
  <1>1. /\ token.literal \in BOOLEAN /\ text \in Seq(S)
        /\ token.literal = TRUE => Read(Blank, text).mode = "plain"
    BY DEF Complete
  <1>2. CASE token.literal = TRUE
    <2>1. Piece(token) = text /\ SaidBy(token) = ShellReads(text)
      BY <1>2 DEF Piece, SaidBy
    <2> HIDE DEF text
    <2> QED BY <1>1, <1>2, <2>1, LiteralRead
  <1>3. CASE token.literal = FALSE
    <2>1. Piece(token) = ShellQuote(text) /\ SaidBy(token) = <<Word(text)>>
      BY <1>3 DEF Piece, SaidBy
    <2> HIDE DEF text
    <2> DEFINE end == Reading("plain", TRUE, text, words)
               w == Word(text)
    <2>2. ShellQuote(text) \in Seq(S) /\ Read(Between(words), ShellQuote(text)) = end
      BY <1>1, QuoteRead
    <2>a. end \in Reader(S)
      BY <1>1, ReadingType DEF Modes
    <2>3. /\ end \in Reader(S) /\ end.mode = "plain" /\ end.open = TRUE /\ end.word = text
          /\ end.words = words
      BY <2>a DEF Reading
    <2>4. w \in Said(S)
      BY <1>1, WordTypes
    <2> HIDE DEF end
    <2>5. Close(end) = Between(Append(words, w))
      BY <2>3 DEF Close, Between
    <2> HIDE DEF w
    <2>6. Append(words, w) = words \o <<w>> /\ <<w>> \in Seq(Said(S))
      BY <2>4
    <2> QED BY <2>1, <2>2, <2>3, <2>5, <2>6 DEF w
  <1> QED BY <1>1, <1>2, <1>3

(* What a command is rendered to, and means, token by token.               *)
LEMMA RenderAppend ==
  ASSUME NEW S, Signs \subseteq S, NEW command \in Seq(Complete(S)), NEW token \in Complete(S)
  PROVE  /\ Render(command) \in Seq(S) /\ Piece(token) \in Seq(S)
         /\ Render(Append(command, token))
              = Render(command)
                \o (IF command = <<>> THEN Piece(token) ELSE <<Space>> \o Piece(token))
  <1> DEFINE C == Complete(S)
             T == Seq(S)
             P(i, t) == IF i = 1 THEN Piece(t) ELSE <<Space>> \o Piece(t)
             h == [i \in Nat |-> [t \in C |-> P(i, t)]]
             longer == Append(command, token)
             e == P(Len(command) + 1, token)
  <1>1. ASSUME NEW t \in C
        PROVE  Piece(t) \in T /\ <<Space>> \o Piece(t) \in T
    <2>1. Piece(t) \in Seq(S)
      <3>1. <<>> \in Seq(Said(S))
        BY WordTypes
      <3> QED BY <3>1, TokenRead
    <2>2. Space \in S
      BY DEF Signs
    <2> QED BY <2>1, <2>2
  <1>2. longer \in Seq(C) /\ Len(command) + 1 \in Nat /\ token \in C /\ command \in Seq(C)
    OBVIOUS
  <1>3. \A i \in Nat, t \in C : P(i, t) \in T
    BY <1>1
  <1>4. ASSUME NEW s \in Seq(C)
        PROVE  Render(s) = FlattenSeq(Mapped(h, s))
    <2>1. \A i \in DOMAIN s : i \in Nat /\ s[i] \in C
      OBVIOUS
    <2>2. [i \in DOMAIN s |-> P(i, s[i])] = Mapped(h, s)
      <3> HIDE DEF P, C
      <3> QED BY <2>1 DEF Mapped
    <2> QED BY <2>2 DEF Render, Piece
  <1> HIDE DEF P, C, T
  <1>5. h \in Tables(C, T) /\ h[Len(command) + 1][token] = e
    <2> DEFINE k == Len(command) + 1
    <2>1. k \in Nat
      BY <1>2
    <2> HIDE DEF k
    <2>2. h[k][token] = P(k, token)
      BY <1>2, <2>1
    <2>3. h \in Tables(C, T)
      BY <1>3 DEF Tables
    <2> HIDE DEF h
    <2> QED BY <2>2, <2>3 DEF k
  <1> HIDE DEF h, e
  <1>6. /\ Mapped(h, command) \in Seq(T)
        /\ Mapped(h, longer) = Append(Mapped(h, command), e) /\ e \in T
    BY <1>2, <1>5, MappedAppend
  <1> HIDE DEF longer
  <1>7. /\ Render(command) = FlattenSeq(Mapped(h, command))
        /\ Render(longer) = FlattenSeq(Mapped(h, longer))
    BY <1>2, <1>4 DEF C
  <1> DEFINE m == Mapped(h, command)
  <1> HIDE DEF m
  <1>8. m \in Seq(Seq(S)) /\ e \in Seq(S)
    BY <1>6 DEF T, m
  <1>9. FlattenSeq(m) \in Seq(S) /\ FlattenSeq(Append(m, e)) = FlattenSeq(m) \o e
    BY <1>8, FlattenType, FlattenAppend
  <1>10. Render(command) \in Seq(S) /\ Render(longer) = Render(command) \o e
    BY <1>6, <1>7, <1>9 DEF m
  <1>11. e = IF command = <<>> THEN Piece(token) ELSE <<Space>> \o Piece(token)
    <2>1. command = <<>> <=> Len(command) + 1 = 1
      OBVIOUS
    <2> QED BY <2>1 DEF e, P
  <1>12. Piece(token) \in Seq(S)
    BY <1>1 DEF C, T
  <1> QED BY <1>10, <1>11, <1>12 DEF longer

LEMMA MeaningAppend ==
  ASSUME NEW S, Signs \subseteq S, NEW command \in Seq(Complete(S)), NEW token \in Complete(S)
  PROVE  /\ Meaning(command) \in Seq(Said(S)) /\ SaidBy(token) \in Seq(Said(S))
         /\ Meaning(Append(command, token)) = Meaning(command) \o SaidBy(token)
  <1> DEFINE C == Complete(S)
             D == Said(S)
             T == Seq(D)
             h == [i \in Nat |-> [t \in C |-> SaidBy(t)]]
             longer == Append(command, token)
             e == SaidBy(token)
  <1>1. \A t \in C : SaidBy(t) \in T
    <2>1. <<>> \in Seq(Said(S))
      BY WordTypes
    <2> QED BY <2>1, TokenRead
  <1>2. longer \in Seq(C) /\ Len(command) + 1 \in Nat /\ token \in C /\ command \in Seq(C)
    OBVIOUS
  <1>4. ASSUME NEW s \in Seq(C)
        PROVE  Meaning(s) = FlattenSeq(Mapped(h, s))
    <2>1. \A i \in DOMAIN s : i \in Nat /\ s[i] \in C
      OBVIOUS
    <2>2. [i \in DOMAIN s |-> SaidBy(s[i])] = Mapped(h, s)
      <3> HIDE DEF C
      <3> QED BY <2>1 DEF Mapped
    <2> QED BY <2>2 DEF Meaning, SaidBy
  <1> HIDE DEF C, T
  <1>5. h \in Tables(C, T) /\ h[Len(command) + 1][token] = e
    <2> DEFINE k == Len(command) + 1
    <2>1. k \in Nat
      BY <1>2
    <2> HIDE DEF k
    <2>2. h[k][token] = SaidBy(token)
      BY <1>2, <2>1
    <2>3. h \in Tables(C, T)
      BY <1>1 DEF Tables
    <2> HIDE DEF h
    <2> QED BY <2>2, <2>3 DEF k
  <1> HIDE DEF h, e
  <1>6. /\ Mapped(h, command) \in Seq(T)
        /\ Mapped(h, longer) = Append(Mapped(h, command), e) /\ e \in T
    BY <1>2, <1>5, MappedAppend
  <1> HIDE DEF longer
  <1>7. /\ Meaning(command) = FlattenSeq(Mapped(h, command))
        /\ Meaning(longer) = FlattenSeq(Mapped(h, longer))
    BY <1>2, <1>4 DEF C
  <1> DEFINE m == Mapped(h, command)
  <1> HIDE DEF m, D
  <1>8. m \in Seq(Seq(D)) /\ e \in Seq(D)
    BY <1>6 DEF T, m
  <1>9. FlattenSeq(m) \in Seq(D) /\ FlattenSeq(Append(m, e)) = FlattenSeq(m) \o e
    BY <1>8, FlattenType, FlattenAppend
  <1>10. Meaning(command) \in Seq(D) /\ Meaning(longer) = Meaning(command) \o e
    BY <1>6, <1>7, <1>9 DEF m
  <1> QED BY <1>8, <1>10 DEF longer, e, D

(* The reader has the meaning of what it has read of a command so far.     *)
LEMMA CommandRead ==
  ASSUME NEW S, Signs \subseteq S, NEW command \in Seq(Complete(S))
  PROVE  /\ Read(Blank, Render(command)).mode = "plain"
         /\ Close(Read(Blank, Render(command))) = Between(Meaning(command))
  <1> DEFINE C == Complete(S)
             End(c) == Read(Blank, Render(c))
             Good(c) == End(c).mode = "plain" /\ Close(End(c)) = Between(Meaning(c))
             I == {c \in Seq(C) : Good(c)}
  <1>0. Blank \in Reader(S) /\ <<>> \in Seq(Said(S))
    BY WordTypes, BetweenType
  <1>1. <<>> \in I
    <2>1. Render(<<>>) = <<>> /\ Meaning(<<>>) = <<>>
      BY FlattenEmpty DEF Render, Meaning
    <2>2. End(<<>>) = Blank
      BY <1>0, <2>1, ReadEmpty
    <2>3. Blank.mode = "plain" /\ Close(Blank) = Blank
      BY BetweenFields DEF Blank, Close
    <2>4. Good(<<>>)
      BY <2>1, <2>2, <2>3 DEF Blank
    <2>5. <<>> \in Seq(C)
      OBVIOUS
    <2> HIDE DEF Good, C
    <2> QED BY <2>4, <2>5
  <1>2. ASSUME NEW c \in I, NEW token \in C
        PROVE  Append(c, token) \in I
    <2>1. c \in Seq(C) /\ Append(c, token) \in Seq(C) /\ Good(c)
      <3> HIDE DEF Good, C
      <3> QED OBVIOUS
    <2> HIDE DEF I
    <2> DEFINE longer == Append(c, token)
               words == Meaning(c)
               piece == Piece(token)
               said == SaidBy(token)
               line == Render(c)
    <2>2. /\ line \in Seq(S) /\ piece \in Seq(S)
          /\ Render(longer) = line \o (IF c = <<>> THEN piece ELSE <<Space>> \o piece)
      BY <2>1, RenderAppend
    <2>3. words \in Seq(Said(S)) /\ said \in Seq(Said(S)) /\ Meaning(longer) = words \o said
      BY <2>1, MeaningAppend
    <2> HIDE DEF words
    <2>4. Read(Between(words), piece).mode = "plain"
          /\ Close(Read(Between(words), piece)) = Between(words \o said)
      BY <2>3, TokenRead
    <2> HIDE DEF piece, said
    <2>5. Read(Blank, Render(longer)) = Read(Between(words), piece)
      <3>1. CASE c = <<>>
        <4>1. line = <<>> /\ words = <<>>
          BY <3>1, FlattenEmpty DEF Render, Meaning, words
        <4>2. <<>> \o piece = piece
          BY <2>2
        <4>3. Render(longer) = piece
          BY <2>2, <3>1, <4>1, <4>2
        <4> QED BY <4>1, <4>3 DEF Blank
      <3>2. CASE c # <<>>
        <4> DEFINE gap == <<Space>>
                   rest == gap \o piece
                   r == Read(Blank, line)
                   mid == Between(words)
        <4>1. gap \in Seq(S) /\ rest \in Seq(S) /\ Space \in S
          <5>1. Space \in S
            BY DEF Signs
          <5> QED BY <2>2, <5>1
        <4>2. r \in Reader(S) /\ mid \in Reader(S)
          BY <1>0, <2>2, <2>3, ReadType, BetweenType
        <4>3. r.mode = "plain" /\ Close(r) = mid
          BY <2>1 DEF words
        <4>4. Render(longer) = line \o rest
          BY <2>2, <3>2
        <4> HIDE DEF line, mid
        <4>5. ReadSymbol(r, Space) = mid
          <5> HIDE DEF r
          <5> QED BY <4>3, SpaceSymbol DEF ReadSymbol
        <4>6. Read(r, gap) = mid
          <5> HIDE DEF r
          <5> QED BY <4>1, <4>2, <4>5, ReadOne
        <4> HIDE DEF gap
        <4>7. Read(r, rest) = Read(mid, piece)
          <5> HIDE DEF r
          <5>1. Read(r, gap \o piece) = Read(Read(r, gap), piece)
            BY <2>2, <4>1, <4>2, ReadConcat
          <5> QED BY <4>6, <5>1
        <4> HIDE DEF rest
        <4>8. Read(Blank, line \o rest) = Read(Read(Blank, line), rest)
          BY <1>0, <2>2, <4>1, ReadConcat
        <4> QED BY <4>4, <4>7, <4>8 DEF mid
      <3> QED BY <3>1, <3>2
    <2>6. Good(longer)
      BY <2>3, <2>4, <2>5
    <2> HIDE DEF Good, C
    <2> QED BY <2>1, <2>6 DEF I
  <1>3. \A c \in Seq(C) : c \in I
    <2>1. I \in SUBSET Seq(C)
      <3> HIDE DEF Good, C
      <3> QED OBVIOUS
    <2> HIDE DEF I, C
    <2> QED BY <1>1, <1>2, <2>1, SeqInduct
  <1>4. Good(command)
    <2> HIDE DEF Good, C
    <2> QED BY <1>3 DEF C
  <1> QED BY <1>4

(* A shell reads a rendered command as the words its builder meant, what-  *)
(* ever the quoted values hold, quotes, blanks, operators and backslashes  *)
(* included (shell_quote and RemoteCommand::render).                       *)
THEOREM RenderReadsBack ==
  ASSUME NEW S, Signs \subseteq S, NEW command \in Seq(Complete(S))
  PROVE  ShellReads(Render(command)) = Meaning(command)
  BY CommandRead, BetweenFields DEF ShellReads, Read

-----------------------------------------------------------------------------
(* Paths.                                                                  *)

(* The places of a text that hold something other than a slash.            *)
Places(path) == {i \in 1 .. Len(path) : path[i] # "/"}

LEMMA TrimEndProperties ==
  ASSUME NEW S, NEW path \in Seq(S)
  PROVE  /\ TrimEnd(path) \in Seq(S) /\ Len(TrimEnd(path)) <= Len(path)
         /\ \A i \in 1 .. Len(TrimEnd(path)) : TrimEnd(path)[i] = path[i]
         /\ \A i \in (Len(TrimEnd(path)) + 1) .. Len(path) : path[i] = "/"
         /\ TrimEnd(path) # <<>> => TrimEnd(path)[Len(TrimEnd(path))] # "/"
  <1> DEFINE last == IF Places(path) # {} THEN Max(Places(path)) ELSE 0
  <1>1. TrimEnd(path) = SubSeq(path, 1, last)
    BY DEF TrimEnd, SelectLastInSeq, Places
  <1>2. Len(path) \in Nat /\ Places(path) \in SUBSET (1 .. Len(path))
    BY DEF Places
  <1>3. /\ last \in 0 .. Len(path)
        /\ last # 0 => last \in Places(path)
        /\ \A i \in Places(path) : i <= last
    <2>1. CASE Places(path) = {}
      BY <1>2, <2>1
    <2>2. CASE Places(path) # {}
      <3>1. last = Max(Places(path))
        BY <2>2
      <3>2. last \in Places(path) /\ \A i \in Places(path) : i <= last
        BY <1>2, <2>2, <3>1, Greatest
      <3> HIDE DEF last
      <3> QED BY <1>2, <3>2
    <2> QED BY <2>1, <2>2
  <1> HIDE DEF last
  <1>4. /\ SubSeq(path, 1, last) \in Seq(S) /\ Len(SubSeq(path, 1, last)) = last
        /\ \A i \in 1 .. last : SubSeq(path, 1, last)[i] = path[i]
    BY <1>2, <1>3
  <1>5. \A i \in (last + 1) .. Len(path) : path[i] = "/"
    BY <1>2, <1>3 DEF Places
  <1>6. last # 0 => path[last] # "/"
    BY <1>3 DEF Places
  <1> QED BY <1>1, <1>2, <1>3, <1>4, <1>5, <1>6

LEMMA TrimStartProperties ==
  ASSUME NEW S, NEW path \in Seq(S)
  PROVE  LET text == TrimStart(path)
             cut == Len(path) - Len(text)
         IN  /\ text \in Seq(S) /\ cut \in Nat
             /\ \A i \in 1 .. Len(text) : text[i] = path[cut + i]
             /\ \A i \in 1 .. cut : path[i] = "/"
             /\ text # <<>> => text[1] # "/"
  <1> DEFINE first == IF Places(path) # {} THEN Min(Places(path)) ELSE 0
  <1>1. TrimStart(path) = IF first = 0 THEN <<>> ELSE SubSeq(path, first, Len(path))
    BY DEF TrimStart, SelectInSeq, Places
  <1>2. Len(path) \in Nat /\ Places(path) \in SUBSET (1 .. Len(path))
    BY DEF Places
  <1>3. CASE Places(path) = {}
    <2>1. TrimStart(path) = <<>>
      BY <1>1, <1>3
    <2>2. \A i \in 1 .. Len(path) : path[i] = "/"
      BY <1>3 DEF Places
    <2> QED BY <1>2, <2>1, <2>2
  <1>4. CASE Places(path) # {}
    <2>1. first = Min(Places(path)) /\ Places(path) \in SUBSET Nat
      BY <1>2, <1>4
    <2>2. first \in Places(path) /\ \A i \in Places(path) : first <= i
      BY <1>4, <2>1, Least
    <2> HIDE DEF first
    <2>3. first \in 1 .. Len(path) /\ path[first] # "/"
      BY <2>2 DEF Places
    <2>4. \A i \in 1 .. (first - 1) : path[i] = "/"
      BY <1>2, <2>2, <2>3 DEF Places
    <2>5. TrimStart(path) = SubSeq(path, first, Len(path))
      BY <1>1, <2>3
    <2>6. /\ SubSeq(path, first, Len(path)) \in Seq(S)
          /\ Len(SubSeq(path, first, Len(path))) = Len(path) - first + 1
          /\ \A i \in 1 .. (Len(path) - first + 1) :
                SubSeq(path, first, Len(path))[i] = path[first + i - 1]
      BY <1>2, <2>3
    <2> DEFINE text == TrimStart(path)
    <2>7. /\ text \in Seq(S) /\ Len(text) = Len(path) - first + 1
          /\ \A i \in 1 .. Len(text) : text[i] = path[first + i - 1]
      BY <2>5, <2>6
    <2> HIDE DEF text
    <2>8. Len(path) - Len(text) = first - 1 /\ first - 1 \in Nat
      BY <1>2, <2>3, <2>7
    <2>9. \A i \in 1 .. Len(text) : text[i] = path[(first - 1) + i]
      BY <2>3, <2>7
    <2>10. text[1] # "/"
      BY <1>2, <2>3, <2>7
    <2> QED BY <2>4, <2>7, <2>8, <2>9, <2>10 DEF text
  <1> QED BY <1>3, <1>4

(* A text that neither begins nor ends in a slash is left as it is.        *)
LEMMA TrimKeeps ==
  ASSUME NEW S, NEW path \in Seq(S), path # <<>>, path[Len(path)] # "/"
  PROVE  /\ TrimEnd(path) = path
         /\ path[1] # "/" => TrimStart(path) = path
  <1>1. Len(path) \in Nat /\ Len(path) > 0
    OBVIOUS
  <1>2. TrimEnd(path) = path
    <2> DEFINE text == TrimEnd(path)
    <2>1. /\ text \in Seq(S) /\ Len(text) <= Len(path)
          /\ \A i \in 1 .. Len(text) : text[i] = path[i]
          /\ \A i \in (Len(text) + 1) .. Len(path) : path[i] = "/"
      BY TrimEndProperties
    <2> HIDE DEF text
    <2>2. Len(text) = Len(path)
      BY <1>1, <2>1
    <2>3. text = path
      BY <2>1, <2>2
    <2> QED BY <2>3 DEF text
  <1>3. ASSUME path[1] # "/"
        PROVE  TrimStart(path) = path
    <2> DEFINE text == TrimStart(path)
               cut == Len(path) - Len(text)
    <2>1. /\ text \in Seq(S) /\ cut \in Nat
          /\ \A i \in 1 .. Len(text) : text[i] = path[cut + i]
          /\ \A i \in 1 .. cut : path[i] = "/"
      BY TrimStartProperties
    <2> HIDE DEF text
    <2>2. cut = 0
      BY <1>3, <2>1
    <2>3. Len(text) = Len(path)
      BY <1>1, <2>1, <2>2
    <2>4. text = path
      BY <2>1, <2>2, <2>3
    <2> QED BY <2>4 DEF text
  <1> QED BY <1>2, <1>3

(* A valid name of a service has no slash in it.                           *)
LEMMA ValidNames ==
  ASSUME NEW S, NEW name \in Seq(S), ValidateServiceName(name)
  PROVE  name # <<>> /\ \A i \in 1 .. Len(name) : name[i] # "/"
  <1>1. name # <<>> /\ name[1] # "/"
    BY DEF ValidateServiceName, LowerOrDigit
  <1>2. \A i \in 2 .. Len(name) : name[i] # "/"
    BY DEF ValidateServiceName, LowerOrDigit
  <1>3. \A i \in 1 .. Len(name) : i = 1 \/ i \in 2 .. Len(name)
    OBVIOUS
  <1> QED BY <1>1, <1>2, <1>3

(* The directory of a service is a direct child of the root, however the   *)
(* root is written: what precedes the trailing slashes of the root, one    *)
(* slash, and the name, in which there is none (service_dir and path_join).*)
THEOREM ServiceDirectory ==
  ASSUME NEW S, NEW root \in Seq(S), NEW name \in Seq(S), ValidateServiceName(name)
  PROVE  /\ ServiceDir(root, name) = TrimEnd(root) \o <<"/">> \o name
         /\ \A i \in 1 .. Len(name) : name[i] # "/"
         /\ TrimEnd(root) # <<>> => TrimEnd(root)[Len(TrimEnd(root))] # "/"
         /\ \A i \in (Len(TrimEnd(root)) + 1) .. Len(root) : root[i] = "/"
  <1>1. name # <<>> /\ \A i \in 1 .. Len(name) : name[i] # "/"
    BY ValidNames
  <1>2. name[1] # "/" /\ name[Len(name)] # "/"
    BY <1>1
  <1>3. TrimEnd(name) = name /\ TrimStart(name) = name
    BY <1>1, <1>2, TrimKeeps
  <1>4. ServiceDir(root, name) = TrimEnd(root) \o <<"/">> \o name
    BY <1>1, <1>3 DEF ServiceDir, PathJoin
  <1> QED BY <1>1, <1>4, TrimEndProperties

(* Services of different names have different directories below one root   *)
(* (service_dir).                                                          *)
THEOREM DirectoriesApart ==
  ASSUME NEW S, NEW root \in Seq(S), NEW a \in Seq(S), NEW b \in Seq(S),
         ValidateServiceName(a), ValidateServiceName(b),
         ServiceDir(root, a) = ServiceDir(root, b)
  PROVE  a = b
  <1> DEFINE p == TrimEnd(root) \o <<"/">>
             T == S \cup {"/"}
  <1>1. p \in Seq(T) /\ a \in Seq(T) /\ b \in Seq(T)
    <2>1. TrimEnd(root) \in Seq(S)
      BY TrimEndProperties
    <2>2. S \subseteq T /\ "/" \in T
      OBVIOUS
    <2> HIDE DEF T
    <2>3. TrimEnd(root) \in Seq(T) /\ <<"/">> \in Seq(T)
      BY <2>1, <2>2
    <2> QED BY <2>2, <2>3
  <1>2. p \o a = p \o b
    BY ServiceDirectory
  <1> HIDE DEF p, T
  <1>3. Len(p) \in Nat /\ Len(a) \in Nat /\ Len(b) \in Nat
    BY <1>1
  <1>4. /\ Len(p \o a) = Len(p) + Len(a) /\ Len(p \o b) = Len(p) + Len(b)
        /\ \A i \in 1 .. Len(a) : (p \o a)[Len(p) + i] = a[i]
        /\ \A i \in 1 .. Len(b) : (p \o b)[Len(p) + i] = b[i]
    BY <1>1
  <1>5. Len(a) = Len(b) /\ \A i \in 1 .. Len(a) : a[i] = b[i]
    <2>1. Len(a) = Len(b)
      BY <1>2, <1>3, <1>4
    <2>2. ASSUME NEW i \in 1 .. Len(a)
          PROVE  a[i] = b[i]
      <3>1. (p \o a)[Len(p) + i] = a[i]
        BY <1>4
      <3>2. (p \o b)[Len(p) + i] = b[i]
        BY <1>4, <2>1
      <3> QED BY <1>2, <3>1, <3>2
    <2> QED BY <2>1, <2>2
  <1> QED BY <1>1, <1>5

(* The text of the path of the build context is that of the directory of   *)
(* its service, or continues it by one slash and a relative path, however  *)
(* the context is written (path_join).  Where it leads is PathPlaces.      *)
THEOREM ContextBelow ==
  ASSUME NEW S, NEW root \in Seq(S), NEW name \in Seq(S), NEW context \in Seq(S),
         ValidateServiceName(name)
  PROVE  \/ PathJoin(ServiceDir(root, name), context) = ServiceDir(root, name)
         \/ \E c \in Seq(S) :
               /\ PathJoin(ServiceDir(root, name), context) = ServiceDir(root, name) \o <<"/">> \o c
               /\ c # <<>> /\ c[1] # "/" /\ c[Len(c)] # "/"
  <1> DEFINE dir == ServiceDir(root, name)
             end == TrimEnd(context)
             c == TrimStart(end)
             T == S \cup {"/"}
  <1>1. dir \in Seq(T) /\ dir # <<>> /\ dir[Len(dir)] # "/"
    <2>1. dir = TrimEnd(root) \o <<"/">> \o name /\ name # <<>> /\ name[Len(name)] # "/"
      BY ServiceDirectory, ValidNames
    <2> DEFINE p == TrimEnd(root) \o <<"/">>
    <2>2. p \in Seq(T) /\ name \in Seq(T)
      <3>1. TrimEnd(root) \in Seq(S)
        BY TrimEndProperties
      <3>2. S \subseteq T /\ "/" \in T
        OBVIOUS
      <3> HIDE DEF T
      <3>3. TrimEnd(root) \in Seq(T) /\ <<"/">> \in Seq(T)
        BY <3>1, <3>2
      <3> QED BY <3>2, <3>3
    <2>3. dir = p \o name
      BY <2>1
    <2> HIDE DEF p, T, dir
    <2>4. p \o name \in Seq(T) /\ Len(p \o name) = Len(p) + Len(name)
      BY <2>2
    <2>5. Len(p) \in Nat /\ Len(name) \in Nat /\ Len(name) > 0
      BY <2>1, <2>2
    <2>6. (p \o name)[Len(p) + Len(name)] = name[Len(name)]
      BY <2>2, <2>5
    <2>7. dir \in Seq(T) /\ Len(dir) = Len(p) + Len(name) /\ dir[Len(dir)] = name[Len(name)]
      BY <2>3, <2>4, <2>6
    <2> QED BY <2>1, <2>5, <2>7
  <1>2. TrimEnd(dir) = dir
    <2> HIDE DEF dir, T
    <2> QED BY <1>1, TrimKeeps
  <1>3. PathJoin(dir, context) = IF c = <<>> THEN dir ELSE dir \o <<"/">> \o c
    <2> HIDE DEF dir
    <2> QED BY <1>1, <1>2 DEF PathJoin
  <1>4. ASSUME c # <<>>
        PROVE  c \in Seq(S) /\ c[1] # "/" /\ c[Len(c)] # "/"
    <2>1. end \in Seq(S) /\ (end # <<>> => end[Len(end)] # "/")
      BY TrimEndProperties
    <2> HIDE DEF end
    <2>2. /\ c \in Seq(S) /\ Len(end) - Len(c) \in Nat
          /\ \A i \in 1 .. Len(c) : c[i] = end[(Len(end) - Len(c)) + i]
          /\ c # <<>> => c[1] # "/"
      BY <2>1, TrimStartProperties
    <2> HIDE DEF c
    <2>3. Len(c) \in Nat /\ Len(c) > 0 /\ Len(end) \in Nat /\ Len(end) > 0
      BY <1>4, <2>1, <2>2
    <2>4. c[Len(c)] = end[Len(end)]
      BY <2>2, <2>3
    <2> QED BY <1>4, <2>1, <2>2, <2>3, <2>4
  <1> QED BY <1>3, <1>4

(* A reader that takes a path apart, and the parts it finds.               *)
Slash == <<"/">>
Parting(words) == Reading("path", FALSE, <<>>, words)
Parts(path) == Close(Read(Parting(<<>>), path)).words

LEMMA PartingTidy ==
  ASSUME NEW S, NEW words \in Seq(Said(S))
  PROVE  /\ Parting(words) \in Reader(S) /\ Parting(words) \in Tidy(S)
         /\ Parting(words).mode = "path" /\ Parting(words).words = words
         /\ Parting(words).open = FALSE /\ Parting(words).word = <<>>
         /\ Parting(words) = With(words, Parting(<<>>))
         /\ Close(Parting(words)) = Parting(words)
  <1>1. /\ Parting(words).mode = "path" /\ Parting(words).open = FALSE
        /\ Parting(words).word = <<>> /\ Parting(words).words = words
    BY DEF Parting, Reading
  <1>2. Parting(words) \in Reader(S)
    BY ReadingType, WordTypes DEF Parting, Modes
  <1>3. words \o <<>> = words
    OBVIOUS
  <1>4. Parting(words) = With(words, Parting(<<>>))
    BY <1>3 DEF With, Parting, Reading
  <1>5. Close(Parting(words)) = Parting(words)
    <2> DEFINE u == Parting(words)
    <2> HIDE DEF u
    <2>1. u.open = FALSE
      BY <1>1 DEF u
    <2>2. Close(u) = u
      BY <2>1 DEF Close
    <2> QED BY <2>2 DEF u
  <1> QED BY <1>1, <1>2, <1>4, <1>5 DEF Tidy

(* One that takes a path apart goes on doing so.                           *)
Parted(S) == {st \in Tidy(S) : st.mode = "path"}

LEMMA PathSymbol ==
  ASSUME NEW S, NEW st \in Parted(S), NEW c \in S
  PROVE  /\ ReadSymbol(st, c) \in Parted(S)
         /\ ReadSymbol(st, c) = IF c = "/" THEN Close(st) ELSE Take(st, c)
  <1>1. st \in Tidy(S) /\ st.mode = "path"
    BY DEF Parted
  <1>2. ReadSymbol(st, c) = IF c = "/" THEN Close(st) ELSE Take(st, c)
    BY <1>1 DEF ReadSymbol
  <1>3. Close(st).mode = "path"
    <2> DEFINE w == Close(st).words
    <2>1. Close(st) = Reading("path", FALSE, <<>>, w)
      BY <1>1, CloseSettled
    <2> HIDE DEF w
    <2>2. Reading("path", FALSE, <<>>, w).mode = "path"
      BY DEF Reading
    <2> QED BY <2>1, <2>2
  <1>4. Take(st, c).mode = "path"
    BY <1>1, TakeFields
  <1>5. ReadSymbol(st, c) \in Tidy(S)
    BY <1>1, SymbolTidy
  <1> QED BY <1>2, <1>3, <1>4, <1>5 DEF Parted

LEMMA PathRead ==
  ASSUME NEW S, NEW st \in Parted(S), NEW path \in Seq(S)
  PROVE  Read(st, path) \in Parted(S)
  <1> DEFINE I == {t \in Seq(S) : Read(st, t) \in Parted(S)}
  <1>0. st \in Reader(S)
    BY DEF Parted, Tidy
  <1>1. <<>> \in I
    <2>1. <<>> \in Seq(S)
      OBVIOUS
    <2> QED BY <1>0, <2>1, ReadEmpty
  <1>2. ASSUME NEW t \in I, NEW c \in S
        PROVE  Append(t, c) \in I
    <2>1. t \in Seq(S) /\ Append(t, c) \in Seq(S) /\ Read(st, t) \in Parted(S)
      OBVIOUS
    <2>2. Read(st, Append(t, c)) = ReadSymbol(Read(st, t), c)
      BY <1>0, <2>1, ReadAppend
    <2> QED BY <2>1, <2>2, PathSymbol
  <1>3. \A t \in Seq(S) : t \in I
    <2>1. I \in SUBSET Seq(S)
      OBVIOUS
    <2> HIDE DEF I
    <2> QED BY <1>1, <1>2, <2>1, SeqInduct
  <1> QED BY <1>3

LEMMA PartsType ==
  ASSUME NEW S, NEW path \in Seq(S)
  PROVE  /\ Parting(<<>>) \in Parted(S) /\ Parting(<<>>) \in Reader(S)
         /\ Read(Parting(<<>>), path) \in Parted(S) /\ Read(Parting(<<>>), path) \in Reader(S)
         /\ Parts(path) \in Seq(Said(S))
         /\ Close(Read(Parting(<<>>), path)) = Parting(Parts(path))
  <1> DEFINE start == Parting(<<>>)
             r == Read(start, path)
  <1>1. start \in Parted(S) /\ start \in Reader(S)
    BY PartingTidy, WordTypes DEF Parted
  <1> HIDE DEF start
  <1>2. r \in Parted(S)
    BY <1>1, PathRead
  <1> HIDE DEF r
  <1>3. r \in Tidy(S) /\ r.mode = "path" /\ r \in Reader(S)
    BY <1>2 DEF Parted, Tidy
  <1>4. Close(r) = Reading(r.mode, FALSE, <<>>, Close(r).words) /\ Close(r).words \in Seq(Said(S))
    BY <1>3, CloseSettled
  <1>5. Parts(path) = Close(r).words
    BY DEF Parts, r, start
  <1>6. Close(r) = Parting(Parts(path))
    BY <1>3, <1>4, <1>5 DEF Parting
  <1> QED BY <1>1, <1>2, <1>3, <1>4, <1>5, <1>6 DEF r, start

(* What stands after a slash is taken apart by itself.                     *)
LEMMA PartsSplit ==
  ASSUME NEW S, "/" \in S, NEW a \in Seq(S), NEW b \in Seq(S)
  PROVE  Parts((a \o Slash) \o b) = Parts(a) \o Parts(b)
  <1> DEFINE start == Parting(<<>>)
             r == Read(start, a)
             words == Parts(a)
             mid == Parting(words)
             front == a \o Slash
             rb == Read(start, b)
  <1>1. Slash \in Seq(S) /\ front \in Seq(S)
    BY DEF Slash
  <1>2. /\ start \in Parted(S) /\ start \in Reader(S) /\ r \in Parted(S) /\ r \in Reader(S)
        /\ words \in Seq(Said(S)) /\ Close(r) = mid
        /\ rb \in Parted(S) /\ rb \in Reader(S) /\ Close(rb) = Parting(Parts(b))
        /\ Parts(b) \in Seq(Said(S))
    BY PartsType
  <1>3. mid \in Reader(S) /\ mid = With(words, start)
    BY <1>2, PartingTidy
  <1> HIDE DEF words, mid, start
  <1>4. Read(r, Slash) = mid
    <2> HIDE DEF r
    <2>1. ReadSymbol(r, "/") = mid
      BY <1>2, PathSymbol
    <2>2. Read(r, <<"/">>) = ReadSymbol(r, "/")
      BY <1>2, ReadOne
    <2> QED BY <2>1, <2>2 DEF Slash
  <1>5. Read(start, front) = mid
    <2>1. Read(start, a \o Slash) = Read(Read(start, a), Slash)
      BY <1>1, <1>2, ReadConcat
    <2> QED BY <1>4, <2>1
  <1> HIDE DEF front, r, rb
  <1>6. Read(start, front \o b) = Read(mid, b)
    <2>0. start \in Reader(S) /\ front \in Seq(S)
      BY <1>1, <1>2
    <2>1. Read(start, Cat(front, b)) = Read(Read(start, front), b)
      BY <2>0, ReadCat
    <2> QED BY <1>5, <2>1 DEF Cat
  <1>7. Read(mid, b) = With(words, rb)
    <2>1. Read(With(words, start), b) = With(words, Read(start, b))
      BY <1>2, ReadFramed
    <2> QED BY <1>3, <2>1 DEF rb

  <1>8. Close(With(words, rb)) = With(words, Close(rb))
    BY <1>2, CloseFramed
  <1>9. With(words, Close(rb)).words = words \o Parts(b)
    <2>1. Close(rb).words = Parts(b)
      BY <1>2, PartingTidy
    <2> QED BY <2>1, WithFields
  <1>10. Parts(front \o b) = Close(Read(start, front \o b)).words
    BY DEF Parts, start
  <1> QED BY <1>6, <1>7, <1>8, <1>9, <1>10 DEF front, words

(* Slashes at the end, and at the start, make no component.                *)
LEMMA PartsSlashes ==
  ASSUME NEW S, "/" \in S, NEW a \in Seq(S), NEW t \in Seq({"/"})
  PROVE  Parts(a \o t) = Parts(a) /\ Parts(t \o a) = Parts(a) /\ t \in Seq(S)
  <1> DEFINE start == Parting(<<>>)
             Good(st, x) == Close(Read(st, x)) = Close(st)
  <1>1. /\ start \in Parted(S) /\ start \in Reader(S) /\ Close(start) = start
        /\ start.open = FALSE
    BY PartsType, PartingTidy, WordTypes
  <1>2. ASSUME NEW x \in Seq({"/"})
        PROVE  x \in Seq(S)
    OBVIOUS
  <1>3. ASSUME NEW st \in Parted(S)
        PROVE  \A x \in Seq({"/"}) :
                  Close(Read(st, x)) = Close(st) /\ (x # <<>> => Read(st, x) = Close(st))
    <2> DEFINE I == {x \in Seq({"/"}) :
                        Close(Read(st, x)) = Close(st) /\ (x # <<>> => Read(st, x) = Close(st))}
    <2>0. st \in Reader(S) /\ st \in Tidy(S)
      BY DEF Parted, Tidy
    <2>1. <<>> \in I
      <3>1. <<>> \in Seq({"/"})
        OBVIOUS
      <3> QED BY <2>0, <3>1, ReadEmpty
    <2>2. ASSUME NEW x \in I, NEW c \in {"/"}
          PROVE  Append(x, c) \in I
      <3>1. /\ x \in Seq({"/"}) /\ Append(x, c) \in Seq({"/"})
            /\ Close(Read(st, x)) = Close(st) /\ c = "/" /\ c \in S
        OBVIOUS
      <3>2. x \in Seq(S)
        BY <1>2, <3>1
      <3> DEFINE r == Read(st, x)
      <3>3. r \in Parted(S)
        BY <3>2, PathRead
      <3>4. Read(st, Append(x, c)) = ReadSymbol(r, c)
        BY <2>0, <3>1, <3>2, ReadAppend
      <3>5. ReadSymbol(r, c) = Close(r)
        <4> HIDE DEF r
        <4> QED BY <3>1, <3>3, PathSymbol
      <3>6. Close(Close(st)) = Close(st)
        BY <2>0, CloseSettled
      <3> QED BY <3>1, <3>4, <3>5, <3>6
    <2>3. \A x \in Seq({"/"}) : x \in I
      <3>1. I \in SUBSET Seq({"/"})
        OBVIOUS
      <3> HIDE DEF I
      <3> QED BY <2>1, <2>2, <3>1, SeqInduct
    <2> QED BY <2>3
  <1>4. t \in Seq(S)
    BY <1>2
  <1> HIDE DEF start
  <1>5. Parts(a \o t) = Parts(a)
    <2> DEFINE r == Read(start, a)
    <2>1. r \in Parted(S)
      BY <1>1, PathRead
    <2>2. Read(start, a \o t) = Read(r, t)
      BY <1>1, <1>4, ReadConcat
    <2> HIDE DEF r
    <2>3. Close(Read(r, t)) = Close(r)
      BY <1>3, <2>1
    <2> QED BY <2>2, <2>3 DEF Parts, r, start
  <1>6. Parts(t \o a) = Parts(a)
    <2>1. Read(start, t \o a) = Read(Read(start, t), a)
      BY <1>1, <1>4, ReadConcat
    <2>2. Read(start, t) = start
      <3>1. CASE t = <<>>
        BY <1>1, <3>1, ReadEmpty
      <3>2. CASE t # <<>>
        BY <1>1, <1>3, <3>2
      <3> QED BY <3>1, <3>2
    <2> QED BY <2>1, <2>2 DEF Parts, start
  <1> QED BY <1>4, <1>5, <1>6

(* A text without a slash is one component, unless it is empty.            *)
LEMMA PartsName ==
  ASSUME NEW S, NEW name \in Seq(S), name # <<>>, \A i \in 1 .. Len(name) : name[i] # "/"
  PROVE  Parts(name) = <<Word(name)>>
  <1> DEFINE B == S \ {"/"}
             start == Parting(<<>>)
             Good(x, r) == /\ r.mode = "path" /\ r.word = x /\ r.words = <<>>
                           /\ x # <<>> => r.open = TRUE
             I == {x \in Seq(B) : Good(x, Read(start, x))}
  <1>0. name \in Seq(B) /\ B \subseteq S
    OBVIOUS
  <1>1. start \in Reader(B) /\ Good(<<>>, start)
    BY PartsType, PartingTidy, WordTypes
  <1> HIDE DEF start
  <1>2. <<>> \in I
    <2>1. <<>> \in Seq(B)
      OBVIOUS
    <2>2. Read(start, <<>>) = start
      BY <1>1, ReadEmpty
    <2>3. Good(<<>>, Read(start, <<>>))
      BY <1>1, <2>2
    <2> HIDE DEF Good
    <2> QED BY <2>1, <2>3
  <1>3. ASSUME NEW x \in I, NEW c \in B
        PROVE  Append(x, c) \in I
    <2> DEFINE r == Read(start, x)
               n == ReadSymbol(r, c)
               longer == Append(x, c)
    <2>1. x \in Seq(B) /\ longer \in Seq(B) /\ Good(x, r)
      <3> HIDE DEF Good, B
      <3> QED OBVIOUS
    <2>2. Read(start, longer) = n
      <3> HIDE DEF B
      <3> QED BY <1>1, <2>1, ReadAppend
    <2> HIDE DEF r
    <2>3. n = Take(r, c)
      BY <2>1 DEF ReadSymbol
    <2>4. n.mode = "path" /\ n.word = longer /\ n.words = <<>> /\ n.open = TRUE
      <3> HIDE DEF n
      <3> QED BY <2>1, <2>3, TakeFields
    <2> HIDE DEF n, longer
    <2>5. Good(longer, Read(start, longer))
      BY <2>2, <2>4
    <2> HIDE DEF Good, B
    <2> QED BY <2>1, <2>5 DEF longer
  <1>4. \A x \in Seq(B) : x \in I
    <2> HIDE DEF Good, B
    <2>1. I \in SUBSET Seq(B)
      OBVIOUS
    <2> HIDE DEF I
    <2> QED BY <1>2, <1>3, <2>1, SeqInduct
  <1> DEFINE r == Read(start, name)
  <1>5. Good(name, r)
    <2> HIDE DEF Good, B
    <2> QED BY <1>0, <1>4
  <1> HIDE DEF r
  <1>6. r.open = TRUE /\ r.word = name /\ r.words = <<>>
    BY <1>5
  <1>7. Close(r) = Reading(r.mode, FALSE, <<>>, Append(<<>>, Word(name)))
    BY <1>6 DEF Close
  <1>8. Close(r).words = Append(<<>>, Word(name))
    BY <1>7 DEF Reading
  <1> QED BY <1>8 DEF Parts, r, start

LEMMA IsConcat ==
  ASSUME NEW T, NEW a \in Seq(T), NEW b \in Seq(T), NEW c \in Seq(T), Len(c) = Len(a) + Len(b),
         \A i \in 1 .. Len(a) : c[i] = a[i], \A i \in 1 .. Len(b) : c[Len(a) + i] = b[i]
  PROVE  c = a \o b
  <1> DEFINE u == a \o b
  <1>1. Len(a) \in Nat /\ Len(b) \in Nat
    OBVIOUS
  <1>2. u \in Seq(T) /\ Len(u) = Len(a) + Len(b)
    OBVIOUS
  <1>3. \A i \in 1 .. Len(a) : u[i] = a[i]
    OBVIOUS
  <1>4. \A i \in 1 .. Len(b) : u[Len(a) + i] = b[i]
    OBVIOUS
  <1> HIDE DEF u
  <1>5. ASSUME NEW i \in 1 .. (Len(a) + Len(b))
        PROVE  c[i] = u[i]
    <2>1. CASE i <= Len(a)
      BY <1>1, <1>3, <2>1
    <2>2. CASE ~(i <= Len(a))
      <3> DEFINE k == i - Len(a)
      <3>1. k \in 1 .. Len(b) /\ i = Len(a) + k
        BY <1>1, <2>2
      <3> HIDE DEF k
      <3> QED BY <1>4, <3>1
    <2> QED BY <2>1, <2>2
  <1>6. c = u
    BY <1>2, <1>5
  <1> QED BY <1>6 DEF u

(* The names of the components.                                            *)
Texts(words) == [i \in DOMAIN words |-> words[i].text]

LEMMA TextsConcat ==
  ASSUME NEW S, NEW a \in Seq(Said(S)), NEW b \in Seq(Said(S))
  PROVE  Texts(a) \in Seq(Seq(S)) /\ Texts(a \o b) = Texts(a) \o Texts(b)
  <1> DEFINE D == Said(S)
             T == Seq(S)
             c == a \o b
  <1>1. /\ a \in Seq(D) /\ b \in Seq(D) /\ c \in Seq(D)
        /\ Len(a) \in Nat /\ Len(b) \in Nat /\ Len(c) = Len(a) + Len(b)
        /\ \A i \in 1 .. Len(a) : c[i] = a[i]
        /\ \A i \in 1 .. Len(b) : c[Len(a) + i] = b[i]
    <2> HIDE DEF D
    <2>1. a \in Seq(D) /\ b \in Seq(D)
      BY DEF D
    <2> QED BY <2>1
  <1>2. \A w \in D : w.text \in T
    BY DEF Said
  <1> HIDE DEF c, D, T
  <1>3. ASSUME NEW s \in Seq(D)
        PROVE  /\ Texts(s) \in Seq(T) /\ Len(Texts(s)) = Len(s)
               /\ \A i \in 1 .. Len(s) : Texts(s)[i] = s[i].text
    <2>1. DOMAIN s = 1 .. Len(s) /\ Len(s) \in Nat /\ \A i \in 1 .. Len(s) : s[i] \in D
      OBVIOUS
    <2> DEFINE n == Len(s)
    <2> HIDE DEF n
    <2>2. Texts(s) \in [1 .. n -> T] /\ \A i \in 1 .. n : Texts(s)[i] = s[i].text
      BY <1>2, <2>1 DEF Texts, n
    <2>3. n \in Nat
      BY <2>1 DEF n
    <2> DEFINE f == Texts(s)
    <2> HIDE DEF f
    <2>4. f \in Seq(T) /\ Len(f) = n
      BY <2>2, <2>3, FunctionIsSeq DEF f
    <2> QED BY <2>2, <2>4 DEF f, n
  <1> DEFINE x == Texts(a)
             y == Texts(b)
             z == Texts(c)
  <1>4. /\ x \in Seq(T) /\ y \in Seq(T) /\ z \in Seq(T)
        /\ Len(x) = Len(a) /\ Len(y) = Len(b) /\ Len(z) = Len(a) + Len(b)
        /\ \A i \in 1 .. Len(a) : x[i] = a[i].text
        /\ \A i \in 1 .. Len(b) : y[i] = b[i].text
        /\ \A i \in 1 .. Len(c) : z[i] = c[i].text
    BY <1>1, <1>3
  <1> HIDE DEF x, y, z
  <1>5. \A i \in 1 .. Len(a) : z[i] = x[i]
    <2>1. \A i \in 1 .. Len(a) : i \in 1 .. Len(c) /\ c[i] = a[i]
      BY <1>1
    <2> QED BY <1>4, <2>1
  <1>6. ASSUME NEW i \in 1 .. Len(b)
        PROVE  z[Len(a) + i] = y[i]
    BY <1>1, <1>4
  <1>7. z = x \o y
    <2>1. x \in Seq(T) /\ y \in Seq(T) /\ z \in Seq(T) /\ Len(z) = Len(x) + Len(y)
      BY <1>4
    <2>2. \A i \in 1 .. Len(x) : z[i] = x[i]
      BY <1>4, <1>5
    <2>3. \A i \in 1 .. Len(y) : z[Len(x) + i] = y[i]
      BY <1>4, <1>6
    <2> QED BY <2>1, <2>2, <2>3, IsConcat
  <1> QED BY <1>4, <1>7 DEF x, y, z, c, T

(* A text is what trimming leaves of it, and slashes.                      *)
LEMMA TrimEndSplit ==
  ASSUME NEW S, NEW path \in Seq(S)
  PROVE  TrimEnd(path) \in Seq(S) /\ \E t \in Seq({"/"}) : path = TrimEnd(path) \o t
  <1> DEFINE p == TrimEnd(path)
             len == Len(path)
             n == Len(p)
             t == [i \in 1 .. (len - n) |-> "/"]
  <1>1. /\ p \in Seq(S) /\ n <= len
        /\ \A i \in 1 .. n : p[i] = path[i]
        /\ \A i \in (n + 1) .. len : path[i] = "/"
    BY TrimEndProperties
  <1> HIDE DEF p
  <1>2. len \in Nat /\ n \in Nat /\ len - n \in Nat
    BY <1>1
  <1> HIDE DEF n, len
  <1>3. t \in Seq({"/"}) /\ Len(t) = len - n /\ \A i \in 1 .. (len - n) : t[i] = "/"
    BY <1>2
  <1> HIDE DEF t
  <1> DEFINE T == S \cup {"/"}
  <1>4. p \in Seq(T) /\ t \in Seq(T) /\ path \in Seq(T)
    BY <1>1, <1>3
  <1> HIDE DEF T
  <1>5. Len(path) = Len(p) + Len(t)
    BY <1>1, <1>2, <1>3 DEF n, len
  <1>6. \A i \in 1 .. Len(p) : path[i] = p[i]
    BY <1>1, <1>2, <1>3 DEF n
  <1>7. \A i \in 1 .. Len(t) : path[Len(p) + i] = t[i]
    BY <1>1, <1>2, <1>3 DEF n
  <1>8. path = p \o t
    BY <1>4, <1>5, <1>6, <1>7, IsConcat
  <1> QED BY <1>1, <1>3, <1>8 DEF p

LEMMA TrimStartSplit ==
  ASSUME NEW S, NEW path \in Seq(S)
  PROVE  TrimStart(path) \in Seq(S) /\ \E t \in Seq({"/"}) : path = t \o TrimStart(path)
  <1> DEFINE p == TrimStart(path)
             len == Len(path)
             n == Len(p)
             cut == len - n
             t == [i \in 1 .. cut |-> "/"]
  <1>1. /\ p \in Seq(S) /\ cut \in Nat
        /\ \A i \in 1 .. n : p[i] = path[cut + i]
        /\ \A i \in 1 .. cut : path[i] = "/"
    BY TrimStartProperties
  <1> HIDE DEF p
  <1>2. len \in Nat /\ n \in Nat /\ cut + n = len
    BY <1>1
  <1> HIDE DEF n, len, cut
  <1>3. t \in Seq({"/"}) /\ Len(t) = cut /\ \A i \in 1 .. cut : t[i] = "/"
    BY <1>1
  <1> HIDE DEF t
  <1> DEFINE T == S \cup {"/"}
  <1>4. p \in Seq(T) /\ t \in Seq(T) /\ path \in Seq(T)
    BY <1>1, <1>3
  <1> HIDE DEF T
  <1>5. Len(path) = Len(t) + Len(p)
    BY <1>1, <1>2, <1>3 DEF n, len
  <1>6. \A i \in 1 .. Len(t) : path[i] = t[i]
    BY <1>1, <1>2, <1>3 DEF n
  <1>7. \A i \in 1 .. Len(p) : path[Len(t) + i] = p[i]
    BY <1>1, <1>2, <1>3 DEF n
  <1>8. path = t \o p
    BY <1>4, <1>5, <1>6, <1>7, IsConcat
  <1> QED BY <1>1, <1>3, <1>8 DEF p

(* Trimming keeps the components.                                          *)
LEMMA PartsTrimmed ==
  ASSUME NEW S, "/" \in S, NEW path \in Seq(S)
  PROVE  Parts(TrimEnd(path)) = Parts(path) /\ Parts(TrimStart(path)) = Parts(path)
  <1> DEFINE p == TrimEnd(path)
             q == TrimStart(path)
  <1>1. PICK t \in Seq({"/"}) : path = p \o t
    BY TrimEndSplit
  <1>2. PICK u \in Seq({"/"}) : path = u \o q
    BY TrimStartSplit
  <1>3. p \in Seq(S) /\ q \in Seq(S)
    BY TrimEndSplit, TrimStartSplit
  <1> HIDE DEF p, q
  <1>4. Parts(p \o t) = Parts(p)
    BY <1>3, PartsSlashes
  <1>5. Parts(u \o q) = Parts(q)
    BY <1>3, PartsSlashes
  <1> QED BY <1>1, <1>2, <1>4, <1>5 DEF p, q

LEMMA ComponentsParts ==
  ASSUME NEW path
  PROVE  Components(path) = Texts(Parts(path))
  BY DEF Components, Texts, Parts, Read, Parting

(* The components of the directory of a service are those of the root and  *)
(* the name, and the build context adds its own, however the settings are  *)
(* written; dots count as components (service_dir and path_join).          *)
THEOREM PathComponents ==
  ASSUME NEW S, "/" \in S, NEW root \in Seq(S), NEW name \in Seq(S), NEW context \in Seq(S),
         ValidateServiceName(name)
  PROVE  /\ Components(ServiceDir(root, name)) = Append(Components(root), name)
         /\ Components(PathJoin(ServiceDir(root, name), context))
              = Components(ServiceDir(root, name)) \o Components(context)
  <1> DEFINE p == TrimEnd(root)
             dir == ServiceDir(root, name)
             end == TrimEnd(context)
             c == TrimStart(end)
             w == Word(name)
             named == <<w>>
  <1>1. p \in Seq(S) /\ end \in Seq(S)
    BY TrimEndSplit
  <1>2. dir = (p \o Slash) \o name /\ name # <<>> /\ \A i \in 1 .. Len(name) : name[i] # "/"
    BY ServiceDirectory, ValidNames DEF Slash
  <1> HIDE DEF p, dir, end
  <1>3. c \in Seq(S)
    BY <1>1, TrimStartSplit
  <1> HIDE DEF c
  <1>4. Slash \in Seq(S) /\ dir \in Seq(S)
    BY <1>1, <1>2 DEF Slash
  <1>5. Parts(dir) = Parts(root) \o named
    <2>1. Parts((p \o Slash) \o name) = Parts(p) \o Parts(name)
      BY <1>1, PartsSplit
    <2>2. Parts(p) = Parts(root)
      BY PartsTrimmed DEF p
    <2>3. Parts(name) = named
      BY <1>2, PartsName
    <2> QED BY <1>2, <2>1, <2>2, <2>3
  <1>6. Parts(c) = Parts(context)
    <2>1. Parts(c) = Parts(end)
      BY <1>1, PartsTrimmed DEF c
    <2>2. Parts(end) = Parts(context)
      BY PartsTrimmed DEF end
    <2> QED BY <2>1, <2>2
  <1>7. PathJoin(dir, context) = IF c = <<>> THEN dir ELSE (dir \o Slash) \o c
    <2> DEFINE len == Len(dir)
    <2>1. dir # <<>> /\ dir[len] # "/"
      <3> DEFINE front == p \o Slash
      <3>1. front \in Seq(S)
        BY <1>1, <1>4
      <3>2. dir = front \o name
        BY <1>2
      <3> HIDE DEF front
      <3>3. /\ Len(front) \in Nat /\ Len(name) \in Nat /\ Len(name) > 0
            /\ Len(front \o name) = Len(front) + Len(name)
        BY <1>2, <3>1
      <3>4. (front \o name)[Len(front) + Len(name)] = name[Len(name)]
        BY <3>1, <3>3
      <3>5. name[Len(name)] # "/"
        BY <1>2, <3>3
      <3> QED BY <1>4, <3>2, <3>3, <3>4, <3>5
    <2>2. TrimEnd(dir) = dir
      BY <1>4, <2>1, TrimKeeps
    <2> QED BY <2>1, <2>2 DEF PathJoin, c, end, Slash
  <1>8. Parts(PathJoin(dir, context)) = Parts(dir) \o Parts(context)
    <2>1. CASE c = <<>>
      <3>1. Parts(context) = <<>>
        <4>1. <<>> \in Seq(Said(S)) /\ Parting(<<>>) \in Reader(S)
          BY WordTypes, PartingTidy
        <4>2. Read(Parting(<<>>), <<>>) = Parting(<<>>)
          BY <4>1, ReadEmpty
        <4>3. Parts(<<>>) = <<>>
          BY <4>1, <4>2, PartingTidy DEF Parts
        <4> QED BY <1>6, <2>1, <4>3
      <3>2. Parts(dir) \in Seq(Said(S))
        BY <1>4, PartsType
      <3>3. Parts(dir) \o <<>> = Parts(dir)
        BY <3>2
      <3> QED BY <1>7, <2>1, <3>1, <3>3
    <2>2. CASE c # <<>>
      <3>1. Parts((dir \o Slash) \o c) = Parts(dir) \o Parts(c)
        BY <1>3, <1>4, PartsSplit
      <3> QED BY <1>6, <1>7, <2>2, <3>1
    <2> QED BY <2>1, <2>2
  <1>9. /\ Parts(root) \in Seq(Said(S)) /\ Parts(context) \in Seq(Said(S))
        /\ Parts(dir) \in Seq(Said(S)) /\ named \in Seq(Said(S))
    <2>1. w \in Said(S)
      BY WordTypes
    <2>2. named \in Seq(Said(S))
      BY <2>1
    <2> QED BY <1>4, <2>2, PartsType
  <1>10. Components(dir) = Append(Components(root), name)
    <2>1. Texts(Parts(root) \o named) = Texts(Parts(root)) \o Texts(named)
      <3> DEFINE r == Parts(root)
      <3>1. r \in Seq(Said(S))
        BY <1>9
      <3> HIDE DEF r, named
      <3>2. Texts(r \o named) = Texts(r) \o Texts(named)
        BY <1>9, <3>1, TextsConcat
      <3> QED BY <3>2 DEF r
    <2>2. Texts(named) = <<name>>
      BY DEF Texts, Word
    <2>3. Texts(Parts(root)) \in Seq(Seq(S))
      BY <1>9, TextsConcat
    <2>4. Texts(Parts(root)) \o <<name>> = Append(Texts(Parts(root)), name)
      <3> DEFINE x == Texts(Parts(root))
                 T == Seq(S)
      <3>1. x \in Seq(T) /\ name \in T
        BY <2>3
      <3> HIDE DEF x, T
      <3>2. x \o <<name>> = Append(x, name)
        BY <3>1
      <3> QED BY <3>2 DEF x
    <2> QED BY <1>5, <2>1, <2>2, <2>4, ComponentsParts
  <1>11. Components(PathJoin(dir, context)) = Components(dir) \o Components(context)
    <2> DEFINE x == Parts(dir)
               y == Parts(context)
    <2>1. x \in Seq(Said(S)) /\ y \in Seq(Said(S))
      BY <1>9
    <2>2. Parts(PathJoin(dir, context)) = x \o y
      BY <1>8
    <2> HIDE DEF x, y
    <2>3. Texts(x \o y) = Texts(x) \o Texts(y)
      BY <2>1, TextsConcat
    <2>4. Components(dir) = Texts(x) /\ Components(context) = Texts(y)
      BY ComponentsParts DEF x, y
    <2> QED BY <2>2, <2>3, <2>4, ComponentsParts
  <1> QED BY <1>10, <1>11 DEF dir

-----------------------------------------------------------------------------
(* Where paths lead.                                                       *)

(* The places that are reached by names of a set.                          *)
Spots(N) == [absolute: BOOLEAN, up: Nat, names: Seq(N)]

LEMMA PlaceFields ==
  ASSUME NEW absolute, NEW up, NEW names
  PROVE  /\ Place(absolute, up, names).absolute = absolute
         /\ Place(absolute, up, names).up = up
         /\ Place(absolute, up, names).names = names
  BY DEF Place

LEMMA PlaceType ==
  ASSUME NEW N, NEW absolute \in BOOLEAN, NEW up \in Nat, NEW names \in Seq(N)
  PROVE  Place(absolute, up, names) \in Spots(N)
  BY DEF Place, Spots

LEMMA SpotFields ==
  ASSUME NEW N, NEW at \in Spots(N)
  PROVE  /\ at.absolute \in BOOLEAN /\ at.up \in Nat /\ at.names \in Seq(N)
         /\ at = Place(at.absolute, at.up, at.names)
  BY DEF Place, Spots

LEMMA FrontConcat ==
  ASSUME NEW N, NEW a \in Seq(N), NEW b \in Seq(N), b # <<>>
  PROVE  Front(b) \in Seq(N) /\ Front(a \o b) = a \o Front(b)
  <1> DEFINE len == Len(b) - 1
             c == a \o b
             x == Front(b)
             y == Front(c)
  <1>1. /\ Len(a) \in Nat /\ Len(b) \in Nat /\ len \in Nat
        /\ c \in Seq(N) /\ Len(c) = Len(a) + Len(b)
        /\ \A i \in 1 .. Len(a) : c[i] = a[i]
        /\ \A i \in 1 .. Len(b) : c[Len(a) + i] = b[i]
    OBVIOUS
  <1> HIDE DEF c
  <1>2. /\ x \in Seq(N) /\ Len(x) = len
        /\ \A i \in 1 .. len : x[i] = b[i]
    <2>1. x = SubSeq(b, 1, len) /\ len <= Len(b)
      BY <1>1 DEF Front
    <2> HIDE DEF x, len
    <2>2. /\ SubSeq(b, 1, len) \in Seq(N) /\ Len(SubSeq(b, 1, len)) = len
          /\ \A i \in 1 .. len : SubSeq(b, 1, len)[i] = b[i]
      BY <1>1, <2>1
    <2> QED BY <2>1, <2>2
  <1>3. /\ y \in Seq(N) /\ Len(y) = Len(a) + len
        /\ \A i \in 1 .. (Len(a) + len) : y[i] = c[i]
    BY <1>1 DEF Front
  <1> HIDE DEF x, y
  <1>4. \A i \in 1 .. Len(a) : y[i] = a[i]
    BY <1>1, <1>3
  <1>5. \A i \in 1 .. Len(x) : y[Len(a) + i] = x[i]
    BY <1>1, <1>2, <1>3
  <1>6. y = a \o x
    BY <1>1, <1>2, <1>3, <1>4, <1>5, IsConcat
  <1> QED BY <1>2, <1>6 DEF c, x, y

LEMMA FollowCases ==
  ASSUME NEW at, NEW name
  PROVE  /\ name = <<".">> => Follow(at, name) = at
         /\ name = <<".", ".">> =>
               Follow(at, name) = IF at.names # <<>>
                                  THEN Place(at.absolute, at.up, Front(at.names))
                                  ELSE IF at.absolute THEN at ELSE Place(FALSE, at.up + 1, <<>>)
         /\ (name # <<".">> /\ name # <<".", ".">>) =>
               Follow(at, name) = Place(at.absolute, at.up, Append(at.names, name))
  <1>1. <<".", ".">> # <<".">>
    OBVIOUS
  <1> QED BY <1>1 DEF Follow

(* A step keeps to the kind of path and never comes back down by itself.   *)
LEMMA FollowType ==
  ASSUME NEW N, NEW at \in Spots(N), NEW name \in N
  PROVE  /\ Follow(at, name) \in Spots(N)
         /\ Follow(at, name).absolute = at.absolute
         /\ at.up <= Follow(at, name).up
  <1> DEFINE b == at.absolute
             u == at.up
             s == at.names
  <1>1. b \in BOOLEAN /\ u \in Nat /\ s \in Seq(N)
    BY SpotFields
  <1> HIDE DEF b, u, s
  <1>2. CASE name = <<".">>
    <2>1. Follow(at, name) = at
      BY <1>2, FollowCases
    <2> QED BY <1>1, <2>1 DEF b, u
  <1>3. CASE name = <<".", ".">>
    <2>2. Follow(at, name) = IF s # <<>> THEN Place(b, u, Front(s))
                             ELSE IF b THEN at ELSE Place(FALSE, u + 1, <<>>)
      BY <1>3, FollowCases DEF b, u, s
    <2>3. CASE s # <<>>
      <3> DEFINE f == Front(s)
      <3>1. f \in Seq(N)
        BY <1>1, <2>3, FrontConcat
      <3> HIDE DEF f
      <3>2. Place(b, u, f) \in Spots(N) /\ Place(b, u, f).absolute = b /\ Place(b, u, f).up = u
        BY <1>1, <3>1, PlaceType, PlaceFields
      <3> QED BY <1>1, <2>2, <2>3, <3>2 DEF f, b, u
    <2>4. CASE s = <<>> /\ b
      <3>1. Follow(at, name) = at
        BY <2>2, <2>4
      <3> QED BY <1>1, <3>1 DEF b, u
    <2>5. CASE s = <<>> /\ ~b
      <3> DEFINE v == u + 1
                 e == <<>>
      <3>1. v \in Nat /\ e \in Seq(N) /\ FALSE \in BOOLEAN /\ u <= v
        BY <1>1
      <3>2. Follow(at, name) = Place(FALSE, v, e)
        BY <2>2, <2>5
      <3> HIDE DEF v, e
      <3>3. Place(FALSE, v, e) \in Spots(N)
        BY <3>1, PlaceType
      <3>4. Place(FALSE, v, e).absolute = FALSE /\ Place(FALSE, v, e).up = v
        BY DEF Place
      <3>5. b = FALSE
        BY <1>1, <2>5
      <3> QED BY <3>1, <3>2, <3>3, <3>4, <3>5 DEF b, u
    <2> QED BY <2>3, <2>4, <2>5
  <1>4. CASE name # <<".">> /\ name # <<".", ".">>
    <2> DEFINE f == Append(s, name)
    <2>1. f \in Seq(N)
      BY <1>1
    <2>2. Follow(at, name) = Place(b, u, f)
      BY <1>4, FollowCases DEF b, u, s
    <2> HIDE DEF f
    <2>3. Place(b, u, f) \in Spots(N) /\ Place(b, u, f).absolute = b /\ Place(b, u, f).up = u
      BY <1>1, <2>1, PlaceType, PlaceFields
    <2> QED BY <1>1, <2>2, <2>3 DEF b, u
  <1> QED BY <1>2, <1>3, <1>4

(* The places between the names of a path.                                 *)
LEMMA WalkTrace ==
  ASSUME NEW N, NEW at \in Spots(N), NEW path \in Seq(N)
  PROVE  \E f \in [0 .. Len(path) -> Spots(N)] :
            /\ f[0] = at /\ f[Len(path)] = Walk(at, path)
            /\ \A i \in 1 .. Len(path) : f[i] = Follow(f[i - 1], path[i])
  <1> DEFINE V == Spots(N)
             len == Len(path)
             step == [i \in 1 .. len |-> [v \in V |-> Follow(v, path[i])]]
             Unwound(it) ==
               it = [s \in SUBSET DOMAIN path |->
                       IF s = {} THEN at ELSE Follow(it[s \ {Max(s)}], path[Max(s)])]
  <1>1. Walk(at, path) = (CHOOSE it : Unwound(it))[DOMAIN path]
    BY DEF Walk, FoldLeft, MapThenFoldSet
  <1>2. len \in Nat /\ DOMAIN path = 1 .. len /\ \A i \in 1 .. len : path[i] \in N
    OBVIOUS
  <1> HIDE DEF V, len
  <1>3. step \in [1 .. len -> [V -> V]]
    BY <1>2, FollowType DEF V
  <1>4. \A i \in 1 .. len, v \in V : step[i][v] = Follow(v, path[i])
    OBVIOUS
  <1> HIDE DEF step
  <1>5. PICK g \in [SUBSET (1 .. len) -> V] : Folded(at, step, len, g)
    BY <1>2, <1>3, FoldExists DEF V
  <1>6. ASSUME NEW s \in SUBSET (1 .. len), s # {}
        PROVE  Max(s) \in 1 .. len /\ s \ {Max(s)} \in SUBSET (1 .. len)
    BY <1>2, <1>6, Greatest
  <1>7. \A s \in SUBSET DOMAIN path :
           g[s] = IF s = {} THEN at ELSE Follow(g[s \ {Max(s)}], path[Max(s)])
    BY <1>2, <1>4, <1>5, <1>6 DEF Folded
  <1>8. Unwound(g)
    BY <1>2, <1>5, <1>7
  <1>9. PICK h : Unwound(h) /\ Walk(at, path) = h[DOMAIN path]
    BY <1>1, <1>8
  <1> DEFINE f == [i \in 0 .. len |-> h[1 .. i]]
  <1>10. f[0] = at /\ f[len] = Walk(at, path)
    <2>1. 1 .. 0 = {} /\ {} \in SUBSET DOMAIN path
      OBVIOUS
    <2>2. h[{}] = at
      BY <1>9, <2>1
    <2>3. 0 \in 0 .. len /\ len \in 0 .. len
      BY <1>2
    <2> QED BY <1>2, <1>9, <2>1, <2>2, <2>3
  <1>11. ASSUME NEW i \in 1 .. len
         PROVE  f[i] = Follow(f[i - 1], path[i])
    <2>1. /\ 1 .. i # {} /\ 1 .. i \in SUBSET DOMAIN path /\ i \in 0 .. len /\ i - 1 \in 0 .. len
          /\ Max(1 .. i) = i /\ (1 .. i) \ {i} = 1 .. (i - 1)
      BY <1>2, Segments
    <2>2. h[1 .. i] = Follow(h[1 .. (i - 1)], path[i])
      BY <1>9, <2>1
    <2> QED BY <2>1, <2>2
  <1> HIDE DEF f, Unwound
  <1>12. \A i \in 0 .. len : f[i] \in V
    <2>1. f[0] \in V
      BY <1>10 DEF V
    <2>2. \A i \in 1 .. len : f[i - 1] \in V => f[i] \in V
      BY <1>2, <1>11, FollowType DEF V
    <2> QED BY <1>2, <2>1, <2>2, Inherited
  <1>13. f \in [0 .. len -> V]
    BY <1>12 DEF f
  <1> QED BY <1>10, <1>11, <1>13 DEF V, len

LEMMA WalkType ==
  ASSUME NEW N, NEW at \in Spots(N), NEW path \in Seq(N)
  PROVE  Walk(at, path) \in Spots(N)
  <1>1. Len(path) \in 0 .. Len(path)
    OBVIOUS
  <1> QED BY <1>1, WalkTrace

LEMMA WalkEmpty ==
  ASSUME NEW N, NEW at \in Spots(N)
  PROVE  Walk(at, <<>>) = at
  <1>1. ASSUME NEW path \in Seq(N), Len(path) = 0
        PROVE  Walk(at, path) = at
    <2>1. PICK f \in [0 .. Len(path) -> Spots(N)] :
              /\ f[0] = at /\ f[Len(path)] = Walk(at, path)
              /\ \A i \in 1 .. Len(path) : f[i] = Follow(f[i - 1], path[i])
      BY WalkTrace
    <2> QED BY <1>1, <2>1
  <1>2. <<>> \in Seq(N) /\ Len(<<>>) = 0
    OBVIOUS
  <1> QED BY <1>1, <1>2

(* One more name is one more step.                                         *)
LEMMA WalkAppend ==
  ASSUME NEW N, NEW at \in Spots(N), NEW path \in Seq(N), NEW c \in N
  PROVE  Walk(at, Append(path, c)) = Follow(Walk(at, path), c)
  <1>0. ASSUME NEW q \in Seq(N)
        PROVE  \E f \in [0 .. Len(q) -> Spots(N)] :
                  /\ f[0] = at /\ f[Len(q)] = Walk(at, q)
                  /\ \A i \in 1 .. Len(q) : f[i] = Follow(f[i - 1], q[i])
    BY WalkTrace
  <1> DEFINE longer == Append(path, c)
             len == Len(path)
  <1>1. /\ longer \in Seq(N) /\ len \in Nat /\ Len(longer) = len + 1 /\ longer[len + 1] = c
        /\ \A i \in 1 .. len : longer[i] = path[i]
    BY AppendProperties
  <1> HIDE DEF longer
  <1>2. PICK f \in [0 .. len -> Spots(N)] :
            /\ f[0] = at /\ f[len] = Walk(at, path)
            /\ \A i \in 1 .. len : f[i] = Follow(f[i - 1], path[i])
    BY <1>0
  <1> HIDE DEF len
  <1>3. PICK g \in [0 .. (len + 1) -> Spots(N)] :
            /\ g[0] = at /\ g[len + 1] = Walk(at, longer)
            /\ \A i \in 1 .. (len + 1) : g[i] = Follow(g[i - 1], longer[i])
    <2>1. longer \in Seq(N) /\ Len(longer) = len + 1
      BY <1>1
    <2> QED BY <1>0, <2>1
  <1> DEFINE I == {n \in Nat : n <= len => f[n] = g[n]}
  <1>4. 0 \in I
    BY <1>2, <1>3
  <1>5. ASSUME NEW n \in I
        PROVE  n + 1 \in I
    <2>1. SUFFICES ASSUME n + 1 <= len PROVE f[n + 1] = g[n + 1]
      OBVIOUS
    <2>2. /\ n + 1 \in 1 .. len /\ n + 1 \in 1 .. (len + 1) /\ (n + 1) - 1 = n
          /\ f[n] = g[n]
      BY <1>1, <2>1
    <2> QED BY <1>1, <1>2, <1>3, <2>2
  <1>6. \A n \in Nat : n \in I
    <2>1. I \in SUBSET Nat
      OBVIOUS
    <2> HIDE DEF I
    <2> QED BY <1>4, <1>5, <2>1, NatInduct
  <1>7. f[len] = g[len]
    BY <1>1, <1>6
  <1>8. len + 1 \in 1 .. (len + 1) /\ (len + 1) - 1 = len
    BY <1>1
  <1> QED BY <1>1, <1>2, <1>3, <1>7, <1>8 DEF longer

(* Two paths are walked one after the other.                               *)
LEMMA WalkConcat ==
  ASSUME NEW N, NEW at \in Spots(N), NEW a \in Seq(N), NEW b \in Seq(N)
  PROVE  Walk(at, a \o b) = Walk(Walk(at, a), b)
  <1> DEFINE I == {t \in Seq(N) : Walk(at, a \o t) = Walk(Walk(at, a), t)}
  <1>0. Walk(at, a) \in Spots(N)
    BY WalkType
  <1>1. <<>> \in I
    <2>1. a \o <<>> = a /\ <<>> \in Seq(N)
      OBVIOUS
    <2> QED BY <1>0, <2>1, WalkEmpty
  <1>2. ASSUME NEW t \in I, NEW c \in N
        PROVE  Append(t, c) \in I
    <2>1. t \in Seq(N) /\ a \o t \in Seq(N) /\ Append(t, c) \in Seq(N)
      OBVIOUS
    <2>2. a \o Append(t, c) = Append(a \o t, c)
      BY <2>1
    <2>3. Walk(at, Append(a \o t, c)) = Follow(Walk(at, a \o t), c)
      <3> DEFINE u == a \o t
      <3>1. u \in Seq(N)
        BY <2>1
      <3> HIDE DEF u
      <3>2. Walk(at, Append(u, c)) = Follow(Walk(at, u), c)
        BY <3>1, WalkAppend
      <3> QED BY <3>2 DEF u
    <2>4. Walk(Walk(at, a), Append(t, c)) = Follow(Walk(Walk(at, a), t), c)
      BY <1>0, <2>1, WalkAppend
    <2>5. Walk(at, a \o t) = Walk(Walk(at, a), t)
      OBVIOUS
    <2> QED BY <2>1, <2>2, <2>3, <2>4, <2>5
  <1>3. \A t \in Seq(N) : t \in I
    <2>1. I \in SUBSET Seq(N)
      OBVIOUS
    <2> HIDE DEF I
    <2> QED BY <1>1, <1>2, <2>1, SeqInduct
  <1> QED BY <1>3

(* A walk keeps to the kind of path and never comes back down by itself.   *)
LEMMA WalkKind ==
  ASSUME NEW N, NEW at \in Spots(N), NEW path \in Seq(N)
  PROVE  Walk(at, path).absolute = at.absolute /\ at.up <= Walk(at, path).up
  <1> DEFINE I == {t \in Seq(N) : /\ Walk(at, t).absolute = at.absolute
                                  /\ at.up <= Walk(at, t).up}
  <1>0. at.up \in Nat
    BY SpotFields
  <1>1. <<>> \in I
    <2>1. <<>> \in Seq(N) /\ Walk(at, <<>>) = at
      BY WalkEmpty
    <2> QED BY <1>0, <2>1
  <1>2. ASSUME NEW t \in I, NEW c \in N
        PROVE  Append(t, c) \in I
    <2> DEFINE w == Walk(at, t)
               x == Follow(w, c)
    <2>1. t \in Seq(N) /\ Append(t, c) \in Seq(N) /\ w.absolute = at.absolute /\ at.up <= w.up
      OBVIOUS
    <2>2. w \in Spots(N)
      BY <2>1, WalkType
    <2>3. Walk(at, Append(t, c)) = x
      BY <2>1, WalkAppend
    <2> HIDE DEF w
    <2>4. x \in Spots(N) /\ x.absolute = w.absolute /\ w.up <= x.up
      BY <2>2, FollowType
    <2> HIDE DEF x
    <2>5. w.up \in Nat /\ x.up \in Nat
      BY <2>2, <2>4, SpotFields
    <2>6. at.up <= x.up
      BY <1>0, <2>1, <2>4, <2>5
    <2> QED BY <2>1, <2>3, <2>4, <2>6
  <1>3. \A t \in Seq(N) : t \in I
    <2>1. I \in SUBSET Seq(N)
      OBVIOUS
    <2> HIDE DEF I
    <2> QED BY <1>1, <1>2, <2>1, SeqInduct
  <1> QED BY <1>3

LEMMA BelowType ==
  ASSUME NEW N, NEW at \in Spots(N), NEW names \in Seq(N)
  PROVE  /\ Below(at, names) \in Spots(N)
         /\ Below(at, names).absolute = at.absolute
         /\ Below(at, names).up = at.up
         /\ Below(at, names).names = at.names \o names
  <1> DEFINE b == at.absolute
             u == at.up
             s == at.names \o names
  <1>1. b \in BOOLEAN /\ u \in Nat /\ s \in Seq(N)
    BY SpotFields
  <1>2. Below(at, names) = Place(b, u, s)
    BY DEF Below
  <1> HIDE DEF b, u, s
  <1>3. Place(b, u, s) \in Spots(N)
    BY <1>1, PlaceType
  <1>4. /\ Place(b, u, s).absolute = b /\ Place(b, u, s).up = u /\ Place(b, u, s).names = s
    BY PlaceFields
  <1> QED BY <1>2, <1>3, <1>4 DEF b, u, s

(* A step that does not climb above its start takes the same way from      *)
(* anywhere.                                                               *)
LEMMA FollowBelow ==
  ASSUME NEW N, NEW at \in Spots(N), NEW w \in Spots(N), NEW name \in N,
         ~w.absolute, Follow(w, name).up = w.up
  PROVE  Follow(Below(at, w.names), name) = Below(at, Follow(w, name).names)
  <1> DEFINE b == at.absolute
             u == at.up
             s == at.names
             t == w.names
             here == Below(at, t)
  <1>1. /\ b \in BOOLEAN /\ u \in Nat /\ s \in Seq(N)
        /\ w.absolute \in BOOLEAN /\ w.up \in Nat /\ t \in Seq(N)
    BY SpotFields
  <1> HIDE DEF t
  <1>2. here \in Spots(N) /\ here.absolute = b /\ here.up = u /\ here.names = s \o t
    BY <1>1, BelowType
  <1>3. here = Place(b, u, s \o t)
    BY DEF Below
  <1>4. \A x \in Seq(N) : Below(at, x) = Place(b, u, s \o x)
    BY DEF Below
  <1> HIDE DEF b, u, s, here
  <1>5. CASE name = <<".">>
    <2>1. Follow(w, name) = w /\ Follow(here, name) = here
      BY <1>5, FollowCases
    <2> QED BY <2>1 DEF here, t
  <1>6. CASE name = <<".", ".">>
    <2>2. Follow(w, name) = IF t # <<>> THEN Place(w.absolute, w.up, Front(t))
                            ELSE Place(FALSE, w.up + 1, <<>>)
      BY <1>6, FollowCases DEF t
    <2>3. t # <<>>
      <3>1. SUFFICES ASSUME t = <<>> PROVE FALSE
        OBVIOUS
      <3>2. Follow(w, name) = Place(FALSE, w.up + 1, <<>>)
        BY <2>2, <3>1
      <3>3. Follow(w, name).up = w.up + 1
        BY <3>2 DEF Place
      <3> QED BY <1>1, <3>3
    <2>4. Follow(w, name).names = Front(t)
      BY <2>2, <2>3, PlaceFields
    <2>5. Front(t) \in Seq(N) /\ Front(s \o t) = s \o Front(t)
      BY <1>1, <2>3, FrontConcat
    <2>6. here.names # <<>>
      BY <1>1, <1>2, <2>3
    <2>7. Follow(here, name) = Place(b, u, Front(s \o t))
      <3>1. Follow(here, name) = IF here.names # <<>>
                                 THEN Place(here.absolute, here.up, Front(here.names))
                                 ELSE IF here.absolute THEN here
                                 ELSE Place(FALSE, here.up + 1, <<>>)
        BY <1>6, FollowCases
      <3> QED BY <1>2, <2>6, <3>1
    <2> QED BY <1>4, <2>4, <2>5, <2>7 DEF here, t
  <1>7. CASE name # <<".">> /\ name # <<".", ".">>
    <2>1. Follow(w, name).names = Append(t, name)
      <3>1. Follow(w, name) = Place(w.absolute, w.up, Append(w.names, name))
        BY <1>7, FollowCases
      <3> QED BY <3>1 DEF Place, t
    <2>2. Follow(here, name) = Place(b, u, Append(s \o t, name))
      <3>1. Follow(here, name) = Place(here.absolute, here.up, Append(here.names, name))
        BY <1>7, FollowCases
      <3> QED BY <1>2, <3>1
    <2>3. Append(t, name) \in Seq(N) /\ Append(s \o t, name) = s \o Append(t, name)
      BY <1>1
    <2> QED BY <1>4, <2>1, <2>2, <2>3 DEF here, t
  <1> QED BY <1>5, <1>6, <1>7

(* A way that does not climb above its start leads below wherever it is    *)
(* taken from.                                                             *)
LEMMA WalkBelow ==
  ASSUME NEW N, NEW at \in Spots(N), NEW path \in Seq(N), Walk(Here, path).up = 0
  PROVE  Walk(at, path) = Below(at, Walk(Here, path).names)
  <1>0. Here \in Spots(N) /\ Here.up = 0 /\ Here.absolute = FALSE /\ Here.names = <<>>
    BY DEF Here, Place, Spots
  <1> DEFINE Inner(t) == Walk(Here, t)
             I == {t \in Seq(N) : Inner(t).up = 0 => Walk(at, t) = Below(at, Inner(t).names)}
  <1>1. <<>> \in I
    <2>1. <<>> \in Seq(N) /\ Walk(at, <<>>) = at /\ Walk(Here, <<>>) = Here
      BY <1>0, WalkEmpty
    <2>2. Below(at, <<>>) = at
      <3> DEFINE s == at.names
      <3>1. s \in Seq(N) /\ at = Place(at.absolute, at.up, s)
        BY SpotFields
      <3>2. s \o <<>> = s
        BY <3>1
      <3> QED BY <3>1, <3>2 DEF Below
    <2> QED BY <1>0, <2>1, <2>2
  <1>2. ASSUME NEW t \in I, NEW c \in N
        PROVE  Append(t, c) \in I
    <2> DEFINE w == Walk(Here, t)
               x == Follow(w, c)
               y == Walk(at, t)
    <2>1. t \in Seq(N) /\ Append(t, c) \in Seq(N) /\ (w.up = 0 => y = Below(at, w.names))
      OBVIOUS
    <2>2. w \in Spots(N) /\ w.absolute = FALSE
      <3>1. w \in Spots(N)
        BY <1>0, <2>1, WalkType
      <3>2. w.absolute = Here.absolute
        BY <1>0, <2>1, WalkKind
      <3> QED BY <1>0, <3>1, <3>2
    <2>3. Walk(Here, Append(t, c)) = x /\ Walk(at, Append(t, c)) = Follow(y, c)
      BY <1>0, <2>1, WalkAppend
    <2> HIDE DEF w, y
    <2>4. x \in Spots(N) /\ w.up <= x.up
      BY <2>2, FollowType
    <2>5. w.up \in Nat
      BY <2>2, SpotFields
    <2>6. ASSUME x.up = 0
          PROVE  Follow(y, c) = Below(at, x.names)
      <3>1. w.up = 0
        BY <2>4, <2>5, <2>6
      <3>2. y = Below(at, w.names) /\ Follow(w, c).up = w.up
        BY <2>1, <2>6, <3>1
      <3>3. Follow(Below(at, w.names), c) = Below(at, Follow(w, c).names)
        BY <2>2, <3>2, FollowBelow
      <3> QED BY <3>2, <3>3
    <2> QED BY <2>1, <2>3, <2>6
  <1>3. \A t \in Seq(N) : t \in I
    <2>1. I \in SUBSET Seq(N)
      OBVIOUS
    <2> HIDE DEF I
    <2> QED BY <1>1, <1>2, <2>1, SeqInduct
  <1> QED BY <1>3

LEMMA ComponentsType ==
  ASSUME NEW S, NEW path \in Seq(S)
  PROVE  Components(path) \in Seq(Seq(S))
  <1> DEFINE x == Parts(path)
  <1>1. x \in Seq(Said(S))
    BY PartsType
  <1> HIDE DEF x
  <1>2. Texts(x) \in Seq(Seq(S))
    BY <1>1, TextsConcat
  <1> QED BY <1>2, ComponentsParts DEF x

(* A path that is continued stays absolute or relative.                    *)
LEMMA AbsoluteConcat ==
  ASSUME NEW S, NEW a \in Seq(S), NEW b \in Seq(S), a # <<>>
  PROVE  a \o b # <<>> /\ Absolute(a \o b) = Absolute(a)
  <1>1. a \o b # <<>> /\ (a \o b)[1] = a[1]
    OBVIOUS
  <1> QED BY <1>1 DEF Absolute

LEMMA AbsoluteJoined ==
  ASSUME NEW S, NEW a \in Seq(S), NEW b \in Seq(S), NEW c \in Seq(S), a # <<>>
  PROVE  Absolute((a \o b) \o c) = Absolute(a)
  <1> DEFINE d == a \o b
  <1>1. d \in Seq(S)
    OBVIOUS
  <1>2. d # <<>> /\ Absolute(d) = Absolute(a)
    BY AbsoluteConcat
  <1> HIDE DEF d
  <1>3. Absolute(d \o c) = Absolute(d)
    BY <1>1, <1>2, AbsoluteConcat
  <1> QED BY <1>2, <1>3 DEF d

LEMMA NameStart ==
  ASSUME NEW S, NEW name \in Seq(S), ValidateServiceName(name)
  PROVE  name[1] # "."
  <1>1. name[1] \in LowerOrDigit
    BY Zenon DEF ValidateServiceName
  <1> QED BY <1>1 DEF LowerOrDigit

(* A valid name goes down by one level.                                    *)
LEMMA FollowName ==
  ASSUME NEW S, NEW name \in Seq(S), ValidateServiceName(name), NEW at,
         at.names \in Seq(Seq(S))
  PROVE  Follow(at, name) = Below(at, <<name>>)
  <1>1. name[1] # "."
    BY NameStart
  <1>2. name # <<".">> /\ name # <<".", ".">>
    <2>1. ASSUME NEW x, x = <<".">> \/ x = <<".", ".">>
          PROVE  x[1] = "."
      BY <2>1
    <2> QED BY <1>1, <2>1, Zenon
  <1>3. Follow(at, name) = Place(at.absolute, at.up, Append(at.names, name))
    BY <1>2, FollowCases
  <1> DEFINE T == Seq(S)
             s == at.names
  <1>4. name \in T /\ s \in Seq(T)
    OBVIOUS
  <1> HIDE DEF T, s
  <1>5. Append(s, name) = s \o <<name>>
    BY <1>4
  <1> QED BY <1>3, <1>5 DEF Below, s

(* The directory of a service lies directly below the place of the root,   *)
(* which is the root of the file system if the setting is empty.  The      *)
(* build context is where its setting leads from there, and below it if    *)
(* the setting does not climb (service_dir and path_join).                 *)
THEOREM PathPlaces ==
  ASSUME NEW S, "/" \in S, NEW root \in Seq(S), NEW name \in Seq(S), NEW context \in Seq(S),
         ValidateServiceName(name),
         NEW top, top = (IF root = <<>> THEN <<"/">> ELSE root),
         NEW dir, dir = ServiceDir(root, name),
         NEW inner, inner = Walk(Here, Components(context))
  PROVE  /\ Locate(dir) = Below(Locate(top), <<name>>)
         /\ Locate(PathJoin(dir, context)) = Walk(Locate(dir), Components(context))
         /\ inner.up = 0 => Locate(PathJoin(dir, context)) = Below(Locate(dir), inner.names)
  <1> DEFINE N == Seq(S)
             p == TrimEnd(root)
             joined == PathJoin(dir, context)
             cr == Components(root)
             cc == Components(context)
             cd == Components(dir)
  <1>1. cr \in Seq(N) /\ cc \in Seq(N) /\ name \in N
    BY ComponentsType
  <1>2. cd = Append(cr, name) /\ Components(joined) = cd \o cc
    BY PathComponents
  <1>3. /\ p \in Seq(S) /\ Len(p) <= Len(root)
        /\ \A i \in 1 .. Len(p) : p[i] = root[i]
        /\ \A i \in (Len(p) + 1) .. Len(root) : root[i] = "/"
    BY TrimEndProperties
  <1>4. dir = (p \o Slash) \o name
    BY ServiceDirectory DEF Slash
  <1>5. Slash \in Seq(S) /\ Slash # <<>> /\ Slash[1] = "/"
    BY DEF Slash
  <1>6. top \in Seq(S) /\ top # <<>>
    OBVIOUS
  <1>7. Components(top) = cr
    <2>1. CASE root = <<>>
      <3> DEFINE e == <<>>
      <3>1. e \in Seq(S) /\ Slash \in Seq({"/"}) /\ e \o Slash = Slash /\ top = Slash
        BY <2>1 DEF Slash
      <3> HIDE DEF e
      <3>2. Parts(e \o Slash) = Parts(e)
        BY <3>1, PartsSlashes
      <3> QED BY <2>1, <3>1, <3>2, ComponentsParts DEF e
    <2>2. CASE root # <<>>
      BY <2>2
    <2> QED BY <2>1, <2>2
  <1> HIDE DEF N, p, joined, cr, cc, cd
  <1>8. dir \in Seq(S) /\ dir # <<>> /\ Absolute(dir) = Absolute(top)
    <2> DEFINE front == p \o Slash
    <2>1. front \in Seq(S) /\ front # <<>> /\ (p = <<>> => front[1] = "/")
          /\ (p # <<>> => front[1] = p[1])
      BY <1>3, <1>5
    <2>2. dir = front \o name
      BY <1>4
    <2> HIDE DEF front
    <2>3. dir \in Seq(S) /\ dir # <<>> /\ Absolute(dir) = Absolute(front)
      BY <2>1, <2>2, AbsoluteConcat
    <2>4. front[1] = top[1]
      <3>1. CASE root = <<>>
        <4>1. p = <<>> /\ top[1] = "/"
          BY <1>3, <3>1
        <4> QED BY <2>1, <4>1
      <3>2. CASE root # <<>> /\ p = <<>>
        <4>1. Len(root) \in Nat /\ Len(root) > 0 /\ Len(p) = 0
          BY <3>2
        <4>2. root[1] = "/"
          BY <1>3, <4>1
        <4> QED BY <2>1, <3>2, <4>2
      <3>3. CASE root # <<>> /\ p # <<>>
        <4>1. Len(p) \in Nat /\ Len(p) > 0
          BY <1>3, <3>3
        <4>2. p[1] = root[1]
          BY <1>3, <4>1
        <4> QED BY <2>1, <3>3, <4>2
      <3> QED BY <3>1, <3>2, <3>3
    <2>5. Absolute(front) = Absolute(top)
      BY <1>6, <2>1, <2>4 DEF Absolute
    <2> QED BY <2>3, <2>5
  <1>9. Absolute(joined) = Absolute(dir)
    <2>1. CASE joined = dir
      BY <2>1
    <2>2. CASE joined # dir
      <3>1. PICK c \in Seq(S) : joined = (dir \o Slash) \o c
        <4>1. \/ PathJoin(ServiceDir(root, name), context) = ServiceDir(root, name)
              \/ \E c \in Seq(S) :
                    /\ PathJoin(ServiceDir(root, name), context)
                         = ServiceDir(root, name) \o <<"/">> \o c
                    /\ c # <<>> /\ c[1] # "/" /\ c[Len(c)] # "/"
          BY ContextBelow
        <4>2. \E c \in Seq(S) : joined = (dir \o Slash) \o c
          BY <2>2, <4>1, Zenon DEF joined, Slash
        <4> QED BY <4>2
      <3> DEFINE l == Slash
      <3>2. l \in Seq(S) /\ joined = (dir \o l) \o c
        BY <1>5, <3>1
      <3> HIDE DEF l
      <3>3. Absolute((dir \o l) \o c) = Absolute(dir)
        BY <1>8, <3>2, AbsoluteJoined
      <3> QED BY <3>2, <3>3
    <2> QED BY <2>1, <2>2
  <1> DEFINE b == Absolute(top)
             start == Place(b, 0, <<>>)
             at == Walk(start, cr)
             here == Walk(start, cd)
  <1>10. start \in Spots(N)
    <2> DEFINE e == <<>>
    <2>1. b \in BOOLEAN /\ e \in Seq(N)
      BY DEF Absolute
    <2> HIDE DEF b, e
    <2>2. Place(b, 0, e) \in Spots(N)
      BY <2>1, PlaceType
    <2> QED BY <2>2 DEF e
  <1>11. Locate(top) = at /\ Locate(dir) = here /\ Locate(joined) = Walk(start, cd \o cc)
    BY <1>2, <1>7, <1>8, <1>9 DEF Locate, cd
  <1> HIDE DEF start
  <1>12. at \in Spots(N)
    BY <1>1, <1>10, WalkType
  <1>13. here = Follow(at, name)
    BY <1>1, <1>2, <1>10, WalkAppend
  <1> HIDE DEF at, here
  <1>14. here \in Spots(N)
    BY <1>1, <1>12, <1>13, FollowType
  <1>15. here = Below(at, <<name>>)
    <2>1. at.names \in Seq(N)
      BY <1>12, SpotFields
    <2> QED BY <1>13, <2>1, FollowName DEF N
  <1>16. cd \in Seq(N)
    BY <1>1, <1>2
  <1>17. Walk(start, cd \o cc) = Walk(here, cc)
    BY <1>1, <1>10, <1>16, WalkConcat DEF here
  <1>18. inner.up = 0 => Walk(here, cc) = Below(here, inner.names)
    BY <1>1, <1>14, WalkBelow DEF cc
  <1> QED BY <1>11, <1>15, <1>17, <1>18 DEF joined, cc

-----------------------------------------------------------------------------
(* The builders.                                                           *)

(* The fixed words of the commands and of the names.                       *)
CommandWords ==
  {"docker", Space, "rm", "-f", "||", "true", "run", "-d", "--name", "--restart", "unless-stopped",
   "pull", "mkdir", "-p", "cd", "&&", "compose", "up", "build", "-t", "restart"}
NameWords == {"wara-", "wara", "/", ":latest", "missing-image"}

(* A text without quotes and backslashes leaves nothing unfinished.        *)
LEMMA BareText ==
  ASSUME NEW B, "'" \notin B, "\\" \notin B, NEW text \in Seq(B)
  PROVE  Read(Blank, text).mode = "plain"
  <1> DEFINE I == {t \in Seq(B) : Read(Blank, t).mode = "plain"}
  <1>0. Blank \in Reader(B) /\ Blank.mode = "plain"
    BY BetweenType, WordTypes, BetweenFields DEF Blank
  <1>1. <<>> \in I
    <2>1. <<>> \in Seq(B)
      OBVIOUS
    <2> QED BY <1>0, <2>1, ReadEmpty
  <1>2. ASSUME NEW t \in I, NEW c \in B
        PROVE  Append(t, c) \in I
    <2> DEFINE r == Read(Blank, t)
    <2>1. t \in Seq(B) /\ Append(t, c) \in Seq(B) /\ r.mode = "plain"
      OBVIOUS
    <2>2. Read(Blank, Append(t, c)) = ReadSymbol(r, c) /\ r \in Reader(B)
      BY <1>0, <2>1, ReadAppend, ReadType
    <2> HIDE DEF r
    <2>3. ReadSymbol(r, c).mode = "plain"
      <3> DEFINE o == Between(Append(Close(r).words, Operator(<<c>>)))
      <3>1. ReadSymbol(r, c) \in {Close(r), o, Take(r, c)}
        <4>1. c # "'" /\ c # "\\"
          OBVIOUS
        <4> QED BY <2>1, <4>1, SpaceSymbol DEF ReadSymbol, Operators
      <3>2. Close(r).mode = "plain"
        <4> DEFINE k == Reading(r.mode, FALSE, <<>>, Append(r.words, Word(r.word)))
        <4>1. k.mode = r.mode
          BY DEF Reading
        <4>2. Close(r) = k \/ Close(r) = r
          BY <2>2, ReaderFields DEF Close
        <4> HIDE DEF k
        <4> QED BY <2>1, <4>1, <4>2
      <3>3. o.mode = "plain"
        BY DEF Between, Reading
      <3>4. Take(r, c).mode = "plain"
        BY <2>1, TakeFields
      <3> HIDE DEF o
      <3> QED BY <3>1, <3>2, <3>3, <3>4
    <2> QED BY <2>1, <2>2, <2>3
  <1>3. \A t \in Seq(B) : t \in I
    <2>1. I \in SUBSET Seq(B)
      OBVIOUS
    <2> HIDE DEF I
    <2> QED BY <1>1, <1>2, <2>1, SeqInduct
  <1> QED BY <1>3

LEMMA TokensComplete ==
  ASSUME NEW S, CommandWords \subseteq S
  PROVE  /\ \A text \in Seq(CommandWords) : Lit(text) \in Complete(S)
         /\ \A value \in Seq(S) : Arg(value) \in Complete(S)
  <1>1. "'" \notin CommandWords /\ "\\" \notin CommandWords
    BY SpaceSymbol DEF CommandWords
  <1>2. ASSUME NEW text \in Seq(CommandWords)
        PROVE  Lit(text) \in Complete(S)
    <2>1. Read(Blank, text).mode = "plain"
      BY <1>1, BareText
    <2>2. text \in Seq(S)
      OBVIOUS
    <2> QED BY <2>1, <2>2 DEF Lit, Complete
  <1>3. ASSUME NEW value \in Seq(S)
        PROVE  Arg(value) \in Complete(S)
    BY DEF Arg, Complete
  <1> QED BY <1>2, <1>3

LEMMA RunContainerComplete ==
  ASSUME NEW S, CommandWords \subseteq S, NameWords \subseteq S,
         NEW service \in Seq(S), NEW image \in Seq(S)
  PROVE  RunContainer(service, image) \in Seq(Seq(Complete(S)))
  <1> DEFINE C == Complete(S)
             a == Arg(ContainerName(service))
             b == Arg(image)
             l1 == Lit(<<"docker", Space, "rm", Space, "-f">>)
             l2 == Lit(<<"||", Space, "true">>)
             l3 == Lit(<<"docker", Space, "run", Space, "-d", Space, "--name">>)
             l4 == Lit(<<"--restart", Space, "unless-stopped">>)
  <1>1. ContainerName(service) \in Seq(S)
    BY DEF ContainerName, NameWords
  <1>2. a \in C /\ b \in C
    BY <1>1, TokensComplete
  <1>3. /\ <<"docker", Space, "rm", Space, "-f">> \in Seq(CommandWords)
        /\ <<"||", Space, "true">> \in Seq(CommandWords)
        /\ <<"docker", Space, "run", Space, "-d", Space, "--name">> \in Seq(CommandWords)
        /\ <<"--restart", Space, "unless-stopped">> \in Seq(CommandWords)
    BY DEF CommandWords
  <1>4. l1 \in C /\ l2 \in C /\ l3 \in C /\ l4 \in C
    BY <1>3, TokensComplete
  <1>5. RunContainer(service, image) = << <<l1, a, l2>>, <<l3, a, l4, b>> >>
    BY DEF RunContainer
  <1> HIDE DEF C, a, b, l1, l2, l3, l4
  <1>6. <<l1, a, l2>> \in Seq(C) /\ <<l3, a, l4, b>> \in Seq(C)
    BY <1>2, <1>4
  <1>7. << <<l1, a, l2>>, <<l3, a, l4, b>> >> \in Seq(Seq(C))
    BY <1>6
  <1> QED BY <1>5, <1>7 DEF C

LEMMA PathJoinType ==
  ASSUME NEW S, "/" \in S, NEW parent \in Seq(S), NEW child \in Seq(S)
  PROVE  PathJoin(parent, child) \in Seq(S)
  <1> DEFINE p == TrimEnd(parent)
             e == TrimEnd(child)
             c == TrimStart(e)
  <1>1. p \in Seq(S) /\ e \in Seq(S)
    BY TrimEndSplit
  <1> HIDE DEF e
  <1>2. c \in Seq(S)
    BY <1>1, TrimStartSplit
  <1>3. PathJoin(parent, child)
          = IF c = <<>> THEN IF p = <<>> THEN <<"/">> ELSE p ELSE p \o <<"/">> \o c
    BY DEF PathJoin, e
  <1> HIDE DEF p, c
  <1>4. <<"/">> \in Seq(S) /\ p \o <<"/">> \o c \in Seq(S)
    BY <1>1, <1>2
  <1> QED BY <1>1, <1>3, <1>4

(* Every command that is built is made of complete tokens.                 *)
LEMMA BuildersComplete ==
  ASSUME NEW S, CommandWords \subseteq S, NameWords \subseteq S,
         NEW service \in Seq(S), NEW image \in Seq(S),
         NEW config, config.root \in Seq(S), config.context \in Seq(S)
  PROVE  /\ ImageDeployCommands(image, service) \in Seq(Seq(Complete(S)))
         /\ ComposeDeployCommands(service, config) \in Seq(Seq(Complete(S)))
         /\ DockerfileDeployCommands(service, config) \in Seq(Seq(Complete(S)))
         /\ RestartCommand(service) \in Seq(Complete(S))
  <1> DEFINE C == Complete(S)
             T == Seq(C)
             dir == ServiceDir(config.root, service)
             context == PathJoin(dir, config.context)
             built == BuiltImageName(service)
             l1 == Lit(<<"docker", Space, "pull">>)
             l2 == Lit(<<"mkdir", Space, "-p">>)
             l3 == Lit(<<"cd">>)
             l4 == Lit(<<"&&", Space, "docker", Space, "compose", Space, "up", Space, "-d">>)
             l5 == Lit(<<"docker", Space, "build", Space, "-t">>)
             l6 == Lit(<<"docker", Space, "restart">>)
  <1>1. "/" \in S /\ ContainerName(service) \in Seq(S) /\ built \in Seq(S)
    BY DEF ContainerName, BuiltImageName, NameWords
  <1>2. dir \in Seq(S)
    BY <1>1, PathJoinType DEF ServiceDir
  <1> HIDE DEF dir
  <1>3. context \in Seq(S)
    BY <1>1, <1>2, PathJoinType
  <1> HIDE DEF context, built
  <1>4. /\ Arg(image) \in C /\ Arg(dir) \in C /\ Arg(context) \in C /\ Arg(built) \in C
        /\ Arg(ContainerName(service)) \in C
    BY <1>1, <1>2, <1>3, TokensComplete
  <1>5. /\ <<"docker", Space, "pull">> \in Seq(CommandWords)
        /\ <<"mkdir", Space, "-p">> \in Seq(CommandWords) /\ <<"cd">> \in Seq(CommandWords)
        /\ <<"docker", Space, "build", Space, "-t">> \in Seq(CommandWords)
        /\ <<"docker", Space, "restart">> \in Seq(CommandWords)
    BY DEF CommandWords
  <1>6. <<"&&", Space, "docker", Space, "compose", Space, "up", Space, "-d">> \in Seq(CommandWords)
    BY DEF CommandWords
  <1>7. l1 \in C /\ l2 \in C /\ l3 \in C /\ l4 \in C /\ l5 \in C /\ l6 \in C
    BY <1>5, <1>6, TokensComplete
  <1> DEFINE a1 == Arg(image)
             a2 == Arg(dir)
             a3 == Arg(context)
             a4 == Arg(built)
             a5 == Arg(ContainerName(service))
             r1 == RunContainer(service, image)
             r2 == RunContainer(service, built)
  <1>8. r1 \in Seq(T) /\ r2 \in Seq(T)
    BY <1>1, RunContainerComplete
  <1>9. /\ ImageDeployCommands(image, service) = << <<l1, a1>> >> \o r1
        /\ ComposeDeployCommands(service, config) = << <<l2, a2>>, <<l3, a2, l4>> >>
        /\ DockerfileDeployCommands(service, config) = << <<l5, a4, a3>> >> \o r2
        /\ RestartCommand(service) = <<l6, a5>>
    BY DEF ImageDeployCommands, ComposeDeployCommands, DockerfileDeployCommands, RestartCommand,
           dir, context, built
  <1>10. a1 \in C /\ a2 \in C /\ a3 \in C /\ a4 \in C /\ a5 \in C
    BY <1>4
  <1> HIDE DEF C, l1, l2, l3, l4, l5, l6, a1, a2, a3, a4, a5, r1, r2
  <1>11. /\ <<l1, a1>> \in T /\ <<l2, a2>> \in T /\ <<l3, a2, l4>> \in T
         /\ <<l5, a4, a3>> \in T /\ <<l6, a5>> \in T
    BY <1>7, <1>10
  <1> DEFINE c1 == <<l1, a1>>
             c2 == <<l2, a2>>
             c3 == <<l3, a2, l4>>
             c5 == <<l5, a4, a3>>
  <1> HIDE DEF T, c1, c2, c3, c5
  <1>12. c1 \in T /\ c2 \in T /\ c3 \in T /\ c5 \in T
    BY <1>11 DEF c1, c2, c3, c5
  <1>13. <<c1>> \o r1 \in Seq(T) /\ <<c2, c3>> \in Seq(T) /\ <<c5>> \o r2 \in Seq(T)
    BY <1>8, <1>12
  <1> QED BY <1>9, <1>11, <1>13 DEF c1, c2, c3, c5, T, C

=============================================================================
