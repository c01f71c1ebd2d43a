---------------------------- MODULE GraderProofs ----------------------------
(***************************************************************************)
(* What a grader grades with: SqlAnswers, for texts, suites and scripts of *)
(* every length - what is made of them is what they mean, but for the      *)
(* reasons that are named - and all components of MCGraderPools together.  *)
(***************************************************************************)
EXTENDS MCGraderPools, PoolProofs, ContainerProofs

-----------------------------------------------------------------------------
(* Recursion over a prefix of the numbers                                  *)

\* A set that has 0, and the successor of each number it has, has them all: else its
\* numbers up to one it has not could be mapped one to one to the same without 0.
LEMMA SetInduction ==
  ASSUME NEW T, 0 \in T, \A n \in Nat : n \in T => n + 1 \in T
  PROVE  Nat \subseteq T
<1> SUFFICES ASSUME NEW m \in Nat, m \notin T PROVE FALSE
  OBVIOUS
<1> DEFINE In == {k \in 0..m : k \in T}
           f == [k \in In |-> k + 1]
<1>1. IsFiniteSet(In)
  <2>1. IsFiniteSet(0..m) /\ In \in SUBSET (0..m)
    BY FS_Interval
  <2> QED
    BY <2>1, FS_Subset
<1>2. IsFiniteSet(In \ {0}) /\ Cardinality(In \ {0}) < Cardinality(In)
  <2> HIDE DEF In
  <2>1. /\ IsFiniteSet(In \ {0})
        /\ Cardinality(In \ {0}) = IF 0 \in In THEN Cardinality(In) - 1 ELSE Cardinality(In)
    BY <1>1, FS_RemoveElement
  <2>2. Cardinality(In) \in Nat
    BY <1>1, FS_CardinalityType
  <2>3. 0 \in In
    BY DEF In
  <2> QED
    BY <2>1, <2>2, <2>3
<1>3. f \in [In -> In \ {0}]
  OBVIOUS
<1>4. \E x, y \in In : x # y /\ f[x] = f[y]
  <2>1. ASSUME NEW S, NEW U, IsFiniteSet(S), IsFiniteSet(U), Cardinality(U) < Cardinality(S),
               NEW g \in [S -> U]
        PROVE  \E x, y \in S : x # y /\ g[x] = g[y]
    BY <2>1, FS_PigeonHole
  <2> HIDE DEF In, f
  <2> QED
    BY <1>1, <1>2, <1>3, <2>1
<1> QED
  BY <1>4

\* Induction up to a number.
LEMMA UptoInduction ==
  ASSUME NEW n \in Nat, NEW T, 0 \in T, \A i \in 1..n : i - 1 \in T => i \in T
  PROVE  0..n \subseteq T
<1> DEFINE U == {i \in Nat : i <= n => i \in T}
<1>1. 0 \in U
  OBVIOUS
<1>2. \A i \in Nat : i \in U => i + 1 \in U
  <2> SUFFICES ASSUME NEW i \in Nat, i \in U, i + 1 <= n PROVE i + 1 \in T
    OBVIOUS
  <2>1. i + 1 \in 1..n /\ (i + 1) - 1 = i /\ i \in T
    OBVIOUS
  <2> QED
    BY <2>1
<1>3. Nat \subseteq U
  <2> HIDE DEF U
  <2> QED
    BY <1>1, <1>2, SetInduction
<1> QED
  BY <1>3

\* What holds of the first value, and of each one if of the one before, holds of all.
LEMMA Stays ==
  ASSUME NEW n \in Nat, NEW S, NEW f, f[0] \in S, \A i \in 1..n : f[i - 1] \in S => f[i] \in S
  PROVE  \A i \in 0..n : f[i] \in S
<1> DEFINE T == {i \in 0..n : f[i] \in S}
<1>1. 0 \in T
  OBVIOUS
<1>2. \A i \in 1..n : i - 1 \in T => i \in T
  OBVIOUS
<1> HIDE DEF T
<1>3. 0..n \subseteq T
  BY <1>1, <1>2, UptoInduction
<1> QED
  BY <1>3 DEF T

\* Step[i] takes what there is after i - 1 items to what there is after i.
StepsIn(Step, S, n) == \A i \in 1..n : \A x \in S : Step[i][x] \in S
Iterates(f, c, Step, S, n) ==
  f \in [0..n -> S] /\ f[0] = c /\ \A i \in 1..n : f[i] = Step[i][f[i - 1]]

\* There is what the steps make of a value, one after the other.
LEMMA Recursion ==
  ASSUME NEW S, NEW c \in S, NEW n \in Nat, NEW Step, StepsIn(Step, S, n)
  PROVE  \E f : Iterates(f, c, Step, S, n)
<1>0. \A i \in 1..n : \A x \in S : Step[i][x] \in S
  BY DEF StepsIn
<1> DEFINE Upto(m, f) == /\ f \in [0..m -> S] /\ f[0] = c
                         /\ \A i \in 1..m : f[i] = Step[i][f[i - 1]]
           T == {m \in Nat : m <= n => \E f : Upto(m, f)}
<1>1. 0 \in T
  <2>1. Upto(0, [i \in 0..0 |-> c])
    OBVIOUS
  <2> QED
    BY <2>1
<1>2. \A m \in Nat : m \in T => m + 1 \in T
  <2> SUFFICES ASSUME NEW m \in Nat, m + 1 <= n, NEW f, Upto(m, f)
               PROVE  \E g : Upto(m + 1, g)
    OBVIOUS
  <2> DEFINE g == [i \in 0..m+1 |-> IF i = m + 1 THEN Step[m + 1][f[m]] ELSE f[i]]
  <2>1. f[m] \in S /\ m + 1 \in 1..n
    OBVIOUS
  <2>2. Step[m + 1][f[m]] \in S
    BY <1>0, <2>1
  <2>3. g \in [0..m+1 -> S] /\ g[0] = c
    BY <2>2
  <2>4. \A i \in 1..m : g[i] = Step[i][g[i - 1]]
    OBVIOUS
  <2>5. g[m + 1] = Step[m + 1][g[(m + 1) - 1]]
    OBVIOUS
  <2>6. \A i \in 1..m+1 : i \in 1..m \/ i = m + 1
    OBVIOUS
  <2> HIDE DEF g
  <2>7. \A i \in 1..m+1 : g[i] = Step[i][g[i - 1]]
    BY <2>4, <2>5, <2>6
  <2> QED
    BY <2>3, <2>7
<1>3. n \in T
  <2> HIDE DEF T
  <2> QED
    BY <1>1, <1>2, SetInduction
<1> QED
  BY <1>3 DEF Iterates

\* A sequence of at most n items.
LEMMA ShortSeq ==
  ASSUME NEW S, NEW n \in Nat, NEW f \in UNION {[1..k -> S] : k \in 0..n}
  PROVE  f \in Seq(S)
<1>1. PICK k \in 0..n : f \in [1..k -> S]
  OBVIOUS
<1> QED
  BY <1>1, SeqDef

-----------------------------------------------------------------------------
(* How a text is split                                                     *)

PlaceNames == {"code", "doubled", "newline", ";", "x", "--", "$$", "'", "\""}

\* Where each glyph stands follows from where the one before it stands.
LEMMA PlacesAre ==
  ASSUME text \in Seq(Glyphs)
  PROVE  /\ Places[0] = "code"
         /\ \A i \in 1..Len(text) : Places[i] = PlaceAfter(Places[i - 1], i)
<1> DEFINE n == Len(text)
           Step == [i \in 1..n |-> [p \in PlaceNames |-> PlaceAfter(p, i)]]
           Is(f) == f = [i \in 0..n |-> IF i = 0 THEN "code" ELSE PlaceAfter(f[i - 1], i)]
<1>1. n \in Nat /\ \A i \in 1..n : text[i] \in Glyphs
  BY LenProperties, ElementOfSeq
<1>2. \A i \in 1..n : \A p \in PlaceNames : PlaceAfter(p, i) \in PlaceNames
  BY <1>1 DEF PlaceAfter, PlaceNames, Glyphs, Quotes
<1>3. \A i \in 1..n : \A p \in PlaceNames : Step[i][p] = PlaceAfter(p, i)
  OBVIOUS
<1>4. "code" \in PlaceNames
  BY DEF PlaceNames
<1> HIDE DEF Step, n
<1>5. PICK f : Iterates(f, "code", Step, PlaceNames, n)
  <2>1. StepsIn(Step, PlaceNames, n)
    BY <1>2, <1>3 DEF StepsIn
  <2> QED
    BY <1>1, <1>4, <2>1, Recursion
<1>6. Is(f)
  <2>1. ASSUME NEW i \in 1..n PROVE f[i] = PlaceAfter(f[i - 1], i)
    <3>1. f[i - 1] \in PlaceNames
      BY <1>1, <1>5 DEF Iterates
    <3> QED
      BY <1>3, <1>5, <3>1 DEF Iterates
  <2>2. \A i \in 0..n : i = 0 \/ (i # 0 /\ i \in 1..n)
    BY <1>1
  <2>3. \A i \in 0..n : f[i] = IF i = 0 THEN "code" ELSE PlaceAfter(f[i - 1], i)
    BY <1>5, <2>1, <2>2 DEF Iterates
  <2> QED
    BY <1>5, <2>3 DEF Iterates
<1>7. Places = CHOOSE g : Is(g)
  BY DEF Places, n
<1>8. Is(Places)
  <2> HIDE DEF Is
  <2> QED
    BY <1>6, <1>7
<1> QED
  BY <1>1, <1>8 DEF n

CutStates == [pieces : Seq(Seq(Glyphs)), rest : Seq(Glyphs)]
NoCut == [pieces |-> <<>>, rest |-> <<>>]

\* A glyph ends a piece or belongs to it.
LEMMA CutTypes ==
  ASSUME text \in Seq(Glyphs), NEW i \in 1..Len(text), NEW done \in CutStates
  PROVE  Cut(done, i) \in CutStates
<1>1. text[i] \in Glyphs /\ done.pieces \in Seq(Seq(Glyphs)) /\ done.rest \in Seq(Glyphs)
  BY ElementOfSeq DEF CutStates
<1>2. AddPiece(done.pieces, done.rest) \in Seq(Seq(Glyphs))
  BY <1>1, AppendProperties DEF AddPiece
<1>3. [pieces |-> AddPiece(done.pieces, done.rest), rest |-> <<>>] \in CutStates
  BY <1>2, EmptySeq DEF CutStates
<1>4. [done EXCEPT !.rest = Append(@, text[i])] \in CutStates
  <2>1. Append(done.rest, text[i]) \in Seq(Glyphs)
    BY <1>1, AppendProperties
  <2> QED
    BY <1>1, <2>1 DEF CutStates
<1> QED
  BY <1>3, <1>4 DEF Cut

\* What is cut follows, glyph by glyph.
LEMMA CutsAre ==
  ASSUME text \in Seq(Glyphs)
  PROVE  /\ Cuts[0] = NoCut
         /\ \A i \in 1..Len(text) : Cuts[i] = Cut(Cuts[i - 1], i)
         /\ \A i \in 0..Len(text) : Cuts[i] \in CutStates
<1> DEFINE n == Len(text)
           Step == [i \in 1..n |-> [c \in CutStates |-> Cut(c, i)]]
           Is(f) == f = [i \in 0..n |-> IF i = 0 THEN NoCut ELSE Cut(f[i - 1], i)]
<1>1. n \in Nat
  BY LenProperties
<1>2. \A i \in 1..n : \A c \in CutStates : Cut(c, i) \in CutStates
  BY CutTypes
<1>3. \A i \in 1..n : \A c \in CutStates : Step[i][c] = Cut(c, i)
  OBVIOUS
<1>4. NoCut \in CutStates
  BY EmptySeq DEF NoCut, CutStates
<1> HIDE DEF Step, n
<1>5. PICK f : Iterates(f, NoCut, Step, CutStates, n)
  <2>1. StepsIn(Step, CutStates, n)
    BY <1>2, <1>3 DEF StepsIn
  <2> QED
    BY <1>1, <1>4, <2>1, Recursion
<1>6. Is(f)
  <2>1. ASSUME NEW i \in 1..n PROVE f[i] = Cut(f[i - 1], i)
    <3>1. f[i - 1] \in CutStates
      BY <1>1, <1>5 DEF Iterates
    <3> QED
      BY <1>3, <1>5, <3>1 DEF Iterates
  <2>2. \A i \in 0..n : i = 0 \/ (i # 0 /\ i \in 1..n)
    BY <1>1
  <2>3. \A i \in 0..n : f[i] = IF i = 0 THEN NoCut ELSE Cut(f[i - 1], i)
    BY <1>5, <2>1, <2>2 DEF Iterates
  <2> QED
    BY <1>5, <2>3 DEF Iterates
<1>7. Cuts = CHOOSE g : Is(g)
  BY DEF Cuts, NoCut, n
<1>8. Is(Cuts)
  <2> HIDE DEF Is
  <2> QED
    BY <1>6, <1>7
<1>9. Cuts[0] = NoCut /\ \A i \in 1..n : Cuts[i] = Cut(Cuts[i - 1], i)
  BY <1>1, <1>8
<1>10. \A i \in 0..n : Cuts[i] \in CutStates
  BY <1>1, <1>2, <1>4, <1>9, Stays
<1> QED
  BY <1>9, <1>10 DEF n

\* A text has something the grader does not know.
Unknown == \E i \in 1..Len(text) : Places[i] \notin {"code"} \cup Quotes

\* Up to where it has read, and unless it met something it does not know, the grader
\* stands where the text does, and has cut it likewise.
SplitOK ==
  \/ Unknown
  \/ /\ literal = IF Places[seen] = "code" THEN "none" ELSE Places[seen]
     /\ \/ statements = Cuts[seen].pieces /\ current = Cuts[seen].rest
        \/ seen = Len(text) /\ current = <<>> /\ statements = MeantPieces

SplitInv == text \in Seq(Glyphs) /\ seen \in 0..Len(text) /\ SplitOK

\* What SplitInv says holds at the start.
LEMMA SplitStarts == ScriptsInit => SplitInv
<1> SUFFICES ASSUME ScriptsInit PROVE SplitInv
  OBVIOUS
<1>1. text \in Seq(Glyphs)
  BY ScriptAssumption, ShortSeq DEF ScriptsInit, Texts
<1>2. Len(text) \in Nat
  BY <1>1, LenProperties
<1>3. Places[0] = "code" /\ Cuts[0] = NoCut
  BY <1>1, PlacesAre, CutsAre
<1> QED
  BY <1>1, <1>2, <1>3 DEF ScriptsInit, SplitInv, SplitOK, NoCut

\* A glyph is read.
LEMMA ReadKeeps ==
  ASSUME SplitInv, OpenLiteral \/ MeetQuote \/ EndStatement \/ CopyGlyph
  PROVE  SplitInv'
<1>1. /\ text' = text /\ seen' = seen + 1 /\ seen < Len(text) /\ text \in Seq(Glyphs)
      /\ seen \in Nat /\ Len(text) \in Nat
  <2>1. text \in Seq(Glyphs) /\ seen \in 0..Len(text) /\ Len(text) \in Nat
    BY LenProperties DEF SplitInv
  <2>2. text' = text /\ Reading
    BY DEF OpenLiteral, MeetQuote, EndStatement, CopyGlyph
  <2> QED
    BY <2>1, <2>2 DEF Reading
<1>2. Places' = Places /\ Cuts' = Cuts /\ (Unknown' <=> Unknown) /\ MeantPieces' = MeantPieces
  BY <1>1 DEF Places, PlaceAfter, Cuts, Cut, Unknown, MeantPieces
<1>3. CASE Unknown
  BY <1>1, <1>2, <1>3 DEF SplitInv, SplitOK
<1>4. CASE ~Unknown
  <2> DEFINE i == seen + 1
             p == Places[seen]
             c == Cuts[seen]
  <2>1. /\ i \in 1..Len(text) /\ i - 1 = seen /\ seen \in 0..Len(text)
        /\ text[i] \in Glyphs /\ Glyph = text[i]
    BY <1>1, ElementOfSeq DEF Glyph
  <2>2. Places[i] = PlaceAfter(p, i) /\ Cuts[i] = Cut(c, i) /\ c \in CutStates
    BY <1>1, <2>1, PlacesAre, CutsAre
  <2>3. Places[i] \in {"code"} \cup Quotes
    BY <1>4, <2>1 DEF Unknown
  <2>4. /\ literal = IF p = "code" THEN "none" ELSE p
        /\ statements = c.pieces /\ current = c.rest
    BY <1>1, <1>4 DEF SplitInv, SplitOK
  <2>5. p \in {"code"} \cup Quotes
    <3>1. CASE seen = 0
      BY <1>1, <3>1, PlacesAre
    <3>2. CASE seen # 0
      BY <1>1, <1>4, <3>2 DEF Unknown
    <3> QED
      BY <3>1, <3>2
  <2>6. /\ literal' = IF Places[i] = "code" THEN "none" ELSE Places[i]
        /\ statements' = Cuts[i].pieces /\ current' = Cuts[i].rest
    <3>1. CASE OpenLiteral
      BY <2>1, <2>2, <2>3, <2>4, <2>5, <3>1 DEF OpenLiteral, Copy, PlaceAfter, Cut, CutStates, Quotes
    <3>2. CASE MeetQuote
      <4>1. text[i] = p /\ p \in Quotes /\ p # "code" /\ text[i] # ";"
        BY <2>1, <2>4, <2>5, <3>2 DEF MeetQuote, Quotes
      <4>2. Places[i] = IF i < Len(text) /\ text[i + 1] = p THEN "doubled" ELSE "code"
        BY <2>2, <4>1 DEF PlaceAfter, Quotes
      <4>3. Places[i] = "code" /\ ~(i < Len(text) /\ text[i + 1] = p)
        BY <2>3, <4>2 DEF Quotes
      <4>4. seen + 2 = i + 1 /\ (seen + 2 <= Len(text) <=> i < Len(text))
        BY <1>1
      <4>5. literal' = "none"
        BY <2>1, <3>2, <4>1, <4>3, <4>4 DEF MeetQuote
      <4>6. current' = Append(current, text[i]) /\ statements' = statements
        BY <2>1, <3>2 DEF MeetQuote, Copy
      <4>7. Cuts[i] = [c EXCEPT !.rest = Append(@, text[i])]
        BY <2>1, <2>2, <4>1 DEF Cut
      <4> QED
        BY <2>2, <2>4, <4>3, <4>5, <4>6, <4>7 DEF CutStates
    <3>3. CASE EndStatement
      <4>1. text[i] = ";" /\ p = "code" /\ literal' = literal
        BY <2>1, <2>4, <2>5, <3>3 DEF EndStatement, Quotes
      <4>2. Places[i] = "code"
        BY <2>2, <4>1 DEF PlaceAfter, Quotes
      <4>3. Cuts[i] = [pieces |-> AddPiece(c.pieces, c.rest), rest |-> <<>>]
        BY <2>1, <2>2, <4>1 DEF Cut
      <4>4. statements' = AddPiece(statements, current) /\ current' = <<>>
        BY <3>3 DEF EndStatement
      <4>5. statements' = AddPiece(c.pieces, c.rest)
        BY <2>4, <4>4
      <4>6. Cuts[i].pieces = AddPiece(c.pieces, c.rest) /\ Cuts[i].rest = <<>>
        BY <4>3
      <4>7. literal' = "none"
        BY <2>4, <4>1
      <4> QED
        BY <4>2, <4>4, <4>5, <4>6, <4>7
    <3>4. CASE CopyGlyph
      BY <2>1, <2>2, <2>3, <2>4, <2>5, <3>4 DEF CopyGlyph, Copy, PlaceAfter, Cut, CutStates, Quotes
    <3> QED
      BY <3>1, <3>2, <3>3, <3>4
  <2> QED
    BY <1>1, <1>2, <2>6 DEF SplitInv, SplitOK
<1> QED
  BY <1>3, <1>4

\* The grader reads on, and takes what is left for the last statement.
LEMMA SplitKeeps == SplitInv /\ [SplitNext \/ SuiteNext]_scriptVars => SplitInv'
<1> SUFFICES ASSUME SplitInv, [SplitNext \/ SuiteNext]_scriptVars PROVE SplitInv'
  OBVIOUS
<1>1. CASE UNCHANGED splitVars
  <2>1. Places' = Places /\ Cuts' = Cuts /\ (Unknown' <=> Unknown) /\ MeantPieces' = MeantPieces
    BY <1>1 DEF splitVars, Places, PlaceAfter, Cuts, Cut, Unknown, MeantPieces
  <2> QED
    BY <1>1, <2>1 DEF splitVars, SplitInv, SplitOK
<1>2. CASE LastStatement
  <2>1. text' = text /\ seen' = seen /\ seen = Len(text) /\ literal' = literal
    BY <1>2 DEF LastStatement
  <2>2. Places' = Places /\ Cuts' = Cuts /\ (Unknown' <=> Unknown) /\ MeantPieces' = MeantPieces
    BY <2>1 DEF Places, PlaceAfter, Cuts, Cut, Unknown, MeantPieces
  <2>3. current # <<>> /\ current' = <<>> /\ statements' = AddPiece(statements, current)
    BY <1>2 DEF LastStatement
  <2> QED
    BY <2>1, <2>2, <2>3 DEF SplitInv, SplitOK, MeantPieces
<1>3. CASE OpenLiteral \/ MeetQuote \/ EndStatement \/ CopyGlyph
  BY <1>3, ReadKeeps
<1>4. SuiteNext => UNCHANGED splitVars
  BY DEF SuiteNext, StartPublic, SkipControl, RunSelect, RunInsert, StatementFails,
         ComparePublic, ResetTables, SelectHidden, MutateHidden
<1> QED
  BY <1>1, <1>2, <1>3, <1>4 DEF SplitNext, scriptVars

\* A text that is read to its end is split as SQL reads it.
LEMMA SplitTells == SplitInv => SplitExplained
<1> SUFFICES ASSUME SplitInv, seen = Len(text), current = <<>>, ~Unknown
             PROVE  statements = MeantPieces
  BY DEF SplitExplained, Unknown
<1>1. CASE statements = Cuts[seen].pieces /\ current = Cuts[seen].rest
  <2>1. AddPiece(Cuts[seen].pieces, <<>>) = Cuts[seen].pieces
    BY EmptySeq DEF AddPiece, Blank, ToSet
  <2> QED
    BY <1>1, <2>1 DEF MeantPieces
<1> QED
  BY <1>1 DEF SplitInv, SplitOK

-----------------------------------------------------------------------------
(* What a script means                                                     *)

PgStates == [rows : Nat, kept : Nat, open : BOOLEAN, answer : Nat \cup {NoRows}, failed : BOOLEAN]
RefStates == [rows : Nat, open : BOOLEAN, gone : BOOLEAN, kept : BOOLEAN, failed : BOOLEAN]

\* A statement leaves a state of the tables.
LEMMA PostgresTypes ==
  ASSUME NEW s \in PgStates, NEW statement PROVE Postgres(s, statement) \in PgStates
<1>1. /\ s.rows \in Nat /\ s.kept \in Nat /\ s.rows + 1 \in Nat /\ s.open \in BOOLEAN
      /\ (IF s.open THEN s.kept ELSE s.rows) \in Nat
  BY DEF PgStates
<1>2. /\ [s EXCEPT !.open = TRUE, !.kept = s.rows] \in PgStates
      /\ [s EXCEPT !.open = FALSE] \in PgStates
      /\ [s EXCEPT !.rows = @ + 1] \in PgStates
      /\ [s EXCEPT !.answer = s.rows] \in PgStates
  BY <1>1 DEF PgStates
<1>3. [s EXCEPT !.open = FALSE, !.rows = IF s.open THEN s.kept ELSE @] \in PgStates
  BY <1>1 DEF PgStates
<1>4. [s EXCEPT !.failed = TRUE, !.rows = IF s.open THEN s.kept ELSE @] \in PgStates
  BY <1>1 DEF PgStates
<1> QED
  BY <1>2, <1>3, <1>4 DEF Postgres

\* So does one of the reference.
LEMMA ReferenceTypes ==
  ASSUME NEW s \in RefStates, NEW statement PROVE Reference(s, statement) \in RefStates
<1>1. /\ s.rows + 1 \in Nat /\ (s.kept \/ s.open) \in BOOLEAN /\ (s.gone \/ s.open) \in BOOLEAN
  BY DEF RefStates
<1>2. /\ [s EXCEPT !.open = FALSE, !.kept = @ \/ s.open] \in RefStates
      /\ [s EXCEPT !.open = FALSE, !.gone = @ \/ s.open] \in RefStates
      /\ [s EXCEPT !.failed = TRUE] \in RefStates
      /\ [s EXCEPT !.rows = @ + 1] \in RefStates
  BY <1>1 DEF RefStates
<1> QED
  BY <1>2 DEF Reference

\* The states of a script follow statement by statement.
LEMMA StatesAre ==
  ASSUME NEW script \in Seq(SqlStatements), NEW s \in PgStates
  PROVE  LET st == StatesFrom(s, script) IN
         /\ st[0] = s /\ Len(script) \in Nat
         /\ \A i \in 1..Len(script) : st[i] = Postgres(st[i - 1], script[i])
         /\ \A i \in 0..Len(script) : st[i] \in PgStates
<1> DEFINE n == Len(script)
           Step == [i \in 1..n |-> [x \in PgStates |-> Postgres(x, script[i])]]
           Is(f) == f = [i \in 0..n |-> IF i = 0 THEN s ELSE Postgres(f[i - 1], script[i])]
<1>1. n \in Nat
  BY LenProperties
<1>2. \A i \in 1..n : \A x \in PgStates : Postgres(x, script[i]) \in PgStates
  BY PostgresTypes
<1>3. \A i \in 1..n : \A x \in PgStates : Step[i][x] = Postgres(x, script[i])
  OBVIOUS
<1> HIDE DEF Step, n
<1>5. PICK f : Iterates(f, s, Step, PgStates, n)
  <2>1. StepsIn(Step, PgStates, n)
    BY <1>2, <1>3 DEF StepsIn
  <2> QED
    BY <1>1, <2>1, Recursion
<1>6. \A i \in 0..n : f[i] \in PgStates
  BY <1>5 DEF Iterates
<1>7. Is(f)
  <2>1. ASSUME NEW i \in 1..n PROVE f[i] = Postgres(f[i - 1], script[i])
    <3>1. i - 1 \in 0..n
      BY <1>1
    <3> QED
      BY <1>3, <1>5, <1>6, <3>1 DEF Iterates
  <2>2. \A i \in 0..n : i = 0 \/ (i # 0 /\ i \in 1..n)
    BY <1>1
  <2>3. \A i \in 0..n : f[i] = IF i = 0 THEN s ELSE Postgres(f[i - 1], script[i])
    BY <1>5, <2>1, <2>2 DEF Iterates
  <2> QED
    BY <1>5, <2>3 DEF Iterates
<1>8. StatesFrom(s, script) = CHOOSE g : Is(g)
  BY DEF StatesFrom, n
<1>9. PICK st : st = StatesFrom(s, script) /\ Is(st)
  <2> HIDE DEF Is
  <2> QED
    BY <1>7, <1>8
<1>10. st[0] = s /\ \A i \in 1..n : st[i] = Postgres(st[i - 1], script[i])
  BY <1>1, <1>9
<1>11. \A i \in 0..n : st[i] \in PgStates
  BY <1>1, <1>2, <1>10, Stays
<1> QED
  BY <1>1, <1>9, <1>10, <1>11 DEF n

\* So do those of the reference.
LEMMA ReferencesAre ==
  ASSUME NEW script \in Seq(SqlStatements)
  PROVE  LET ref == References(script) IN
         /\ ref[0] = InSetupTx /\ Len(script) \in Nat
         /\ \A i \in 1..Len(script) : ref[i] = Reference(ref[i - 1], script[i])
         /\ \A i \in 0..Len(script) : ref[i] \in RefStates
<1> DEFINE n == Len(script)
           Step == [i \in 1..n |-> [x \in RefStates |-> Reference(x, script[i])]]
           Is(f) == f = [i \in 0..n |-> IF i = 0 THEN InSetupTx ELSE Reference(f[i - 1], script[i])]
<1>1. n \in Nat
  BY LenProperties
<1>2. \A i \in 1..n : \A x \in RefStates : Reference(x, script[i]) \in RefStates
  BY ReferenceTypes
<1>3. \A i \in 1..n : \A x \in RefStates : Step[i][x] = Reference(x, script[i])
  OBVIOUS
<1>4. InSetupTx \in RefStates
  BY DEF InSetupTx, RefStates
<1> HIDE DEF Step, n
<1>5. PICK f : Iterates(f, InSetupTx, Step, RefStates, n)
  <2>1. StepsIn(Step, RefStates, n)
    BY <1>2, <1>3 DEF StepsIn
  <2> QED
    BY <1>1, <1>4, <2>1, Recursion
<1>6. \A i \in 0..n : f[i] \in RefStates
  BY <1>5 DEF Iterates
<1>7. Is(f)
  <2>1. ASSUME NEW i \in 1..n PROVE f[i] = Reference(f[i - 1], script[i])
    <3>1. i - 1 \in 0..n
      BY <1>1
    <3> QED
      BY <1>3, <1>5, <1>6, <3>1 DEF Iterates
  <2>2. \A i \in 0..n : i = 0 \/ (i # 0 /\ i \in 1..n)
    BY <1>1
  <2>3. \A i \in 0..n : f[i] = IF i = 0 THEN InSetupTx ELSE Reference(f[i - 1], script[i])
    BY <1>5, <2>1, <2>2 DEF Iterates
  <2> QED
    BY <1>5, <2>3 DEF Iterates
<1>8. References(script) = CHOOSE g : Is(g)
  BY DEF References, n
<1>9. PICK ref : ref = References(script) /\ Is(ref)
  <2> HIDE DEF Is
  <2> QED
    BY <1>7, <1>8
<1>10. ref[0] = InSetupTx /\ \A i \in 1..n : ref[i] = Reference(ref[i - 1], script[i])
  BY <1>1, <1>9
<1>11. \A i \in 0..n : ref[i] \in RefStates
  BY <1>1, <1>2, <1>4, <1>10, Stays
<1> QED
  BY <1>1, <1>9, <1>10, <1>11 DEF n

\* The statements of a script.
LEMMA HasIs ==
  ASSUME NEW script \in Seq(SqlStatements), NEW kinds
  PROVE  /\ Has(script, kinds) <=> \E i \in 1..Len(script) : script[i] \in kinds
         /\ \A i \in 1..Len(script) : script[i] \in SqlStatements
BY LenProperties, ElementOfSeq DEF Has, ToSet

\* Fresh tables are one.
LEMMA FreshIs == FreshTables \in PgStates
BY DEF FreshTables, PgStates

\* A script that failed has failed in the end.
LEMMA FailedStays ==
  ASSUME NEW script \in Seq(SqlStatements), NEW i \in 0..Len(script),
         StatesFrom(FreshTables, script)[i].failed
  PROVE  Meant(script).failed
<1>1. PICK st : st = StatesFrom(FreshTables, script)
  OBVIOUS
<1>2. /\ Len(script) \in Nat /\ \A j \in 0..Len(script) : st[j] \in PgStates
      /\ \A j \in 1..Len(script) : st[j] = Postgres(st[j - 1], script[j])
  BY <1>1, FreshIs, StatesAre
<1> DEFINE T == {j \in 0..Len(script) : j >= i => st[j].failed}
<1>3. 0 \in T
  BY <1>1, <1>2
<1>4. ASSUME NEW j \in 1..Len(script), j - 1 \in T PROVE j \in T
  <2>1. CASE j = i
    BY <1>1, <2>1
  <2>2. CASE j > i
    <3>1. st[j - 1].failed
      BY <1>2, <1>4, <2>2
    <3>2. st[j] = st[j - 1]
      BY <1>2, <3>1 DEF Postgres
    <3> QED
      BY <3>1, <3>2
  <2> QED
    BY <1>2, <2>1, <2>2
<1> HIDE DEF T
<1>5. 0..Len(script) \subseteq T
  BY <1>2, <1>3, <1>4, UptoInduction
<1>6. st[Len(script)].failed
  BY <1>2, <1>5 DEF T
<1> QED
  BY <1>1, <1>6 DEF Meant, Executed

\* In the transaction of the setup, a script that ends no transaction does what it does
\* on fresh tables; the tables of the setup are kept only by a commit.
LEMMA ReferenceAgrees ==
  ASSUME NEW script \in Seq(SqlStatements)
  PROVE  /\ ~Has(script, {"commit", "rollback"}) /\ ~Meant(script).failed =>
              /\ ~MeantHere(script).failed /\ ~MeantHere(script).gone
              /\ MeantHere(script).rows = Meant(script).rows
         /\ MeantHere(script).kept => Has(script, {"commit", "rollback"})
<1>1. PICK st : st = StatesFrom(FreshTables, script)
  OBVIOUS
<1>2. PICK ref : ref = References(script)
  OBVIOUS
<1>3. /\ Len(script) \in Nat /\ st[0] = FreshTables
      /\ \A j \in 0..Len(script) : st[j] \in PgStates
      /\ \A j \in 1..Len(script) : st[j] = Postgres(st[j - 1], script[j])
  BY <1>1, FreshIs, StatesAre
<1>4. /\ ref[0] = InSetupTx /\ \A j \in 0..Len(script) : ref[j] \in RefStates
      /\ \A j \in 1..Len(script) : ref[j] = Reference(ref[j - 1], script[j])
  BY <1>2, ReferencesAre
<1>5. /\ Meant(script) = st[Len(script)] /\ MeantHere(script) = ref[Len(script)]
      /\ Len(script) \in 0..Len(script)
  BY <1>1, <1>2, <1>3 DEF Meant, Executed, MeantHere
<1>6. ASSUME ~Has(script, {"commit", "rollback"}), ~Meant(script).failed
      PROVE  /\ ~MeantHere(script).failed /\ ~MeantHere(script).gone
             /\ MeantHere(script).rows = Meant(script).rows
  <2> DEFINE T == {j \in 0..Len(script) : ~ref[j].failed /\ ~ref[j].gone /\ ref[j].rows = st[j].rows}
  <2>1. 0 \in T
    BY <1>3, <1>4 DEF FreshTables, InSetupTx
  <2>2. ASSUME NEW j \in 1..Len(script), j - 1 \in T PROVE j \in T
    <3>1. script[j] \in {"begin", "insert", "select", "bad"}
      BY <1>6, HasIs DEF SqlStatements
    <3>2. j - 1 \in 0..Len(script) /\ j \in 0..Len(script)
      BY <1>3
    <3>3. ~st[j].failed /\ ~st[j - 1].failed
      BY <1>1, <1>6, <3>2, FailedStays
    <3>4. script[j] # "bad" /\ st[j].rows = IF script[j] = "insert" THEN st[j - 1].rows + 1 ELSE st[j - 1].rows
      BY <1>3, <3>1, <3>2, <3>3 DEF Postgres, PgStates
    <3>5. /\ ~ref[j].failed /\ ~ref[j].gone
          /\ ref[j].rows = IF script[j] = "insert" THEN ref[j - 1].rows + 1 ELSE ref[j - 1].rows
      BY <1>4, <2>2, <3>1, <3>2, <3>4 DEF Reference, RefStates
    <3> QED
      BY <2>2, <3>2, <3>4, <3>5
  <2> HIDE DEF T
  <2>3. 0..Len(script) \subseteq T
    BY <1>3, <2>1, <2>2, UptoInduction
  <2> QED
    BY <1>5, <2>3 DEF T
<1>7. ASSUME ~Has(script, {"commit", "rollback"}) PROVE ~MeantHere(script).kept
  <2> DEFINE T == {j \in 0..Len(script) : ~ref[j].kept}
  <2>1. 0 \in T
    BY <1>3, <1>4 DEF InSetupTx
  <2>2. ASSUME NEW j \in 1..Len(script), j - 1 \in T PROVE j \in T
    <3>1. script[j] \in {"begin", "insert", "select", "bad"}
      BY <1>7, HasIs DEF SqlStatements
    <3>2. j - 1 \in 0..Len(script) /\ j \in 0..Len(script)
      BY <1>3
    <3>3. ref[j].kept = ref[j - 1].kept
      BY <1>4, <3>1, <3>2 DEF Reference, RefStates
    <3> QED
      BY <2>2, <3>2, <3>3
  <2> HIDE DEF T
  <2>3. 0..Len(script) \subseteq T
    BY <1>3, <2>1, <2>2, UptoInduction
  <2> QED
    BY <1>5, <2>3 DEF T
<1> QED
  BY <1>6, <1>7

-----------------------------------------------------------------------------
(* What the tests of a suite answer                                        *)

Earlier(kinds) == \E j \in 1..test-1 : Has(scripts[j], kinds)

\* Why test i may fail.
Excused(i) ==
  \/ scripts[i] = <<>>
  \/ Meant(scripts[i]).failed
  \/ suiteKind = "public" /\ (Has(scripts[i], {"rollback"}) \/ \E j \in 1..i-1 : Has(scripts[j], {"insert"}))
  \/ suiteKind = "selection" /\ Len(scripts[i]) > 1
  \/ suiteKind = "mutation" /\ \E j \in 1..i : Has(scripts[j], {"commit", "rollback"})

SuiteTypes ==
  /\ scripts \in Seq(SqlScripts) /\ suiteKind \in {"public", "selection", "mutation"}
  /\ test \in 1..Len(scripts)+1 /\ verdicts \in Seq(BOOLEAN) /\ Len(verdicts) = test - 1
  /\ next \in Nat /\ rows \in Nat /\ leaked \in BOOLEAN

Verdicts == \A i \in 1..Len(verdicts) : verdicts[i] \/ Excused(i)

\* A public test: the table has the rows that its script would have made so far, unless
\* an earlier one left some or it takes something back; it has none but from an insert.
PublicOK ==
  /\ rows = 0 \/ Earlier({"insert"}) \/ (next > 0 /\ Has(Script, {"insert"}))
  /\ next = 0 => answer = NoRows
  /\ next > 0 =>
       /\ test \in 1..Len(scripts) /\ next \in 1..Len(Script)+1
       /\ LET st == StatesFrom(FreshTables, Script)[next - 1] IN
            \/ Earlier({"insert"}) \/ Has(Script, {"rollback"}) \/ st.failed
            \/ rows = st.rows /\ answer = st.answer

\* A hidden test starts on fresh tables, and on a database that keeps none.
HiddenOK ==
  /\ next > 0 => next = 1 /\ rows = 0 /\ ~leaked
  /\ leaked => suiteKind = "mutation" /\ Earlier({"commit", "rollback"})

SuiteInv ==
  SuiteTypes /\ Verdicts /\ IF suiteKind = "public" THEN PublicOK ELSE HiddenOK

\* What SuiteInv says holds at the start.
LEMMA SuiteStarts == ScriptsInit => SuiteInv
<1> SUFFICES ASSUME ScriptsInit PROVE SuiteInv
  OBVIOUS
<1>1. scripts \in Seq(SqlScripts)
  BY ScriptAssumption, ShortSeq DEF ScriptsInit
<1>2. Len(scripts) \in Nat
  BY <1>1, LenProperties
<1>3. verdicts \in Seq(BOOLEAN) /\ Len(verdicts) = 0
  BY EmptySeq DEF ScriptsInit
<1>4. SuiteTypes
  <2>1. test \in 1..Len(scripts)+1 /\ Len(verdicts) = test - 1
    BY <1>2, <1>3 DEF ScriptsInit
  <2> QED
    BY <1>1, <1>3, <2>1 DEF ScriptsInit, SuiteTypes
<1>5. Verdicts
  BY <1>3 DEF Verdicts
<1> QED
  BY <1>4, <1>5 DEF ScriptsInit, SuiteInv, PublicOK, HiddenOK

\* A test that ends with a right verdict, or with a reason.
LEMMA TestIsOver ==
  ASSUME SuiteTypes, Verdicts, Running, NEW right \in BOOLEAN, TestOver(right),
         right \/ Excused(test), rows' \in Nat, leaked' \in BOOLEAN
  PROVE  /\ SuiteTypes' /\ Verdicts'
         /\ \A kinds : (Earlier(kinds) => Earlier(kinds)') /\ (Has(Script, kinds) => Earlier(kinds)')
<1>1. /\ scripts' = scripts /\ suiteKind' = suiteKind /\ test' = test + 1 /\ next' = 0
      /\ verdicts' = Append(verdicts, right)
  BY DEF TestOver
<1>2. test \in 1..Len(scripts) /\ Len(scripts) \in Nat /\ Len(verdicts) \in Nat
  BY LenProperties DEF SuiteTypes, Running
<1>3. /\ verdicts' \in Seq(BOOLEAN) /\ Len(verdicts') = test /\ verdicts'[test] = right
      /\ \A i \in 1..test-1 : verdicts'[i] = verdicts[i]
  BY <1>1, <1>2, AppendProperties DEF SuiteTypes
<1>4. SuiteTypes'
  BY <1>1, <1>2, <1>3 DEF SuiteTypes
<1>5. Verdicts'
  <2>1. \A i : Excused(i)' <=> Excused(i)
    BY <1>1 DEF Excused
  <2>2. \A i \in 1..test : i \in 1..test-1 \/ i = test
    BY <1>2
  <2>3. \A i \in 1..test-1 : verdicts[i] \/ Excused(i)
    BY DEF Verdicts, SuiteTypes
  <2>4. \A i \in 1..test : verdicts'[i] \/ Excused(i)
    BY <1>3, <2>2, <2>3
  <2> QED
    BY <1>3, <2>1, <2>4 DEF Verdicts
<1>6. \A kinds : (Earlier(kinds) => Earlier(kinds)') /\ (Has(Script, kinds) => Earlier(kinds)')
  BY <1>1, <1>2 DEF Earlier, Script
<1> QED
  BY <1>4, <1>5, <1>6

\* A step within a test.
LEMMA TestGoesOn ==
  ASSUME SuiteTypes, Verdicts, UNCHANGED <<suiteKind, scripts, test, verdicts, leaked>>,
         next' \in Nat, rows' \in Nat
  PROVE  /\ SuiteTypes' /\ Verdicts' /\ Script' = Script
         /\ \A kinds : Earlier(kinds)' <=> Earlier(kinds)
BY DEF SuiteTypes, Verdicts, Excused, Script, Earlier

\* The script of the test that runs, and what it means so far.
LEMMA ScriptIs ==
  ASSUME SuiteTypes, Running
  PROVE  /\ test \in 1..Len(scripts) /\ Script \in Seq(SqlStatements) /\ Len(Script) \in Nat
         /\ LET st == StatesFrom(FreshTables, Script) IN
            /\ st[0] = FreshTables /\ Meant(Script) = st[Len(Script)]
            /\ \A i \in 1..Len(Script) : st[i] = Postgres(st[i - 1], Script[i])
            /\ \A i \in 0..Len(Script) : st[i] \in PgStates
<1>1. test \in 1..Len(scripts)
  BY LenProperties DEF SuiteTypes, Running
<1>2. Script \in Seq(SqlStatements)
  BY <1>1, ElementOfSeq, ScriptAssumption DEF SuiteTypes, Script
<1> QED
  BY <1>1, <1>2, FreshIs, StatesAre DEF Meant, Executed

\* A public test takes its file, or has none.
LEMMA StartPublicKeeps == ASSUME SuiteInv, StartPublic PROVE SuiteInv'
<1>1. SuiteTypes /\ Verdicts /\ PublicOK /\ Running /\ suiteKind = "public" /\ next = 0
  BY DEF SuiteInv, StartPublic
<1>2. rows' = rows /\ leaked' = leaked /\ rows \in Nat /\ leaked \in BOOLEAN
  BY DEF StartPublic, SuiteInv, SuiteTypes
<1>3. CASE Script = <<>>
  <2>1. TestOver(FALSE) /\ Excused(test)
    BY <1>3 DEF StartPublic, Excused, Script
  <2>2. SuiteTypes' /\ Verdicts' /\ (Earlier({"insert"}) => Earlier({"insert"})')
    BY <1>1, <1>2, <2>1, TestIsOver
  <2>3. next' = 0 /\ answer' = NoRows /\ suiteKind' = "public"
    BY <1>1, <2>1 DEF TestOver
  <2> QED
    BY <1>1, <1>2, <2>2, <2>3 DEF SuiteInv, PublicOK
<1>4. CASE Script # <<>>
  <2>1. next' = 1 /\ UNCHANGED <<suiteKind, scripts, test, answer, verdicts, leaked, rows>>
    BY <1>2, <1>4 DEF StartPublic
  <2>2. SuiteTypes' /\ Verdicts' /\ Script' = Script /\ (Earlier({"insert"})' <=> Earlier({"insert"}))
    BY <1>1, <1>2, <2>1, TestGoesOn
  <2>3. /\ test \in 1..Len(scripts) /\ Len(Script) \in Nat /\ Script \in Seq(SqlStatements)
        /\ StatesFrom(FreshTables, Script)[0] = FreshTables
    BY <1>1, ScriptIs
  <2>4. PublicOK'
    BY <1>1, <2>1, <2>2, <2>3 DEF PublicOK, FreshTables
  <2> QED
    BY <1>1, <2>1, <2>2, <2>4 DEF SuiteInv
<1> QED
  BY <1>3, <1>4

\* A statement of a public test that is executed or skipped over.
LEMMA StatementKeeps ==
  ASSUME SuiteInv, SkipControl \/ RunSelect \/ RunInsert PROVE SuiteInv'
<1>1. /\ SuiteTypes /\ Verdicts /\ PublicOK /\ Running /\ suiteKind = "public"
      /\ next \in 1..Len(Script) /\ next' = next + 1
      /\ UNCHANGED <<suiteKind, scripts, test, verdicts, leaked>>
  BY DEF SuiteInv, SkipControl, RunSelect, RunInsert, AtStatement
<1>2. PICK stm : stm = Script[next]
  OBVIOUS
<1>3. /\ stm \in SqlStatements /\ stm # "bad"
      /\ rows' = IF stm = "insert" THEN rows + 1 ELSE rows
      /\ answer' = IF stm = "select" THEN rows ELSE answer
  BY <1>2 DEF SkipControl, RunSelect, RunInsert, AtStatement, SqlStatements
<1>4. PICK st : st = StatesFrom(FreshTables, Script)
  OBVIOUS
<1>5. /\ test \in 1..Len(scripts) /\ Script \in Seq(SqlStatements) /\ Len(Script) \in Nat
      /\ \A i \in 1..Len(Script) : st[i] = Postgres(st[i - 1], Script[i])
      /\ \A i \in 0..Len(Script) : st[i] \in PgStates
  BY <1>1, <1>4, ScriptIs
<1>6. /\ rows' \in Nat /\ rows \in Nat /\ next' \in Nat /\ next' - 1 = next
      /\ next' \in 1..Len(Script)+1 /\ next - 1 \in 0..Len(Script)
  BY <1>1, <1>3, <1>5 DEF SuiteTypes
<1>7. SuiteTypes' /\ Verdicts' /\ Script' = Script /\ (Earlier({"insert"})' <=> Earlier({"insert"}))
  BY <1>1, <1>6, TestGoesOn
<1>8. /\ stm = "insert" => Has(Script, {"insert"})
      /\ stm = "rollback" => Has(Script, {"rollback"})
  BY <1>1, <1>2, <1>5, HasIs
<1>9. st[next] = Postgres(st[next - 1], stm) /\ st[next - 1] \in PgStates
  BY <1>1, <1>2, <1>5, <1>6
<1>10. \/ Earlier({"insert"}) \/ Has(Script, {"rollback"}) \/ st[next].failed
       \/ rows' = st[next].rows /\ answer' = st[next].answer
  <2> SUFFICES ASSUME ~Earlier({"insert"}), ~Has(Script, {"rollback"}), ~st[next].failed
               PROVE  rows' = st[next].rows /\ answer' = st[next].answer
    OBVIOUS
  <2>1. ~st[next - 1].failed
    BY <1>9 DEF Postgres
  <2>2. rows = st[next - 1].rows /\ answer = st[next - 1].answer
    BY <1>1, <1>4, <2>1 DEF PublicOK
  <2> QED
    BY <1>3, <1>8, <1>9, <2>1, <2>2 DEF Postgres, PgStates, SqlStatements
<1>11. rows' = 0 \/ Earlier({"insert"}) \/ Has(Script, {"insert"})
  BY <1>1, <1>3, <1>8 DEF PublicOK
<1>12. PublicOK'
  BY <1>1, <1>4, <1>5, <1>6, <1>7, <1>10, <1>11 DEF PublicOK
<1> QED
  BY <1>1, <1>7, <1>12 DEF SuiteInv

\* A public test ends: its statement failed, or its answer is compared.
LEMMA PublicEnds ==
  ASSUME SuiteInv, StatementFails \/ ComparePublic PROVE SuiteInv'
<1>1. /\ SuiteTypes /\ Verdicts /\ PublicOK /\ Running /\ suiteKind = "public" /\ next > 0
      /\ rows' = rows /\ leaked' = leaked
  <2>1. /\ SuiteTypes /\ Verdicts /\ Running /\ suiteKind = "public" /\ rows' = rows /\ leaked' = leaked
        /\ next \in 1..Len(Script) \/ next = Len(Script) + 1
    BY DEF SuiteInv, StatementFails, ComparePublic, AtStatement
  <2>2. Len(Script) \in Nat
    BY <2>1, ScriptIs
  <2> QED
    BY <2>1, <2>2 DEF SuiteInv
<1>2. PICK st : st = StatesFrom(FreshTables, Script)
  OBVIOUS
<1>3. /\ test \in 1..Len(scripts) /\ Script \in Seq(SqlStatements) /\ Len(Script) \in Nat
      /\ Meant(Script) = st[Len(Script)]
      /\ \A i \in 1..Len(Script) : st[i] = Postgres(st[i - 1], Script[i])
      /\ \A i \in 0..Len(Script) : st[i] \in PgStates
  BY <1>1, <1>2, ScriptIs
<1>4. PICK right \in BOOLEAN : TestOver(right) /\ (right \/ Excused(test))
  <2>1. CASE StatementFails
    <3>1. next \in 1..Len(Script) /\ Script[next] = "bad" /\ TestOver(FALSE)
      BY <2>1 DEF StatementFails, AtStatement
    <3>2. st[next].failed
      <4>1. st[next] = Postgres(st[next - 1], "bad") /\ st[next - 1] \in PgStates
        BY <1>3, <3>1
      <4> QED
        BY <4>1 DEF Postgres, PgStates
    <3>3. Meant(Script).failed
      BY <1>2, <1>3, <3>1, <3>2, FailedStays
    <3> QED
      BY <3>1, <3>3 DEF Excused, Script
  <2>2. CASE ComparePublic
    <3>1. next = Len(Script) + 1 /\ TestOver(answer = Meant(Script).answer)
      BY <2>2 DEF ComparePublic
    <3>2. \/ Earlier({"insert"}) \/ Has(Script, {"rollback"}) \/ Meant(Script).failed
          \/ answer = Meant(Script).answer
      BY <1>1, <1>2, <1>3, <3>1 DEF PublicOK
    <3>3. (answer = Meant(Script).answer) \/ Excused(test)
      BY <1>1, <3>2 DEF Excused, Script, Earlier
    <3> QED
      BY <3>1, <3>3
  <2> QED
    BY <2>1, <2>2
<1>5. /\ SuiteTypes' /\ Verdicts' /\ (Earlier({"insert"}) => Earlier({"insert"})')
      /\ (Has(Script, {"insert"}) => Earlier({"insert"})')
  BY <1>1, <1>4, TestIsOver DEF SuiteTypes
<1>6. next' = 0 /\ answer' = NoRows /\ suiteKind' = "public"
  BY <1>1, <1>4 DEF TestOver
<1> QED
  BY <1>1, <1>5, <1>6 DEF SuiteInv, PublicOK

\* A hidden test gets fresh tables, or ends where a setup was kept.
LEMMA ResetKeeps == ASSUME SuiteInv, ResetTables PROVE SuiteInv'
<1>1. /\ SuiteTypes /\ Verdicts /\ HiddenOK /\ Running /\ suiteKind # "public" /\ next = 0
      /\ rows' = 0 /\ leaked' = leaked /\ leaked \in BOOLEAN
  BY DEF SuiteInv, SuiteTypes, ResetTables
<1>2. CASE leaked
  <2>1. TestOver(FALSE)
    BY <1>2 DEF ResetTables
  <2>2. test \in 1..Len(scripts) /\ suiteKind = "mutation" /\ Earlier({"commit", "rollback"})
    BY <1>1, <1>2, ScriptIs DEF HiddenOK
  <2>3. Excused(test)
    BY <2>2 DEF Excused, Earlier
  <2>4. /\ SuiteTypes' /\ Verdicts'
        /\ (Earlier({"commit", "rollback"}) => Earlier({"commit", "rollback"})')
    BY <1>1, <2>1, <2>3, TestIsOver
  <2>5. next' = 0 /\ suiteKind' = suiteKind
    BY <2>1 DEF TestOver
  <2> QED
    BY <1>1, <2>2, <2>4, <2>5 DEF SuiteInv, HiddenOK
<1>3. CASE ~leaked
  <2>1. next' = 1 /\ UNCHANGED <<suiteKind, scripts, test, verdicts, leaked>>
    BY <1>1, <1>3 DEF ResetTables
  <2>2. SuiteTypes' /\ Verdicts'
    BY <1>1, <2>1, TestGoesOn
  <2> QED
    BY <1>1, <1>3, <2>1, <2>2 DEF SuiteInv, HiddenOK
<1> QED
  BY <1>2, <1>3

\* Tables without rows are the fresh ones.
LEMMA NoRowsFresh == [FreshTables EXCEPT !.rows = 0] = FreshTables
<1>1. FreshTables = [x \in DOMAIN FreshTables |-> FreshTables[x]] /\ FreshTables.rows = 0
  BY DEF FreshTables
<1> QED
  BY <1>1

\* One statement answers as the script it is.
LEMMA SelectKeeps == ASSUME SuiteInv, SelectHidden PROVE SuiteInv'
<1>1. /\ SuiteTypes /\ Verdicts /\ HiddenOK /\ Running /\ suiteKind = "selection" /\ next = 1
      /\ rows = 0 /\ leaked' = leaked /\ leaked = FALSE
  BY DEF SuiteInv, SuiteTypes, HiddenOK, SelectHidden
<1>2. PICK st : st = StatesFrom(FreshTables, Script)
  OBVIOUS
<1>3. /\ test \in 1..Len(scripts) /\ Script \in Seq(SqlStatements) /\ Len(Script) \in Nat
      /\ st[0] = FreshTables /\ Meant(Script) = st[Len(Script)]
      /\ \A i \in 1..Len(Script) : st[i] = Postgres(st[i - 1], Script[i])
  BY <1>1, <1>2, ScriptIs
<1>4. PICK mine \in PgStates : mine = Postgres([FreshTables EXCEPT !.rows = rows], Head(Script))
  <2>1. [FreshTables EXCEPT !.rows = rows] = FreshTables
    BY <1>1, NoRowsFresh
  <2> QED
    BY <2>1, FreshIs, PostgresTypes
<1>5. Len(Script) = 1 => Meant(Script) = mine
  <2> SUFFICES ASSUME Len(Script) = 1 PROVE Meant(Script) = mine
    OBVIOUS
  <2>1. [FreshTables EXCEPT !.rows = rows] = FreshTables
    BY <1>1, NoRowsFresh
  <2>2. Head(Script) = Script[1] /\ Meant(Script) = st[1]
    BY <1>3
  <2>3. st[1] = Postgres(st[0], Script[1])
    BY <1>3
  <2> QED
    BY <1>3, <1>4, <2>1, <2>2, <2>3
<1>6. rows' \in Nat /\ \E right \in BOOLEAN : TestOver(right) /\ (right \/ Excused(test))
  <2>1. CASE Len(Script) = 1 /\ ~mine.failed
    <3>1. rows' = mine.rows /\ TestOver(mine.answer = Meant(Script).answer)
      BY <1>4, <2>1 DEF SelectHidden
    <3>2. mine.answer = Meant(Script).answer
      BY <1>5, <2>1
    <3>3. rows' \in Nat
      BY <3>1 DEF PgStates
    <3>4. (mine.answer = Meant(Script).answer) \in BOOLEAN
      OBVIOUS
    <3> QED
      BY <3>1, <3>2, <3>3, <3>4
  <2>2. CASE ~(Len(Script) = 1 /\ ~mine.failed)
    <3>1. TestOver(FALSE) /\ rows' = rows
      BY <1>4, <2>2 DEF SelectHidden
    <3>2. Excused(test)
      <4>1. CASE Len(Script) = 1
        BY <1>5, <2>2, <4>1 DEF Excused, Script
      <4>2. CASE Len(Script) = 0
        BY <1>3, <4>2, EmptySeq DEF Excused, Script
      <4>3. CASE Len(Script) > 1
        BY <1>1, <4>3 DEF Excused, Script
      <4>4. PICK n \in Nat : n = Len(Script)
        BY <1>3
      <4>5. n = 0 \/ n = 1 \/ n > 1
        OBVIOUS
      <4> QED
        BY <4>1, <4>2, <4>3, <4>4, <4>5
    <3> QED
      BY <1>1, <3>1, <3>2
  <2> QED
    BY <2>1, <2>2
<1>7. PICK right \in BOOLEAN : TestOver(right) /\ (right \/ Excused(test))
  BY <1>6
<1>8. SuiteTypes' /\ Verdicts'
  BY <1>1, <1>6, <1>7, TestIsOver DEF SuiteTypes
<1>9. next' = 0 /\ suiteKind' = "selection"
  BY <1>1, <1>7 DEF TestOver
<1> QED
  BY <1>1, <1>8, <1>9 DEF SuiteInv, HiddenOK

\* A script that changes rows, against the reference in the transaction of its setup.
LEMMA MutateKeeps == ASSUME SuiteInv, MutateHidden PROVE SuiteInv'
<1>1. /\ SuiteTypes /\ Verdicts /\ HiddenOK /\ Running /\ suiteKind = "mutation" /\ next = 1
      /\ rows = 0 /\ leaked = FALSE
  BY DEF SuiteInv, SuiteTypes, HiddenOK, MutateHidden
<1>2. /\ test \in 1..Len(scripts) /\ Script \in Seq(SqlStatements) /\ Len(Script) \in Nat
      /\ Meant(Script) \in PgStates
  BY <1>1, ScriptIs
<1>3. Executed([FreshTables EXCEPT !.rows = rows], Script) = Meant(Script)
  <2>1. [FreshTables EXCEPT !.rows = rows] = FreshTables
    BY <1>1, NoRowsFresh
  <2> QED
    BY <2>1 DEF Meant
<1>4. PICK mine \in PgStates : mine = Meant(Script)
  BY <1>2
<1>5. PICK theirs \in RefStates : theirs = MeantHere(Script)
  BY <1>2, ReferencesAre DEF MeantHere
<1>6. PICK right \in BOOLEAN :
        right = (Script # <<>> /\ ~mine.failed /\ ~theirs.failed /\ ~theirs.gone
                   /\ mine.rows = theirs.rows)
  OBVIOUS
<1>7. /\ rows' = mine.rows /\ leaked' = (~mine.failed /\ theirs.kept) /\ TestOver(right)
  BY <1>1, <1>3, <1>4, <1>5, <1>6 DEF MutateHidden
<1>8. rows' \in Nat /\ leaked' \in BOOLEAN
  BY <1>7 DEF PgStates, RefStates
<1>9. /\ ~Has(Script, {"commit", "rollback"}) /\ ~mine.failed =>
           ~theirs.failed /\ ~theirs.gone /\ theirs.rows = mine.rows
      /\ theirs.kept => Has(Script, {"commit", "rollback"})
  BY <1>2, <1>4, <1>5, ReferenceAgrees
<1>10. right \/ Excused(test)
  <2>1. CASE Has(Script, {"commit", "rollback"})
    BY <1>1, <1>2, <2>1 DEF Excused, Script
  <2>2. CASE Script = <<>> \/ mine.failed
    BY <1>4, <2>2 DEF Excused, Script
  <2> QED
    BY <1>6, <1>9, <2>1, <2>2
<1>11. /\ SuiteTypes' /\ Verdicts'
       /\ (Has(Script, {"commit", "rollback"}) => Earlier({"commit", "rollback"})')
  BY <1>1, <1>7, <1>8, <1>10, TestIsOver
<1>12. next' = 0 /\ suiteKind' = "mutation"
  BY <1>1, <1>7 DEF TestOver
<1>13. leaked' => Earlier({"commit", "rollback"})'
  BY <1>7, <1>9, <1>11
<1> QED
  BY <1>11, <1>12, <1>13 DEF SuiteInv, HiddenOK, PublicOK

\* Every step keeps the suite's invariant.
LEMMA AnswersKeep == SuiteInv /\ [SplitNext \/ SuiteNext]_scriptVars => SuiteInv'
<1> SUFFICES ASSUME SuiteInv, [SplitNext \/ SuiteNext]_scriptVars PROVE SuiteInv'
  OBVIOUS
<1>1. CASE UNCHANGED suiteVars
  BY <1>1 DEF suiteVars, SuiteInv, SuiteTypes, Verdicts, Excused, PublicOK, HiddenOK, Earlier, Script
<1>2. SplitNext => UNCHANGED suiteVars
  BY DEF SplitNext, OpenLiteral, MeetQuote, EndStatement, CopyGlyph, LastStatement
<1>3. CASE SuiteNext
  BY <1>3, StartPublicKeeps, StatementKeeps, PublicEnds, ResetKeeps, SelectKeeps, MutateKeeps
     DEF SuiteNext
<1> QED
  BY <1>1, <1>2, <1>3 DEF scriptVars

\* A wrong verdict has one of the reasons.
LEMMA SuiteTells == SuiteInv => AnswersExplained
<1> SUFFICES ASSUME SuiteInv, NEW i \in 1..Len(verdicts), ~verdicts[i], scripts[i] # <<>>,
                    ~Meant(scripts[i]).failed
             PROVE  CASE suiteKind = "public" -> \/ Has(scripts[i], {"rollback"})
                                             \/ \E j \in 1..i-1 : Has(scripts[j], {"insert"})
                      [] suiteKind = "selection" -> Len(scripts[i]) > 1
                      [] OTHER -> \E j \in 1..i : Has(scripts[j], {"commit", "rollback"})
  BY DEF AnswersExplained
<1>1. Excused(i) /\ suiteKind \in {"public", "selection", "mutation"}
  BY DEF SuiteInv, SuiteTypes, Verdicts
<1> QED
  BY <1>1 DEF Excused

\* SqlAnswers: a text is cut into the statements SQL reads in it, unless it has a comment,
\* $$ or a doubled quote; and a right script fails its test only for the reasons that the
\* one container and the one transaction of a suite give.
THEOREM ScriptsExplainedAlways == ScriptsSpec => []ScriptsExplained
<1> DEFINE Inv == SplitInv /\ SuiteInv
<1>1. ScriptsInit => Inv
  BY SplitStarts, SuiteStarts
<1>2. Inv /\ [SplitNext \/ SuiteNext]_scriptVars => Inv'
  BY SplitKeeps, AnswersKeep
<1>3. Inv => ScriptsExplained
  BY SplitTells, SuiteTells DEF ScriptsExplained
<1> QED
  BY <1>1, <1>2, <1>3, PTL DEF ScriptsSpec
-----------------------------------------------------------------------------
(* The components of a grader, taken together (MCGraderPools)              *)

\* A behaviour of the composition is one of every component.
LEMMA GraderParts ==
  GraderSpec => /\ NetSpec /\ ChallengeSpec /\ BoxSpec
                /\ SqlSpec /\ PhasesSpec /\ ScriptsSpec
<1>1. GraderInit => /\ NetInit /\ ChallengeInit /\ BoxInit
                    /\ SqlInit /\ PhasesInit /\ ScriptsInit
  BY DEF GraderInit
<1>2. [GraderNext]_graderVars => [NetNext]_netVars
  BY DEF GraderNext, graderVars
<1>3. [GraderNext]_graderVars => [ChallengeNext]_challengeVars
  BY DEF GraderNext, graderVars
<1>4. [GraderNext]_graderVars => [BoxNext]_boxVars
  BY DEF GraderNext, graderVars
<1>5. [GraderNext]_graderVars => [SqlNext]_sqlVars
  BY DEF GraderNext, graderVars
<1>6. [GraderNext]_graderVars => [PhasesNext]_phasesVars
  BY DEF GraderNext, graderVars
<1>7. [GraderNext]_graderVars => [SplitNext \/ SuiteNext]_scriptVars
  BY DEF GraderNext, graderVars
<1> QED
  BY <1>1, <1>2, <1>3, <1>4, <1>5, <1>6, <1>7, PTL
     DEF GraderSpec, NetSpec, ChallengeSpec, BoxSpec, SqlSpec, PhasesSpec, ScriptsSpec

\* Whichever component runs, what it has is of its types: network and challenge pools
\* (network_pool.go, challenge_pool.go) stay in the steps of their code.
THEOREM GraderTypesAlways == GraderSpec => []GraderTypeOK
<1>1. NetTypeOK /\ ChallengeTypeOK => GraderTypeOK
  BY DEF GraderTypeOK
<1> QED
  BY <1>1, GraderParts, NetTypesAlways, ChallengeTypesAlways, PTL

\* Both pools of containers are pools: a container passes from one user to the next only
\* through its pool (challenge_pool.go, container_pool.go).
THEOREM ContainersRefineAlways == GraderSpec => ContainersRefine
BY GraderParts, ChallengePoolIsPool, ContainerPoolIsPool DEF ContainersRefine

\* What the components promise, each on its own, holds of them together.
THEOREM GraderSafe ==
  GraderSpec => /\ []NetworksAccounted /\ []CleanHandOut /\ []ContainersAccounted
                /\ []GradedOnOwnWork /\ []StuckExplained /\ []SqlExplained
                /\ []GradesExplained /\ []ScriptsExplained
                /\ NetworkPoolRefines /\ ContainersRefine
BY GraderParts, ContainersRefineAlways, NetworksAccountedAlways, CleanHandOutAlways,
   ContainersAccountedAlways, GradedOnOwnWorkAlways, StuckExplainedAlways,
   SqlExplainedAlways, GradesExplainedAlways, ScriptsExplainedAlways, NetworkPoolIsPool
=============
