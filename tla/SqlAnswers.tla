----------------------------- MODULE SqlAnswers -----------------------------
(***************************************************************************)
(* What the SQL grader (grader-go internal/grader/sql_grader.go) makes of  *)
(* SQL text: how it splits a script into statements, and what the tests of *)
(* one suite answer, each with the script of its own file, in the one      *)
(* container of the suite.  The submission is a right one: its scripts are *)
(* the reference's, and what they mean is what Postgres makes of each on   *)
(* fresh tables.  SqlGrading has the containers and connections.           *)
(***************************************************************************)
EXTENDS Naturals, SequencesExt

CONSTANTS MaxText,     \* bound: length of a text that is split
          SqlScripts,  \* the scripts a file may hold: sequences of statements
          MaxFiles,    \* bound: tests of a suite
          NoRows       \* the answer of a script without a select

(* One table, of which only the number of added rows matters; a select     *)
(* answers it.  "bad" fails.  A script has at most one transaction; the     *)
(* empty one stands for a file that was not submitted.                     *)
SqlStatements == {"begin", "commit", "rollback", "insert", "select", "bad"}

ASSUME ScriptAssumption ==
    MaxText \in Nat /\ MaxFiles \in Nat /\ SqlScripts \subseteq Seq(SqlStatements)

Quotes == {"'", "\""}
Glyphs == Quotes \cup {";", "--", "$$", "newline", "x"}

VARIABLES text, seen,  \* what is split, and how far
          literal,     \* stringChar, or "none" outside of one
          current, statements,
          suiteKind,   \* "public"; "selection" or "mutation" of hidden tests
          scripts,     \* the script of each test
          test, next,  \* the test that runs, and its statement
          rows,        \* of the container's table
          answer,      \* of the last select
          verdicts,    \* [tests so far -> BOOLEAN]
          leaked       \* the shared database keeps the tables of a setup

splitVars == <<text, seen, literal, current, statements>>
suiteVars == <<suiteKind, scripts, test, next, rows, answer, verdicts, leaked>>
scriptVars == <<splitVars, suiteVars>>

Texts == UNION {[1..n -> Glyphs] : n \in 0..MaxText}

(* A text is split, or a suite runs.                                       *)
ScriptsInit ==
    /\ text \in Texts
    /\ seen = 0 /\ literal = "none" /\ current = <<>> /\ statements = <<>>
    /\ suiteKind \in {"public", "selection", "mutation"}
    /\ scripts \in UNION {[1..n -> SqlScripts] : n \in 0..MaxFiles}
    /\ text = <<>> \/ (scripts = <<>> /\ suiteKind = "public")
    /\ test = 1 /\ next = 0 /\ rows = 0 /\ answer = NoRows
    /\ verdicts = <<>> /\ leaked = FALSE
-----------------------------------------------------------------------------
(* splitSQLStatements                                                      *)

Blank(piece) == ToSet(piece) \subseteq {"newline"}
AddPiece(pieces, piece) == IF Blank(piece) THEN pieces ELSE Append(pieces, piece)

Glyph == text[seen + 1]
Reading == seen < Len(text) /\ seen' = seen + 1
Copy == current' = Append(current, Glyph) /\ UNCHANGED statements

OpenLiteral ==
    /\ Reading /\ literal = "none" /\ Glyph \in Quotes
    /\ literal' = Glyph /\ Copy
    /\ UNCHANGED <<text, suiteVars>>

(* A quote followed by another does not end the literal; the other one     *)
(* does, unless a third follows.                                           *)
MeetQuote ==
    /\ Reading /\ literal # "none" /\ Glyph = literal
    /\ literal' = IF seen + 2 <= Len(text) /\ text[seen + 2] = Glyph
                  THEN literal ELSE "none"
    /\ Copy
    /\ UNCHANGED <<text, suiteVars>>

EndStatement ==
    /\ Reading /\ literal = "none" /\ Glyph = ";"
    /\ statements' = AddPiece(statements, current) /\ current' = <<>>
    /\ UNCHANGED <<text, literal, suiteVars>>

CopyGlyph ==
    /\ Reading
    /\ IF literal = "none" THEN Glyph \notin Quotes \cup {";"} ELSE Glyph # literal
    /\ Copy
    /\ UNCHANGED <<text, literal, suiteVars>>

(* Variant: only a semicolon ends a statement.                             *)
LastStatementLost ==
    /\ seen = Len(text) /\ current # <<>>
    /\ current' = <<>>
    /\ UNCHANGED <<text, seen, literal, statements, suiteVars>>

(* The last one may end without a semicolon.                               *)
LastStatement ==
    /\ seen = Len(text) /\ current # <<>>
    /\ statements' = AddPiece(statements, current) /\ current' = <<>>
    /\ UNCHANGED <<text, seen, literal, suiteVars>>

SplitNext == OpenLiteral \/ MeetQuote \/ EndStatement \/ CopyGlyph \/ LastStatement

(* SQL's own reading: where each glyph stands.  A doubled quote is part of *)
(* its literal, a comment runs to the end of the line, $$ quotes up to the *)
(* next $$.                                                                *)
PlaceAfter(place, i) ==
    LET g == text[i] IN
    CASE place = "code" -> IF g \in Quotes \cup {"--", "$$"} THEN g ELSE "code"
      [] place = "--" -> IF g = "newline" THEN "code" ELSE "--"
      [] place = "$$" -> IF g = "$$" THEN "code" ELSE "$$"
      [] place \in Quotes -> IF g # place THEN place
                             ELSE IF i < Len(text) /\ text[i + 1] = g
                                  THEN "doubled" ELSE "code"
      [] OTHER -> g

Places ==  \* of each glyph, as it is met
    LET after[i \in 0..Len(text)] ==
            IF i = 0 THEN "code" ELSE PlaceAfter(after[i - 1], i)
    IN  after

(* The text cut at the semicolons of the code: what is done with after so  *)
(* many glyphs, and the piece that is not.                                 *)
Cut(done, i) ==
    IF Places[i - 1] = "code" /\ text[i] = ";"
    THEN [pieces |-> AddPiece(done.pieces, done.rest), rest |-> <<>>]
    ELSE [done EXCEPT !.rest = Append(@, text[i])]

Cuts ==
    LET cuts[i \in 0..Len(text)] ==
            IF i = 0 THEN [pieces |-> <<>>, rest |-> <<>>] ELSE Cut(cuts[i - 1], i)
    IN  cuts

MeantPieces ==
    LET all == Cuts[Len(text)]
    IN  AddPiece(all.pieces, all.rest)

(* A text is split at the semicolons that end its statements, except that  *)
(* the grader does not know comments and $$, and takes the second half of  *)
(* a doubled quote for the end of the literal.                             *)
SplitExplained ==
    (seen = Len(text) /\ current = <<>>) =>
        \/ statements = MeantPieces
        \/ \E i \in 1..Len(text) : Places[i] \notin {"code"} \cup Quotes
-----------------------------------------------------------------------------
(* What Postgres makes of a script on fresh tables; the first failure ends *)
(* it, and a transaction that is open then is rolled back.                 *)
FreshTables ==
    [rows |-> 0, kept |-> 0, open |-> FALSE, answer |-> NoRows, failed |-> FALSE]

Postgres(s, statement) ==
    IF s.failed THEN s ELSE
    CASE statement = "begin" -> [s EXCEPT !.open = TRUE, !.kept = s.rows]
      [] statement = "commit" -> [s EXCEPT !.open = FALSE]
      [] statement = "rollback" ->
            [s EXCEPT !.open = FALSE, !.rows = IF s.open THEN s.kept ELSE @]
      [] statement = "insert" -> [s EXCEPT !.rows = @ + 1]
      [] statement = "select" -> [s EXCEPT !.answer = s.rows]
      [] OTHER -> [s EXCEPT !.failed = TRUE, !.rows = IF s.open THEN s.kept ELSE @]

(* Its states from s on, after so many statements.                         *)
StatesFrom(s, script) ==
    LET states[i \in 0..Len(script)] ==
            IF i = 0 THEN s ELSE Postgres(states[i - 1], script[i])
    IN  states

Executed(s, script) == StatesFrom(s, script)[Len(script)]
Meant(script) == Executed(FreshTables, script)

(* The same, inside the transaction of the hidden database in which the    *)
(* setup ran: begin only warns, commit keeps the tables of the setup, and  *)
(* rollback takes them away.                                               *)
InSetupTx == [rows |-> 0, open |-> TRUE, gone |-> FALSE, kept |-> FALSE, failed |-> FALSE]

Reference(s, statement) ==
    IF s.failed THEN s ELSE
    CASE statement = "commit" -> [s EXCEPT !.open = FALSE, !.kept = @ \/ s.open]
      [] statement = "rollback" -> [s EXCEPT !.open = FALSE, !.gone = @ \/ s.open]
      [] statement \in {"insert", "select", "bad"} ->
            IF s.gone \/ statement = "bad" THEN [s EXCEPT !.failed = TRUE]
            ELSE IF statement = "insert" THEN [s EXCEPT !.rows = @ + 1] ELSE s
      [] OTHER -> s

References(script) ==
    LET states[i \in 0..Len(script)] ==
            IF i = 0 THEN InSetupTx ELSE Reference(states[i - 1], script[i])
    IN  states

MeantHere(script) == References(script)[Len(script)]
-----------------------------------------------------------------------------
Script == scripts[test]
Running == test <= Len(scripts)

(* A test ends; the suite goes on whatever came of it.                     *)
TestOver(right) ==
    /\ verdicts' = Append(verdicts, right)
    /\ test' = test + 1 /\ next' = 0 /\ answer' = NoRows
    /\ UNCHANGED <<suiteKind, scripts>>

(* A public test takes its file; the table is as the last test left it.    *)
StartPublic ==
    /\ Running /\ suiteKind = "public" /\ next = 0
    /\ IF Script = <<>> THEN TestOver(FALSE)
       ELSE next' = 1 /\ UNCHANGED <<suiteKind, scripts, test, answer, verdicts>>
    /\ UNCHANGED <<rows, leaked, splitVars>>

AtStatement(kinds) ==
    suiteKind = "public" /\ next \in 1..Len(Script) /\ Script[next] \in kinds

(* runTestOnContainer, executeMultiStatementSQL: transactions are skipped  *)
(* over ...                                                                *)
SkipControl ==
    /\ Running /\ AtStatement({"begin", "commit", "rollback"})
    /\ next' = next + 1
    /\ UNCHANGED <<suiteKind, scripts, test, rows, answer, verdicts, leaked, splitVars>>

RunSelect ==
    /\ Running /\ AtStatement({"select"})
    /\ next' = next + 1 /\ answer' = rows
    /\ UNCHANGED <<suiteKind, scripts, test, rows, verdicts, leaked, splitVars>>

(* ... so that every other statement is kept at once ...                   *)
RunInsert ==
    /\ Running /\ AtStatement({"insert"})
    /\ next' = next + 1 /\ rows' = rows + 1
    /\ UNCHANGED <<suiteKind, scripts, test, answer, verdicts, leaked, splitVars>>

(* ... also when a later one fails.                                        *)
StatementFails ==
    /\ Running /\ AtStatement({"bad"})
    /\ TestOver(FALSE)
    /\ UNCHANGED <<rows, leaked, splitVars>>

ComparePublic ==
    /\ Running /\ suiteKind = "public" /\ next = Len(Script) + 1
    /\ TestOver(answer = Meant(Script).answer)
    /\ UNCHANGED <<rows, leaked, splitVars>>

(* Variant: the container's tables are not dropped first.                  *)
ResetTablesNot ==
    /\ Running /\ suiteKind # "public" /\ next = 0
    /\ IF leaked THEN TestOver(FALSE)
       ELSE next' = 1 /\ UNCHANGED <<suiteKind, scripts, test, answer, verdicts>>
    /\ UNCHANGED <<rows, leaked, splitVars>>

(* Hidden tests: the container's tables are dropped and set up again, and  *)
(* set up in a transaction of the shared database, which fails where an    *)
(* earlier one was kept.                                                   *)
ResetTables ==
    /\ Running /\ suiteKind # "public" /\ next = 0
    /\ rows' = 0
    /\ IF leaked THEN TestOver(FALSE)
       ELSE next' = 1 /\ UNCHANGED <<suiteKind, scripts, test, answer, verdicts>>
    /\ UNCHANGED <<leaked, splitVars>>

(* Selection: a query with rows to collect, which pgx prepares and cannot  *)
(* if there are several statements.  The reference reads fresh tables.     *)
SelectHidden ==
    /\ Running /\ suiteKind = "selection" /\ next = 1
    /\ LET mine == Postgres([FreshTables EXCEPT !.rows = rows], Head(Script))
       IN  IF Len(Script) = 1 /\ ~mine.failed
           THEN rows' = mine.rows /\ TestOver(mine.answer = Meant(Script).answer)
           ELSE TestOver(FALSE) /\ UNCHANGED rows
    /\ UNCHANGED <<leaked, splitVars>>

(* Mutation: the script is executed as a whole, the reference in its       *)
(* transaction, and a validation query reads both tables; it finds none    *)
(* where the reference rolled the setup back.                              *)
MutateHidden ==
    /\ Running /\ suiteKind = "mutation" /\ next = 1
    /\ LET mine == Executed([FreshTables EXCEPT !.rows = rows], Script)
           theirs == MeantHere(Script)
       IN  /\ rows' = mine.rows
           /\ leaked' = (leaked \/ (~mine.failed /\ theirs.kept))
           /\ TestOver(Script # <<>> /\ ~mine.failed /\ ~theirs.failed /\ ~theirs.gone
                         /\ mine.rows = theirs.rows)
    /\ UNCHANGED splitVars

SuiteNext ==
    \/ StartPublic \/ SkipControl \/ RunSelect \/ RunInsert \/ StatementFails
    \/ ComparePublic \/ ResetTables \/ SelectHidden \/ MutateHidden

ScriptsSpec == ScriptsInit /\ [][SplitNext \/ SuiteNext]_scriptVars
-----------------------------------------------------------------------------
Has(script, kinds) == ToSet(script) \cap kinds # {}

(* A right answer passes its test, whatever the other tests of the suite   *)
(* do, but for these reasons: among public tests, it takes something back  *)
(* itself, or an earlier test left rows; among hidden ones, it has several *)
(* statements where one is prepared, it ends a transaction in the database *)
(* of the references, or the tables of an earlier one were kept there.     *)
AnswersExplained ==
    \A i \in 1..Len(verdicts) :
        ~verdicts[i] /\ scripts[i] # <<>> /\ ~Meant(scripts[i]).failed =>
            CASE suiteKind = "public" -> \/ Has(scripts[i], {"rollback"})
                                     \/ \E j \in 1..i-1 : Has(scripts[j], {"insert"})
              [] suiteKind = "selection" -> Len(scripts[i]) > 1
              [] OTHER -> \E j \in 1..i : Has(scripts[j], {"commit", "rollback"})

(* What the grader makes of a script is what it means, but for the reasons *)
(* above.                                                                  *)
ScriptsExplained == SplitExplained /\ AnswersExplained
=============================================================================
