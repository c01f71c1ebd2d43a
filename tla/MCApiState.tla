----------------------------- MODULE MCApiState -----------------------------
(***************************************************************************)
(* Small instances of what the API keeps in Redis and in the database for  *)
(* one user or one attempt.  The components share no state: a behaviour is *)
(* one of the component "part", and the others stay where they start.      *)
(***************************************************************************)
EXTENDS Sessions, ExamEntry, Accounts, TestRun, ProctorLog, ExamPage, Keystrokes,
        ScreenCapture

VARIABLE part  \* the component that runs

Parts == {"sessions", "entry", "accounts", "run", "log", "page", "keys", "screen"}
captureVars == <<keyVars, screenVars>>
apiVars == <<part, sessionVars, entryVars, accountVars, runVars, logVars, pageVars, captureVars>>

ApiInit ==
  /\ part \in Parts
  /\ SessionInit /\ EntryInit /\ AccountInit /\ RunInit /\ LogInit
  /\ PageInit /\ KeyInit /\ ScreenInit

ApiNext ==
  \/ /\ part = "sessions" /\ SessionNext
     /\ UNCHANGED <<part, entryVars, accountVars, runVars, logVars, pageVars, captureVars>>
  \/ /\ part = "entry" /\ EntryNext
     /\ UNCHANGED <<part, sessionVars, accountVars, runVars, logVars, pageVars, captureVars>>
  \/ /\ part = "accounts" /\ AccountNext
     /\ UNCHANGED <<part, sessionVars, entryVars, runVars, logVars, pageVars, captureVars>>
  \/ /\ part = "run" /\ RunNext
     /\ UNCHANGED <<part, sessionVars, entryVars, accountVars, logVars, pageVars, captureVars>>
  \/ /\ part = "log" /\ LogNext
     /\ UNCHANGED <<part, sessionVars, entryVars, accountVars, runVars, pageVars, captureVars>>
  \/ /\ part = "page" /\ PageNext
     /\ UNCHANGED <<part, sessionVars, entryVars, accountVars, runVars, logVars, captureVars>>
  \/ /\ part = "keys" /\ KeyNext
     /\ UNCHANGED <<part, sessionVars, entryVars, accountVars, runVars, logVars, pageVars, screenVars>>
  \/ /\ part = "screen" /\ ScreenNext
     /\ UNCHANGED <<part, sessionVars, entryVars, accountVars, runVars, logVars, pageVars, keyVars>>

ApiSpec == ApiInit /\ [][ApiNext]_apiVars

-----------------------------------------------------------------------------
(* The types of the components, taken together                             *)

\* Types, and the range of every counter, of the component that runs.
ApiTypeOK ==
  CASE part = "sessions" -> SessionTypeOK  [] part = "entry" -> EntryTypeOK
    [] part = "accounts" -> AccountTypeOK
    [] part = "run" -> RunTypeOK      [] part = "log" -> LogTypeOK
    [] part = "page" -> PageTypeOK    [] part = "keys" -> KeyTypeOK
    [] part = "screen" -> ScreenTypeOK
=============================================================================
