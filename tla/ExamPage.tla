------------------------------ MODULE ExamPage ------------------------------
(***************************************************************************)
(* The files of an attempt in the exam page (apps/web/src/app/exam/[id]/   *)
(* page.tsx, hooks/useExamSocket.ts, lib/socket.ts) on their way to the    *)
(* autosave buffer: edits, the debounced save and its timer, the save that *)
(* comes before a test run, and the page loaded again.                     *)
(*                                                                         *)
(* Contents are versions: the n-th edit makes version n, 0 is what a new   *)
(* attempt starts with.  What the API does with a save is one step here;   *)
(* AttemptLifecycle has its steps.                                         *)
(***************************************************************************)
EXTENDS Naturals, FiniteSets

CONSTANTS MaxEdits,      \* bound on edits
          MaxLoads,      \* bound on loads of the page
          MaxSaves,      \* bound on saves that are sent
          MaxPageFaults, \* bound on lost connections and failing requests
          Nothing        \* no version, no timer

ASSUME PageAssumption ==
  /\ MaxEdits \in Nat /\ MaxLoads \in Nat /\ MaxSaves \in Nat
  /\ MaxPageFaults \in Nat /\ Nothing \notin Nat

VARIABLES
  view,                \* "closed", "loading", "open"
  rowRead,             \* the files in the answer to getAttempt
  shownFiles,          \* the files in the editor
  saveTimer,           \* saveTimeoutRef: a version to save, IdleTimer, Nothing
  pageJoined,          \* the server knows the attempt of the socket
  savesSent,           \* saves sent so far
  pageSaves,           \* saves under way
  pageBuffer, bufferBy,\* the autosave buffer, and the save that wrote it
  pageRow,             \* the files in the attempt's row
  edits, pageLoads, pageFaults,
  failedSaves,         \* versions whose save failed, or was dropped with the page
  cancelledSaves,      \* versions whose timer an answer replaced
  overtakenSaves       \* versions in the buffer that an older save replaced

pageClient == <<view, rowRead, shownFiles, saveTimer, pageJoined>>
pageStored == <<pageBuffer, bufferBy, pageRow>>
pageCounts == <<edits, pageLoads, pageFaults>>
pagePast == <<failedSaves, cancelledSaves, overtakenSaves>>
pageVars == <<pageClient, savesSent, pageSaves, pageStored, pageCounts, pagePast>>

Versions == 0..MaxEdits
IdleTimer == MaxEdits + 1   \* the timer that only resets the status shown

\* at: "sent" or, until it is answered, "written"; heard: the answer will find
\* the hook that waits for it, which that of a save by HTTP does not
SaveReq == [n : 1..MaxSaves, files : Versions, at : {"sent", "written"},
            heard : BOOLEAN]

PageFault == pageFaults < MaxPageFaults /\ pageFaults' = pageFaults + 1

SendSave(v, heard) ==
  /\ savesSent < MaxSaves
  /\ savesSent' = savesSent + 1
  /\ pageSaves' = pageSaves \cup
       {[n |-> savesSent + 1, files |-> v, at |-> "sent", heard |-> heard]}

\* what is left of the saves under way when nobody waits for their answers
Unheard(reqs) == {[r EXCEPT !.heard = FALSE] : r \in {q \in reqs : q.at = "sent"}}

-----------------------------------------------------------------------------
(* Loading                                                                 *)

\* GET /attempts/:id answers the row, not the buffer
LoadAttempt ==
  /\ view = "closed" /\ pageLoads < MaxLoads
  /\ view' = "loading" /\ rowRead' = pageRow /\ pageLoads' = pageLoads + 1
  /\ UNCHANGED <<shownFiles, saveTimer, pageJoined, savesSent, pageSaves,
                 pageStored, edits, pageFaults, pagePast>>

\* setFiles, after which the effect of the autosave runs
ShowAttempt ==
  /\ view = "loading"
  /\ view' = "open" /\ shownFiles' = rowRead /\ saveTimer' = rowRead
  /\ rowRead' = 0
  /\ UNCHANGED <<pageJoined, savesSent, pageSaves, pageStored,
                 pageCounts, pagePast>>

\* the page is left or loaded again: the timer is cleared, nobody waits for answers
LeavePage ==
  /\ view # "closed"
  /\ view' = "closed" /\ rowRead' = 0 /\ saveTimer' = Nothing /\ pageJoined' = FALSE
  /\ failedSaves' = failedSaves \cup ({saveTimer} \cap Versions)
  /\ pageSaves' = Unheard(pageSaves)
  /\ UNCHANGED <<shownFiles, savesSent, pageStored, pageCounts,
                 cancelledSaves, overtakenSaves>>

\* connectToExam, or rejoinActiveAttempts
JoinPage ==
  /\ view # "closed" /\ ~pageJoined
  /\ pageJoined' = TRUE
  /\ UNCHANGED <<view, rowRead, shownFiles, saveTimer, savesSent, pageSaves,
                 pageStored, pageCounts, pagePast>>

\* saves that were sent may still arrive; their answers do not
PageLinkDrops ==
  /\ pageJoined /\ PageFault
  /\ pageJoined' = FALSE
  /\ pageSaves' = Unheard(pageSaves)
  /\ UNCHANGED <<view, rowRead, shownFiles, saveTimer, savesSent, pageStored,
                 edits, pageLoads, pagePast>>

-----------------------------------------------------------------------------
(* Editing and saving                                                      *)

\* Variant: a timer that is set is left as it is.
EditUntimed ==
  /\ view = "open" /\ edits < MaxEdits
  /\ edits' = edits + 1 /\ shownFiles' = edits + 1
  /\ saveTimer' = IF saveTimer \in Versions THEN saveTimer ELSE edits + 1
  /\ UNCHANGED <<view, rowRead, pageJoined, savesSent, pageSaves, pageStored,
                 pageLoads, pageFaults, pagePast>>

\* handleFileChange, onFileChange of SQL, the starter files of confirmReset:
\* setFiles, and debouncedSave in place of the timer that is set
Edit ==
  /\ view = "open" /\ edits < MaxEdits
  /\ edits' = edits + 1 /\ shownFiles' = edits + 1 /\ saveTimer' = edits + 1
  /\ UNCHANGED <<view, rowRead, pageJoined, savesSent, pageSaves, pageStored,
                 pageLoads, pageFaults, pagePast>>

\* the timer fires: saveFiles fails at once, or is refused, without the attempt
SaveDue ==
  /\ saveTimer \in Versions
  /\ saveTimer' = Nothing
  /\ IF pageJoined
     THEN SendSave(saveTimer, TRUE) /\ UNCHANGED failedSaves
     ELSE /\ failedSaves' = failedSaves \cup {saveTimer}
          /\ UNCHANGED <<savesSent, pageSaves>>
  /\ UNCHANGED <<view, rowRead, shownFiles, pageJoined, pageStored,
                 pageCounts, cancelledSaves, overtakenSaves>>

IdleDue ==
  /\ saveTimer = IdleTimer /\ saveTimer' = Nothing
  /\ UNCHANGED <<view, rowRead, shownFiles, pageJoined, savesSent, pageSaves,
                 pageStored, pageCounts, pagePast>>

\* handleRunTests saves by HTTP what the editor shows; the timer is left alone
SaveForRun ==
  /\ view = "open" /\ SendSave(shownFiles, FALSE)
  /\ UNCHANGED <<pageClient, pageStored, pageCounts, pagePast>>

\* the API writes the buffer; saves under way may be written in any order
WriteSave(r) ==
  /\ r.at = "sent"
  /\ pageBuffer' = r.files /\ bufferBy' = r.n
  /\ overtakenSaves' = IF r.n < bufferBy THEN overtakenSaves \cup {pageBuffer}
                                          ELSE overtakenSaves
  /\ pageSaves' = (pageSaves \ {r}) \cup
                   (IF r.heard THEN {[r EXCEPT !.at = "written"]} ELSE {})
  /\ UNCHANGED <<pageClient, savesSent, pageRow, pageCounts, failedSaves,
                 cancelledSaves>>

\* the answer of a save over the socket sets the timer of the status in the
\* place of whatever timer is set by now
SaveAnswered(r) ==
  /\ r.at = "written"
  /\ pageSaves' = pageSaves \ {r}
  /\ saveTimer' = IdleTimer
  /\ cancelledSaves' = cancelledSaves \cup ({saveTimer} \cap Versions)
  /\ UNCHANGED <<view, rowRead, shownFiles, pageJoined, savesSent, pageStored,
                 pageCounts, failedSaves, overtakenSaves>>

\* the request does not arrive, or Redis refuses the command
SaveFails(r) ==
  /\ r.at = "sent"
  /\ PageFault \/ (~r.heard /\ UNCHANGED pageFaults)
  /\ pageSaves' = pageSaves \ {r} /\ failedSaves' = failedSaves \cup {r.files}
  /\ UNCHANGED <<pageClient, savesSent, pageStored, edits, pageLoads,
                 cancelledSaves, overtakenSaves>>

\* 10 s without an answer, or the answer is lost: the status shows an error
SaveTimesOut(r) ==
  /\ r.heard /\ PageFault
  /\ pageSaves' = (pageSaves \ {r}) \cup Unheard({r})
  /\ UNCHANGED <<pageClient, savesSent, pageStored, edits, pageLoads, pagePast>>

\* flushToDatabase
FlushBuffer ==
  /\ pageBuffer # Nothing /\ pageRow # pageBuffer
  /\ pageRow' = pageBuffer
  /\ UNCHANGED <<pageClient, savesSent, pageSaves, pageBuffer, bufferBy,
                 pageCounts, pagePast>>

-----------------------------------------------------------------------------
PageInit ==
  /\ view = "closed" /\ rowRead = 0 /\ shownFiles = 0 /\ saveTimer = Nothing
  /\ pageJoined = FALSE
  /\ savesSent = 0 /\ pageSaves = {} /\ pageBuffer = Nothing /\ bufferBy = 0
  /\ pageRow = 0
  /\ edits = 0 /\ pageLoads = 0 /\ pageFaults = 0
  /\ failedSaves = {} /\ cancelledSaves = {} /\ overtakenSaves = {}

PageNext ==
  \/ LoadAttempt \/ ShowAttempt \/ LeavePage \/ JoinPage \/ PageLinkDrops
  \/ Edit \/ SaveDue \/ IdleDue \/ SaveForRun \/ FlushBuffer
  \/ \E r \in pageSaves :
       WriteSave(r) \/ SaveAnswered(r) \/ SaveFails(r) \/ SaveTimesOut(r)

PageSpec == PageInit /\ [][PageNext]_pageVars

-----------------------------------------------------------------------------
(* Properties                                                              *)

\* Types, and the range of every counter.
PageTypeOK ==
  /\ view \in {"closed", "loading", "open"} /\ pageJoined \in BOOLEAN
  /\ rowRead \in Versions /\ shownFiles \in Versions /\ pageRow \in Versions
  /\ saveTimer \in Versions \cup {IdleTimer, Nothing}
  /\ pageBuffer \in Versions \cup {Nothing}
  /\ savesSent \in 0..MaxSaves /\ bufferBy \in 0..savesSent
  /\ pageSaves \subseteq SaveReq
  /\ edits \in Versions /\ pageLoads \in 0..MaxLoads
  /\ pageFaults \in 0..MaxPageFaults

\* While the editor shows files that are not in the buffer, a timer or a request
\* is about to bring them there ("Auto-save via WebSocket (debounced)",
\* page.tsx:467).  The exceptions: their save failed, and is not tried again; the
\* answer to an earlier save took the place of their timer (useExamSocket.ts:171);
\* or an older save was written after theirs.
EditsAccounted ==
  view = "open" =>
    \/ pageBuffer = shownFiles \/ saveTimer = shownFiles
    \/ \E r \in pageSaves : r.files = shownFiles
    \/ shownFiles \in failedSaves \cup cancelledSaves \cup overtakenSaves
=============================================================================
