--------------------------- MODULE ScreenCapture ---------------------------
(***************************************************************************)
(* Screen sharing during an exam: the overlay that keeps the editor closed *)
(* until the screen is shared (apps/web app/exam/[id]/page.tsx), the hook  *)
(* that asks for it (hooks/useScreenShare.ts), and the stream and the      *)
(* random captures of the module lib/proctorCapture.ts, which outlive the  *)
(* page.  A secure context; streams are numbered as they are granted.      *)
(*                                                                         *)
(* An attempt has startedAt from its insertion, so that loadAttempt always *)
(* skips the consent screen, and its button asks for nothing.              *)
(***************************************************************************)
EXTENDS Naturals, FiniteSets, Sequences

CONSTANTS ShareClicks, \* clicks on the overlay's button
          MaxStays,    \* bound: times the page is opened
          MaxStreams   \* bound: streams granted

ASSUME ScreenAssumption == MaxStays \in Nat

VARIABLES stay,      \* the page's visit, 0 for none
          stays,     \* times it was opened
          display,   \* what the page shows
          stream,    \* streamRef.current of this visit, 0 for none
          source,    \* the stream captures are taken from, 0 for none
          live,      \* streams that deliver pictures
          granted,   \* the visit whose request each stream was granted to
          asked,     \* [ShareClicks -> where its handler is]
          random,    \* randomCaptureAttemptId and its timer are set
          crossed,   \* history: streams of one visit granted beside each other
          strayed    \* history: streams granted when their visit was over

screenVars == <<stay, stays, display, stream, source, live, granted, asked, random,
                crossed, strayed>>

NoView == [loaded |-> FALSE, sharing |-> FALSE, requesting |-> FALSE,
           overlay |-> FALSE, submitted |-> FALSE, refused |-> FALSE]

ScreenInit ==
    /\ stay = 0 /\ stays = 0 /\ display = NoView
    /\ stream = 0 /\ source = 0 /\ live = {} /\ granted = <<>>
    /\ asked = [r \in ShareClicks |-> [at |-> "none", stay |-> 0]]
    /\ random = FALSE /\ crossed = {} /\ strayed = {}

(* The effect that runs when what it depends on has changed.               *)
Shown(v) ==
    [v EXCEPT !.overlay = IF ~v.loaded THEN @
                          ELSE IF v.sharing THEN FALSE
                          ELSE IF ~v.requesting THEN TRUE ELSE @]

Proceed(r, at) == asked' = [asked EXCEPT ![r].at = at]
Ours(r) == asked[r].stay = stay
-----------------------------------------------------------------------------
EnterExam ==
    /\ stay = 0 /\ stays < MaxStays
    /\ stay' = stays + 1 /\ stays' = stays + 1 /\ display' = NoView
    /\ UNCHANGED <<stream, source, live, granted, asked, random, crossed, strayed>>

AttemptLoaded ==
    /\ stay # 0 /\ ~display.loaded
    /\ display' = [display EXCEPT !.loaded = TRUE, !.overlay = TRUE]
    /\ UNCHANGED <<stay, stays, stream, source, live, granted, asked, random,
                   crossed, strayed>>

(* handleScreenShareRequest asks for fullscreen first.  The button is      *)
(* disabled only from requestScreenShare on, so that it can be clicked     *)
(* again until then.                                                       *)
AskToShare(r) ==
    /\ stay # 0 /\ display.overlay /\ ~display.requesting
    /\ asked[r].at = "none"
    /\ asked' = [asked EXCEPT ![r] = [at |-> "fullscreen", stay |-> stay]]
    /\ UNCHANGED <<stay, stays, display, stream, source, live, granted, random,
                   crossed, strayed>>

Fullscreen(r) ==
    /\ asked[r].at = "fullscreen"
    /\ \/ Proceed(r, "done") /\ UNCHANGED display
       \/ /\ Proceed(r, "asking")
          /\ display' = IF Ours(r) THEN Shown([display EXCEPT !.requesting = TRUE])
                        ELSE display
    /\ UNCHANGED <<stay, stays, stream, source, live, granted, random, crossed, strayed>>

(* getDisplayMedia resolves: the hook keeps the stream, the module takes   *)
(* its pictures from it, and the random captures start.  Nothing asks      *)
(* whether the page is still there, or whether it has a stream.            *)
Grant(r) ==
    LET n == Len(granted) + 1
        others == {m \in live : granted[m] = stay}
    IN
    /\ asked[r].at = "asking" /\ n <= MaxStreams
    /\ Proceed(r, "done")
    /\ granted' = Append(granted, asked[r].stay)
    /\ live' = live \cup {n} /\ source' = n /\ random' = TRUE
    /\ IF Ours(r)
       THEN /\ stream' = n
            /\ display' = Shown([display EXCEPT !.sharing = TRUE, !.requesting = FALSE,
                                             !.refused = FALSE])
            /\ crossed' = crossed \cup (IF others = {} THEN {} ELSE others \cup {n})
            /\ UNCHANGED strayed
       ELSE strayed' = strayed \cup {n} /\ UNCHANGED <<stream, display, crossed>>
    /\ UNCHANGED <<stay, stays>>

(* Refused, or a window and not the whole screen, whose track is stopped.  *)
Deny(r) ==
    /\ asked[r].at = "asking" /\ Proceed(r, "done")
    /\ display' = IF Ours(r) THEN Shown([display EXCEPT !.requesting = FALSE])
                  ELSE display
    /\ UNCHANGED <<stay, stays, stream, source, live, granted, random, crossed, strayed>>

(* Variant: the listener of 'ended' does not tell the page.                *)
StopSharingQuietly(n) ==
    /\ n \in live
    /\ live' = live \ {n} /\ source' = 0
    /\ UNCHANGED <<stay, stays, display, stream, granted, asked, random, crossed,
                   strayed>>

(* The candidate stops sharing, which is the event 'ended' (a track that   *)
(* is stopped by the code has none): the listener clears the module's      *)
(* stream, whichever that is by now, and the page of its own visit.        *)
StopSharing(n) ==
    /\ n \in live
    /\ live' = live \ {n} /\ source' = 0
    /\ IF granted[n] = stay
       THEN /\ stream' = 0
            /\ display' = Shown([display EXCEPT !.sharing = FALSE, !.overlay = TRUE])
       ELSE UNCHANGED <<stream, display>>
    /\ UNCHANGED <<stay, stays, granted, asked, random, crossed, strayed>>

(* confirmSubmit stops the random captures and a failure does not start    *)
(* them again.                                                             *)
ConfirmSubmit ==
    /\ stay # 0 /\ display.loaded /\ ~display.overlay /\ ~display.submitted
    /\ display' = [display EXCEPT !.submitted = TRUE] /\ random' = FALSE
    /\ UNCHANGED <<stay, stays, stream, source, live, granted, asked, crossed, strayed>>

SubmitRefused ==
    /\ stay # 0 /\ display.submitted
    /\ display' = [display EXCEPT !.submitted = FALSE, !.refused = TRUE]
    /\ UNCHANGED <<stay, stays, stream, source, live, granted, asked, random,
                   crossed, strayed>>

(* The clean-ups of the page and of the hook.                              *)
LeaveExam ==
    /\ stay # 0
    /\ stay' = 0 /\ display' = NoView /\ random' = FALSE
    /\ live' = live \ {stream} /\ stream' = 0 /\ source' = 0
    /\ UNCHANGED <<stays, granted, asked, crossed, strayed>>

(* The page is loaded again, and everything in the window is gone.         *)
Reload ==
    /\ stays > 0
    /\ stay' = 0 /\ display' = NoView /\ random' = FALSE
    /\ live' = {} /\ stream' = 0 /\ source' = 0 /\ crossed' = {} /\ strayed' = {}
    /\ asked' = [r \in ShareClicks |->
                     IF asked[r].at = "none" THEN asked[r]
                     ELSE [at |-> "done", stay |-> 0]]
    /\ UNCHANGED <<stays, granted>>

ScreenNext ==
    \/ EnterExam \/ AttemptLoaded \/ ConfirmSubmit \/ SubmitRefused \/ LeaveExam \/ Reload
    \/ \E r \in ShareClicks : AskToShare(r) \/ Fullscreen(r) \/ Grant(r) \/ Deny(r)
    \/ \E n \in 1..Len(granted) : StopSharing(n)

ScreenSpec == ScreenInit /\ [][ScreenNext]_screenVars
-----------------------------------------------------------------------------
ScreenTypeOK ==
    /\ stay \in {0, stays} /\ stays \in 0..MaxStays
    /\ live \cup crossed \cup strayed \subseteq 1..Len(granted)
    /\ stream \in 0..Len(granted) /\ source \in 0..Len(granted)
    /\ asked \in [ShareClicks -> [at : {"none", "fullscreen", "asking", "done"},
                                 stay : 0..stays]]

Working == stay # 0 /\ display.loaded /\ ~display.overlay

(* While the editor is open the page has a live stream, captures are taken *)
(* from it, and random ones go on until the submission, except that a      *)
(* stream granted twice in one visit, or after a visit, clears the others' *)
(* when it ends, and a refused submission leaves the random captures off.  *)
WorkIsCaptured ==
    Working /\ crossed \cup strayed = {} =>
        /\ display.sharing /\ stream \in live /\ source = stream
        /\ random \/ display.submitted \/ display.refused

(* The screen is not shared, nor pictures taken of it, when the exam is    *)
(* left, unless a stream was granted too late or twice.                    *)
NoStrayCapture ==
    /\ live \subseteq {stream} \cup crossed \cup strayed
    /\ stay = 0 /\ strayed = {} => ~random /\ source = 0

(* The screen is captured while the candidate works, and only then.        *)
CapturesExplained == WorkIsCaptured /\ NoStrayCapture
=============================================================================
