----------------------------- MODULE Keystrokes -----------------------------
(***************************************************************************)
(* The record of what a candidate types: the buffer of the page            *)
(* (apps/web hooks/useKeystrokeTracker.ts), the events attempt:join,       *)
(* attempt:leave and keystroke:batch as they travel over one connection    *)
(* after another (lib/socket.ts), and the handlers that bind a socket to   *)
(* the attempt (apps/api socket/examHandlers.ts) and append batches to a   *)
(* list in Redis (socket/keystrokeService.ts).                             *)
(*                                                                         *)
(* A key is its place in the order of typing.  One window; whether a join  *)
(* is accepted is ExamRoom's matter and left open here.                    *)
(***************************************************************************)
EXTENDS Naturals, FiniteSets, Sequences, SequencesExt

CONSTANTS MaxKeys,     \* bound: keys pressed while they are recorded
          MaxLinks,    \* bound: connections made
          MaxVisits,   \* bound: times the exam page is opened
          MaxBuffer,   \* keys kept without a connection, MAX_BUFFER_SIZE
          MaxPayload,  \* keys a batch may have, of MAX_BATCH_PAYLOAD
          MaxBatches   \* batches kept, MAX_BATCHES

ASSUME KeyAssumption ==
    /\ MaxBuffer \in Nat /\ MaxBatches \in Nat
    /\ MaxKeys \in Nat /\ MaxLinks \in Nat /\ MaxVisits \in Nat

VARIABLES typed,   \* keys pressed while the page records them
          visits,  \* times the page was opened
          editor,  \* the component, or no page
          conn,    \* the window's socket
          links,   \* what each connection made so far carries and does
          record,  \* keystroke:batch:<attempt>, a list
          refused, \* history: batches whose socket was not bound
          lost     \* history: keys that are gone for another reason

keyVars == <<typed, visits, editor, conn, links, record, refused, lost>>
ends == <<refused, lost>>

(* connected: isConnected, as React has it; enabled: as the last render    *)
(* had it.                                                                 *)
NoPage == [visit |-> 0, connected |-> FALSE, enabled |-> FALSE, buffer |-> <<>>]

(* at: the connection, 0 for none; made: the socket object exists and      *)
(* reconnects; pending: connectToExam waits; active: the attempt is in     *)
(* activeAttemptIds; rejoin: the listener that joins again is attached;    *)
(* heard (history): this visit's join was answered on this connection.     *)
NoSocket == [at |-> 0, made |-> FALSE, pending |-> FALSE, active |-> FALSE,
             rejoin |-> FALSE, heard |-> FALSE]

NewLink == [wire |-> <<>>, joins |-> <<>>, bound |-> FALSE, writes |-> <<>>]

KeyInit ==
    /\ typed = 0 /\ visits = 0 /\ editor = NoPage /\ conn = NoSocket
    /\ links = <<>> /\ record = <<>> /\ refused = {}
    /\ lost = {}

KeysOf(batches) == UNION {ToSet(b.keys) : b \in batches}
Batches(messages) == {m \in ToSet(messages) : m.type = "batch"}
Lose(keys) == lost' = lost \cup keys

Join(visit) == [type |-> "join", visit |-> visit]
Leave == [type |-> "leave"]
Batch(keys) == [type |-> "batch", keys |-> keys, link |-> conn.at, heard |-> conn.heard]
Emit(ls, messages) == [ls EXCEPT ![conn.at].wire = @ \o messages]
-----------------------------------------------------------------------------
(* Variant: the batch stays in the buffer and is sent again.               *)
FlushKeeping(p) ==
    /\ editor' = p
    /\ links' = IF p.buffer # <<>> /\ conn.at # 0
                THEN Emit(links, <<Batch(p.buffer)>>) ELSE links
    /\ UNCHANGED lost

(* flushBuffer: everything goes out in one batch, taken from the buffer    *)
(* whether or not it arrives; without a connection only the last keys stay.*)
FlushKeys(p) ==
    IF p.buffer # <<>> /\ conn.at # 0
    THEN /\ links' = Emit(links, <<Batch(p.buffer)>>)
         /\ editor' = [p EXCEPT !.buffer = <<>>]
         /\ UNCHANGED lost
    ELSE LET spare == IF Len(p.buffer) > MaxBuffer THEN Len(p.buffer) - MaxBuffer ELSE 0
         IN  /\ editor' = [p EXCEPT !.buffer = SubSeq(@, spare + 1, Len(@))]
             /\ Lose(ToSet(SubSeq(p.buffer, 1, spare)))
             /\ UNCHANGED links

KeyDown ==
    /\ editor.enabled /\ typed < MaxKeys
    /\ typed' = typed + 1
    /\ editor' = [editor EXCEPT !.buffer = Append(@, typed + 1)]
    /\ UNCHANGED <<visits, conn, links, record, ends>>

(* The interval of ten seconds.                                            *)
FlushDue ==
    /\ editor.enabled /\ editor.buffer # <<>>
    /\ FlushKeys(editor)
    /\ UNCHANGED <<typed, visits, conn, record, refused>>

(* A render with another value of enabled runs the effect's clean-up,      *)
(* which flushes; a connection that is lost and made again between two     *)
(* renders changes nothing.  (The attempt is loaded and consent given      *)
(* before the first render with enabled, however late that is.)            *)
Render ==
    /\ editor.visit # 0 /\ editor.enabled # editor.connected
    /\ FlushKeys([editor EXCEPT !.enabled = ~@])
    /\ UNCHANGED <<typed, visits, conn, record, refused>>

(* The page opens: useExamSocket joins on the connection there is, or asks *)
(* for one.                                                                *)
OpenPage ==
    /\ editor.visit = 0 /\ visits < MaxVisits
    /\ visits' = visits + 1
    /\ editor' = [NoPage EXCEPT !.visit = visits + 1]
    /\ IF conn.at # 0
       THEN links' = Emit(links, <<Join(visits + 1)>>) /\ UNCHANGED conn
       ELSE /\ conn' = [conn EXCEPT !.pending = TRUE, !.made = TRUE,
                                    !.rejoin = @ \/ ~conn.made]
            /\ UNCHANGED links
    /\ UNCHANGED <<typed, record, ends>>

(* It is left for another page: the clean-ups run in the order of their    *)
(* hooks, attempt:leave first and then the last flush.  (A leave emitted   *)
(* without a connection goes out before anything else on the next one,     *)
(* where no socket is bound.)                                              *)
QuitPage ==
    /\ editor.visit # 0
    /\ editor' = NoPage
    /\ conn' = [conn EXCEPT !.pending = FALSE, !.active = FALSE, !.rejoin = FALSE,
                            !.heard = FALSE]
    /\ IF conn.at # 0
       THEN /\ links' = Emit(links, <<Leave>> \o
                  IF editor.buffer = <<>> THEN <<>>
                  ELSE <<[Batch(editor.buffer) EXCEPT !.heard = FALSE]>>)
            /\ UNCHANGED lost
       ELSE Lose(ToSet(editor.buffer)) /\ UNCHANGED links
    /\ UNCHANGED <<typed, visits, record, refused>>
-----------------------------------------------------------------------------
(* The library connects: rejoinActiveAttempts and a waiting connectToExam  *)
(* join.                                                                   *)
Connect ==
    /\ conn.made /\ conn.at = 0 /\ Len(links) < MaxLinks
    /\ links' = Append(links,
                  [NewLink EXCEPT !.wire =
                     (IF conn.rejoin /\ conn.active THEN <<Join(editor.visit)>> ELSE <<>>)
                     \o (IF conn.pending THEN <<Join(editor.visit)>> ELSE <<>>)])
    /\ conn' = [conn EXCEPT !.at = Len(links) + 1, !.pending = FALSE]
    /\ editor' = [editor EXCEPT !.connected = editor.visit # 0]
    /\ UNCHANGED <<typed, visits, record, ends>>

(* What was sent arrives up to some message, and the rest is lost.         *)
CutLink(keys) ==
    IF conn.at = 0 THEN UNCHANGED links /\ Lose(keys)
    ELSE LET wire == links[conn.at].wire IN
         \E n \in 0..Len(wire) :
            /\ links' = [links EXCEPT ![conn.at].wire = SubSeq(wire, 1, n)]
            /\ Lose(keys \cup KeysOf(Batches(SubSeq(wire, n + 1, Len(wire)))))

LoseConnection ==
    /\ conn.at # 0
    /\ CutLink({})
    /\ conn' = [conn EXCEPT !.at = 0, !.heard = FALSE]
    /\ editor' = [editor EXCEPT !.connected = FALSE]
    /\ UNCHANGED <<typed, visits, record, refused>>

(* connect_error or fifteen seconds without a connection.                  *)
GiveUpConnecting ==
    /\ conn.pending
    /\ conn' = [conn EXCEPT !.pending = FALSE, !.active = FALSE]
    /\ UNCHANGED <<typed, visits, editor, links, record, ends>>

(* The window is closed or loaded again: no clean-up runs.                 *)
CloseTab ==
    /\ conn.made
    /\ CutLink(ToSet(editor.buffer))
    /\ editor' = NoPage /\ conn' = NoSocket
    /\ UNCHANGED <<typed, visits, record, refused>>
-----------------------------------------------------------------------------
(* The server takes the messages of a connection in order; the handler of  *)
(* a join then waits for the database and Redis while later ones run.      *)
Arrives(l, type) == links[l].wire # <<>> /\ Head(links[l].wire).type = type
Taken(l) == [links[l] EXCEPT !.wire = Tail(@)]

ReceiveJoin(l) ==
    /\ Arrives(l, "join")
    /\ links' = [links EXCEPT ![l] =
          [Taken(l) EXCEPT !.joins = Append(@, [visit |-> Head(links[l].wire).visit,
                                                at |-> "reading"])]]
    /\ UNCHANGED <<typed, visits, editor, conn, record, ends>>

ReceiveLeave(l) ==
    /\ Arrives(l, "leave")
    /\ links' = [links EXCEPT ![l] = [Taken(l) EXCEPT !.bound = FALSE]]
    /\ UNCHANGED <<typed, visits, editor, conn, record, ends>>

(* keystroke:batch of a socket that is not bound to the attempt, or too    *)
(* large, is refused; nobody waits for the answer.                         *)
ReceiveBatch(l) ==
    LET b == Head(links[l].wire) IN
    /\ Arrives(l, "batch")
    /\ \/ /\ ~links[l].bound
          /\ links' = [links EXCEPT ![l] = Taken(l)]
          /\ refused' = refused \cup {b} /\ UNCHANGED lost
       \/ /\ links[l].bound /\ Len(b.keys) > MaxPayload
          /\ links' = [links EXCEPT ![l] = Taken(l)]
          /\ Lose(ToSet(b.keys)) /\ UNCHANGED refused
       \/ /\ links[l].bound /\ Len(b.keys) <= MaxPayload
          /\ links' = [links EXCEPT ![l] = [Taken(l) EXCEPT !.writes = Append(@, b)]]
          /\ UNCHANGED ends
    /\ UNCHANGED <<typed, visits, editor, conn, record>>

(* The join is accepted and socket.data.attemptId set ...                  *)
BindSocket(l, n) ==
    /\ links[l].joins[n].at = "reading"
    /\ links' = [links EXCEPT ![l].bound = TRUE, ![l].joins[n].at = "bound"]
    /\ UNCHANGED <<typed, visits, editor, conn, record, ends>>

EndJoin(l, n) == links' = [links EXCEPT ![l].joins = RemoveAt(@, n)]

(* Variant: the answer does not wait for the binding.                      *)
MayAnswerEarly(l, n) == TRUE

MayAnswer(l, n) == links[l].joins[n].at = "bound"

(* ... the timer is started and the join answered.  (activeAttemptIds only *)
(* matters to the rejoin listener, and so until the page is left.)         *)
AnswerSuccess(l, n) ==
    LET ours == conn.at = l /\ links[l].joins[n].visit = editor.visit IN
    /\ MayAnswer(l, n)
    /\ EndJoin(l, n)
    /\ conn' = IF ours THEN [conn EXCEPT !.active = TRUE, !.heard = TRUE] ELSE conn
    /\ editor' = IF ours THEN [editor EXCEPT !.connected = TRUE] ELSE editor
    /\ UNCHANGED <<typed, visits, record, ends>>

(* Refused for the attempt's status or another session, or an error; the   *)
(* socket may be bound by then.                                            *)
AnswerRefusal(l, n) ==
    /\ EndJoin(l, n)
    /\ conn' = IF conn.at = l THEN [conn EXCEPT !.active = FALSE] ELSE conn
    /\ UNCHANGED <<typed, visits, editor, record, ends>>

(* Variant: the list is not trimmed.                                       *)
StoreBatchUntrimmed(l) ==
    /\ links[l].writes # <<>>
    /\ record' = Append(record, Head(links[l].writes))
    /\ links' = [links EXCEPT ![l].writes = Tail(@)]
    /\ UNCHANGED <<typed, visits, editor, conn, ends>>

(* The pipeline appends the batch and trims the list.  Its commands are    *)
(* queued in the order of the batches on one connection; two connections   *)
(* may be two replicas.                                                    *)
StoreBatch(l) ==
    LET all == Append(record, Head(links[l].writes))
        spare == IF Len(all) > MaxBatches THEN 1 ELSE 0
    IN  /\ links[l].writes # <<>>
        /\ record' = SubSeq(all, spare + 1, Len(all))
        /\ Lose(KeysOf(ToSet(SubSeq(all, 1, spare))))
        /\ links' = [links EXCEPT ![l].writes = Tail(@)]
        /\ UNCHANGED <<typed, visits, editor, conn, refused>>

StoreFails(l) ==
    /\ links[l].writes # <<>>
    /\ links' = [links EXCEPT ![l].writes = Tail(@)]
    /\ Lose(ToSet(Head(links[l].writes).keys))
    /\ UNCHANGED <<typed, visits, editor, conn, record, refused>>

KeyNext ==
    \/ KeyDown \/ FlushDue \/ Render \/ OpenPage \/ QuitPage
    \/ Connect \/ LoseConnection \/ GiveUpConnecting \/ CloseTab
    \/ \E l \in 1..Len(links) :
          \/ ReceiveJoin(l) \/ ReceiveLeave(l) \/ ReceiveBatch(l)
          \/ StoreBatch(l) \/ StoreFails(l)
          \/ \E n \in 1..Len(links[l].joins) :
                BindSocket(l, n) \/ AnswerSuccess(l, n) \/ AnswerRefusal(l, n)

KeySpec == KeyInit /\ [][KeyNext]_keyVars
-----------------------------------------------------------------------------
KeyTypeOK ==
    /\ typed \in 0..MaxKeys /\ visits \in 0..MaxVisits
    /\ editor \in [visit : 0..visits, connected : BOOLEAN, enabled : BOOLEAN,
                 buffer : Seq(1..typed)]
    /\ conn \in [at : 0..Len(links), made : BOOLEAN, pending : BOOLEAN,
                 active : BOOLEAN, rejoin : BOOLEAN, heard : BOOLEAN]
    /\ Len(links) <= MaxLinks /\ Len(record) <= MaxBatches

Sent(l) == Batches(links[l].wire) \cup ToSet(links[l].writes)

(* Every key is in one place: waiting in the page, on its way, in the      *)
(* record, refused, or lost in one of the ways this module has; none is in *)
(* two, so that none is recorded twice.                                    *)
KeysAccounted ==
    LET onTheWay == UNION {KeysOf(Sent(l)) : l \in 1..Len(links)}
        places   == <<ToSet(editor.buffer), onTheWay, KeysOf(ToSet(record)), lost,
                      KeysOf(refused)>>
    IN  /\ UNION ToSet(places) = 1..typed
        /\ \A i, j \in 1..Len(places) : i # j => places[i] \cap places[j] = {}

(* A batch is refused only if it was sent before the page heard that it    *)
(* joined on that connection, or after it left: never in between.  (Those  *)
(* before and after are refused: see the README.)                          *)
RefusalsExplained == \A b \in refused : ~b.heard

(* The record is in the order of typing, but for batches that came over    *)
(* an earlier connection and were stored after those of a later one.       *)
RecordOrdered ==
    \A i, j \in 1..Len(record) : i < j /\ record[i].link <= record[j].link =>
        \A k \in ToSet(record[i].keys), m \in ToSet(record[j].keys) : k < m

(* The record has what was typed, in its order, and what is missing went a *)
(* way that is known.                                                      *)
KeystrokesKept == KeysAccounted /\ RefusalsExplained /\ RecordOrdered
=============================================================================
