----------------------- MODULE AttemptLifecycleProofs -----------------------
(***************************************************************************)
(* Machine-checked theorems about AttemptLifecycle, for any attempts,      *)
(* exams, saves, handlers of every kind and bounds on the mishaps.         *)
(***************************************************************************)
EXTENDS AttemptLifecycle, TLAPS

----------------------------------------------------------------------------
(* Type correctness *)

\* The initial state is well typed, group by group.
LEMMA TypeInit == Init => TypeOK
<1> SUFFICES ASSUME Init PROVE TypeOK
  OBVIOUS
<1> USE LifecycleAssumption DEF Nothing
<1>1. RowTypes
  BY DEF Init, RowTypes, Statuses
<1>2. BufferTypes
  BY DEF Init, BufferTypes, Files
<1>3. LockTypes
  BY DEF Init, LockTypes
<1>4. QueueTypes
  BY DEF Init, QueueTypes
<1>5. ClientTypes
  BY DEF Init, ClientTypes
<1>6. TimeTypes
  BY DEF Init, TimeTypes
<1>7. HandlerTypes
  BY DEF Init, HandlerTypes, Files, Handlers, PCs, Submitting, Flushing
<1>8. LoopTypes
  BY DEF Init, LoopTypes
<1>9. EnvTypes
  BY DEF Init, EnvTypes
<1>10. HistoryTypes
  BY DEF Init, HistoryTypes
<1> QED
  BY <1>1, <1>2, <1>3, <1>4, <1>5, <1>6, <1>7, <1>8, <1>9, <1>10 DEF TypeOK

\* A group of variables an action leaves alone keeps its types.
LEMMA FrameTypes ==
  /\ RowTypes /\ UNCHANGED rowVars => RowTypes'
  /\ BufferTypes /\ UNCHANGED <<buffer, dirty>> => BufferTypes'
  /\ LockTypes /\ UNCHANGED lockVars => LockTypes'
  /\ QueueTypes /\ UNCHANGED queueVars => QueueTypes'
  /\ ClientTypes /\ UNCHANGED clientVars => ClientTypes'
  /\ TimeTypes /\ UNCHANGED <<timer, handled, timeVars>> => TimeTypes'
  /\ HandlerTypes /\ UNCHANGED <<pc, workVars, exam>> => HandlerTypes'
  /\ LoopTypes /\ UNCHANGED loopVars => LoopTypes'
  /\ EnvTypes /\ UNCHANGED envVars => EnvTypes'
  /\ HistoryTypes /\ UNCHANGED histVars => HistoryTypes'
<1>1. RowTypes /\ UNCHANGED rowVars => RowTypes'
  BY DEF RowTypes, rowVars
<1>2. BufferTypes /\ UNCHANGED <<buffer, dirty>> => BufferTypes'
  BY DEF BufferTypes
<1>3. LockTypes /\ UNCHANGED lockVars => LockTypes'
  BY DEF LockTypes, lockVars
<1>4. QueueTypes /\ UNCHANGED queueVars => QueueTypes'
  BY DEF QueueTypes, queueVars
<1>5. ClientTypes /\ UNCHANGED clientVars => ClientTypes'
  BY DEF ClientTypes, clientVars
<1>6. TimeTypes /\ UNCHANGED <<timer, handled, timeVars>> => TimeTypes'
  BY DEF TimeTypes, timeVars
<1>7. HandlerTypes /\ UNCHANGED <<pc, workVars, exam>> => HandlerTypes'
  BY DEF HandlerTypes, workVars
<1>8. LoopTypes /\ UNCHANGED loopVars => LoopTypes'
  BY DEF LoopTypes, loopVars
<1>9. EnvTypes /\ UNCHANGED envVars => EnvTypes'
  BY DEF EnvTypes, envVars
<1>10. HistoryTypes /\ UNCHANGED histVars => HistoryTypes'
  BY DEF HistoryTypes, histVars
<1> QED
  BY <1>1, <1>2, <1>3, <1>4, <1>5, <1>6, <1>7, <1>8, <1>9, <1>10

\* Every action keeps the types.
LEMMA TypeStep == TypeOK /\ [Next]_vars => TypeOK'
<1> SUFFICES ASSUME TypeOK, [Next]_vars PROVE TypeOK'
  OBVIOUS
<1> USE LifecycleAssumption
    DEF Nothing, rowVars, lockVars, queueVars, clientVars, workVars, loopVars,
        timeVars, envVars, histVars
<1>1. ASSUME NEW a \in Attempts, CheckStart(a) PROVE TypeOK'
  <2>1. ClientTypes'
    BY <1>1 DEF TypeOK, ClientTypes, CheckStart
  <2> QED
    BY <1>1, <2>1, FrameTypes DEF TypeOK, CheckStart
<1>2. ASSUME NEW a \in Attempts, InsertAttempt(a) PROVE TypeOK'
  <2>1. RowTypes'
    BY <1>2 DEF TypeOK, RowTypes, InsertAttempt, Statuses
  <2>2. ClientTypes'
    BY <1>2 DEF TypeOK, ClientTypes, InsertAttempt
  <2>3. HistoryTypes'
    BY <1>2 DEF TypeOK, HistoryTypes, InsertAttempt
  <2> QED
    BY <1>2, <2>1, <2>2, <2>3, FrameTypes DEF TypeOK, InsertAttempt
<1>3. ASSUME NEW s \in Saves, NEW a \in Attempts, ReceiveSave(s, a)
       PROVE  TypeOK'
  <2>1. ClientTypes'
    BY <1>3 DEF TypeOK, ClientTypes, ReceiveSave
  <2> QED
    BY <1>3, <2>1, FrameTypes DEF TypeOK, ReceiveSave
<1>4. ASSUME NEW s \in Saves, WriteSave(s) PROVE TypeOK'
  <2>1. BufferTypes'
    BY <1>4 DEF TypeOK, BufferTypes, WriteSave, ClientTypes, Files
  <2>2. ClientTypes'
    BY <1>4 DEF TypeOK, ClientTypes, WriteSave
  <2>3. HistoryTypes'
    BY <1>4 DEF TypeOK, HistoryTypes, WriteSave, ClientTypes
  <2> QED
    BY <1>4, <2>1, <2>2, <2>3, FrameTypes DEF TypeOK, WriteSave
<1>5. ASSUME NEW s \in Saves, NEW a \in Attempts, SaveOverSocket(s, a)
       PROVE  TypeOK'
  <2>1. BufferTypes'
    BY <1>5 DEF TypeOK, BufferTypes, SaveOverSocket, ClientTypes, Files
  <2>2. ClientTypes'
    BY <1>5 DEF TypeOK, ClientTypes, SaveOverSocket
  <2> QED
    BY <1>5, <2>1, <2>2, FrameTypes DEF TypeOK, SaveOverSocket
<1>6. ASSUME NEW s \in Saves, MarkDirty(s) PROVE TypeOK'
  <2>1. BufferTypes'
    BY <1>6 DEF TypeOK, BufferTypes, MarkDirty, ClientTypes
  <2>2. ClientTypes'
    BY <1>6 DEF TypeOK, ClientTypes, MarkDirty
  <2>3. HistoryTypes'
    BY <1>6 DEF TypeOK, HistoryTypes, MarkDirty, ClientTypes
  <2> QED
    BY <1>6, <2>1, <2>2, <2>3, FrameTypes DEF TypeOK, MarkDirty
<1>7. ASSUME NEW h \in Handlers, FlushGet(h) PROVE TypeOK'
  <2>1. HandlerTypes'
    BY <1>7 DEF TypeOK, HandlerTypes, FlushGet, LoopTypes, Handlers, PCs,
       Submitting, Flushing, AfterFlush, BufferTypes, Files
  <2> QED
    BY <1>7, <2>1, FrameTypes DEF TypeOK, FlushGet
<1>8. ASSUME NEW h \in Handlers, FlushUpdate(h) PROVE TypeOK'
  <2>1. RowTypes'
    BY <1>8 DEF TypeOK, RowTypes, FlushUpdate, HandlerTypes
  <2>2. HandlerTypes'
    BY <1>8 DEF TypeOK, HandlerTypes, FlushUpdate, LoopTypes, Handlers,
       PCs, Submitting, Flushing
  <2> QED
    BY <1>8, <2>1, <2>2, FrameTypes DEF TypeOK, FlushUpdate
<1>9. ASSUME NEW h \in Handlers, FlushClean(h) PROVE TypeOK'
  <2>1. BufferTypes'
    BY <1>9 DEF TypeOK, BufferTypes, FlushClean
  <2>2. HandlerTypes'
    BY <1>9 DEF TypeOK, HandlerTypes, FlushClean, LoopTypes, Handlers, PCs,
       Submitting, Flushing, AfterFlush
  <2> QED
    BY <1>9, <2>1, <2>2, FrameTypes DEF TypeOK, FlushClean
<1>10. ASSUME NEW h \in Handlers, GetFromBuffer(h) PROVE TypeOK'
  <2>1. HandlerTypes'
    BY <1>10 DEF TypeOK, HandlerTypes, GetFromBuffer, LoopTypes, Handlers,
       PCs, Submitting, Flushing, BufferTypes, Files
  <2> QED
    BY <1>10, <2>1, FrameTypes DEF TypeOK, GetFromBuffer
<1>11. ASSUME NEW h \in Handlers, Store(h) PROVE TypeOK'
  <2>1. RowTypes'
    BY <1>11 DEF TypeOK, RowTypes, Store, HandlerTypes, Statuses
  <2>2. HandlerTypes'
    BY <1>11 DEF TypeOK, HandlerTypes, Store, LoopTypes, Handlers, PCs,
       Submitting, Flushing
  <2> QED
    BY <1>11, <2>1, <2>2, FrameTypes DEF TypeOK, Store
<1>12. ASSUME NEW h \in Handlers, AddJob(h) PROVE TypeOK'
  <2>1. QueueTypes'
    BY <1>12 DEF TypeOK, QueueTypes, AddJob, HandlerTypes, Job, PCs,
       Submitting, Flushing
  <2>2. HandlerTypes'
    BY <1>12 DEF TypeOK, HandlerTypes, AddJob, LoopTypes, Handlers, PCs,
       Submitting, Flushing
  <2> QED
    BY <1>12, <2>1, <2>2, FrameTypes DEF TypeOK, AddJob
<1>13. ASSUME NEW h \in Handlers, SetGrading(h) PROVE TypeOK'
  <2>1. RowTypes'
    BY <1>13 DEF TypeOK, RowTypes, SetGrading, HandlerTypes, Statuses
  <2>2. HandlerTypes'
    BY <1>13, SMTT(25) DEF TypeOK, HandlerTypes, SetGrading, LoopTypes, Handlers,
       PCs, Submitting, Flushing, Leave, BackToLoop, Files
  <2> QED
    BY <1>13, <2>1, <2>2, FrameTypes DEF TypeOK, SetGrading
<1>14. ASSUME NEW h \in Handlers, NEW a \in Attempts,
              NEW body \in {Nothing, edits[a]}, ReceiveSubmit(h, a, body)
       PROVE  TypeOK'
  <2>1. HandlerTypes'
    BY <1>14 DEF TypeOK, HandlerTypes, ReceiveSubmit, LoopTypes, Handlers,
       PCs, Submitting, Flushing, Take, Files, RowTypes, ClientTypes,
       HistoryTypes
  <2> QED
    BY <1>14, <2>1, FrameTypes DEF TypeOK, ReceiveSubmit
<1>15. ASSUME NEW h \in Handlers, StopTimer(h) PROVE TypeOK'
  <2>1. TimeTypes'
    BY <1>15 DEF TypeOK, TimeTypes, StopTimer, HandlerTypes
  <2>2. HandlerTypes'
    BY <1>15 DEF TypeOK, HandlerTypes, StopTimer, LoopTypes, Handlers, PCs,
       Submitting, Flushing
  <2> QED
    BY <1>15, <2>1, <2>2, FrameTypes DEF TypeOK, StopTimer
<1>16. ASSUME NEW h \in Handlers, ClearBuffer(h) PROVE TypeOK'
  <2>1. BufferTypes'
    BY <1>16 DEF TypeOK, BufferTypes, ClearBuffer, Files
  <2>2. HandlerTypes'
    BY <1>16 DEF TypeOK, HandlerTypes, ClearBuffer, LoopTypes, Handlers,
       PCs, Submitting, Flushing
  <2> QED
    BY <1>16, <2>1, <2>2, FrameTypes DEF TypeOK, ClearBuffer
<1>17. ASSUME NEW h \in Handlers, ClearMark(h) PROVE TypeOK'
  <2>1. BufferTypes'
    BY <1>17 DEF TypeOK, BufferTypes, ClearMark
  <2>2. HandlerTypes'
    BY <1>17 DEF TypeOK, HandlerTypes, ClearMark, LoopTypes, Handlers, PCs,
       Submitting, Flushing, Leave, Files
  <2> QED
    BY <1>17, <2>1, <2>2, FrameTypes DEF TypeOK, ClearMark
<1>18. ASSUME NEW f \in Flushers, StartFlush(f) PROVE TypeOK'
  <2>1. HandlerTypes'
    BY <1>18 DEF TypeOK, HandlerTypes, StartFlush, LoopTypes, Handlers,
       PCs, Submitting, Flushing
  <2>2. LoopTypes'
    BY <1>18 DEF TypeOK, LoopTypes, StartFlush, BufferTypes
  <2> QED
    BY <1>18, <2>1, <2>2, FrameTypes DEF TypeOK, StartFlush
<1>19. ASSUME NEW f \in Flushers, FlushNext(f) PROVE TypeOK'
  <2>1. HandlerTypes'
    BY <1>19 DEF TypeOK, HandlerTypes, FlushNext, LoopTypes, Handlers, PCs,
       Submitting, Flushing
  <2>2. LoopTypes'
    BY <1>19 DEF TypeOK, LoopTypes, FlushNext
  <2> QED
    BY <1>19, <2>1, <2>2, FrameTypes DEF TypeOK, FlushNext
<1>20. ASSUME NEW f \in Flushers, EndFlush(f) PROVE TypeOK'
  <2>1. HandlerTypes'
    BY <1>20 DEF TypeOK, HandlerTypes, EndFlush, LoopTypes, Handlers, PCs,
       Submitting, Flushing, Leave, Files
  <2> QED
    BY <1>20, <2>1, FrameTypes DEF TypeOK, EndFlush
<1>21. ASSUME NEW c \in Cycles, StartCycle(c) PROVE TypeOK'
  <2>1. LockTypes'
    BY <1>21 DEF TypeOK, LockTypes, StartCycle
  <2>2. HandlerTypes'
    BY <1>21 DEF TypeOK, HandlerTypes, StartCycle, LoopTypes, Handlers,
       PCs, Submitting, Flushing
  <2> QED
    BY <1>21, <2>1, <2>2, FrameTypes DEF TypeOK, StartCycle
<1>22. ASSUME NEW c \in Cycles, QueryEnded(c) PROVE TypeOK'
  <2>1. HandlerTypes'
    BY <1>22 DEF TypeOK, HandlerTypes, QueryEnded, LoopTypes, Handlers,
       PCs, Submitting, Flushing
  <2>2. LoopTypes'
    BY <1>22 DEF TypeOK, LoopTypes, QueryEnded, TimeTypes, RowTypes,
       InProgress, Row
  <2> QED
    BY <1>22, <2>1, <2>2, FrameTypes DEF TypeOK, QueryEnded
<1>23. ASSUME NEW c \in Cycles, NEW e \in ends[c], NextExam(c, e) PROVE TypeOK'
  <2>1. HandlerTypes'
    BY <1>23 DEF TypeOK, HandlerTypes, NextExam, LoopTypes, Handlers, PCs,
       Submitting, Flushing
  <2>2. LoopTypes'
    BY <1>23 DEF TypeOK, LoopTypes, NextExam
  <2> QED
    BY <1>23, <2>1, <2>2, FrameTypes DEF TypeOK, NextExam
<1>24. ASSUME NEW c \in Cycles, NEW r \in rows[c], AutoSubmit(c, r)
       PROVE  TypeOK'
  <2>1. HandlerTypes'
    BY <1>24 DEF TypeOK, HandlerTypes, AutoSubmit, LoopTypes, Handlers,
       PCs, Submitting, Flushing, Row, Take, Files, RowTypes, HistoryTypes
  <2>2. LoopTypes'
    BY <1>24 DEF TypeOK, LoopTypes, AutoSubmit
  <2> QED
    BY <1>24, <2>1, <2>2, FrameTypes DEF TypeOK, AutoSubmit
<1>25. ASSUME NEW c \in Cycles, MarkProcessed(c) PROVE TypeOK'
  <2>1. LockTypes'
    BY <1>25 DEF TypeOK, LockTypes, MarkProcessed, HandlerTypes
  <2>2. HandlerTypes'
    BY <1>25 DEF TypeOK, HandlerTypes, MarkProcessed, LoopTypes, Handlers,
       PCs, Submitting, Flushing
  <2>3. LoopTypes'
    BY <1>25 DEF TypeOK, LoopTypes, MarkProcessed
  <2> QED
    BY <1>25, <2>1, <2>2, <2>3, FrameTypes DEF TypeOK, MarkProcessed
<1>26. ASSUME NEW c \in Cycles, QueryOverdue(c) PROVE TypeOK'
  <2>1. HandlerTypes'
    BY <1>26 DEF TypeOK, HandlerTypes, QueryOverdue, LoopTypes, Handlers,
       PCs, Submitting, Flushing
  <2>2. LoopTypes'
    BY <1>26 DEF TypeOK, LoopTypes, QueryOverdue, RowTypes, InProgress, Row
  <2> QED
    BY <1>26, <2>1, <2>2, FrameTypes DEF TypeOK, QueryOverdue
<1>27. ASSUME NEW c \in Cycles, NEW r \in rows[c], TakeOverdue(c, r)
       PROVE  TypeOK'
  <2>1. LockTypes'
    BY <1>27 DEF TypeOK, LockTypes, TakeOverdue, LoopTypes, Row
  <2>2. HandlerTypes'
    <3>1. r.att \in Attempts /\ r.files \in Nat /\ c \in Handlers
      BY DEF TypeOK, LoopTypes, Row, Handlers
    <3>2. CASE /\ pc' = [pc EXCEPT ![c] = "flushGet"]
               /\ Take(c, r.att, r.files, Nothing)
      BY <1>27, <3>1, <3>2 DEF TypeOK, HandlerTypes, TakeOverdue, LoopTypes,
         Handlers, PCs, Submitting, Flushing, Take, Files, RowTypes, HistoryTypes
    <3>3. CASE UNCHANGED <<pc, workVars>>
      BY <1>27, <3>3, FrameTypes DEF TypeOK, TakeOverdue
    <3> QED
      BY <1>27, <3>1, <3>2, <3>3 DEF TypeOK, HandlerTypes, TakeOverdue
  <2>3. LoopTypes'
    BY <1>27 DEF TypeOK, LoopTypes, TakeOverdue
  <2> QED
    BY <1>27, <2>1, <2>2, <2>3, FrameTypes DEF TypeOK, TakeOverdue
<1>28. ASSUME NEW c \in Cycles, EndCycle(c) PROVE TypeOK'
  <2>1. LockTypes'
    BY <1>28 DEF TypeOK, LockTypes, EndCycle
  <2>2. HandlerTypes'
    BY <1>28 DEF TypeOK, HandlerTypes, EndCycle, LoopTypes, Handlers, PCs,
       Submitting, Flushing
  <2> QED
    BY <1>28, <2>1, <2>2, FrameTypes DEF TypeOK, EndCycle
<1>29. ASSUME NEW a \in Attempts, JoinAttempt(a) PROVE TypeOK'
  <2>1. TimeTypes'
    BY <1>29 DEF TypeOK, TimeTypes, JoinAttempt
  <2> QED
    BY <1>29, <2>1, FrameTypes DEF TypeOK, JoinAttempt
<1>30. ASSUME NEW a \in Attempts, Tick(a) PROVE TypeOK'
  <2>1. TimeTypes'
    BY <1>30 DEF TypeOK, TimeTypes, Tick
  <2> QED
    BY <1>30, <2>1, FrameTypes DEF TypeOK, Tick
<1>31. ASSUME NEW a \in Attempts, HandleTimerExpired(a) PROVE TypeOK'
  <2>1. TimeTypes'
    BY <1>31 DEF TypeOK, TimeTypes, HandleTimerExpired
  <2>2. HistoryTypes'
    BY <1>31 DEF TypeOK, HistoryTypes, HandleTimerExpired
  <2> QED
    BY <1>31, <2>1, <2>2, FrameTypes DEF TypeOK, HandleTimerExpired
<1>32. ASSUME NEW a \in Attempts, NEW o \in Final, WriteResult(a, o)
       PROVE  TypeOK'
  <2>1. RowTypes'
    BY <1>32 DEF TypeOK, RowTypes, WriteResult, Statuses
  <2>2. QueueTypes'
    BY <1>32 DEF TypeOK, QueueTypes, WriteResult
  <2> QED
    BY <1>32, <2>1, <2>2, FrameTypes DEF TypeOK, WriteResult
<1>33. ASSUME NEW a \in Attempts, NEW o \in Final, WriteAgain(a, o)
       PROVE  TypeOK'
  <2>1. RowTypes'
    BY <1>33 DEF TypeOK, RowTypes, WriteAgain, Statuses, Final
  <2>2. EnvTypes'
    BY <1>33 DEF TypeOK, EnvTypes, WriteAgain
  <2> QED
    BY <1>33, <2>1, <2>2, FrameTypes DEF TypeOK, WriteAgain
<1>g. ASSUME NEW a \in Attempts, GiveUp(a) PROVE TypeOK'
  <2>1. QueueTypes'
    BY <1>g DEF TypeOK, QueueTypes, GiveUp
  <2>2. EnvTypes'
    BY <1>g DEF TypeOK, EnvTypes, GiveUp
  <2> QED
    BY <1>g, <2>1, <2>2, FrameTypes DEF TypeOK, GiveUp
<1>34. ASSUME NEW a \in Attempts, TimePasses(a) PROVE TypeOK'
  <2>1. TimeTypes'
    BY <1>34 DEF TypeOK, TimeTypes, TimePasses
  <2> QED
    BY <1>34, <2>1, FrameTypes DEF TypeOK, TimePasses
<1>35. ASSUME NEW e \in Exams, ExamEnds(e) PROVE TypeOK'
  <2>1. TimeTypes'
    BY <1>35 DEF TypeOK, TimeTypes, ExamEnds
  <2> QED
    BY <1>35, <2>1, FrameTypes DEF TypeOK, ExamEnds
<1>36. ASSUME CycleLockExpires PROVE TypeOK'
  <2>1. LockTypes'
    BY <1>36 DEF TypeOK, LockTypes, CycleLockExpires
  <2>2. EnvTypes'
    BY <1>36 DEF TypeOK, EnvTypes, CycleLockExpires
  <2>3. HistoryTypes'
    BY <1>36 DEF TypeOK, HistoryTypes, CycleLockExpires
  <2> QED
    BY <1>36, <2>1, <2>2, <2>3, FrameTypes DEF TypeOK, CycleLockExpires
<1>37. ASSUME NEW a \in Attempts, AttemptLockExpires(a) PROVE TypeOK'
  <2>1. LockTypes'
    BY <1>37 DEF TypeOK, LockTypes, AttemptLockExpires
  <2>2. EnvTypes'
    BY <1>37 DEF TypeOK, EnvTypes, AttemptLockExpires
  <2>3. HistoryTypes'
    BY <1>37 DEF TypeOK, HistoryTypes, AttemptLockExpires
  <2> QED
    BY <1>37, <2>1, <2>2, <2>3, FrameTypes DEF TypeOK, AttemptLockExpires
<1>38. ASSUME NEW a \in Attempts, HandledExpires(a) PROVE TypeOK'
  <2>1. TimeTypes'
    BY <1>38 DEF TypeOK, TimeTypes, HandledExpires
  <2>2. EnvTypes'
    BY <1>38 DEF TypeOK, EnvTypes, HandledExpires
  <2> QED
    BY <1>38, <2>1, <2>2, FrameTypes DEF TypeOK, HandledExpires
<1>39. ASSUME NEW s \in Saves, SaveFails(s) PROVE TypeOK'
  <2>1. ClientTypes'
    BY <1>39 DEF TypeOK, ClientTypes, SaveFails
  <2>2. EnvTypes'
    BY <1>39 DEF TypeOK, EnvTypes, SaveFails, Fault
  <2> QED
    BY <1>39, <2>1, <2>2, FrameTypes DEF TypeOK, SaveFails, Fault
<1>40. ASSUME NEW h \in Handlers, FlushFails(h) PROVE TypeOK'
  <2>1. HandlerTypes'
    BY <1>40 DEF TypeOK, HandlerTypes, FlushFails, LoopTypes, Handlers,
       PCs, Submitting, Flushing, AfterFlush
  <2>2. EnvTypes'
    BY <1>40 DEF TypeOK, EnvTypes, FlushFails, Fault
  <2> QED
    BY <1>40, <2>1, <2>2, FrameTypes DEF TypeOK, FlushFails, Fault
<1>41. ASSUME NEW f \in Flushers, FlushAborts(f) PROVE TypeOK'
  <2>1. HandlerTypes'
    BY <1>41 DEF TypeOK, HandlerTypes, FlushAborts, LoopTypes, Handlers,
       PCs, Submitting, Flushing
  <2>2. LoopTypes'
    BY <1>41 DEF TypeOK, LoopTypes, FlushAborts
  <2>3. EnvTypes'
    BY <1>41 DEF TypeOK, EnvTypes, FlushAborts, Fault
  <2> QED
    BY <1>41, <2>1, <2>2, <2>3, FrameTypes DEF TypeOK, FlushAborts, Fault
<1>42. ASSUME NEW h \in Submits, SubmitFails(h) PROVE TypeOK'
  <2>1. HandlerTypes'
    BY <1>42 DEF TypeOK, HandlerTypes, SubmitFails, LoopTypes, Handlers,
       PCs, Submitting, Flushing, Leave, Files
  <2>2. EnvTypes'
    BY <1>42 DEF TypeOK, EnvTypes, SubmitFails, Fault
  <2>3. HistoryTypes'
    BY <1>42 DEF TypeOK, HistoryTypes, SubmitFails, Strand, HandlerTypes,
       Handlers, PCs, Submitting, Flushing
  <2> QED
    BY <1>42, <2>1, <2>2, <2>3, FrameTypes DEF TypeOK, SubmitFails, Fault
<1>43. ASSUME NEW c \in Cycles, AutoSubmitFails(c) PROVE TypeOK'
  <2>1. HandlerTypes'
    BY <1>43 DEF TypeOK, HandlerTypes, AutoSubmitFails, LoopTypes,
       Handlers, PCs, Submitting, Flushing, Leave, Files, BackToLoop
  <2>2. EnvTypes'
    BY <1>43 DEF TypeOK, EnvTypes, AutoSubmitFails, Fault
  <2>3. HistoryTypes'
    BY <1>43 DEF TypeOK, HistoryTypes, AutoSubmitFails, Strand,
       HandlerTypes, Handlers, PCs, Submitting, Flushing
  <2> QED
    BY <1>43, <2>1, <2>2, <2>3, FrameTypes DEF TypeOK, AutoSubmitFails,
       Fault
<1>44. ASSUME NEW c \in Cycles, CycleFails(c) PROVE TypeOK'
  <2>1. HandlerTypes'
    BY <1>44 DEF TypeOK, HandlerTypes, CycleFails, LoopTypes, Handlers,
       PCs, Submitting, Flushing
  <2>2. LoopTypes'
    BY <1>44 DEF TypeOK, LoopTypes, CycleFails
  <2>3. EnvTypes'
    BY <1>44 DEF TypeOK, EnvTypes, CycleFails, Fault
  <2> QED
    BY <1>44, <2>1, <2>2, <2>3, FrameTypes DEF TypeOK, CycleFails, Fault
<1>45. ASSUME NEW h \in Handlers, Crash(h) PROVE TypeOK'
  <2>1. HandlerTypes'
    BY <1>45 DEF TypeOK, HandlerTypes, Crash, LoopTypes, Handlers, PCs,
       Submitting, Flushing, Leave, Files
  <2>2. LoopTypes'
    BY <1>45 DEF TypeOK, LoopTypes, Crash
  <2>3. EnvTypes'
    BY <1>45 DEF TypeOK, EnvTypes, Crash
  <2>4. HistoryTypes'
    BY <1>45 DEF TypeOK, HistoryTypes, Crash, Strand, HandlerTypes, PCs,
       Submitting, Flushing
  <2> QED
    BY <1>45, <2>1, <2>2, <2>3, <2>4, FrameTypes DEF TypeOK, Crash
<1>46. CASE UNCHANGED vars
  BY <1>46, FrameTypes DEF TypeOK, vars
<1>47. /\ Submits \subseteq Handlers /\ Cycles \subseteq Handlers
       /\ Flushers \subseteq Handlers
  BY DEF Handlers
<1> QED
  BY <1>g, <1>1, <1>2, <1>3, <1>4, <1>5, <1>6, <1>7, <1>8, <1>9, <1>10, <1>11,
     <1>12, <1>13, <1>14, <1>15, <1>16, <1>17, <1>18, <1>19, <1>20, <1>21,
     <1>22, <1>23, <1>24, <1>25, <1>26, <1>27, <1>28, <1>29, <1>30, <1>31,
     <1>32, <1>33, <1>34, <1>35, <1>36, <1>37, <1>38, <1>39, <1>40, <1>41,
     <1>42, <1>43, <1>44, <1>45, <1>46, <1>47 DEF Next, Client, Clock,
     Failure, SaveStep, SubmitStep, CycleStep, BackgroundStep,
     SubmissionStep, FlushStep

\* TypeOK, which the runs check on small instances, holds in every reachable
\* state for all values of the constants: in particular a handler inside a
\* submission always has an attempt, and files to grade once it has chosen them.
THEOREM TypeCorrect == Spec => []TypeOK
<1> QED
  BY TypeInit, TypeStep, PTL DEF Spec

----------------------------------------------------------------------------
(* The scheduler's locks *)

\* Unless the lock was outlived, the cycle that runs holds it and is the only one.
CycleLockHeld ==
  \/ cycleOutlived
  \/ \A c, d \in Cycles : /\ pc[c] # "idle" => cycleLock
                          /\ "idle" \notin {pc[c], pc[d]} => c = d

\* Likewise an attempt the fallback is submitting, with the attempt's lock.
AttemptLocksHeld ==
  \A a \in Attempts :
    \/ a \in outlived
    \/ \A c, d \in Cycles : /\ Rescues(c, a) => a \in attemptLocks
                            /\ Rescues(c, a) /\ Rescues(d, a) => c = d

\* No lock is taken, released or outlived, and nobody begins what a lock is for.
Quiet ==
  /\ UNCHANGED <<cycleLock, cycleOutlived, attemptLocks, outlived>>
  /\ \A c \in Cycles :
       /\ pc'[c] # "idle" => pc[c] # "idle"
       /\ \A a \in Attempts : Rescues(c, a)' => Rescues(c, a)

\* The locks are the business of five actions only.
LEMMA QuietStep ==
  ASSUME TypeOK, [Next]_vars,
         ~ \E c \in Cycles : \/ StartCycle(c) \/ EndCycle(c)
                             \/ \E r \in rows[c] : TakeOverdue(c, r),
         ~ CycleLockExpires,
         ~ \E a \in Attempts : AttemptLockExpires(a)
  PROVE  Quiet
<1> USE LifecycleAssumption
    DEF TypeOK, HandlerTypes, LoopTypes, Handlers, lockVars, workVars, loopVars,
        histVars
<1>1. ASSUME NEW a \in Attempts, CheckStart(a) PROVE Quiet
  BY <1>1 DEF Quiet, CheckStart, Rescues
<1>2. ASSUME NEW a \in Attempts, InsertAttempt(a) PROVE Quiet
  BY <1>2 DEF Quiet, InsertAttempt, Rescues
<1>3. ASSUME NEW s \in Saves, NEW a \in Attempts, ReceiveSave(s, a) PROVE Quiet
  BY <1>3 DEF Quiet, ReceiveSave, Rescues
<1>4. ASSUME NEW s \in Saves, WriteSave(s) PROVE Quiet
  BY <1>4 DEF Quiet, WriteSave, Rescues
<1>5. ASSUME NEW s \in Saves, NEW a \in Attempts, SaveOverSocket(s, a)
       PROVE  Quiet
  BY <1>5 DEF Quiet, SaveOverSocket, Rescues
<1>6. ASSUME NEW s \in Saves, MarkDirty(s) PROVE Quiet
  BY <1>6 DEF Quiet, MarkDirty, Rescues
<1>7. ASSUME NEW h \in Handlers, FlushGet(h) PROVE Quiet
  BY <1>7 DEF Quiet, FlushGet, Rescues, Submitting, Flushing, AfterFlush
<1>8. ASSUME NEW h \in Handlers, FlushUpdate(h) PROVE Quiet
  BY <1>8 DEF Quiet, FlushUpdate, Rescues, Submitting, Flushing
<1>9. ASSUME NEW h \in Handlers, FlushClean(h) PROVE Quiet
  BY <1>9 DEF Quiet, FlushClean, Rescues, Submitting, Flushing, AfterFlush
<1>10. ASSUME NEW h \in Handlers, GetFromBuffer(h) PROVE Quiet
  BY <1>10 DEF Quiet, GetFromBuffer, Rescues, Submitting, Flushing
<1>11. ASSUME NEW h \in Handlers, Store(h) PROVE Quiet
  BY <1>11 DEF Quiet, Store, Rescues, Submitting, Flushing
<1>12. ASSUME NEW h \in Handlers, AddJob(h) PROVE Quiet
  BY <1>12 DEF Quiet, AddJob, Rescues, Submitting, Flushing
<1>13. ASSUME NEW h \in Handlers, SetGrading(h) PROVE Quiet
  BY <1>13 DEF Quiet, SetGrading, Rescues, Submitting, Flushing, BackToLoop,
     Leave
<1>14. ASSUME NEW h \in Submits, NEW a \in Attempts,
              NEW body \in {Nothing, edits[a]}, ReceiveSubmit(h, a, body)
       PROVE  Quiet
  BY <1>14 DEF Quiet, ReceiveSubmit, Rescues, Submitting, Flushing, Take
<1>15. ASSUME NEW h \in Submits, StopTimer(h) PROVE Quiet
  BY <1>15 DEF Quiet, StopTimer, Rescues, Submitting, Flushing
<1>16. ASSUME NEW h \in Submits, ClearBuffer(h) PROVE Quiet
  BY <1>16 DEF Quiet, ClearBuffer, Rescues, Submitting, Flushing
<1>17. ASSUME NEW h \in Submits, ClearMark(h) PROVE Quiet
  BY <1>17 DEF Quiet, ClearMark, Rescues, Submitting, Flushing, Leave
<1>18. ASSUME NEW f \in Flushers, StartFlush(f) PROVE Quiet
  BY <1>18 DEF Quiet, StartFlush, Rescues, Submitting, Flushing
<1>19. ASSUME NEW f \in Flushers, FlushNext(f) PROVE Quiet
  BY <1>19 DEF Quiet, FlushNext, Rescues, Submitting, Flushing
<1>20. ASSUME NEW f \in Flushers, EndFlush(f) PROVE Quiet
  BY <1>20 DEF Quiet, EndFlush, Rescues, Submitting, Flushing, Leave
<1>21. ASSUME NEW c \in Cycles, QueryEnded(c) PROVE Quiet
  BY <1>21 DEF Quiet, QueryEnded, Rescues, Submitting, Flushing
<1>22. ASSUME NEW c \in Cycles, NEW e \in ends[c], NextExam(c, e) PROVE Quiet
  BY <1>22 DEF Quiet, NextExam, Rescues, Submitting, Flushing
<1>23. ASSUME NEW c \in Cycles, NEW r \in rows[c], AutoSubmit(c, r) PROVE Quiet
  BY <1>23 DEF Quiet, AutoSubmit, Rescues, Submitting, Flushing, Take
<1>24. ASSUME NEW c \in Cycles, MarkProcessed(c) PROVE Quiet
  BY <1>24 DEF Quiet, MarkProcessed, Rescues, Submitting, Flushing
<1>25. ASSUME NEW c \in Cycles, QueryOverdue(c) PROVE Quiet
  BY <1>25 DEF Quiet, QueryOverdue, Rescues, Submitting, Flushing
<1>26. ASSUME NEW a \in Attempts, JoinAttempt(a) PROVE Quiet
  BY <1>26 DEF Quiet, JoinAttempt, Rescues
<1>27. ASSUME NEW a \in Attempts, Tick(a) PROVE Quiet
  BY <1>27 DEF Quiet, Tick, Rescues
<1>28. ASSUME NEW a \in Attempts, HandleTimerExpired(a) PROVE Quiet
  BY <1>28 DEF Quiet, HandleTimerExpired, Rescues
<1>29. ASSUME NEW a \in Attempts, NEW o \in Final, WriteResult(a, o)
       PROVE  Quiet
  BY <1>29 DEF Quiet, WriteResult, Rescues
<1>30. ASSUME NEW a \in Attempts, NEW o \in Final, WriteAgain(a, o) PROVE Quiet
  BY <1>30 DEF Quiet, WriteAgain, Rescues
<1>g. ASSUME NEW a \in Attempts, GiveUp(a) PROVE Quiet
  BY <1>g DEF Quiet, GiveUp, Rescues
<1>31. ASSUME NEW a \in Attempts, TimePasses(a) PROVE Quiet
  BY <1>31 DEF Quiet, TimePasses, Rescues
<1>32. ASSUME NEW e \in Exams, ExamEnds(e) PROVE Quiet
  BY <1>32 DEF Quiet, ExamEnds, Rescues
<1>33. ASSUME NEW a \in Attempts, HandledExpires(a) PROVE Quiet
  BY <1>33 DEF Quiet, HandledExpires, Rescues
<1>34. ASSUME NEW s \in Saves, SaveFails(s) PROVE Quiet
  BY <1>34 DEF Quiet, SaveFails, Rescues
<1>35. ASSUME NEW h \in Handlers, FlushFails(h) PROVE Quiet
  BY <1>35 DEF Quiet, FlushFails, Rescues, Submitting, Flushing, AfterFlush
<1>36. ASSUME NEW f \in Flushers, FlushAborts(f) PROVE Quiet
  BY <1>36 DEF Quiet, FlushAborts, Rescues, Submitting, Flushing
<1>37. ASSUME NEW h \in Submits, SubmitFails(h) PROVE Quiet
  BY <1>37 DEF Quiet, SubmitFails, Rescues, Submitting, Flushing, Leave
<1>38. ASSUME NEW c \in Cycles, AutoSubmitFails(c) PROVE Quiet
  BY <1>38 DEF Quiet, AutoSubmitFails, Rescues, Submitting, Flushing,
     BackToLoop, Leave
<1>39. ASSUME NEW c \in Cycles, CycleFails(c) PROVE Quiet
  BY <1>39 DEF Quiet, CycleFails, Rescues, Submitting, Flushing
<1>40. ASSUME NEW h \in Handlers, Crash(h) PROVE Quiet
  BY <1>40 DEF Quiet, Crash, Rescues, Submitting, Flushing, Leave
<1>41. CASE UNCHANGED vars
  BY <1>41 DEF Quiet, Rescues, vars
<1> QED
  BY <1>g, <1>1, <1>2, <1>3, <1>4, <1>5, <1>6, <1>7, <1>8, <1>9, <1>10, <1>11,
     <1>12, <1>13, <1>14, <1>15, <1>16, <1>17, <1>18, <1>19, <1>20, <1>21,
     <1>22, <1>23, <1>24, <1>25, <1>26, <1>27, <1>28, <1>29, <1>30, <1>31,
     <1>32, <1>33, <1>34, <1>35, <1>36, <1>37, <1>38, <1>39, <1>40, <1>41 DEF
     Next, Client, Clock, Failure, SaveStep, SubmitStep, CycleStep,
     BackgroundStep, SubmissionStep, FlushStep

\* The five actions keep both locks, and so do all others.
LEMMA LockStep ==
  TypeOK /\ CycleLockHeld /\ AttemptLocksHeld /\ [Next]_vars
    => CycleLockHeld' /\ AttemptLocksHeld'
<1> SUFFICES ASSUME TypeOK, CycleLockHeld, AttemptLocksHeld, [Next]_vars
             PROVE  CycleLockHeld' /\ AttemptLocksHeld'
  OBVIOUS
<1> USE LifecycleAssumption
    DEF TypeOK, HandlerTypes, LoopTypes, LockTypes, HistoryTypes, Handlers,
        lockVars, workVars, loopVars, histVars
<1>1. ASSUME NEW c \in Cycles, StartCycle(c)
      PROVE  CycleLockHeld' /\ AttemptLocksHeld'
  <2>1. CycleLockHeld'
    BY <1>1 DEF CycleLockHeld, StartCycle
  <2>2. AttemptLocksHeld'
    BY <1>1 DEF AttemptLocksHeld, Rescues, StartCycle, Submitting, Flushing
  <2> QED
    BY <2>1, <2>2
<1>2. ASSUME NEW c \in Cycles, EndCycle(c)
      PROVE  CycleLockHeld' /\ AttemptLocksHeld'
  <2>1. CycleLockHeld'
    BY <1>2 DEF CycleLockHeld, EndCycle
  <2>2. AttemptLocksHeld'
    BY <1>2 DEF AttemptLocksHeld, Rescues, EndCycle, Submitting, Flushing
  <2> QED
    BY <2>1, <2>2
<1>3. ASSUME NEW c \in Cycles, NEW r \in rows[c], TakeOverdue(c, r)
      PROVE  CycleLockHeld' /\ AttemptLocksHeld'
  <2>1. CycleLockHeld'
    BY <1>3 DEF CycleLockHeld, TakeOverdue
  <2>2. AttemptLocksHeld'
    <3>1. CASE UNCHANGED <<attemptLocks, workVars, pc>>
      BY <1>3, <3>1 DEF AttemptLocksHeld, Rescues, TakeOverdue
    <3>2. CASE /\ r.att \notin attemptLocks
               /\ attemptLocks' = attemptLocks \cup {r.att}
               /\ Take(c, r.att, r.files, Nothing)
               /\ pc' = [pc EXCEPT ![c] = "flushGet"]
      <4>1. \A d \in Cycles, a \in Attempts :
              Rescues(d, a)' => \/ d = c /\ a = r.att
                                \/ Rescues(d, a)
        BY <1>3, <3>2 DEF Rescues, TakeOverdue, Take
      <4>2. \A d \in Cycles : Rescues(d, r.att) => r.att \in outlived
        BY <3>2 DEF AttemptLocksHeld, Row
      <4>3. outlived' = outlived
        BY <1>3 DEF TakeOverdue
      <4> QED
        BY <3>2, <4>1, <4>2, <4>3 DEF AttemptLocksHeld
    <3> QED
      BY <1>3, <3>1, <3>2 DEF TakeOverdue
  <2> QED
    BY <2>1, <2>2
<1>4. ASSUME CycleLockExpires
      PROVE  CycleLockHeld' /\ AttemptLocksHeld'
  <2>1. CycleLockHeld'
    BY <1>4 DEF CycleLockHeld, CycleLockExpires
  <2>2. AttemptLocksHeld'
    BY <1>4 DEF AttemptLocksHeld, Rescues, CycleLockExpires
  <2> QED
    BY <2>1, <2>2
<1>5. ASSUME NEW a \in Attempts, AttemptLockExpires(a)
      PROVE  CycleLockHeld' /\ AttemptLocksHeld'
  <2>1. CycleLockHeld'
    BY <1>5 DEF CycleLockHeld, AttemptLockExpires
  <2>2. \A c \in Cycles, b \in Attempts : Rescues(c, b)' = Rescues(c, b)
    BY <1>5 DEF Rescues, AttemptLockExpires
  <2>3. AttemptLocksHeld'
    BY <1>5, <2>2 DEF AttemptLocksHeld, AttemptLockExpires
  <2> QED
    BY <2>1, <2>3
<1>6. CASE Quiet
  BY <1>6 DEF Quiet, CycleLockHeld, AttemptLocksHeld
<1> QED
  BY <1>1, <1>2, <1>3, <1>4, <1>5, <1>6, QuietStep

\* OneCycle for every number of instances: as long as no cycle outlives the lock's
\* sixty seconds, no two run at once, whatever crashes, fails or expires.
THEOREM OneCycleAlways == Spec => []OneCycle
<1>1. Init => CycleLockHeld /\ AttemptLocksHeld
  BY LifecycleAssumption
     DEF Init, CycleLockHeld, AttemptLocksHeld, Rescues, Handlers, Submitting,
         Flushing
<1>2. CycleLockHeld => OneCycle
  BY DEF CycleLockHeld, OneCycle
<1> QED
  BY <1>1, <1>2, TypeCorrect, LockStep, PTL DEF Spec

\* RescuedOnce for every number of instances: overlapping cycles included, the
\* fallback submits an attempt once at a time unless its own lock is outlived.
THEOREM RescuedOnceAlways == Spec => []RescuedOnce
<1>1. Init => CycleLockHeld /\ AttemptLocksHeld
  BY LifecycleAssumption
     DEF Init, CycleLockHeld, AttemptLocksHeld, Rescues, Handlers, Submitting,
         Flushing
<1>2. AttemptLocksHeld => RescuedOnce
  BY DEF AttemptLocksHeld, RescuedOnce
<1> QED
  BY <1>1, <1>2, TypeCorrect, LockStep, PTL DEF Spec

----------------------------------------------------------------------------
(* The attempts of an ended exam *)

\* Exams that cycle c is dealing with are over.
ExamsKnown(c) == ends[c] \subseteq ended /\ exam[c] \in ended \cup {NoExam}

\* A cycle has an exam while it goes through its attempts, and no exams are left
\* to take up before its first query and from the fallback on.
LoopShape(c) ==
  /\ exam[c] # NoExam => pc[c] \in {"attempts"} \cup Submitting
  /\ \/ pc[c] \in {"idle", "window", "overdue"}
     \/ pc[c] \in Submitting /\ exam[c] = NoExam
     => ends[c] = {}

\* Cycle c is going to submit a, or is doing so and has not written the row.
Pending(c, a) ==
  \/ \E r \in rows[c] : r.att = a
  \/ /\ att[c] = a /\ exam[c] = ExamOf[a]
     /\ pc[c] \in Flushing \cup {"get", "store"}

\* No attempt in progress is forgotten while the exams of a cycle are worked off.
Covered(c) ==
  \A a \in Attempts :
    status[a] = "IN_PROGRESS" /\ ExamOf[a] \in ends[c] \cup {exam[c]}
      => a \in swallowed \cup lateStarts \/ Pending(c, a)

CycleInv(c) == ExamsKnown(c) /\ LoopShape(c) /\ Covered(c)

\* What the scheduler relies on when it marks an exam as processed.
EndInv ==
  /\ processed \subseteq ended
  /\ \A c \in Cycles : CycleInv(c)
  /\ EndSubmitsAll

\* Ends, excuses and progress are never taken back: an attempt of an exam that
\* has ended comes to be in progress only by a late start.
Forward ==
  /\ ended \subseteq ended' /\ swallowed \subseteq swallowed'
  /\ lateStarts \subseteq lateStarts'
  /\ \A a \in Attempts :
       status'[a] = "IN_PROGRESS"
         => \/ status[a] = "IN_PROGRESS"
            \/ ExamOf[a] \notin ended'
            \/ a \in lateStarts'
  /\ processed' = processed \/ \E c \in Cycles : MarkProcessed(c)

\* Cycle c is left alone, or it moves.
Same(c) ==
  /\ pc'[c] = pc[c] /\ att'[c] = att[c]
  /\ rows'[c] = rows[c] /\ ends'[c] = ends[c] /\ exam'[c] = exam[c]

Own(c) ==
  CycleStep(c) \/ FlushFails(c) \/ Crash(c) \/ AutoSubmitFails(c) \/ CycleFails(c)

Progress == Forward /\ \A d \in Cycles : Same(d) \/ Own(d)

\* Every step goes forward and moves one cycle at most.
LEMMA ProgressStep == TypeOK /\ [Next]_vars => Progress
<1> SUFFICES ASSUME TypeOK, [Next]_vars PROVE Progress
  OBVIOUS
<1> USE LifecycleAssumption
    DEF TypeOK, RowTypes, HandlerTypes, LoopTypes, LockTypes, TimeTypes,
        HistoryTypes, Handlers, rowVars, lockVars, workVars, loopVars, timeVars,
        histVars
<1>1. ASSUME NEW a \in Attempts, CheckStart(a) PROVE Progress
  BY <1>1 DEF Progress, Forward, Same, CheckStart
<1>2. ASSUME NEW a \in Attempts, InsertAttempt(a) PROVE Progress
  BY <1>2 DEF Progress, Forward, Same, InsertAttempt
<1>3. ASSUME NEW s \in Saves, NEW a \in Attempts, ReceiveSave(s, a)
       PROVE  Progress
  BY <1>3 DEF Progress, Forward, Same, ReceiveSave
<1>4. ASSUME NEW s \in Saves, WriteSave(s) PROVE Progress
  BY <1>4 DEF Progress, Forward, Same, WriteSave
<1>5. ASSUME NEW s \in Saves, NEW a \in Attempts, SaveOverSocket(s, a)
       PROVE  Progress
  BY <1>5 DEF Progress, Forward, Same, SaveOverSocket
<1>6. ASSUME NEW s \in Saves, MarkDirty(s) PROVE Progress
  BY <1>6 DEF Progress, Forward, Same, MarkDirty
<1>7. ASSUME NEW h \in Handlers, FlushGet(h) PROVE Progress
  <2>1. Forward
    BY <1>7 DEF Forward, FlushGet
  <2>2. \A d \in Cycles : Same(d) \/ Own(d)
    <3> TAKE d \in Cycles
    <3>1. CASE d = h
      BY <1>7, <3>1 DEF Own, CycleStep, SubmissionStep, FlushStep
    <3>2. CASE d # h
      BY <1>7, <3>2 DEF Same, FlushGet
    <3> QED
      BY <3>1, <3>2
  <2> QED
    BY <2>1, <2>2 DEF Progress
<1>8. ASSUME NEW h \in Handlers, FlushUpdate(h) PROVE Progress
  <2>1. Forward
    BY <1>8 DEF Forward, FlushUpdate
  <2>2. \A d \in Cycles : Same(d) \/ Own(d)
    <3> TAKE d \in Cycles
    <3>1. CASE d = h
      BY <1>8, <3>1 DEF Own, CycleStep, SubmissionStep, FlushStep
    <3>2. CASE d # h
      BY <1>8, <3>2 DEF Same, FlushUpdate
    <3> QED
      BY <3>1, <3>2
  <2> QED
    BY <2>1, <2>2 DEF Progress
<1>9. ASSUME NEW h \in Handlers, FlushClean(h) PROVE Progress
  <2>1. Forward
    BY <1>9 DEF Forward, FlushClean
  <2>2. \A d \in Cycles : Same(d) \/ Own(d)
    <3> TAKE d \in Cycles
    <3>1. CASE d = h
      BY <1>9, <3>1 DEF Own, CycleStep, SubmissionStep, FlushStep
    <3>2. CASE d # h
      BY <1>9, <3>2 DEF Same, FlushClean
    <3> QED
      BY <3>1, <3>2
  <2> QED
    BY <2>1, <2>2 DEF Progress
<1>10. ASSUME NEW h \in Handlers, GetFromBuffer(h) PROVE Progress
  <2>1. Forward
    BY <1>10 DEF Forward, GetFromBuffer
  <2>2. \A d \in Cycles : Same(d) \/ Own(d)
    <3> TAKE d \in Cycles
    <3>1. CASE d = h
      BY <1>10, <3>1 DEF Own, CycleStep, SubmissionStep, FlushStep
    <3>2. CASE d # h
      BY <1>10, <3>2 DEF Same, GetFromBuffer
    <3> QED
      BY <3>1, <3>2
  <2> QED
    BY <2>1, <2>2 DEF Progress
<1>11. ASSUME NEW h \in Handlers, Store(h) PROVE Progress
  <2>1. Forward
    BY <1>11 DEF Forward, Store
  <2>2. \A d \in Cycles : Same(d) \/ Own(d)
    <3> TAKE d \in Cycles
    <3>1. CASE d = h
      BY <1>11, <3>1 DEF Own, CycleStep, SubmissionStep, FlushStep
    <3>2. CASE d # h
      BY <1>11, <3>2 DEF Same, Store
    <3> QED
      BY <3>1, <3>2
  <2> QED
    BY <2>1, <2>2 DEF Progress
<1>12. ASSUME NEW h \in Handlers, AddJob(h) PROVE Progress
  <2>1. Forward
    BY <1>12 DEF Forward, AddJob
  <2>2. \A d \in Cycles : Same(d) \/ Own(d)
    <3> TAKE d \in Cycles
    <3>1. CASE d = h
      BY <1>12, <3>1 DEF Own, CycleStep, SubmissionStep, FlushStep
    <3>2. CASE d # h
      BY <1>12, <3>2 DEF Same, AddJob
    <3> QED
      BY <3>1, <3>2
  <2> QED
    BY <2>1, <2>2 DEF Progress
<1>13. ASSUME NEW h \in Handlers, SetGrading(h) PROVE Progress
  <2>1. Forward
    BY <1>13 DEF Forward, SetGrading
  <2>2. \A d \in Cycles : Same(d) \/ Own(d)
    <3> TAKE d \in Cycles
    <3>1. CASE d = h
      BY <1>13, <3>1 DEF Own, CycleStep, SubmissionStep, FlushStep
    <3>2. CASE d # h
      BY <1>13, <3>2 DEF Same, SetGrading, Leave
    <3> QED
      BY <3>1, <3>2
  <2> QED
    BY <2>1, <2>2 DEF Progress
<1>14. ASSUME NEW h \in Submits, NEW a \in Attempts,
              NEW body \in {Nothing, edits[a]}, ReceiveSubmit(h, a, body)
       PROVE  Progress
  BY <1>14 DEF Progress, Forward, Same, ReceiveSubmit, Take
<1>15. ASSUME NEW h \in Submits, StopTimer(h) PROVE Progress
  BY <1>15 DEF Progress, Forward, Same, StopTimer
<1>16. ASSUME NEW h \in Submits, ClearBuffer(h) PROVE Progress
  BY <1>16 DEF Progress, Forward, Same, ClearBuffer
<1>17. ASSUME NEW h \in Submits, ClearMark(h) PROVE Progress
  BY <1>17 DEF Progress, Forward, Same, ClearMark, Leave
<1>18. ASSUME NEW f \in Flushers, StartFlush(f) PROVE Progress
  BY <1>18 DEF Progress, Forward, Same, StartFlush
<1>19. ASSUME NEW f \in Flushers, FlushNext(f) PROVE Progress
  BY <1>19 DEF Progress, Forward, Same, FlushNext
<1>20. ASSUME NEW f \in Flushers, EndFlush(f) PROVE Progress
  BY <1>20 DEF Progress, Forward, Same, EndFlush, Leave
<1>21. ASSUME NEW c \in Cycles, StartCycle(c) PROVE Progress
  <2>1. Forward
    BY <1>21 DEF Forward, StartCycle
  <2>2. \A d \in Cycles : Same(d) \/ Own(d)
    <3> TAKE d \in Cycles
    <3>1. CASE d = c
      BY <1>21, <3>1 DEF Own, CycleStep, SubmissionStep, FlushStep
    <3>2. CASE d # c
      BY <1>21, <3>2 DEF Same, StartCycle
    <3> QED
      BY <3>1, <3>2
  <2> QED
    BY <2>1, <2>2 DEF Progress
<1>22. ASSUME NEW c \in Cycles, QueryEnded(c) PROVE Progress
  <2>1. Forward
    BY <1>22 DEF Forward, QueryEnded
  <2>2. \A d \in Cycles : Same(d) \/ Own(d)
    <3> TAKE d \in Cycles
    <3>1. CASE d = c
      BY <1>22, <3>1 DEF Own, CycleStep, SubmissionStep, FlushStep
    <3>2. CASE d # c
      BY <1>22, <3>2 DEF Same, QueryEnded
    <3> QED
      BY <3>1, <3>2
  <2> QED
    BY <2>1, <2>2 DEF Progress
<1>23. ASSUME NEW c \in Cycles, NEW e \in ends[c], NextExam(c, e)
       PROVE  Progress
  <2>1. Forward
    BY <1>23 DEF Forward, NextExam
  <2>2. \A d \in Cycles : Same(d) \/ Own(d)
    <3> TAKE d \in Cycles
    <3>1. CASE d = c
      BY <1>23, <3>1 DEF Own, CycleStep, SubmissionStep, FlushStep
    <3>2. CASE d # c
      BY <1>23, <3>2 DEF Same, NextExam
    <3> QED
      BY <3>1, <3>2
  <2> QED
    BY <2>1, <2>2 DEF Progress
<1>24. ASSUME NEW c \in Cycles, NEW r \in rows[c], AutoSubmit(c, r)
       PROVE  Progress
  <2>1. Forward
    BY <1>24 DEF Forward, AutoSubmit
  <2>2. \A d \in Cycles : Same(d) \/ Own(d)
    <3> TAKE d \in Cycles
    <3>1. CASE d = c
      BY <1>24, <3>1 DEF Own, CycleStep, SubmissionStep, FlushStep
    <3>2. CASE d # c
      BY <1>24, <3>2 DEF Same, AutoSubmit, Take
    <3> QED
      BY <3>1, <3>2
  <2> QED
    BY <2>1, <2>2 DEF Progress
<1>25. ASSUME NEW c \in Cycles, MarkProcessed(c) PROVE Progress
  <2>1. Forward
    BY <1>25 DEF Forward, MarkProcessed
  <2>2. \A d \in Cycles : Same(d) \/ Own(d)
    <3> TAKE d \in Cycles
    <3>1. CASE d = c
      BY <1>25, <3>1 DEF Own, CycleStep, SubmissionStep, FlushStep
    <3>2. CASE d # c
      BY <1>25, <3>2 DEF Same, MarkProcessed
    <3> QED
      BY <3>1, <3>2
  <2> QED
    BY <2>1, <2>2 DEF Progress
<1>26. ASSUME NEW c \in Cycles, QueryOverdue(c) PROVE Progress
  <2>1. Forward
    BY <1>26 DEF Forward, QueryOverdue
  <2>2. \A d \in Cycles : Same(d) \/ Own(d)
    <3> TAKE d \in Cycles
    <3>1. CASE d = c
      BY <1>26, <3>1 DEF Own, CycleStep, SubmissionStep, FlushStep
    <3>2. CASE d # c
      BY <1>26, <3>2 DEF Same, QueryOverdue
    <3> QED
      BY <3>1, <3>2
  <2> QED
    BY <2>1, <2>2 DEF Progress
<1>27. ASSUME NEW c \in Cycles, NEW r \in rows[c], TakeOverdue(c, r)
       PROVE  Progress
  <2>1. Forward
    BY <1>27 DEF Forward, TakeOverdue
  <2>2. \A d \in Cycles : Same(d) \/ Own(d)
    <3> TAKE d \in Cycles
    <3>1. CASE d = c
      BY <1>27, <3>1 DEF Own, CycleStep, SubmissionStep, FlushStep
    <3>2. CASE d # c
      BY <1>27, <3>2 DEF Same, TakeOverdue, Take
    <3> QED
      BY <3>1, <3>2
  <2> QED
    BY <2>1, <2>2 DEF Progress
<1>28. ASSUME NEW c \in Cycles, EndCycle(c) PROVE Progress
  <2>1. Forward
    BY <1>28 DEF Forward, EndCycle
  <2>2. \A d \in Cycles : Same(d) \/ Own(d)
    <3> TAKE d \in Cycles
    <3>1. CASE d = c
      BY <1>28, <3>1 DEF Own, CycleStep, SubmissionStep, FlushStep
    <3>2. CASE d # c
      BY <1>28, <3>2 DEF Same, EndCycle
    <3> QED
      BY <3>1, <3>2
  <2> QED
    BY <2>1, <2>2 DEF Progress
<1>29. ASSUME NEW a \in Attempts, JoinAttempt(a) PROVE Progress
  BY <1>29 DEF Progress, Forward, Same, JoinAttempt
<1>30. ASSUME NEW a \in Attempts, Tick(a) PROVE Progress
  BY <1>30 DEF Progress, Forward, Same, Tick
<1>31. ASSUME NEW a \in Attempts, HandleTimerExpired(a) PROVE Progress
  BY <1>31 DEF Progress, Forward, Same, HandleTimerExpired
<1>32. ASSUME NEW a \in Attempts, NEW o \in Final, WriteResult(a, o)
       PROVE  Progress
  BY <1>32 DEF Progress, Forward, Same, WriteResult, Final
<1>33. ASSUME NEW a \in Attempts, NEW o \in Final, WriteAgain(a, o)
       PROVE  Progress
  BY <1>33 DEF Progress, Forward, Same, WriteAgain, Final
<1>g. ASSUME NEW a \in Attempts, GiveUp(a) PROVE Progress
  BY <1>g DEF Progress, Forward, Same, GiveUp
<1>34. ASSUME NEW a \in Attempts, TimePasses(a) PROVE Progress
  BY <1>34 DEF Progress, Forward, Same, TimePasses
<1>35. ASSUME NEW e \in Exams, ExamEnds(e) PROVE Progress
  BY <1>35 DEF Progress, Forward, Same, ExamEnds
<1>36. ASSUME CycleLockExpires PROVE Progress
  BY <1>36 DEF Progress, Forward, Same, CycleLockExpires
<1>37. ASSUME NEW a \in Attempts, AttemptLockExpires(a) PROVE Progress
  BY <1>37 DEF Progress, Forward, Same, AttemptLockExpires
<1>38. ASSUME NEW a \in Attempts, HandledExpires(a) PROVE Progress
  BY <1>38 DEF Progress, Forward, Same, HandledExpires
<1>39. ASSUME NEW s \in Saves, SaveFails(s) PROVE Progress
  BY <1>39 DEF Progress, Forward, Same, SaveFails
<1>40. ASSUME NEW h \in Handlers, FlushFails(h) PROVE Progress
  <2>1. Forward
    BY <1>40 DEF Forward, FlushFails
  <2>2. \A d \in Cycles : Same(d) \/ Own(d)
    <3> TAKE d \in Cycles
    <3>1. CASE d = h
      BY <1>40, <3>1 DEF Own
    <3>2. CASE d # h
      BY <1>40, <3>2 DEF Same, FlushFails
    <3> QED
      BY <3>1, <3>2
  <2> QED
    BY <2>1, <2>2 DEF Progress
<1>41. ASSUME NEW f \in Flushers, FlushAborts(f) PROVE Progress
  BY <1>41 DEF Progress, Forward, Same, FlushAborts
<1>42. ASSUME NEW h \in Submits, SubmitFails(h) PROVE Progress
  BY <1>42 DEF Progress, Forward, Same, SubmitFails, Strand, Leave
<1>43. ASSUME NEW c \in Cycles, AutoSubmitFails(c) PROVE Progress
  <2>1. Forward
    BY <1>43 DEF Forward, AutoSubmitFails, Strand
  <2>2. \A d \in Cycles : Same(d) \/ Own(d)
    <3> TAKE d \in Cycles
    <3>1. CASE d = c
      BY <1>43, <3>1 DEF Own
    <3>2. CASE d # c
      BY <1>43, <3>2 DEF Same, AutoSubmitFails, Leave
    <3> QED
      BY <3>1, <3>2
  <2> QED
    BY <2>1, <2>2 DEF Progress
<1>44. ASSUME NEW c \in Cycles, CycleFails(c) PROVE Progress
  <2>1. Forward
    BY <1>44 DEF Forward, CycleFails
  <2>2. \A d \in Cycles : Same(d) \/ Own(d)
    <3> TAKE d \in Cycles
    <3>1. CASE d = c
      BY <1>44, <3>1 DEF Own
    <3>2. CASE d # c
      BY <1>44, <3>2 DEF Same, CycleFails
    <3> QED
      BY <3>1, <3>2
  <2> QED
    BY <2>1, <2>2 DEF Progress
<1>45. ASSUME NEW h \in Handlers, Crash(h) PROVE Progress
  <2>1. Forward
    BY <1>45 DEF Forward, Crash, Strand
  <2>2. \A d \in Cycles : Same(d) \/ Own(d)
    <3> TAKE d \in Cycles
    <3>1. CASE d = h
      BY <1>45, <3>1 DEF Own
    <3>2. CASE d # h
      BY <1>45, <3>2 DEF Same, Crash, Leave
    <3> QED
      BY <3>1, <3>2
  <2> QED
    BY <2>1, <2>2 DEF Progress
<1>46. CASE UNCHANGED vars
  BY <1>46 DEF Progress, Forward, Same, vars
<1> QED
  BY <1>g, <1>1, <1>2, <1>3, <1>4, <1>5, <1>6, <1>7, <1>8, <1>9, <1>10, <1>11,
     <1>12, <1>13, <1>14, <1>15, <1>16, <1>17, <1>18, <1>19, <1>20, <1>21,
     <1>22, <1>23, <1>24, <1>25, <1>26, <1>27, <1>28, <1>29, <1>30, <1>31,
     <1>32, <1>33, <1>34, <1>35, <1>36, <1>37, <1>38, <1>39, <1>40, <1>41,
     <1>42, <1>43, <1>44, <1>45, <1>46 DEF Next, Client, Clock, Failure,
     SaveStep, SubmitStep, CycleStep, BackgroundStep, SubmissionStep,
     FlushStep

\* What a cycle does next keeps its part of the invariant.
LEMMA OwnStep ==
  ASSUME NEW c \in Cycles, TypeOK, CycleInv(c), Forward, Own(c)
  PROVE  CycleInv(c)'
<1> USE LifecycleAssumption
    DEF TypeOK, RowTypes, HandlerTypes, LoopTypes, Handlers, CycleInv, Forward,
        rowVars, lockVars, workVars, loopVars, timeVars, histVars
<1>1. ASSUME FlushGet(c) PROVE CycleInv(c)'
  <2>1. ExamsKnown(c)'
    BY <1>1 DEF ExamsKnown, FlushGet
  <2>2. LoopShape(c)'
    BY <1>1 DEF LoopShape, FlushGet, Submitting, Flushing, AfterFlush
  <2>3. Covered(c)'
    BY <1>1 DEF Covered, Pending, LoopShape, ExamsKnown, FlushGet,
       Flushing, Submitting, AfterFlush
  <2> QED
    BY <2>1, <2>2, <2>3 DEF CycleInv
<1>2. ASSUME FlushUpdate(c) PROVE CycleInv(c)'
  <2>1. ExamsKnown(c)'
    BY <1>2 DEF ExamsKnown, FlushUpdate
  <2>2. LoopShape(c)'
    BY <1>2 DEF LoopShape, FlushUpdate, Submitting, Flushing
  <2>3. Covered(c)'
    BY <1>2 DEF Covered, Pending, LoopShape, ExamsKnown, FlushUpdate,
       Flushing, Submitting
  <2> QED
    BY <2>1, <2>2, <2>3 DEF CycleInv
<1>3. ASSUME FlushClean(c) PROVE CycleInv(c)'
  <2>1. ExamsKnown(c)'
    BY <1>3 DEF ExamsKnown, FlushClean
  <2>2. LoopShape(c)'
    BY <1>3 DEF LoopShape, FlushClean, Submitting, Flushing, AfterFlush
  <2>3. Covered(c)'
    BY <1>3 DEF Covered, Pending, LoopShape, ExamsKnown, FlushClean,
       Flushing, Submitting, AfterFlush
  <2> QED
    BY <2>1, <2>2, <2>3 DEF CycleInv
<1>4. ASSUME GetFromBuffer(c) PROVE CycleInv(c)'
  <2>1. ExamsKnown(c)'
    BY <1>4 DEF ExamsKnown, GetFromBuffer
  <2>2. LoopShape(c)'
    BY <1>4 DEF LoopShape, GetFromBuffer, Submitting, Flushing
  <2>3. Covered(c)'
    BY <1>4 DEF Covered, Pending, LoopShape, ExamsKnown, GetFromBuffer,
       Flushing, Submitting
  <2> QED
    BY <2>1, <2>2, <2>3 DEF CycleInv
<1>5. ASSUME Store(c) PROVE CycleInv(c)'
  <2>1. ExamsKnown(c)'
    BY <1>5 DEF ExamsKnown, Store
  <2>2. LoopShape(c)'
    BY <1>5 DEF LoopShape, Store, Submitting, Flushing
  <2>3. Covered(c)'
    BY <1>5 DEF Covered, Pending, LoopShape, ExamsKnown, Store, Flushing,
       Submitting
  <2> QED
    BY <2>1, <2>2, <2>3 DEF CycleInv
<1>6. ASSUME AddJob(c) PROVE CycleInv(c)'
  <2>1. ExamsKnown(c)'
    BY <1>6 DEF ExamsKnown, AddJob
  <2>2. LoopShape(c)'
    BY <1>6 DEF LoopShape, AddJob, Submitting, Flushing
  <2>3. Covered(c)'
    BY <1>6 DEF Covered, Pending, LoopShape, ExamsKnown, AddJob, Flushing,
       Submitting
  <2> QED
    BY <2>1, <2>2, <2>3 DEF CycleInv
<1>7. ASSUME SetGrading(c) PROVE CycleInv(c)'
  <2>1. ExamsKnown(c)'
    BY <1>7 DEF ExamsKnown, SetGrading
  <2>2. LoopShape(c)'
    BY <1>7 DEF LoopShape, SetGrading, Submitting, Flushing, BackToLoop
  <2>3. Covered(c)'
    BY <1>7 DEF Covered, Pending, LoopShape, ExamsKnown, SetGrading,
       Flushing, Submitting, BackToLoop, Leave
  <2> QED
    BY <2>1, <2>2, <2>3 DEF CycleInv
<1>8. ASSUME StartCycle(c) PROVE CycleInv(c)'
  <2>1. ExamsKnown(c)'
    BY <1>8 DEF ExamsKnown, StartCycle
  <2>2. LoopShape(c)'
    BY <1>8 DEF LoopShape, StartCycle, Submitting, Flushing
  <2>3. Covered(c)'
    BY <1>8 DEF Covered, Pending, LoopShape, ExamsKnown, StartCycle,
       Flushing, Submitting
  <2> QED
    BY <2>1, <2>2, <2>3 DEF CycleInv
<1>9. ASSUME QueryEnded(c) PROVE CycleInv(c)'
  <2>1. ExamsKnown(c)'
    BY <1>9 DEF ExamsKnown, QueryEnded
  <2>2. LoopShape(c)'
    BY <1>9 DEF LoopShape, QueryEnded, Submitting, Flushing
  <2>3. Covered(c)'
    <3> SUFFICES ASSUME NEW a \in Attempts, status[a] = "IN_PROGRESS",
                        ExamOf[a] \in ended
                 PROVE  \E r \in rows'[c] : r.att = a
      BY <1>9, SMTT(25) DEF Covered, Pending, QueryEnded, LoopShape, Submitting, Flushing
    <3>1. [att |-> a, files |-> files[a]] \in rows'[c]
      BY <1>9 DEF QueryEnded, InProgress
    <3> QED
      BY <3>1
  <2> QED
    BY <2>1, <2>2, <2>3 DEF CycleInv
<1>10. ASSUME MarkProcessed(c) PROVE CycleInv(c)'
  <2>1. ExamsKnown(c)'
    BY <1>10 DEF ExamsKnown, MarkProcessed
  <2>2. LoopShape(c)'
    BY <1>10 DEF LoopShape, MarkProcessed, Submitting, Flushing
  <2>3. Covered(c)'
    BY <1>10 DEF Covered, Pending, LoopShape, ExamsKnown, MarkProcessed,
       Flushing, Submitting
  <2> QED
    BY <2>1, <2>2, <2>3 DEF CycleInv
<1>11. ASSUME QueryOverdue(c) PROVE CycleInv(c)'
  <2>1. ExamsKnown(c)'
    BY <1>11 DEF ExamsKnown, QueryOverdue
  <2>2. LoopShape(c)'
    BY <1>11 DEF LoopShape, QueryOverdue, Submitting, Flushing
  <2>3. Covered(c)'
    BY <1>11 DEF Covered, Pending, LoopShape, ExamsKnown, QueryOverdue,
       Flushing, Submitting
  <2> QED
    BY <2>1, <2>2, <2>3 DEF CycleInv
<1>12. ASSUME EndCycle(c) PROVE CycleInv(c)'
  <2>1. ExamsKnown(c)'
    BY <1>12 DEF ExamsKnown, EndCycle
  <2>2. LoopShape(c)'
    BY <1>12 DEF LoopShape, EndCycle, Submitting, Flushing
  <2>3. Covered(c)'
    BY <1>12 DEF Covered, Pending, LoopShape, ExamsKnown, EndCycle,
       Flushing, Submitting
  <2> QED
    BY <2>1, <2>2, <2>3 DEF CycleInv
<1>13. ASSUME NEW e \in ends[c], NextExam(c, e) PROVE CycleInv(c)'
  <2>1. ExamsKnown(c)'
    BY <1>13 DEF ExamsKnown, NextExam
  <2>2. LoopShape(c)'
    BY <1>13 DEF LoopShape, NextExam, Submitting, Flushing
  <2>3. Covered(c)'
    BY <1>13 DEF Covered, Pending, LoopShape, ExamsKnown, NextExam,
       Flushing, Submitting
  <2> QED
    BY <2>1, <2>2, <2>3 DEF CycleInv
<1>14. ASSUME NEW r \in rows[c], AutoSubmit(c, r) PROVE CycleInv(c)'
  <2>1. ExamsKnown(c)'
    BY <1>14 DEF ExamsKnown, AutoSubmit
  <2>2. LoopShape(c)'
    BY <1>14 DEF LoopShape, AutoSubmit, Submitting, Flushing
  <2>3. Covered(c)'
    BY <1>14 DEF Covered, Pending, LoopShape, ExamsKnown, AutoSubmit,
       Flushing, Submitting, Take
  <2> QED
    BY <2>1, <2>2, <2>3 DEF CycleInv
<1>15. ASSUME NEW r \in rows[c], TakeOverdue(c, r) PROVE CycleInv(c)'
  <2>1. ExamsKnown(c)'
    BY <1>15 DEF ExamsKnown, TakeOverdue
  <2>2. LoopShape(c)'
    BY <1>15 DEF LoopShape, TakeOverdue, Submitting, Flushing
  <2>3. Covered(c)'
    BY <1>15 DEF Covered, Pending, LoopShape, ExamsKnown, TakeOverdue,
       Flushing, Submitting, Take
  <2> QED
    BY <2>1, <2>2, <2>3 DEF CycleInv
<1>16. ASSUME FlushFails(c) PROVE CycleInv(c)'
  <2>1. ExamsKnown(c)'
    BY <1>16 DEF ExamsKnown, FlushFails
  <2>2. LoopShape(c)'
    BY <1>16 DEF LoopShape, FlushFails, Submitting, Flushing, AfterFlush
  <2>3. Covered(c)'
    BY <1>16 DEF Covered, Pending, LoopShape, ExamsKnown, FlushFails,
       Flushing, Submitting, AfterFlush
  <2> QED
    BY <2>1, <2>2, <2>3 DEF CycleInv
<1>17. ASSUME Crash(c) PROVE CycleInv(c)'
  <2>1. ExamsKnown(c)'
    BY <1>17 DEF ExamsKnown, Crash
  <2>2. LoopShape(c)'
    BY <1>17 DEF LoopShape, Crash, Submitting, Flushing
  <2>3. Covered(c)'
    BY <1>17 DEF Covered, Pending, LoopShape, ExamsKnown, Crash, Flushing,
       Submitting, Leave
  <2> QED
    BY <2>1, <2>2, <2>3 DEF CycleInv
<1>18. ASSUME AutoSubmitFails(c) PROVE CycleInv(c)'
  <2>1. ExamsKnown(c)'
    BY <1>18 DEF ExamsKnown, AutoSubmitFails
  <2>2. LoopShape(c)'
    BY <1>18 DEF LoopShape, AutoSubmitFails, Submitting, Flushing,
       BackToLoop
  <2>3. Covered(c)'
    BY <1>18 DEF Covered, Pending, LoopShape, ExamsKnown, AutoSubmitFails,
       Flushing, Submitting, BackToLoop, Leave
  <2> QED
    BY <2>1, <2>2, <2>3 DEF CycleInv
<1>19. ASSUME CycleFails(c) PROVE CycleInv(c)'
  <2>1. ExamsKnown(c)'
    BY <1>19 DEF ExamsKnown, CycleFails
  <2>2. LoopShape(c)'
    BY <1>19 DEF LoopShape, CycleFails, Submitting, Flushing
  <2>3. Covered(c)'
    BY <1>19 DEF Covered, Pending, LoopShape, ExamsKnown, CycleFails,
       Flushing, Submitting
  <2> QED
    BY <2>1, <2>2, <2>3 DEF CycleInv
<1> QED
  BY <1>1, <1>2, <1>3, <1>4, <1>5, <1>6, <1>7, <1>8, <1>9, <1>10, <1>11,
     <1>12, <1>13, <1>14, <1>15, <1>16, <1>17, <1>18, <1>19 DEF Own,
     CycleStep, SubmissionStep, FlushStep

\* A cycle that is left alone does not lose an attempt by what others do.
LEMMA SameStep ==
  ASSUME NEW c \in Cycles, TypeOK, CycleInv(c), Forward, Same(c)
  PROVE  CycleInv(c)'
<1>1. ExamsKnown(c)' /\ LoopShape(c)'
  BY DEF CycleInv, ExamsKnown, LoopShape, Forward, Same
<1>2. Covered(c)'
  <2> SUFFICES ASSUME NEW a \in Attempts, status'[a] = "IN_PROGRESS",
                      ExamOf[a] \in ends'[c] \cup {exam'[c]}
               PROVE  a \in swallowed' \cup lateStarts' \/ Pending(c, a)'
    BY DEF Covered
  <2>1. Pending(c, a)' = Pending(c, a)
    BY DEF Pending, Same
  <2>2. ExamOf[a] \in ended'
    BY LifecycleAssumption DEF CycleInv, ExamsKnown, Forward, Same
  <2> QED
    BY <2>1, <2>2 DEF CycleInv, Covered, Forward, Same
<1> QED
  BY <1>1, <1>2 DEF CycleInv

\* Every step keeps EndInv.
LEMMA EndStep == TypeOK /\ EndInv /\ [Next]_vars => EndInv'
<1> SUFFICES ASSUME TypeOK, EndInv, [Next]_vars PROVE EndInv'
  OBVIOUS
<1>1. Forward /\ \A c \in Cycles : Same(c) \/ Own(c)
  BY ProgressStep DEF Progress
<1>2. \A c \in Cycles : CycleInv(c)'
  BY <1>1, OwnStep, SameStep DEF EndInv
<1>3. processed' \subseteq ended' /\ EndSubmitsAll'
  <2>1. CASE processed' = processed
    BY <1>1, <2>1 DEF EndInv, EndSubmitsAll, Forward
  <2>2. ASSUME NEW c \in Cycles, MarkProcessed(c)
        PROVE  processed' \subseteq ended' /\ EndSubmitsAll'
    <3>1. exam[c] \in ended /\ processed' = processed \cup {exam[c]}
      BY <2>2, LifecycleAssumption
         DEF MarkProcessed, EndInv, CycleInv, ExamsKnown, TypeOK, HandlerTypes
    <3>2. \A a \in Attempts : ExamOf[a] = exam[c] => ~Pending(c, a)
      BY <2>2 DEF MarkProcessed, Pending, Flushing
    <3>3. \A a \in Attempts :
            ExamOf[a] = exam[c] /\ status[a] = "IN_PROGRESS"
              => a \in swallowed \cup lateStarts
      BY <3>2 DEF EndInv, CycleInv, Covered
    <3>4. UNCHANGED <<status, swallowed, lateStarts, ended>>
      BY <2>2 DEF MarkProcessed, rowVars, histVars, timeVars
    <3> QED
      BY <3>1, <3>3, <3>4 DEF EndInv, EndSubmitsAll
  <2> QED
    BY <1>1, <2>1, <2>2 DEF Forward
<1> QED
  BY <1>2, <1>3 DEF EndInv

\* EndSubmitsAll for every number of exams, attempts, instances and failures: an
\* exam is marked as processed only after all its attempts were submitted.
THEOREM EndSubmitsAllAlways == Spec => []EndSubmitsAll
<1>1. Init => EndInv
  BY LifecycleAssumption
     DEF Init, EndInv, CycleInv, ExamsKnown, LoopShape, Covered, EndSubmitsAll,
         Handlers, Submitting, Flushing
<1>2. EndInv => EndSubmitsAll
  BY DEF EndInv
<1> QED
  BY <1>1, <1>2, TypeCorrect, EndStep, PTL DEF Spec

-----------------------------------------------------------------------------
(* The first final job of an attempt                                       *)

(* It has every save acknowledged before its submission began, for every   *)
(* number of clients, submissions, cycles and failures.  Until a first job *)
(* exists nobody clears the buffer (JobFirst), so the buffer keeps what    *)
(* was acknowledged (BufferCurrent), and a handler that falls back to the  *)
(* row it read early does so only when nothing was acknowledged then       *)
(* (HandlerCurrent).                                                       *)

\* No save is acknowledged, buffered or under way that the client has not sent.
SavesKnown ==
  /\ \A a \in Attempts : accepted[a] <= edits[a] /\ buffer[a] <= edits[a]
  /\ \A s \in Saves : saver[s].at \in {"write", "mark"}
                        => saver[s].files <= edits[saver[s].att]

\* A handler clears the buffer of an attempt only when its job was added.
JobFirst ==
  \A h \in Submits \cup Cycles :
    pc[h] \in {"grading", "clear", "clean"} => jobs[att[h]] # <<>>

\* Nothing was graded yet and no save overtook another.
Untouched(a) == a \notin overtaken /\ jobs[a] = <<>>

\* Until then the buffer has what was acknowledged or is about to be.
BufferCurrent ==
  \A a \in Attempts :
    Untouched(a)
      => /\ accepted[a] > 0 => buffer[a] >= accepted[a]
         /\ \A s \in Saves : saver[s].at = "mark" /\ saver[s].att = a
                               => buffer[a] >= saver[s].files

\* A handler on its way to the first job does not fall behind its floor.
HandlerCurrent ==
  \A h \in Submits \cup Cycles :
    /\ pc[h] \in {"stop", "get"} \cup Flushing /\ Untouched(att[h])
         => /\ floor[h] <= accepted[att[h]]
            /\ out[h] # Nothing => out[h] >= floor[h]
    /\ pc[h] \in {"store", "enqueue"} /\ Untouched(att[h]) => out[h] >= floor[h]

CurrentInv ==
  SavesKnown /\ JobFirst /\ BufferCurrent /\ HandlerCurrent /\ FirstJobIsCurrent

----------------------------------------------------------------------------

\* Each part depends on a few variables only.
LEMMA CurrentFrame ==
  /\ SavesKnown /\ UNCHANGED <<accepted, edits, buffer, saver>> => SavesKnown'
  /\ JobFirst /\ UNCHANGED <<pc, att, jobs>> => JobFirst'
  /\ BufferCurrent /\ UNCHANGED <<accepted, buffer, saver, overtaken, jobs>>
       => BufferCurrent'
  /\ HandlerCurrent /\ UNCHANGED <<pc, att, floor, out, accepted, overtaken, jobs>>
       => HandlerCurrent'
  /\ FirstJobIsCurrent /\ UNCHANGED <<jobs, overtaken>> => FirstJobIsCurrent'
<1>1. SavesKnown /\ UNCHANGED <<accepted, edits, buffer, saver>> => SavesKnown'
  BY DEF SavesKnown
<1>2. JobFirst /\ UNCHANGED <<pc, att, jobs>> => JobFirst'
  BY DEF JobFirst
<1>3. BufferCurrent /\ UNCHANGED <<accepted, buffer, saver, overtaken, jobs>>
        => BufferCurrent'
  BY DEF BufferCurrent, Untouched
<1>4. /\ HandlerCurrent
      /\ UNCHANGED <<pc, att, floor, out, accepted, overtaken, jobs>>
      => HandlerCurrent'
  BY DEF HandlerCurrent, Untouched
<1>5. FirstJobIsCurrent /\ UNCHANGED <<jobs, overtaken>> => FirstJobIsCurrent'
  BY DEF FirstJobIsCurrent
<1> QED
  BY <1>1, <1>2, <1>3, <1>4, <1>5

\* What Append does to the head of a sequence.
LEMMA AppendFirst ==
  ASSUME NEW S, NEW q \in Seq(S), NEW e \in S
  PROVE  /\ Append(q, e) # <<>>
         /\ q # <<>> => Append(q, e)[1] = q[1]
         /\ q = <<>> => Append(q, e)[1] = e
<1>1. Len(q) \in Nat /\ Len(Append(q, e)) = Len(q) + 1
  OBVIOUS
<1>2. Append(q, e) # <<>>
  BY <1>1
<1>3. CASE q # <<>>
  <2>1. 1 \in 1..Len(q)
    BY <1>1, <1>3
  <2> QED
    BY <1>2, <1>3, <2>1
<1>4. CASE q = <<>>
  BY <1>2, <1>4
<1> QED
  BY <1>3, <1>4

\* A new job leaves the first one where it was, and every other attempt alone.
LEMMA Appended ==
  ASSUME TypeOK, NEW h \in Submits \cup Cycles, AddJob(h), NEW a \in Attempts
  PROVE  /\ jobs'[a] # <<>> <=> jobs[a] # <<>> \/ a = att[h]
         /\ jobs[a] # <<>> => jobs'[a][1] = jobs[a][1]
         /\ a = att[h] /\ jobs[a] = <<>>
              => jobs'[a][1] = [files |-> out[h], floor |-> floor[h]]
<1> DEFINE j == [files |-> out[h], floor |-> floor[h]]
<1>1. /\ jobs' = [jobs EXCEPT ![att[h]] = Append(jobs[att[h]], j)]
      /\ out[h] \in Nat /\ floor[h] \in Nat /\ pc[h] = "enqueue"
  BY DEF AddJob, TypeOK, HandlerTypes, Handlers
<1>2. j \in Job /\ jobs[a] \in Seq(Job) /\ jobs \in [Attempts -> Seq(Job)]
  BY <1>1 DEF Job, TypeOK, QueueTypes
<1>3. CASE a = att[h]
  <2>1. jobs'[a] = Append(jobs[a], j)
    BY <1>1, <1>2, <1>3
  <2> HIDE DEF j
  <2>2. /\ Append(jobs[a], j) # <<>>
        /\ jobs[a] # <<>> => Append(jobs[a], j)[1] = jobs[a][1]
        /\ jobs[a] = <<>> => Append(jobs[a], j)[1] = j
    BY <1>2, AppendFirst
  <2>3. /\ jobs'[a] # <<>>
        /\ jobs[a] # <<>> => jobs'[a][1] = jobs[a][1]
        /\ jobs[a] = <<>> => jobs'[a][1] = j
    BY <2>1, <2>2
  <2> QED
    BY <1>3, <2>3 DEF j
<1>4. CASE a # att[h]
  BY <1>1, <1>2, <1>4
<1> QED
  BY <1>3, <1>4

\* A handler that takes an attempt starts with the newest acknowledged save as
\* its floor; the others notice nothing.
LEMMA TakeCurrent ==
  ASSUME TypeOK, JobFirst, HandlerCurrent, NEW h \in Submits \cup Cycles,
         NEW a \in Attempts, NEW f, NEW o \in Files,
         NEW p \in {"stop", "flushGet"},
         Take(h, a, f, o), pc' = [pc EXCEPT ![h] = p],
         o # Nothing => o >= accepted[a],
         UNCHANGED <<jobs, overtaken, accepted>>
  PROVE  JobFirst' /\ HandlerCurrent'
<1> DEFINE Cur(g) == /\ /\ pc[g] \in {"stop", "get"} \cup Flushing
                        /\ Untouched(att[g])
                       => /\ floor[g] <= accepted[att[g]]
                          /\ out[g] # Nothing => out[g] >= floor[g]
                     /\ pc[g] \in {"store", "enqueue"} /\ Untouched(att[g])
                       => out[g] >= floor[g]
           First(g) == pc[g] \in {"grading", "clear", "clean"}
                         => jobs[att[g]] # <<>>
<1> SUFFICES ASSUME NEW g \in Submits \cup Cycles PROVE Cur(g)' /\ First(g)'
  BY DEF HandlerCurrent, JobFirst
<1>0. Cur(g) /\ First(g)
  BY DEF HandlerCurrent, JobFirst
<1>1. g \in Handlers /\ h \in Handlers
  BY DEF Handlers
<1>2. CASE g = h
  <2>1. /\ pc'[g] = p /\ att'[g] = a /\ floor'[g] = accepted[a] /\ out'[g] = o
    BY <1>1, <1>2 DEF Take, TypeOK, HandlerTypes
  <2>2. accepted[a] \in Nat /\ accepted' = accepted
    BY DEF TypeOK, HistoryTypes
  <2> QED
    BY <2>1, <2>2
<1>3. CASE g # h
  <2>1. /\ pc'[g] = pc[g] /\ att'[g] = att[g] /\ floor'[g] = floor[g]
        /\ out'[g] = out[g]
    BY <1>1, <1>3 DEF Take, TypeOK, HandlerTypes
  <2> QED
    BY <1>0, <2>1 DEF Untouched
<1> QED
  BY <1>2, <1>3

\* A step of a cycle between two submissions is none of their business.
LEMMA BetweenSubmissions ==
  ASSUME TypeOK, JobFirst, HandlerCurrent, NEW c \in Cycles,
         NEW p \in {"idle", "window", "exams", "attempts", "overdue"},
         pc' = [pc EXCEPT ![c] = p],
         UNCHANGED <<att, floor, out, accepted, overtaken, jobs>>
  PROVE  JobFirst' /\ HandlerCurrent'
<1>1. \A h \in Submits \cup Cycles : pc'[h] = pc[h] \/ pc'[h] = p
  BY DEF TypeOK, HandlerTypes, Handlers
<1>2. JobFirst'
  BY <1>1 DEF JobFirst
<1>3. HandlerCurrent'
  BY <1>1 DEF HandlerCurrent, Untouched, Flushing
<1> QED
  BY <1>2, <1>3

\* After SetGrading a handler clears the buffer or returns to its loop.
LEMMA Graded ==
  ASSUME TypeOK, NEW h \in Submits \cup Cycles, SetGrading(h)
  PROVE  \A g \in Submits \cup Cycles :
           \/ pc'[g] = pc[g] /\ att'[g] = att[g] /\ out'[g] = out[g]
              /\ floor'[g] = floor[g]
           \/ pc'[g] \in {"attempts", "overdue"}
           \/ pc'[g] = "clear" /\ pc[g] = "grading" /\ att'[g] = att[g]
<1> USE DEF TypeOK, HandlerTypes, Handlers, workVars
<1>1. CASE h \in Submits
  BY <1>1 DEF SetGrading
<1>2. CASE h \notin Submits
  BY <1>2 DEF SetGrading, Leave, BackToLoop
<1> QED
  BY <1>1, <1>2

\* The types a save relies on.
SaveTypes ==
  /\ accepted \in [Attempts -> Nat] /\ edits \in [Attempts -> Nat]
  /\ buffer \in [Attempts -> Int]
  /\ saver \in [Saves -> [at : {"new", "write", "mark", "done"},
                          att : Attempts \cup {NoAttempt}, files : Nat]]
  /\ \A s \in Saves :
       saver[s].at \in {"write", "mark"} => saver[s].att \in Attempts

\* They are among the types of the module.
LEMMA SaveTypesCorrect == TypeOK => SaveTypes
  BY DEF TypeOK, SaveTypes, HistoryTypes, ClientTypes, BufferTypes, Files, Nothing

\* A buffer that is written grows, unless a newer save is overtaken.
LEMMA WriteSaveCurrent ==
  ASSUME SaveTypes, SavesKnown, BufferCurrent, NEW s \in Saves, WriteSave(s)
  PROVE  SavesKnown' /\ BufferCurrent'
<1> DEFINE a == saver[s].att
           v == saver[s].files
<1>1. /\ a \in Attempts /\ v \in Nat /\ v <= edits[a]
      /\ buffer' = [buffer EXCEPT ![a] = v]
      /\ saver' = [saver EXCEPT ![s].at = "mark"]
      /\ overtaken' = IF v < buffer[a] THEN overtaken \cup {a} ELSE overtaken
      /\ UNCHANGED <<accepted, edits, jobs>>
  BY DEF WriteSave, SaveTypes, SavesKnown, queueVars
<1> HIDE DEF a, v
<1>2. ASSUME NEW t \in Saves
      PROVE  /\ saver'[t].att = saver[t].att /\ saver'[t].files = saver[t].files
             /\ t # s => saver'[t].at = saver[t].at
  BY <1>1 DEF SaveTypes
<1>3. SavesKnown'
  <2>1. ASSUME NEW b \in Attempts
        PROVE  accepted'[b] <= edits'[b] /\ buffer'[b] <= edits'[b]
    <3>1. accepted[b] <= edits[b] /\ buffer[b] <= edits[b]
      BY DEF SavesKnown
    <3>2. (buffer'[b] = v /\ b = a) \/ buffer'[b] = buffer[b]
      BY <1>1 DEF SaveTypes
    <3> QED
      BY <1>1, <3>1, <3>2
  <2>2. ASSUME NEW t \in Saves, saver'[t].at \in {"write", "mark"}
        PROVE  saver'[t].files <= edits'[saver'[t].att]
    <3>1. CASE t = s
      BY <1>1, <1>2, <3>1 DEF a, v
    <3>2. CASE t # s
      BY <1>1, <1>2, <2>2, <3>2 DEF SavesKnown
    <3> QED
      BY <3>1, <3>2
  <2> QED
    BY <2>1, <2>2 DEF SavesKnown
<1>4. ASSUME NEW b \in Attempts, Untouched(b)'
      PROVE  /\ Untouched(b) /\ buffer'[b] >= buffer[b]
             /\ buffer[b] \in Int /\ buffer'[b] \in Int
  <2>1. CASE b = a
    BY <1>1, <1>4, <2>1 DEF Untouched, SaveTypes
  <2>2. CASE b # a
    BY <1>1, <1>4, <2>2 DEF Untouched, SaveTypes
  <2> QED
    BY <2>1, <2>2
<1>5. ASSUME NEW b \in Attempts, Untouched(b)', accepted'[b] > 0
      PROVE  buffer'[b] >= accepted'[b]
  <2>1. accepted'[b] = accepted[b] /\ accepted[b] \in Nat
    BY <1>1 DEF SaveTypes
  <2>2. buffer[b] >= accepted[b]
    BY <1>4, <1>5, <2>1 DEF BufferCurrent
  <2> QED
    BY <1>4, <1>5, <2>1, <2>2
<1>6. ASSUME NEW b \in Attempts, Untouched(b)', NEW t \in Saves,
             saver'[t].at = "mark", saver'[t].att = b
      PROVE  buffer'[b] >= saver'[t].files
  <2>1. CASE t = s
    <3>1. b = a /\ saver'[t].files = v
      BY <1>2, <1>6, <2>1 DEF a, v
    <3> QED
      BY <1>1, <3>1 DEF SaveTypes
  <2>2. CASE t # s
    <3>1. buffer[b] >= saver[t].files
      BY <1>2, <1>4, <1>6, <2>2 DEF BufferCurrent
    <3> QED
      BY <1>2, <1>4, <1>6, <3>1 DEF SaveTypes
  <2> QED
    BY <2>1, <2>2
<1> QED
  BY <1>3, <1>5, <1>6 DEF BufferCurrent

\* Over the socket the newest save is written at once.
LEMMA SaveOverSocketCurrent ==
  ASSUME SaveTypes, SavesKnown, BufferCurrent, NEW s \in Saves,
         NEW a \in Attempts, SaveOverSocket(s, a)
  PROVE  SavesKnown' /\ BufferCurrent'
<1> DEFINE v == edits[a] + 1
<1>1. /\ buffer' = [buffer EXCEPT ![a] = v]
      /\ edits' = [edits EXCEPT ![a] = v]
      /\ saver' = [saver EXCEPT ![s] = [at |-> "mark", att |-> a, files |-> v]]
      /\ UNCHANGED <<accepted, overtaken, jobs>>
  BY DEF SaveOverSocket, SaveTypes, queueVars, histVars
<1>2. v \in Nat /\ accepted[a] < v /\ buffer[a] < v
  BY DEF SaveTypes, SavesKnown
<1>3. ASSUME NEW t \in Saves
      PROVE  \/ saver'[t] = saver[t]
             \/ saver'[t].att = a /\ saver'[t].files = v
  BY <1>1 DEF SaveTypes
<1>4. ASSUME NEW b \in Attempts
      PROVE  /\ b = a => buffer'[b] = v /\ edits'[b] = v
             /\ b # a => buffer'[b] = buffer[b] /\ edits'[b] = edits[b]
             /\ accepted'[b] = accepted[b] /\ accepted[b] \in Nat
             /\ buffer[b] \in Int /\ edits[b] \in Nat
             /\ edits[b] <= edits'[b] /\ buffer[b] <= buffer'[b]
  <2>1. accepted[b] \in Nat /\ buffer[b] \in Int /\ edits[b] \in Nat
    BY DEF SaveTypes
  <2> HIDE DEF v
  <2>2. /\ b = a => buffer'[b] = v /\ edits'[b] = v
        /\ b # a => buffer'[b] = buffer[b] /\ edits'[b] = edits[b]
    BY <1>1 DEF SaveTypes
  <2>3. edits[a] <= v
    BY <2>1 DEF v, SaveTypes
  <2> QED
    BY <1>1, <1>2, <2>1, <2>2, <2>3
<1> HIDE DEF v
<1>5. SavesKnown'
  <2>1. ASSUME NEW b \in Attempts
        PROVE  accepted'[b] <= edits'[b] /\ buffer'[b] <= edits'[b]
    BY <1>2, <1>4 DEF SavesKnown
  <2>2. ASSUME NEW t \in Saves, saver'[t].at \in {"write", "mark"}
        PROVE  saver'[t].files <= edits'[saver'[t].att]
    <3>1. CASE saver'[t] = saver[t]
      <4>1. /\ saver[t].att \in Attempts /\ saver[t].files \in Nat
            /\ saver[t].files <= edits[saver[t].att]
        BY <2>2, <3>1 DEF SaveTypes, SavesKnown
      <4>2. /\ edits[saver[t].att] \in Nat /\ edits'[saver[t].att] \in Int
            /\ edits[saver[t].att] <= edits'[saver[t].att]
        BY <1>2, <1>4, <4>1
      <4> QED
        BY <3>1, <4>1, <4>2
    <3>2. CASE saver'[t].att = a /\ saver'[t].files = v
      BY <1>2, <1>4, <3>2
    <3> QED
      BY <1>3, <3>1, <3>2
  <2> QED
    BY <2>1, <2>2 DEF SavesKnown
<1>6. ASSUME NEW b \in Attempts, Untouched(b)', accepted'[b] > 0
      PROVE  buffer'[b] >= accepted'[b]
  BY <1>1, <1>2, <1>4, <1>6 DEF BufferCurrent, Untouched
<1>7. ASSUME NEW b \in Attempts, Untouched(b)', NEW t \in Saves,
             saver'[t].at = "mark", saver'[t].att = b
      PROVE  buffer'[b] >= saver'[t].files
  <2>1. CASE saver'[t] = saver[t]
    <3>1. buffer[b] >= saver[t].files /\ saver[t].files \in Nat
      BY <1>1, <1>7, <2>1 DEF BufferCurrent, Untouched, SaveTypes
    <3>2. buffer'[b] >= buffer[b] /\ buffer[b] \in Int /\ buffer'[b] \in Int
      BY <1>2, <1>4
    <3> QED
      BY <2>1, <3>1, <3>2
  <2>2. CASE saver'[t].att = a /\ saver'[t].files = v
    BY <1>2, <1>4, <1>7, <2>2
  <2> QED
    BY <1>3, <2>1, <2>2
<1> QED
  BY <1>5, <1>6, <1>7 DEF BufferCurrent

\* Every step keeps the invariant.
LEMMA CurrentStep == TypeOK /\ CurrentInv /\ [Next]_vars => CurrentInv'
<1> SUFFICES ASSUME TypeOK, CurrentInv, [Next]_vars PROVE CurrentInv'
  OBVIOUS
<1> USE LifecycleAssumption
    DEF TypeOK, RowTypes, BufferTypes, QueueTypes, ClientTypes, HandlerTypes,
        LoopTypes, HistoryTypes, Handlers, Files, Nothing, rowVars, queueVars,
        clientVars, workVars, loopVars, histVars, Fault
<1>1. ASSUME NEW a \in Attempts, CheckStart(a) PROVE CurrentInv'
  BY <1>1, CurrentFrame DEF CurrentInv, CheckStart
<1>2. ASSUME NEW a \in Attempts, InsertAttempt(a) PROVE CurrentInv'
  BY <1>2, CurrentFrame DEF CurrentInv, InsertAttempt
<1>3. ASSUME NEW s \in Saves, NEW a \in Attempts, ReceiveSave(s, a)
       PROVE  CurrentInv'
  <2>1. SavesKnown'
    <3>1. /\ edits' = [edits EXCEPT ![a] = edits[a] + 1]
          /\ saver' = [saver EXCEPT ![s] = [at |-> "write", att |-> a,
                                            files |-> edits[a] + 1]]
          /\ UNCHANGED <<accepted, buffer>>
      BY <1>3 DEF ReceiveSave
    <3>2. \A b \in Attempts : edits[b] \in Nat /\ edits'[b] \in Nat
                               /\ edits[b] <= edits'[b]
      BY <3>1
    <3>3. \A b \in Attempts : accepted'[b] <= edits'[b] /\ buffer'[b] <= edits'[b]
      <4> SUFFICES ASSUME NEW b \in Attempts
                   PROVE  accepted'[b] <= edits'[b] /\ buffer'[b] <= edits'[b]
        OBVIOUS
      <4>1. /\ accepted[b] \in Int /\ buffer[b] \in Int
            /\ accepted[b] <= edits[b] /\ buffer[b] <= edits[b]
        BY DEF CurrentInv, SavesKnown
      <4>2. accepted'[b] = accepted[b] /\ buffer'[b] = buffer[b]
        BY <3>1
      <4> QED
        BY <3>2, <4>1, <4>2
    <3>4. ASSUME NEW t \in Saves, saver'[t].at \in {"write", "mark"}
          PROVE  saver'[t].files <= edits'[saver'[t].att]
      <4>1. CASE t = s
        BY <3>1, <4>1
      <4>2. CASE t # s
        <5>1. saver'[t] = saver[t] /\ saver[t].files \in Nat
          BY <3>1, <4>2
        <5>2. saver[t].att \in Attempts /\ saver[t].files <= edits[saver[t].att]
          BY <3>4, <5>1 DEF CurrentInv, SavesKnown
        <5> QED
          BY <3>2, <5>1, <5>2
      <4> QED
        BY <4>1, <4>2
    <3> QED
      BY <3>3, <3>4 DEF SavesKnown
  <2>2. BufferCurrent'
    <3>1. UNCHANGED <<accepted, buffer, overtaken, jobs>>
      BY <1>3 DEF ReceiveSave
    <3>2. \A t \in Saves : saver'[t].at = "mark" => saver'[t] = saver[t]
      BY <1>3 DEF ReceiveSave
    <3> QED
      BY <3>1, <3>2 DEF CurrentInv, BufferCurrent, Untouched
  <2> QED
    BY <1>3, <2>1, <2>2, CurrentFrame DEF CurrentInv, ReceiveSave
<1>4. ASSUME NEW s \in Saves, WriteSave(s) PROVE CurrentInv'
  <2>1. SavesKnown' /\ BufferCurrent'
    BY <1>4, WriteSaveCurrent, SaveTypesCorrect DEF CurrentInv
  <2>2. UNCHANGED <<pc, att, floor, out, accepted, jobs>>
    BY <1>4 DEF WriteSave
  <2>3. \A a \in Attempts : a \in overtaken => a \in overtaken'
    BY <1>4 DEF WriteSave
  <2>4. HandlerCurrent'
    <3>1. \A a : Untouched(a)' => Untouched(a)
      BY <1>4 DEF Untouched, WriteSave
    <3> QED
      BY <2>2, <3>1 DEF CurrentInv, HandlerCurrent
  <2>5. FirstJobIsCurrent'
    BY <2>2, <2>3 DEF CurrentInv, FirstJobIsCurrent
  <2>6. JobFirst'
    BY <2>2, CurrentFrame DEF CurrentInv
  <2> QED
    BY <2>1, <2>4, <2>5, <2>6 DEF CurrentInv
<1>5. ASSUME NEW s \in Saves, NEW a \in Attempts, SaveOverSocket(s, a)
       PROVE  CurrentInv'
  <2>1. SavesKnown' /\ BufferCurrent'
    BY <1>5, SaveOverSocketCurrent, SaveTypesCorrect DEF CurrentInv
  <2> QED
    BY <1>5, <2>1, CurrentFrame DEF CurrentInv, SaveOverSocket
<1>6. ASSUME NEW s \in Saves, MarkDirty(s) PROVE CurrentInv'
  <2>1. SavesKnown'
    BY <1>6 DEF CurrentInv, SavesKnown, MarkDirty
  <2>2. BufferCurrent'
    BY <1>6 DEF CurrentInv, BufferCurrent, MarkDirty, Untouched, SavesKnown
  <2>3. HandlerCurrent'
    BY <1>6 DEF CurrentInv, HandlerCurrent, MarkDirty, Untouched,
       Submitting, Flushing
  <2> QED
    BY <1>6, <2>1, <2>2, <2>3, CurrentFrame DEF CurrentInv, MarkDirty
<1>7. ASSUME NEW h \in Handlers, FlushGet(h) PROVE CurrentInv'
  <2>1. JobFirst'
    BY <1>7 DEF CurrentInv, JobFirst, FlushGet, AfterFlush, Submitting,
       Flushing
  <2>2. HandlerCurrent'
    BY <1>7 DEF CurrentInv, HandlerCurrent, FlushGet, AfterFlush,
       Untouched, Submitting, Flushing
  <2> QED
    BY <1>7, <2>1, <2>2, CurrentFrame DEF CurrentInv, FlushGet
<1>8. ASSUME NEW h \in Handlers, FlushUpdate(h) PROVE CurrentInv'
  <2>1. JobFirst'
    BY <1>8 DEF CurrentInv, JobFirst, FlushUpdate, Submitting, Flushing
  <2>2. HandlerCurrent'
    BY <1>8 DEF CurrentInv, HandlerCurrent, FlushUpdate, Untouched,
       Submitting, Flushing
  <2> QED
    BY <1>8, <2>1, <2>2, CurrentFrame DEF CurrentInv, FlushUpdate
<1>9. ASSUME NEW h \in Handlers, FlushClean(h) PROVE CurrentInv'
  <2>1. JobFirst'
    BY <1>9 DEF CurrentInv, JobFirst, FlushClean, AfterFlush, Submitting,
       Flushing
  <2>2. HandlerCurrent'
    BY <1>9 DEF CurrentInv, HandlerCurrent, FlushClean, AfterFlush,
       Untouched, Submitting, Flushing
  <2> QED
    BY <1>9, <2>1, <2>2, CurrentFrame DEF CurrentInv, FlushClean
<1>10. ASSUME NEW h \in Handlers, GetFromBuffer(h) PROVE CurrentInv'
  <2>1. JobFirst'
    BY <1>10 DEF CurrentInv, JobFirst, GetFromBuffer, Submitting, Flushing
  <2>2. HandlerCurrent'
    <3> DEFINE o == IF out[h] # Nothing THEN out[h]
                    ELSE IF buffer[att[h]] # Nothing THEN buffer[att[h]]
                         ELSE base[h]
    <3>1. /\ att[h] \in Attempts /\ pc[h] = "get"
          /\ out' = [out EXCEPT ![h] = o] /\ pc' = [pc EXCEPT ![h] = "store"]
          /\ UNCHANGED <<att, floor, accepted, overtaken, jobs>>
      BY <1>10 DEF GetFromBuffer, Submitting, Flushing
    <3>2. ASSUME h \in Submits \cup Cycles, Untouched(att[h]) PROVE o >= floor[h]
      <4>1. /\ floor[h] <= accepted[att[h]]
            /\ out[h] # Nothing => out[h] >= floor[h]
        BY <3>1, <3>2 DEF CurrentInv, HandlerCurrent
      <4>2. accepted[att[h]] > 0 => buffer[att[h]] >= accepted[att[h]]
        BY <3>1, <3>2 DEF CurrentInv, BufferCurrent
      <4> QED
        BY <3>1, <4>1, <4>2
    <3> QED
      BY <3>1, <3>2 DEF CurrentInv, HandlerCurrent, Untouched, Flushing
  <2> QED
    BY <1>10, <2>1, <2>2, CurrentFrame DEF CurrentInv, GetFromBuffer
<1>11. ASSUME NEW h \in Handlers, Store(h) PROVE CurrentInv'
  <2>1. JobFirst'
    BY <1>11 DEF CurrentInv, JobFirst, Store, Submitting, Flushing
  <2>2. HandlerCurrent'
    BY <1>11 DEF CurrentInv, HandlerCurrent, Store, Untouched, Submitting,
       Flushing
  <2> QED
    BY <1>11, <2>1, <2>2, CurrentFrame DEF CurrentInv, Store
<1>12. ASSUME NEW h \in Submits \cup Cycles, AddJob(h) PROVE CurrentInv'
  <2>1. JobFirst'
    <3> SUFFICES ASSUME NEW g \in Submits \cup Cycles,
                        pc'[g] \in {"grading", "clear", "clean"}
                 PROVE  jobs'[att[g]] # <<>>
      BY <1>12 DEF JobFirst, AddJob
    <3>1. pc[h] = "enqueue" /\ pc' = [pc EXCEPT ![h] = "grading"]
      BY <1>12 DEF AddJob
    <3>2. att[g] \in Attempts /\ (g = h \/ jobs[att[g]] # <<>>)
      BY <3>1 DEF CurrentInv, JobFirst, Submitting
    <3> QED
      BY <1>12, <3>2, Appended
  <2>2. BufferCurrent'
    <3>1. \A a \in Attempts : Untouched(a)' => Untouched(a)
      BY <1>12, Appended DEF Untouched, AddJob
    <3> QED
      BY <1>12, <3>1 DEF CurrentInv, BufferCurrent, AddJob
  <2>3. HandlerCurrent'
    <3>1. \A a \in Attempts : Untouched(a)' => Untouched(a)
      BY <1>12, Appended DEF Untouched, AddJob
    <3>2. /\ pc' = [pc EXCEPT ![h] = "grading"]
          /\ UNCHANGED <<att, floor, out, accepted>>
      BY <1>12 DEF AddJob
    <3> QED
      BY <3>1, <3>2 DEF CurrentInv, HandlerCurrent, Submitting, Flushing
  <2>4. FirstJobIsCurrent'
    <3>1. /\ att[h] \in Attempts /\ pc[h] = "enqueue" /\ overtaken' = overtaken
          /\ out[h] \in Nat /\ floor[h] \in Nat
      BY <1>12 DEF AddJob, Submitting
    <3>2. Untouched(att[h]) => out[h] >= floor[h]
      BY <1>12, <3>1 DEF CurrentInv, HandlerCurrent
    <3>3. ASSUME NEW a \in Attempts, jobs'[a] # <<>>, a \notin overtaken'
          PROVE  jobs'[a][1].files >= jobs'[a][1].floor
      <4>1. CASE jobs[a] = <<>>
        <5>1. a = att[h]
          BY <1>12, <3>3, <4>1, Appended
        <5>2. jobs'[a][1] = [files |-> out[h], floor |-> floor[h]]
          BY <1>12, <4>1, <5>1, Appended
        <5> QED
          BY <3>1, <3>2, <3>3, <4>1, <5>1, <5>2 DEF Untouched
      <4>2. CASE jobs[a] # <<>>
        BY <1>12, <3>1, <3>3, <4>2, Appended DEF CurrentInv, FirstJobIsCurrent
      <4> QED
        BY <4>1, <4>2
    <3> QED
      BY <3>3 DEF FirstJobIsCurrent
  <2> QED
    BY <1>12, <2>1, <2>2, <2>3, <2>4, CurrentFrame DEF CurrentInv, AddJob
<1>13. ASSUME NEW h \in Submits \cup Cycles, SetGrading(h) PROVE CurrentInv'
  <2>1. JobFirst'
    BY <1>13, Graded DEF CurrentInv, JobFirst, SetGrading
  <2>2. HandlerCurrent'
    BY <1>13, Graded DEF CurrentInv, HandlerCurrent, SetGrading, Untouched, Flushing
  <2> QED
    BY <1>13, <2>1, <2>2, CurrentFrame DEF CurrentInv, SetGrading
<1>14. ASSUME NEW h \in Submits, NEW a \in Attempts,
              NEW body \in {Nothing, edits[a]}, ReceiveSubmit(h, a, body)
       PROVE  CurrentInv'
  <2>1. body \in Files /\ (body # Nothing => body >= accepted[a])
    BY DEF CurrentInv, SavesKnown
  <2>2. JobFirst' /\ HandlerCurrent'
    BY <1>14, <2>1, TakeCurrent DEF CurrentInv, ReceiveSubmit
  <2> QED
    BY <1>14, <2>2, CurrentFrame DEF CurrentInv, ReceiveSubmit
<1>15. ASSUME NEW h \in Submits, StopTimer(h) PROVE CurrentInv'
  <2>1. JobFirst'
    BY <1>15 DEF CurrentInv, JobFirst, StopTimer, Submitting, Flushing
  <2>2. HandlerCurrent'
    BY <1>15 DEF CurrentInv, HandlerCurrent, StopTimer, Untouched,
       Submitting, Flushing
  <2> QED
    BY <1>15, <2>1, <2>2, CurrentFrame DEF CurrentInv, StopTimer
<1>16. ASSUME NEW h \in Submits, ClearBuffer(h) PROVE CurrentInv'
  <2>1. SavesKnown'
    BY <1>16 DEF CurrentInv, SavesKnown, ClearBuffer
  <2>2. JobFirst'
    BY <1>16 DEF CurrentInv, JobFirst, ClearBuffer, Submitting, Flushing
  <2>3. BufferCurrent'
    BY <1>16 DEF CurrentInv, BufferCurrent, ClearBuffer, Untouched,
       JobFirst
  <2>4. HandlerCurrent'
    BY <1>16 DEF CurrentInv, HandlerCurrent, ClearBuffer, Untouched,
       Submitting, Flushing, JobFirst
  <2> QED
    BY <1>16, <2>1, <2>2, <2>3, <2>4, CurrentFrame DEF CurrentInv,
       ClearBuffer
<1>17. ASSUME NEW h \in Submits, ClearMark(h) PROVE CurrentInv'
  <2>1. JobFirst'
    BY <1>17 DEF CurrentInv, JobFirst, ClearMark, Leave, Submitting,
       Flushing
  <2>2. HandlerCurrent'
    BY <1>17 DEF CurrentInv, HandlerCurrent, ClearMark, Leave, Untouched,
       Submitting, Flushing
  <2> QED
    BY <1>17, <2>1, <2>2, CurrentFrame DEF CurrentInv, ClearMark
<1>18. ASSUME NEW f \in Flushers, StartFlush(f) PROVE CurrentInv'
  <2>1. JobFirst'
    BY <1>18 DEF CurrentInv, JobFirst, StartFlush, Submitting, Flushing
  <2>2. HandlerCurrent'
    BY <1>18 DEF CurrentInv, HandlerCurrent, StartFlush, Untouched,
       Submitting, Flushing
  <2> QED
    BY <1>18, <2>1, <2>2, CurrentFrame DEF CurrentInv, StartFlush
<1>19. ASSUME NEW f \in Flushers, FlushNext(f) PROVE CurrentInv'
  <2>1. JobFirst'
    BY <1>19 DEF CurrentInv, JobFirst, FlushNext, Submitting, Flushing
  <2>2. HandlerCurrent'
    BY <1>19 DEF CurrentInv, HandlerCurrent, FlushNext, Untouched,
       Submitting, Flushing
  <2> QED
    BY <1>19, <2>1, <2>2, CurrentFrame DEF CurrentInv, FlushNext
<1>20. ASSUME NEW f \in Flushers, EndFlush(f) PROVE CurrentInv'
  <2>1. JobFirst'
    BY <1>20 DEF CurrentInv, JobFirst, EndFlush, Leave, Submitting,
       Flushing
  <2>2. HandlerCurrent'
    BY <1>20 DEF CurrentInv, HandlerCurrent, EndFlush, Leave, Untouched,
       Submitting, Flushing
  <2> QED
    BY <1>20, <2>1, <2>2, CurrentFrame DEF CurrentInv, EndFlush
<1>21. ASSUME NEW c \in Cycles, StartCycle(c) PROVE CurrentInv'
  <2>1. JobFirst' /\ HandlerCurrent'
    BY <1>21, BetweenSubmissions DEF CurrentInv, StartCycle
  <2> QED
    BY <1>21, <2>1, CurrentFrame DEF CurrentInv, StartCycle
<1>22. ASSUME NEW c \in Cycles, QueryEnded(c) PROVE CurrentInv'
  <2>1. JobFirst' /\ HandlerCurrent'
    BY <1>22, BetweenSubmissions DEF CurrentInv, QueryEnded
  <2> QED
    BY <1>22, <2>1, CurrentFrame DEF CurrentInv, QueryEnded
<1>23. ASSUME NEW c \in Cycles, NEW e \in ends[c], NextExam(c, e)
       PROVE  CurrentInv'
  <2>1. JobFirst'
    BY <1>23 DEF CurrentInv, JobFirst, NextExam, Submitting, Flushing
  <2>2. HandlerCurrent'
    BY <1>23 DEF CurrentInv, HandlerCurrent, NextExam, Untouched,
       Submitting, Flushing
  <2> QED
    BY <1>23, <2>1, <2>2, CurrentFrame DEF CurrentInv, NextExam
<1>24. ASSUME NEW c \in Cycles, NEW r \in rows[c], AutoSubmit(c, r)
       PROVE  CurrentInv'
  <2>1. r.att \in Attempts
    BY DEF Row
  <2>2. /\ Take(c, r.att, r.files, Nothing)
        /\ pc' = [pc EXCEPT ![c] = "flushGet"]
        /\ UNCHANGED <<jobs, overtaken, accepted>>
    BY <1>24 DEF AutoSubmit
  <2>3. JobFirst' /\ HandlerCurrent'
    BY <2>1, <2>2, TakeCurrent DEF CurrentInv
  <2> QED
    BY <1>24, <2>3, CurrentFrame DEF CurrentInv, AutoSubmit
<1>25. ASSUME NEW c \in Cycles, MarkProcessed(c) PROVE CurrentInv'
  <2>1. JobFirst' /\ HandlerCurrent'
    BY <1>25, BetweenSubmissions DEF CurrentInv, MarkProcessed
  <2> QED
    BY <1>25, <2>1, CurrentFrame DEF CurrentInv, MarkProcessed
<1>26. ASSUME NEW c \in Cycles, QueryOverdue(c) PROVE CurrentInv'
  <2>1. JobFirst' /\ HandlerCurrent'
    BY <1>26, BetweenSubmissions DEF CurrentInv, QueryOverdue
  <2> QED
    BY <1>26, <2>1, CurrentFrame DEF CurrentInv, QueryOverdue
<1>27. ASSUME NEW c \in Cycles, NEW r \in rows[c], TakeOverdue(c, r)
       PROVE  CurrentInv'
  <2>1. r.att \in Attempts
    BY DEF Row
  <2>2. \/ UNCHANGED <<pc, att, out, floor>>
        \/ /\ Take(c, r.att, r.files, Nothing)
           /\ pc' = [pc EXCEPT ![c] = "flushGet"]
    BY <1>27 DEF TakeOverdue
  <2>3. UNCHANGED <<jobs, overtaken, accepted>>
    BY <1>27 DEF TakeOverdue
  <2>4. JobFirst' /\ HandlerCurrent'
    BY <2>1, <2>2, <2>3, TakeCurrent, CurrentFrame DEF CurrentInv
  <2> QED
    BY <1>27, <2>4, CurrentFrame DEF CurrentInv, TakeOverdue
<1>28. ASSUME NEW c \in Cycles, EndCycle(c) PROVE CurrentInv'
  <2>1. JobFirst' /\ HandlerCurrent'
    BY <1>28, BetweenSubmissions DEF CurrentInv, EndCycle
  <2> QED
    BY <1>28, <2>1, CurrentFrame DEF CurrentInv, EndCycle
<1>29. ASSUME NEW a \in Attempts, JoinAttempt(a) PROVE CurrentInv'
  BY <1>29, CurrentFrame DEF CurrentInv, JoinAttempt
<1>30. ASSUME NEW a \in Attempts, Tick(a) PROVE CurrentInv'
  BY <1>30, CurrentFrame DEF CurrentInv, Tick
<1>31. ASSUME NEW a \in Attempts, HandleTimerExpired(a) PROVE CurrentInv'
  BY <1>31, CurrentFrame DEF CurrentInv, HandleTimerExpired
<1>32. ASSUME NEW a \in Attempts, NEW o \in Final, WriteResult(a, o)
       PROVE  CurrentInv'
  BY <1>32, CurrentFrame DEF CurrentInv, WriteResult
<1>33. ASSUME NEW a \in Attempts, NEW o \in Final, WriteAgain(a, o)
       PROVE  CurrentInv'
  BY <1>33, CurrentFrame DEF CurrentInv, WriteAgain
<1>g. ASSUME NEW a \in Attempts, GiveUp(a) PROVE CurrentInv'
  BY <1>g, CurrentFrame DEF CurrentInv, GiveUp
<1>34. ASSUME NEW a \in Attempts, TimePasses(a) PROVE CurrentInv'
  BY <1>34, CurrentFrame DEF CurrentInv, TimePasses
<1>35. ASSUME NEW e \in Exams, ExamEnds(e) PROVE CurrentInv'
  BY <1>35, CurrentFrame DEF CurrentInv, ExamEnds
<1>36. ASSUME CycleLockExpires PROVE CurrentInv'
  BY <1>36, CurrentFrame DEF CurrentInv, CycleLockExpires
<1>37. ASSUME NEW a \in Attempts, AttemptLockExpires(a) PROVE CurrentInv'
  BY <1>37, CurrentFrame DEF CurrentInv, AttemptLockExpires
<1>38. ASSUME NEW a \in Attempts, HandledExpires(a) PROVE CurrentInv'
  BY <1>38, CurrentFrame DEF CurrentInv, HandledExpires
<1>39. ASSUME NEW s \in Saves, SaveFails(s) PROVE CurrentInv'
  <2>1. SavesKnown'
    BY <1>39 DEF CurrentInv, SavesKnown, SaveFails
  <2>2. BufferCurrent'
    BY <1>39 DEF CurrentInv, BufferCurrent, SaveFails, Untouched
  <2> QED
    BY <1>39, <2>1, <2>2, CurrentFrame DEF CurrentInv, SaveFails
<1>40. ASSUME NEW h \in Handlers, FlushFails(h) PROVE CurrentInv'
  <2>1. JobFirst'
    BY <1>40 DEF CurrentInv, JobFirst, FlushFails, AfterFlush, Submitting,
       Flushing
  <2>2. HandlerCurrent'
    BY <1>40 DEF CurrentInv, HandlerCurrent, FlushFails, AfterFlush,
       Untouched, Submitting, Flushing
  <2> QED
    BY <1>40, <2>1, <2>2, CurrentFrame DEF CurrentInv, FlushFails
<1>41. ASSUME NEW f \in Flushers, FlushAborts(f) PROVE CurrentInv'
  <2>1. JobFirst'
    BY <1>41 DEF CurrentInv, JobFirst, FlushAborts, Submitting, Flushing
  <2>2. HandlerCurrent'
    BY <1>41 DEF CurrentInv, HandlerCurrent, FlushAborts, Untouched,
       Submitting, Flushing
  <2> QED
    BY <1>41, <2>1, <2>2, CurrentFrame DEF CurrentInv, FlushAborts
<1>42. ASSUME NEW h \in Submits, SubmitFails(h) PROVE CurrentInv'
  <2>1. JobFirst'
    BY <1>42 DEF CurrentInv, JobFirst, SubmitFails, Leave, Submitting,
       Flushing
  <2>2. HandlerCurrent'
    BY <1>42 DEF CurrentInv, HandlerCurrent, SubmitFails, Leave, Untouched,
       Submitting, Flushing
  <2> QED
    BY <1>42, <2>1, <2>2, CurrentFrame DEF CurrentInv, SubmitFails
<1>43. ASSUME NEW c \in Cycles, AutoSubmitFails(c) PROVE CurrentInv'
  <2>1. JobFirst'
    BY <1>43 DEF CurrentInv, JobFirst, AutoSubmitFails, BackToLoop, Leave,
       Submitting, Flushing
  <2>2. HandlerCurrent'
    BY <1>43 DEF CurrentInv, HandlerCurrent, AutoSubmitFails, BackToLoop,
       Leave, Untouched, Submitting, Flushing
  <2> QED
    BY <1>43, <2>1, <2>2, CurrentFrame DEF CurrentInv, AutoSubmitFails
<1>44. ASSUME NEW c \in Cycles, CycleFails(c) PROVE CurrentInv'
  <2>1. JobFirst'
    BY <1>44 DEF CurrentInv, JobFirst, CycleFails, Submitting, Flushing
  <2>2. HandlerCurrent'
    BY <1>44 DEF CurrentInv, HandlerCurrent, CycleFails, Untouched,
       Submitting, Flushing
  <2> QED
    BY <1>44, <2>1, <2>2, CurrentFrame DEF CurrentInv, CycleFails
<1>45. ASSUME NEW h \in Handlers, Crash(h) PROVE CurrentInv'
  <2>1. JobFirst'
    BY <1>45 DEF CurrentInv, JobFirst, Crash, Leave, Submitting, Flushing
  <2>2. HandlerCurrent'
    BY <1>45 DEF CurrentInv, HandlerCurrent, Crash, Leave, Untouched,
       Submitting, Flushing
  <2> QED
    BY <1>45, <2>1, <2>2, CurrentFrame DEF CurrentInv, Crash
<1>46. CASE UNCHANGED vars
  BY <1>46, CurrentFrame DEF CurrentInv, vars
<1>47. /\ Submits \subseteq Handlers /\ Cycles \subseteq Handlers
       /\ Flushers \subseteq Handlers
  BY DEF Handlers
<1> QED
  BY <1>g, <1>1, <1>2, <1>3, <1>4, <1>5, <1>6, <1>7, <1>8, <1>9, <1>10, <1>11,
     <1>12, <1>13, <1>14, <1>15, <1>16, <1>17, <1>18, <1>19, <1>20, <1>21,
     <1>22, <1>23, <1>24, <1>25, <1>26, <1>27, <1>28, <1>29, <1>30, <1>31,
     <1>32, <1>33, <1>34, <1>35, <1>36, <1>37, <1>38, <1>39, <1>40, <1>41,
     <1>42, <1>43, <1>44, <1>45, <1>46, <1>47 DEF Next, Client, Clock,
     Failure, SaveStep, SubmitStep, CycleStep, BackgroundStep,
     SubmissionStep, FlushStep

\* FirstJobIsCurrent for every value of the constants.
THEOREM FirstJobIsCurrentAlways == Spec => []FirstJobIsCurrent
<1>1. Init => CurrentInv
  BY LifecycleAssumption
     DEF Init, CurrentInv, SavesKnown, JobFirst, BufferCurrent, HandlerCurrent,
         FirstJobIsCurrent, Untouched, Handlers, Flushing, Nothing
<1>2. CurrentInv => FirstJobIsCurrent
  BY DEF CurrentInv
<1> QED
  BY <1>1, <1>2, TypeCorrect, CurrentStep, PTL DEF Spec
=============================================================================
