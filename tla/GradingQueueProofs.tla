------------------------- MODULE GradingQueueProofs -------------------------
(***************************************************************************)
(* Machine-checked theorems about GradingQueue, for every set of jobs,     *)
(* workers and slots and every bound on the faults.                        *)
(***************************************************************************)
EXTENDS GradingQueue, FiniteSetTheorems, TLAPS

----------------------------------------------------------------------------
(* Type correctness *)

\* The initial state is well typed.
LEMMA TypeInit == Init => TypeOK
<1> SUFFICES ASSUME Init PROVE TypeOK
  OBVIOUS
<1> USE QueueAssumption
<1>1. StreamTypes
  BY DEF Init, StreamTypes, Streams
<1>2. HashTypes
  BY DEF Init, HashTypes
<1>3. SetTypes /\ OutcomeTypes
  BY DEF Init, SetTypes, OutcomeTypes, Results, Events
<1>4. LoopTypes /\ RetryTypes
  BY DEF Init, LoopTypes, RetryTypes, Streams
<1>5. ThreadTypes
  BY DEF Init, ThreadTypes, PCs
<1>6. EnvTypes /\ HistoryTypes
  BY DEF Init, EnvTypes, HistoryTypes
<1> QED
  BY <1>1, <1>2, <1>3, <1>4, <1>5, <1>6 DEF TypeOK

\* A group of variables an action leaves alone keeps its types.
LEMMA FrameTypes ==
  /\ StreamTypes /\ UNCHANGED streamVars => StreamTypes'
  /\ HashTypes /\ UNCHANGED hashVars => HashTypes'
  /\ SetTypes /\ UNCHANGED <<retry, dlq, paused>> => SetTypes'
  /\ OutcomeTypes /\ UNCHANGED <<result, told, api>> => OutcomeTypes'
  /\ LoopTypes /\ UNCHANGED loopVars => LoopTypes'
  /\ RetryTypes /\ UNCHANGED retryVars => RetryTypes'
  /\ ThreadTypes /\ UNCHANGED threadVars => ThreadTypes'
  /\ EnvTypes /\ UNCHANGED <<redisFaults, envVars>> => EnvTypes'
  /\ HistoryTypes /\ UNCHANGED histVars => HistoryTypes'
<1>1. StreamTypes /\ UNCHANGED streamVars => StreamTypes'
  BY DEF StreamTypes, streamVars
<1>2. HashTypes /\ UNCHANGED hashVars => HashTypes'
  BY DEF HashTypes, hashVars
<1>3. SetTypes /\ UNCHANGED <<retry, dlq, paused>> => SetTypes'
  BY DEF SetTypes
<1>4. OutcomeTypes /\ UNCHANGED <<result, told, api>> => OutcomeTypes'
  BY DEF OutcomeTypes
<1>5. LoopTypes /\ UNCHANGED loopVars => LoopTypes'
  BY DEF LoopTypes, loopVars
<1>6. RetryTypes /\ UNCHANGED retryVars => RetryTypes'
  BY DEF RetryTypes, retryVars
<1>7. ThreadTypes /\ UNCHANGED threadVars => ThreadTypes'
  BY DEF ThreadTypes, threadVars
<1>8. EnvTypes /\ UNCHANGED <<redisFaults, envVars>> => EnvTypes'
  BY DEF EnvTypes, envVars
<1>9. HistoryTypes /\ UNCHANGED histVars => HistoryTypes'
  BY DEF HistoryTypes, histVars
<1> QED
  BY <1>1, <1>2, <1>3, <1>4, <1>5, <1>6, <1>7, <1>8, <1>9

\* XAdd keeps the types of the streams.
LEMMA XAddTypes ==
  ASSUME StreamTypes, NEW j \in Jobs, XAdd(j)
  PROVE  StreamTypes'
  BY DEF StreamTypes, XAdd, Msg, Streams, StreamOf

\* The transition script keeps the types of the hashes and the counters.
LEMMA TransitionTypes ==
  ASSUME HashTypes, NEW j \in Jobs, NEW next \in Counted, Transition(j, next)
  PROVE  /\ status' \in [Jobs -> Counted \cup {"none"}]
         /\ stats' \in [Counted -> Int]
  BY DEF HashTypes, Transition

\* A goroutine past "idle" works on one of the jobs.
LEMMA CurJob ==
  ASSUME ThreadTypes, NEW t \in Threads, pc[t] # "idle"
  PROVE  cur[t] \in Msg /\ cur[t].job \in Jobs /\ cur[t].n \in Nat \ {0}
  BY DEF ThreadTypes, Msg

\* A goroutine that starts has its message.
LEMMA StartTypes ==
  ASSUME ThreadTypes, NEW w \in Workers, NEW m \in Msg, StartGoroutine(w, m)
  PROVE  ThreadTypes'
  BY DEF ThreadTypes, StartGoroutine, FreeSlots, Threads, PCs

\* What readAndDispatch takes is a prefix of the stream that exists.
ReadSize(w, s) ==
  LET count == IF Cardinality(FreeSlots(w)) < ReadBatch
               THEN Cardinality(FreeSlots(w)) ELSE ReadBatch
  IN  IF Len(ready[s]) < count THEN Len(ready[s]) ELSE count

\* What XREADGROUP takes is within the stream.
LEMMA ReadCount ==
  ASSUME NEW w \in Workers, NEW s \in Streams, StreamTypes
  PROVE  ReadSize(w, s) \in 0 .. Len(ready[s])
<1>1. Cardinality(FreeSlots(w)) \in Nat
  BY QueueAssumption, FS_Subset, FS_CardinalityType DEF FreeSlots
<1>2. Len(ready[s]) \in Nat /\ ReadBatch \in Nat
  BY QueueAssumption DEF StreamTypes
<1> QED
  BY <1>1, <1>2 DEF ReadSize

\* Every action keeps the types.
LEMMA TypeStep == TypeOK /\ [Next]_vars => TypeOK'
<1> SUFFICES ASSUME TypeOK, [Next]_vars PROVE TypeOK'
  OBVIOUS
<1> USE DEF streamVars, hashVars, loopVars, retryVars, threadVars, envVars,
            histVars
<1>1. ASSUME NEW j \in Jobs, Enqueue(j) PROVE TypeOK'
  <2>1. StreamTypes'
    BY <1>1, XAddTypes DEF TypeOK, StreamTypes, Enqueue
  <2>2. OutcomeTypes'
    BY <1>1 DEF TypeOK, OutcomeTypes, Enqueue
  <2> QED
    BY <1>1, <2>1, <2>2, FrameTypes DEF TypeOK, Enqueue
<1>2. ASSUME NEW j \in Jobs, Register(j) PROVE TypeOK'
  <2>1. HashTypes'
    BY <1>2 DEF TypeOK, HashTypes, Register, Counted, Live
  <2>2. OutcomeTypes'
    BY <1>2 DEF TypeOK, OutcomeTypes, Register
  <2> QED
    BY <1>2, <2>1, <2>2, FrameTypes DEF TypeOK, Register
<1>3. ASSUME Pause PROVE TypeOK'
  <2>1. SetTypes'
    BY <1>3 DEF TypeOK, SetTypes, Pause
  <2>2. EnvTypes'
    BY <1>3 DEF TypeOK, EnvTypes, Pause
  <2> QED
    BY <1>3, <2>1, <2>2, FrameTypes DEF TypeOK, Pause
<1>4. ASSUME Resume PROVE TypeOK'
  <2>1. SetTypes'
    BY <1>4 DEF TypeOK, SetTypes, Resume
  <2> QED
    BY <1>4, <2>1, FrameTypes DEF TypeOK, Resume
<1>5. ASSUME NEW j \in Jobs, Expire(j) PROVE TypeOK'
  <2>1. HashTypes'
    BY <1>5 DEF TypeOK, HashTypes, Expire
  <2>2. EnvTypes'
    BY <1>5 DEF TypeOK, EnvTypes, Expire
  <2>3. HistoryTypes'
    BY <1>5 DEF TypeOK, HistoryTypes, Expire
  <2> QED
    BY <1>5, <2>1, <2>2, <2>3, FrameTypes DEF TypeOK, Expire
<1>6. ASSUME NEW w \in Workers, NEW s \in Streams, Read(w, s) PROVE TypeOK'
  <2> DEFINE n == ReadSize(w, s)
             batch == {ready[s][i] : i \in 1..n}
  <2>1. n \in 0 .. Len(ready[s]) /\ ready[s] \in Seq(Msg)
    BY <1>6, ReadCount DEF TypeOK, StreamTypes
  <2>2. batch \subseteq Msg /\ SubSeq(ready[s], n + 1, Len(ready[s])) \in Seq(Msg)
    BY <1>6, <2>1
  <2>3. /\ ready' = [ready EXCEPT ![s] = SubSeq(@, n + 1, Len(@))]
        /\ pel' = pel \cup batch
        /\ inbox' \in {inbox, [inbox EXCEPT ![w] = batch]}
        /\ turn' = [turn EXCEPT ![w] = IF s = "high" THEN "low" ELSE "high"]
        /\ idle' = idle /\ adds' = adds
        /\ redisFaults' \in {redisFaults, redisFaults + 1}
    BY <1>6 DEF Read, ReadSize, Logged
  <2> HIDE DEF n, batch
  <2>4. StreamTypes'
    BY <1>6, <2>2, <2>3 DEF TypeOK, StreamTypes
  <2>5. LoopTypes'
    BY <1>6, <2>2, <2>3 DEF TypeOK, LoopTypes, Read, Streams
  <2>6. EnvTypes'
    BY <1>6, <2>3 DEF TypeOK, EnvTypes, Read
  <2> QED
    BY <1>6, <2>4, <2>5, <2>6, FrameTypes DEF TypeOK, Read
<1>7. ASSUME NEW w \in Workers, NEW m \in inbox[w], Dispatch(w, m) PROVE TypeOK'
  <2>1. m \in Msg /\ StartGoroutine(w, m) /\ ThreadTypes
    BY <1>7 DEF TypeOK, LoopTypes, Dispatch
  <2>2. LoopTypes'
    BY <1>7 DEF TypeOK, LoopTypes, Dispatch
  <2>3. ThreadTypes'
    BY <1>7, <2>1, StartTypes
  <2> QED
    BY <1>7, <2>2, <2>3, FrameTypes DEF TypeOK, Dispatch
<1>8. ASSUME NEW w \in Workers, NEW s \in Streams, Reclaim(w, s) PROVE TypeOK'
  <2>1. StreamTypes'
    BY <1>8 DEF TypeOK, StreamTypes, Reclaim
  <2>2. LoopTypes'
    BY <1>8 DEF TypeOK, LoopTypes, Reclaim, StreamTypes
  <2>3. HistoryTypes'
    BY <1>8 DEF TypeOK, HistoryTypes, Reclaim, StreamTypes, Msg
  <2> QED
    BY <1>8, <2>1, <2>2, <2>3, FrameTypes DEF TypeOK, Reclaim
<1>9. ASSUME NEW w \in Workers, NEW m \in claimed[w], DispatchClaimed(w, m) PROVE TypeOK'
  <2>1. m \in Msg /\ StartGoroutine(w, m) /\ ThreadTypes
    BY <1>9 DEF TypeOK, LoopTypes, DispatchClaimed
  <2>2. LoopTypes'
    BY <1>9 DEF TypeOK, LoopTypes, DispatchClaimed
  <2>3. ThreadTypes'
    BY <1>9, <2>1, StartTypes
  <2> QED
    BY <1>9, <2>2, <2>3, FrameTypes DEF TypeOK, DispatchClaimed
<1>10. ASSUME NEW w \in Workers, AbandonClaim(w) PROVE TypeOK'
  <2>1. LoopTypes'
    BY <1>10 DEF TypeOK, LoopTypes, AbandonClaim
  <2> QED
    BY <1>10, <2>1, FrameTypes DEF TypeOK, AbandonClaim
<1>11. ASSUME NEW w \in Workers, RetryPoll(w) PROVE TypeOK'
  <2>1. RetryTypes'
    BY <1>11 DEF TypeOK, RetryTypes, RetryPoll, SetTypes
  <2> QED
    BY <1>11, <2>1, FrameTypes DEF TypeOK, RetryPoll
<1>12. ASSUME NEW w \in Workers, RetryRemove(w) PROVE TypeOK'
  <2>1. SetTypes'
    BY <1>12 DEF TypeOK, SetTypes, RetryRemove, Logged
  <2>2. RetryTypes'
    BY <1>12 DEF TypeOK, RetryTypes, RetryRemove
  <2>3. EnvTypes'
    BY <1>12 DEF TypeOK, EnvTypes, RetryRemove, Logged
  <2> QED
    BY <1>12, <2>1, <2>2, <2>3, FrameTypes DEF TypeOK, RetryRemove
<1>13. ASSUME NEW w \in Workers, NEW j \in Jobs, RequeueAdd(w, j) PROVE TypeOK'
  <2>1. XAdd(j) \/ UNCHANGED streamVars
    BY <1>13 DEF RequeueAdd, Logged
  <2>2. StreamTypes'
    BY <1>13, <2>1, XAddTypes, FrameTypes DEF TypeOK
  <2>3. RetryTypes'
    BY <1>13 DEF TypeOK, RetryTypes, RequeueAdd, Logged
  <2>4. EnvTypes'
    BY <1>13 DEF TypeOK, EnvTypes, RequeueAdd, Logged
  <2>5. HistoryTypes'
    BY <1>13 DEF TypeOK, HistoryTypes, RequeueAdd, Logged
  <2> QED
    BY <1>13, <2>2, <2>3, <2>4, <2>5, FrameTypes DEF TypeOK, RequeueAdd
<1>14. ASSUME NEW w \in Workers, RequeueMark(w) PROVE TypeOK'
  <2>1. HashTypes'
    BY <1>14, TransitionTypes DEF TypeOK, HashTypes, RequeueMark, Logged,
       RetryTypes, Counted, Live
  <2>2. RetryTypes'
    BY <1>14 DEF TypeOK, RetryTypes, RequeueMark
  <2>3. EnvTypes'
    BY <1>14 DEF TypeOK, EnvTypes, RequeueMark, Logged
  <2> QED
    BY <1>14, <2>1, <2>2, <2>3, FrameTypes DEF TypeOK, RequeueMark
<1>15. ASSUME NEW w \in Workers, NEW j \in Jobs, RequeueMissing(w, j) PROVE TypeOK'
  <2>1. HashTypes'
    BY <1>15, TransitionTypes DEF TypeOK, HashTypes, RequeueMissing,
       Logged, Counted
  <2>2. RetryTypes'
    BY <1>15 DEF TypeOK, RetryTypes, RequeueMissing
  <2>3. EnvTypes'
    BY <1>15 DEF TypeOK, EnvTypes, RequeueMissing, Logged
  <2> QED
    BY <1>15, <2>1, <2>2, <2>3, FrameTypes DEF TypeOK, RequeueMissing
<1>16. ASSUME NEW w \in Workers, RequeueBury(w) PROVE TypeOK'
  <2>1. SetTypes'
    BY <1>16 DEF TypeOK, SetTypes, RequeueBury, Logged, RetryTypes
  <2>2. RetryTypes'
    BY <1>16 DEF TypeOK, RetryTypes, RequeueBury
  <2>3. EnvTypes'
    BY <1>16 DEF TypeOK, EnvTypes, RequeueBury, Logged
  <2>4. HistoryTypes'
    BY <1>16 DEF TypeOK, HistoryTypes, RequeueBury, Logged, RetryTypes
  <2> QED
    BY <1>16, <2>1, <2>2, <2>3, <2>4, FrameTypes DEF TypeOK, RequeueBury
<1>17. ASSUME NEW w \in Workers, RequeueDone(w) PROVE TypeOK'
  <2>1. RetryTypes'
    BY <1>17 DEF TypeOK, RetryTypes, RequeueDone
  <2> QED
    BY <1>17, <2>1, FrameTypes DEF TypeOK, RequeueDone
<1>18. ASSUME NEW w \in Workers, RetryCleanup(w) PROVE TypeOK'
  <2>1. SetTypes'
    BY <1>18 DEF TypeOK, SetTypes, RetryCleanup
  <2>2. EnvTypes'
    BY <1>18 DEF TypeOK, EnvTypes, RetryCleanup
  <2>3. HistoryTypes'
    BY <1>18 DEF TypeOK, HistoryTypes, RetryCleanup, SetTypes
  <2> QED
    BY <1>18, <2>1, <2>2, <2>3, FrameTypes DEF TypeOK, RetryCleanup
<1>19. ASSUME NEW t \in Threads, Reject(t) PROVE TypeOK'
  <2>1. pc[t] # "idle" /\ cur[t] \in Msg /\ cur[t].job \in Jobs
    BY <1>19, CurJob DEF TypeOK, Goto, Reject
  <2>2. HashTypes'
    BY <1>19, <2>1, TransitionTypes DEF TypeOK, HashTypes, Reject, Logged,
       Counted, Live
  <2>3. ThreadTypes'
    BY <1>19, <2>1 DEF TypeOK, ThreadTypes, Reject, Goto, PCs
  <2>4. EnvTypes'
    BY <1>19, <2>1 DEF TypeOK, EnvTypes, Reject, Logged
  <2> QED
    BY <1>19, <2>2, <2>3, <2>4, FrameTypes DEF TypeOK, Reject
<1>20. ASSUME NEW t \in Threads, RecordHash(t) PROVE TypeOK'
  <2>1. pc[t] # "idle" /\ cur[t] \in Msg /\ cur[t].job \in Jobs
    BY <1>20, CurJob DEF TypeOK, Goto, RecordHash
  <2>2. HashTypes'
    BY <1>20, <2>1 DEF TypeOK, HashTypes, RecordHash, Logged
  <2>3. ThreadTypes'
    BY <1>20, <2>1 DEF TypeOK, ThreadTypes, RecordHash, Goto, PCs
  <2>4. EnvTypes'
    BY <1>20, <2>1 DEF TypeOK, EnvTypes, RecordHash, Logged
  <2>5. HistoryTypes'
    BY <1>20, <2>1 DEF TypeOK, HistoryTypes, RecordHash, Logged
  <2> QED
    BY <1>20, <2>2, <2>3, <2>4, <2>5, FrameTypes DEF TypeOK, RecordHash
<1>21. ASSUME NEW t \in Threads, MarkProcessing(t) PROVE TypeOK'
  <2>1. pc[t] # "idle" /\ cur[t] \in Msg /\ cur[t].job \in Jobs
    BY <1>21, CurJob DEF TypeOK, Goto, MarkProcessing
  <2>2. HashTypes'
    BY <1>21, <2>1, TransitionTypes DEF TypeOK, HashTypes, MarkProcessing,
       Logged, Counted, Live
  <2>3. ThreadTypes'
    BY <1>21, <2>1 DEF TypeOK, ThreadTypes, MarkProcessing, Goto, PCs
  <2>4. EnvTypes'
    BY <1>21, <2>1 DEF TypeOK, EnvTypes, MarkProcessing, Logged
  <2> QED
    BY <1>21, <2>2, <2>3, <2>4, FrameTypes DEF TypeOK, MarkProcessing
<1>22. ASSUME NEW t \in Threads, CountAttempt(t) PROVE TypeOK'
  <2>1. pc[t] # "idle" /\ cur[t] \in Msg /\ cur[t].job \in Jobs
    BY <1>22, CurJob DEF TypeOK, Goto, CountAttempt
  <2>2. HashTypes'
    BY <1>22, <2>1 DEF TypeOK, HashTypes, CountAttempt, Logged
  <2>3. ThreadTypes'
    BY <1>22, <2>1 DEF TypeOK, ThreadTypes, CountAttempt, Logged,
       HashTypes, Goto, PCs
  <2>4. EnvTypes'
    BY <1>22, <2>1 DEF TypeOK, EnvTypes, CountAttempt, Logged
  <2>5. HistoryTypes'
    BY <1>22, <2>1 DEF TypeOK, HistoryTypes, CountAttempt
  <2> QED
    BY <1>22, <2>2, <2>3, <2>4, <2>5, FrameTypes DEF TypeOK, CountAttempt
<1>23. ASSUME NEW t \in Threads, Grade(t) PROVE TypeOK'
  <2>1. pc[t] # "idle" /\ cur[t] \in Msg /\ cur[t].job \in Jobs
    BY <1>23, CurJob DEF TypeOK, Goto, Grade
  <2>2. OutcomeTypes'
    BY <1>23, <2>1 DEF TypeOK, OutcomeTypes, Grade, Results
  <2>3. ThreadTypes'
    BY <1>23, <2>1 DEF TypeOK, ThreadTypes, Grade, Goto, PCs
  <2>4. EnvTypes'
    BY <1>23, <2>1 DEF TypeOK, EnvTypes, Grade
  <2>5. HistoryTypes'
    BY <1>23, <2>1 DEF TypeOK, HistoryTypes, Grade
  <2> QED
    BY <1>23, <2>2, <2>3, <2>4, <2>5, FrameTypes DEF TypeOK, Grade
<1>24. ASSUME NEW t \in Threads, Announce(t) PROVE TypeOK'
  <2>1. pc[t] # "idle" /\ cur[t] \in Msg /\ cur[t].job \in Jobs
    BY <1>24, CurJob DEF TypeOK, Goto, Announce
  <2>2. OutcomeTypes'
    BY <1>24, <2>1 DEF TypeOK, OutcomeTypes, Announce, Logged, Events
  <2>3. ThreadTypes'
    BY <1>24, <2>1 DEF TypeOK, ThreadTypes, Announce, Goto, PCs
  <2>4. EnvTypes'
    BY <1>24, <2>1 DEF TypeOK, EnvTypes, Announce, Logged
  <2> QED
    BY <1>24, <2>2, <2>3, <2>4, FrameTypes DEF TypeOK, Announce
<1>25. ASSUME NEW t \in Threads, MarkCompleted(t) PROVE TypeOK'
  <2>1. pc[t] # "idle" /\ cur[t] \in Msg /\ cur[t].job \in Jobs
    BY <1>25, CurJob DEF TypeOK, Goto, MarkCompleted
  <2>2. HashTypes'
    BY <1>25, <2>1, TransitionTypes DEF TypeOK, HashTypes, MarkCompleted,
       Logged, Counted, Live
  <2>3. ThreadTypes'
    BY <1>25, <2>1 DEF TypeOK, ThreadTypes, MarkCompleted, Goto, PCs
  <2>4. EnvTypes'
    BY <1>25, <2>1 DEF TypeOK, EnvTypes, MarkCompleted, Logged
  <2> QED
    BY <1>25, <2>2, <2>3, <2>4, FrameTypes DEF TypeOK, MarkCompleted
<1>26. ASSUME NEW t \in Threads, StoreFailure(t) PROVE TypeOK'
  <2>1. pc[t] # "idle" /\ cur[t] \in Msg /\ cur[t].job \in Jobs
    BY <1>26, CurJob DEF TypeOK, Goto, StoreFailure
  <2>2. OutcomeTypes'
    BY <1>26, <2>1 DEF TypeOK, OutcomeTypes, StoreFailure, Results
  <2>3. ThreadTypes'
    BY <1>26, <2>1 DEF TypeOK, ThreadTypes, StoreFailure, Goto, PCs
  <2>4. EnvTypes'
    BY <1>26, <2>1 DEF TypeOK, EnvTypes, StoreFailure
  <2> QED
    BY <1>26, <2>2, <2>3, <2>4, FrameTypes DEF TypeOK, StoreFailure
<1>27. ASSUME NEW t \in Threads, AnnounceFailure(t) PROVE TypeOK'
  <2>1. pc[t] # "idle" /\ cur[t] \in Msg /\ cur[t].job \in Jobs
    BY <1>27, CurJob DEF TypeOK, Goto, AnnounceFailure
  <2>2. OutcomeTypes'
    BY <1>27, <2>1 DEF TypeOK, OutcomeTypes, AnnounceFailure, Logged, Events
  <2>3. ThreadTypes'
    BY <1>27, <2>1 DEF TypeOK, ThreadTypes, AnnounceFailure, Goto, PCs
  <2>4. EnvTypes'
    BY <1>27, <2>1 DEF TypeOK, EnvTypes, AnnounceFailure, Logged
  <2> QED
    BY <1>27, <2>2, <2>3, <2>4, FrameTypes DEF TypeOK, AnnounceFailure
<1>28. ASSUME NEW t \in Threads, MarkRetrying(t) PROVE TypeOK'
  <2>1. pc[t] # "idle" /\ cur[t] \in Msg /\ cur[t].job \in Jobs
    BY <1>28, CurJob DEF TypeOK, Goto, MarkRetrying
  <2>2. HashTypes'
    BY <1>28, <2>1, TransitionTypes DEF TypeOK, HashTypes, MarkRetrying,
       Logged, Counted, Live
  <2>3. ThreadTypes'
    BY <1>28, <2>1 DEF TypeOK, ThreadTypes, MarkRetrying, Goto, PCs
  <2>4. EnvTypes'
    BY <1>28, <2>1 DEF TypeOK, EnvTypes, MarkRetrying, Logged
  <2> QED
    BY <1>28, <2>2, <2>3, <2>4, FrameTypes DEF TypeOK, MarkRetrying
<1>29. ASSUME NEW t \in Threads, MarkFailed(t) PROVE TypeOK'
  <2>1. pc[t] # "idle" /\ cur[t] \in Msg /\ cur[t].job \in Jobs
    BY <1>29, CurJob DEF TypeOK, Goto, MarkFailed
  <2>2. HashTypes'
    BY <1>29, <2>1, TransitionTypes DEF TypeOK, HashTypes, MarkFailed,
       Logged, Counted, Live
  <2>3. ThreadTypes'
    BY <1>29, <2>1 DEF TypeOK, ThreadTypes, MarkFailed, Goto, PCs
  <2>4. EnvTypes'
    BY <1>29, <2>1 DEF TypeOK, EnvTypes, MarkFailed, Logged
  <2> QED
    BY <1>29, <2>2, <2>3, <2>4, FrameTypes DEF TypeOK, MarkFailed
<1>30. ASSUME NEW t \in Threads, Park(t) PROVE TypeOK'
  <2>1. pc[t] # "idle" /\ cur[t] \in Msg /\ cur[t].job \in Jobs
    BY <1>30, CurJob DEF TypeOK, Goto, Park
  <2>2. SetTypes'
    BY <1>30, <2>1 DEF TypeOK, SetTypes, Park, Logged
  <2>3. ThreadTypes'
    BY <1>30, <2>1 DEF TypeOK, ThreadTypes, Park, Goto, PCs
  <2>4. EnvTypes'
    BY <1>30, <2>1 DEF TypeOK, EnvTypes, Park, Logged
  <2>5. HistoryTypes'
    BY <1>30, <2>1 DEF TypeOK, HistoryTypes, Park, Logged
  <2> QED
    BY <1>30, <2>2, <2>3, <2>4, <2>5, FrameTypes DEF TypeOK, Park
<1>31. ASSUME NEW t \in Threads, Bury(t) PROVE TypeOK'
  <2>1. pc[t] # "idle" /\ cur[t] \in Msg /\ cur[t].job \in Jobs
    BY <1>31, CurJob DEF TypeOK, Goto, Bury
  <2>2. SetTypes'
    BY <1>31, <2>1 DEF TypeOK, SetTypes, Bury, Logged
  <2>3. ThreadTypes'
    BY <1>31, <2>1 DEF TypeOK, ThreadTypes, Bury, Goto, PCs
  <2>4. EnvTypes'
    BY <1>31, <2>1 DEF TypeOK, EnvTypes, Bury, Logged
  <2>5. HistoryTypes'
    BY <1>31, <2>1 DEF TypeOK, HistoryTypes, Bury, Logged
  <2> QED
    BY <1>31, <2>2, <2>3, <2>4, <2>5, FrameTypes DEF TypeOK, Bury
<1>32. ASSUME NEW t \in Threads, Ack(t) PROVE TypeOK'
  <2>1. pc[t] # "idle" /\ cur[t] \in Msg /\ cur[t].job \in Jobs
    BY <1>32, CurJob DEF TypeOK, Goto, Ack
  <2>2. StreamTypes'
    BY <1>32, <2>1 DEF TypeOK, StreamTypes, Ack, Logged
  <2>3. ThreadTypes'
    BY <1>32, <2>1 DEF TypeOK, ThreadTypes, Ack, Goto, PCs
  <2>4. EnvTypes'
    BY <1>32, <2>1 DEF TypeOK, EnvTypes, Ack, Logged
  <2> QED
    BY <1>32, <2>2, <2>3, <2>4, FrameTypes DEF TypeOK, Ack
<1>33. ASSUME NEW m \in pel, Age(m) PROVE TypeOK'
  <2>1. StreamTypes'
    BY <1>33 DEF TypeOK, StreamTypes, Age
  <2>2. EnvTypes'
    BY <1>33 DEF TypeOK, EnvTypes, Age
  <2> QED
    BY <1>33, <2>1, <2>2, FrameTypes DEF TypeOK, Age
<1>34. ASSUME NEW w \in Workers, Stop(w) PROVE TypeOK'
  <2>1. LoopTypes'
    BY <1>34 DEF TypeOK, LoopTypes, Stop, Streams
  <2>2. RetryTypes'
    BY <1>34 DEF TypeOK, RetryTypes, Stop
  <2>3. ThreadTypes'
    BY <1>34 DEF TypeOK, ThreadTypes, Stop, PCs
  <2>4. EnvTypes'
    BY <1>34 DEF TypeOK, EnvTypes, Stop
  <2>5. HistoryTypes'
    BY <1>34 DEF TypeOK, HistoryTypes, Stop, InRequeue, RetryTypes
  <2> QED
    BY <1>34, <2>1, <2>2, <2>3, <2>4, <2>5, FrameTypes DEF TypeOK, Stop
<1>35. ASSUME NEW w \in Workers, Start(w) PROVE TypeOK'
  <2>1. LoopTypes'
    BY <1>35 DEF TypeOK, LoopTypes, Start
  <2> QED
    BY <1>35, <2>1, FrameTypes DEF TypeOK, Start
<1>36. CASE UNCHANGED vars
  BY <1>36, FrameTypes DEF TypeOK, vars
<1>37. \A w \in Workers : due[w] \subseteq Jobs
  BY DEF TypeOK, RetryTypes
<1> QED
  BY <1>1, <1>2, <1>3, <1>4, <1>5, <1>6, <1>7, <1>8, <1>9, <1>10, <1>11,
     <1>12, <1>13, <1>14, <1>15, <1>16, <1>17, <1>18, <1>19, <1>20, <1>21,
     <1>22, <1>23, <1>24, <1>25, <1>26, <1>27, <1>28, <1>29, <1>30, <1>31,
     <1>32, <1>33, <1>34, <1>35, <1>36, <1>37
  DEF Next, Process, Loop, ReclaimStep, RetryStep

\* TypeOK, which the runs check on small instances, holds in every reachable
\* state for all values of the constants: in particular a running goroutine
\* always has a message of a known job, and only known jobs are requeued.
THEOREM TypeCorrect == Spec => []TypeOK
<1> QED
  BY TypeInit, TypeStep, PTL DEF Spec

----------------------------------------------------------------------------
(* No job is dead-lettered with tries left: CountsOK is inductive.  The      *)
(* attempts in the hash never exceed the starts, a goroutine's own copy      *)
(* neither, and a requeue finds a payload unless the hash was lost.          *)

DeadLetterInv == TypeOK /\ CountsOK /\ DeadLetterJustified

countVars == <<attempts, payload, starts, forgotten, pc, cur, tries,
               rpc, rjob, due, retry, dlq>>

\* A step that changes nothing they speak of keeps CountsOK and
\* DeadLetterJustified.
LEMMA CountsFrame ==
  ASSUME CountsOK, DeadLetterJustified, UNCHANGED countVars
  PROVE  CountsOK' /\ DeadLetterJustified'
  BY DEF CountsOK, DeadLetterJustified, countVars

\* A goroutine's step: what it has to show of itself in its new place, given
\* that nothing of the others changes and the history only grows.
LEMMA CountsGoto ==
  ASSUME TypeOK, CountsOK, DeadLetterJustified,
         NEW t \in Threads, NEW a \in PCs, NEW b \in PCs, Goto(t, a, b),
         UNCHANGED <<cur, rpc, rjob, due>>,
         payload \cup forgotten \subseteq payload' \cup forgotten',
         forgotten \subseteq forgotten',
         \A j \in Jobs : starts[j] <= starts'[j] /\ attempts'[j] <= starts'[j],
         starts' \in [Jobs -> Nat],
         \A u \in Threads \ {t} : tries'[u] = tries[u],
         b \in {"grade", "announce", "finish", "failing", "tell", "decide",
                "park"} => tries'[t] <= starts'[cur[t].job],
         b = "bury" => \/ cur[t].job \in Malformed
                       \/ starts'[cur[t].job] >= MaxAttempts,
         b \notin {"idle", "start", "bury", "ack"} =>
           cur[t].job \in payload' \cup forgotten',
         \A j \in retry' : j \in payload' \cup forgotten',
         \A j \in dlq' \ dlq : \/ j \in Malformed \cup forgotten'
                               \/ starts'[j] >= MaxAttempts
  PROVE  CountsOK' /\ DeadLetterJustified'
<1>0. /\ pc \in [Threads -> PCs] /\ tries \in [Threads -> Nat]
      /\ starts \in [Jobs -> Nat] /\ dlq \subseteq Jobs
      /\ \A u \in Threads : pc[u] # "idle" => cur[u].job \in Jobs
  BY DEF TypeOK, ThreadTypes, HistoryTypes, SetTypes, Msg
<1>1. pc'[t] = b /\ \A u \in Threads \ {t} : pc'[u] = pc[u]
  BY <1>0 DEF Goto
<1>2. MaxAttempts \in Nat
  BY QueueAssumption
<1>3. ASSUME NEW u \in Threads \ {t}
      PROVE  /\ pc'[u] \in {"grade", "announce", "finish", "failing", "tell",
                            "decide", "park"} => tries'[u] <= starts'[cur'[u].job]
             /\ pc'[u] = "bury" => \/ cur'[u].job \in Malformed
                                   \/ starts'[cur'[u].job] >= MaxAttempts
  <2>1. pc[u] # "idle" =>
          starts[cur[u].job] \in Nat /\ starts'[cur[u].job] \in Nat
          /\ starts[cur[u].job] <= starts'[cur[u].job]
    BY <1>0
  <2> QED
    BY <1>0, <1>1, <1>2, <2>1 DEF CountsOK
<1>4. \A u \in Threads : pc'[u] \notin {"idle", "start", "bury", "ack"} =>
                           cur'[u].job \in payload' \cup forgotten'
  BY <1>1 DEF CountsOK
<1>5. ASSUME NEW j \in dlq
      PROVE  j \in Malformed \cup forgotten' \/ starts'[j] >= MaxAttempts
  <2>1. starts[j] \in Nat /\ starts'[j] \in Nat /\ starts[j] <= starts'[j]
    BY <1>0
  <2> QED
    BY <1>2, <2>1 DEF DeadLetterJustified
<1>6. CountsOK'
  <2>1. \A j \in Jobs : attempts'[j] <= starts'[j]
    OBVIOUS
  <2>2. \A w \in Workers : rpc'[w] = "bury" => rjob'[w] \in forgotten'
    BY DEF CountsOK
  <2>3. \A w \in Workers : \A j \in due'[w] : j \in payload' \cup forgotten'
    BY DEF CountsOK
  <2> QED
    BY <1>1, <1>3, <1>4, <2>1, <2>2, <2>3 DEF CountsOK
<1> QED
  BY <1>5, <1>6 DEF DeadLetterJustified

\* Every step keeps CountsOK.
LEMMA CountsStep ==
  ASSUME DeadLetterInv, [Next]_vars
  PROVE  CountsOK' /\ DeadLetterJustified'
<1> USE DEF streamVars, hashVars, loopVars, retryVars, threadVars, histVars
<1> DEFINE Goal == CountsOK' /\ DeadLetterJustified'
<1>0. /\ TypeOK /\ CountsOK /\ DeadLetterJustified /\ ThreadTypes /\ RetryTypes
      /\ starts \in [Jobs -> Nat] /\ attempts \in [Jobs -> Nat]
      /\ tries \in [Threads -> Nat] /\ MaxAttempts \in Nat
      /\ \A t \in Threads : pc[t] # "idle" => cur[t].job \in Jobs
  BY QueueAssumption
  DEF DeadLetterInv, TypeOK, ThreadTypes, HistoryTypes, HashTypes, Msg
<1>a. \A j \in Jobs : attempts[j] <= starts[j] /\ starts[j] <= starts[j]
  BY <1>0 DEF CountsOK
<1>1. ASSUME NEW t \in Threads,
             \/ MarkProcessing(t) \/ Grade(t) \/ Announce(t) \/ MarkCompleted(t)
             \/ StoreFailure(t) \/ AnnounceFailure(t) \/ MarkRetrying(t)
             \/ MarkFailed(t) \/ Reject(t)
      PROVE  Goal
  <2>1. UNCHANGED <<cur, tries, rpc, rjob, due, payload, forgotten, starts,
                    attempts, retry, dlq>>
    BY <1>1 DEF MarkProcessing, Grade, Announce, MarkCompleted, StoreFailure,
                AnnounceFailure, MarkRetrying, MarkFailed, Reject
  <2>2. \A j \in Jobs : starts[j] <= starts'[j] /\ attempts'[j] <= starts'[j]
    BY <1>a, <2>1
  <2>3. CASE Reject(t)
    <3>1. Goto(t, "start", "bury") /\ cur[t].job \in Malformed
      BY <2>3 DEF Reject
    <3> QED
      BY <1>0, <2>1, <2>2, <3>1, CountsGoto DEF CountsOK, PCs
  <2>4. CASE MarkFailed(t)
    <3>1. Goto(t, "decide", "bury") /\ ~(tries[t] < MaxAttempts)
      BY <2>4 DEF MarkFailed
    <3>2. starts[cur[t].job] >= MaxAttempts
      <4>1. tries[t] <= starts[cur[t].job] /\ cur[t].job \in Jobs
        BY <1>0, <3>1 DEF CountsOK, Goto
      <4> QED
        BY <1>0, <3>1, <4>1
    <3> QED
      BY <1>0, <2>1, <2>2, <3>1, <3>2, CountsGoto DEF CountsOK, PCs
  <2>5. CASE MarkProcessing(t)
    <3>1. Goto(t, "mark", "count")
      BY <2>5 DEF MarkProcessing
    <3>2. cur[t].job \in payload \cup forgotten
      BY <1>0, <3>1 DEF CountsOK, Goto
    <3> QED
      BY <1>0, <2>1, <2>2, <3>1, <3>2, CountsGoto DEF CountsOK, PCs
  <2>6. CASE Grade(t) \/ Announce(t) \/ StoreFailure(t) \/ AnnounceFailure(t)
             \/ MarkRetrying(t) \/ MarkCompleted(t)
    <3>1. PICK a \in {"grade", "announce", "finish", "failing", "tell", "decide"},
               b \in {"announce", "finish", "ack", "failing", "tell", "decide",
                      "park"} : Goto(t, a, b)
      BY <2>6 DEF Grade, Announce, StoreFailure, AnnounceFailure, MarkRetrying,
                  MarkCompleted
    <3>2. tries[t] <= starts[cur[t].job] /\ cur[t].job \in payload \cup forgotten
      BY <1>0, <3>1 DEF CountsOK, Goto
    <3>3. \A j \in retry' : j \in payload' \cup forgotten'
      BY <1>0, <2>1, <2>2 DEF CountsOK
    <3>4. a \in PCs /\ b \in PCs /\ b # "bury"
      BY <3>1 DEF PCs
    <3> QED
      BY <1>0, <2>1, <2>2, <3>1, <3>2, <3>3, <3>4, CountsGoto
  <2> QED
    BY <1>1, <2>3, <2>4, <2>5, <2>6
<1>2. ASSUME NEW t \in Threads, RecordHash(t) PROVE Goal
  <2>1. /\ Goto(t, "start", "mark")
        /\ UNCHANGED <<cur, tries, rpc, rjob, due, starts, attempts, retry, dlq>>
        /\ payload \subseteq payload' /\ forgotten \subseteq forgotten'
        /\ cur[t].job \in payload' \cup forgotten'
    BY <1>2 DEF RecordHash, Logged
  <2>2. \A j \in Jobs : starts[j] <= starts'[j] /\ attempts'[j] <= starts'[j]
    BY <1>a, <2>1
  <2> QED
    BY <1>0, <2>1, <2>2, CountsGoto DEF CountsOK, PCs
<1>3. ASSUME NEW t \in Threads, CountAttempt(t) PROVE Goal
  <2> DEFINE j == cur[t].job
  <2>1. /\ Goto(t, "count", "grade")
        /\ starts' = [starts EXCEPT ![j] = @ + 1]
        /\ \/ /\ attempts' = [attempts EXCEPT ![j] = @ + 1]
              /\ tries' = [tries EXCEPT ![t] = attempts[j] + 1]
           \/ attempts' = attempts /\ tries' = [tries EXCEPT ![t] = 1]
        /\ UNCHANGED <<cur, rpc, rjob, due, payload, forgotten, retry, dlq>>
    BY <1>3 DEF CountAttempt, Logged
  <2>2. j \in Jobs /\ j \in payload \cup forgotten
    BY <1>0, <2>1 DEF CountsOK, Goto
  <2> HIDE DEF j
  <2>3. starts' \in [Jobs -> Nat] /\ starts'[j] = starts[j] + 1
    BY <1>0, <2>1, <2>2
  <2>4. \A i \in Jobs : starts[i] <= starts'[i] /\ attempts'[i] <= starts'[i]
    BY <1>0, <1>a, <2>1, <2>2
  <2>5. tries'[t] <= starts'[j]
    BY <1>0, <1>a, <2>1, <2>2, <2>3
  <2>6. \A u \in Threads \ {t} : tries'[u] = tries[u]
    BY <1>0, <2>1
  <2> QED
    BY <1>0, <2>1, <2>2, <2>3, <2>4, <2>5, <2>6, CountsGoto DEF CountsOK, PCs, j
<1>4. ASSUME NEW t \in Threads, Park(t) \/ Bury(t) PROVE Goal
  <2>1. /\ UNCHANGED <<cur, tries, rpc, rjob, due, payload, forgotten, starts,
                       attempts>>
        /\ \E a \in {"park", "bury"} : Goto(t, a, "ack")
        /\ retry' = retry \/ (pc[t] = "park" /\ retry' = retry \cup {cur[t].job})
        /\ dlq' = dlq \/ (pc[t] = "bury" /\ dlq' = dlq \cup {cur[t].job})
    BY <1>4 DEF Park, Bury, Goto, Logged
  <2>2. \A i \in Jobs : starts[i] <= starts'[i] /\ attempts'[i] <= starts'[i]
    BY <1>a, <2>1
  <2>3. \A j \in retry' : j \in payload' \cup forgotten'
    BY <1>0, <2>1 DEF CountsOK
  <2>4. \A j \in dlq' \ dlq : \/ j \in Malformed \cup forgotten'
                              \/ starts'[j] >= MaxAttempts
    BY <1>0, <2>1 DEF CountsOK
  <2> QED
    BY <1>0, <2>1, <2>2, <2>3, <2>4, CountsGoto DEF PCs
<1>5. ASSUME NEW t \in Threads, Ack(t) PROVE Goal
  <2>1. /\ pc' = [pc EXCEPT ![t] = "idle"] /\ tries' = [tries EXCEPT ![t] = 0]
        /\ cur' = [cur EXCEPT ![t] = NoMsg]
        /\ UNCHANGED <<rpc, rjob, due, payload, forgotten, starts, attempts,
                       retry, dlq>>
    BY <1>5 DEF Ack, Goto
  <2> QED
    BY <1>0, <2>1 DEF CountsOK, DeadLetterJustified, ThreadTypes
<1>6. ASSUME NEW w \in Workers, NEW m, Dispatch(w, m) \/ DispatchClaimed(w, m)
      PROVE  Goal
  <2>1. PICK s \in FreeSlots(w) : /\ pc' = [pc EXCEPT ![<<w, s>>] = "start"]
                                  /\ cur' = [cur EXCEPT ![<<w, s>>] = m]
                                  /\ tries' = [tries EXCEPT ![<<w, s>>] = 0]
    BY <1>6 DEF Dispatch, DispatchClaimed, StartGoroutine
  <2>2. UNCHANGED <<rpc, rjob, due, payload, forgotten, starts, attempts, retry,
                    dlq>>
    BY <1>6 DEF Dispatch, DispatchClaimed
  <2> QED
    BY <1>0, <2>1, <2>2 DEF CountsOK, DeadLetterJustified, ThreadTypes
<1>7. ASSUME NEW w \in Workers, Stop(w) PROVE Goal
  <2>1. \A t \in Threads : \/ pc'[t] = "idle"
                           \/ /\ pc'[t] = pc[t] /\ cur'[t] = cur[t]
                              /\ tries'[t] = tries[t]
    BY <1>7 DEF Stop
  <2>2. UNCHANGED <<payload, forgotten, starts, attempts, retry, dlq>>
    BY <1>7 DEF Stop
  <2>3. \A v \in Workers : \/ rpc'[v] = rpc[v] /\ rjob'[v] = rjob[v] /\ due'[v] = due[v]
                           \/ rpc'[v] = "poll" /\ due'[v] = {}
    BY <1>0, <1>7 DEF Stop, RetryTypes
  <2> QED
    BY <1>0, <2>1, <2>2, <2>3 DEF CountsOK, DeadLetterJustified
<1>8. ASSUME NEW j \in Jobs, Register(j) \/ Expire(j) PROVE Goal
  <2>1. /\ attempts' = [attempts EXCEPT ![j] = 0]
        /\ payload \cup forgotten \subseteq payload' \cup forgotten'
        /\ forgotten \subseteq forgotten'
        /\ UNCHANGED <<pc, cur, tries, rpc, rjob, due, starts, retry, dlq>>
    BY <1>8 DEF Register, Expire
  <2>2. \A i \in Jobs : attempts'[i] <= starts'[i]
    BY <1>0, <1>a, <2>1
  <2> QED
    BY <1>0, <2>1, <2>2 DEF CountsOK, DeadLetterJustified
<1>9. ASSUME NEW w \in Workers, RetryStep(w) PROVE Goal
  <2>1. UNCHANGED <<attempts, payload, starts, forgotten, pc, cur, tries>>
    BY <1>9 DEF RetryStep, RetryPoll, RetryRemove, RequeueMark, RequeueBury,
                RequeueDone, RequeueAdd, RequeueMissing, RetryCleanup
  <2>2. retry' \subseteq retry
    BY <1>9 DEF RetryStep, RetryPoll, RetryRemove, RequeueMark, RequeueBury,
                RequeueDone, RequeueAdd, RequeueMissing, RetryCleanup, Logged
  <2>3. \A j \in dlq' \ dlq : j \in forgotten
    <3>1. CASE RequeueBury(w)
      <4>1. rpc[w] = "bury" /\ dlq' \subseteq dlq \cup {rjob[w]}
        BY <3>1 DEF RequeueBury, Logged
      <4> QED
        BY <1>0, <4>1 DEF CountsOK
    <3>2. CASE \E j \in due[w] : RequeueMissing(w, j) \/ RequeueAdd(w, j)
      BY <3>2 DEF RequeueMissing, RequeueAdd
    <3>3. CASE \/ RetryPoll(w) \/ RetryRemove(w) \/ RequeueDone(w)
               \/ RequeueMark(w) \/ RetryCleanup(w)
      BY <3>3 DEF RetryPoll, RetryRemove, RequeueMark, RequeueDone, RetryCleanup
    <3> QED
      BY <1>9, <3>1, <3>2, <3>3 DEF RetryStep
  <2>4. \A v \in Workers : due'[v] \subseteq due[v] \cup retry
    <3>1. CASE \E j \in due[w] : RequeueMissing(w, j) \/ RequeueAdd(w, j)
      <4>1. PICK j \in due[w] : due' = [due EXCEPT ![w] = due[w] \ {j}]
        BY <3>1 DEF RequeueMissing, RequeueAdd
      <4> QED
        BY <1>0, <4>1 DEF RetryTypes
    <3>2. CASE RetryPoll(w)
      BY <1>0, <3>2 DEF RetryPoll, RetryTypes
    <3>3. CASE \/ RetryRemove(w) \/ RequeueDone(w) \/ RequeueMark(w)
               \/ RequeueBury(w) \/ RetryCleanup(w)
      BY <3>3 DEF RetryRemove, RequeueDone, RequeueMark, RequeueBury,
                  RetryCleanup
    <3> QED
      BY <1>9, <3>1, <3>2, <3>3 DEF RetryStep
  <2>5. \A v \in Workers : rpc'[v] = "bury" => rjob'[v] \in forgotten
    <3>1. CASE \E j \in due[w] : RequeueMissing(w, j)
      BY <1>0, <3>1 DEF RequeueMissing, RetryTypes, CountsOK
    <3>2. CASE \E j \in due[w] : RequeueAdd(w, j)
      BY <1>0, <3>2 DEF RequeueAdd, Logged, RetryTypes, CountsOK
    <3>3. CASE \/ RetryPoll(w) \/ RetryRemove(w) \/ RequeueDone(w)
               \/ RetryCleanup(w)
      BY <1>0, <3>3 DEF RetryPoll, RetryRemove, RequeueDone, RetryCleanup,
                        RetryTypes, CountsOK
    <3>4. CASE RequeueMark(w) \/ RequeueBury(w)
      BY <1>0, <3>4 DEF RequeueMark, RequeueBury, RetryTypes, CountsOK
    <3> QED
      BY <1>9, <3>1, <3>2, <3>3, <3>4 DEF RetryStep
  <2> QED
    BY <1>0, <2>1, <2>2, <2>3, <2>4, <2>5 DEF CountsOK, DeadLetterJustified
<1>10. ASSUME NEW w \in Workers,
              \/ AbandonClaim(w) \/ Start(w)
              \/ \E s \in Streams : Read(w, s) \/ Reclaim(w, s)
       PROVE  Goal
  BY <1>0, <1>10, CountsFrame DEF AbandonClaim, Start, Read, Reclaim, countVars
<1>11. ASSUME \/ Pause \/ Resume \/ UNCHANGED vars
              \/ \E m \in pel : Age(m)
              \/ \E j \in Jobs : Enqueue(j)
       PROVE  Goal
  BY <1>0, <1>11, CountsFrame DEF Pause, Resume, Age, Enqueue, vars, countVars
<1> QED
  BY <1>1, <1>2, <1>3, <1>4, <1>5, <1>6, <1>7, <1>8, <1>9, <1>10, <1>11
  DEF Next, Process, Loop, ReclaimStep

\* What CountsOK and DeadLetterJustified say holds in every state.
LEMMA DeadLetterAlways == Spec => []DeadLetterInv
<1>1. Init => DeadLetterInv
  <2>1. Init => CountsOK /\ DeadLetterJustified
    BY DEF Init, CountsOK, DeadLetterJustified
  <2> QED
    BY <2>1, TypeInit DEF DeadLetterInv
<1>2. DeadLetterInv /\ [Next]_vars => DeadLetterInv'
  BY CountsStep, TypeStep DEF DeadLetterInv
<1> QED
  BY <1>1, <1>2, PTL DEF Spec

\* A goroutine never has a number of tries above the starts of its job, and one
\* that buries a job has its tries used up: the count of attempts in the hash
\* (worker.go:432) does not run ahead, whatever is redelivered or lost.
THEOREM CountsAlways == Spec => []CountsOK
<1>1. DeadLetterInv => CountsOK
  BY DEF DeadLetterInv
<1> QED
  BY <1>1, DeadLetterAlways, PTL

\* A job reaches the dead-letter stream only when its payload is unusable, its
\* hash was lost, or it was started MaxAttempts times, whatever redeliveries,
\* requeue races and faults happened.
THEOREM DeadLettersJustified == Spec => []DeadLetterJustified
<1>1. DeadLetterInv => DeadLetterJustified
  BY DEF DeadLetterInv
<1> QED
  BY <1>1, DeadLetterAlways, PTL

----------------------------------------------------------------------------
(* The counters of grading:stats: they never undercount                      *)

\* The jobs whose hash shows status c.
Shown(c) == {j \in Jobs : status[j] = c}

StatsInv ==
  \A c \in Live : IsFiniteSet(Shown(c)) /\ stats[c] >= Cardinality(Shown(c))

\* A new status of one job puts it in one of these sets and out of the others.
LEMMA ShownChange ==
  ASSUME HashTypes, NEW j \in Jobs, NEW next,
         status' = [status EXCEPT ![j] = next], NEW c
  PROVE  Shown(c)' = IF c = next THEN Shown(c) \cup {j} ELSE Shown(c) \ {j}
<1>1. \A i \in Jobs : status'[i] = IF i = j THEN next ELSE status[i]
  BY DEF HashTypes
<1> QED
  BY <1>1 DEF Shown

\* The script counts the job where it puts it, and no longer where it was.
LEMMA TransitionCounts ==
  ASSUME HashTypes, StatsInv, NEW j \in Jobs, NEW next \in Counted,
         Transition(j, next)
  PROVE  StatsInv'
<1> SUFFICES ASSUME NEW c \in Live
             PROVE  IsFiniteSet(Shown(c)') /\ stats'[c] >= Cardinality(Shown(c)')
  BY DEF StatsInv
<1>1. c \in Counted /\ IsFiniteSet(Shown(c)) /\ stats[c] >= Cardinality(Shown(c))
  BY DEF StatsInv, Counted
<1>2. stats[c] \in Int /\ Cardinality(Shown(c)) \in Nat
  BY <1>1, FS_CardinalityType DEF HashTypes
<1>3. stats'[c] = stats[c] + (IF c = next THEN 1 ELSE 0)
                           - (IF c = status[j] /\ c \in Live THEN 1 ELSE 0)
  BY <1>1 DEF Transition
<1>4. Shown(c)' = IF c = next THEN Shown(c) \cup {j} ELSE Shown(c) \ {j}
  BY ShownChange DEF Transition
<1>5. j \in Shown(c) <=> status[j] = c
  BY DEF Shown
<1>6. CASE c = next
  <2>1. /\ IsFiniteSet(Shown(c) \cup {j})
        /\ Cardinality(Shown(c) \cup {j}) =
             IF j \in Shown(c) THEN Cardinality(Shown(c)) ELSE Cardinality(Shown(c)) + 1
    BY <1>1, FS_AddElement
  <2> QED
    BY <1>1, <1>2, <1>3, <1>4, <1>5, <1>6, <2>1
<1>7. CASE c # next
  <2>1. /\ IsFiniteSet(Shown(c) \ {j})
        /\ Cardinality(Shown(c) \ {j}) =
             IF j \in Shown(c) THEN Cardinality(Shown(c)) - 1 ELSE Cardinality(Shown(c))
    BY <1>1, FS_RemoveElement
  <2> QED
    BY <1>1, <1>2, <1>3, <1>4, <1>5, <1>7, <2>1
<1> QED
  BY <1>6, <1>7

\* The API counts the job as queued, wherever a worker has put it by then.
LEMMA RegisterCounts ==
  ASSUME HashTypes, StatsInv, NEW j \in Jobs, Register(j)
  PROVE  StatsInv'
<1> SUFFICES ASSUME NEW c \in Live
             PROVE  IsFiniteSet(Shown(c)') /\ stats'[c] >= Cardinality(Shown(c)')
  BY DEF StatsInv
<1>1. c \in Counted /\ IsFiniteSet(Shown(c)) /\ stats[c] >= Cardinality(Shown(c))
  BY DEF StatsInv, Counted
<1>2. stats[c] \in Int /\ Cardinality(Shown(c)) \in Nat
  BY <1>1, FS_CardinalityType DEF HashTypes
<1>3. stats'[c] = IF c = "queued" THEN stats[c] + 1 ELSE stats[c]
  BY <1>1 DEF Register, HashTypes
<1>4. Shown(c)' = IF c = "queued" THEN Shown(c) \cup {j} ELSE Shown(c) \ {j}
  BY ShownChange DEF Register
<1>5. /\ IsFiniteSet(Shown(c) \cup {j}) /\ IsFiniteSet(Shown(c) \ {j})
      /\ Cardinality(Shown(c) \cup {j}) =
           IF j \in Shown(c) THEN Cardinality(Shown(c)) ELSE Cardinality(Shown(c)) + 1
      /\ Cardinality(Shown(c) \ {j}) =
           IF j \in Shown(c) THEN Cardinality(Shown(c)) - 1 ELSE Cardinality(Shown(c))
  BY <1>1, FS_AddElement, FS_RemoveElement
<1>6. Cardinality(Shown(c) \cup {j}) \in Nat /\ Cardinality(Shown(c) \ {j}) \in Nat
  BY <1>5, FS_CardinalityType
<1> QED
  BY <1>2, <1>1, <1>3, <1>4, <1>5, <1>6

\* A hash that expires leaves its counter behind.
LEMMA ExpireCounts ==
  ASSUME HashTypes, StatsInv, NEW j \in Jobs, Expire(j)
  PROVE  StatsInv'
<1> SUFFICES ASSUME NEW c \in Live
             PROVE  IsFiniteSet(Shown(c)') /\ stats'[c] >= Cardinality(Shown(c)')
  BY DEF StatsInv
<1>1. c \in Counted /\ IsFiniteSet(Shown(c)) /\ stats[c] >= Cardinality(Shown(c))
  BY DEF StatsInv, Counted
<1>2. stats[c] \in Int /\ Cardinality(Shown(c)) \in Nat /\ stats' = stats
  BY <1>1, FS_CardinalityType DEF HashTypes, Expire
<1>3. Shown(c)' = Shown(c) \ {j}
  BY ShownChange DEF Expire, Live
<1>4. IsFiniteSet(Shown(c) \ {j}) /\ Cardinality(Shown(c) \ {j}) \in
          {Cardinality(Shown(c)), Cardinality(Shown(c)) - 1}
  BY <1>1, FS_RemoveElement
<1>5. Cardinality(Shown(c) \ {j}) \in Nat
  BY <1>4, FS_CardinalityType
<1> QED
  BY <1>1, <1>2, <1>3, <1>4, <1>5

\* Every step keeps StatsInv.
LEMMA StatsStep == TypeOK /\ StatsInv /\ [Next]_vars => StatsInv'
<1> SUFFICES ASSUME TypeOK, StatsInv, [Next]_vars PROVE StatsInv'
  OBVIOUS
<1> USE DEF hashVars
<1>1. HashTypes /\ RetryTypes /\ ThreadTypes
  BY DEF TypeOK
<1>2. ASSUME UNCHANGED <<status, stats>> PROVE StatsInv'
  BY <1>2 DEF StatsInv, Shown
<1>3. ASSUME NEW t \in Threads, Process(t) PROVE StatsInv'
  <2>1. CASE UNCHANGED <<status, stats>>
    BY <1>2, <2>1
  <2>2. CASE \E next \in Counted : Transition(cur[t].job, next) /\ pc[t] # "idle"
    BY <1>1, <2>2, CurJob, TransitionCounts
  <2>3. CASE \/ RecordHash(t) \/ CountAttempt(t) \/ Grade(t) \/ Announce(t)
             \/ StoreFailure(t) \/ AnnounceFailure(t) \/ Park(t) \/ Bury(t) \/ Ack(t)
    <3>1. UNCHANGED <<status, stats>>
      BY <2>3 DEF RecordHash, CountAttempt, Grade, Announce, StoreFailure,
         AnnounceFailure, Park, Bury, Ack
    <3> QED
      BY <1>2, <3>1
  <2>4. CASE \/ Reject(t) \/ MarkProcessing(t) \/ MarkCompleted(t)
             \/ MarkRetrying(t) \/ MarkFailed(t)
    <3>1. pc[t] # "idle" /\ \/ UNCHANGED <<status, stats>>
                            \/ \E next \in Counted : Transition(cur[t].job, next)
      BY <2>4 DEF Reject, MarkProcessing, MarkCompleted, MarkRetrying,
         MarkFailed, Goto, Logged, Counted, Live
    <3> QED
      BY <2>1, <2>2, <3>1
  <2> QED
    BY <1>3, <2>3, <2>4 DEF Process
<1>4. ASSUME NEW w \in Workers, RetryStep(w) PROVE StatsInv'
  <2>1. CASE RequeueMark(w)
    <3>1. rjob[w] \in Jobs
      BY <1>1, <2>1 DEF RequeueMark, RetryTypes
    <3>2. UNCHANGED <<status, stats>> \/ Transition(rjob[w], "queued")
      BY <2>1 DEF RequeueMark, Logged
    <3> QED
      BY <1>1, <1>2, <3>1, <3>2, TransitionCounts DEF Counted, Live
  <2>2. ASSUME NEW j \in due[w], RequeueMissing(w, j) PROVE StatsInv'
    <3>1. j \in Jobs
      BY <1>1 DEF RetryTypes
    <3>2. UNCHANGED <<status, stats>> \/ Transition(j, "failed")
      BY <2>2 DEF RequeueMissing, Logged
    <3> QED
      BY <1>1, <1>2, <3>1, <3>2, TransitionCounts DEF Counted, Live
  <2>3. CASE \/ RetryPoll(w) \/ RetryRemove(w) \/ RequeueBury(w)
             \/ RequeueDone(w) \/ RetryCleanup(w)
             \/ \E j \in due[w] : RequeueAdd(w, j)
    <3>1. UNCHANGED <<status, stats>>
      BY <2>3 DEF RetryPoll, RetryRemove, RequeueBury, RequeueDone,
         RetryCleanup, RequeueAdd
    <3> QED
      BY <1>2, <3>1
  <2> QED
    BY <1>4, <2>1, <2>2, <2>3 DEF RetryStep
<1>5. ASSUME NEW w \in Workers, Loop(w) \/ ReclaimStep(w) \/ Stop(w) \/ Start(w)
      PROVE  StatsInv'
  <2>1. UNCHANGED <<status, stats>>
    BY <1>5 DEF Loop, ReclaimStep, Read, Dispatch, Reclaim, DispatchClaimed,
       AbandonClaim, Stop, Start
  <2> QED
    BY <1>2, <2>1
<1>6. ASSUME \/ Pause \/ Resume \/ (\E m \in pel : Age(m))
             \/ (\E j \in Jobs : Enqueue(j)) \/ UNCHANGED vars
      PROVE  StatsInv'
  <2>1. UNCHANGED <<status, stats>>
    BY <1>6 DEF Pause, Resume, Age, Enqueue, vars
  <2> QED
    BY <1>2, <2>1
<1> QED
  BY <1>1, <1>3, <1>4, <1>5, <1>6, RegisterCounts, ExpireCounts DEF Next

\* grading:stats never shows fewer queued, active or retrying jobs than there
\* are, for any number of jobs and whatever expires, fails or is delivered
\* twice: it errs upwards only.
THEOREM NoUndercountAlways == Spec => []NoUndercount
<1>1. Init => StatsInv
  <2> SUFFICES ASSUME Init, NEW c \in Live
               PROVE  IsFiniteSet(Shown(c)) /\ stats[c] >= Cardinality(Shown(c))
    BY DEF StatsInv
  <2>1. Shown(c) = {} /\ stats[c] = 0
    BY DEF Init, Shown, Live, Counted
  <2> QED
    BY <2>1, FS_EmptySet
<1>2. StatsInv => NoUndercount
  BY DEF StatsInv, NoUndercount, Shown
<1> QED
  BY <1>1, <1>2, StatsStep, TypeCorrect, PTL DEF Spec

----------------------------------------------------------------------------
(* No accepted job is lost: the inductive invariant LossInv and its proof.   *)
(* The argument: a message disappears only by an acknowledgement, and an     *)
(* acknowledged message has left its job covered by something newer.         *)

coverVars == <<ready, pel, retry, dlq, graded, dropped, rpc, due, rjob>>

----------------------------------------------------------------------------
(* The entries of a stream *)

\* XADD appends one entry.
LEMMA EntriesAppend ==
  ASSUME NEW S, NEW q \in Seq(S), NEW e \in S
  PROVE  Entries(Append(q, e)) = Entries(q) \cup {e}
<1>1. Len(Append(q, e)) = Len(q) + 1 /\ Len(q) \in Nat
  OBVIOUS
<1>2. \A i \in 1..Len(q) : Append(q, e)[i] = q[i]
  OBVIOUS
<1>3. Append(q, e)[Len(q) + 1] = e
  OBVIOUS
<1>4. 1..(Len(q) + 1) = 1..Len(q) \cup {Len(q) + 1}
  BY <1>1
<1> QED
  BY <1>1, <1>2, <1>3, <1>4 DEF Entries

\* XREADGROUP takes a prefix and leaves the rest.
LEMMA EntriesSplit ==
  ASSUME NEW S, NEW q \in Seq(S), NEW n \in 0..Len(q)
  PROVE  Entries(q) = {q[i] : i \in 1..n} \cup Entries(SubSeq(q, n+1, Len(q)))
<1> DEFINE r == SubSeq(q, n + 1, Len(q))
<1>1. Len(q) \in Nat /\ n \in Nat /\ n <= Len(q)
  OBVIOUS
<1>2. Len(r) = Len(q) - n
  BY <1>1
<1>3. \A i \in 1..Len(r) : r[i] = q[n + i]
  BY <1>1, <1>2
<1> HIDE DEF r
<1>4. \A i \in 1..Len(q) : i \in 1..n \/ (i - n \in 1..Len(r) /\ r[i - n] = q[i])
  BY <1>1, <1>2, <1>3
<1>5. \A i \in 1..Len(r) : n + i \in 1..Len(q)
  BY <1>1, <1>2
<1>6. Entries(q) \subseteq {q[i] : i \in 1..n} \cup Entries(r)
  BY <1>4 DEF Entries
<1>7. Entries(r) \subseteq Entries(q)
  BY <1>3, <1>5 DEF Entries
<1>8. {q[i] : i \in 1..n} \subseteq Entries(q)
  BY <1>1 DEF Entries
<1> QED
  BY <1>6, <1>7, <1>8 DEF r

\* An XADD adds the job's next message to what is pending, and nothing else.
LEMMA XAddPending ==
  ASSUME StreamTypes, NEW j \in Jobs, XAdd(j)
  PROVE  Pending' = Pending \cup {[job |-> j, n |-> adds[j] + 1]}
<1> DEFINE e == [job |-> j, n |-> adds[j] + 1]
<1>1. StreamOf(j) \in {"high", "low"}
  BY DEF StreamOf
<1>2. e \in Msg
  BY DEF StreamTypes, Msg
<1>3. /\ ready' = [ready EXCEPT ![StreamOf(j)] = Append(@, e)]
      /\ pel' = pel
  BY DEF XAdd
<1>4. ready["high"] \in Seq(Msg) /\ ready["low"] \in Seq(Msg)
  BY DEF StreamTypes, Streams
<1>5. DOMAIN ready = {"high", "low"}
  BY DEF StreamTypes, Streams
<1> HIDE DEF e
<1>6. CASE StreamOf(j) = "high"
  <2>1. ready'["high"] = Append(ready["high"], e) /\ ready'["low"] = ready["low"]
    BY <1>3, <1>5, <1>6
  <2> QED
    BY <2>1, <1>2, <1>3, <1>4, EntriesAppend DEF Pending, e
<1>7. CASE StreamOf(j) = "low"
  <2>1. ready'["low"] = Append(ready["low"], e) /\ ready'["high"] = ready["high"]
    BY <1>3, <1>5, <1>7
  <2> QED
    BY <2>1, <1>2, <1>3, <1>4, EntriesAppend DEF Pending, e
<1> QED
  BY <1>1, <1>6, <1>7

\* A read moves entries to the pending list: what is pending is the same set,
\* and what the process gets in hand was in the stream.
LEMMA ReadPending ==
  ASSUME StreamTypes, NEW w \in Workers, NEW s \in Streams, Read(w, s)
  PROVE  /\ Pending' = Pending
         /\ inbox' = inbox \/ \E B \in SUBSET Entries(ready[s]) :
                                inbox' = [inbox EXCEPT ![w] = B]
<1> DEFINE n == ReadSize(w, s)
           batch == {ready[s][i] : i \in 1..n}
<1>1. n \in 0 .. Len(ready[s]) /\ ready[s] \in Seq(Msg)
  BY ReadCount DEF StreamTypes
<1>2. /\ ready' = [ready EXCEPT ![s] = SubSeq(@, n + 1, Len(@))]
      /\ pel' = pel \cup batch
      /\ inbox' \in {inbox, [inbox EXCEPT ![w] = batch]}
  BY DEF Read, ReadSize, Logged
<1> HIDE DEF n
<1>3. Entries(ready[s]) = batch \cup Entries(SubSeq(ready[s], n+1, Len(ready[s])))
  BY <1>1, EntriesSplit
<1>4. DOMAIN ready = {"high", "low"} /\ s \in {"high", "low"}
  BY DEF StreamTypes, Streams
<1> HIDE DEF batch
<1>5. Pending' = Pending
  <2>1. ready'[s] = SubSeq(ready[s], n + 1, Len(ready[s]))
    BY <1>2, <1>4
  <2>2. \A r \in {"high", "low"} : r # s => ready'[r] = ready[r]
    BY <1>2, <1>4
  <2>3. Entries(ready[s]) = batch \cup Entries(ready'[s])
    BY <1>3, <2>1
  <2>4. CASE s = "high"
    BY <1>2, <2>2, <2>3, <2>4 DEF Pending
  <2>5. CASE s = "low"
    BY <1>2, <2>2, <2>3, <2>5 DEF Pending
  <2> QED
    BY <1>4, <2>4, <2>5
<1> QED
  BY <1>2, <1>3, <1>5

----------------------------------------------------------------------------
(* Coverage is never withdrawn *)

\* The actions that touch nothing coverage is made of.
LEMMA CoveredFrame ==
  ASSUME NEW j \in Jobs, NEW k \in Nat, Covered(j, k), UNCHANGED coverVars
  PROVE  Covered(j, k)'
  BY DEF Covered, coverVars, InRequeue, Pending

\* A job covered beyond its k-th message stays so, whatever step is taken: a
\* requeue that ends leaves a newer message, an acknowledged message a newer
\* successor.
LEMMA CoverStep ==
  ASSUME LossInv, [Next]_vars, NEW j \in Jobs, NEW k \in Nat, k <= adds[j],
         Covered(j, k)
  PROVE  Covered(j, k)'
<1> USE DEF streamVars, loopVars, retryVars, threadVars, envVars, histVars
<1>0. TypeOK /\ StreamTypes /\ RetryTypes /\ ThreadTypes
  BY DEF LossInv, TypeOK
<1>1. ASSUME NEW i \in Jobs, Enqueue(i) PROVE Covered(j, k)'
  <2>1. Pending \subseteq Pending'
    BY <1>0, <1>1, XAddPending DEF Enqueue
  <2>2. \A w \in Workers : InRequeue(w)' = InRequeue(w)
    BY <1>1 DEF Enqueue, InRequeue
  <2> QED
    BY <1>1, <2>1, <2>2 DEF Enqueue, Covered
<1>2. ASSUME NEW w \in Workers, NEW s \in Streams, Read(w, s)
      PROVE  Covered(j, k)'
  <2>1. Pending' = Pending
    BY <1>0, <1>2, ReadPending
  <2>2. \A v \in Workers : InRequeue(v)' = InRequeue(v)
    BY <1>2 DEF Read, InRequeue
  <2> QED
    BY <1>2, <2>1, <2>2 DEF Read, Covered
<1>3. ASSUME NEW w \in Workers, RetryPoll(w) PROVE Covered(j, k)'
  <2>1. \A v \in Workers : InRequeue(v)' = InRequeue(v)
    BY <1>0, <1>3 DEF RetryPoll, InRequeue, RetryTypes
  <2> QED
    BY <1>3, <2>1 DEF RetryPoll, Covered, Pending
<1>4. ASSUME NEW w \in Workers, RetryRemove(w) PROVE Covered(j, k)'
  <2>1. \A v \in Workers : InRequeue(v) \subseteq InRequeue(v)'
    BY <1>0, <1>4 DEF RetryRemove, InRequeue, RetryTypes
  <2>2. retry \subseteq retry' \cup InRequeue(w)'
    BY <1>0, <1>4 DEF RetryRemove, Logged, InRequeue, RetryTypes
  <2> QED
    BY <1>4, <2>1, <2>2 DEF RetryRemove, Covered, Pending
<1>5. ASSUME NEW w \in Workers, NEW i \in Jobs, RequeueAdd(w, i)
      PROVE  Covered(j, k)'
  <2>1. \A v \in Workers : InRequeue(v) \subseteq InRequeue(v)' \cup {i}
    BY <1>0, <1>5 DEF RequeueAdd, Logged, InRequeue, RetryTypes
  <2>2. CASE XAdd(i) /\ UNCHANGED dropped
    <3> DEFINE e == [job |-> i, n |-> adds[i] + 1]
    <3>1. Pending' = Pending \cup {e}
      BY <1>0, <2>2, XAddPending
    <3>2. e.job = i /\ e.n = adds[i] + 1 /\ adds[i] \in Nat
      BY <1>0 DEF StreamTypes
    <3> HIDE DEF e
    <3>3. j = i => e.n > k
      BY <3>2
    <3>4. CASE j = i
      BY <3>1, <3>2, <3>3, <3>4 DEF Covered
    <3>5. CASE j # i
      BY <1>5, <2>1, <2>2, <3>1, <3>5 DEF RequeueAdd, Covered
    <3> QED
      BY <3>4, <3>5
  <2>3. CASE dropped' = dropped \cup {i} /\ UNCHANGED <<ready, pel>>
    BY <1>5, <2>1, <2>3 DEF RequeueAdd, Covered, Pending
  <2> QED
    BY <1>5, <2>2, <2>3 DEF RequeueAdd, Logged
<1>6. ASSUME NEW w \in Workers, RequeueMark(w) PROVE Covered(j, k)'
  <2>1. \A v \in Workers : InRequeue(v)' = InRequeue(v)
    BY <1>0, <1>6 DEF RequeueMark, InRequeue, RetryTypes
  <2> QED
    BY <1>6, <2>1 DEF RequeueMark, Covered, Pending
<1>7. ASSUME NEW w \in Workers, NEW i \in Jobs, RequeueMissing(w, i)
      PROVE  Covered(j, k)'
  <2>1. \A v \in Workers : InRequeue(v) \subseteq InRequeue(v)'
    BY <1>0, <1>7 DEF RequeueMissing, InRequeue, RetryTypes
  <2> QED
    BY <1>7, <2>1 DEF RequeueMissing, Covered, Pending
<1>8. ASSUME NEW w \in Workers, RequeueBury(w) PROVE Covered(j, k)'
  <2>1. \A v \in Workers : InRequeue(v) \subseteq InRequeue(v)' \cup dlq' \cup dropped'
    BY <1>0, <1>8 DEF RequeueBury, Logged, InRequeue, RetryTypes
  <2> QED
    BY <1>8, <2>1 DEF RequeueBury, Logged, Covered, Pending
<1>9. ASSUME NEW w \in Workers, RequeueDone(w) PROVE Covered(j, k)'
  <2>1. \A v \in Workers : InRequeue(v) \subseteq InRequeue(v)'
    BY <1>0, <1>9 DEF RequeueDone, InRequeue, RetryTypes
  <2> QED
    BY <1>9, <2>1 DEF RequeueDone, Covered, Pending
<1>10. ASSUME NEW t \in Threads, Grade(t) \/ Park(t) \/ Bury(t)
       PROVE  Covered(j, k)'
  <2>1. /\ graded \subseteq graded' /\ dlq \subseteq dlq' /\ dropped \subseteq dropped'
        /\ retry \subseteq retry' /\ UNCHANGED <<ready, pel, rpc, due, rjob>>
    BY <1>10 DEF Grade, Park, Bury, Logged
  <2> QED
    BY <2>1 DEF Covered, Pending, InRequeue
<1>11. ASSUME NEW t \in Threads, Ack(t) PROVE Covered(j, k)'
  <2>1. cur[t] \in Msg /\ Covered(cur[t].job, cur[t].n)
    BY <1>0, <1>11, CurJob DEF LossInv, AckSafe, Ack, Goto
  <2>2. UNCHANGED <<ready, retry, dlq, graded, dropped, rpc, due, rjob>>
    BY <1>11 DEF Ack
  <2>3. Pending \subseteq Pending' \cup {cur[t]}
    BY <1>11 DEF Ack, Logged, Pending
  <2>4. \A m \in Pending : m.n \in Nat
    <3>1. Entries(ready["high"]) \subseteq Msg /\ Entries(ready["low"]) \subseteq Msg
      BY <1>0 DEF StreamTypes, Entries, Streams
    <3> QED
      BY <1>0, <3>1 DEF StreamTypes, Pending, Msg
  <2>5. CASE \E m \in Pending : m # cur[t] /\ m.job = j /\ m.n > k
    BY <2>3, <2>5 DEF Covered
  <2>6. CASE cur[t].job = j /\ cur[t].n > k
    <3>1. Covered(j, cur[t].n) /\ cur[t].n \in Nat
      BY <2>1, <2>6 DEF Msg
    <3>2. CASE \E m \in Pending : m.job = j /\ m.n > cur[t].n
      BY <2>3, <2>4, <2>6, <3>1, <3>2 DEF Covered
    <3> QED
      BY <2>2, <3>1, <3>2 DEF Covered, InRequeue
  <2> QED
    BY <2>2, <2>5, <2>6 DEF Covered, InRequeue
<1>12. ASSUME NEW w \in Workers, Stop(w) PROVE Covered(j, k)'
  <2>1. \A v \in Workers : InRequeue(v) \subseteq InRequeue(v)' \cup dropped'
    BY <1>0, <1>12 DEF Stop, InRequeue, RetryTypes
  <2> QED
    BY <1>12, <2>1 DEF Stop, Covered, Pending
<1>21. ASSUME NEW w \in Workers, RetryCleanup(w) PROVE Covered(j, k)'
  BY <1>21 DEF RetryCleanup, Covered, Pending, InRequeue
<1>13. ASSUME NEW i \in Jobs, Register(i) \/ Expire(i) PROVE Covered(j, k)'
  BY <1>13, CoveredFrame DEF Register, Expire, coverVars
<1>14. CASE Pause \/ Resume \/ UNCHANGED vars
  BY <1>14, CoveredFrame DEF Pause, Resume, coverVars, vars
<1>15. ASSUME NEW w \in Workers, NEW m,
              Dispatch(w, m) \/ DispatchClaimed(w, m)
       PROVE  Covered(j, k)'
  BY <1>15, CoveredFrame DEF Dispatch, DispatchClaimed, coverVars
<1>16. ASSUME NEW w \in Workers, NEW s \in Streams, Reclaim(w, s)
       PROVE  Covered(j, k)'
  BY <1>16, CoveredFrame DEF Reclaim, coverVars
<1>17. ASSUME NEW w \in Workers, AbandonClaim(w) \/ Start(w)
       PROVE  Covered(j, k)'
  BY <1>17, CoveredFrame DEF AbandonClaim, Start, coverVars
<1>18. ASSUME NEW t \in Threads,
              \/ Reject(t) \/ RecordHash(t) \/ MarkProcessing(t)
              \/ CountAttempt(t) \/ Announce(t) \/ MarkCompleted(t)
              \/ StoreFailure(t) \/ AnnounceFailure(t) \/ MarkRetrying(t)
              \/ MarkFailed(t)
       PROVE  Covered(j, k)'
  BY <1>18, CoveredFrame
     DEF Reject, RecordHash, MarkProcessing, CountAttempt, Announce,
         MarkCompleted, StoreFailure, AnnounceFailure, MarkRetrying,
         MarkFailed, coverVars
<1>19. ASSUME NEW m \in pel, Age(m) PROVE Covered(j, k)'
  BY <1>19, CoveredFrame DEF Age, coverVars
<1>20. \A w \in Workers : due[w] \subseteq Jobs
  BY <1>0 DEF RetryTypes
<1> QED
  BY <1>1, <1>2, <1>3, <1>4, <1>5, <1>6, <1>7, <1>8, <1>9, <1>10, <1>11,
     <1>12, <1>13, <1>14, <1>15, <1>16, <1>17, <1>18, <1>19, <1>20,
     <1>21
  DEF Next, Process, Loop, ReclaimStep, RetryStep

----------------------------------------------------------------------------
(* The numbers of the messages *)

\* Enough for the numbers to stay right: no counter goes down, and whatever is
\* pending, in a batch or in a goroutine was there before or is well numbered.
LEMMA NumbersFrame ==
  ASSUME TypeOK, NumbersOK,
         adds' = adds, Pending' \subseteq Pending,
         \A w \in Workers : inbox'[w] \subseteq inbox[w] \cup Pending,
         \A w \in Workers : claimed'[w] \subseteq claimed[w] \cup Pending,
         \A t \in Threads : pc'[t] # "idle" =>
           \/ pc[t] # "idle" /\ cur'[t] = cur[t]
           \/ \E w \in Workers : cur'[t] \in inbox[w] \cup claimed[w]
  PROVE  NumbersOK'
  BY DEF NumbersOK

\* The same for the steps that only move a goroutine on.
LEMMA NumbersGoto ==
  ASSUME TypeOK, NumbersOK, NEW t \in Threads, NEW a, NEW b, a # "idle",
         Goto(t, a, b), UNCHANGED <<ready, pel, adds, inbox, claimed, cur>>
  PROVE  NumbersOK'
<1>1. \A u \in Threads : pc'[u] # "idle" => pc[u] # "idle" /\ cur'[u] = cur[u]
  BY DEF Goto, TypeOK, ThreadTypes
<1>2. Pending' = Pending
  BY DEF Pending
<1> QED
  BY <1>1, <1>2, NumbersFrame

\* An XADD gives its entry the number the job's counter reaches.
LEMMA NumbersAdd ==
  ASSUME TypeOK, NumbersOK, NEW j \in Jobs, XAdd(j),
         UNCHANGED <<inbox, claimed, pc, cur>>
  PROVE  NumbersOK'
<1> DEFINE e == [job |-> j, n |-> adds[j] + 1]
<1>1. adds \in [Jobs -> Nat] /\ adds' = [adds EXCEPT ![j] = @ + 1]
  BY DEF TypeOK, StreamTypes, XAdd
<1>2. \A i \in Jobs : adds[i] <= adds'[i] /\ adds[i] \in Nat /\ adds'[i] \in Nat
  BY <1>1
<1>3. Pending' = Pending \cup {e}
  BY XAddPending DEF TypeOK
<1>4. e.n <= adds'[e.job]
  BY <1>1
<1> HIDE DEF e
<1>5. \A m \in Msg : m.n <= adds[m.job] => m.n <= adds'[m.job]
  BY <1>2 DEF Msg
<1>6. Pending \subseteq Msg
  BY DEF TypeOK, StreamTypes, Pending, Entries, Streams
<1>7. \A m \in Pending' : m.n <= adds'[m.job]
  BY <1>3, <1>4, <1>5, <1>6 DEF NumbersOK
<1>8. \A w \in Workers : \A m \in inbox'[w] \cup claimed'[w] : m.n <= adds'[m.job]
  BY <1>5 DEF NumbersOK, TypeOK, LoopTypes
<1>9. \A t \in Threads : pc'[t] # "idle" => cur'[t].n <= adds'[cur'[t].job]
  BY <1>5 DEF NumbersOK, TypeOK, ThreadTypes
<1> QED
  BY <1>7, <1>8, <1>9 DEF NumbersOK

\* Every step keeps NumbersOK.
LEMMA NumbersStep ==
  ASSUME TypeOK, NumbersOK, [Next]_vars
  PROVE  NumbersOK'
<1> USE DEF streamVars, loopVars, retryVars, threadVars
<1>0. StreamTypes /\ LoopTypes /\ ThreadTypes /\ RetryTypes
  BY DEF TypeOK
<1>1. ASSUME NEW j \in Jobs, Enqueue(j) PROVE NumbersOK'
  BY <1>1, NumbersAdd DEF Enqueue
<1>2. ASSUME NEW w \in Workers, NEW s \in Streams, Read(w, s) PROVE NumbersOK'
  <2>1. /\ Pending' = Pending
        /\ inbox' = inbox \/ \E B \in SUBSET Entries(ready[s]) :
                               inbox' = [inbox EXCEPT ![w] = B]
    BY <1>0, <1>2, ReadPending
  <2>2. Entries(ready[s]) \subseteq Pending
    BY DEF Streams, Pending
  <2>3. \A v \in Workers : inbox'[v] \subseteq inbox[v] \cup Pending
    BY <1>0, <2>1, <2>2 DEF LoopTypes
  <2> QED
    BY <1>2, <2>1, <2>3, NumbersFrame DEF Read
<1>3. ASSUME NEW w \in Workers, NEW m \in inbox[w] \cup claimed[w],
             Dispatch(w, m) \/ DispatchClaimed(w, m)
      PROVE  NumbersOK'
  <2>1. PICK s \in FreeSlots(w) : /\ pc' = [pc EXCEPT ![<<w, s>>] = "start"]
                                  /\ cur' = [cur EXCEPT ![<<w, s>>] = m]
    BY <1>3 DEF Dispatch, DispatchClaimed, StartGoroutine
  <2>2. \A t \in Threads : pc'[t] # "idle" => \/ pc[t] # "idle" /\ cur'[t] = cur[t]
                                              \/ cur'[t] = m
    BY <1>0, <2>1 DEF ThreadTypes
  <2>3. /\ \A v \in Workers : inbox'[v] \subseteq inbox[v] /\ claimed'[v] \subseteq claimed[v]
        /\ UNCHANGED <<ready, pel, adds>>
    BY <1>0, <1>3 DEF Dispatch, DispatchClaimed, LoopTypes
  <2> QED
    BY <2>2, <2>3, NumbersFrame DEF Pending
<1>4. ASSUME NEW w \in Workers, NEW s \in Streams, Reclaim(w, s) PROVE NumbersOK'
  <2>1. \A v \in Workers : claimed'[v] \subseteq claimed[v] \cup Pending
    BY <1>0, <1>4 DEF Reclaim, LoopTypes, StreamTypes, Pending
  <2> QED
    BY <1>4, <2>1, NumbersFrame DEF Reclaim, Pending
<1>5. ASSUME NEW w \in Workers, NEW i \in Jobs, RequeueAdd(w, i) PROVE NumbersOK'
  <2>1. CASE XAdd(i)
    BY <1>5, <2>1, NumbersAdd DEF RequeueAdd
  <2>2. CASE UNCHANGED streamVars
    BY <1>5, <2>2, NumbersFrame DEF RequeueAdd, Pending
  <2> QED
    BY <1>5, <2>1, <2>2 DEF RequeueAdd, Logged
<1>6. ASSUME NEW w \in Workers,
             \/ AbandonClaim(w) \/ RetryPoll(w) \/ RetryRemove(w)
             \/ RequeueMark(w) \/ RequeueBury(w) \/ RequeueDone(w)
             \/ RetryCleanup(w) \/ Start(w)
             \/ \E j \in due[w] : RequeueMissing(w, j)
      PROVE  NumbersOK'
  <2>1. /\ UNCHANGED <<ready, pel, adds, inbox, pc, cur>>
        /\ \A v \in Workers : claimed'[v] \subseteq claimed[v]
    BY <1>0, <1>6
       DEF AbandonClaim, RetryPoll, RetryRemove, RequeueMark, RequeueBury,
           RequeueDone, RetryCleanup, Start, RequeueMissing, LoopTypes
  <2> QED
    BY <2>1, NumbersFrame DEF Pending
<1>7. ASSUME NEW w \in Workers, Stop(w) PROVE NumbersOK'
  <2>1. /\ UNCHANGED <<ready, pel, adds>>
        /\ \A v \in Workers : inbox'[v] \subseteq inbox[v] /\ claimed'[v] \subseteq claimed[v]
    BY <1>0, <1>7 DEF Stop, LoopTypes
  <2>2. \A t \in Threads : pc'[t] # "idle" => pc[t] # "idle" /\ cur'[t] = cur[t]
    BY <1>7 DEF Stop
  <2> QED
    BY <2>1, <2>2, NumbersFrame DEF Pending
<1>8. ASSUME NEW t \in Threads, Process(t), ~Ack(t) PROVE NumbersOK'
  <2>1. PICK a, b \in PCs : a # "idle" /\ Goto(t, a, b)
    BY <1>8 DEF Process, Reject, RecordHash, MarkProcessing, CountAttempt,
                Grade, Announce, MarkCompleted, StoreFailure, AnnounceFailure,
                MarkRetrying, MarkFailed, Park, Bury, PCs
  <2>2. UNCHANGED <<ready, pel, adds, inbox, claimed, cur>>
    BY <1>8 DEF Process, Reject, RecordHash, MarkProcessing, CountAttempt,
                Grade, Announce, MarkCompleted, StoreFailure, AnnounceFailure,
                MarkRetrying, MarkFailed, Park, Bury
  <2> QED
    BY <2>1, <2>2, NumbersGoto
<1>9. ASSUME NEW t \in Threads, Ack(t) PROVE NumbersOK'
  <2>1. Pending' \subseteq Pending
    BY <1>9 DEF Ack, Logged, Pending
  <2>2. \A u \in Threads : pc'[u] # "idle" => pc[u] # "idle" /\ cur'[u] = cur[u]
    BY <1>0, <1>9 DEF Ack, Goto, ThreadTypes
  <2> QED
    BY <1>9, <2>1, <2>2, NumbersFrame DEF Ack
<1>10. ASSUME UNCHANGED <<ready, pel, adds, inbox, claimed, pc, cur>>
       PROVE  NumbersOK'
  BY <1>10, NumbersFrame DEF Pending
<1>11. ASSUME NEW j \in Jobs, Register(j) \/ Expire(j) PROVE NumbersOK'
  BY <1>10, <1>11 DEF Register, Expire
<1>12. CASE Pause \/ Resume \/ UNCHANGED vars
  BY <1>10, <1>12 DEF Pause, Resume, vars
<1>13. ASSUME NEW m \in pel, Age(m) PROVE NumbersOK'
  BY <1>10, <1>13 DEF Age
<1>14. \A w \in Workers : due[w] \subseteq Jobs
  BY <1>0 DEF RetryTypes
<1> QED
  BY <1>1, <1>2, <1>3, <1>4, <1>5, <1>6, <1>7, <1>8, <1>9, <1>11, <1>12,
     <1>13, <1>14
  DEF Next, Loop, ReclaimStep, RetryStep

----------------------------------------------------------------------------
(* Acknowledgements *)

\* A goroutine gets to the announcement or the acknowledgement only by the
\* steps that store a grade, complete, park or bury its job.
LEMMA LateSteps ==
  ASSUME TypeOK, [Next]_vars, NEW t \in Threads,
         pc'[t] \in {"announce", "finish", "ack"}
  PROVE  /\ cur'[t] = cur[t] /\ pc[t] # "idle"
         /\ \/ pc'[t] = pc[t]
            \/ Grade(t) /\ cur[t].job \in graded'
            \/ Announce(t)
            \/ MarkCompleted(t)
            \/ Park(t) \/ Bury(t)
<1> USE DEF threadVars
<1> DEFINE Goal == /\ cur'[t] = cur[t] /\ pc[t] # "idle"
                   /\ \/ pc'[t] = pc[t]
                      \/ Grade(t) /\ cur[t].job \in graded'
                      \/ Announce(t)
                      \/ MarkCompleted(t)
                      \/ Park(t) \/ Bury(t)
<1>0. ThreadTypes
  BY DEF TypeOK
<1>1. CASE UNCHANGED <<pc, cur>>
  BY <1>1
<1>2. ASSUME NEW u \in Threads, Process(u), ~Ack(u) PROVE Goal
  <2>1. UNCHANGED cur
    BY <1>2 DEF Process, Reject, RecordHash, MarkProcessing, CountAttempt,
                Grade, Announce, MarkCompleted, StoreFailure, AnnounceFailure,
                MarkRetrying, MarkFailed, Park, Bury
  <2>2. CASE u # t
    <3>1. PICK a, b \in PCs : Goto(u, a, b)
      BY <1>2 DEF Process, Reject, RecordHash, MarkProcessing, CountAttempt,
                  Grade, Announce, MarkCompleted, StoreFailure,
                  AnnounceFailure, MarkRetrying, MarkFailed, Park, Bury, PCs
    <3> QED
      BY <1>0, <2>1, <2>2, <3>1 DEF Goto, ThreadTypes
  <2>3. CASE u = t
    <3>1. CASE Grade(t)
      BY <1>0, <2>1, <3>1 DEF Grade, Goto, ThreadTypes
    <3>2. CASE Announce(t) \/ MarkCompleted(t) \/ Park(t) \/ Bury(t)
      BY <2>1, <3>2 DEF Announce, MarkCompleted, Park, Bury, Goto
    <3>3. CASE \/ Reject(t) \/ RecordHash(t) \/ MarkProcessing(t)
               \/ CountAttempt(t) \/ StoreFailure(t) \/ AnnounceFailure(t)
               \/ MarkRetrying(t) \/ MarkFailed(t)
      BY <1>0, <3>3
         DEF Reject, RecordHash, MarkProcessing, CountAttempt, StoreFailure,
             AnnounceFailure, MarkRetrying, MarkFailed, Goto, ThreadTypes
    <3> QED
      BY <1>2, <2>3, <3>1, <3>2, <3>3 DEF Process
  <2> QED
    BY <2>2, <2>3
<1>3. ASSUME NEW u \in Threads, Ack(u) PROVE Goal
  BY <1>0, <1>3 DEF Ack, Goto, ThreadTypes
<1>4. ASSUME NEW w \in Workers, NEW m, Dispatch(w, m) \/ DispatchClaimed(w, m)
      PROVE  Goal
  <2>1. PICK s \in FreeSlots(w) : /\ pc' = [pc EXCEPT ![<<w, s>>] = "start"]
                                  /\ cur' = [cur EXCEPT ![<<w, s>>] = m]
    BY <1>4 DEF Dispatch, DispatchClaimed, StartGoroutine
  <2> QED
    BY <1>0, <2>1 DEF ThreadTypes
<1>5. ASSUME NEW w \in Workers, Stop(w) PROVE Goal
  BY <1>5 DEF Stop
<1>6. ASSUME NEW w \in Workers,
             \/ AbandonClaim(w) \/ RetryPoll(w) \/ RetryRemove(w)
             \/ RequeueMark(w) \/ RequeueBury(w) \/ RequeueDone(w)
             \/ RetryCleanup(w) \/ Start(w)
             \/ \E j \in due[w] : RequeueMissing(w, j) \/ RequeueAdd(w, j)
             \/ \E s \in Streams : Read(w, s) \/ Reclaim(w, s)
      PROVE  UNCHANGED <<pc, cur>>
  BY <1>6 DEF AbandonClaim, RetryPoll, RetryRemove, RequeueMark, RequeueBury,
              RequeueDone, RetryCleanup, Start, RequeueMissing, RequeueAdd, Read, Reclaim
<1>7. ASSUME NEW j \in Jobs, Enqueue(j) \/ Register(j) \/ Expire(j)
      PROVE  UNCHANGED <<pc, cur>>
  BY <1>7 DEF Enqueue, Register, Expire
<1>8. CASE Pause \/ Resume \/ (\E m \in pel : Age(m)) \/ UNCHANGED vars
  BY <1>1, <1>8 DEF Pause, Resume, Age, vars
<1> QED
  BY <1>1, <1>2, <1>3, <1>4, <1>5, <1>6, <1>7, <1>8
  DEF Next, Loop, ReclaimStep, RetryStep

\* A stored grade is stored for good, as far as coverage goes.
LEMMA GradedGrows == [Next]_vars => graded \subseteq graded'
<1> SUFFICES ASSUME [Next]_vars PROVE graded \subseteq graded'
  OBVIOUS
<1>1. ASSUME NEW t \in Threads, Process(t) PROVE graded \subseteq graded'
  BY <1>1 DEF Process, Reject, RecordHash, MarkProcessing, CountAttempt, Grade,
              Announce, MarkCompleted, StoreFailure, AnnounceFailure, histVars,
              MarkRetrying, MarkFailed, Park, Bury, Ack
<1>2. CASE ~\E t \in Threads : Process(t)
  BY <1>2 DEF Next, Loop, ReclaimStep, RetryStep, Enqueue, Register, Expire,
              Pause, Resume, Read, Dispatch, Reclaim, DispatchClaimed,
              AbandonClaim, RetryPoll, RetryRemove, RequeueMark, RequeueBury,
              RequeueDone, RequeueAdd, RequeueMissing, RetryCleanup, Stop,
              Start, Age,
              histVars, vars, Logged
<1> QED
  BY <1>1, <1>2

\* Every step keeps AckSafe.
LEMMA AckSafeStep ==
  ASSUME LossInv, [Next]_vars
  PROVE  AckSafe'
<1>0. TypeOK /\ AckSafe /\ NumbersOK /\ StreamTypes /\ ThreadTypes
  BY DEF LossInv, TypeOK
<1>1. ASSUME NEW t \in Threads, pc'[t] \in {"announce", "finish"}
      PROVE  cur'[t].job \in graded'
  <2>1. CASE pc'[t] = pc[t]
    BY <1>0, <1>1, <2>1, LateSteps, GradedGrows DEF AckSafe
  <2>2. CASE Grade(t) /\ cur[t].job \in graded'
    BY <1>0, <1>1, <2>2, LateSteps
  <2>3. CASE Announce(t)
    <3>1. cur[t].job \in graded
      BY <1>0, <2>3 DEF Announce, Goto, AckSafe
    <3> QED
      BY <1>0, <1>1, <3>1, LateSteps, GradedGrows
  <2>4. CASE MarkCompleted(t) \/ Park(t) \/ Bury(t)
    BY <1>0, <1>1, <2>4 DEF MarkCompleted, Park, Bury, Goto, ThreadTypes
  <2> QED
    BY <1>0, <1>1, <2>1, <2>2, <2>3, <2>4, LateSteps
<1>2. ASSUME NEW t \in Threads, pc'[t] = "ack",
             NEW j \in Jobs, NEW k \in Nat, j = cur[t].job, k = cur[t].n
      PROVE  Covered(j, k)'
  <2>1. pc'[t] \in {"announce", "finish", "ack"}
    BY <1>2
  <2>2. CASE pc'[t] = pc[t]
    <3>1. Covered(j, k) /\ k <= adds[j]
      BY <1>0, <1>2, <2>2 DEF AckSafe, NumbersOK
    <3> QED
      BY <3>1, CoverStep
  <2>3. CASE MarkCompleted(t)
    <3>1. j \in graded
      BY <1>0, <1>2, <2>3 DEF MarkCompleted, Goto, AckSafe
    <3> QED
      BY <3>1, GradedGrows DEF Covered
  <2>4. CASE Park(t)
    BY <1>2, <2>4 DEF Park, Logged, Covered
  <2>5. CASE Bury(t)
    BY <1>2, <2>5 DEF Bury, Logged, Covered
  <2>6. CASE Grade(t) \/ Announce(t)
    BY <1>0, <1>2, <2>6 DEF Grade, Announce, Goto, ThreadTypes
  <2> QED
    BY <1>0, <2>1, <2>2, <2>3, <2>4, <2>5, <2>6, LateSteps
<1>3. ASSUME NEW t \in Threads, pc'[t] = "ack"
      PROVE  Covered(cur[t].job, cur[t].n)'
  <2>1. cur'[t] = cur[t] /\ cur[t].job \in Jobs /\ cur[t].n \in Nat
    BY <1>0, <1>3, LateSteps, CurJob
  <2>2. PICK j \in Jobs, k \in Nat : j = cur[t].job /\ k = cur[t].n
    BY <2>1
  <2>3. Covered(j, k)'
    BY <1>2, <1>3, <2>2
  <2> QED
    BY <2>1, <2>2, <2>3 DEF Covered
<1> QED
  BY <1>1, <1>3 DEF AckSafe

----------------------------------------------------------------------------
(* The theorem *)

\* Every step keeps NoJobLost.
LEMMA NotLostStep ==
  ASSUME LossInv, [Next]_vars
  PROVE  NoJobLost'
<1>0. TypeOK /\ NoJobLost /\ StreamTypes
  BY DEF LossInv, TypeOK
<1> SUFFICES ASSUME NEW j \in Jobs, api'[j] # "new" PROVE Covered(j, 0)'
  BY DEF NoJobLost
<1>1. CASE api[j] # "new"
  <2>1. Covered(j, 0) /\ 0 <= adds[j]
    BY <1>0, <1>1 DEF NoJobLost, StreamTypes
  <2> QED
    BY <2>1, CoverStep
<1>2. CASE api[j] = "new"
  <2>1. Enqueue(j)
    <3>1. ASSUME NEW i \in Jobs, Enqueue(i) PROVE i = j
      BY <1>0, <1>2, <3>1 DEF TypeOK, OutcomeTypes, Enqueue
    <3>2. ASSUME NEW i \in Jobs, Register(i) PROVE FALSE
      <4>1. i # j
        BY <1>2, <3>2 DEF Register
      <4> QED
        BY <1>0, <1>2, <3>2, <4>1 DEF TypeOK, OutcomeTypes, Register
    <3>3. CASE UNCHANGED api
      BY <1>2, <3>3
    <3>4. \/ UNCHANGED api
          \/ \E i \in Jobs : Enqueue(i) \/ Register(i)
      <4>1. ASSUME NEW t \in Threads, Process(t) PROVE UNCHANGED api
        BY <4>1 DEF Process, Reject, RecordHash, MarkProcessing, CountAttempt,
                    Grade, Announce, MarkCompleted, StoreFailure,
                    AnnounceFailure, MarkRetrying, MarkFailed, Park, Bury, Ack
      <4>2. ASSUME NEW w \in Workers, RetryStep(w) PROVE UNCHANGED api
        BY <4>2 DEF RetryStep, RetryPoll, RetryRemove, RequeueMark, RequeueBury,
                    RequeueDone, RequeueAdd, RequeueMissing, RetryCleanup
      <4>3. ASSUME NEW w \in Workers,
                   Loop(w) \/ ReclaimStep(w) \/ Stop(w) \/ Start(w)
            PROVE  UNCHANGED api
        BY <4>3 DEF Loop, ReclaimStep, Read, Dispatch, Reclaim,
                    DispatchClaimed, AbandonClaim, Stop, Start
      <4>4. ASSUME \/ Pause \/ Resume \/ (\E m \in pel : Age(m))
                   \/ (\E i \in Jobs : Expire(i)) \/ UNCHANGED vars
            PROVE  UNCHANGED api
        BY <4>4 DEF Pause, Resume, Age, Expire, vars
      <4> QED
        BY <4>1, <4>2, <4>3, <4>4 DEF Next
    <3> QED
      BY <3>1, <3>2, <3>3, <3>4
  <2> DEFINE e == [job |-> j, n |-> adds[j] + 1]
  <2>2. Pending' = Pending \cup {e}
    BY <1>0, <2>1, XAddPending DEF Enqueue
  <2>3. e.job = j /\ e.n > 0
    BY <1>0 DEF StreamTypes
  <2> HIDE DEF e
  <2> QED
    BY <2>2, <2>3 DEF Covered
<1> QED
  BY <1>1, <1>2

\* In the initial state nothing was accepted.
LEMMA LossInit == Init => LossInv
<1> SUFFICES ASSUME Init PROVE LossInv
  OBVIOUS
<1>1. NumbersOK
  <2>1. Entries(<<>>) = {}
    BY DEF Entries
  <2> QED
    BY <2>1 DEF Init, NumbersOK, Pending, Streams
<1>2. AckSafe /\ NoJobLost
  BY DEF Init, AckSafe, NoJobLost
<1> QED
  BY <1>1, <1>2, TypeInit DEF LossInv

\* LossInv is inductive: it holds at first and every step keeps it.
THEOREM LossInvariant == Spec => []LossInv
<1>1. LossInv /\ [Next]_vars => LossInv'
  BY TypeStep, NumbersStep, AckSafeStep, NotLostStep DEF LossInv
<1> QED
  BY LossInit, <1>1, PTL DEF Spec

\* No accepted job is ever lost (outside the windows recorded in "dropped"),
\* for any number of jobs, graders, goroutines, stops, stalls and faults.
THEOREM NoJobLostAlways == Spec => []NoJobLost
<1>1. LossInv => NoJobLost
  BY DEF LossInv
<1> QED
  BY <1>1, LossInvariant, PTL

----------------------------------------------------------------------------
(* The queue implements GradingService: every step of the queue is a step  *)
(* of the service or changes nothing the service shows.  Needed is that    *)
(* whatever a process has in its hands was once accepted (Known, with the  *)
(* message numbers of LossInv), and that a grade is announced after it was *)
(* stored (AckSafe).                                                       *)

\* Jobs with a message, in the retry set or being requeued were accepted.
Known ==
  /\ \A j \in Jobs : adds[j] > 0 => j \in Accepted
  /\ retry \subseteq Accepted
  /\ \A w \in Workers : /\ due[w] \subseteq Accepted
                        /\ rpc[w] \in {"mark", "bury"} => rjob[w] \in Accepted

\* What a goroutine works on was accepted.
LEMMA CurAccepted ==
  ASSUME LossInv, Known, NEW t \in Threads, pc[t] # "idle"
  PROVE  cur[t].job \in Accepted
<1>1. cur[t] \in Msg /\ cur[t].n <= adds[cur[t].job]
  BY DEF LossInv, TypeOK, ThreadTypes, NumbersOK
<1>2. cur[t].job \in Jobs /\ adds[cur[t].job] \in Nat /\ cur[t].n > 0
  BY <1>1 DEF Msg, LossInv, TypeOK, StreamTypes
<1> QED
  BY <1>1, <1>2 DEF Known, Msg

\* Every step keeps Known: retry, due and rjob are filled from accepted jobs
\* only.
LEMMA KnownStep == LossInv /\ Known /\ [Next]_vars => Known'
<1> SUFFICES ASSUME LossInv, TypeOK, Known, [Next]_vars PROVE Known'
  BY DEF LossInv
<1> USE QueueAssumption DEF TypeOK, SetTypes, StreamTypes, OutcomeTypes,
    RetryTypes, ThreadTypes, HistoryTypes, streamVars, hashVars, loopVars,
    retryVars, threadVars, envVars, histVars, Logged
<1>1. ASSUME NEW j \in Jobs, Register(j) PROVE Known'
  BY <1>1 DEF Known, Accepted, Register
<1>2. ASSUME NEW j \in Jobs, Expire(j) PROVE Known'
  BY <1>2 DEF Known, Accepted, Expire
<1>3. ASSUME NEW w \in Workers, NEW s \in Streams, Read(w, s) PROVE Known'
  BY <1>3 DEF Known, Accepted, Read
<1>4. ASSUME NEW w \in Workers, NEW m \in inbox[w], Dispatch(w, m) PROVE Known'
  BY <1>4 DEF Known, Accepted, Dispatch
<1>5. ASSUME NEW w \in Workers, NEW s \in Streams, Reclaim(w, s) PROVE Known'
  BY <1>5 DEF Known, Accepted, Reclaim
<1>6. ASSUME NEW w \in Workers, NEW m \in claimed[w], DispatchClaimed(w, m)
       PROVE  Known'
  BY <1>6 DEF Known, Accepted, DispatchClaimed
<1>7. ASSUME NEW w \in Workers, AbandonClaim(w) PROVE Known'
  BY <1>7 DEF Known, Accepted, AbandonClaim
<1>8. ASSUME NEW w \in Workers, RetryPoll(w) PROVE Known'
  BY <1>8 DEF Known, Accepted, RetryPoll
<1>9. ASSUME NEW w \in Workers, RetryRemove(w) PROVE Known'
  BY <1>9 DEF Known, Accepted, RetryRemove
<1>10. ASSUME NEW w \in Workers, RequeueMark(w) PROVE Known'
  BY <1>10 DEF Known, Accepted, RequeueMark
<1>11. ASSUME NEW w \in Workers, RequeueDone(w) PROVE Known'
  BY <1>11 DEF Known, Accepted, RequeueDone
<1>12. ASSUME NEW w \in Workers, NEW j \in due[w], RequeueMissing(w, j)
       PROVE  Known'
  BY <1>12 DEF Known, Accepted, RequeueMissing
<1>13. ASSUME NEW w \in Workers, Start(w) PROVE Known'
  BY <1>13 DEF Known, Accepted, Start
<1>14. ASSUME NEW m \in pel, Age(m) PROVE Known'
  BY <1>14 DEF Known, Accepted, Age
<1>15. ASSUME NEW t \in Threads, Reject(t) PROVE Known'
  BY <1>15 DEF Known, Accepted, Reject
<1>16. ASSUME NEW t \in Threads, RecordHash(t) PROVE Known'
  BY <1>16 DEF Known, Accepted, RecordHash
<1>17. ASSUME NEW t \in Threads, MarkProcessing(t) PROVE Known'
  BY <1>17 DEF Known, Accepted, MarkProcessing
<1>18. ASSUME NEW t \in Threads, CountAttempt(t) PROVE Known'
  BY <1>18 DEF Known, Accepted, CountAttempt
<1>19. ASSUME NEW t \in Threads, MarkCompleted(t) PROVE Known'
  BY <1>19 DEF Known, Accepted, MarkCompleted
<1>20. ASSUME NEW t \in Threads, MarkRetrying(t) PROVE Known'
  BY <1>20 DEF Known, Accepted, MarkRetrying
<1>21. ASSUME NEW t \in Threads, MarkFailed(t) PROVE Known'
  BY <1>21 DEF Known, Accepted, MarkFailed
<1>22. ASSUME NEW t \in Threads, Ack(t) PROVE Known'
  BY <1>22 DEF Known, Accepted, Ack
<1>23. ASSUME NEW j \in Jobs, Enqueue(j) PROVE Known'
  BY <1>23 DEF Known, Accepted, Enqueue, XAdd
<1>24. ASSUME Pause PROVE Known'
  BY <1>24 DEF Known, Accepted, Pause
<1>25. ASSUME Resume PROVE Known'
  BY <1>25 DEF Known, Accepted, Resume
<1>26. ASSUME NEW t \in Threads, Grade(t) PROVE Known'
  BY <1>26 DEF Known, Accepted, Grade
<1>27. ASSUME NEW t \in Threads, StoreFailure(t) PROVE Known'
  BY <1>27 DEF Known, Accepted, StoreFailure
<1>28. ASSUME NEW t \in Threads, Announce(t) PROVE Known'
  BY <1>28 DEF Known, Accepted, Announce
<1>29. ASSUME NEW t \in Threads, AnnounceFailure(t) PROVE Known'
  BY <1>29 DEF Known, Accepted, AnnounceFailure
<1>30. ASSUME NEW t \in Threads, Park(t) PROVE Known'
  BY <1>30, CurAccepted DEF Known, Accepted, Park, Goto
<1>31. ASSUME NEW t \in Threads, Bury(t) PROVE Known'
  BY <1>31 DEF Known, Accepted, Bury
<1>32. ASSUME NEW w \in Workers, NEW j \in due[w], RequeueAdd(w, j)
       PROVE  Known'
  <2>1. j \in Accepted /\ Accepted' = Accepted /\ retry' = retry
    BY <1>32 DEF Known, Accepted, RequeueAdd
  <2>2. \A i \in Jobs : adds'[i] > 0 => i \in Accepted
    <3>1. CASE XAdd(j)
      BY <2>1, <3>1 DEF Known, XAdd
    <3>2. CASE UNCHANGED streamVars
      BY <3>2 DEF Known
    <3> QED
      BY <1>32, <3>1, <3>2 DEF RequeueAdd
  <2>3. \A v \in Workers :
          /\ due'[v] \subseteq Accepted
          /\ rpc'[v] \in {"mark", "bury"} => rjob'[v] \in Accepted
    <3>1. due' = [due EXCEPT ![w] = @ \ {j}]
      BY <1>32 DEF RequeueAdd
    <3>2. \/ UNCHANGED <<rpc, rjob>>
          \/ /\ rpc' = [rpc EXCEPT ![w] = "mark"]
             /\ rjob' = [rjob EXCEPT ![w] = j]
      BY <1>32 DEF RequeueAdd
    <3> QED
      BY <2>1, <3>1, <3>2 DEF Known
  <2> QED
    BY <2>1, <2>2, <2>3 DEF Known
<1>33. ASSUME NEW w \in Workers, RequeueBury(w) PROVE Known'
  BY <1>33 DEF Known, Accepted, RequeueBury
<1>34. ASSUME NEW w \in Workers, RetryCleanup(w) PROVE Known'
  BY <1>34 DEF Known, Accepted, RetryCleanup
<1>35. ASSUME NEW w \in Workers, Stop(w) PROVE Known'
  BY <1>35 DEF Known, Accepted, Stop
<1>36. CASE UNCHANGED vars
  BY <1>36 DEF Known, Accepted, vars
<1> QED
  BY <1>1, <1>2, <1>3, <1>4, <1>5, <1>6, <1>7, <1>8, <1>9, <1>10, <1>11,
     <1>12, <1>13, <1>14, <1>15, <1>16, <1>17, <1>18, <1>19, <1>20, <1>21,
     <1>22, <1>23, <1>24, <1>25, <1>26, <1>27, <1>28, <1>29, <1>30, <1>31,
     <1>32, <1>33, <1>34, <1>35, <1>36 DEF Next, Loop, ReclaimStep,
     RetryStep, Process

ServiceStep == Service!Next \/ UNCHANGED Service!vars

\* Most steps change nothing the service shows.
LEMMA Unseen ==
  UNCHANGED <<api, graded, dlq, dropped, result, told, paused>> => ServiceStep
<1> SUFFICES ASSUME UNCHANGED <<api, graded, dlq, dropped, result, told, paused>>
             PROVE  UNCHANGED Service!vars
  BY DEF ServiceStep
<1>1. Accepted' = Accepted /\ Fate' = Fate
  BY DEF Accepted, Fate
<1> QED
  BY <1>1 DEF Service!vars

\* What became of one more job.
LEMMA FateGraded ==
  ASSUME NEW j \in Jobs, graded' = graded \cup {j}, UNCHANGED <<dlq, dropped>>
  PROVE  Fate' = [Fate EXCEPT ![j] = @ \cup {"graded"}]
<1>1. \A i \in Jobs : Fate'[i] = IF i = j THEN Fate[i] \cup {"graded"} ELSE Fate[i]
  BY DEF Fate
<1> QED
  BY <1>1 DEF Fate

\* Likewise of a job that is dead-lettered.
LEMMA FateBuried ==
  ASSUME NEW j \in Jobs, dlq' = dlq \cup {j}, UNCHANGED <<graded, dropped>>
  PROVE  Fate' = [Fate EXCEPT ![j] = @ \cup {"buried"}]
<1>1. \A i \in Jobs : Fate'[i] = IF i = j THEN Fate[i] \cup {"buried"} ELSE Fate[i]
  BY DEF Fate
<1> QED
  BY <1>1 DEF Fate

\* A step of the queue is a step of the service.
LEMMA Simulation == LossInv /\ Known /\ [Next]_vars => ServiceStep
<1> SUFFICES ASSUME LossInv, TypeOK, Known, [Next]_vars PROVE ServiceStep
  BY DEF LossInv
<1> USE QueueAssumption DEF TypeOK, SetTypes, StreamTypes, OutcomeTypes,
    RetryTypes, ThreadTypes, HistoryTypes, streamVars, hashVars, loopVars,
    retryVars, threadVars, envVars, histVars
<1>1. ASSUME NEW j \in Jobs, Register(j) PROVE ServiceStep
  <2>1. Accepted' = Accepted /\ Fate' = Fate
    BY <1>1 DEF Register, Accepted, Fate
  <2> QED
    BY <1>1, <2>1 DEF Register, ServiceStep, Service!vars
<1>2. ASSUME NEW j \in Jobs, Expire(j) PROVE ServiceStep
  BY <1>2, Unseen DEF Expire
<1>3. ASSUME NEW w \in Workers, NEW s \in Streams, Read(w, s) PROVE ServiceStep
  BY <1>3, Unseen DEF Read
<1>4. ASSUME NEW w \in Workers, NEW m \in inbox[w], Dispatch(w, m)
       PROVE  ServiceStep
  BY <1>4, Unseen DEF Dispatch
<1>5. ASSUME NEW w \in Workers, NEW s \in Streams, Reclaim(w, s)
       PROVE  ServiceStep
  BY <1>5, Unseen DEF Reclaim
<1>6. ASSUME NEW w \in Workers, NEW m \in claimed[w], DispatchClaimed(w, m)
       PROVE  ServiceStep
  BY <1>6, Unseen DEF DispatchClaimed
<1>7. ASSUME NEW w \in Workers, AbandonClaim(w) PROVE ServiceStep
  BY <1>7, Unseen DEF AbandonClaim
<1>8. ASSUME NEW w \in Workers, RetryPoll(w) PROVE ServiceStep
  BY <1>8, Unseen DEF RetryPoll
<1>9. ASSUME NEW w \in Workers, RetryRemove(w) PROVE ServiceStep
  BY <1>9, Unseen DEF RetryRemove
<1>10. ASSUME NEW w \in Workers, RequeueMark(w) PROVE ServiceStep
  BY <1>10, Unseen DEF RequeueMark
<1>11. ASSUME NEW w \in Workers, RequeueDone(w) PROVE ServiceStep
  BY <1>11, Unseen DEF RequeueDone
<1>12. ASSUME NEW w \in Workers, NEW j \in due[w], RequeueMissing(w, j)
       PROVE  ServiceStep
  BY <1>12, Unseen DEF RequeueMissing
<1>13. ASSUME NEW w \in Workers, Start(w) PROVE ServiceStep
  BY <1>13, Unseen DEF Start
<1>14. ASSUME NEW m \in pel, Age(m) PROVE ServiceStep
  BY <1>14, Unseen DEF Age
<1>15. ASSUME NEW t \in Threads, Reject(t) PROVE ServiceStep
  BY <1>15, Unseen DEF Reject
<1>16. ASSUME NEW t \in Threads, RecordHash(t) PROVE ServiceStep
  BY <1>16, Unseen DEF RecordHash
<1>17. ASSUME NEW t \in Threads, MarkProcessing(t) PROVE ServiceStep
  BY <1>17, Unseen DEF MarkProcessing
<1>18. ASSUME NEW t \in Threads, CountAttempt(t) PROVE ServiceStep
  BY <1>18, Unseen DEF CountAttempt
<1>19. ASSUME NEW t \in Threads, MarkCompleted(t) PROVE ServiceStep
  BY <1>19, Unseen DEF MarkCompleted
<1>20. ASSUME NEW t \in Threads, MarkRetrying(t) PROVE ServiceStep
  BY <1>20, Unseen DEF MarkRetrying
<1>21. ASSUME NEW t \in Threads, MarkFailed(t) PROVE ServiceStep
  BY <1>21, Unseen DEF MarkFailed
<1>22. ASSUME NEW t \in Threads, Ack(t) PROVE ServiceStep
  BY <1>22, Unseen DEF Ack
<1>23. ASSUME NEW j \in Jobs, Enqueue(j) PROVE ServiceStep
  <2>1. Service!Accept(j)
    BY <1>23 DEF Service!Accept, Enqueue, Accepted, Fate
  <2> QED
    BY <2>1 DEF ServiceStep, Service!Next
<1>24. ASSUME Pause PROVE ServiceStep
  <2>1. UNCHANGED <<Accepted, Fate, result, told>>
    BY <1>24 DEF Pause, Accepted, Fate
  <2>2. CASE paused' = paused
    BY <2>1, <2>2 DEF ServiceStep, Service!vars
  <2>3. CASE paused' # paused
    <3>1. paused' = ~paused
      BY <1>24, <2>3 DEF Pause
    <3> QED
      BY <2>1, <3>1 DEF ServiceStep, Service!Next, Service!Switch
  <2> QED
    BY <2>2, <2>3
<1>25. ASSUME Resume PROVE ServiceStep
  <2>1. UNCHANGED <<Accepted, Fate, result, told>>
    BY <1>25 DEF Resume, Accepted, Fate
  <2>2. CASE paused' = paused
    BY <2>1, <2>2 DEF ServiceStep, Service!vars
  <2>3. CASE paused' # paused
    <3>1. paused' = ~paused
      BY <1>25, <2>3 DEF Resume
    <3> QED
      BY <2>1, <3>1 DEF ServiceStep, Service!Next, Service!Switch
  <2> QED
    BY <2>2, <2>3
<1>26. ASSUME NEW t \in Threads, Grade(t) PROVE ServiceStep
  <2>1. cur[t].job \in Accepted
    BY <1>26, CurAccepted DEF Grade, Goto
  <2>2. CASE /\ graded' = graded \cup {cur[t].job}
             /\ \E r \in {"graded", "infra"} :
                  result' = [result EXCEPT ![cur[t].job] = r]
    <3>1. Service!Grade(cur[t].job)
      BY <1>26, <2>1, <2>2, FateGraded DEF Service!Grade, Grade, Accepted
    <3> QED
      BY <2>1, <3>1 DEF ServiceStep, Service!Next, Accepted
  <2>3. CASE UNCHANGED <<result, graded>>
    BY <1>26, <2>3, Unseen DEF Grade
  <2> QED
    BY <1>26, <2>2, <2>3 DEF Grade
<1>27. ASSUME NEW t \in Threads, StoreFailure(t) PROVE ServiceStep
  <2>1. cur[t].job \in Accepted
    BY <1>27, CurAccepted DEF StoreFailure, Goto
  <2>2. CASE result' = [result EXCEPT ![cur[t].job] = "error"]
    <3>1. Service!Fail(cur[t].job)
      BY <1>27, <2>1, <2>2 DEF Service!Fail, StoreFailure, Accepted, Fate
    <3> QED
      BY <2>1, <3>1 DEF ServiceStep, Service!Next, Accepted
  <2>3. CASE UNCHANGED result
    BY <1>27, <2>3, Unseen DEF StoreFailure
  <2> QED
    BY <1>27, <2>2, <2>3 DEF StoreFailure
<1>28. ASSUME NEW t \in Threads, Announce(t) PROVE ServiceStep
  <2>1. cur[t].job \in Accepted
    BY <1>28, CurAccepted DEF Announce, Goto
  <2>2. CASE told' = [told EXCEPT ![cur[t].job] = "grade"]
    <3>1. cur[t].job \in graded
      BY <1>28 DEF Announce, Goto, LossInv, AckSafe
    <3>2. Service!AnnounceGrade(cur[t].job)
      BY <1>28, <2>1, <2>2, <3>1 DEF Service!AnnounceGrade, Announce,
         Accepted, Fate
    <3> QED
      BY <2>1, <3>2 DEF ServiceStep, Service!Next, Accepted
  <2>3. CASE UNCHANGED told
    BY <1>28, <2>3, Unseen DEF Announce
  <2> QED
    BY <1>28, <2>2, <2>3 DEF Announce, Logged
<1>29. ASSUME NEW t \in Threads, AnnounceFailure(t) PROVE ServiceStep
  <2>1. cur[t].job \in Accepted
    BY <1>29, CurAccepted DEF AnnounceFailure, Goto
  <2>2. CASE told' = [told EXCEPT ![cur[t].job] = "error"]
    <3>1. Service!AnnounceError(cur[t].job)
      BY <1>29, <2>1, <2>2 DEF Service!AnnounceError, AnnounceFailure,
         Accepted, Fate
    <3> QED
      BY <2>1, <3>1 DEF ServiceStep, Service!Next, Accepted
  <2>3. CASE UNCHANGED told
    BY <1>29, <2>3, Unseen DEF AnnounceFailure
  <2> QED
    BY <1>29, <2>2, <2>3 DEF AnnounceFailure, Logged
<1>30. ASSUME NEW t \in Threads, Park(t) PROVE ServiceStep
  <2>1. cur[t].job \in Accepted
    BY <1>30, CurAccepted DEF Park, Goto
  <2>2. CASE dropped' = dropped \cup {cur[t].job} /\ UNCHANGED dlq
    <3>1. Service!Drop({cur[t].job})
      BY <1>30, <2>1, <2>2 DEF Service!Drop, Park, Accepted, Fate
    <3> QED
      BY <2>1, <3>1 DEF ServiceStep, Service!Next, Accepted
  <2>3. CASE UNCHANGED dropped
    BY <1>30, <2>3, Unseen DEF Park
  <2> QED
    BY <1>30, <2>2, <2>3 DEF Park, Logged
<1>31. ASSUME NEW t \in Threads, Bury(t) PROVE ServiceStep
  <2>1. cur[t].job \in Accepted
    BY <1>31, CurAccepted DEF Bury, Goto
  <2>2. CASE dropped' = dropped \cup {cur[t].job} /\ UNCHANGED dlq
    <3>1. Service!Drop({cur[t].job})
      BY <1>31, <2>1, <2>2 DEF Service!Drop, Bury, Accepted, Fate
    <3> QED
      BY <2>1, <3>1 DEF ServiceStep, Service!Next, Accepted
  <2>3. CASE dlq' = dlq \cup {cur[t].job} /\ UNCHANGED dropped
    <3>1. Service!Bury(cur[t].job)
      BY <1>31, <2>1, <2>3, FateBuried DEF Service!Bury, Bury, Accepted
    <3> QED
      BY <2>1, <3>1 DEF ServiceStep, Service!Next, Accepted
  <2> QED
    BY <1>31, <2>2, <2>3 DEF Bury, Logged
<1>32. ASSUME NEW w \in Workers, NEW j \in due[w], RequeueAdd(w, j)
       PROVE  ServiceStep
  <2>1. j \in Accepted
    BY <1>32 DEF Known
  <2>2. CASE dropped' = dropped \cup {j} /\ UNCHANGED dlq
    <3>1. Service!Drop({j})
      BY <1>32, <2>1, <2>2 DEF Service!Drop, RequeueAdd, Accepted, Fate
    <3> QED
      BY <2>1, <3>1 DEF ServiceStep, Service!Next, Accepted
  <2>3. CASE UNCHANGED dropped
    BY <1>32, <2>3, Unseen DEF RequeueAdd
  <2> QED
    BY <1>32, <2>2, <2>3 DEF RequeueAdd, Logged
<1>33. ASSUME NEW w \in Workers, RequeueBury(w) PROVE ServiceStep
  <2>1. rjob[w] \in Accepted
    BY <1>33 DEF Known, RequeueBury
  <2>2. CASE dropped' = dropped \cup {rjob[w]} /\ UNCHANGED dlq
    <3>1. Service!Drop({rjob[w]})
      BY <1>33, <2>1, <2>2 DEF Service!Drop, RequeueBury, Accepted, Fate
    <3> QED
      BY <2>1, <3>1 DEF ServiceStep, Service!Next, Accepted
  <2>3. CASE dlq' = dlq \cup {rjob[w]} /\ UNCHANGED dropped
    <3>1. Service!Bury(rjob[w])
      BY <1>33, <2>1, <2>3, FateBuried DEF Service!Bury, RequeueBury,
         Accepted
    <3> QED
      BY <2>1, <3>1 DEF ServiceStep, Service!Next, Accepted
  <2> QED
    BY <1>33, <2>2, <2>3 DEF RequeueBury, Logged
<1>34. ASSUME NEW w \in Workers, RetryCleanup(w) PROVE ServiceStep
  <2>1. PICK S \in SUBSET retry : dropped' = dropped \cup S
    BY <1>34 DEF RetryCleanup
  <2>2. S \subseteq Accepted
    BY DEF Known
  <2>3. Service!Drop(S)
    BY <1>34, <2>1, <2>2 DEF Service!Drop, RetryCleanup, Accepted, Fate
  <2> QED
    BY <2>2, <2>3 DEF ServiceStep, Service!Next, Accepted
<1>35. ASSUME NEW w \in Workers, Stop(w) PROVE ServiceStep
  <2>1. InRequeue(w) \subseteq Accepted
    BY <1>35 DEF Known, InRequeue
  <2>2. Service!Drop(InRequeue(w))
    BY <1>35, <2>1 DEF Service!Drop, Stop, Accepted, Fate
  <2> QED
    BY <2>1, <2>2 DEF ServiceStep, Service!Next, Accepted
<1>36. CASE UNCHANGED vars
  BY <1>36, Unseen DEF vars
<1> QED
  BY <1>1, <1>2, <1>3, <1>4, <1>5, <1>6, <1>7, <1>8, <1>9, <1>10, <1>11,
     <1>12, <1>13, <1>14, <1>15, <1>16, <1>17, <1>18, <1>19, <1>20, <1>21,
     <1>22, <1>23, <1>24, <1>25, <1>26, <1>27, <1>28, <1>29, <1>30, <1>31,
     <1>32, <1>33, <1>34, <1>35, <1>36 DEF Next, Loop, ReclaimStep,
     RetryStep, Process

\* Known holds in every state.
LEMMA KnownAlways == Spec => []Known
<1>1. Init => Known
  BY QueueAssumption DEF Init, Known
<1> QED
  BY <1>1, LossInvariant, KnownStep, PTL DEF Spec

\* The queue implements the safety part of the service, for any number of jobs,
\* processes, slots and mishaps.
THEOREM ServiceImplemented == Spec => ServiceSteps
<1>1. Init => Service!Init
  BY DEF Init, Service!Init, Accepted, Fate
<1>2. LossInv /\ Known /\ [Next]_vars => [Service!Next]_(Service!vars)
  BY Simulation DEF ServiceStep
<1> QED
  BY <1>1, <1>2, LossInvariant, KnownAlways, PTL
     DEF Spec, ServiceSteps, Service!Spec
-----------------------------------------------------------------------------
(* A job is graded by one goroutine at a time, and its grade stays, until  *)
(* it is delivered again: the inductive invariant SoleInv and its proof.   *)
(* The argument: XADDs and parkings of a job alternate, so that its one    *)
(* undelivered or unfinished message is in one place; a job that leaves    *)
(* this discipline is in duplicated.                                       *)

\* Where the message of a job can be: in a stream, in a batch that was read, in
\* a goroutine that has not handed the job over.
Waiting(j) == \E s \in Streams : \E i \in 1..Len(ready[s]) : ready[s][i].job = j
Fetched(j) == \E w \in Workers : \E m \in inbox[w] : m.job = j
WorkedBy(t, j) == pc[t] \notin {"idle", "ack"} /\ cur[t].job = j
Worked(j) == \E t \in Threads : WorkedBy(t, j)

OnePlace(j) ==
  /\ ~(Waiting(j) /\ Fetched(j))
  /\ ~(Waiting(j) /\ Worked(j))
  /\ ~(Fetched(j) /\ Worked(j))
  /\ \A s, r \in Streams : \A i \in 1..Len(ready[s]), k \in 1..Len(ready[r]) :
       ready[s][i].job = j /\ ready[r][k].job = j => s = r /\ i = k
  /\ \A w, v \in Workers : \A m \in inbox[w], n \in inbox[v] :
       m.job = j /\ n.job = j => w = v /\ m = n
  /\ \A t, u \in Threads : WorkedBy(t, j) /\ WorkedBy(u, j) => t = u

\* A job with a message somewhere was added once more than parked; a job with a
\* stored grade too, and whoever still has it is past the failure path.
Sole(j) ==
  /\ parks[j] <= adds[j]
  /\ Waiting(j) \/ Fetched(j) \/ Worked(j) => parks[j] < adds[j]
  /\ OnePlace(j)
  /\ \A w \in Workers : \A m \in claimed[w] : m.job # j
  /\ result[j] \in {"graded", "infra"} =>
       /\ parks[j] < adds[j] /\ ~Waiting(j) /\ ~Fetched(j)
       /\ \A t \in Threads : WorkedBy(t, j) => pc[t] \in {"announce", "finish"}

SoleInv == \A j \in Jobs : j \in duplicated \/ Sole(j)

----------------------------------------------------------------------------
(* Steps that put no message of a job anywhere *)

\* What cannot break the discipline of a job: its counters stay, no message of
\* it gets into a stream, a batch, a claim or a goroutine, its result changes to
\* an error at most, and a goroutine past the failure path stays there.
LEMMA SoleFrame ==
  ASSUME NEW j \in Jobs, Sole(j),
         parks'[j] = parks[j], adds'[j] = adds[j],
         result'[j] \in {result[j], "error"},
         \A s \in Streams : \A i \in 1..Len(ready'[s]) :
           ready'[s][i].job = j => i \in 1..Len(ready[s]) /\ ready[s][i].job = j,
         \A w \in Workers : \A m \in inbox'[w] : m.job = j => m \in inbox[w],
         \A w \in Workers : \A m \in claimed'[w] : m.job # j,
         \A t \in Threads : WorkedBy(t, j)' =>
           /\ WorkedBy(t, j)
           /\ pc[t] \in {"announce", "finish"} => pc'[t] \in {"announce", "finish"}
  PROVE  Sole(j)'
<1>1. Waiting(j)' => Waiting(j)
  BY DEF Waiting
<1>2. Fetched(j)' => Fetched(j)
  BY DEF Fetched
<1>3. Worked(j)' => Worked(j)
  BY DEF Worked
<1>4. OnePlace(j)'
  <2>1. \A s, r \in Streams : \A i \in 1..Len(ready'[s]), k \in 1..Len(ready'[r]) :
          ready'[s][i].job = j /\ ready'[r][k].job = j => s = r /\ i = k
    BY DEF Sole, OnePlace
  <2>2. \A w, v \in Workers : \A m \in inbox'[w], n \in inbox'[v] :
          m.job = j /\ n.job = j => w = v /\ m = n
    BY DEF Sole, OnePlace
  <2>3. \A t, u \in Threads : WorkedBy(t, j)' /\ WorkedBy(u, j)' => t = u
    BY DEF Sole, OnePlace
  <2> HIDE DEF Streams
  <2> QED
    BY <1>1, <1>2, <1>3, <2>1, <2>2, <2>3 DEF Sole, OnePlace
<1>5. result'[j] \in {"graded", "infra"} =>
        \A t \in Threads : WorkedBy(t, j)' => pc'[t] \in {"announce", "finish"}
  BY DEF Sole
<1> QED
  BY <1>1, <1>2, <1>3, <1>4, <1>5 DEF Sole

\* The same for all jobs, when no message moves and only a goroutine may go on.
LEMMA SoleStays ==
  ASSUME TypeOK, SoleInv,
         UNCHANGED <<ready, adds, inbox, claimed, parks, result, duplicated, cur>>,
         \A t \in Threads :
           \/ pc'[t] \in {pc[t], "idle", "ack"}
           \/ pc[t] \notin {"idle", "ack", "announce", "finish"}
           \/ pc[t] = "announce" /\ pc'[t] = "finish"
  PROVE  SoleInv'
<1> SUFFICES ASSUME NEW j \in Jobs, j \notin duplicated, Sole(j) PROVE Sole(j)'
  BY DEF SoleInv
<1>1. \A t \in Threads : WorkedBy(t, j)' =>
        /\ WorkedBy(t, j)
        /\ pc[t] \in {"announce", "finish"} => pc'[t] \in {"announce", "finish"}
  BY DEF WorkedBy
<1>2. \A w \in Workers : \A m \in claimed'[w] : m.job # j
  BY DEF Sole
<1> QED
  BY <1>1, <1>2, SoleFrame

\* Where the entries of a stream are after an XADD.
LEMMA AddedPlaces ==
  ASSUME StreamTypes, NEW j \in Jobs, XAdd(j)
  PROVE  \A s \in Streams : \A i \in 1..Len(ready'[s]) :
           \/ i \in 1..Len(ready[s]) /\ ready'[s][i] = ready[s][i]
           \/ s = StreamOf(j) /\ i = Len(ready[s]) + 1 /\ ready'[s][i].job = j
<1> DEFINE e == [job |-> j, n |-> adds[j] + 1]
<1> SUFFICES ASSUME NEW s \in Streams, NEW i \in 1..Len(ready'[s])
             PROVE  \/ i \in 1..Len(ready[s]) /\ ready'[s][i] = ready[s][i]
                    \/ s = StreamOf(j) /\ i = Len(ready[s]) + 1 /\ ready'[s][i].job = j
  OBVIOUS
<1>0. ready[s] \in Seq(Msg) /\ adds[j] \in Nat
  BY DEF StreamTypes
<1>1. ready[s] \in Seq(Msg) /\ e \in Msg /\ e.job = j
  BY <1>0 DEF Msg
<1>2. ready'[s] = IF s = StreamOf(j) THEN Append(ready[s], e) ELSE ready[s]
  BY DEF XAdd, StreamTypes
<1> HIDE DEF e
<1>3. CASE s = StreamOf(j)
  <2>1. ready'[s] = Append(ready[s], e)
    BY <1>2, <1>3
  <2>2. Len(ready'[s]) = Len(ready[s]) + 1 /\ Len(ready[s]) \in Nat
    BY <1>1, <2>1
  <2>3. CASE i \in 1..Len(ready[s])
    BY <1>1, <2>1, <2>3
  <2>4. CASE i = Len(ready[s]) + 1
    BY <1>1, <1>3, <2>1, <2>4
  <2> QED
    BY <2>2, <2>3, <2>4
<1>4. CASE s # StreamOf(j)
  BY <1>2, <1>4
<1> QED
  BY <1>3, <1>4

\* An XADD for a job that has no message anywhere; one for a job that may have
\* is recorded in duplicated.
LEMMA SoleAdd ==
  ASSUME TypeOK, SoleInv, NEW j \in Jobs, XAdd(j),
         adds[j] <= parks[j] \/ j \in duplicated',
         duplicated \subseteq duplicated',
         UNCHANGED <<inbox, claimed, parks, result, pc, cur>>
  PROVE  SoleInv'
<1>1. adds \in [Jobs -> Nat] /\ parks \in [Jobs -> Nat] /\ StreamTypes
  BY DEF TypeOK, StreamTypes, HistoryTypes
<1>2. adds' = [adds EXCEPT ![j] = @ + 1]
  BY DEF XAdd
<1> SUFFICES ASSUME NEW i \in Jobs, i \notin duplicated', Sole(i) PROVE Sole(i)'
  BY DEF SoleInv
<1>3. \A t \in Threads : WorkedBy(t, i)' <=> WorkedBy(t, i)
  BY DEF WorkedBy
<1>4. CASE i # j
  <2>1. \A s \in Streams : \A k \in 1..Len(ready'[s]) :
          ready'[s][k].job = i => k \in 1..Len(ready[s]) /\ ready[s][k].job = i
    BY <1>1, <1>4, AddedPlaces
  <2>2. adds'[i] = adds[i]
    BY <1>1, <1>2, <1>4
  <2>3. \A w \in Workers : \A m \in claimed'[w] : m.job # i
    BY DEF Sole
  <2> QED
    BY <1>3, <2>1, <2>2, <2>3, SoleFrame
<1>5. CASE i = j
  <2>1. adds[i] = parks[i] /\ adds'[i] = adds[i] + 1 /\ parks' = parks
    BY <1>1, <1>2, <1>5 DEF Sole
  <2>2. /\ ~Waiting(i) /\ ~Fetched(i) /\ ~Worked(i)
        /\ result[i] \notin {"graded", "infra"}
    BY <1>1, <2>1 DEF Sole
  <2>3. ~Fetched(i)' /\ ~Worked(i)'
    BY <1>3, <2>2 DEF Fetched, Worked
  <2>4. \A s \in Streams : \A k \in 1..Len(ready'[s]) :
          ready'[s][k].job = i => s = StreamOf(j) /\ k = Len(ready[s]) + 1
    BY <1>1, <2>2, AddedPlaces, SMTT(25) DEF Waiting
  <2>5. \A s, r \in Streams : \A k \in 1..Len(ready'[s]), l \in 1..Len(ready'[r]) :
          ready'[s][k].job = i /\ ready'[r][l].job = i => s = r /\ k = l
    BY <2>4
  <2>6. /\ \A w, v \in Workers : \A m \in inbox'[w], n \in inbox'[v] :
             m.job = i /\ n.job = i => w = v /\ m = n
        /\ \A t, u \in Threads : WorkedBy(t, i)' /\ WorkedBy(u, i)' => t = u
    BY <1>3 DEF Sole, OnePlace
  <2>7. OnePlace(i)'
    BY <2>3, <2>5, <2>6 DEF OnePlace
  <2>8. parks'[i] < adds'[i] /\ parks'[i] <= adds'[i]
    BY <1>1, <2>1
  <2>9. \A w \in Workers : \A m \in claimed'[w] : m.job # i
    BY DEF Sole
  <2>10. result'[i] \notin {"graded", "infra"}
    BY <2>2
  <2> QED
    BY <2>7, <2>8, <2>9, <2>10 DEF Sole
<1> QED
  BY <1>4, <1>5

----------------------------------------------------------------------------
(* Steps that move the message of a job *)

\* A read takes messages from the head of a stream to the batch.
LEMMA SoleRead ==
  ASSUME TypeOK, SoleInv, NEW w \in Workers, NEW s \in Streams, Read(w, s)
  PROVE  SoleInv'
<1> DEFINE n == ReadSize(w, s)
           batch == {ready[s][i] : i \in 1..n}
<1>1. n \in 0 .. Len(ready[s]) /\ ready[s] \in Seq(Msg)
  BY ReadCount DEF TypeOK, StreamTypes
<1>2. /\ ready' = [ready EXCEPT ![s] = SubSeq(@, n + 1, Len(@))]
      /\ inbox' = inbox \/ inbox' = [inbox EXCEPT ![w] = batch]
      /\ UNCHANGED <<adds, claimed, parks, result, duplicated, pc, cur>>
  BY DEF Read, ReadSize, Logged, threadVars, histVars
<1> HIDE DEF n
<1>3. ready \in [Streams -> Seq(Msg)] /\ inbox \in [Workers -> SUBSET Msg]
  BY DEF TypeOK, StreamTypes, LoopTypes
<1>4. \A k \in 1..Len(ready'[s]) :
        n + k \in n + 1 .. Len(ready[s]) /\ ready'[s][k] = ready[s][n + k]
  <2>1. ready'[s] = SubSeq(ready[s], n + 1, Len(ready[s]))
    BY <1>2, <1>3
  <2>2. Len(ready'[s]) = Len(ready[s]) - n
    BY <1>1, <2>1
  <2> QED
    BY <1>1, <2>1, <2>2
<1>5. \A r \in Streams : r # s => ready'[r] = ready[r]
  BY <1>2, <1>3
<1> SUFFICES ASSUME NEW j \in Jobs, j \notin duplicated, Sole(j) PROVE Sole(j)'
  BY <1>2 DEF SoleInv
<1> DEFINE Taken == \E i \in 1..n : ready[s][i].job = j
<1>6. Waiting(j)' => Waiting(j)
  <2> SUFFICES ASSUME NEW r \in Streams, NEW k \in 1..Len(ready'[r]),
                      ready'[r][k].job = j
               PROVE  Waiting(j)
    BY DEF Waiting
  <2>1. CASE r = s
    BY <1>1, <1>4, <2>1 DEF Waiting
  <2>2. CASE r # s
    BY <1>5, <2>2 DEF Waiting
  <2> QED
    BY <2>1, <2>2
<1>7. Taken => Waiting(j)
  BY <1>1 DEF Waiting
<1>8. Fetched(j)' => Fetched(j) \/ Taken
  <2>1. CASE inbox' = inbox
    BY <2>1 DEF Fetched
  <2>2. CASE inbox' = [inbox EXCEPT ![w] = batch]
    BY <1>3, <2>2 DEF Fetched
  <2> QED
    BY <1>2, <2>1, <2>2
<1>9. ~(Waiting(j)' /\ Taken)
  <2> SUFFICES ASSUME NEW r \in Streams, NEW k \in 1..Len(ready'[r]),
                      ready'[r][k].job = j,
                      NEW i \in 1..n, ready[s][i].job = j
               PROVE  FALSE
    BY DEF Waiting
  <2>1. i \in 1..Len(ready[s])
    BY <1>1
  <2>2. CASE r = s
    <3>1. n + k \in 1..Len(ready[s]) /\ n + k # i /\ ready[s][n + k].job = j
      BY <1>1, <1>4, <2>2
    <3> QED
      BY <2>1, <3>1 DEF Sole, OnePlace
  <2>3. CASE r # s
    BY <1>5, <2>1, <2>3 DEF Sole, OnePlace
  <2> QED
    BY <2>2, <2>3
<1>10. \A t \in Threads : WorkedBy(t, j)' <=> WorkedBy(t, j)
  BY <1>2 DEF WorkedBy
<1>11. Worked(j)' <=> Worked(j)
  BY <1>10 DEF Worked
<1>12. \A q, r \in Streams : \A i \in 1..Len(ready'[q]), k \in 1..Len(ready'[r]) :
         ready'[q][i].job = j /\ ready'[r][k].job = j => q = r /\ i = k
  <2> SUFFICES ASSUME NEW q \in Streams, NEW r \in Streams,
                      NEW i \in 1..Len(ready'[q]), NEW k \in 1..Len(ready'[r]),
                      ready'[q][i].job = j, ready'[r][k].job = j
               PROVE  q = r /\ i = k
    OBVIOUS
  <2> DEFINE a == IF q = s THEN n + i ELSE i
             b == IF r = s THEN n + k ELSE k
  <2>1. a \in 1..Len(ready[q]) /\ ready[q][a].job = j
    BY <1>1, <1>4, <1>5
  <2>2. b \in 1..Len(ready[r]) /\ ready[r][b].job = j
    BY <1>1, <1>4, <1>5
  <2>3. q = r /\ a = b
    BY <2>1, <2>2 DEF Sole, OnePlace
  <2> QED
    BY <1>1, <2>3
<1>13. \A u, v \in Workers : \A m \in inbox'[u], k \in inbox'[v] :
         m.job = j /\ k.job = j => u = v /\ m = k
  <2>1. CASE inbox' = inbox
    BY <2>1 DEF Sole, OnePlace
  <2>2. CASE inbox' = [inbox EXCEPT ![w] = batch] /\ ~Taken
    <3>1. \A u \in Workers : \A m \in inbox'[u] : m.job = j => m \in inbox[u]
      BY <1>3, <2>2
    <3> QED
      BY <3>1 DEF Sole, OnePlace
  <2>3. CASE inbox' = [inbox EXCEPT ![w] = batch] /\ Taken
    <3>1. ~Fetched(j)
      BY <1>7, <2>3 DEF Sole, OnePlace
    <3>2. \A u \in Workers : \A m \in inbox'[u] : m.job = j => u = w /\ m \in batch
      BY <1>3, <2>3, <3>1 DEF Fetched
    <3>3. \A m, k \in batch : m.job = j /\ k.job = j => m = k
      <4> SUFFICES ASSUME NEW x \in 1..n, NEW y \in 1..n,
                          ready[s][x].job = j, ready[s][y].job = j
                   PROVE  x = y
        OBVIOUS
      <4>1. x \in 1..Len(ready[s]) /\ y \in 1..Len(ready[s])
        BY <1>1
      <4> QED
        BY <4>1 DEF Sole, OnePlace
    <3> HIDE DEF batch
    <3> QED
      BY <3>2, <3>3
  <2> QED
    BY <1>2, <2>1, <2>2, <2>3
<1> HIDE DEF Taken, batch
<1>14. OnePlace(j)'
  <2>1. ~(Waiting(j)' /\ Fetched(j)') /\ ~(Waiting(j)' /\ Worked(j)')
        /\ ~(Fetched(j)' /\ Worked(j)')
    BY <1>6, <1>7, <1>8, <1>9, <1>11 DEF Sole, OnePlace
  <2>2. \A t, u \in Threads : WorkedBy(t, j)' /\ WorkedBy(u, j)' => t = u
    BY <1>10 DEF Sole, OnePlace
  <2> QED
    BY <1>12, <1>13, <2>1, <2>2 DEF OnePlace
<1>15. result'[j] \in {"graded", "infra"} =>
         /\ parks'[j] < adds'[j] /\ ~Waiting(j)' /\ ~Fetched(j)'
         /\ \A t \in Threads : WorkedBy(t, j)' => pc'[t] \in {"announce", "finish"}
  BY <1>2, <1>6, <1>7, <1>8, <1>10 DEF Sole
<1> QED
  BY <1>2, <1>6, <1>7, <1>8, <1>11, <1>14, <1>15 DEF Sole

\* A goroutine that starts with a message has the job to itself.
LEMMA SoleDispatch ==
  ASSUME TypeOK, SoleInv, NEW w \in Workers, NEW m \in inbox[w], Dispatch(w, m)
  PROVE  SoleInv'
<1>1. inbox \in [Workers -> SUBSET Msg] /\ ThreadTypes /\ m \in Msg
  BY DEF TypeOK, LoopTypes
<1>2. /\ inbox' = [inbox EXCEPT ![w] = @ \ {m}]
      /\ UNCHANGED <<ready, adds, claimed, parks, result, duplicated>>
  BY DEF Dispatch, streamVars, histVars
<1>3. PICK s \in FreeSlots(w) : /\ pc' = [pc EXCEPT ![<<w, s>>] = "start"]
                                /\ cur' = [cur EXCEPT ![<<w, s>>] = m]
  BY DEF Dispatch, StartGoroutine
<1> DEFINE v == <<w, s>>
<1>4. v \in Threads /\ pc[v] = "idle"
  BY DEF FreeSlots, Threads
<1>5. /\ pc'[v] = "start" /\ cur'[v] = m
      /\ \A t \in Threads : t # v => pc'[t] = pc[t] /\ cur'[t] = cur[t]
  BY <1>1, <1>3, <1>4 DEF ThreadTypes
<1> HIDE DEF v
<1>6. \A u \in Workers : inbox'[u] \subseteq inbox[u]
  BY <1>1, <1>2
<1> SUFFICES ASSUME NEW j \in Jobs, j \notin duplicated, Sole(j) PROVE Sole(j)'
  BY <1>2 DEF SoleInv
<1>7. \A u \in Workers : \A k \in claimed'[u] : k.job # j
  BY <1>2 DEF Sole
<1>8. CASE m.job # j
  <2>1. \A t \in Threads : WorkedBy(t, j)' => WorkedBy(t, j) /\ pc'[t] = pc[t]
    BY <1>5, <1>8 DEF WorkedBy
  <2> QED
    BY <1>2, <1>6, <1>7, <2>1, SoleFrame
<1>9. CASE m.job = j
  <2>1. Fetched(j)
    BY <1>9 DEF Fetched
  <2>2. ~Waiting(j) /\ ~Worked(j) /\ result[j] \notin {"graded", "infra"}
        /\ parks[j] < adds[j]
    BY <2>1 DEF Sole, OnePlace
  <2>3. ~Waiting(j)'
    BY <1>2, <2>2 DEF Waiting
  <2>4. ~Fetched(j)'
    <3>1. \A u \in Workers : \A k \in inbox[u] : k.job = j => u = w /\ k = m
      BY <1>9 DEF Sole, OnePlace
    <3>2. inbox'[w] = inbox[w] \ {m}
      BY <1>1, <1>2
    <3> QED
      BY <1>6, <3>1, <3>2 DEF Fetched
  <2>5. \A t \in Threads : WorkedBy(t, j)' => t = v
    BY <1>5, <2>2 DEF WorkedBy, Worked
  <2>6. OnePlace(j)'
    BY <2>3, <2>4, <2>5 DEF OnePlace, Waiting, Fetched
  <2> QED
    BY <1>2, <1>7, <2>2, <2>6 DEF Sole
<1> QED
  BY <1>8, <1>9

\* What was claimed belongs to jobs that are in duplicated.
LEMMA SoleDispatchClaimed ==
  ASSUME TypeOK, SoleInv, NEW w \in Workers, NEW m \in claimed[w],
         DispatchClaimed(w, m)
  PROVE  SoleInv'
<1>1. claimed \in [Workers -> SUBSET Msg] /\ ThreadTypes
  BY DEF TypeOK, LoopTypes
<1>2. /\ claimed' = [claimed EXCEPT ![w] = @ \ {m}]
      /\ UNCHANGED <<ready, adds, inbox, parks, result, duplicated>>
  BY DEF DispatchClaimed, streamVars, histVars
<1>3. PICK s \in FreeSlots(w) : /\ pc' = [pc EXCEPT ![<<w, s>>] = "start"]
                                /\ cur' = [cur EXCEPT ![<<w, s>>] = m]
  BY DEF DispatchClaimed, StartGoroutine
<1>4. \A t \in Threads : \/ t = <<w, s>> /\ cur'[t] = m
                         \/ pc'[t] = pc[t] /\ cur'[t] = cur[t]
  BY <1>1, <1>3 DEF ThreadTypes
<1> SUFFICES ASSUME NEW j \in Jobs, j \notin duplicated, Sole(j) PROVE Sole(j)'
  BY <1>2 DEF SoleInv
<1>5. m.job # j /\ \A u \in Workers : \A k \in claimed'[u] : k.job # j
  BY <1>1, <1>2 DEF Sole
<1>6. \A t \in Threads : WorkedBy(t, j)' => WorkedBy(t, j) /\ pc'[t] = pc[t]
  BY <1>4, <1>5 DEF WorkedBy
<1> QED
  BY <1>2, <1>5, <1>6, SoleFrame

\* The jobs of a claim are in duplicated from then on.
LEMMA SoleReclaim ==
  ASSUME TypeOK, SoleInv, NEW w \in Workers, NEW s \in Streams, Reclaim(w, s)
  PROVE  SoleInv'
<1>1. PICK S \in SUBSET idle : /\ claimed' = [claimed EXCEPT ![w] = S]
                               /\ duplicated' = duplicated \cup {m.job : m \in S}
  BY DEF Reclaim
<1>2. UNCHANGED <<ready, adds, inbox, parks, result, pc, cur>>
  BY DEF Reclaim, threadVars
<1>3. claimed \in [Workers -> SUBSET Msg]
  BY DEF TypeOK, LoopTypes
<1> SUFFICES ASSUME NEW j \in Jobs, j \notin duplicated', Sole(j) PROVE Sole(j)'
  BY <1>1 DEF SoleInv
<1>4. \A u \in Workers : \A m \in claimed'[u] : m.job # j
  BY <1>1, <1>3 DEF Sole
<1>5. \A t \in Threads : WorkedBy(t, j)' => WorkedBy(t, j) /\ pc'[t] = pc[t]
  BY <1>2 DEF WorkedBy
<1> QED
  BY <1>2, <1>4, <1>5, SoleFrame

----------------------------------------------------------------------------
(* Steps that write a result or park a job *)

\* A goroutine that grades is the only one with the job.
LEMMA SoleGrade ==
  ASSUME TypeOK, SoleInv, NEW t \in Threads, Grade(t)
  PROVE  SoleInv'
<1>1. ThreadTypes /\ result \in [Jobs -> Results] /\ pc[t] = "grade"
  BY DEF TypeOK, OutcomeTypes, Grade, Goto
<1>2. UNCHANGED <<ready, adds, inbox, claimed, parks, duplicated, cur>>
  BY DEF Grade, streamVars, loopVars
<1>3. CASE UNCHANGED result
  <2>1. \A u \in Threads : pc'[u] = pc[u] \/ pc[u] = "grade"
    BY <1>1 DEF Grade, Goto, ThreadTypes
  <2> QED
    BY <1>2, <1>3, <2>1, SoleStays
<1>4. CASE ~UNCHANGED result
  <2>1. /\ pc' = [pc EXCEPT ![t] = "announce"]
        /\ \E r \in {"graded", "infra"} : result' = [result EXCEPT ![cur[t].job] = r]
    BY <1>4 DEF Grade, Goto
  <2>2. pc'[t] = "announce" /\ \A u \in Threads : u # t => pc'[u] = pc[u]
    BY <1>1, <2>1 DEF ThreadTypes
  <2> SUFFICES ASSUME NEW j \in Jobs, j \notin duplicated, Sole(j) PROVE Sole(j)'
    BY <1>2 DEF SoleInv
  <2>3. \A u \in Workers : \A m \in claimed'[u] : m.job # j
    BY <1>2 DEF Sole
  <2>4. \A u \in Threads : WorkedBy(u, j)' => WorkedBy(u, j)
    BY <1>1, <1>2, <2>2 DEF WorkedBy
  <2>5. CASE cur[t].job # j
    <3>1. \A u \in Threads : WorkedBy(u, j)' => pc'[u] = pc[u]
      BY <1>2, <2>2, <2>5 DEF WorkedBy
    <3>2. result'[j] = result[j]
      BY <1>1, <2>1, <2>5
    <3> QED
      BY <1>2, <2>3, <2>4, <3>1, <3>2, SoleFrame
  <2>6. CASE cur[t].job = j
    <3>1. WorkedBy(t, j) /\ Worked(j)
      BY <1>1, <2>6 DEF WorkedBy, Worked
    <3>2. ~Waiting(j) /\ ~Fetched(j) /\ parks[j] < adds[j]
          /\ \A u \in Threads : WorkedBy(u, j) => u = t
      BY <3>1 DEF Sole, OnePlace
    <3>3. ~Waiting(j)' /\ ~Fetched(j)'
      BY <1>2, <3>2 DEF Waiting, Fetched
    <3>4. \A u \in Threads : WorkedBy(u, j)' => u = t
      BY <2>4, <3>2
    <3>5. OnePlace(j)'
      BY <3>3, <3>4 DEF OnePlace, Waiting, Fetched
    <3>6. \A u \in Threads : WorkedBy(u, j)' => pc'[u] \in {"announce", "finish"}
      BY <2>2, <3>4
    <3> QED
      BY <1>2, <2>3, <3>2, <3>3, <3>5, <3>6 DEF Sole
  <2> QED
    BY <2>5, <2>6
<1> QED
  BY <1>3, <1>4

\* The failure path may write its result: no grade of the job is stored.
LEMMA SoleStoreFailure ==
  ASSUME TypeOK, SoleInv, NEW t \in Threads, StoreFailure(t)
  PROVE  SoleInv'
<1>1. ThreadTypes /\ result \in [Jobs -> Results] /\ pc[t] = "failing"
      /\ pc' = [pc EXCEPT ![t] = "tell"]
  BY DEF TypeOK, OutcomeTypes, StoreFailure, Goto
<1>2. /\ UNCHANGED <<ready, adds, inbox, claimed, parks, duplicated, cur>>
      /\ result' = result \/ result' = [result EXCEPT ![cur[t].job] = "error"]
  BY DEF StoreFailure, streamVars, loopVars, histVars
<1> SUFFICES ASSUME NEW j \in Jobs, j \notin duplicated, Sole(j) PROVE Sole(j)'
  BY <1>2 DEF SoleInv
<1>3. \A u \in Workers : \A m \in claimed'[u] : m.job # j
  BY <1>2 DEF Sole
<1>4. \A u \in Threads : WorkedBy(u, j)' =>
        /\ WorkedBy(u, j)
        /\ pc[u] \in {"announce", "finish"} => pc'[u] \in {"announce", "finish"}
  BY <1>1, <1>2 DEF WorkedBy, ThreadTypes
<1>5. result'[j] \in {result[j], "error"}
  BY <1>1, <1>2
<1> QED
  BY <1>2, <1>3, <1>4, <1>5, SoleFrame

\* Parking lets go of the message, and then no other is anywhere.
LEMMA SolePark ==
  ASSUME TypeOK, SoleInv, NEW t \in Threads, Park(t)
  PROVE  SoleInv'
<1>1. ThreadTypes /\ parks \in [Jobs -> Nat] /\ adds \in [Jobs -> Nat]
      /\ pc[t] = "park" /\ pc' = [pc EXCEPT ![t] = "ack"]
  BY DEF TypeOK, StreamTypes, HistoryTypes, Park, Goto
<1>2. /\ UNCHANGED <<ready, adds, inbox, claimed, result, duplicated, cur>>
      /\ parks' = parks \/ parks' = [parks EXCEPT ![cur[t].job] = @ + 1]
  BY DEF Park, Logged, streamVars, loopVars
<1> SUFFICES ASSUME NEW j \in Jobs, j \notin duplicated, Sole(j) PROVE Sole(j)'
  BY <1>2 DEF SoleInv
<1>3. \A u \in Workers : \A m \in claimed'[u] : m.job # j
  BY <1>2 DEF Sole
<1>4. \A u \in Threads : WorkedBy(u, j)' => WorkedBy(u, j) /\ u # t /\ pc'[u] = pc[u]
  BY <1>1, <1>2 DEF WorkedBy, ThreadTypes
<1>5. CASE parks'[j] = parks[j]
  BY <1>2, <1>3, <1>4, <1>5, SoleFrame
<1>6. CASE parks'[j] # parks[j]
  <2>1. cur[t].job = j /\ parks'[j] = parks[j] + 1
    BY <1>1, <1>2, <1>6
  <2>2. WorkedBy(t, j) /\ Worked(j)
    BY <1>1, <2>1 DEF WorkedBy, Worked
  <2>3. /\ ~Waiting(j) /\ ~Fetched(j) /\ parks[j] < adds[j]
        /\ result[j] \notin {"graded", "infra"}
        /\ \A u \in Threads : WorkedBy(u, j) => u = t
    BY <1>1, <2>2 DEF Sole, OnePlace
  <2>4. ~Waiting(j)' /\ ~Fetched(j)'
    BY <1>2, <2>3 DEF Waiting, Fetched
  <2>5. \A u \in Threads : ~WorkedBy(u, j)'
    BY <1>4, <2>3
  <2>6. OnePlace(j)' /\ ~Worked(j)'
    BY <2>4, <2>5 DEF OnePlace, Worked, Waiting, Fetched
  <2>7. parks'[j] <= adds'[j]
    BY <1>1, <1>2, <2>1, <2>3
  <2> QED
    BY <1>2, <1>3, <2>3, <2>4, <2>6, <2>7 DEF Sole
<1> QED
  BY <1>5, <1>6

----------------------------------------------------------------------------
(* The invariant *)

\* Every step keeps SoleInv.
LEMMA SoleStep == LossInv /\ Known /\ SoleInv /\ [Next]_vars => SoleInv'
<1> SUFFICES ASSUME TypeOK, Known, SoleInv, [Next]_vars PROVE SoleInv'
  BY DEF LossInv
<1> USE DEF streamVars, loopVars, threadVars, histVars
<1>1. ASSUME NEW j \in Jobs, Enqueue(j) PROVE SoleInv'
  <2>1. adds[j] = 0
    BY <1>1 DEF Enqueue, Known, Accepted, TypeOK, StreamTypes
  <2>2. adds[j] <= parks[j]
    BY <2>1 DEF TypeOK, HistoryTypes
  <2> QED
    BY <1>1, <2>2, SoleAdd DEF Enqueue
<1>2. ASSUME NEW w \in Workers, NEW j \in due[w], RequeueAdd(w, j) PROVE SoleInv'
  <2>1. j \in Jobs /\ adds[j] \in Nat /\ parks[j] \in Nat
    BY DEF TypeOK, RetryTypes, StreamTypes, HistoryTypes
  <2>2. UNCHANGED <<inbox, claimed, parks, result, pc, cur>>
    BY <1>2 DEF RequeueAdd
  <2>3. CASE XAdd(j) /\ duplicated' = duplicated \cup
                          (IF adds[j] > parks[j] THEN {j} ELSE {})
    BY <2>1, <2>2, <2>3, SoleAdd
  <2>4. CASE UNCHANGED <<streamVars, duplicated>>
    BY <2>2, <2>4, SoleStays
  <2> QED
    BY <1>2, <2>3, <2>4 DEF RequeueAdd, Logged
<1>3. ASSUME NEW t \in Threads,
             \/ Reject(t) \/ RecordHash(t) \/ MarkProcessing(t) \/ CountAttempt(t)
             \/ Announce(t) \/ MarkCompleted(t) \/ AnnounceFailure(t)
             \/ MarkRetrying(t) \/ MarkFailed(t) \/ Bury(t)
      PROVE  SoleInv'
  <2>1. UNCHANGED <<ready, adds, inbox, claimed, parks, result, duplicated, cur>>
    BY <1>3 DEF Reject, RecordHash, MarkProcessing, CountAttempt, Announce,
       MarkCompleted, AnnounceFailure, MarkRetrying, MarkFailed, Bury
  <2>2. \E a, b \in PCs : /\ Goto(t, a, b)
                          /\ \/ a \notin {"idle", "ack", "announce", "finish"}
                             \/ a = "announce" /\ b = "finish"
                             \/ a = "finish" /\ b = "ack"
    BY <1>3 DEF Reject, RecordHash, MarkProcessing, CountAttempt, Announce,
       MarkCompleted, AnnounceFailure, MarkRetrying, MarkFailed, Bury, PCs
  <2>3. \A u \in Threads :
          \/ pc'[u] \in {pc[u], "idle", "ack"}
          \/ pc[u] \notin {"idle", "ack", "announce", "finish"}
          \/ pc[u] = "announce" /\ pc'[u] = "finish"
    BY <2>2 DEF Goto, TypeOK, ThreadTypes
  <2> QED
    BY <2>1, <2>3, SoleStays
<1>4. ASSUME NEW w \in Workers,
             \/ RetryPoll(w) \/ RetryRemove(w) \/ RequeueMark(w) \/ RequeueBury(w)
             \/ RequeueDone(w) \/ RetryCleanup(w) \/ Start(w)
             \/ \E j \in due[w] : RequeueMissing(w, j)
      PROVE  SoleInv'
  <2>1. UNCHANGED <<ready, adds, inbox, claimed, parks, result, duplicated, pc, cur>>
    BY <1>4 DEF RetryPoll, RetryRemove, RequeueMark, RequeueBury, RequeueDone,
       RetryCleanup, Start, RequeueMissing
  <2> QED
    BY <2>1, SoleStays
<1>5. ASSUME \/ \E j \in Jobs : Register(j) \/ Expire(j)
             \/ Pause \/ Resume \/ (\E m \in pel : Age(m)) \/ UNCHANGED vars
      PROVE  SoleInv'
  <2>1. UNCHANGED <<ready, adds, inbox, claimed, parks, result, duplicated, pc, cur>>
    BY <1>5 DEF Register, Expire, Pause, Resume, Age, vars
  <2> QED
    BY <2>1, SoleStays
<1>6. ASSUME NEW w \in Workers, AbandonClaim(w) \/ Stop(w) PROVE SoleInv'
  <2>1. UNCHANGED <<ready, adds, parks, result, duplicated>>
    BY <1>6 DEF AbandonClaim, Stop
  <2>2. \A v \in Workers : inbox'[v] \subseteq inbox[v] /\ claimed'[v] \subseteq claimed[v]
    BY <1>6 DEF AbandonClaim, Stop, TypeOK, LoopTypes
  <2>3. \A t \in Threads : \/ pc'[t] = "idle"
                           \/ pc'[t] = pc[t] /\ cur'[t] = cur[t]
    BY <1>6 DEF AbandonClaim, Stop
  <2> SUFFICES ASSUME NEW j \in Jobs, j \notin duplicated, Sole(j) PROVE Sole(j)'
    BY <2>1 DEF SoleInv
  <2>4. \A v \in Workers : \A m \in claimed'[v] : m.job # j
    BY <2>2 DEF Sole
  <2>5. \A t \in Threads : WorkedBy(t, j)' => WorkedBy(t, j) /\ pc'[t] = pc[t]
    BY <2>3 DEF WorkedBy
  <2> QED
    BY <2>1, <2>2, <2>4, <2>5, SoleFrame
<1>7. ASSUME NEW t \in Threads, Ack(t) PROVE SoleInv'
  <2>1. UNCHANGED <<ready, adds, inbox, claimed, parks, result, duplicated>>
    BY <1>7 DEF Ack, Logged
  <2>2. \A u \in Threads : \/ pc'[u] = "idle"
                           \/ pc'[u] = pc[u] /\ cur'[u] = cur[u]
    BY <1>7 DEF Ack, Goto, TypeOK, ThreadTypes
  <2> SUFFICES ASSUME NEW j \in Jobs, j \notin duplicated, Sole(j) PROVE Sole(j)'
    BY <2>1 DEF SoleInv
  <2>3. \A v \in Workers : \A m \in claimed'[v] : m.job # j
    BY <2>1 DEF Sole
  <2>4. \A u \in Threads : WorkedBy(u, j)' => WorkedBy(u, j) /\ pc'[u] = pc[u]
    BY <2>2 DEF WorkedBy
  <2> QED
    BY <2>1, <2>3, <2>4, SoleFrame
<1> QED
  BY <1>1, <1>2, <1>3, <1>4, <1>5, <1>6, <1>7, SoleRead, SoleDispatch,
     SoleReclaim, SoleDispatchClaimed, SoleGrade, SoleStoreFailure, SolePark
  DEF Next, Loop, ReclaimStep, RetryStep, Process

\* SoleInv holds in every state.
LEMMA SoleAlways == Spec => [](TypeOK /\ SoleInv)
<1>1. Init => SoleInv
  <2> SUFFICES ASSUME Init, NEW j \in Jobs PROVE Sole(j)
    BY DEF SoleInv
  <2>1. ~Waiting(j) /\ ~Fetched(j) /\ ~Worked(j)
    BY DEF Init, Waiting, Fetched, Worked, WorkedBy, Threads
  <2>2. OnePlace(j)
    BY <2>1 DEF OnePlace, Waiting, Fetched, Worked
  <2> QED
    BY <2>1, <2>2 DEF Init, Sole
<1>2. LossInv => TypeOK
  BY DEF LossInv
<1> QED
  BY <1>1, <1>2, SoleStep, LossInvariant, KnownAlways, PTL DEF Spec

\* Two goroutines of any processes never grade the same job, unless the job was
\* claimed from an idle consumer or requeued by two retry loops at once; for any
\* number of jobs, workers and slots and any stops, stalls and faults.
THEOREM SoleGraderAlways == Spec => []SoleGrader
<1>1. TypeOK /\ SoleInv => SoleGrader
  <2> SUFFICES ASSUME TypeOK, SoleInv, NEW t \in Threads, NEW u \in Threads,
                      t # u, {pc[t], pc[u]} \cap {"idle", "ack"} = {},
                      cur[t].job = cur[u].job, cur[t].job \notin duplicated
               PROVE  FALSE
    BY DEF SoleGrader
  <2> DEFINE j == cur[t].job
  <2>1. pc[t] \notin {"idle", "ack"} /\ pc[u] \notin {"idle", "ack"}
    OBVIOUS
  <2>2. j \in Jobs
    BY <2>1, CurJob DEF TypeOK
  <2>3. Sole(j) /\ WorkedBy(t, j) /\ WorkedBy(u, j)
    BY <2>1, <2>2 DEF SoleInv, WorkedBy
  <2> QED
    BY <2>3 DEF Sole, OnePlace
<1> QED
  BY <1>1, SoleAlways, PTL

\* A stored grade is replaced by the "Grading error" result only when the job
\* was delivered a second time: the failure path and a stored grade of the same
\* job exclude each other.
THEOREM GradeSticksAlways == Spec => GradeSticks
<1> DEFINE Sticks == \A j \in Jobs : result[j] \in {"graded", "infra"} /\ result'[j] = "error"
                                       => j \in duplicated
<1>1. TypeOK /\ SoleInv /\ [Next]_vars => [Sticks]_vars
  <2> SUFFICES ASSUME TypeOK, SoleInv, Next PROVE Sticks
    OBVIOUS
  <2>1. CASE UNCHANGED result
    BY <2>1 DEF TypeOK, OutcomeTypes
  <2>2. ASSUME NEW t \in Threads, Grade(t) PROVE Sticks
    BY <2>2 DEF Grade, TypeOK, OutcomeTypes, Results
  <2>3. ASSUME NEW t \in Threads, StoreFailure(t) PROVE Sticks
    <3> SUFFICES ASSUME NEW j \in Jobs, result[j] \in {"graded", "infra"},
                        result'[j] = "error", j \notin duplicated
                 PROVE  FALSE
      OBVIOUS
    <3>1. cur[t].job = j /\ pc[t] = "failing"
      BY <2>3 DEF StoreFailure, Goto, TypeOK, OutcomeTypes
    <3> QED
      BY <3>1 DEF SoleInv, Sole, WorkedBy
  <2>4. ASSUME NEW t \in Threads, Process(t), ~Grade(t), ~StoreFailure(t)
        PROVE  UNCHANGED result
    BY <2>4 DEF Process, Reject, RecordHash, MarkProcessing, CountAttempt,
       Announce, MarkCompleted, AnnounceFailure, MarkRetrying, MarkFailed, Park,
       Bury, Ack
  <2>5. ASSUME NEW w \in Workers,
               Loop(w) \/ ReclaimStep(w) \/ RetryStep(w) \/ Stop(w) \/ Start(w)
        PROVE  UNCHANGED result
    BY <2>5 DEF Loop, ReclaimStep, RetryStep, Read, Dispatch, Reclaim,
       DispatchClaimed, AbandonClaim, RetryPoll, RetryRemove, RequeueAdd,
       RequeueMark, RequeueMissing, RequeueBury, RequeueDone, RetryCleanup,
       Stop, Start
  <2>6. ASSUME \/ \E j \in Jobs : Enqueue(j) \/ Register(j) \/ Expire(j)
               \/ Pause \/ Resume \/ \E m \in pel : Age(m)
        PROVE  UNCHANGED result
    BY <2>6 DEF Enqueue, Register, Expire, Pause, Resume, Age
  <2> QED
    BY <2>1, <2>2, <2>3, <2>4, <2>5, <2>6 DEF Next
<1> QED
  BY <1>1, SoleAlways, PTL DEF Spec, GradeSticks
=============================================================================
