--------------------------- MODULE ClawCore_proofs ---------------------------
(***************************************************************************)
(* Theorems about ClawCore, for any number of requests, sessions and       *)
(* cancels and any queue lengths: its types are right, its safety          *)
(* invariants hold, a cancel sticks, and it implements AgentService.       *)
(***************************************************************************)
EXTENDS ClawCore, SequenceTheorems, TLAPS

\* The groups of variables are always expanded.
USE DEF coreVars, slotVars, controlVars, inflightVars, roundVars, workerVars,
        clientVars, recordVars, servedVars, vars

Pcs == Idle \cup Before \cup Serving \cup After

\* Where the worker may still start a tool round: it has one left.
Rounds == (Serving \cup {"recv", "begin"}) \ {"text", "final", "finish", "release"}

RoundsLeft == worker \in Rounds => iteration < MaxIter

\* There is no worker before claw_core_start creates it, and claw_core_stop
\* raises its flag first.
OwnerOrder == /\ owner = "idle" => worker = "none"
              /\ owner \in {"cancelling", "waking"} => stopRequested

-----------------------------------------------------------------------------
(* Type correctness. It rests on WakeIsNeverServed, as the session of the  *)
(* request in hand is only defined because that is never the wake item,    *)
(* and on RoundsLeft.                                                      *)

LEMMA TypeInit == Init => TypeOK
  <1> SUFFICES ASSUME Init PROVE TypeOK
    OBVIOUS
  <1>1. /\ requestQueue \in Seq(Requests \cup {Wake})
        /\ responseQueue \in Seq(Requests)
        /\ insertQueue \in Seq(Requests)
        /\ texts \in Seq(Requests)
    BY EmptySeq DEF Init
  <1>2. fate \in [Requests -> Fates]
    BY DEF Init, Fates
  <1>3. iteration \in 0..MaxIter /\ cancels \in 0..MaxCancels
    BY BoundsAssumption DEF Init
  <1>4. /\ phase \in Phases /\ reason \in Reasons
        /\ drainedAt \in DrainPoints /\ worker \in Idle
    BY DEF Init, Phases, Reasons, DrainPoints, Idle
  <1> QED
    BY <1>1, <1>2, <1>3, <1>4 DEF Init, TypeOK

LEMMA MoveType ==
  ASSUME fate \in [Requests -> Fates], NEW r, NEW f \in Fates, Move(r, f)
  PROVE  fate' \in [Requests -> Fates]
  BY DEF Move

LEMMA SettleType ==
  ASSUME fate \in [Requests -> Fates], NEW q, NEW f \in Fates, SettleAll(q, f)
  PROVE  fate' \in [Requests -> Fates]
  BY DEF SettleAll

LEMMA TypeClient ==
  ASSUME TypeOK, NEW r \in Requests,
         SubmitCheck(r) \/ TryInsert(r) \/ SubmitSend(r) \/ SubmitTimeout(r)
  PROVE  TypeOK'
  <1>1. CASE SubmitCheck(r)
    <2>1. fate' \in [Requests -> Fates]
      BY <1>1 DEF TypeOK, SubmitCheck, Move, Fates
    <2> QED BY <1>1, <2>1 DEF TypeOK, SubmitCheck
  <1>2. CASE TryInsert(r)
    <2>1. insertQueue' \in Seq(Requests)
      <3>1. Append(insertQueue, r) \in Seq(Requests)
        BY AppendProperties DEF TypeOK
      <3> QED BY <1>2, <3>1 DEF TypeOK, TryInsert
    <2>2. fate' \in [Requests -> Fates]
      <3>1. PICK f \in {"inserted", "refused", "sending"} : Move(r, f)
        BY <1>2 DEF TryInsert
      <3> QED BY <3>1, MoveType DEF TypeOK, Fates
    <2>3. abort' \in BOOLEAN /\ reason' \in Reasons
      BY <1>2 DEF TypeOK, TryInsert, Reasons
    <2> QED BY <1>2, <2>1, <2>2, <2>3 DEF TypeOK, TryInsert
  <1>3. CASE SubmitSend(r)
    <2>1. requestQueue' \in Seq(Requests \cup {Wake})
      BY <1>3, AppendProperties DEF TypeOK, SubmitSend
    <2>2. fate' \in [Requests -> Fates]
      BY <1>3 DEF TypeOK, SubmitSend, Move, Fates
    <2> QED BY <1>3, <2>1, <2>2 DEF TypeOK, SubmitSend
  <1>4. CASE SubmitTimeout(r)
    <2>1. fate' \in [Requests -> Fates]
      BY <1>4 DEF TypeOK, SubmitTimeout, Move, Fates
    <2> QED BY <1>4, <2>1 DEF TypeOK, SubmitTimeout
  <1> QED BY <1>1, <1>2, <1>3, <1>4

LEMMA ArmCancelType ==
  ASSUME TypeOK, NEW id, ArmCancel(id) \/ UNCHANGED <<abort, reason, armed>>
  PROVE  abort' \in BOOLEAN /\ reason' \in Reasons /\ armed' \in BOOLEAN
  BY DEF TypeOK, ArmCancel, Reasons

LEMMA TypeOthers ==
  ASSUME TypeOK, Owner \/ Consume \/ Canceller
  PROVE  TypeOK'
  <1>1. CASE Canceller
    <2>1. PICK id \in Requests \cup {None} : Cancel(id)
      BY <1>1 DEF Canceller
    <2>2. abort' \in BOOLEAN /\ reason' \in Reasons /\ armed' \in BOOLEAN
      BY <2>1, ArmCancelType DEF Cancel
    <2>3. cancels' \in 0..MaxCancels
      BY <2>1, BoundsAssumption DEF TypeOK, Cancel
    <2> QED BY <2>1, <2>2, <2>3 DEF TypeOK, Cancel
  <1>2. CASE StartTask
    BY <1>2 DEF TypeOK, StartTask, Idle
  <1>3. CASE StartFlag
    BY <1>3 DEF TypeOK, StartFlag
  <1>4. CASE StopFlag
    BY <1>4 DEF TypeOK, StopFlag
  <1>5. CASE StopCancel
    <2>1. abort' \in BOOLEAN /\ reason' \in Reasons /\ armed' \in BOOLEAN
      BY <1>5, ArmCancelType DEF StopCancel
    <2> QED BY <1>5, <2>1 DEF TypeOK, StopCancel
  <1>6. CASE StopWake
    <2>1. requestQueue' \in Seq(Requests \cup {Wake})
      BY <1>6, AppendProperties DEF TypeOK, StopWake, QueueWithWake
    <2> QED BY <1>6, <2>1 DEF TypeOK, StopWake
  <1>7. CASE StopWait
    BY <1>7 DEF TypeOK, StopWait
  <1>8. CASE Consume
    <2>1. responseQueue' \in Seq(Requests)
      BY <1>8, HeadTailProperties DEF TypeOK, Consume
    <2> QED BY <1>8, <2>1 DEF TypeOK, Consume
  <1> QED BY <1>1, <1>2, <1>3, <1>4, <1>5, <1>6, <1>7, <1>8 DEF Owner

LEMMA TypeWorker1 ==
  ASSUME TypeOK, WakeIsNeverServed,
         \/ LoopTest \/ Receive \/ Begin
         \/ TargetFails \/ Reject \/ GateFails \/ Admit
  PROVE  TypeOK'
  <1>1. CASE LoopTest
    <2>1. worker' \in Idle /\ drainedAt' \in DrainPoints /\ iteration' \in 0..MaxIter
      BY <1>1, BoundsAssumption DEF LoopTest, Goto, Idle, DrainPoints
    <2> QED BY <1>1, <2>1, ZenonT(40) DEF TypeOK, LoopTest
  <1>2. CASE Receive
    <2>1. requestQueue' \in Seq(Requests \cup {Wake}) /\ cur' \in Requests \cup {Wake, None}
      BY <1>2, HeadTailProperties DEF TypeOK, Receive
    <2>2. fate' \in [Requests -> Fates] /\ worker' \in Pcs
      BY <1>2 DEF TypeOK, Receive, Move, Goto, Fates, Pcs, Idle, Before
    <2> QED BY <1>2, <2>1, <2>2 DEF TypeOK, Receive, Pcs
  <1>3. CASE Begin
    <2>1. cur \in Requests
      BY <1>3 DEF Begin, TypeOK, WakeIsNeverServed, Idle
    <2>2. inflightSession' \in Sessions \cup {None} /\ inflightId' \in Requests
      BY <1>3, <2>1, RequestsAssumption DEF Begin
    <2>3. fate' \in [Requests -> Fates]
      BY <1>3, SettleType DEF TypeOK, Begin, FreeInserts, Fates
    <2>4. insertQueue' \in Seq(Requests)
      BY <1>3, EmptySeq DEF Begin, FreeInserts
    <2>5. /\ worker' \in Serving /\ phase' \in Phases
          /\ reason' \in Reasons /\ abort' \in BOOLEAN
      BY <1>3 DEF Begin, Goto, Serving, Phases, Reasons
    <2> QED BY <1>3, <2>2, <2>3, <2>4, <2>5 DEF TypeOK, Begin
  <1>4. CASE TargetFails \/ Reject \/ GateFails \/ Admit
    <2>1. worker' \in Serving /\ err' \in {"ok", "fail"}
      BY <1>4 DEF TypeOK, TargetFails, Reject, GateFails, Admit, Goto, Fail, Serving
    <2>2. result' \in Answers \cup {None}
      BY <1>4 DEF TypeOK, TargetFails, Reject, GateFails, Admit, Answers
    <2>3. turn' \in {"none", "open", "closed"} /\ hampered' \in BOOLEAN
      BY <1>4 DEF TypeOK, TargetFails, Reject, GateFails, Admit, Record, Hamper
    <2>4. PrepareFrame
      BY <1>4 DEF TargetFails, Reject, GateFails, Admit
    <2> QED BY <2>1, <2>2, <2>3, <2>4 DEF TypeOK, PrepareFrame
  <1> QED BY <1>1, <1>2, <1>3, <1>4

LEMMA TypeWorker2 ==
  ASSUME TypeOK, RoundsLeft,
         \/ BeforeBuild \/ Build \/ BeforeHttp \/ CallLlm \/ LlmAnswers \/ LlmFails
         \/ TakeAbort \/ AfterLlm \/ RunTools \/ ToolsDone \/ Finish
  PROVE  TypeOK'
  <1>1. CASE TakeAbort
    <2>1. /\ worker' \in Serving /\ drainedAt' \in DrainPoints
          /\ reason' \in Reasons /\ abort' \in BOOLEAN
      BY <1>1 DEF TypeOK, TakeAbort, Goto, Serving, DrainPoints, Reasons
    <2> QED BY <1>1, <2>1 DEF TypeOK, TakeAbort
  <1>2. CASE ToolsDone
    <2>1. iteration' \in 0..MaxIter
      BY <1>2, BoundsAssumption DEF TypeOK, RoundsLeft, Rounds, ToolsDone, Serving
    <2>2. worker' \in Serving /\ err' \in {"ok", "fail"}
      BY <1>2 DEF ToolsDone, Goto, Fail, Serving
    <2> QED BY <1>2, <2>1, <2>2 DEF TypeOK, ToolsDone, PhaseFrame
  <1>3. CASE \/ BeforeBuild \/ Build \/ BeforeHttp \/ CallLlm \/ LlmAnswers
             \/ LlmFails \/ AfterLlm \/ RunTools \/ Finish
    <2>1. worker' \in Serving
      BY <1>3 DEF BeforeBuild, Build, BeforeHttp, CallLlm, LlmAnswers, LlmFails,
                  AfterLlm, RunTools, Finish, Goto, Fail, Serving
    <2>2. /\ phase' \in Phases /\ drainedAt' \in DrainPoints
          /\ err' \in {"ok", "fail"} /\ iteration' = iteration
      BY <1>3 DEF TypeOK, BeforeBuild, Build, BeforeHttp, CallLlm, LlmAnswers,
                  LlmFails, AfterLlm, RunTools, Finish, Fail, Phases, DrainPoints
    <2>3. PhaseFrame
      BY <1>3 DEF BeforeBuild, Build, BeforeHttp, CallLlm, LlmAnswers, LlmFails,
                  AfterLlm, RunTools, Finish
    <2> QED BY <2>1, <2>2, <2>3 DEF TypeOK, PhaseFrame
  <1> QED BY <1>1, <1>2, <1>3

LEMMA TypeWorker3 ==
  ASSUME TypeOK, WakeIsNeverServed,
         \/ Drain \/ ClearAbort \/ Absorb \/ Text \/ Final \/ Release
         \/ FailureNote \/ Respond \/ Exit
  PROVE  TypeOK'
  <1>1. CASE Drain
    <2>1. PICK n \in 0..Len(insertQueue) :
             /\ insertQueue' = Undrained(n)
             /\ texts' = SubSeq(insertQueue, 1, n)
             /\ SettleAll(SubSeq(insertQueue, 1, n), "taken")
             /\ Goto(IF n > 0 THEN "clear" ELSE AfterDrain[drainedAt])
      BY <1>1 DEF Drain
    <2>2. \A i \in 1..Len(insertQueue) : insertQueue[i] \in Requests
      BY ElementOfSeq DEF TypeOK
    <2>3. Len(insertQueue) \in Nat
      BY LenProperties DEF TypeOK
    <2>4. texts' \in Seq(Requests)
      BY <2>1, <2>2, <2>3, SubSeqProperties
    <2>5. insertQueue' \in Seq(Requests)
      BY <2>1, <2>2, <2>3, SubSeqProperties DEF Undrained
    <2>6. fate' \in [Requests -> Fates]
      BY <2>1, SettleType DEF TypeOK, Fates
    <2>7. worker' \in Serving
      BY <2>1 DEF TypeOK, Goto, AfterDrain, DrainPoints, Serving
    <2> QED BY <1>1, <2>4, <2>5, <2>6, <2>7 DEF TypeOK, Drain
  <1>2. CASE ClearAbort
    <2>1. /\ worker' \in Serving /\ reason' \in Reasons /\ abort' \in BOOLEAN
      BY <1>2 DEF TypeOK, ClearAbort, Goto, Serving, Reasons
    <2> QED BY <1>2, <2>1 DEF TypeOK, ClearAbort
  <1>3. CASE Absorb
    <2>1. fate' \in [Requests -> Fates]
      BY <1>3, SettleType DEF TypeOK, Absorb, Fates
    <2>2. worker' \in Serving /\ err' \in {"ok", "fail"}
      BY <1>3 DEF Absorb, Goto, Fail, Serving
    <2>3. turn' \in {"none", "open", "closed"} /\ hampered' \in BOOLEAN
      BY <1>3 DEF TypeOK, Absorb, Record, Hamper
    <2>4. texts' \in Seq(Requests)
      BY <1>3, EmptySeq DEF Absorb
    <2> QED BY <1>3, <2>1, <2>2, <2>3, <2>4 DEF TypeOK, Absorb
  <1>4. CASE Text
    <2>1. /\ worker' \in Serving /\ phase' \in Phases
          /\ result' \in Answers \cup {None} /\ hampered' \in BOOLEAN
      BY <1>4 DEF TypeOK, Text, Goto, Hamper, Serving, Phases, Answers
    <2> QED BY <1>4, <2>1 DEF TypeOK, Text
  <1>5. CASE Final
    <2>1. turn' \in {"none", "open", "closed"} /\ hampered' \in BOOLEAN
      BY <1>5 DEF TypeOK, Final, Record, Hamper
    <2>2. worker' \in Serving /\ observed' \in BOOLEAN
      BY <1>5 DEF TypeOK, Final, Goto, Serving
    <2> QED BY <1>5, <2>1, <2>2 DEF TypeOK, Final
  <1>6. CASE Release
    <2>1. fate' \in [Requests -> Fates]
      BY <1>6, SettleType DEF TypeOK, Release, FreeInserts, Fates
    <2>2. insertQueue' \in Seq(Requests)
      BY <1>6, EmptySeq DEF Release, FreeInserts
    <2>3. /\ worker' \in After /\ phase' \in Phases
          /\ reason' \in Reasons /\ abort' \in BOOLEAN
      BY <1>6 DEF Release, Goto, After, Phases, Reasons
    <2>4. result' \in Answers
      BY <1>6 DEF TypeOK, Release, Outcome, Answers
    <2> QED BY <1>6, <2>1, <2>2, <2>3, <2>4 DEF TypeOK, Release
  <1>7. CASE FailureNote
    <2>1. turn' \in {"none", "open", "closed"} /\ hampered' \in BOOLEAN
      BY <1>7 DEF TypeOK, FailureNote, Record, Hamper
    <2>2. worker' \in After
      BY <1>7 DEF FailureNote, Goto, After
    <2> QED BY <1>7, <2>1, <2>2 DEF TypeOK, FailureNote
  <1>8. CASE Respond
    <2>1. responseQueue' \in Seq(Requests)
      <3>1. cur \in Requests
        BY <1>8 DEF Respond, TypeOK, WakeIsNeverServed, Idle
      <3>2. Append(responseQueue, cur) \in Seq(Requests)
        BY <3>1, AppendProperties DEF TypeOK
      <3> QED BY <1>8, <3>2 DEF TypeOK, Respond
    <2>2. fate' \in [Requests -> Fates]
      BY <1>8, MoveType DEF TypeOK, Respond, Fates
    <2>3. worker' \in Idle
      BY <1>8 DEF Respond, Goto, Idle
    <2> QED BY <1>8, <2>1, <2>2, <2>3 DEF TypeOK, Respond
  <1>9. CASE Exit
    <2>1. worker' \in Idle /\ started' \in BOOLEAN
      BY <1>9 DEF Exit, Goto, Idle
    <2> QED BY <1>9, <2>1 DEF TypeOK, Exit
  <1> QED BY <1>1, <1>2, <1>3, <1>4, <1>5, <1>6, <1>7, <1>8, <1>9

-----------------------------------------------------------------------------
(* The invariants type correctness rests on.                               *)

LEMMA WakeInit == Init => WakeIsNeverServed /\ RoundsLeft /\ OwnerOrder
  BY RequestsAssumption, BoundsAssumption
     DEF Init, WakeIsNeverServed, Occurs, Idle, RoundsLeft, Rounds, Serving,
         OwnerOrder

\* The steps of the worker, by the part of the loop they belong to.
Opening == LoopTest \/ Receive \/ Begin \/ TargetFails \/ Reject \/ GateFails \/ Admit
Talking == \/ BeforeBuild \/ Build \/ BeforeHttp \/ CallLlm \/ LlmAnswers \/ LlmFails
           \/ TakeAbort \/ AfterLlm \/ RunTools \/ ToolsDone \/ Finish
Closing == \/ Drain \/ ClearAbort \/ Absorb \/ Text \/ Final \/ Release
           \/ FailureNote \/ Respond \/ Exit

LEMMA WorkerParts == Worker <=> Opening \/ Talking \/ Closing
  BY DEF Worker, Opening, Talking, Closing

\* Only these steps move an item into or out of the request queue or the
\* worker's hands; all others keep whether the worker is idle.
LEMMA ItemsMove ==
  ASSUME TypeOK, OwnerOrder, [Next]_vars
  PROVE  \/ StopFlag \/ StopWake \/ Receive \/ Respond
         \/ \E r \in Requests : SubmitSend(r)
         \/ /\ UNCHANGED <<cur, requestQueue, stopRequested>>
            /\ worker' \in Idle <=> worker \in Idle
  <1>1. CASE Client
    BY <1>1 DEF Client, SubmitCheck, TryInsert, SubmitTimeout
  <1>2. CASE Canceller \/ Owner \/ Consume
    BY <1>2 DEF Canceller, Cancel, Owner, StartTask, StartFlag, StopCancel,
                StopWait, Consume, Idle, OwnerOrder
  <1>3. CASE Opening
    BY <1>3 DEF Opening, LoopTest, Begin, TargetFails, Reject, GateFails, Admit,
                PrepareFrame, Goto, Fail, Idle
  <1>4. CASE Talking
    <2>1. CASE TakeAbort
      BY <2>1 DEF TakeAbort, Goto, Idle
    <2>2. CASE ~TakeAbort
      BY <1>4, <2>2 DEF Talking, BeforeBuild, Build, BeforeHttp, CallLlm, LlmAnswers,
                  LlmFails, AfterLlm, RunTools, ToolsDone, Finish, PhaseFrame,
                  Goto, Fail, Idle
    <2> QED BY <2>1, <2>2
  <1>5. CASE Closing
    <2>1. CASE Drain
      <3>1. worker = "drain" /\ worker' \in {"clear", AfterDrain[drainedAt]}
        BY <2>1 DEF Drain, Goto
      <3> QED BY <2>1, <3>1 DEF Drain, Idle, AfterDrain, TypeOK, DrainPoints
    <2>2. CASE ~Drain
      BY <1>5, <2>2 DEF Closing, ClearAbort, Absorb, Text, Final, Release,
                        FailureNote, Exit, Goto, Fail, Idle
    <2> QED BY <2>1, <2>2
  <1>6. CASE UNCHANGED vars
    BY <1>6
  <1> QED BY <1>1, <1>2, <1>3, <1>4, <1>5, <1>6, WorkerParts DEF Next

LEMMA WakeStep ==
  ASSUME TypeOK, WakeIsNeverServed, OwnerOrder, [Next]_vars
  PROVE  WakeIsNeverServed'
  <1> USE DEF WakeIsNeverServed
  <1>1. ASSUME NEW r \in Requests, SubmitSend(r)
        PROVE  WakeIsNeverServed'
    <2>1. Occurs(Wake, requestQueue') => Occurs(Wake, requestQueue)
      <3>1. /\ Len(requestQueue') = Len(requestQueue) + 1
            /\ \A i \in 1..Len(requestQueue) : requestQueue'[i] = requestQueue[i]
            /\ requestQueue'[Len(requestQueue) + 1] = r
        BY <1>1, AppendProperties DEF SubmitSend, TypeOK
      <3>2. Len(requestQueue) \in Nat /\ r # Wake
        BY LenProperties, RequestsAssumption DEF TypeOK
      <3> QED BY <3>1, <3>2 DEF Occurs
    <2> QED BY <1>1, <2>1 DEF SubmitSend
  <1>2. CASE StopFlag
    BY <1>2 DEF StopFlag
  <1>3. CASE StopWake
    <2>1. stopRequested
      BY <1>3 DEF StopWake, OwnerOrder
    <2> QED BY <1>3, <2>1 DEF StopWake
  <1>4. CASE Receive
    <2>1. Occurs(Wake, requestQueue') => Occurs(Wake, requestQueue)
      <3>1. /\ Len(requestQueue') = Len(requestQueue) - 1
            /\ \A i \in 1..Len(requestQueue') : requestQueue'[i] = requestQueue[i + 1]
        BY <1>4, HeadTailProperties DEF Receive, TypeOK
      <3>2. Len(requestQueue) \in Nat
        BY LenProperties DEF TypeOK
      <3> QED BY <3>1, <3>2 DEF Occurs
    <2>2. Head(requestQueue) = Wake => Occurs(Wake, requestQueue)
      BY <1>4, EmptySeq DEF Receive, TypeOK, Occurs
    <2>3. cur = None /\ cur' # Wake /\ (cur' = None <=> worker' \in Idle)
      <3>1. Head(requestQueue) \in Requests \cup {Wake}
        BY <1>4, HeadTailProperties DEF Receive, TypeOK
      <3> QED BY <1>4, <2>2, <3>1, RequestsAssumption
              DEF Receive, Serves, Goto, Idle
    <2> QED BY <1>4, <2>1, <2>3 DEF Receive
  <1>5. CASE Respond
    BY <1>5, RequestsAssumption DEF Respond, Goto, Idle
  <1> QED BY <1>1, <1>2, <1>3, <1>4, <1>5, ItemsMove DEF Occurs

LEMMA OwnerStep ==
  ASSUME OwnerOrder, [Next]_vars
  PROVE  OwnerOrder'
  <1> USE DEF OwnerOrder
  <1>1. CASE Owner
    BY <1>1 DEF Owner, StartTask, StartFlag, StopFlag, StopCancel, StopWake, StopWait
  <1>2. CASE Client \/ Canceller \/ Consume
    BY <1>2 DEF Client, SubmitCheck, TryInsert, SubmitSend, SubmitTimeout,
                Canceller, Cancel, Consume
  <1>3. CASE Opening
    BY <1>3 DEF Opening, LoopTest, Receive, Begin, TargetFails, Reject, GateFails,
                Admit, PrepareFrame
  <1>4. CASE Talking
    BY <1>4 DEF Talking, BeforeBuild, Build, BeforeHttp, CallLlm, LlmAnswers,
                LlmFails, TakeAbort, AfterLlm, RunTools, ToolsDone, Finish,
                PhaseFrame
  <1>5. CASE Closing
    BY <1>5 DEF Closing, Drain, ClearAbort, Absorb, Text, Final, Release,
                FailureNote, Respond, Exit
  <1>6. CASE UNCHANGED vars
    BY <1>6
  <1> QED BY <1>1, <1>2, <1>3, <1>4, <1>5, <1>6, WorkerParts DEF Next

LEMMA RoundsStep ==
  ASSUME TypeOK, RoundsLeft, OwnerOrder, [Next]_vars
  PROVE  RoundsLeft'
  <1> USE DEF RoundsLeft, Rounds, Serving
  <1>1. CASE Client \/ Canceller \/ Owner \/ Consume
    BY <1>1 DEF Client, SubmitCheck, TryInsert, SubmitSend, SubmitTimeout,
                Canceller, Cancel, Consume, Owner, StartTask, StartFlag, StopFlag,
                StopCancel, StopWake, StopWait
  <1>2. CASE Opening
    <2>1. CASE LoopTest
      BY <2>1, BoundsAssumption DEF LoopTest
    <2>2. CASE ~LoopTest
      BY <1>2, <2>2 DEF Opening, Receive, Begin, TargetFails, Reject, GateFails,
                        Admit, PrepareFrame, Goto, Fail
    <2> QED BY <2>1, <2>2
  <1>3. CASE ToolsDone
    BY <1>3, BoundsAssumption DEF TypeOK, ToolsDone, LimitReached, Goto, Fail
  <1>4. CASE Talking /\ ~ToolsDone
    BY <1>4 DEF Talking, BeforeBuild, Build, BeforeHttp, CallLlm, LlmAnswers,
                LlmFails, TakeAbort, AfterLlm, RunTools, Finish, PhaseFrame,
                Goto, Fail
  <1>5. CASE Closing
    BY <1>5 DEF Closing, Drain, ClearAbort, Absorb, Text, Final, Release,
                FailureNote, Respond, Exit, Goto, Fail
  <1>6. CASE UNCHANGED vars
    BY <1>6
  <1> QED BY <1>1, <1>2, <1>3, <1>4, <1>5, <1>6, WorkerParts DEF Next

-----------------------------------------------------------------------------
(* The core is well formed, for every value of the constants.              *)

WellFormed == TypeOK /\ WakeIsNeverServed /\ RoundsLeft /\ OwnerOrder

LEMMA WellFormedStep == WellFormed /\ [Next]_vars => WellFormed'
  <1> SUFFICES ASSUME WellFormed, [Next]_vars PROVE WellFormed'
    OBVIOUS
  <1> USE DEF WellFormed
  <1>1. TypeOK'
    <2>1. CASE Client
      BY <2>1, TypeClient DEF Client
    <2>2. CASE Canceller \/ Owner \/ Consume
      BY <2>2, TypeOthers
    <2>3. CASE Worker
      BY <2>3, TypeWorker1, TypeWorker2, TypeWorker3, WorkerParts
         DEF Opening, Talking, Closing
    <2>4. CASE UNCHANGED vars
      BY <2>4 DEF TypeOK
    <2> QED BY <2>1, <2>2, <2>3, <2>4 DEF Next
  <1> QED BY <1>1, WakeStep, OwnerStep, RoundsStep

\* Every state of the core has the declared types.
THEOREM TypeCorrect == Spec => []TypeOK
  <1>1. Init => WellFormed
    BY TypeInit, WakeInit DEF WellFormed
  <1>2. WellFormed => TypeOK
    BY DEF WellFormed
  <1> QED BY <1>1, <1>2, WellFormedStep, PTL DEF Spec

\* The wake item of claw_core_stop is never served as a request, and it is only
\* in the queue of a core that was told to stop.
THEOREM WakeNeverServed == Spec => []WakeIsNeverServed
  <1>1. Init => WellFormed
    BY TypeInit, WakeInit DEF WellFormed
  <1>2. WellFormed => WakeIsNeverServed
    BY DEF WellFormed
  <1> QED BY <1>1, <1>2, WellFormedStep, PTL DEF Spec

-----------------------------------------------------------------------------
(* The state under inflight_lock, and the aborts raised through it.        *)

Locked == WellFormed /\ InflightMatchesWorker /\ AbortHasWork

LEMMA LockedInit == Init => Locked
  BY TypeInit, WakeInit
     DEF Locked, WellFormed, Init, InflightMatchesWorker, AbortHasWork, InFlight,
         Serving

\* A submission only touches the locked state by inserting, and then it raises
\* an abort together with the work the abort is for.
LEMMA LockedSubmit ==
  ASSUME Locked, Client
  PROVE  InflightMatchesWorker' /\ AbortHasWork'
  <1> USE DEF Locked, InflightMatchesWorker, AbortHasWork, InFlight
  <1>1. PICK r \in Requests : \/ SubmitCheck(r) \/ TryInsert(r)
                              \/ SubmitSend(r) \/ SubmitTimeout(r)
    BY DEF Client
  <1>2. CASE SubmitCheck(r) \/ SubmitSend(r) \/ SubmitTimeout(r)
    BY <1>2 DEF SubmitCheck, SubmitSend, SubmitTimeout
  <1>3. CASE TryInsert(r)
    <2>1. CASE insertQueue' = Append(insertQueue, r) /\ SameConversation(r)
      <3>1. insertQueue' # <<>>
        BY <2>1, AppendProperties, EmptySeq DEF WellFormed, TypeOK
      <3>2. InFlight
        BY <2>1 DEF SameConversation
      <3>3. \/ UNCHANGED <<abort, reason>>
            \/ abort' = TRUE /\ reason' = "USER_INTERRUPT"
        BY <1>3 DEF TryInsert
      <3>4. UNCHANGED <<inflightId, inflightSession, phase, worker, cur, drainedAt>>
        BY <1>3 DEF TryInsert
      <3> QED BY <3>1, <3>2, <3>3, <3>4
    <2>2. CASE UNCHANGED controlVars
      BY <1>3, <2>2 DEF TryInsert
    <2> QED BY <1>3, <2>1, <2>2 DEF TryInsert
  <1> QED BY <1>1, <1>2, <1>3

LEMMA LockedOthers ==
  ASSUME Locked, Canceller \/ Owner \/ Consume
  PROVE  InflightMatchesWorker' /\ AbortHasWork'
  <1> USE DEF Locked, InflightMatchesWorker, AbortHasWork, InFlight
  <1>1. CASE Canceller
    BY <1>1 DEF Canceller, Cancel, ArmCancel, CancelHits
  <1>2. CASE StopCancel
    BY <1>2 DEF StopCancel, ArmCancel, CancelHits
  <1>3. CASE StartTask
    BY <1>3 DEF StartTask, Serving, WellFormed, OwnerOrder
  <1>4. CASE StartFlag \/ StopFlag \/ StopWake \/ StopWait \/ Consume
    BY <1>4 DEF StartFlag, StopFlag, StopWake, StopWait, Consume
  <1> QED BY <1>1, <1>2, <1>3, <1>4 DEF Owner

LEMMA LockedOpening ==
  ASSUME Locked, Opening
  PROVE  InflightMatchesWorker' /\ AbortHasWork'
  <1> USE DEF Locked, InflightMatchesWorker, AbortHasWork, InFlight, Goto
  <1>1. CASE LoopTest
    BY <1>1 DEF LoopTest, Serving
  <1>2. CASE Receive
    BY <1>2 DEF Receive, Serving
  <1>3. CASE Begin
    BY <1>3 DEF Begin, FreeInserts, Serving
  <1>4. CASE TargetFails \/ Reject \/ GateFails \/ Admit
    <2>1. worker = "prepare" /\ worker' \in {"finish", "top"}
      BY <1>4 DEF TargetFails, Reject, GateFails, Admit, Fail
    <2>2. UNCHANGED <<inflightVars, cur, drainedAt>>
      BY <1>4 DEF TargetFails, Reject, GateFails, Admit, PrepareFrame
    <2> QED BY <2>1, <2>2 DEF Serving
  <1> QED BY <1>1, <1>2, <1>3, <1>4 DEF Opening

LEMMA LockedTalking ==
  ASSUME Locked, Talking
  PROVE  InflightMatchesWorker' /\ AbortHasWork'
  <1> USE DEF Locked, InflightMatchesWorker, AbortHasWork, InFlight, Goto
  <1>1. CASE TakeAbort
    BY <1>1 DEF TakeAbort, Serving
  <1>2. CASE ~TakeAbort
    <2>1. /\ worker \in Serving /\ worker' \in Serving /\ phase' # "IDLE"
          /\ worker # "clear" /\ (worker' = "drain" => drainedAt' # "abort")
      BY <1>2 DEF Talking, BeforeBuild, Build, BeforeHttp, CallLlm, LlmAnswers,
                  LlmFails, AfterLlm, RunTools, ToolsDone, Finish, Fail, Serving
    <2>2. UNCHANGED <<slotVars, controlVars, cur>>
      BY <1>2 DEF Talking, BeforeBuild, Build, BeforeHttp, CallLlm, LlmAnswers,
                  LlmFails, AfterLlm, RunTools, ToolsDone, Finish, PhaseFrame
    <2> QED BY <2>1, <2>2
  <1> QED BY <1>1, <1>2

LEMMA LockedClosing ==
  ASSUME Locked, Closing
  PROVE  InflightMatchesWorker' /\ AbortHasWork'
  <1> USE DEF Locked, InflightMatchesWorker, AbortHasWork, InFlight, Goto
  <1>1. CASE Drain
    <2>1. PICK n \in 0..Len(insertQueue) :
             /\ insertQueue' = SubSeq(insertQueue, n + 1, Len(insertQueue))
             /\ worker' = IF n > 0 THEN "clear" ELSE AfterDrain[drainedAt]
      BY <1>1 DEF Drain, Undrained
    <2>2. n = 0 => insertQueue' = insertQueue
      BY <2>1, SubSeqFull DEF WellFormed, TypeOK
    <2>3. worker' \in Serving /\ worker' # "drain"
      BY <2>1 DEF AfterDrain, DrainPoints, Serving, WellFormed, TypeOK
    <2>4. worker' = "clear" \/ n = 0
      BY <2>1
    <2>5. worker = "drain" /\ UNCHANGED <<slotVars, phase, abort, reason, cur>>
      BY <1>1 DEF Drain
    <2> QED BY <2>2, <2>3, <2>4, <2>5 DEF Serving
  <1>2. CASE ClearAbort
    BY <1>2 DEF ClearAbort, Clearable, Serving
  <1>3. CASE Absorb
    BY <1>3 DEF Absorb, Fail, Serving
  <1>4. CASE Text \/ Final
    <2>1. worker \in {"text", "final"} /\ worker' \in {"final", "finish"}
      BY <1>4 DEF Text, Final
    <2>2. /\ UNCHANGED <<slotVars, controlVars, cur>>
          /\ phase' \in {phase, "FINALIZING"}
      BY <1>4 DEF Text, Final
    <2> QED BY <2>1, <2>2 DEF Serving
  <1>5. CASE Release
    BY <1>5 DEF Release, FreeInserts, Serving
  <1>6. CASE FailureNote \/ Respond \/ Exit
    BY <1>6 DEF FailureNote, Respond, Exit, Serving
  <1> QED BY <1>1, <1>2, <1>3, <1>4, <1>5, <1>6 DEF Closing

LEMMA LockedStep == Locked /\ [Next]_vars => Locked'
  <1> SUFFICES ASSUME Locked, [Next]_vars PROVE Locked'
    OBVIOUS
  <1>1. WellFormed'
    BY WellFormedStep DEF Locked
  <1>2. CASE Next
    BY <1>1, <1>2, LockedSubmit, LockedOthers, LockedOpening, LockedTalking,
       LockedClosing, WorkerParts DEF Next, Locked
  <1>3. CASE UNCHANGED vars
    BY <1>1, <1>3 DEF Locked, InflightMatchesWorker, AbortHasWork, InFlight
  <1> QED BY <1>2, <1>3

\* The state under inflight_lock describes the request being served.
THEOREM InflightCorrect == Spec => []InflightMatchesWorker
  <1>1. Locked => InflightMatchesWorker
    BY DEF Locked
  <1> QED BY <1>1, LockedInit, LockedStep, PTL DEF Spec

\* An abort raised by a user interrupt never outlives the interrupt.
THEOREM AbortsHaveWork == Spec => []AbortHasWork
  <1>1. Locked => AbortHasWork
    BY DEF Locked
  <1> QED BY <1>1, LockedInit, LockedStep, PTL DEF Spec

-----------------------------------------------------------------------------
(* A cancel sticks.                                                        *)

Holds == reason' = "CANCEL" /\ abort'
           /\ ~(worker = "http" /\ worker' \in {"text", "postLlm"})

\* Once armed, a cancel stands until the request is released, and no LLM call
\* returns an answer under it.
THEOREM CancelsStick == Spec => CancelSticks
  <1>1. Locked /\ [Next]_vars => (reason = "CANCEL" /\ inflightId' # None => Holds)
    <2> SUFFICES ASSUME Locked, [Next]_vars, reason = "CANCEL", inflightId' # None
                 PROVE  Holds
      OBVIOUS
    <2> USE DEF Holds, Locked, AbortHasWork, InflightMatchesWorker, InFlight
    <2>1. CASE Client
      <3>1. PICK r \in Requests : \/ SubmitCheck(r) \/ TryInsert(r)
                                  \/ SubmitSend(r) \/ SubmitTimeout(r)
        BY <2>1 DEF Client
      <3>2. UNCHANGED <<worker, abort, reason>>
        BY <3>1 DEF SubmitCheck, TryInsert, SubmitSend, SubmitTimeout, InsertArms
      <3> QED BY <3>2
    <2>2. CASE Canceller \/ Owner \/ Consume
      BY <2>2 DEF Canceller, Cancel, ArmCancel, Owner, StartTask, StartFlag, StopFlag,
                  StopCancel, StopWake, StopWait, Consume
    <2>3. CASE Opening
      BY <2>3 DEF Opening, LoopTest, Receive, Begin, TargetFails, Reject,
                  GateFails, Admit, PrepareFrame, Serving
    <2>4. CASE Talking
      BY <2>4 DEF Talking, BeforeBuild, Build, BeforeHttp, CallLlm, LlmAnswers,
                  LlmFails, TakeAbort, AfterLlm, RunTools, ToolsDone, Finish,
                  PhaseFrame, Goto, Fail
    <2>5. CASE Closing
      BY <2>5 DEF Closing, Drain, ClearAbort, Clearable, Absorb, Text, Final,
                  Release, FailureNote, Respond, Exit, Goto
    <2>6. CASE UNCHANGED vars
      BY <2>6
    <2> QED BY <2>1, <2>2, <2>3, <2>4, <2>5, <2>6, WorkerParts DEF Next
  <1>2. Locked /\ [Next]_vars
          => [reason = "CANCEL" /\ inflightId' # None
               => reason' = "CANCEL" /\ abort'
                  /\ ~(worker = "http" /\ worker' \in {"text", "postLlm"})]_vars
    BY <1>1 DEF Holds
  <1> QED BY <1>2, LockedInit, LockedStep, PTL DEF Spec, CancelSticks

-----------------------------------------------------------------------------
(* The inserts that wait belong to the session in flight. A drain therefore *)
(* leaves none behind before the insert queue ends: one that begins with an *)
(* interrupt waiting comes back with it.                                    *)

InsertsJoin == \A i \in 1..Len(insertQueue) :
                  /\ SessionOf[insertQueue[i]] # None
                  /\ SessionOf[insertQueue[i]] = inflightSession

Joined == Locked /\ InsertsJoin

LEMMA InsertsMove ==
  ASSUME [Next]_vars
  PROVE  \/ \E r \in Requests : TryInsert(r)
         \/ Begin \/ Drain \/ Release
         \/ UNCHANGED <<insertQueue, inflightSession>>
  <1>1. CASE Client
    BY <1>1 DEF Client, SubmitCheck, SubmitSend, SubmitTimeout
  <1>2. CASE Canceller \/ Owner \/ Consume
    BY <1>2 DEF Canceller, Cancel, Owner, StartTask, StartFlag, StopFlag, StopCancel,
                StopWake, StopWait, Consume
  <1>3. CASE Opening
    BY <1>3 DEF Opening, LoopTest, Receive, TargetFails, Reject, GateFails, Admit,
                PrepareFrame
  <1>4. CASE Talking
    BY <1>4 DEF Talking, BeforeBuild, Build, BeforeHttp, CallLlm, LlmAnswers,
                LlmFails, TakeAbort, AfterLlm, RunTools, ToolsDone, Finish, PhaseFrame
  <1>5. CASE Closing
    BY <1>5 DEF Closing, ClearAbort, Absorb, Text, Final, FailureNote, Respond, Exit
  <1>6. CASE UNCHANGED vars
    BY <1>6
  <1> QED BY <1>1, <1>2, <1>3, <1>4, <1>5, <1>6, WorkerParts DEF Next

LEMMA JoinsStep ==
  ASSUME Locked, InsertsJoin, [Next]_vars
  PROVE  InsertsJoin'
  <1> USE DEF InsertsJoin
  <1>1. insertQueue \in Seq(Requests) /\ Len(insertQueue) \in Nat
    BY LenProperties DEF Locked, WellFormed, TypeOK
  <1>2. ASSUME NEW r \in Requests, TryInsert(r)
        PROVE  InsertsJoin'
    <2>1. CASE insertQueue' = Append(insertQueue, r) /\ SameConversation(r)
      <3>1. /\ Len(insertQueue') = Len(insertQueue) + 1
            /\ \A i \in 1..Len(insertQueue) : insertQueue'[i] = insertQueue[i]
            /\ insertQueue'[Len(insertQueue) + 1] = r
        BY <1>1, <2>1, AppendProperties
      <3>2. inflightSession' = inflightSession
        BY <1>2 DEF TryInsert
      <3> QED BY <1>1, <2>1, <3>1, <3>2 DEF SameConversation
    <2>2. CASE UNCHANGED insertQueue
      BY <1>2, <2>2 DEF TryInsert
    <2> QED BY <1>2, <2>1, <2>2 DEF TryInsert
  <1>3. CASE Begin \/ Release
    BY <1>3, EmptySeq DEF Begin, Release, FreeInserts
  <1>4. CASE Drain
    <2>1. PICK n \in 0..Len(insertQueue) : insertQueue' = Undrained(n)
      BY <1>4 DEF Drain
    <2>2. \A i \in 1..Len(insertQueue) : insertQueue[i] \in Requests
      BY <1>1, ElementOfSeq
    <2>3. /\ Len(insertQueue') = Len(insertQueue) - n
          /\ \A i \in 1..(Len(insertQueue) - n) : insertQueue'[i] = insertQueue[n + i]
      BY <1>1, <2>1, <2>2, SubSeqProperties DEF Undrained
    <2> QED BY <1>1, <1>4, <2>3 DEF Drain
  <1>5. CASE UNCHANGED <<insertQueue, inflightSession>>
    BY <1>5
  <1> QED BY <1>2, <1>3, <1>4, <1>5, InsertsMove

LEMMA JoinedInit == Init => Joined
  BY LockedInit, EmptySeq DEF Joined, InsertsJoin, Init

LEMMA JoinedStep == Joined /\ [Next]_vars => Joined'
  BY LockedStep, JoinsStep DEF Joined

\* A drain for an aborted LLM call finds the interrupt that aborted it, and
\* the worker goes on with that one.
LEMMA AbortDrainFinds ==
  ASSUME Joined, Drain, drainedAt = "abort"
  PROVE  worker' = "clear"
  <1>1. insertQueue \in Seq(Requests) /\ insertQueue # <<>>
    BY DEF Joined, Locked, WellFormed, TypeOK, AbortHasWork, Drain
  <1>2. Len(insertQueue) \in Nat \ {0}
    BY <1>1, EmptySeq
  <1>3. inflightSession = SessionOf[cur]
    BY DEF Joined, Locked, InflightMatchesWorker, InFlight, Serving, Drain
  <1>4. Joins(1)
    BY <1>2, <1>3 DEF Joined, InsertsJoin, Joins
  <1>5. PICK n \in 0..Len(insertQueue) :
           DrainsExactly(n) /\ Goto(IF n > 0 THEN "clear" ELSE AfterDrain[drainedAt])
    BY DEF Drain
  <1>6. n # 0
    BY <1>2, <1>4, <1>5, BoundsAssumption DEF DrainsExactly
  <1> QED BY <1>5, <1>6 DEF Goto

-----------------------------------------------------------------------------
(* What becomes of the answer. A request has no result and no observer is   *)
(* told before the worker has the model's text; from then on the two go     *)
(* together. A turn that was opened is closed, or something failed, on every *)
(* way to the response: by the final record, by the failure note of a       *)
(* request that ends with an error, or because what was left out is itself  *)
(* a failure.                                                               *)

Underway == (Serving \cup {"recv", "begin"}) \ {"final", "finish", "release"}

ObserverInv ==
    /\ worker \in Underway => ~observed /\ result = None
    /\ worker \in {"text", "final"} => err = "ok"
    /\ worker = "failed" => err = "fail"
    /\ worker = "final" => ~observed
    /\ worker \in {"finish", "release"} => (observed <=> result = "text")
                                           /\ (observed => err = "ok")
    /\ worker \in After => (observed <=> result = "text")

TurnInv ==
    /\ worker \in {"recv", "begin", "prepare"} => turn = "none"
    /\ turn = "open" /\ worker \in Before \cup Serving \cup After => Persists
    /\ worker = "final" => result = "text" \/ hampered
    /\ worker \in {"finish", "release", "note"} /\ err = "ok" /\ turn = "open" => hampered
    /\ worker = "respond" /\ turn = "open" => hampered

AnswerInv == ObserverInv /\ TurnInv

LEMMA NoneIsNoAnswer == None # "text"
  BY RequestsAssumption DEF Answers

LEMMA AnswerOthers ==
  ASSUME WellFormed, AnswerInv, Client \/ Canceller \/ Owner \/ Consume
  PROVE  AnswerInv'
  <1>1. UNCHANGED <<cur, err, result, turn, hampered, observed>>
    BY DEF Client, SubmitCheck, TryInsert, SubmitSend, SubmitTimeout, Canceller, Cancel,
           Owner, StartTask, StartFlag, StopFlag, StopCancel, StopWake, StopWait, Consume
  <1>2. worker' = worker \/ worker' = "loop"
    BY DEF Client, SubmitCheck, TryInsert, SubmitSend, SubmitTimeout, Canceller, Cancel,
           Owner, StartTask, StartFlag, StopFlag, StopCancel, StopWake, StopWait, Consume
  <1>3. CASE worker' = worker
    BY <1>1, <1>3 DEF AnswerInv, ObserverInv, TurnInv, Persists
  <1>4. CASE worker' = "loop"
    BY <1>4 DEF AnswerInv, ObserverInv, TurnInv, Underway, Before, Serving, After
  <1> QED BY <1>2, <1>3, <1>4

\* A step that stays before the answer, or gives up with an error.
LEMMA StillUnderway ==
  ASSUME AnswerInv, worker \in Underway, UNCHANGED <<cur, result, turn, hampered, observed>>,
         \/ worker' \in Underway \ {"recv", "begin", "prepare", "text", "failed"}
         \/ worker' = "text" /\ err' = "ok"
         \/ worker' = "failed" /\ err' = "fail"
         \/ worker' = "finish" /\ err' = "fail"
  PROVE  AnswerInv'
  <1>a. ~observed /\ result = None /\ result # "text"
    BY NoneIsNoAnswer DEF AnswerInv, ObserverInv
  <1>1. ObserverInv'
    BY <1>a DEF ObserverInv, Underway, Serving, After
  <1>2. turn = "open" => Persists
    BY DEF AnswerInv, TurnInv, Underway, Before, Serving, After
  <1>3. (turn = "open" => Persists)'
    BY <1>2 DEF Persists
  <1>4. TurnInv'
    BY <1>3 DEF TurnInv, Underway, Before, Serving, After
  <1> QED BY <1>1, <1>4 DEF AnswerInv

LEMMA AnswerOpening ==
  ASSUME WellFormed, AnswerInv, Opening
  PROVE  AnswerInv'
  <1>1. CASE LoopTest
    BY <1>1 DEF LoopTest, Goto, AnswerInv, ObserverInv, TurnInv, Underway, Before, Serving,
                After
  <1>2. CASE Receive \/ Begin
    <2>1. UNCHANGED <<err, result, turn, hampered, observed>>
      BY <1>2 DEF Receive, Begin
    <2>2. worker \in {"recv", "begin"} /\ worker' \in {"begin", "exit", "prepare"}
      BY <1>2 DEF Receive, Begin, Goto
    <2>3. ~observed /\ result = None /\ turn = "none"
      BY <2>2 DEF AnswerInv, ObserverInv, TurnInv, Underway, Serving
    <2>4. ObserverInv'
      BY <2>1, <2>2, <2>3 DEF ObserverInv, After
    <2>5. TurnInv'
      BY <2>1, <2>2, <2>3 DEF TurnInv
    <2> QED BY <2>4, <2>5 DEF AnswerInv
  <1>3. CASE TargetFails \/ Reject \/ GateFails
    <2>1. worker = "prepare" /\ worker' = "finish" /\ turn' = turn
      BY <1>3 DEF TargetFails, Reject, GateFails, Fail, Goto
    <2>2. UNCHANGED observed /\ result' \in {result, "rejected"}
      BY <1>3 DEF TargetFails, Reject, GateFails, PrepareFrame
    <2>3. ~observed /\ result = None /\ turn = "none"
      BY <2>1 DEF AnswerInv, ObserverInv, TurnInv, Underway, Serving
    <2>4. result' # "text"
      BY <2>2, <2>3, NoneIsNoAnswer
    <2>5. ObserverInv'
      BY <2>1, <2>2, <2>3, <2>4 DEF ObserverInv, Underway, Serving, After
    <2>6. TurnInv'
      BY <2>1, <2>3 DEF TurnInv
    <2> QED BY <2>5, <2>6 DEF AnswerInv
  <1>4. CASE Admit
    <2>1. worker = "prepare" /\ UNCHANGED <<cur, observed, result>>
      BY <1>4 DEF Admit, PrepareFrame
    <2>2. ~observed /\ result = None /\ turn = "none"
      BY <2>1 DEF AnswerInv, ObserverInv, TurnInv, Underway, Serving
    <2>3. turn' = "open" => Persists'
      BY <1>4, <2>1, <2>2 DEF Admit, Record, Persists
    <2>4. worker' = "top" \/ (worker' = "finish" /\ (err' = "ok" => hampered'))
      BY <1>4 DEF Admit, Hamper, Fail, Goto
    <2>5. result # "text"
      BY <2>2, NoneIsNoAnswer
    <2>6. ObserverInv'
      BY <2>1, <2>2, <2>4, <2>5 DEF ObserverInv, Underway, Serving, After
    <2>7. TurnInv'
      BY <2>3, <2>4 DEF TurnInv
    <2> QED BY <2>6, <2>7 DEF AnswerInv
  <1> QED BY <1>1, <1>2, <1>3, <1>4 DEF Opening

LEMMA AnswerTalking ==
  ASSUME WellFormed, AnswerInv, Talking
  PROVE  AnswerInv'
  <1>1. UNCHANGED <<cur, result, turn, hampered, observed>>
    BY DEF Talking, BeforeBuild, Build, BeforeHttp, CallLlm, LlmAnswers, LlmFails,
           TakeAbort, AfterLlm, RunTools, ToolsDone, Finish, PhaseFrame
  <1>2. CASE Finish
    <2>1. worker = "finish" /\ worker' = "release" /\ err' = err
      BY <1>2 DEF Finish, Goto
    <2>2. ObserverInv'
      BY <1>1, <2>1 DEF AnswerInv, ObserverInv, Underway, After
    <2>3. TurnInv'
      BY <1>1, <2>1 DEF AnswerInv, TurnInv, Persists, Before, Serving, After
    <2> QED BY <2>2, <2>3 DEF AnswerInv
  <1>3. CASE TakeAbort
    <2>1. worker = "failed" /\ worker' \in {"drain", "finish"} /\ err' = err
      BY <1>3 DEF TakeAbort, Goto
    <2>2. err = "fail" /\ worker \in Underway
      BY <2>1 DEF AnswerInv, ObserverInv, Underway, Serving
    <2>3. "drain" \in Underway
      BY DEF Underway, Serving
    <2> QED BY <1>1, <2>1, <2>2, <2>3, StillUnderway
  <1>4. CASE \/ BeforeBuild \/ Build \/ BeforeHttp \/ CallLlm \/ LlmAnswers \/ LlmFails
             \/ AfterLlm \/ RunTools \/ ToolsDone
    <2>1. worker \in {"top", "build", "preHttp", "callLlm", "http", "postLlm", "toTools",
                      "tools"}
      BY <1>4 DEF BeforeBuild, Build, BeforeHttp, CallLlm, LlmAnswers, LlmFails, AfterLlm,
                  RunTools, ToolsDone
    <2>2. \/ worker' \in {"drain", "preHttp", "http", "postLlm", "tools", "top"}
          \/ worker' = "text" /\ err' = "ok"
          \/ worker' = "failed" /\ err' = "fail"
          \/ worker' = "finish" /\ err' = "fail"
      BY <1>4 DEF BeforeBuild, Build, BeforeHttp, CallLlm, LlmAnswers, LlmFails, AfterLlm,
                  RunTools, ToolsDone, Goto, Fail
    <2>3. /\ worker \in Underway
          /\ {"drain", "preHttp", "http", "postLlm", "tools", "top"}
               \subseteq Underway \ {"recv", "begin", "prepare", "text", "failed"}
      BY <2>1 DEF Underway, Serving
    <2> QED BY <1>1, <2>2, <2>3, StillUnderway
  <1> QED BY <1>2, <1>3, <1>4 DEF Talking

LEMMA AnswerClosing ==
  ASSUME Joined, AnswerInv, Closing
  PROVE  AnswerInv'
  <1>a. WellFormed /\ TypeOK
    BY DEF Joined, Locked, WellFormed
  <1>1. CASE Drain
    <2>1. worker = "drain" /\ UNCHANGED <<cur, result, turn, hampered, observed>>
      BY <1>1 DEF Drain
    <2>2. worker' \in {"clear", AfterDrain[drainedAt]}
      BY <1>1 DEF Drain, Goto
    <2>3. drainedAt = "abort" => worker' = "clear"
      BY <1>1, AbortDrainFinds
    <2>4. worker' \in {"clear", "build", "callLlm", "toTools"}
      BY <1>a, <2>2, <2>3 DEF TypeOK, DrainPoints, AfterDrain
    <2>5. /\ worker \in Underway
          /\ {"clear", "build", "callLlm", "toTools"}
               \subseteq Underway \ {"recv", "begin", "prepare", "text", "failed"}
      BY <2>1 DEF Underway, Serving
    <2> QED BY <2>1, <2>4, <2>5, StillUnderway
  <1>2. CASE ClearAbort
    <2>1. /\ worker = "clear" /\ worker' = "absorb"
          /\ UNCHANGED <<cur, result, turn, hampered, observed>>
      BY <1>2 DEF ClearAbort, Goto
    <2>2. /\ worker \in Underway
          /\ worker' \in Underway \ {"recv", "begin", "prepare", "text", "failed"}
      BY <2>1 DEF Underway, Serving
    <2> QED BY <2>1, <2>2, StillUnderway
  <1>3. CASE Absorb
    <2>1. worker = "absorb" /\ UNCHANGED <<cur, result, observed>>
      BY <1>3 DEF Absorb
    <2>2. ~observed /\ result = None /\ result # "text" /\ (turn = "open" => Persists)
      BY <2>1, NoneIsNoAnswer DEF AnswerInv, ObserverInv, TurnInv, Underway, Serving
    <2>3. turn' = "open" => Persists'
      BY <1>3, <2>1, <2>2 DEF Absorb, Record, Persists
    <2>4. worker' = "top" \/ (worker' = "finish" /\ err' = "fail")
      BY <1>3 DEF Absorb, Fail, Goto
    <2>5. ObserverInv'
      BY <2>1, <2>2, <2>4 DEF ObserverInv, After
    <2>6. TurnInv'
      BY <2>3, <2>4 DEF TurnInv
    <2> QED BY <2>5, <2>6 DEF AnswerInv
  <1>4. CASE Text
    <2>1. worker = "text" /\ worker' = "final" /\ UNCHANGED <<cur, err, turn, observed>>
      BY <1>4 DEF Text, Goto
    <2>2. result' = "text" \/ hampered'
      BY <1>4 DEF Text, Hamper
    <2>3. ~observed /\ err = "ok" /\ (turn = "open" => Persists)
      BY <2>1 DEF AnswerInv, ObserverInv, TurnInv, Underway, Serving
    <2>4. ObserverInv'
      BY <2>1, <2>3 DEF ObserverInv, Underway, After
    <2>5. TurnInv'
      BY <2>1, <2>2, <2>3 DEF TurnInv, Persists
    <2> QED BY <2>4, <2>5 DEF AnswerInv
  <1>5. CASE Final
    <2>1. worker = "final" /\ worker' = "finish" /\ UNCHANGED <<cur, err, result>>
      BY <1>5 DEF Final, Goto
    <2>2. ~observed /\ err = "ok" /\ (result = "text" \/ hampered)
            /\ (turn = "open" => Persists)
      BY <2>1 DEF AnswerInv, ObserverInv, TurnInv, Serving
    <2>3. CASE result = "text"
      <3>1. PICK stored \in BOOLEAN : Record(stored, "closed") /\ Hamper(~stored)
        BY <1>5, <2>3 DEF Final
      <3>2. observed' = TRUE
        BY <1>5, <2>3 DEF Final
      <3>3. turn' = "open" => hampered' /\ turn = "open"
        BY <2>2, <3>1 DEF Record, Hamper
      <3>4. ObserverInv'
        BY <2>1, <2>2, <2>3, <3>2 DEF ObserverInv, Underway, After
      <3>5. TurnInv'
        BY <2>1, <2>2, <3>3 DEF TurnInv, Persists
      <3> QED BY <3>4, <3>5 DEF AnswerInv
    <2>4. CASE result # "text"
      <3>1. UNCHANGED <<turn, hampered, observed>>
        BY <1>5, <2>4 DEF Final
      <3>2. ObserverInv'
        BY <2>1, <2>2, <2>4, <3>1 DEF ObserverInv, Underway, After
      <3>3. TurnInv'
        BY <2>1, <2>2, <2>4, <3>1 DEF TurnInv, Persists
      <3> QED BY <3>2, <3>3 DEF AnswerInv
    <2> QED BY <2>3, <2>4
  <1>6. CASE Release
    <2>1. worker = "release" /\ worker' = "note"
      BY <1>6 DEF Release, Goto
    <2>2. UNCHANGED <<cur, err, turn, hampered, observed>>
      BY <1>6 DEF Release
    <2>3. result' = Outcome(WasCancelled)
      BY <1>6 DEF Release
    <2>4. /\ observed <=> result = "text"
          /\ observed => err = "ok"
          /\ turn = "open" => Persists
          /\ err = "ok" /\ turn = "open" => hampered
      BY <2>1 DEF AnswerInv, ObserverInv, TurnInv, Serving
    <2>5. result' = "text" <=> result = "text"
      <3>1. CASE err = "fail"
        BY <2>3, <2>4, <3>1 DEF Outcome
      <3>2. CASE err = "ok"
        BY <2>3, <3>2, NoneIsNoAnswer DEF Outcome
      <3> QED BY <1>a, <3>1, <3>2 DEF TypeOK
    <2>6. ObserverInv'
      BY <2>1, <2>2, <2>4, <2>5 DEF ObserverInv, Underway, Serving
    <2>7. TurnInv'
      BY <2>1, <2>2, <2>4 DEF TurnInv, Persists
    <2> QED BY <2>6, <2>7 DEF AnswerInv
  <1>7. CASE FailureNote
    <2>1. worker = "note" /\ worker' = "respond" /\ UNCHANGED <<cur, err, result, observed>>
      BY <1>7 DEF FailureNote, Goto
    <2>2. /\ observed <=> result = "text"
          /\ turn = "open" => Persists
          /\ err = "ok" /\ turn = "open" => hampered
      BY <2>1 DEF AnswerInv, ObserverInv, TurnInv, After
    <2>3. turn' = "open" => hampered' /\ turn = "open"
      <3>1. CASE err = "fail"
        <4>1. PICK stored \in BOOLEAN : Record(stored, "closed") /\ Hamper(~stored)
          BY <1>7, <3>1 DEF FailureNote, NeedsNote
        <4> QED BY <2>2, <4>1 DEF Record, Hamper
      <3>2. CASE err = "ok"
        BY <1>7, <2>2, <3>2 DEF FailureNote, NeedsNote
      <3> QED BY <1>a, <3>1, <3>2 DEF TypeOK
    <2>4. ObserverInv'
      BY <2>1, <2>2 DEF ObserverInv, Underway, Serving
    <2>5. TurnInv'
      BY <2>1, <2>2, <2>3 DEF TurnInv, Persists
    <2> QED BY <2>4, <2>5 DEF AnswerInv
  <1>8. CASE Respond \/ Exit
    <2>1. worker' \in {"loop", "none"}
      BY <1>8 DEF Respond, Exit, Goto
    <2> QED BY <2>1 DEF AnswerInv, ObserverInv, TurnInv, Underway, Before, Serving, After
  <1> QED BY <1>1, <1>2, <1>3, <1>4, <1>5, <1>6, <1>7, <1>8 DEF Closing

LEMMA AnswerInit == Init => AnswerInv
  BY DEF Init, AnswerInv, ObserverInv, TurnInv, Underway, Before, Serving, After

LEMMA AnswerStep == Joined /\ AnswerInv /\ [Next]_vars => AnswerInv'
  <1> SUFFICES ASSUME Joined, AnswerInv, [Next]_vars PROVE AnswerInv'
    OBVIOUS
  <1>1. WellFormed
    BY DEF Joined, Locked
  <1>2. CASE UNCHANGED vars
    BY <1>2 DEF AnswerInv, ObserverInv, TurnInv, Persists
  <1> QED BY <1>1, <1>2, AnswerOthers, AnswerOpening, AnswerTalking, AnswerClosing,
             WorkerParts DEF Next

\* A record of the user's turn is closed however the request ended, unless
\* memory or the session store failed meanwhile.
THEOREM TurnsAreClosed == Spec => []AnsweredTurnsAreClosed
  <1>1. AnswerInv => AnsweredTurnsAreClosed
    BY DEF AnswerInv, TurnInv, AnsweredTurnsAreClosed
  <1> QED BY <1>1, JoinedInit, JoinedStep, AnswerInit, AnswerStep, PTL DEF Spec

\* The completion observers are told of the requests that are answered with
\* the model's text, and of no other, however late a cancel comes.
THEOREM ObserversAreTold == Spec => []ObserversSeeAnswers
  <1>1. AnswerInv => ObserversSeeAnswers
    BY DEF AnswerInv, ObserverInv, ObserversSeeAnswers, After
  <1> QED BY <1>1, JoinedInit, JoinedStep, AnswerInit, AnswerStep, PTL DEF Spec

-----------------------------------------------------------------------------
(* Every accepted request is in one place. With OnePlace goes that the      *)
(* worker holds dequeued texts only until it has appended them, so that a   *)
(* drain overwrites none.                                                   *)

LEMMA OccursAppend ==
  ASSUME NEW S, NEW q \in Seq(S), NEW e \in S
  PROVE  /\ \A r : Occurs(r, Append(q, e)) <=> Occurs(r, q) \/ r = e
         /\ NoRepeats(q) /\ (e = Wake \/ ~Occurs(e, q)) => NoRepeats(Append(q, e))
  <1> DEFINE p == Append(q, e)
  <1>1. /\ Len(p) = Len(q) + 1 /\ p[Len(q) + 1] = e
        /\ \A i \in 1..Len(q) : p[i] = q[i]
    BY AppendProperties
  <1>2. Len(q) \in Nat
    BY LenProperties
  <1> HIDE DEF p
  <1>3. \A i \in 1..Len(p) : i \in 1..Len(q) \/ i = Len(q) + 1
    BY <1>1, <1>2
  <1>4. 1..Len(q) \subseteq 1..Len(p) /\ Len(q) + 1 \in 1..Len(p)
    BY <1>1, <1>2
  <1>5. \A r : Occurs(r, p) <=> Occurs(r, q) \/ r = e
    BY <1>1, <1>3, <1>4 DEF Occurs
  <1>6. ASSUME NoRepeats(q), e = Wake \/ ~Occurs(e, q) PROVE NoRepeats(p)
    BY <1>1, <1>3, <1>6 DEF NoRepeats, Occurs
  <1> QED BY <1>5, <1>6 DEF p

LEMMA OccursTail ==
  ASSUME NEW S, NEW q \in Seq(S), q # <<>>
  PROVE  /\ \A r : Occurs(r, q) <=> r = Head(q) \/ Occurs(r, Tail(q))
         /\ NoRepeats(q) => NoRepeats(Tail(q))
         /\ NoRepeats(q) /\ Head(q) # Wake => ~Occurs(Head(q), Tail(q))
  <1> DEFINE p == Tail(q)
             h == Head(q)
  <1>1. Len(q) \in Nat \ {0} /\ Len(p) = Len(q) - 1 /\ \A i \in 1..Len(p) : p[i] = q[i + 1]
    BY HeadTailProperties, EmptySeq
  <1>2. h = q[1]
    OBVIOUS
  <1> HIDE DEF p, h
  <1>3. \A i \in 1..Len(q) : i = 1 \/ (i - 1 \in 1..Len(p) /\ p[i - 1] = q[i])
    BY <1>1
  <1>4. 1 \in 1..Len(q) /\ \A i \in 1..Len(p) : i + 1 \in 1..Len(q) /\ i + 1 # 1
    BY <1>1
  <1>5. \A r : Occurs(r, q) <=> r = h \/ Occurs(r, p)
    BY <1>1, <1>2, <1>3, <1>4 DEF Occurs
  <1>6. NoRepeats(q) => NoRepeats(p)
    <2> SUFFICES ASSUME NoRepeats(q), NEW i \in 1..Len(p), NEW j \in 1..Len(p),
                        p[i] = p[j], p[i] # Wake
                 PROVE  i = j
      BY DEF NoRepeats
    <2>1. i + 1 = j + 1
      BY <1>1, <1>4 DEF NoRepeats
    <2> QED BY <1>1, <2>1
  <1>7. NoRepeats(q) /\ h # Wake => ~Occurs(h, p)
    BY <1>1, <1>2, <1>4 DEF NoRepeats, Occurs
  <1> QED BY <1>5, <1>6, <1>7 DEF p, h

LEMMA OccursSplit ==
  ASSUME NEW S, NEW q \in Seq(S), NEW n \in 0..Len(q)
  PROVE  /\ \A r : Occurs(r, q) <=> \/ Occurs(r, SubSeq(q, 1, n))
                                    \/ Occurs(r, SubSeq(q, n + 1, Len(q)))
         /\ NoRepeats(q) => /\ NoRepeats(SubSeq(q, 1, n))
                            /\ NoRepeats(SubSeq(q, n + 1, Len(q)))
                            /\ \A r : r # Wake =>
                                  ~ (/\ Occurs(r, SubSeq(q, 1, n))
                                     /\ Occurs(r, SubSeq(q, n + 1, Len(q))))
  <1> DEFINE a == SubSeq(q, 1, n)
             b == SubSeq(q, n + 1, Len(q))
  <1>1. Len(q) \in Nat /\ \A i \in 1..Len(q) : q[i] \in S
    BY LenProperties, ElementOfSeq
  <1>2. Len(a) = n /\ \A i \in 1..n : a[i] = q[i]
    BY <1>1, SubSeqProperties
  <1>3. Len(b) = Len(q) - n /\ \A i \in 1..(Len(q) - n) : b[i] = q[n + i]
    BY <1>1, SubSeqProperties
  <1> HIDE DEF a, b
  <1>4. \A i \in 1..Len(q) : i \in 1..n \/ (i - n \in 1..Len(b) /\ b[i - n] = q[i])
    BY <1>1, <1>3
  <1>5. /\ \A i \in 1..n : i \in 1..Len(q)
        /\ \A i \in 1..Len(b) : n + i \in 1..Len(q) /\ n + i \notin 1..n
    BY <1>1, <1>3
  <1>6. \A r : Occurs(r, q) <=> Occurs(r, a) \/ Occurs(r, b)
    BY <1>1, <1>2, <1>3, <1>4, <1>5, SMTT(30) DEF Occurs
  <1>7. NoRepeats(q) => NoRepeats(a)
    BY <1>2, <1>5 DEF NoRepeats
  <1>8. NoRepeats(q) => NoRepeats(b)
    <2> SUFFICES ASSUME NoRepeats(q), NEW i \in 1..Len(b), NEW j \in 1..Len(b),
                        b[i] = b[j], b[i] # Wake
                 PROVE  i = j
      BY DEF NoRepeats
    <2>1. n + i = n + j
      BY <1>3, <1>5 DEF NoRepeats
    <2> QED BY <1>1, <1>3, <2>1
  <1>9. ASSUME NoRepeats(q), NEW r, r # Wake, Occurs(r, a), Occurs(r, b)
        PROVE  FALSE
    <2>1. PICK i \in 1..Len(a) : a[i] = r
      BY <1>9 DEF Occurs
    <2>2. PICK j \in 1..Len(b) : b[j] = r
      BY <1>9 DEF Occurs
    <2>3. q[i] = q[n + j] /\ q[i] # Wake
      BY <1>2, <1>3, <1>9, <2>1, <2>2
    <2>4. i \in 1..Len(q) /\ n + j \in 1..Len(q) /\ i # n + j
      BY <1>2, <1>5
    <2> QED BY <1>9, <2>3, <2>4 DEF NoRepeats
  <1> QED BY <1>6, <1>7, <1>8, <1>9 DEF a, b

LEMMA NothingOccurs == NoRepeats(<<>>) /\ \A r : ~Occurs(r, <<>>)
  BY EmptySeq DEF NoRepeats, Occurs

HandsFull == texts # <<>> => worker \in {"clear", "absorb"}
Placed == OnePlace /\ HandsFull

\* The fates of the requests that are in none of the places.
Elsewhere == Fates \ {"queued", "inserted", "taken", "active"}

LEMMA MovesElsewhere ==
  ASSUME TypeOK, OnePlace, NEW r \in Requests, fate[r] \in Elsewhere,
         NEW f \in Elsewhere, Move(r, f),
         UNCHANGED <<requestQueue, insertQueue, texts, cur>>
  PROVE  OnePlace'
  <1>1. \A x \in Requests : fate'[x] = IF x = r THEN f ELSE fate[x]
    BY DEF Move, TypeOK
  <1> QED BY <1>1 DEF OnePlace, Elsewhere

LEMMA PlacesClient ==
  ASSUME TypeOK, OnePlace, Client
  PROVE  OnePlace'
  <1>1. PICK r \in Requests : \/ SubmitCheck(r) \/ TryInsert(r)
                              \/ SubmitSend(r) \/ SubmitTimeout(r)
    BY DEF Client
  <1>2. CASE SubmitCheck(r) \/ SubmitTimeout(r)
    <2>1. fate[r] \in {"new", "sending"} /\ UNCHANGED <<requestQueue, insertQueue, texts, cur>>
      BY <1>2 DEF SubmitCheck, SubmitTimeout
    <2>2. Move(r, "refused") \/ Move(r, "inserting") \/ Move(r, "sending")
      BY <1>2 DEF SubmitCheck, SubmitTimeout
    <2>3. {"new", "refused", "inserting", "sending"} \subseteq Elsewhere
      BY DEF Elsewhere, Fates
    <2> QED BY <2>1, <2>2, <2>3, MovesElsewhere
  <1>3. CASE TryInsert(r)
    <2>1. fate[r] = "inserting" /\ UNCHANGED <<requestQueue, texts, cur>>
      BY <1>3 DEF TryInsert
    <2>2. CASE insertQueue' = Append(insertQueue, r) /\ Move(r, "inserted")
      <3>1. \A x \in Requests : fate'[x] = IF x = r THEN "inserted" ELSE fate[x]
        BY <2>2 DEF Move, TypeOK
      <3>2. insertQueue \in Seq(Requests)
        BY DEF TypeOK
      <3>3. ~Occurs(r, insertQueue) /\ NoRepeats(insertQueue)
        BY <2>1 DEF OnePlace
      <3>4. /\ NoRepeats(insertQueue')
            /\ \A x : Occurs(x, insertQueue') <=> Occurs(x, insertQueue) \/ x = r
        BY <2>2, <3>2, <3>3, OccursAppend
      <3> QED BY <2>1, <3>1, <3>4 DEF OnePlace
    <2>3. CASE UNCHANGED insertQueue /\ (Move(r, "refused") \/ Move(r, "sending"))
      <3>1. {"inserting", "refused", "sending"} \subseteq Elsewhere
        BY DEF Elsewhere, Fates
      <3> QED BY <2>1, <2>3, <3>1, MovesElsewhere
    <2> QED BY <1>3, <2>2, <2>3 DEF TryInsert
  <1>4. CASE SubmitSend(r)
    <2>1. \A x \in Requests : fate'[x] = IF x = r THEN "queued" ELSE fate[x]
      BY <1>4 DEF SubmitSend, Move, TypeOK
    <2>2. fate[r] = "sending" /\ UNCHANGED <<insertQueue, texts, cur>>
      BY <1>4 DEF SubmitSend
    <2>3. requestQueue \in Seq(Requests \cup {Wake}) /\ r \in Requests \cup {Wake}
      BY DEF TypeOK
    <2>4. ~Occurs(r, requestQueue) /\ NoRepeats(requestQueue)
      BY <2>2 DEF OnePlace
    <2>5. requestQueue' = Append(requestQueue, r)
      BY <1>4 DEF SubmitSend
    <2>6. /\ NoRepeats(requestQueue')
          /\ \A x : Occurs(x, requestQueue') <=> Occurs(x, requestQueue) \/ x = r
      BY <2>3, <2>4, <2>5, OccursAppend
    <2> QED BY <2>1, <2>2, <2>6 DEF OnePlace
  <1> QED BY <1>1, <1>2, <1>3, <1>4

\* The inserts that are freed are lost, and they are all that waited.
LEMMA PlacesFreed ==
  ASSUME TypeOK, OnePlace, FreeInserts, UNCHANGED <<requestQueue, texts, cur>>
  PROVE  OnePlace'
  <1>1. \A x \in Requests : fate'[x] = IF Occurs(x, insertQueue) THEN "lost" ELSE fate[x]
    BY DEF FreeInserts, SettleAll, Occurs
  <1>2. insertQueue' = <<>>
    BY DEF FreeInserts
  <1> QED BY <1>1, <1>2, NothingOccurs DEF OnePlace

LEMMA PlacesReceive ==
  ASSUME WellFormed, OnePlace, Receive
  PROVE  OnePlace'
  <1> DEFINE h == Head(requestQueue)
  <1>1. /\ requestQueue \in Seq(Requests \cup {Wake}) /\ requestQueue # <<>>
        /\ h \in Requests \cup {Wake}
    BY HeadTailProperties DEF Receive, WellFormed, TypeOK
  <1>2. NoRepeats(requestQueue) /\ requestQueue' = Tail(requestQueue)
    BY DEF OnePlace, Receive
  <1>3. /\ NoRepeats(requestQueue')
        /\ h # Wake => ~Occurs(h, requestQueue')
        /\ \A x : Occurs(x, requestQueue) <=> x = h \/ Occurs(x, requestQueue')
    BY <1>1, <1>2, OccursTail
  <1>4. cur = None /\ (h = Wake => stopRequested)
    BY <1>3 DEF Receive, WellFormed, WakeIsNeverServed, Idle
  <1>5. UNCHANGED <<insertQueue, texts>> /\ Wake \notin Requests /\ None \notin Requests
    BY RequestsAssumption DEF Receive
  <1>6. fate \in [Requests -> Fates]
    BY DEF WellFormed, TypeOK
  <1>7. h # Wake => h \in Requests /\ fate[h] = "queued"
    BY <1>1, <1>3 DEF OnePlace
  <1>8. CASE Serves
    <2>1. h # Wake /\ cur' = h /\ Move(h, "active")
      BY <1>4, <1>8 DEF Receive, Serves
    <2>2. \A x \in Requests : fate'[x] = IF x = h THEN "active" ELSE fate[x]
      BY <1>6, <2>1 DEF Move
    <2>3. \A x \in Requests : fate[x] # "active"
      BY <1>4, <1>5 DEF OnePlace
    <2> HIDE DEF h
    <2> QED BY <1>3, <1>5, <1>7, <2>1, <2>2, <2>3 DEF OnePlace
  <1>9. CASE ~Serves /\ h = Wake
    <2>1. UNCHANGED <<cur, fate>>
      BY <1>9 DEF Receive
    <2> HIDE DEF h
    <2> QED BY <1>3, <1>5, <1>9, <2>1 DEF OnePlace
  <1>10. CASE ~Serves /\ h # Wake
    <2>1. cur' = cur /\ Move(h, "dropped")
      BY <1>10 DEF Receive
    <2>2. \A x \in Requests : fate'[x] = IF x = h THEN "dropped" ELSE fate[x]
      BY <1>6, <2>1 DEF Move
    <2> HIDE DEF h
    <2> QED BY <1>3, <1>5, <1>7, <1>10, <2>1, <2>2 DEF OnePlace
  <1> QED BY <1>8, <1>9, <1>10

LEMMA PlacesDrain ==
  ASSUME TypeOK, OnePlace, texts = <<>>, Drain
  PROVE  OnePlace'
  <1>1. PICK n \in 0..Len(insertQueue) :
           /\ insertQueue' = SubSeq(insertQueue, n + 1, Len(insertQueue))
           /\ texts' = SubSeq(insertQueue, 1, n)
           /\ SettleAll(SubSeq(insertQueue, 1, n), "taken")
    BY DEF Drain, Undrained
  <1>2. insertQueue \in Seq(Requests) /\ NoRepeats(insertQueue)
    BY DEF TypeOK, OnePlace
  <1>3. /\ NoRepeats(texts') /\ NoRepeats(insertQueue')
        /\ \A x : Occurs(x, insertQueue) <=> Occurs(x, texts') \/ Occurs(x, insertQueue')
        /\ \A x : x # Wake => ~(Occurs(x, texts') /\ Occurs(x, insertQueue'))
    BY <1>1, <1>2, OccursSplit
  <1>4. \A x \in Requests : fate'[x] = IF Occurs(x, texts') THEN "taken" ELSE fate[x]
    BY <1>1 DEF SettleAll, Occurs
  <1>5. \A x \in Requests : x # Wake /\ ~Occurs(x, texts)
    BY NothingOccurs, RequestsAssumption
  <1>6. UNCHANGED <<requestQueue, cur>>
    BY DEF Drain
  <1> QED BY <1>3, <1>4, <1>5, <1>6 DEF OnePlace

LEMMA PlacesAbsorb ==
  ASSUME TypeOK, OnePlace, Absorb
  PROVE  OnePlace'
  <1>1. PICK f \in {"merged", "lost"} : SettleAll(texts, f)
    BY DEF Absorb
  <1>2. \A x \in Requests : fate'[x] = IF Occurs(x, texts) THEN f ELSE fate[x]
    BY <1>1 DEF SettleAll, Occurs
  <1>3. texts' = <<>> /\ UNCHANGED <<requestQueue, insertQueue, cur>>
    BY DEF Absorb
  <1> QED BY <1>2, <1>3, NothingOccurs DEF OnePlace

LEMMA PlacesRespond ==
  ASSUME WellFormed, OnePlace, Respond
  PROVE  OnePlace'
  <1>1. cur \in Requests /\ fate \in [Requests -> Fates]
    BY DEF Respond, WellFormed, TypeOK, WakeIsNeverServed, Idle
  <1>2. \A x \in Requests : fate'[x] = IF x = cur THEN "answered" ELSE fate[x]
    BY <1>1 DEF Respond, Move
  <1>3. cur' = None /\ UNCHANGED <<requestQueue, insertQueue, texts>>
    BY DEF Respond
  <1> QED BY <1>1, <1>2, <1>3, RequestsAssumption DEF OnePlace

\* All other steps leave every request where it is.
LEMMA NothingMoves ==
  ASSUME [Next]_vars
  PROVE  \/ Client \/ StopWake
         \/ Receive \/ Begin \/ Drain \/ Absorb \/ Release \/ Respond
         \/ UNCHANGED <<fate, requestQueue, insertQueue, texts, cur>>
  <1>1. CASE Canceller \/ Owner \/ Consume
    BY <1>1 DEF Canceller, Cancel, Owner, StartTask, StartFlag, StopFlag, StopCancel,
                StopWait, Consume
  <1>2. CASE Opening
    BY <1>2 DEF Opening, LoopTest, TargetFails, Reject, GateFails, Admit, PrepareFrame
  <1>3. CASE Talking
    BY <1>3 DEF Talking, BeforeBuild, Build, BeforeHttp, CallLlm, LlmAnswers, LlmFails,
                TakeAbort, AfterLlm, RunTools, ToolsDone, Finish, PhaseFrame
  <1>4. CASE Closing
    BY <1>4 DEF Closing, ClearAbort, Text, Final, FailureNote, Exit
  <1>5. CASE UNCHANGED vars
    BY <1>5
  <1> QED BY <1>1, <1>2, <1>3, <1>4, <1>5, WorkerParts DEF Next

LEMMA HandsStep ==
  ASSUME WellFormed, HandsFull, [Next]_vars
  PROVE  HandsFull'
  <1> USE DEF HandsFull
  <1>1. CASE Client \/ Canceller \/ Consume
    <2>1. UNCHANGED <<texts, worker>>
      BY <1>1 DEF Client, SubmitCheck, TryInsert, SubmitSend, SubmitTimeout, Canceller,
                  Cancel, Consume
    <2> QED BY <2>1
  <1>2. CASE Owner
    <2>1. texts' = texts /\ (worker' = worker \/ worker = "none")
      BY <1>2 DEF Owner, StartTask, StartFlag, StopFlag, StopCancel, StopWake, StopWait,
                  WellFormed, OwnerOrder
    <2> QED BY <2>1
  <1>3. CASE Drain
    <2>1. PICK n \in 0..Len(insertQueue) :
             /\ texts' = SubSeq(insertQueue, 1, n)
             /\ worker' = IF n > 0 THEN "clear" ELSE AfterDrain[drainedAt]
      BY <1>3 DEF Drain, Goto
    <2>2. CASE n > 0
      BY <2>1, <2>2
    <2>3. CASE n = 0
      <3>1. texts' = <<>>
        BY <2>1, <2>3, SubSeqEmpty DEF WellFormed, TypeOK
      <3> QED BY <3>1
    <2> QED BY <2>2, <2>3
  <1>4. CASE ClearAbort
    BY <1>4 DEF ClearAbort, Goto
  <1>5. CASE Absorb
    BY <1>5 DEF Absorb
  <1>6. CASE Opening \/ Talking \/ (Closing /\ ~Drain /\ ~ClearAbort /\ ~Absorb)
    <2>1. texts' = texts /\ worker \notin {"clear", "absorb"}
      BY <1>6 DEF Opening, LoopTest, Receive, Begin, TargetFails, Reject, GateFails,
                  Admit, PrepareFrame, Talking, BeforeBuild, Build, BeforeHttp, CallLlm,
                  LlmAnswers, LlmFails, TakeAbort, AfterLlm, RunTools, ToolsDone, Finish,
                  PhaseFrame, Closing, Text, Final, Release, FailureNote, Respond, Exit
    <2> QED BY <2>1
  <1>7. CASE UNCHANGED vars
    BY <1>7
  <1> QED BY <1>1, <1>2, <1>3, <1>4, <1>5, <1>6, <1>7, WorkerParts DEF Next

LEMMA PlacedInit == Init => Placed
  BY NothingOccurs, RequestsAssumption DEF Init, Placed, OnePlace, HandsFull

LEMMA PlacedStep == WellFormed /\ Placed /\ [Next]_vars => Placed'
  <1> SUFFICES ASSUME WellFormed, Placed, [Next]_vars PROVE Placed'
    OBVIOUS
  <1>a. TypeOK /\ OnePlace /\ HandsFull
    BY DEF WellFormed, Placed
  <1>1. CASE StopWake
    <2>1. UNCHANGED <<fate, insertQueue, texts, cur>>
      BY <1>1 DEF StopWake
    <2>2. requestQueue \in Seq(Requests \cup {Wake}) /\ Wake \in Requests \cup {Wake}
      BY <1>a DEF TypeOK
    <2>3. /\ NoRepeats(requestQueue')
          /\ \A x \in Requests : Occurs(x, requestQueue') <=> Occurs(x, requestQueue)
      <3>1. CASE requestQueue' = requestQueue
        BY <1>a, <3>1 DEF OnePlace
      <3>2. CASE requestQueue' = Append(requestQueue, Wake)
        <4>1. /\ NoRepeats(requestQueue')
              /\ \A x : Occurs(x, requestQueue') <=> Occurs(x, requestQueue) \/ x = Wake
          BY <1>a, <2>2, <3>2, OccursAppend DEF OnePlace
        <4> QED BY <4>1, RequestsAssumption
      <3> QED BY <1>1, <3>1, <3>2 DEF StopWake, QueueWithWake
    <2>4. OnePlace'
      BY <1>a, <2>1, <2>3 DEF OnePlace
    <2> QED BY <1>a, <2>4, HandsStep DEF Placed
  <1>2. CASE Begin \/ Release
    <2>1. FreeInserts /\ UNCHANGED <<requestQueue, texts, cur>>
      BY <1>2 DEF Begin, Release
    <2> QED BY <1>a, <2>1, PlacesFreed, HandsStep DEF Placed
  <1>3. CASE Drain
    <2>1. texts = <<>>
      BY <1>a, <1>3 DEF Drain, HandsFull
    <2> QED BY <1>a, <1>3, <2>1, PlacesDrain, HandsStep DEF Placed
  <1>4. CASE UNCHANGED <<fate, requestQueue, insertQueue, texts, cur>>
    <2>1. OnePlace'
      BY <1>a, <1>4 DEF OnePlace
    <2> QED BY <1>a, <2>1, HandsStep DEF Placed
  <1> QED BY <1>a, <1>1, <1>2, <1>3, <1>4, NothingMoves, PlacesClient, PlacesReceive,
             PlacesAbsorb, PlacesRespond, HandsStep DEF Placed

\* Each accepted request is in exactly one place, once: nothing a client was
\* told is accepted is forgotten between the two queues and the worker.
THEOREM OnePlaceEach == Spec => []OnePlace
  <1>1. Init => WellFormed
    BY TypeInit, WakeInit DEF WellFormed
  <1>2. Placed => OnePlace
    BY DEF Placed
  <1> QED BY <1>1, <1>2, WellFormedStep, PlacedInit, PlacedStep, PTL DEF Spec

-----------------------------------------------------------------------------
(* claw_core implements AgentService: every step is a step of the service   *)
(* or leaves what its clients see as it is. Moving an insert from the queue *)
(* to the worker's hands, and every step of the worker between two answers, *)
(* is invisible; Begin frees no insert because none waits before a request  *)
(* is in flight; and an answer leaves no insert behind because Release has  *)
(* freed them and the worker's hands are empty.                             *)

OnlyInterruptsInsert == \A r \in Requests : fate[r] = "inserting" => r \in Interrupts

Core == Joined /\ Placed /\ OnlyInterruptsInsert

LEMMA CoreFacts ==
  ASSUME Core
  PROVE  /\ TypeOK /\ WellFormed /\ OnePlace /\ HandsFull /\ InsertsJoin
         /\ InflightMatchesWorker /\ WakeIsNeverServed
         /\ fate \in [Requests -> Fates]
  BY DEF Core, Joined, Locked, WellFormed, Placed, TypeOK

LEMMA OnlyInterruptsStep ==
  ASSUME TypeOK, OnePlace, OnlyInterruptsInsert, [Next]_vars
  PROVE  OnlyInterruptsInsert'
  <1> USE DEF OnlyInterruptsInsert
  <1>a. fate \in [Requests -> Fates]
    BY DEF TypeOK
  <1>1. CASE Client
    <2>1. PICK r \in Requests : \/ SubmitCheck(r) \/ TryInsert(r)
                                \/ SubmitSend(r) \/ SubmitTimeout(r)
      BY <1>1 DEF Client
    <2>2. \/ Move(r, "inserting") /\ r \in Interrupts
          \/ Move(r, "refused") \/ Move(r, "sending") \/ Move(r, "inserted")
          \/ Move(r, "queued")
      <3>1. CASE SubmitCheck(r)
        <4>1. CASE r \in Interrupts
          BY <3>1, <4>1 DEF SubmitCheck
        <4>2. CASE r \notin Interrupts
          BY <3>1, <4>2 DEF SubmitCheck
        <4> QED BY <4>1, <4>2
      <3>2. CASE TryInsert(r)
        BY <3>2, Zenon DEF TryInsert
      <3>3. CASE SubmitSend(r) \/ SubmitTimeout(r)
        BY <3>3, Zenon DEF SubmitSend, SubmitTimeout
      <3> QED BY <2>1, <3>1, <3>2, <3>3
    <2>3. ASSUME NEW f, Move(r, f), f = "inserting" => r \in Interrupts
          PROVE  OnlyInterruptsInsert'
      <3>1. \A x \in Requests : fate'[x] = IF x = r THEN f ELSE fate[x]
        BY <1>a, <2>3 DEF Move
      <3> QED BY <2>3, <3>1
    <2>4. CASE Move(r, "inserting") /\ r \in Interrupts
      BY <2>3, <2>4
    <2>5. CASE Move(r, "refused") \/ Move(r, "sending") \/ Move(r, "inserted")
               \/ Move(r, "queued")
      BY <2>3, <2>5
    <2> QED BY <2>2, <2>4, <2>5
  <1>2. ASSUME NEW q, NEW f \in {"lost", "taken", "merged"}, SettleAll(q, f)
        PROVE  OnlyInterruptsInsert'
    BY <1>2 DEF SettleAll
  <1>3. CASE Begin \/ Release
    BY <1>2, <1>3 DEF Begin, Release, FreeInserts
  <1>4. CASE Drain
    BY <1>2, <1>4 DEF Drain
  <1>5. CASE Absorb
    BY <1>2, <1>5 DEF Absorb
  <1>6. ASSUME NEW r, NEW f \in {"active", "dropped", "answered"}, Move(r, f)
        PROVE  OnlyInterruptsInsert'
    BY <1>a, <1>6 DEF Move
  <1>7. CASE fate' = fate
    BY <1>7
  <1>8. CASE Receive \/ Respond
    BY <1>6, <1>7, <1>8 DEF Receive, Respond
  <1> QED BY <1>1, <1>3, <1>4, <1>5, <1>7, <1>8, NothingMoves DEF StopWake

LEMMA CoreInit == Init => Core
  BY JoinedInit, PlacedInit DEF Core, OnlyInterruptsInsert, Init

LEMMA CoreStep == Core /\ [Next]_vars => Core'
  BY JoinedStep, PlacedStep, OnlyInterruptsStep, CoreFacts DEF Core

\* How the service sees a request that moves, and a queue that is settled.
LEMMA PromisedMove ==
  ASSUME fate \in [Requests -> Fates], NEW r \in Requests, NEW f, Move(r, f)
  PROVE  /\ PromisedFate' = [PromisedFate EXCEPT ![r] = Promised(f)]
         /\ PromisedFate[r] = Promised(fate[r])
  <1>1. \A x \in Requests : fate'[x] = IF x = r THEN f ELSE fate[x]
    BY DEF Move
  <1> QED BY <1>1 DEF PromisedFate

LEMMA PromisedSettle ==
  ASSUME NEW q, NEW f, SettleAll(q, f)
  PROVE  PromisedFate' = [x \in Requests |-> IF x \in {y \in Requests : Occurs(y, q)}
                                             THEN Promised(f) ELSE PromisedFate[x]]
  <1>1. \A x \in Requests : fate'[x] = IF Occurs(x, q) THEN f ELSE fate[x]
    BY DEF SettleAll, Occurs
  <1> QED BY <1>1 DEF PromisedFate

LEMMA PromiseClient ==
  ASSUME Core, Client
  PROVE  [Promise!Next]_(Promise!vars)
  <1>a. fate \in [Requests -> Fates] /\ InflightMatchesWorker /\ OnlyInterruptsInsert
    BY CoreFacts DEF Core
  <1>b. cur' = cur
    BY DEF Client, SubmitCheck, TryInsert, SubmitSend, SubmitTimeout
  <1>1. PICK r \in Requests : \/ SubmitCheck(r) \/ TryInsert(r)
                              \/ SubmitSend(r) \/ SubmitTimeout(r)
    BY DEF Client
  <1>2. fate[r] \in {"new", "inserting", "sending"}
    BY <1>1 DEF SubmitCheck, TryInsert, SubmitSend, SubmitTimeout
  <1>3. PromisedFate[r] = "new"
    BY <1>2 DEF PromisedFate, Promised
  <1>4. ASSUME Move(r, "inserting") \/ Move(r, "sending")
        PROVE  UNCHANGED Promise!vars
    <2>1. PromisedFate' = [PromisedFate EXCEPT ![r] = "new"]
      BY <1>a, <1>4, PromisedMove DEF Promised
    <2>2. PromisedFate' = PromisedFate
      BY <1>3, <2>1 DEF PromisedFate
    <2> QED BY <1>b, <2>2 DEF Promise!vars
  <1>5. ASSUME Move(r, "refused")
        PROVE  Promise!Refuse(r)
    <2>1. PromisedFate' = [PromisedFate EXCEPT ![r] = "refused"]
      BY <1>a, <1>5, PromisedMove DEF Promised
    <2> QED BY <1>3, <1>b, <2>1 DEF Promise!Refuse
  <1>6. ASSUME Move(r, "queued")
        PROVE  Promise!Enqueue(r)
    <2>1. PromisedFate' = [PromisedFate EXCEPT ![r] = "queued"]
      BY <1>a, <1>6, PromisedMove DEF Promised
    <2> QED BY <1>3, <1>b, <2>1 DEF Promise!Enqueue
  <1>7. ASSUME Move(r, "inserted"), fate[r] = "inserting", SameConversation(r)
        PROVE  Promise!Insert(r)
    <2>1. PromisedFate' = [PromisedFate EXCEPT ![r] = "inserted"]
      BY <1>a, <1>7, PromisedMove DEF Promised
    <2>2. r \in Interrupts
      BY <1>a, <1>7 DEF OnlyInterruptsInsert
    <2>3. inflightId = cur /\ cur # None /\ SessionOf[r] = SessionOf[cur]
      BY <1>a, <1>7 DEF InflightMatchesWorker, SameConversation
    <2>4. SessionOf[r] \in Sessions
      BY <1>7, RequestsAssumption DEF SameConversation
    <2> QED BY <1>3, <1>b, <2>1, <2>2, <2>3, <2>4 DEF Promise!Insert
  <1>8. \/ Move(r, "inserting") \/ Move(r, "sending")
        \/ Move(r, "refused") \/ Move(r, "queued")
        \/ (Move(r, "inserted") /\ fate[r] = "inserting" /\ SameConversation(r))
    <2>1. CASE SubmitCheck(r)
      BY <2>1, Zenon DEF SubmitCheck
    <2>2. CASE TryInsert(r)
      BY <2>2, Zenon DEF TryInsert
    <2>3. CASE SubmitSend(r) \/ SubmitTimeout(r)
      BY <2>3, Zenon DEF SubmitSend, SubmitTimeout
    <2> QED BY <1>1, <2>1, <2>2, <2>3
  <1> QED BY <1>4, <1>5, <1>6, <1>7, <1>8 DEF Promise!Next

LEMMA PromiseReceive ==
  ASSUME Core, Receive
  PROVE  [Promise!Next]_(Promise!vars)
  <1> DEFINE h == Head(requestQueue)
  <1>a. /\ WellFormed /\ TypeOK /\ OnePlace /\ WakeIsNeverServed
        /\ fate \in [Requests -> Fates]
    BY CoreFacts
  <1>1. /\ requestQueue \in Seq(Requests \cup {Wake}) /\ requestQueue # <<>>
        /\ h \in Requests \cup {Wake}
    BY <1>a, HeadTailProperties DEF Receive, TypeOK
  <1>2. Occurs(h, requestQueue)
    BY <1>1, OccursTail
  <1>3. cur = None /\ (h = Wake => stopRequested)
    BY <1>2, <1>a DEF Receive, WakeIsNeverServed, Idle
  <1>4. h # Wake => h \in Requests /\ PromisedFate[h] = "queued"
    BY <1>1, <1>2, <1>a DEF OnePlace, PromisedFate, Promised
  <1>5. CASE Serves
    <2>1. h # Wake /\ cur' = h /\ Move(h, "active")
      BY <1>3, <1>5 DEF Receive, Serves
    <2>2. PromisedFate' = [PromisedFate EXCEPT ![h] = "active"]
      BY <1>a, <1>4, <2>1, PromisedMove DEF Promised
    <2>3. Promise!Start(h)
      BY <1>3, <1>4, <2>1, <2>2 DEF Promise!Start
    <2> QED BY <1>4, <2>1, <2>3 DEF Promise!Next
  <1>6. CASE ~Serves /\ h = Wake
    <2>1. UNCHANGED <<cur, fate>>
      BY <1>6 DEF Receive
    <2> QED BY <2>1 DEF Promise!vars, PromisedFate
  <1>7. CASE ~Serves /\ h # Wake
    <2>1. cur' = cur /\ Move(h, "dropped")
      BY <1>7 DEF Receive
    <2>2. PromisedFate' = [PromisedFate EXCEPT ![h] = "dropped"]
      BY <1>a, <1>4, <1>7, <2>1, PromisedMove DEF Promised
    <2>3. Promise!Drop(h)
      BY <1>3, <1>4, <1>7, <2>1, <2>2 DEF Promise!Drop
    <2> QED BY <1>4, <1>7, <2>3 DEF Promise!Next
  <1> QED BY <1>5, <1>6, <1>7

\* Inserts in the queue q are settled while cur is active.
LEMMA PromiseSettle ==
  ASSUME Core, NEW q, NEW f \in {"merged", "lost"}, SettleAll(q, f), cur # None, cur' = cur,
         \A r \in Requests : Occurs(r, q) => fate[r] \in {"inserted", "taken"}
  PROVE  Promise!Next
  <1> DEFINE S == {r \in Requests : Occurs(r, q)}
  <1>1. PromisedFate' = [x \in Requests |-> IF x \in S THEN f ELSE PromisedFate[x]]
    BY PromisedSettle DEF Promised
  <1>2. \A r \in S : PromisedFate[r] = "inserted"
    BY DEF PromisedFate, Promised
  <1>3. S \in SUBSET Requests
    OBVIOUS
  <1> HIDE DEF S
  <1>4. Promise!Settle(S, f)
    BY <1>1, <1>2 DEF Promise!Settle
  <1> QED BY <1>3, <1>4 DEF Promise!Next

LEMMA PromiseWorker ==
  ASSUME Core, Begin \/ Drain \/ Absorb \/ Release \/ Respond
  PROVE  [Promise!Next]_(Promise!vars)
  <1>a. /\ WellFormed /\ TypeOK /\ OnePlace /\ HandsFull /\ InflightMatchesWorker
        /\ WakeIsNeverServed /\ fate \in [Requests -> Fates]
    BY CoreFacts
  <1>b. cur # None
    BY <1>a DEF Begin, Drain, Absorb, Release, Respond, WakeIsNeverServed, Idle
  <1>1. CASE Begin
    <2>1. insertQueue = <<>> /\ cur' = cur
      BY <1>1, <1>a DEF Begin, InflightMatchesWorker, InFlight, Serving
    <2>2. \A r \in Requests : fate'[r] = fate[r]
      BY <1>1, <2>1, EmptySeq DEF Begin, FreeInserts, SettleAll
    <2> QED BY <2>1, <2>2 DEF Promise!vars, PromisedFate
  <1>2. CASE Drain
    <2>1. PICK n \in 0..Len(insertQueue) : SettleAll(SubSeq(insertQueue, 1, n), "taken")
      BY <1>2 DEF Drain
    <2>2. \A r \in Requests : Occurs(r, SubSeq(insertQueue, 1, n)) => fate[r] = "inserted"
      BY <1>a, <2>1, OccursSplit DEF TypeOK, OnePlace
    <2>3. \A r \in Requests : fate'[r] = IF Occurs(r, SubSeq(insertQueue, 1, n))
                                        THEN "taken" ELSE fate[r]
      BY <2>1 DEF SettleAll, Occurs
    <2>4. \A r \in Requests : Promised(fate'[r]) = Promised(fate[r])
      BY <2>2, <2>3 DEF Promised
    <2>5. cur' = cur
      BY <1>2 DEF Drain
    <2> QED BY <2>4, <2>5 DEF Promise!vars, PromisedFate
  <1>3. CASE Absorb
    <2>1. PICK f \in {"merged", "lost"} : SettleAll(texts, f)
      BY <1>3 DEF Absorb
    <2>2. \A r \in Requests : Occurs(r, texts) => fate[r] \in {"inserted", "taken"}
      BY <1>a DEF OnePlace
    <2>3. cur' = cur
      BY <1>3 DEF Absorb
    <2> QED BY <1>b, <2>1, <2>2, <2>3, PromiseSettle
  <1>4. CASE Release
    <2>1. SettleAll(insertQueue, "lost") /\ cur' = cur
      BY <1>4 DEF Release, FreeInserts
    <2>2. \A r \in Requests : Occurs(r, insertQueue) => fate[r] \in {"inserted", "taken"}
      BY <1>a DEF OnePlace
    <2> QED BY <1>b, <2>1, <2>2, PromiseSettle
  <1>5. CASE Respond
    <2>1. cur \in Requests /\ cur' = None /\ Move(cur, "answered")
      BY <1>5, <1>a, <1>b DEF Respond, TypeOK, WakeIsNeverServed
    <2>2. PromisedFate' = [PromisedFate EXCEPT ![cur] = "answered"]
      BY <1>a, <2>1, PromisedMove DEF Promised
    <2>3. insertQueue = <<>> /\ texts = <<>>
      BY <1>5, <1>a DEF Respond, InflightMatchesWorker, InFlight, Serving, HandsFull
    <2>4. \A r \in Requests : fate[r] \notin {"inserted", "taken"}
      BY <1>a, <2>3, NothingOccurs DEF OnePlace
    <2>5. \A r \in Requests : PromisedFate[r] # "inserted"
      BY <2>4 DEF PromisedFate, Promised
    <2>6. Promise!Answer
      BY <1>b, <2>1, <2>2, <2>5 DEF Promise!Answer
    <2> QED BY <2>6 DEF Promise!Next
  <1> QED BY <1>1, <1>2, <1>3, <1>4, <1>5

LEMMA PromiseInit == Init => Promise!Init
  BY DEF Init, Promise!Init, PromisedFate, Promised

LEMMA PromiseStep == Core /\ [Next]_vars => [Promise!Next]_(Promise!vars)
  <1> SUFFICES ASSUME Core, [Next]_vars PROVE [Promise!Next]_(Promise!vars)
    OBVIOUS
  <1>1. CASE UNCHANGED <<fate, cur>>
    BY <1>1 DEF Promise!vars, PromisedFate
  <1> QED BY <1>1, NothingMoves, PromiseClient, PromiseReceive, PromiseWorker DEF StopWake

\* The agent core keeps what AgentService promises its clients, whatever the
\* interleaving of clients, cancels, stops and the worker.
THEOREM PromiseKept == Spec => ImplementsPromise
  BY CoreInit, CoreStep, PromiseInit, PromiseStep, PTL
     DEF Spec, ImplementsPromise, Promise!Spec
=============================================================================
