--------------------------- MODULE JsLoop_proofs ---------------------------
(***************************************************************************)
(* Proofs about JsLoop, for any set of callers. The invariant ties the     *)
(* running job to at most one caller, who is inside submit and has no      *)
(* answer yet, every waiting caller to the job or to its answer, and the   *)
(* interrupt flag to a caller that will clear it. What follows is what     *)
(* that says of answers and of interrupts: which calls are cancelled,      *)
(* which are hit by mistake, and when none is lost.                        *)
(***************************************************************************)
EXTENDS JsLoop, TLAPS

InSubmit(c) == pc[c] \in {"waiting", "awaiting"}

OwnerInv ==
  /\ loop \notin Busy => owner = {}
  /\ loop \in Busy /\ ~done => owner # {}
  /\ \A c, d \in owner : c = d
  /\ \A c \in owner : InSubmit(c) /\ reply[c] = "none"

AnswerInv ==
  \A c \in Caller :
    /\ InSubmit(c) => c \in owner \/ reply[c] # "none"
    /\ pc[c] = "offering" => reply[c] = "none"

Inv == TypeOK /\ OwnerInv /\ AnswerInv /\ NoStrayInterrupt

\* Every variable keeps to its type, whatever the interleaving.
THEOREM TypeCorrect == Spec => []TypeOK
<1>1. Init => TypeOK
  <2> SUFFICES ASSUME Init PROVE TypeOK
    OBVIOUS
  <2>1. invokes \in 0 .. MaxInvokes
    BY MaxInvokesAssumption DEF Init
  <2> QED BY <2>1 DEF Init, TypeOK, Busy, Script
<1>2. TypeOK /\ [Next]_vars => TypeOK'
  <2> SUFFICES ASSUME TypeOK, [Next]_vars PROVE TypeOK'
    OBVIOUS
  <2> USE DEF TypeOK, Busy, Script, vmVars, callVars, Return
  <2>1. CASE StartLoop BY <2>1 DEF StartLoop
  <2>2. CASE InitFails BY <2>2 DEF InitFails
  <2>3. CASE Stop BY <2>3 DEF Stop
  <2>4. CASE LoopExits BY <2>4 DEF LoopExits
  <2>5. CASE RunJob
    <3>1. CASE ScriptReturns BY <3>1 DEF ScriptReturns
    <3>2. CASE ScriptInterrupted BY <3>2 DEF ScriptInterrupted
    <3>3. CASE Unwound BY <3>3 DEF Unwound
    <3>4. CASE ScriptInvokes
      BY <3>4, MaxInvokesAssumption DEF ScriptInvokes
    <3>5. CASE HandlerReturns BY <3>5 DEF HandlerReturns
    <3>6. CASE HandlerCallsJS BY <3>6 DEF HandlerCallsJS
    <3>7. CASE NestedReturns BY <3>7 DEF NestedReturns
    <3>8. CASE NestedInterrupted BY <3>8 DEF NestedInterrupted, NestedReturns
    <3>9. CASE LoopReplies BY <3>9 DEF LoopReplies
    <3> QED BY <2>5, <3>1, <3>2, <3>3, <3>4, <3>5, <3>6, <3>7, <3>8, <3>9 DEF RunJob
  <2>6. ASSUME NEW c \in Caller, LoopTakes(c) PROVE TypeOK'
    BY <2>6, MaxInvokesAssumption DEF LoopTakes
  <2>7. ASSUME NEW c \in Caller, ContextEnds(c) PROVE TypeOK'
    BY <2>7 DEF ContextEnds
  <2>8. ASSUME NEW c \in Caller, NEW s \in Script, Call(c, s) PROVE TypeOK'
    BY <2>8 DEF Call
  <2>9. ASSUME NEW c \in Caller, Submit(c) PROVE TypeOK'
    <3>1. CASE OfferSeesDone(c) BY <3>1 DEF OfferSeesDone
    <3>2. CASE OfferSeesCancel(c) BY <3>2 DEF OfferSeesCancel
    <3>3. CASE WaitReply(c) BY <3>3, <2>9 DEF WaitReply
    <3>4. CASE WaitSeesDone(c) BY <3>4 DEF WaitSeesDone
    <3>5. CASE WaitInterrupts(c) BY <3>5 DEF WaitInterrupts
    <3>6. CASE AwaitReply(c) BY <3>6 DEF AwaitReply
    <3>7. CASE ClearInterrupt(c) BY <3>7 DEF ClearInterrupt
    <3> QED BY <2>9, <3>1, <3>2, <3>3, <3>4, <3>5, <3>6, <3>7 DEF Submit
  <2>10. CASE UNCHANGED vars BY <2>10 DEF vars
  <2> QED
    BY <2>1, <2>2, <2>3, <2>4, <2>5, <2>6, <2>7, <2>8, <2>9, <2>10 DEF Next
<1> QED BY <1>1, <1>2, PTL DEF Spec

\* The running job's caller and the waiting callers' answers match, in every step.
LEMMA OwnerStep ==
  ASSUME TypeOK, TypeOK', OwnerInv, AnswerInv, [Next]_vars
  PROVE  OwnerInv' /\ AnswerInv'
<1> USE DEF TypeOK, Busy, OwnerInv, AnswerInv, InSubmit, vmVars, callVars, Return
<1>1. CASE StartLoop BY <1>1 DEF StartLoop
<1>2. CASE InitFails BY <1>2 DEF InitFails
<1>3. CASE Stop BY <1>3 DEF Stop
<1>4. CASE LoopExits BY <1>4 DEF LoopExits
<1>5. CASE RunJob
  <2>1. CASE ScriptReturns BY <2>1 DEF ScriptReturns
  <2>2. CASE ScriptInterrupted BY <2>2 DEF ScriptInterrupted
  <2>3. CASE Unwound BY <2>3 DEF Unwound
  <2>4. CASE ScriptInvokes BY <2>4 DEF ScriptInvokes
  <2>5. CASE HandlerReturns BY <2>5 DEF HandlerReturns
  <2>6. CASE HandlerCallsJS BY <2>6 DEF HandlerCallsJS
  <2>7. CASE NestedReturns BY <2>7 DEF NestedReturns
  <2>8. CASE NestedInterrupted BY <2>8 DEF NestedInterrupted, NestedReturns
  <2>9. CASE LoopReplies BY <2>9 DEF LoopReplies
  <2> QED BY <1>5, <2>1, <2>2, <2>3, <2>4, <2>5, <2>6, <2>7, <2>8, <2>9 DEF RunJob
<1>6. ASSUME NEW c \in Caller, LoopTakes(c) PROVE OwnerInv' /\ AnswerInv'
  <2>1. owner = {} /\ owner' = {c}
    BY <1>6 DEF LoopTakes
  <2>2. \A d \in Caller : d # c => pc'[d] = pc[d] /\ reply'[d] = reply[d]
    BY <1>6 DEF LoopTakes
  <2>3. reply[c] = "none"
    BY <1>6 DEF LoopTakes
  <2>4. OwnerInv'
    BY <1>6, <2>1, <2>3 DEF LoopTakes
  <2>5. AnswerInv'
    BY <1>6, <2>1, <2>2 DEF LoopTakes
  <2> QED BY <2>4, <2>5
<1>7. ASSUME NEW c \in Caller, ContextEnds(c) PROVE OwnerInv' /\ AnswerInv'
  BY <1>7 DEF ContextEnds
<1>8. ASSUME NEW c \in Caller, NEW s \in Script, Call(c, s)
      PROVE  OwnerInv' /\ AnswerInv'
  BY <1>8 DEF Call
<1>9. ASSUME NEW c \in Caller, Submit(c) PROVE OwnerInv' /\ AnswerInv'
  <2>1. CASE OfferSeesDone(c) BY <2>1 DEF OfferSeesDone
  <2>2. CASE OfferSeesCancel(c) BY <2>2 DEF OfferSeesCancel
  <2>3. CASE WaitReply(c) BY <2>3 DEF WaitReply
  <2>4. CASE WaitSeesDone(c) BY <2>4 DEF WaitSeesDone
  <2>5. CASE WaitInterrupts(c) BY <2>5 DEF WaitInterrupts
  <2>6. CASE AwaitReply(c) BY <2>6 DEF AwaitReply
  <2>7. CASE ClearInterrupt(c) BY <2>7 DEF ClearInterrupt
  <2> QED BY <1>9, <2>1, <2>2, <2>3, <2>4, <2>5, <2>6, <2>7 DEF Submit
<1>10. CASE UNCHANGED vars BY <1>10 DEF vars
<1> QED
  BY <1>1, <1>2, <1>3, <1>4, <1>5, <1>6, <1>7, <1>8, <1>9, <1>10 DEF Next

\* Only WaitInterrupts sets the flag, and its caller clears it before it leaves.
LEMMA InterruptStep ==
  ASSUME TypeOK, NoStrayInterrupt, [Next]_vars
  PROVE  NoStrayInterrupt'
<1> USE DEF TypeOK, NoStrayInterrupt, Cancelling, Return, vmVars, callVars
<1>1. CASE UNCHANGED <<interrupted, pc>> BY <1>1
<1>2. CASE Unwound BY <1>2 DEF Unwound
<1>3. ASSUME NEW c \in Caller, pc[c] \in {"idle", "offering", "waiting"},
             interrupted' = interrupted,
             \A d \in Caller : d # c => pc'[d] = pc[d]
      PROVE  NoStrayInterrupt'
  BY <1>3
<1>4. ASSUME NEW c \in Caller, LoopTakes(c) PROVE NoStrayInterrupt'
  BY <1>3, <1>4 DEF LoopTakes
<1>5. ASSUME NEW c \in Caller, NEW s \in Script, Call(c, s) PROVE NoStrayInterrupt'
  BY <1>3, <1>5 DEF Call
<1>6. ASSUME NEW c \in Caller, Submit(c) PROVE NoStrayInterrupt'
  <2>1. CASE OfferSeesDone(c) BY <1>3, <2>1 DEF OfferSeesDone
  <2>2. CASE OfferSeesCancel(c) BY <1>3, <2>2 DEF OfferSeesCancel
  <2>3. CASE WaitReply(c) BY <1>3, <2>3 DEF WaitReply
  <2>4. CASE WaitSeesDone(c) BY <1>3, <2>4 DEF WaitSeesDone
  <2>5. CASE WaitInterrupts(c) BY <2>5 DEF WaitInterrupts
  <2>6. CASE AwaitReply(c) BY <2>6 DEF AwaitReply
  <2>7. CASE ClearInterrupt(c) BY <2>7 DEF ClearInterrupt
  <2> QED BY <1>6, <2>1, <2>2, <2>3, <2>4, <2>5, <2>6, <2>7 DEF Submit
<1> QED
  BY <1>1, <1>2, <1>4, <1>5, <1>6
  DEF Next, vars, StartLoop, InitFails, Stop, LoopExits, RunJob, ScriptReturns,
      ScriptInterrupted, ScriptInvokes, HandlerReturns, HandlerCallsJS,
      NestedReturns, NestedInterrupted, LoopReplies, ContextEnds

\* The inductive invariant above holds of every behaviour.
THEOREM Invariant == Spec => []Inv
<1>1. Init => OwnerInv /\ AnswerInv /\ NoStrayInterrupt
  BY DEF Init, OwnerInv, AnswerInv, NoStrayInterrupt, InSubmit, Busy
<1>2. TypeOK /\ TypeOK' /\ OwnerInv /\ AnswerInv /\ NoStrayInterrupt /\ [Next]_vars
        => (OwnerInv /\ AnswerInv /\ NoStrayInterrupt)'
  BY OwnerStep, InterruptStep
<1> QED BY <1>1, <1>2, TypeCorrect, PTL DEF Spec, Inv

\* However calls, cancellations and Stop interleave, a caller that handed its
\* job over is the one the running job answers, or already has its answer.
THEOREM WaitersAnswered == Spec => []WaiterWillBeAnswered
<1>1. Inv => WaiterWillBeAnswered
  BY DEF Inv, TypeOK, OwnerInv, AnswerInv, InSubmit, WaiterWillBeAnswered
<1> QED BY <1>1, Invariant, PTL

\* While the runtime is up, the running job's caller is still in submit.
THEOREM JobsAreWanted == Spec => []RunningJobIsWanted
<1>1. Inv => RunningJobIsWanted
  BY DEF Inv, OwnerInv, InSubmit, RunningJobIsWanted
<1> QED BY <1>1, Invariant, PTL

\* The interrupt flag never outlives the cancelled calls.
THEOREM InterruptsAreCleared == Spec => []NoStrayInterrupt
BY Invariant, PTL DEF Inv

-----------------------------------------------------------------------------
(***************************************************************************)
(* Answers.                                                                *)
(***************************************************************************)

\* reply changes only for a new call, or when the job of a caller that is still
\* in submit, and has no answer yet, ends.
OneAnswerPerCall ==
  \A c \in Caller :
    reply'[c] # reply[c] =>
      \/ pc[c] = "idle" /\ reply'[c] = "none"
      \/ /\ loop = "reply" /\ owner = {c} /\ InSubmit(c)
         /\ reply[c] = "none" /\ reply'[c] = outcome

\* A call is answered at most once and by its own job: the reply channel's one
\* slot is free whenever the VM's goroutine sends, so "job.reply <- result"
\* cannot block it.
THEOREM AnsweredOnce == Spec => [][OneAnswerPerCall]_vars
<1>1. Inv /\ [Next]_vars => [OneAnswerPerCall]_vars
  <2> SUFFICES ASSUME Inv, [Next]_vars, NEW c \in Caller, reply'[c] # reply[c]
               PROVE  \/ pc[c] = "idle" /\ reply'[c] = "none"
                      \/ /\ loop = "reply" /\ owner = {c} /\ InSubmit(c)
                         /\ reply[c] = "none" /\ reply'[c] = outcome
    BY DEF OneAnswerPerCall
  <2>1. CASE LoopReplies
    <3>1. loop = "reply" /\ c \in owner /\ reply'[c] = outcome
      BY <2>1 DEF LoopReplies
    <3>2. owner = {c} /\ InSubmit(c) /\ reply[c] = "none"
      BY <3>1 DEF Inv, OwnerInv
    <3> QED BY <3>1, <3>2
  <2>2. ASSUME NEW d \in Caller, NEW s \in Script, Call(d, s)
        PROVE  pc[c] = "idle" /\ reply'[c] = "none"
    BY <2>2 DEF Call, Inv, TypeOK
  <2>3. CASE UNCHANGED reply BY <2>3
  <2> QED
    BY <2>1, <2>2, <2>3
    DEF Next, vars, StartLoop, InitFails, Stop, LoopExits, RunJob, ScriptReturns,
        ScriptInterrupted, Unwound, ScriptInvokes, HandlerReturns, HandlerCallsJS,
        NestedReturns, NestedInterrupted, LoopTakes, ContextEnds, Submit, OfferSeesDone,
        OfferSeesCancel, WaitReply, WaitSeesDone, WaitInterrupts, AwaitReply, ClearInterrupt
<1> QED BY <1>1, Invariant, PTL DEF Spec

(***************************************************************************)
(* Cancellation.                                                           *)
(***************************************************************************)

\* Who interrupts the VM, or is told that its call was cancelled, is a caller
\* whose own context has ended.
CancelsAreOwn ==
  \A c \in Caller : Cancelling(c) \/ result[c] = "cancelled" => ctx[c] = "ended"

\* A caller clears the flag only once it has its answer.
ClearsAfterAnswer == \A c \in Caller : pc[c] = "clearing" => reply[c] # "none"

\* Submit and Call touch one caller's pc, context, reply and result.
LEMMA OthersUntouched ==
  ASSUME TypeOK, NEW c \in Caller,
         Submit(c) \/ LoopTakes(c) \/ ContextEnds(c) \/ \E s \in Script : Call(c, s)
  PROVE  \A d \in Caller : d # c => /\ pc'[d] = pc[d] /\ reply'[d] = reply[d]
                                    /\ ctx'[d] = ctx[d] /\ result'[d] = result[d]
BY DEF Submit, LoopTakes, ContextEnds, Call, OfferSeesDone, OfferSeesCancel, WaitReply,
       WaitSeesDone, WaitInterrupts, AwaitReply, ClearInterrupt, Return, callVars, TypeOK

LEMMA CancelStep ==
  ASSUME TypeOK, CancelsAreOwn, ClearsAfterAnswer, [Next]_vars
  PROVE  CancelsAreOwn' /\ ClearsAfterAnswer'
<1> USE DEF TypeOK, CancelsAreOwn, ClearsAfterAnswer, Cancelling, callVars
<1>1. CASE UNCHANGED <<pc, ctx, reply, result>> BY <1>1
<1>2. CASE LoopReplies
  <2>1. \A c \in Caller : reply[c] # "none" => reply'[c] # "none"
    BY <1>2 DEF LoopReplies
  <2> QED BY <1>2, <2>1 DEF LoopReplies
<1>3. ASSUME NEW c \in Caller,
             \A d \in Caller : d # c => /\ pc'[d] = pc[d] /\ reply'[d] = reply[d]
                                        /\ ctx'[d] = ctx[d] /\ result'[d] = result[d],
             Cancelling(c)' \/ result'[c] = "cancelled" => ctx'[c] = "ended",
             pc'[c] = "clearing" => reply'[c] # "none"
      PROVE  CancelsAreOwn' /\ ClearsAfterAnswer'
  BY <1>3
<1>4. ASSUME NEW c \in Caller, LoopTakes(c) PROVE CancelsAreOwn' /\ ClearsAfterAnswer'
  BY <1>3, <1>4, OthersUntouched DEF LoopTakes
<1>5. ASSUME NEW c \in Caller, ContextEnds(c) PROVE CancelsAreOwn' /\ ClearsAfterAnswer'
  BY <1>3, <1>5, OthersUntouched DEF ContextEnds
<1>6. ASSUME NEW c \in Caller, NEW s \in Script, Call(c, s)
      PROVE  CancelsAreOwn' /\ ClearsAfterAnswer'
  BY <1>3, <1>6, OthersUntouched DEF Call, Return
<1>7. ASSUME NEW c \in Caller, Submit(c) PROVE CancelsAreOwn' /\ ClearsAfterAnswer'
  <2> USE DEF Return
  <2>1. CASE OfferSeesDone(c) BY <1>3, <1>7, <2>1, OthersUntouched DEF OfferSeesDone
  <2>2. CASE OfferSeesCancel(c) BY <1>3, <1>7, <2>2, OthersUntouched DEF OfferSeesCancel
  <2>3. CASE WaitReply(c) BY <1>3, <1>7, <2>3, OthersUntouched DEF WaitReply
  <2>4. CASE WaitSeesDone(c) BY <1>3, <1>7, <2>4, OthersUntouched DEF WaitSeesDone
  <2>5. CASE WaitInterrupts(c) BY <1>3, <1>7, <2>5, OthersUntouched DEF WaitInterrupts
  <2>6. CASE AwaitReply(c) BY <1>3, <1>7, <2>6, OthersUntouched DEF AwaitReply
  <2>7. CASE ClearInterrupt(c) BY <1>3, <1>7, <2>7, OthersUntouched DEF ClearInterrupt
  <2> QED BY <1>7, <2>1, <2>2, <2>3, <2>4, <2>5, <2>6, <2>7 DEF Submit
<1> QED
  BY <1>1, <1>2, <1>4, <1>5, <1>6, <1>7
  DEF Next, vars, StartLoop, InitFails, Stop, LoopExits, RunJob, ScriptReturns,
      ScriptInterrupted, Unwound, ScriptInvokes, HandlerReturns, HandlerCallsJS,
      NestedReturns, NestedInterrupted

LEMMA CancelInvariant == Spec => [](CancelsAreOwn /\ ClearsAfterAnswer)
<1>1. Init => CancelsAreOwn /\ ClearsAfterAnswer
  BY DEF Init, CancelsAreOwn, ClearsAfterAnswer, Cancelling
<1>2. TypeOK /\ (CancelsAreOwn /\ ClearsAfterAnswer) /\ [Next]_vars
        => (CancelsAreOwn /\ ClearsAfterAnswer)'
  BY CancelStep
<1> QED BY <1>1, <1>2, TypeCorrect, PTL DEF Spec

\* No caller is told "cancelled", and none interrupts the VM, whose context lives.
THEOREM OnlyEndedCallsCancel == Spec => []CancelsAreOwn
BY CancelInvariant, PTL

\* A call that has not been cancelled can find the flag up, and be interrupted,
\* only while another call, cancelled and answered, has yet to clear it: the
\* window between LoopReplies and ClearInterrupt.
OnlyStaleFlagsHitOthers ==
  \A c \in owner :
    pc[c] = "waiting" /\ interrupted
      => \E d \in Caller \ {c} : Cancelling(d) /\ reply[d] # "none"

\* The calls an interrupt hits by mistake are exactly those in that window.
THEOREM InnocentHitsAreStale == Spec => []OnlyStaleFlagsHitOthers
<1>1. Inv /\ ClearsAfterAnswer => OnlyStaleFlagsHitOthers
  <2> SUFFICES ASSUME Inv, ClearsAfterAnswer, NEW c \in owner, pc[c] = "waiting", interrupted
               PROVE  \E d \in Caller \ {c} : Cancelling(d) /\ reply[d] # "none"
    BY DEF OnlyStaleFlagsHitOthers
  <2>1. PICK d \in Caller : Cancelling(d)
    BY DEF Inv, NoStrayInterrupt
  <2>2. d # c
    BY <2>1 DEF Cancelling
  <2>3. CASE pc[d] = "clearing"
    BY <2>1, <2>2, <2>3 DEF ClearsAfterAnswer
  <2>4. CASE pc[d] = "awaiting"
    <3>1. d \notin owner
      BY <2>2 DEF Inv, OwnerInv
    <3> QED BY <2>1, <2>2, <2>4, <3>1 DEF Inv, AnswerInv, InSubmit
  <2> QED BY <2>1, <2>3, <2>4 DEF Cancelling
<1> QED BY <1>1, Invariant, CancelInvariant, PTL

\* At most one caller at a time is between Interrupt and ClearInterrupt.
OneCanceller == \A c, d \in Caller : Cancelling(c) /\ Cancelling(d) => c = d

\* While a cancelled caller waits for its job, the flag it has set is up, or the
\* job is past it and about to answer.
CancelReachesVM ==
  \A c \in Caller : pc[c] = "awaiting" /\ reply[c] = "none" => interrupted \/ loop = "reply"

\* What CancelledCallReturns needs and can miss: as long as no two cancellations
\* overlap, no interrupt is lost. (Where they do, one caller's ClearInterrupt
\* takes down the other's flag, and its endless script runs on.)
THEOREM LoneCancelReachesVM == Spec /\ []OneCanceller => []CancelReachesVM
<1>1. Init => CancelReachesVM
  BY DEF Init, CancelReachesVM
<1>2. Inv /\ OneCanceller /\ CancelReachesVM /\ [Next]_vars => CancelReachesVM'
  <2> SUFFICES ASSUME Inv, OneCanceller, CancelReachesVM, [Next]_vars,
                      NEW c \in Caller, pc'[c] = "awaiting", reply'[c] = "none"
               PROVE  interrupted' \/ loop' = "reply"
    BY DEF CancelReachesVM
  <2> USE DEF Inv, TypeOK, vmVars, callVars, Return, CancelReachesVM
  <2>1. CASE LoopReplies
    <3>1. pc[c] = "awaiting" /\ c \notin owner
      BY <2>1 DEF LoopReplies
    <3>2. reply[c] # "none"
      BY <3>1 DEF AnswerInv, InSubmit
    <3> QED BY <2>1, <3>1, <3>2 DEF LoopReplies
  <2>2. CASE Unwound
    BY <2>2 DEF Unwound
  <2>3. CASE \/ StartLoop \/ InitFails \/ Stop \/ LoopExits \/ ScriptReturns
             \/ ScriptInterrupted \/ ScriptInvokes \/ HandlerReturns \/ HandlerCallsJS
             \/ NestedReturns \/ NestedInterrupted
    BY <2>3
    DEF StartLoop, InitFails, Stop, LoopExits, ScriptReturns, ScriptInterrupted,
        ScriptInvokes, HandlerReturns, HandlerCallsJS, NestedReturns, NestedInterrupted
  <2>4. ASSUME NEW d \in Caller, LoopTakes(d) PROVE FALSE
    <3>1. pc[c] = "awaiting" /\ reply[c] = "none" /\ loop = "select"
      BY <2>4 DEF LoopTakes
    <3> QED BY <3>1 DEF AnswerInv, OwnerInv, InSubmit, Busy
  <2>5. ASSUME NEW d \in Caller, ContextEnds(d) PROVE interrupted' \/ loop' = "reply"
    BY <2>5 DEF ContextEnds
  <2>6. ASSUME NEW d \in Caller, NEW s \in Script, Call(d, s)
        PROVE  interrupted' \/ loop' = "reply"
    BY <2>6 DEF Call
  <2>7. ASSUME NEW d \in Caller, ClearInterrupt(d) PROVE FALSE
    <3>1. pc[d] = "clearing" /\ d # c /\ pc[c] = "awaiting"
      BY <2>7 DEF ClearInterrupt
    <3> QED BY <3>1 DEF OneCanceller, Cancelling
  <2>8. ASSUME NEW d \in Caller, WaitInterrupts(d) PROVE interrupted' \/ loop' = "reply"
    BY <2>8 DEF WaitInterrupts
  <2>9. ASSUME NEW d \in Caller,
                \/ OfferSeesDone(d) \/ OfferSeesCancel(d) \/ WaitReply(d)
                \/ WaitSeesDone(d) \/ AwaitReply(d)
         PROVE  interrupted' \/ loop' = "reply"
    BY <2>9 DEF OfferSeesDone, OfferSeesCancel, WaitReply, WaitSeesDone, AwaitReply
  <2>10. CASE UNCHANGED vars BY <2>10 DEF vars
  <2> QED
    BY <2>1, <2>2, <2>3, <2>4, <2>5, <2>6, <2>7, <2>8, <2>9, <2>10 DEF Next, RunJob, Submit
<1> QED BY <1>1, <1>2, Invariant, PTL DEF Spec
=============================================================================
