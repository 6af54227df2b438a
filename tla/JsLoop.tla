------------------------------- MODULE JsLoop -------------------------------
(***************************************************************************)
(* The script runtime of runtime/jsruntime_call.go: one goroutine owns the *)
(* goja VM (startLoop), callers hand it jobs over an unbuffered channel    *)
(* and wait (submit), a cancelled caller interrupts the VM, Stop closes    *)
(* "done". A caller is a goroutine with at most one call in progress.      *)
(*                                                                         *)
(* The VM's interrupt flag is goja's: set by Interrupt from any goroutine, *)
(* looked at before every JavaScript instruction and never in Go code, and *)
(* reset by ClearInterrupt or when an interrupt has unwound the outermost  *)
(* script call. A script is "short" (it ends by itself) or "endless" (only *)
(* an interrupt ends it); either may call goleo.invoke, whose handler runs *)
(* on the VM's goroutine and may call a script function inline.            *)
(*                                                                         *)
(* A definition Op_what is Op with the plausible bug "what"; it is not     *)
(* part of the specification. Each property is shown to notice one.        *)
(***************************************************************************)
EXTENDS Naturals, FiniteSets

CONSTANTS
  Caller,       \* the goroutines that call into the script
  MaxInvokes    \* bound of the model: goleo.invoke calls one job makes

ASSUME MaxInvokesAssumption == MaxInvokes \in Nat

VARIABLES
  loop,         \* where the VM's goroutine is
  owner,        \* {c} while the running job's caller waits for it, else {}
  script,       \* the running job's script
  invokes,      \* goleo.invoke calls the running job can still make
  outcome,      \* how the running job's script ended
  interrupted,  \* goja's interrupt flag
  done,         \* jsr.done is closed
  pc,           \* where each caller is in submit
  ctx,          \* the context of each call
  wants,        \* the script each caller is calling
  reply,        \* contents of each call's reply channel
  result        \* what each caller's last call returned

vmVars     == <<script, invokes, outcome>>
callVars   == <<ctx, wants>>
vars == <<loop, owner, vmVars, interrupted, done, pc, callVars, reply, result>>

Script == {"short", "endless"}

Init ==
  /\ loop = "init" /\ owner = {}
  /\ script = "short" /\ invokes = 0 /\ outcome = "ok"
  /\ interrupted = FALSE /\ done = FALSE
  /\ pc = [c \in Caller |-> "idle"]
  /\ ctx = [c \in Caller |-> "live"]
  /\ wants = [c \in Caller |-> "short"]
  /\ reply = [c \in Caller |-> "none"]
  /\ result = [c \in Caller |-> "none"]

(***************************************************************************)
(* Run, on the startup goroutine: the init script, then startLoop. Stop is *)
(* called by shutdown, after Run has returned.                             *)
(***************************************************************************)

StartLoop ==
  /\ loop = "init" /\ loop' = "select"
  /\ UNCHANGED <<owner, vmVars, interrupted, done, pc, callVars, reply, result>>

\* The init script throws: Run returns before startLoop, jobs stays nil.
InitFails ==
  /\ loop = "init" /\ loop' = "absent"
  /\ UNCHANGED <<owner, vmVars, interrupted, done, pc, callVars, reply, result>>

Stop ==
  /\ loop # "init" /\ done' = TRUE
  /\ UNCHANGED <<loop, owner, vmVars, interrupted, pc, callVars, reply, result>>

(***************************************************************************)
(* submit, on the caller's goroutine.                                      *)
(***************************************************************************)

Return(c, r) ==
  /\ pc' = [pc EXCEPT ![c] = "idle"]
  /\ result' = [result EXCEPT ![c] = r]

Call(c, s) ==
  /\ pc[c] = "idle"
  /\ ctx' = [ctx EXCEPT ![c] = "live"]
  /\ wants' = [wants EXCEPT ![c] = s]
  /\ reply' = [reply EXCEPT ![c] = "none"]
  /\ IF loop \in {"init", "absent"}
     THEN Return(c, "unavailable")
     ELSE /\ pc' = [pc EXCEPT ![c] = "offering"]
          /\ result' = [result EXCEPT ![c] = "none"]
  /\ UNCHANGED <<loop, owner, vmVars, interrupted, done>>

\* The caller cancels the context, or its deadline passes.
ContextEnds(c) ==
  /\ pc[c] # "idle"
  /\ ctx' = [ctx EXCEPT ![c] = "ended"]
  /\ UNCHANGED <<loop, owner, vmVars, interrupted, done, pc, wants, reply, result>>

OfferSeesDone(c) ==
  /\ pc[c] = "offering" /\ done
  /\ Return(c, "unavailable")
  /\ UNCHANGED <<loop, owner, vmVars, interrupted, done, callVars, reply>>

OfferSeesCancel(c) ==
  /\ pc[c] = "offering" /\ ctx[c] = "ended"
  /\ Return(c, "cancelled")
  /\ UNCHANGED <<loop, owner, vmVars, interrupted, done, callVars, reply>>

WaitReply(c) ==
  /\ pc[c] = "waiting" /\ reply[c] # "none"
  /\ Return(c, reply[c])
  /\ UNCHANGED <<loop, owner, vmVars, interrupted, done, callVars, reply>>

WaitSeesDone_ifAnswered(c) ==
  /\ pc[c] = "waiting" /\ done /\ reply[c] # "none"
  /\ Return(c, "unavailable")
  /\ UNCHANGED <<loop, owner, vmVars, interrupted, done, callVars, reply>>

\* The job, if it still runs, goes on without a caller.
WaitSeesDone(c) ==
  /\ pc[c] = "waiting" /\ done
  /\ Return(c, "unavailable")
  /\ owner' = owner \ {c}
  /\ UNCHANGED <<loop, vmVars, interrupted, done, callVars, reply>>

\* case <-ctx.Done(), even when a reply is there too: Interrupt, then <-reply.
WaitInterrupts(c) ==
  /\ pc[c] = "waiting" /\ ctx[c] = "ended"
  /\ interrupted' = TRUE
  /\ pc' = [pc EXCEPT ![c] = "awaiting"]
  /\ UNCHANGED <<loop, owner, vmVars, done, callVars, reply, result>>

AwaitReply(c) ==
  /\ pc[c] = "awaiting" /\ reply[c] # "none"
  /\ pc' = [pc EXCEPT ![c] = "clearing"]
  /\ UNCHANGED <<loop, owner, vmVars, interrupted, done, callVars, reply, result>>

ClearInterrupt_forgotten(c) ==
  /\ pc[c] = "clearing"
  /\ Return(c, "cancelled")
  /\ UNCHANGED <<loop, owner, vmVars, interrupted, done, callVars, reply>>

ClearInterrupt(c) ==
  /\ pc[c] = "clearing"
  /\ interrupted' = FALSE
  /\ Return(c, "cancelled")
  /\ UNCHANGED <<loop, owner, vmVars, done, callVars, reply>>

(***************************************************************************)
(* The VM's goroutine: startLoop's select, and the job it runs.            *)
(***************************************************************************)

\* The rendezvous on jobs. With done closed too, select may still choose it.
LoopTakes(c) ==
  /\ loop = "select" /\ pc[c] = "offering"
  /\ loop' = "script" /\ owner' = {c}
  /\ script' = wants[c] /\ invokes' = MaxInvokes /\ outcome' = "ok"
  /\ pc' = [pc EXCEPT ![c] = "waiting"]
  /\ UNCHANGED <<interrupted, done, callVars, reply, result>>

LoopExits ==
  /\ loop = "select" /\ done
  /\ loop' = "exited"
  /\ UNCHANGED <<owner, vmVars, interrupted, done, pc, callVars, reply, result>>

\* It may have passed its last check when an interrupt is requested.
ScriptReturns ==
  /\ loop = "script" /\ script = "short"
  /\ loop' = "reply"
  /\ UNCHANGED <<owner, vmVars, interrupted, done, pc, callVars, reply, result>>

ScriptInterrupted ==
  /\ loop = "script" /\ interrupted
  /\ loop' = "unwinding"
  /\ UNCHANGED <<owner, vmVars, interrupted, done, pc, callVars, reply, result>>

Unwound_loopDies ==
  /\ loop = "unwinding"
  /\ loop' = "exited" /\ outcome' = "interrupted" /\ interrupted' = FALSE
  /\ UNCHANGED <<owner, script, invokes, done, pc, callVars, reply, result>>

\* goja resets the flag (leaveAbrupt); the job turns the interrupt into an error.
Unwound ==
  /\ loop = "unwinding"
  /\ loop' = "reply" /\ outcome' = "interrupted" /\ interrupted' = FALSE
  /\ UNCHANGED <<owner, script, invokes, done, pc, callVars, reply, result>>

\* goleo.invoke: Go code, which no interrupt reaches, on this goroutine.
ScriptInvokes ==
  /\ loop = "script" /\ invokes > 0
  /\ loop' = "handler" /\ invokes' = invokes - 1
  /\ UNCHANGED <<owner, script, outcome, interrupted, done, pc, callVars, reply, result>>

HandlerReturns ==
  /\ loop = "handler" /\ loop' = "script"
  /\ UNCHANGED <<owner, vmVars, interrupted, done, pc, callVars, reply, result>>

HandlerCallsJS_queued ==
  /\ loop = "handler" /\ loop' = "queued"
  /\ UNCHANGED <<owner, vmVars, interrupted, done, pc, callVars, reply, result>>

\* Call with the context of goleo.invoke: submit runs the job inline.
HandlerCallsJS ==
  /\ loop = "handler" /\ loop' = "nested"
  /\ UNCHANGED <<owner, vmVars, interrupted, done, pc, callVars, reply, result>>

NestedReturns ==
  /\ loop = "nested" /\ loop' = "handler"
  /\ UNCHANGED <<owner, vmVars, interrupted, done, pc, callVars, reply, result>>

\* A script is still on the stack below: the flag stays set for it to see.
NestedInterrupted == interrupted /\ NestedReturns

LoopReplies_unbuffered ==
  /\ loop = "reply" /\ owner # {}
  /\ loop' = "select" /\ owner' = {}
  /\ reply' = [c \in Caller |-> IF c \in owner THEN outcome ELSE reply[c]]
  /\ UNCHANGED <<vmVars, interrupted, done, pc, callVars, result>>

LoopReplies_unlessDone ==
  /\ loop = "reply"
  /\ loop' = "select" /\ owner' = {}
  /\ reply' = [c \in Caller |-> IF c \in owner /\ ~done THEN outcome ELSE reply[c]]
  /\ UNCHANGED <<vmVars, interrupted, done, pc, callVars, result>>

\* job.reply <- result never blocks: the channel has room for it, waited on or not.
LoopReplies ==
  /\ loop = "reply"
  /\ loop' = "select" /\ owner' = {}
  /\ reply' = [c \in Caller |-> IF c \in owner THEN outcome ELSE reply[c]]
  /\ UNCHANGED <<vmVars, interrupted, done, pc, callVars, result>>

-----------------------------------------------------------------------------

Submit(c) ==
  \/ OfferSeesDone(c) \/ OfferSeesCancel(c) \/ WaitReply(c) \/ WaitSeesDone(c)
  \/ WaitInterrupts(c) \/ AwaitReply(c) \/ ClearInterrupt(c)

RunJob ==
  \/ ScriptReturns \/ ScriptInterrupted \/ Unwound \/ ScriptInvokes
  \/ HandlerReturns \/ HandlerCallsJS \/ NestedReturns \/ NestedInterrupted
  \/ LoopReplies

Next ==
  \/ StartLoop \/ InitFails \/ Stop \/ LoopExits \/ RunJob
  \/ \E c \in Caller : \/ LoopTakes(c) \/ Submit(c) \/ ContextEnds(c)
                       \/ \E s \in Script : Call(c, s)

Spec == Init /\ [][Next]_vars

(***************************************************************************)
(* Fairness: goroutines that can run do run, short scripts and handlers    *)
(* end (a handler also when it calls scripts before that), an interrupt    *)
(* that stays set is seen. A select chooses at random among its ready      *)
(* cases and blocked senders queue in order, hence strong fairness of the  *)
(* loop's two cases. Contexts need never end.                              *)
(***************************************************************************)
NestedEnds == NestedReturns /\ (script = "short" \/ interrupted)

Fairness ==
  /\ WF_vars(ScriptReturns \/ ScriptInterrupted \/ Unwound)
  /\ SF_vars(HandlerReturns) /\ WF_vars(NestedEnds) /\ WF_vars(LoopReplies)
  /\ SF_vars(LoopExits)
  /\ \A c \in Caller : WF_vars(Submit(c)) /\ SF_vars(LoopTakes(c))

FairSpec == Spec /\ Fairness
-----------------------------------------------------------------------------
(***************************************************************************)
(* Properties.                                                             *)
(***************************************************************************)

Busy == {"script", "handler", "nested", "unwinding", "reply"}
Cancelling(c) == pc[c] \in {"awaiting", "clearing"}

TypeOK ==
  /\ loop \in Busy \cup {"init", "absent", "select", "exited"}
  /\ owner \subseteq Caller
  /\ script \in Script /\ invokes \in 0 .. MaxInvokes
  /\ outcome \in {"ok", "interrupted"}
  /\ interrupted \in BOOLEAN /\ done \in BOOLEAN
  /\ pc \in [Caller -> {"idle", "offering", "waiting", "awaiting", "clearing"}]
  /\ ctx \in [Caller -> {"live", "ended"}]
  /\ wants \in [Caller -> Script]
  /\ reply \in [Caller -> {"none", "ok", "interrupted"}]
  /\ result \in [Caller -> {"none", "ok", "interrupted", "cancelled", "unavailable"}]

(***************************************************************************)
(* An interrupt is never left behind: whenever the flag is set, a caller   *)
(* is still inside submit with the duty to clear it, so once the cancelled *)
(* calls have returned the VM is fit for the next job.                     *)
(***************************************************************************)
NoStrayInterrupt == interrupted => \E c \in Caller : Cancelling(c)

(***************************************************************************)
(* Nobody waits for a reply that will not come: a caller past the rendez-  *)
(* vous is the one the running job will answer, or has its answer.         *)
(***************************************************************************)
WaiterWillBeAnswered ==
  \A c \in Caller :
    pc[c] \in {"waiting", "awaiting"} =>
      (owner = {c} /\ loop \in Busy) \/ reply[c] # "none"

(***************************************************************************)
(* Work nobody waits for exists only after Stop: as long as the runtime is *)
(* up, a job runs only while the caller that asked for it is in submit, so *)
(* there is always someone whose context can end it.                       *)
(***************************************************************************)
RunningJobIsWanted == loop \in Busy /\ ~done => \E c \in owner : pc[c] \in {"waiting", "awaiting"}

Runaway == loop \in {"script", "handler", "nested"} /\ script = "endless"

(***************************************************************************)
(* A caller in the queue gets its turn or leaves, unless an endless script *)
(* holds the VM: the goroutine survives interrupts, re-entrant calls and   *)
(* callers that left.                                                      *)
(***************************************************************************)
QueueMoves ==
  \A c \in Caller : pc[c] = "offering" ~> (pc[c] # "offering" \/ Runaway)

(***************************************************************************)
(* Stop ends the VM's goroutine, unless an endless script holds it.        *)
(***************************************************************************)
StopEndsLoop == done ~> (loop \in {"exited", "absent"} \/ Runaway)

(***************************************************************************)
(* "Queued and in-flight callers get ErrJSUnavailable rather than blocking *)
(* forever" (stopLoop), whatever script they wait for; a caller already    *)
(* cancelling is not in either wait.                                       *)
(***************************************************************************)
StopFreesCallers ==
  \A c \in Caller :
    (done /\ pc[c] \in {"offering", "waiting"}) ~> (pc[c] = "idle" \/ Cancelling(c))

(***************************************************************************)
(* "With a deadline it is interrupted and the runtime survives for the     *)
(* next call": a call whose context has ended returns.                     *)
(***************************************************************************)
CancelledCallReturns ==
  \A c \in Caller : (pc[c] # "idle" /\ ctx[c] = "ended") ~> pc[c] = "idle"
=============================================================================
