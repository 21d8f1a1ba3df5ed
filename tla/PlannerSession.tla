--------------------------- MODULE PlannerSession ---------------------------
(***************************************************************************)
(* The planner's transaction: one decision bought with at most Attempts    *)
(* answers, every answer durable before it is judged, a rejected one moved *)
(* file by file to planner-attempts/NN; and the transport of one request:  *)
(* a horizon of time, not a number of tries.                               *)
(*                                                                         *)
(* The exchange is the set of its files at the run's root and in each      *)
(* archived attempt.  A durable write or a move of one file is one action, *)
(* so a stop may fall between any two of them.  Time is counted in ticks   *)
(* of the transport's clock, which lives in memory: a resumed request has  *)
(* a horizon of its own.                                                   *)
(***************************************************************************)
EXTENDS Naturals, Sequences

CONSTANTS
    Attempts,      \* budget.step_attempts
    Continuation,  \* the client can continue a conversation
    Answers,       \* what an answer may be worth
    Horizon,       \* transport.max_wait_seconds
    Durations,     \* bound: how long one try may take before it fails
    Hints,         \* Retry-After values the endpoint may send
    MinUseful, FirstDelay, LastDelay,  \* the constants of the backoff
    MaxResumes     \* bound: resumes of the run

ASSUME BudgetAssumption == Attempts \in Nat \ {0} /\ MaxResumes \in Nat
ASSUME AnswerAssumption ==
    /\ Answers \subseteq {"ready", "blocked", "invalid", "unsafe"}
    /\ Continuation \in BOOLEAN
ASSUME TimeAssumption ==
    /\ {Horizon, MinUseful, FirstDelay, LastDelay} \subseteq Nat \ {0}
    /\ Durations \subseteq Nat /\ Hints \subseteq Nat \ {0}
    /\ MinUseful <= Horizon

VARIABLES
    root, answer,  \* the files of the exchange; what planner.raw.md is worth
    session,       \* planner.session.json
    archive,       \* planner-attempts/NN: the files of each rejected answer
    checkpoint, disposition, reason,
    pc, held, clock, tries, delay,   \* the driver's memory; held: a handle, then a verdict
    answered, resumes                  \* history

exchange == <<root, answer, session, archive>>
run      == <<checkpoint, disposition, reason>>
memory   == <<held, clock, tries, delay>>
plannerVars == <<exchange, run, pc, memory, answered, resumes>>

Files == {"request", "raw", "validation"}
Good  == {"ready", "blocked"}

PlannerInit ==
    /\ root = {} /\ answer = "none" /\ archive = <<>>
    /\ session = [latest |-> 0, handle |-> "none"]
    /\ checkpoint = "CONTEXT" /\ disposition = "RUNNING" /\ reason = "none"
    /\ pc = "context" /\ held = "none"
    /\ clock = 0 /\ tries = 0 /\ delay = FirstDelay
    /\ answered = 0 /\ resumes = 0

At(operation) == pc = operation
Goto(operation) == pc' = operation
Forget == held' = "none" /\ clock' = 0 /\ tries' = 0 /\ delay' = FirstDelay

Leave(d, r) ==
    /\ disposition' = d /\ reason' = r
    /\ pc' = "off" /\ Forget

\* project_exception before the first step: _checkpoint_is_retryable holds at
\* every checkpoint a driver can be at, so that the run waits.
Escape(code) ==
    /\ Leave("WAIT_EXTERNAL", code)
    /\ UNCHANGED <<exchange, checkpoint, answered, resumes>>

-----------------------------------------------------------------------------
(* The loop over the attempts.                                             *)

\* Slip: the loop starts again from its first attempt.
AttemptForgotten == 1

\* The first attempt without a directory of its own.
Attempt == Len(archive) + 1

\* Slip: an answer nobody has judged yet is asked for again.
AnswerJudged == {"raw", "validation"} \subseteq root

AnswerDurable == "raw" \in root

\* context.txt is written, then the checkpoint names the planner.
BuildContext ==
    /\ At("context")
    /\ checkpoint' = "PLANNER"
    /\ Goto("enter")
    /\ UNCHANGED <<exchange, disposition, reason, memory, answered, resumes>>

EnterPlan ==
    /\ At("enter")
    /\ Goto("plan")
    /\ UNCHANGED <<exchange, run, memory, answered, resumes>>

\* BudgetExhausted: nothing is accepted yet, the run ends PARTIAL.
OutOfTime ==
    /\ At("enter")
    /\ checkpoint' = "PLANNER"
    /\ Leave("COMPLETED", "PARTIAL")
    /\ UNCHANGED <<exchange, answered, resumes>>

\* AssertionError: every attempt has its directory.
LoopExhausted ==
    /\ At("plan") /\ Attempt > Attempts
    /\ Escape("INTERNAL_HARNESS_ERROR")

\* The session may lag a durable answer by one attempt, and must not refuse it.
SessionFits == session.latest \in {Attempt - 1, Attempt} /\ session.handle # "changed"

\* Slip: a session that does not fit is read again until it does.
RereadAgain ==
    /\ At("plan") /\ Attempt <= Attempts /\ AnswerDurable
    /\ Goto(IF SessionFits /\ "request" \in root THEN "judge" ELSE "enter")
    /\ UNCHANGED <<exchange, run, memory, answered, resumes>>

\* A durable answer is consumed, whatever became of its metadata.
Reread ==
    /\ At("plan") /\ Attempt <= Attempts /\ AnswerDurable
    /\ IF ~SessionFits THEN Escape("LLM_TRANSPORT_EXHAUSTED")
       ELSE IF "request" \notin root THEN Escape("INTERNAL_HARNESS_ERROR")
       ELSE /\ Goto("judge")
            /\ UNCHANGED <<exchange, run, memory, answered, resumes>>

\* The request of this attempt: the first one, or a correction that needs the
\* archived verdict and answer of the attempt before.
Ask ==
    /\ At("plan") /\ Attempt <= Attempts /\ ~AnswerDurable
    /\ IF Attempt > 1 /\ "validation" \notin archive[Attempt - 1]
       THEN Escape("LLM_TRANSPORT_EXHAUSTED")
       ELSE IF Attempt > 1 /\ "raw" \notin archive[Attempt - 1]
       THEN Escape("INTERNAL_HARNESS_ERROR")
       ELSE /\ root' = root \cup {"request"}
            /\ Goto(IF Attempt > 1 /\ Continuation /\ session.handle = "known"
                    THEN "continue" ELSE "call")
            /\ UNCHANGED <<answer, session, archive, run, memory, answered, resumes>>

\* continue_conversation: ConversationUnavailableError asks afresh.
Continue ==
    /\ At("continue")
    /\ \/ /\ \E next \in {"continued", "changed", "call"} : Goto(next)
          /\ UNCHANGED <<exchange, run, memory, answered, resumes>>
       \/ Escape("LLM_TRANSPORT_EXHAUSTED")

\* The paid response first, then its usage and its session.
WriteAnswer ==
    /\ At("received") \/ At("continued") \/ At("changed")
    /\ root' = root \cup {"raw"}
    /\ answer' \in Answers
    /\ answered' = answered + 1
    /\ clock' = 0 /\ tries' = 0 /\ delay' = FirstDelay
    /\ \E handle \in {"none", "known"} :
          /\ Continuation \/ handle = "none"
          /\ held' = IF At("received") THEN handle
                       ELSE IF At("continued") THEN "known" ELSE "changed"
    /\ Goto("session")
    /\ UNCHANGED <<session, archive, run, resumes>>

\* A conversation that changed its provider is recorded, then refused.
WriteSession ==
    /\ At("session")
    /\ session' = [latest |-> Attempt, handle |-> held]
    /\ UNCHANGED <<root, answer, archive, checkpoint, answered, resumes>>
    /\ IF held = "changed" THEN Leave("WAIT_EXTERNAL", "LLM_TRANSPORT_EXHAUSTED")
       ELSE Forget /\ Goto("judge") /\ UNCHANGED <<disposition, reason>>

\* The protocol, the policy and the base tree: a verdict is written.
Judge ==
    /\ At("judge")
    /\ root' = root \cup {"validation"}
    /\ held' = answer
    /\ Goto(IF answer \in Good THEN "publish" ELSE "mkdir")
    /\ UNCHANGED <<answer, session, archive, run, clock, tries, delay, answered, resumes>>

MakeAttempt ==
    /\ At("mkdir")
    /\ archive' = Append(archive, {})
    /\ Goto("move")
    /\ UNCHANGED <<root, answer, session, run, memory, answered, resumes>>

\* The files are moved one at a time, in the order of their names' list.
Archived == IF "request" \in root THEN "request"
            ELSE IF "raw" \in root THEN "raw" ELSE "validation"

MoveFile ==
    /\ At("move") /\ root # {}
    /\ root' = root \ {Archived}
    /\ archive' = [archive EXCEPT ![Len(archive)] = @ \cup {Archived}]
    /\ answer' = IF Archived = "raw" THEN "none" ELSE answer
    /\ UNCHANGED <<session, run, pc, memory, answered, resumes>>

\* A security violation, or the last attempt, ends the decision.
Rejected ==
    /\ At("move") /\ root = {}
    /\ IF held = "unsafe" \/ Len(archive) >= Attempts
       THEN Escape("PLANNER_OUTPUT_INVALID")
       ELSE /\ Forget /\ Goto("plan")
            /\ UNCHANGED <<exchange, run, answered, resumes>>

-----------------------------------------------------------------------------
(* One request: tries until the horizon.                                   *)

Least(m, n) == IF m <= n THEN m ELSE n

\* +/- 20% around the backoff, when the endpoint gives no hint.
Jitter(d) == (4 * d) \div 5 .. (6 * d) \div 5

\* Retry-After is obeyed when it can be read and is not past.
Waits == Hints \cup Jitter(delay)

\* Slip: the wait may end on the horizon itself.
RoomOnHorizon(elapsed, wait) == wait >= MinUseful /\ elapsed + wait <= Horizon

\* A try fits after the wait: useful, and over before the deadline.
Room(elapsed, wait) == wait >= MinUseful /\ elapsed + wait < Horizon

Clipped(elapsed, wait) == IF elapsed >= Horizon THEN 0 ELSE Least(wait, Horizon - elapsed)

Answer ==
    /\ At("call")
    /\ Goto("received")
    /\ UNCHANGED <<exchange, run, memory, answered, resumes>>

\* 408, 429, 5xx, a timeout or a broken connection: the hint wins over the
\* backoff, and no wait runs past the horizon.
Retry ==
    /\ At("call")
    /\ \E d \in Durations, w \in Waits :
          LET elapsed == clock + d
              wait    == Clipped(elapsed, w)
          IN /\ Room(elapsed, wait)
             /\ clock' = elapsed + wait
    /\ tries' = tries + 1
    /\ delay' = Least(2 * delay, LastDelay)
    /\ UNCHANGED <<exchange, run, pc, held, answered, resumes>>

GiveUp ==
    /\ At("call")
    /\ \E d \in Durations, w \in Waits :
          ~Room(clock + d, Clipped(clock + d, w))
    /\ Escape("LLM_TRANSPORT_EXHAUSTED")

\* Another status, an error after the submission, an answer that is no
\* completion: never tried again by this request.
Refuse ==
    /\ At("call")
    /\ Escape("LLM_TRANSPORT_EXHAUSTED")

PlannerStep ==
    \/ BuildContext \/ EnterPlan \/ OutOfTime
    \/ LoopExhausted \/ Reread \/ Ask \/ Continue
    \/ WriteAnswer \/ WriteSession \/ Judge
    \/ MakeAttempt \/ MoveFile \/ Rejected
    \/ Answer \/ Retry \/ GiveUp \/ Refuse
=============================================================================
