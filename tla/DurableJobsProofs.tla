------------------------- MODULE DurableJobsProofs -------------------------
(***************************************************************************)
(* Proofs about DurableJobs for any number of polls and of resuming calls. *)
(*                                                                         *)
(* What callers are told rests on facts that no single handler states.  A  *)
(* row that says running has a task or a call about to create it, unless a *)
(* save failed, the process stopped or the call was cancelled first        *)
(* (RunningOwned), and the registry knows that task, unless a waiter for   *)
(* another one dropped it (Attended).  A job that is not resumed has one   *)
(* task, whose outcome, once it is done, is the row's (SameVerdict).       *)
(* Metadata attached to a review is always somewhere between memory, row   *)
(* and payload where the final save will find it (MetaOnItsWay).  And a    *)
(* quantum on its way to a complete row has written its session turn       *)
(* (HistoryKept).                                                          *)
(***************************************************************************)
EXTENDS DurableJobs, FiniteSetTheorems, TLAPS

Early == {"idle", "create", "check", "join", "claim", "held", "resume", "begin", "start"}

\* A call starts one task; what it looked up is still what it waits for.
CallsOrdered ==
    /\ \A c \in Calls : call[c] \in Early => task[c] = "none"
    /\ \A c \in Calls : call[c] = "join" => memo[c] \in Calls
    /\ call[First] \notin {"check", "join", "claim", "held", "resume"}
    /\ \A p \in Pollers : poll[p] = "await" => pollOf[p] \in Calls
    /\ \A p \in Pollers : poll[p] # "idle" => task[First] # "none"

\* What the payload of a task says, by where the task is.
OutcomeKnown ==
    \A c \in Calls :
        /\ task[c] \in {"seal", "session"} => outcome[c] = "complete"
        /\ task[c] = "settle" => outcome[c] \in {"complete", "continue"}
        /\ task[c] = "final" => outcome[c] \in {"complete", "continue", "error"}
        /\ task[c] = "last" => outcome[c] = "error"
        /\ Autonomy /\ task[c] = "final" => outcome[c] \in {"complete", "error"}
        /\ task[c] = "record" => outcome[c] \in Outcomes

\* Shutdown is a disturbance, and only shutdown marks a row lost.
ShutdownNoted ==
    /\ server \in {"marking", "marked", "draining"} => "disturbed" \in mishap
    /\ row = "lost" => "disturbed" \in mishap

\* A job that is not resumed has the one task, and its record while it works.
OneTask ==
    ~Autonomy =>
        /\ \A c \in Resumes : call[c] = "idle" /\ task[c] = "none"
        /\ call[First] # "begin"
        /\ record \in {First, NoOne}
        /\ \A p \in Pollers : pollOf[p] \in {First, NoOne}
        /\ "raced" \notin mishap
        /\ task[First] \in Working => record = First
        /\ \A p \in Pollers : poll[p] = "load" => task[First] \in {"done", "gone"}
        /\ task[First] \notin {"seal", "session", "settle"}

\* Somebody will write a running row, or its job was cut off.
RunningOwned ==
    row = "running" /\ mishap \cap {"disturbed", "cut"} = {} =>
        \E c \in Calls : call[c] = "start" \/ task[c] \in Working

\* Before the first call nothing has happened; afterwards, a job with an
\* autonomy row gets a complete row only through the session's history.
HistoryKept ==
    /\ call[First] = "idle" => row # "complete" /\ \A c \in Calls : call[c] = "idle"
    /\ Autonomy /\ auto # "none" =>
        /\ \A c \in Calls : task[c] \in {"settle", "record"} /\ outcome[c] = "complete" => turns = 1
        /\ row = "complete" => turns = 1

\* A running row is in the registry, and nobody is about to report it lost.
Attended ==
    mishap = {} =>
        /\ row = "running" => \/ \E c \in Calls : call[c] = "start"
                              \/ record # NoOne /\ task[record] \in Working
        /\ \A p \in Pollers : poll[p] = "load" => row # "running"
        /\ "lost" \notin told

\* The telemetry of a quantum, by where its task is.
ReceiptKept ==
    kind # "job" /\ "disturbed" \notin mishap =>
        \A c \in Calls :
            /\ task[c] \in {"none", "work"} => receipt[c] = "none"
            /\ task[c] \in {"seal", "session", "settle"} => receipt[c] \in {"turn", "partial"}
            /\ task[c] \in {"final", "last", "record"}
                 => receipt[c] \in IF outcome[c] = "error" THEN {"error", "twice"}
                                  ELSE {"turn", "partial"}

\* What has been told agrees with what the row says, and a row says what its
\* task did.
SameVerdict ==
    ~Autonomy /\ "disturbed" \notin mishap =>
        /\ row = "none" => call[First] = "idle" /\ told = {}
        /\ row = "running" =>
             /\ told \subseteq {"lost"} /\ (told # {} => task[First] = "gone")
             /\ task[First] # "done" /\ call[First] # "idle"
        /\ row \in TerminalRows =>
             told \subseteq {row} /\ task[First] \in {"done", "gone"}
        /\ task[First] = "done" => row = outcome[First]

\* Metadata handed over is in the row, or the final save will put it there.
MetaOnItsWay ==
    /\ attach # "no" => kind = "review" /\ call[First] = "left"
    /\ attach = "stored" /\ mishap = {} =>
        /\ row \in TerminalRows => rowMeta = "merged"
        /\ task[First] \in {"work", "final", "fail", "last"} => rowMeta = "pending"
        /\ task[First] = "record" => carry[First]

\* TypeOK, by what the variables belong to; one turn at most.
StoredTypes ==
    /\ kind \in {"job", "review", "agent"}
    /\ server \in {"up", "marking", "marked", "draining", "down"}
    /\ row \in {"none", "running"} \cup TerminalRows
    /\ rowMeta \in {"none", "pending", "merged"}
    /\ auto \in {"none", "running", "needs_continuation", "committed"}
    /\ claim \in Resumes \cup {NoOne}
    /\ turns \in {0, 1}
    /\ told \subseteq TerminalRows \cup {"unknown"}
    /\ mishap \subseteq Mishaps

CallTypes ==
    /\ call \in [Calls -> {"idle", "create", "check", "join", "claim", "held",
                           "resume", "begin", "start", "wait", "reload", "left"}]
    /\ memo \in [Calls -> {"none", "running", "needs_continuation", "committed"} \cup Calls]
    /\ poll \in [Pollers -> {"idle", "await", "load", "reload"}]
    /\ pollOf \in [Pollers -> Calls \cup {NoOne}]

TaskTypes ==
    /\ task \in [Calls -> {"none", "done", "gone"} \cup Working]
    /\ outcome \in [Calls -> {"none", "raised"} \cup Outcomes]
    /\ receipt \in [Calls -> {"none", "turn", "partial", "error", "twice"}]
    /\ record \in Calls \cup {NoOne}
    /\ \A c \in Calls : task[c] \in {"record", "done"} => outcome[c] # "none"
    /\ record # NoOne => task[record] \in Working \cup {"done"}

ReviewTypes ==
    /\ memMeta \in BOOLEAN /\ attach \in {"no", "memory", "stored"}
    /\ carry \in [Calls -> BOOLEAN]

JobTypes == StoredTypes /\ CallTypes /\ TaskTypes /\ ReviewTypes

JobInv ==
    /\ JobTypes /\ CallsOrdered /\ OutcomeKnown /\ ShutdownNoted /\ OneTask
    /\ Attended /\ ReceiptKept /\ SameVerdict /\ MetaOnItsWay
    /\ RunningOwned /\ HistoryKept
-----------------------------------------------------------------------------
(* The steps. *)

\* The first call is none of the resuming ones.
LEMMA Names ==
    /\ First \in Calls /\ NoOne \notin Calls /\ First \notin Resumes
    /\ Resumes \subseteq Calls /\ \A c \in Calls : c # First => c \in Resumes
BY CallNames DEF Calls

\* Only the autonomy row is written; no task, no job row.
LEMMA CreateInv == ASSUME JobInv, Create PROVE JobInv'
<1> USE Names DEF JobInv, JobTypes, Create, CreateAutonomy, Goto, tasks, polls,
      review
<1>1. StoredTypes'
  BY DEF StoredTypes
<1>2. CallTypes'
  BY DEF CallTypes
<1>3. TaskTypes'
  BY DEF TaskTypes
<1>4. ReviewTypes'
  BY DEF ReviewTypes
<1>5. CallsOrdered'
  BY DEF CallsOrdered, Early
<1>6. OutcomeKnown'
  BY DEF OutcomeKnown, Autonomy
<1>7. ShutdownNoted'
  BY DEF ShutdownNoted
<1>8. OneTask'
  BY DEF OneTask, Autonomy
<1>9. Attended'
  BY DEF Attended
<1>10. ReceiptKept'
  BY DEF ReceiptKept
<1>11. SameVerdict'
  BY DEF SameVerdict, Autonomy
<1>12. MetaOnItsWay'
  BY DEF MetaOnItsWay
<1>13. RunningOwned'
  BY DEF RunningOwned
<1>14. HistoryKept'
  BY DEF HistoryKept, Autonomy, CallsOrdered, Early, CallTypes
<1>15. QED
  BY <1>1, <1>2, <1>3, <1>4, <1>5, <1>6, <1>7, <1>8, <1>9, <1>10, <1>11, <1>12, <1>13, <1>14

\* The row runs before its task does: the call itself attends to it.
LEMMA BeginInv == ASSUME JobInv, NEW c \in Calls, Begin(c) PROVE JobInv'
<1> USE Names DEF JobInv, JobTypes, Begin, Goto, tasks, polls, review
<1>1. StoredTypes'
  BY DEF StoredTypes, TerminalRows, Mishaps
<1>2. CallTypes'
  BY DEF CallTypes
<1>3. TaskTypes'
  BY DEF TaskTypes
<1>4. ReviewTypes'
  BY DEF ReviewTypes
<1>5. CallsOrdered'
  BY DEF CallsOrdered, Early
<1>6. OutcomeKnown'
  BY DEF OutcomeKnown, Autonomy
<1>7. ShutdownNoted'
  BY DEF ShutdownNoted
<1>8. OneTask'
  BY DEF OneTask, Autonomy, CallsOrdered, Early
<1>9. Attended'
  BY DEF Attended, CallTypes
<1>10. ReceiptKept'
  BY DEF ReceiptKept
<1>11. SameVerdict'
  <2> SUFFICES ASSUME ~Autonomy, "disturbed" \notin mishap' PROVE SameVerdict'
    BY DEF SameVerdict, Autonomy
  <2>1. c = First /\ call[First] = "idle" /\ task[First] = "none"
    BY DEF OneTask, CallsOrdered, Early
  <2>2. row = "none" /\ told = {}
    BY <2>1 DEF SameVerdict, StoredTypes
  <2>3. row' = "running" /\ call'[First] = "start"
    BY <2>1 DEF CallTypes
  <2>4. QED
    BY <2>1, <2>2, <2>3 DEF SameVerdict, TerminalRows, Outcomes
<1>12. MetaOnItsWay'
  BY DEF MetaOnItsWay, OneTask, Autonomy
<1>13. RunningOwned'
  BY DEF RunningOwned, CallTypes
<1>14. HistoryKept'
  BY DEF HistoryKept, Autonomy
<1>15. QED
  BY <1>1, <1>2, <1>3, <1>4, <1>5, <1>6, <1>7, <1>8, <1>9, <1>10, <1>11, <1>12, <1>13, <1>14

\* The task takes over the row its call has written.
LEMMA StartInv == ASSUME JobInv, NEW c \in Calls, Start(c) PROVE JobInv'
<1> USE Names DEF JobInv, JobTypes, Start, Goto, Step, Alive, stored, polls,
      review
<1>1. StoredTypes'
  BY DEF StoredTypes
<1>2. CallTypes'
  BY DEF CallTypes
<1>3. TaskTypes'
  BY DEF TaskTypes, Working
<1>4. ReviewTypes'
  BY DEF ReviewTypes
<1>5. CallsOrdered'
  BY DEF CallsOrdered, Early, CallTypes
<1>6. OutcomeKnown'
  BY DEF OutcomeKnown, Autonomy
<1>7. ShutdownNoted'
  BY DEF ShutdownNoted
<1>8. OneTask'
  BY DEF OneTask, Autonomy, CallsOrdered, Early
<1>9. Attended'
  BY DEF Attended, Working, TaskTypes
<1>10. ReceiptKept'
  BY DEF ReceiptKept, CallsOrdered, Early
<1>11. SameVerdict'
  BY DEF SameVerdict, Autonomy, CallsOrdered, Early
<1>12. MetaOnItsWay'
  BY DEF MetaOnItsWay
<1>13. RunningOwned'
  BY DEF RunningOwned, TaskTypes, CallTypes, Working
<1>14. HistoryKept'
  BY DEF HistoryKept, Autonomy
<1>15. QED
  BY <1>1, <1>2, <1>3, <1>4, <1>5, <1>6, <1>7, <1>8, <1>9, <1>10, <1>11, <1>12, <1>13, <1>14

\* A cancelled request leaves its running row behind, which is noted.
LEMMA CancelRequestInv == ASSUME JobInv, NEW c \in Calls, CancelRequest(c) PROVE JobInv'
<1> USE Names DEF JobInv, JobTypes, CancelRequest, Goto, Alive, tasks, polls, review
<1>1. StoredTypes'
  BY DEF StoredTypes, Mishaps, CallsOrdered
<1>2. CallTypes'
  BY DEF CallTypes
<1>3. TaskTypes'
  BY DEF TaskTypes
<1>4. ReviewTypes'
  BY DEF ReviewTypes
<1>5. CallsOrdered'
  BY DEF CallsOrdered, Early, CallTypes
<1>6. OutcomeKnown'
  BY DEF OutcomeKnown, Autonomy
<1>7. ShutdownNoted'
  BY DEF ShutdownNoted
<1>8. OneTask'
  BY DEF OneTask, Autonomy, CallTypes
<1>9. Attended'
  BY DEF Attended, CallTypes
<1>10. ReceiptKept'
  BY DEF ReceiptKept
<1>11. SameVerdict'
  BY DEF SameVerdict, Autonomy, OneTask, CallTypes
<1>12. MetaOnItsWay'
  BY DEF MetaOnItsWay, CallTypes
<1>13. RunningOwned'
  BY DEF RunningOwned
<1>14. HistoryKept'
  BY DEF HistoryKept, Autonomy
<1>15. QED
  BY <1>1, <1>2, <1>3, <1>4, <1>5, <1>6, <1>7, <1>8, <1>9, <1>10, <1>11, <1>12, <1>13, <1>14

\* A call that goes away leaves task and row; one that saw the task end drops its record.
LEMMA WaitInv == ASSUME JobInv, NEW c \in Calls, Wait(c) PROVE JobInv'
<1> USE Names DEF JobInv, JobTypes, Wait, Goto, Tell, Pop, Alive, stored, tasks,
      polls, review
<1>1. StoredTypes'
  <2>1. told' \subseteq TerminalRows \cup {"unknown"}
    BY DEF StoredTypes, TerminalRows, Outcomes, Autonomy
  <2>2. QED
    BY <2>1 DEF StoredTypes, Mishaps
<1>2. CallTypes'
  BY DEF CallTypes
<1>3. TaskTypes'
  BY DEF TaskTypes
<1>4. ReviewTypes'
  BY DEF ReviewTypes, Answered
<1>5. CallsOrdered'
  BY DEF CallsOrdered, Early, CallTypes
<1>6. OutcomeKnown'
  BY DEF OutcomeKnown, Autonomy
<1>7. ShutdownNoted'
  BY DEF ShutdownNoted
<1>8. OneTask'
  BY DEF OneTask, Working, Autonomy, CallTypes
<1>9. Attended'
  BY DEF Attended, Working, CallTypes, Outcomes
<1>10. ReceiptKept'
  BY DEF ReceiptKept
<1>11. SameVerdict'
  <2> SUFFICES ASSUME ~Autonomy, "disturbed" \notin mishap PROVE SameVerdict'
    BY DEF SameVerdict, Autonomy
  <2>1. c = First /\ call[First] = "wait" /\ call'[First] # "idle"
    BY DEF OneTask, CallTypes
  <2>2. told' = told \/ (task[First] = "done" /\ told' = told \cup {outcome[First]})
    BY <2>1 DEF Autonomy
  <2>3. row # "none"
    BY <2>1 DEF SameVerdict
  <2>4. QED
    BY <2>1, <2>2, <2>3 DEF SameVerdict, Autonomy
<1>12. MetaOnItsWay'
  BY DEF MetaOnItsWay, CallTypes, OneTask, Autonomy, Answered
<1>13. RunningOwned'
  BY DEF RunningOwned, CallTypes
<1>14. HistoryKept'
  BY DEF HistoryKept, Autonomy, CallTypes
<1>15. QED
  BY <1>1, <1>2, <1>3, <1>4, <1>5, <1>6, <1>7, <1>8, <1>9, <1>10, <1>11, <1>12, <1>13, <1>14

\* What the row says is told, or nothing is.
LEMMA ReloadInv == ASSUME JobInv, NEW c \in Calls, Reload(c) PROVE JobInv'
<1> USE Names DEF JobInv, JobTypes, Reload, Goto, Tell, Alive, stored, tasks,
      polls, review
<1>1. StoredTypes'
  BY DEF StoredTypes
<1>2. CallTypes'
  BY DEF CallTypes
<1>3. TaskTypes'
  BY DEF TaskTypes
<1>4. ReviewTypes'
  BY DEF ReviewTypes, Answered
<1>5. CallsOrdered'
  BY DEF CallsOrdered, Early
<1>6. OutcomeKnown'
  BY DEF OutcomeKnown, Autonomy
<1>7. ShutdownNoted'
  BY DEF ShutdownNoted
<1>8. OneTask'
  BY DEF OneTask, Autonomy
<1>9. Attended'
  BY DEF Attended, ShutdownNoted
<1>10. ReceiptKept'
  BY DEF ReceiptKept
<1>11. SameVerdict'
  BY DEF SameVerdict, Autonomy, TerminalRows, Outcomes, CallTypes, TaskTypes
<1>12. MetaOnItsWay'
  BY DEF MetaOnItsWay, CallTypes, OneTask, Autonomy, Answered
<1>13. RunningOwned'
  BY DEF RunningOwned
<1>14. HistoryKept'
  BY DEF HistoryKept, Autonomy
<1>15. QED
  BY <1>1, <1>2, <1>3, <1>4, <1>5, <1>6, <1>7, <1>8, <1>9, <1>10, <1>11, <1>12, <1>13, <1>14

\* Reading the token changes nothing that is stored.
LEMMA LoadTokenInv == ASSUME JobInv, NEW c \in Calls, LoadToken(c) PROVE JobInv'
<1> USE Names DEF JobInv, JobTypes, LoadToken, Goto, stored, tasks, polls,
      review
<1>1. StoredTypes'
  BY DEF StoredTypes
<1>2. CallTypes'
  BY DEF CallTypes, StoredTypes
<1>3. TaskTypes'
  BY DEF TaskTypes
<1>4. ReviewTypes'
  BY DEF ReviewTypes
<1>5. CallsOrdered'
  BY DEF CallsOrdered, Early
<1>6. OutcomeKnown'
  BY DEF OutcomeKnown, Autonomy
<1>7. ShutdownNoted'
  BY DEF ShutdownNoted
<1>8. OneTask'
  BY DEF OneTask, Autonomy
<1>9. Attended'
  BY DEF Attended
<1>10. ReceiptKept'
  BY DEF ReceiptKept
<1>11. SameVerdict'
  BY DEF SameVerdict, Autonomy
<1>12. MetaOnItsWay'
  BY DEF MetaOnItsWay
<1>13. RunningOwned'
  BY DEF RunningOwned
<1>14. HistoryKept'
  BY DEF HistoryKept, Autonomy
<1>15. QED
  BY <1>1, <1>2, <1>3, <1>4, <1>5, <1>6, <1>7, <1>8, <1>9, <1>10, <1>11, <1>12, <1>13, <1>14

\* A joining call remembers a call whose task is registered.
LEMMA CheckInflightInv == ASSUME JobInv, NEW c \in Calls, CheckInflight(c) PROVE JobInv'
<1> USE Names DEF JobInv, JobTypes, CheckInflight, Goto, Alive, stored, tasks,
      polls, review
<1>1. StoredTypes'
  BY DEF StoredTypes
<1>2. CallTypes'
  BY DEF CallTypes, TaskTypes
<1>3. TaskTypes'
  BY DEF TaskTypes
<1>4. ReviewTypes'
  BY DEF ReviewTypes
<1>5. CallsOrdered'
  BY DEF CallsOrdered, Early, CallTypes, TaskTypes
<1>6. OutcomeKnown'
  BY DEF OutcomeKnown, Autonomy
<1>7. ShutdownNoted'
  BY DEF ShutdownNoted
<1>8. OneTask'
  BY DEF OneTask, Autonomy, CallTypes
<1>9. Attended'
  BY DEF Attended, CallTypes
<1>10. ReceiptKept'
  BY DEF ReceiptKept
<1>11. SameVerdict'
  BY DEF SameVerdict, Autonomy, CallTypes
<1>12. MetaOnItsWay'
  BY DEF MetaOnItsWay, CallTypes
<1>13. RunningOwned'
  BY DEF RunningOwned, CallTypes
<1>14. HistoryKept'
  BY DEF HistoryKept, Autonomy, CallTypes, CallsOrdered
<1>15. QED
  BY <1>1, <1>2, <1>3, <1>4, <1>5, <1>6, <1>7, <1>8, <1>9, <1>10, <1>11, <1>12, <1>13, <1>14

\* A joined task that is done is told and dropped; one at work keeps its record.
LEMMA JoinInv == ASSUME JobInv, NEW c \in Calls, Join(c) PROVE JobInv'
<1> USE Names DEF JobInv, JobTypes, Join, Goto, Tell, Pop, Alive, stored, tasks,
      polls, review
<1>1. StoredTypes'
  BY DEF StoredTypes, TerminalRows, Mishaps
<1>2. CallTypes'
  BY DEF CallTypes
<1>3. TaskTypes'
  BY DEF TaskTypes
<1>4. ReviewTypes'
  BY DEF ReviewTypes
<1>5. CallsOrdered'
  BY DEF CallsOrdered, Early, CallTypes
<1>6. OutcomeKnown'
  BY DEF OutcomeKnown, Autonomy
<1>7. ShutdownNoted'
  BY DEF ShutdownNoted
<1>8. OneTask'
  BY DEF OneTask, Autonomy, CallsOrdered
<1>9. Attended'
  BY DEF Attended, Working, Outcomes
<1>10. ReceiptKept'
  BY DEF ReceiptKept
<1>11. SameVerdict'
  BY DEF SameVerdict, Autonomy, CallsOrdered, OneTask
<1>12. MetaOnItsWay'
  BY DEF MetaOnItsWay
<1>13. RunningOwned'
  BY DEF RunningOwned
<1>14. HistoryKept'
  BY DEF HistoryKept, Autonomy, CallTypes, CallsOrdered
<1>15. QED
  BY <1>1, <1>2, <1>3, <1>4, <1>5, <1>6, <1>7, <1>8, <1>9, <1>10, <1>11, <1>12, <1>13, <1>14

\* Claiming touches the mission only.
LEMMA ClaimInv == ASSUME JobInv, NEW c \in Calls, Claim(c) PROVE JobInv'
<1> USE Names DEF JobInv, JobTypes, Claim, ClaimAutonomy, ClaimBlocked, Goto,
      Alive, tasks, polls, review
<1>1. StoredTypes'
  BY DEF StoredTypes, CallsOrdered
<1>2. CallTypes'
  BY DEF CallTypes
<1>3. TaskTypes'
  BY DEF TaskTypes
<1>4. ReviewTypes'
  BY DEF ReviewTypes
<1>5. CallsOrdered'
  BY DEF CallsOrdered, Early, CallTypes
<1>6. OutcomeKnown'
  BY DEF OutcomeKnown, Autonomy
<1>7. ShutdownNoted'
  BY DEF ShutdownNoted
<1>8. OneTask'
  BY DEF OneTask, Autonomy, CallTypes
<1>9. Attended'
  BY DEF Attended, CallTypes
<1>10. ReceiptKept'
  BY DEF ReceiptKept
<1>11. SameVerdict'
  BY DEF SameVerdict, Autonomy, CallsOrdered, OneTask
<1>12. MetaOnItsWay'
  BY DEF MetaOnItsWay, CallTypes
<1>13. RunningOwned'
  BY DEF RunningOwned, CallTypes
<1>14. HistoryKept'
  BY DEF HistoryKept, Autonomy, CallTypes, CallsOrdered
<1>15. QED
  BY <1>1, <1>2, <1>3, <1>4, <1>5, <1>6, <1>7, <1>8, <1>9, <1>10, <1>11, <1>12, <1>13, <1>14

\* The claim is given back; a committed mission is answered from its row.
LEMMA PreflightInv == ASSUME JobInv, NEW c \in Calls, Preflight(c) PROVE JobInv'
<1> USE Names DEF JobInv, JobTypes, Preflight, ReleaseClaim, Goto, Tell, Alive,
      tasks, polls, review
<1>1. StoredTypes'
  BY DEF StoredTypes
<1>2. CallTypes'
  BY DEF CallTypes
<1>3. TaskTypes'
  BY DEF TaskTypes
<1>4. ReviewTypes'
  BY DEF ReviewTypes
<1>5. CallsOrdered'
  BY DEF CallsOrdered, Early, CallTypes
<1>6. OutcomeKnown'
  BY DEF OutcomeKnown, Autonomy
<1>7. ShutdownNoted'
  BY DEF ShutdownNoted
<1>8. OneTask'
  BY DEF OneTask, Autonomy, CallTypes
<1>9. Attended'
  BY DEF Attended, CallTypes, ShutdownNoted
<1>10. ReceiptKept'
  BY DEF ReceiptKept
<1>11. SameVerdict'
  BY DEF SameVerdict, Autonomy, CallsOrdered, OneTask
<1>12. MetaOnItsWay'
  BY DEF MetaOnItsWay, CallTypes
<1>13. RunningOwned'
  BY DEF RunningOwned, CallTypes
<1>14. HistoryKept'
  BY DEF HistoryKept, Autonomy, CallTypes, CallsOrdered
<1>15. QED
  BY <1>1, <1>2, <1>3, <1>4, <1>5, <1>6, <1>7, <1>8, <1>9, <1>10, <1>11, <1>12, <1>13, <1>14

\* An invalid request ends before it has started anything.
LEMMA InvalidRequestInv == ASSUME JobInv, NEW c \in Calls, InvalidRequest(c) PROVE JobInv'
<1> USE Names DEF JobInv, JobTypes, InvalidRequest, Goto, Alive, stored, tasks,
      polls, review
<1>1. StoredTypes'
  BY DEF StoredTypes
<1>2. CallTypes'
  BY DEF CallTypes
<1>3. TaskTypes'
  BY DEF TaskTypes
<1>4. ReviewTypes'
  BY DEF ReviewTypes
<1>5. CallsOrdered'
  BY DEF CallsOrdered, Early
<1>6. OutcomeKnown'
  BY DEF OutcomeKnown, Autonomy
<1>7. ShutdownNoted'
  BY DEF ShutdownNoted
<1>8. OneTask'
  BY DEF OneTask, Autonomy
<1>9. Attended'
  BY DEF Attended
<1>10. ReceiptKept'
  BY DEF ReceiptKept
<1>11. SameVerdict'
  BY DEF SameVerdict, Autonomy, CallsOrdered
<1>12. MetaOnItsWay'
  BY DEF MetaOnItsWay
<1>13. RunningOwned'
  BY DEF RunningOwned
<1>14. HistoryKept'
  BY DEF HistoryKept, Autonomy, CallTypes, CallsOrdered
<1>15. QED
  BY <1>1, <1>2, <1>3, <1>4, <1>5, <1>6, <1>7, <1>8, <1>9, <1>10, <1>11, <1>12, <1>13, <1>14

\* The mission runs again; the call has not started a task yet.
LEMMA ResumeInv == ASSUME JobInv, NEW c \in Calls, Resume(c) PROVE JobInv'
<1> USE Names DEF JobInv, JobTypes, Resume, SetAutonomy, Goto, Alive, tasks,
      polls, review
<1>1. StoredTypes'
  BY DEF StoredTypes
<1>2. CallTypes'
  BY DEF CallTypes
<1>3. TaskTypes'
  BY DEF TaskTypes
<1>4. ReviewTypes'
  BY DEF ReviewTypes
<1>5. CallsOrdered'
  BY DEF CallsOrdered, Early
<1>6. OutcomeKnown'
  BY DEF OutcomeKnown, Autonomy
<1>7. ShutdownNoted'
  BY DEF ShutdownNoted
<1>8. OneTask'
  BY DEF OneTask, Autonomy, CallsOrdered
<1>9. Attended'
  BY DEF Attended
<1>10. ReceiptKept'
  BY DEF ReceiptKept
<1>11. SameVerdict'
  BY DEF SameVerdict, Autonomy
<1>12. MetaOnItsWay'
  BY DEF MetaOnItsWay
<1>13. RunningOwned'
  BY DEF RunningOwned
<1>14. HistoryKept'
  BY DEF HistoryKept, Autonomy
<1>15. QED
  BY <1>1, <1>2, <1>3, <1>4, <1>5, <1>6, <1>7, <1>8, <1>9, <1>10, <1>11, <1>12, <1>13, <1>14

\* The outcome of produce() is known from here on.
LEMMA ProduceInv == ASSUME JobInv, NEW c \in Calls, Produce(c) PROVE JobInv'
<1> USE Names DEF JobInv, JobTypes, Produce, Step, TaskStep, Alive, stored,
      calls, polls, review
<1>1. StoredTypes'
  BY DEF StoredTypes
<1>2. CallTypes'
  BY DEF CallTypes
<1>3. TaskTypes'
  BY DEF TaskTypes, Outcomes, Working
<1>4. ReviewTypes'
  BY DEF ReviewTypes
<1>5. CallsOrdered'
  BY DEF CallsOrdered
<1>6. OutcomeKnown'
  BY DEF OutcomeKnown, Autonomy, Outcomes, TaskTypes
<1>7. ShutdownNoted'
  BY DEF ShutdownNoted
<1>8. OneTask'
  BY DEF OneTask, Autonomy
<1>9. Attended'
  BY DEF Attended, Working
<1>10. ReceiptKept'
  BY DEF ReceiptKept
<1>11. SameVerdict'
  BY DEF SameVerdict, Autonomy
<1>12. MetaOnItsWay'
  BY DEF MetaOnItsWay
<1>13. RunningOwned'
  BY DEF RunningOwned, TaskTypes, Working
<1>14. HistoryKept'
  BY DEF HistoryKept, Autonomy
<1>15. QED
  BY <1>1, <1>2, <1>3, <1>4, <1>5, <1>6, <1>7, <1>8, <1>9, <1>10, <1>11, <1>12, <1>13, <1>14

\* The turn's telemetry row is saved together with its outcome.
LEMMA TurnInv == ASSUME JobInv, NEW c \in Calls, Turn(c) PROVE JobInv'
<1> USE Names DEF JobInv, JobTypes, Turn, Step, SaveReceipt, TaskStep, Alive,
      stored, calls, polls, review
<1>1. StoredTypes'
  BY DEF StoredTypes, TerminalRows, Mishaps
<1>2. CallTypes'
  BY DEF CallTypes
<1>3. TaskTypes'
  BY DEF TaskTypes, Outcomes, Working
<1>4. ReviewTypes'
  BY DEF ReviewTypes
<1>5. CallsOrdered'
  BY DEF CallsOrdered, TaskTypes
<1>6. OutcomeKnown'
  BY DEF OutcomeKnown, Autonomy, TaskTypes
<1>7. ShutdownNoted'
  BY DEF ShutdownNoted
<1>8. OneTask'
  BY DEF OneTask, Autonomy, TaskTypes
<1>9. Attended'
  BY DEF Attended, Working, TaskTypes
<1>10. ReceiptKept'
  BY DEF ReceiptKept, TaskTypes
<1>11. SameVerdict'
  BY DEF SameVerdict, Autonomy, TaskTypes
<1>12. MetaOnItsWay'
  BY DEF MetaOnItsWay, TaskTypes
<1>13. RunningOwned'
  BY DEF RunningOwned, TaskTypes, Working
<1>14. HistoryKept'
  BY DEF HistoryKept, Autonomy, TaskTypes
<1>15. QED
  BY <1>1, <1>2, <1>3, <1>4, <1>5, <1>6, <1>7, <1>8, <1>9, <1>10, <1>11, <1>12, <1>13, <1>14

\* Pending metadata moves into the payload, so the save carries it; a row that
\* cannot be read leaves it where it is.
LEMMA FinalizeInv == ASSUME JobInv, NEW c \in Calls, Finalize(c) PROVE JobInv'
<1> USE Names DEF JobInv, JobTypes, Finalize, Step, TaskStep, Alive, stored,
      calls, polls
<1>1. StoredTypes'
  BY DEF StoredTypes, Mishaps
<1>2. CallTypes'
  BY DEF CallTypes
<1>3. TaskTypes'
  BY DEF TaskTypes, Working, OutcomeKnown
<1>4. ReviewTypes'
  BY DEF ReviewTypes
<1>5. CallsOrdered'
  BY DEF CallsOrdered, TaskTypes
<1>6. OutcomeKnown'
  BY DEF OutcomeKnown, Outcomes, Autonomy, TaskTypes
<1>7. ShutdownNoted'
  BY DEF ShutdownNoted
<1>8. OneTask'
  BY DEF OneTask, Autonomy, TaskTypes, Working
<1>9. Attended'
  BY DEF Attended, Working, TaskTypes
<1>10. ReceiptKept'
  BY DEF ReceiptKept, TaskTypes, OutcomeKnown
<1>11. SameVerdict'
  BY DEF SameVerdict, Autonomy, TaskTypes
<1>12. MetaOnItsWay'
  <2>1. attach # "no" => kind = "review" /\ call[First] = "left"
    BY DEF MetaOnItsWay
  <2>2. ASSUME attach = "stored", mishap' = {}
        PROVE  /\ row \notin TerminalRows
               /\ task'[First] \in {"work", "final", "fail", "last"} => rowMeta = "pending"
               /\ task'[First] = "record" => carry'[First]
    <3>1. c = First /\ mishap = {}
      BY <2>1, <2>2 DEF OneTask, Autonomy
    <3>2. rowMeta = "pending" /\ row \notin TerminalRows
      BY <2>1, <2>2, <3>1 DEF MetaOnItsWay, SameVerdict, Autonomy
    <3>3. task'[First] = "record" => carry'[First] = (memMeta \/ rowMeta = "pending")
      BY <3>1 DEF ReviewTypes, TaskTypes
    <3>4. QED
      BY <3>2, <3>3
  <2>3. attach' = attach /\ row' = row /\ rowMeta' = rowMeta /\ kind' = kind /\ call' = call
    OBVIOUS
  <2>4. QED
    BY <2>1, <2>2, <2>3 DEF MetaOnItsWay
<1>13. RunningOwned'
  BY DEF RunningOwned, TaskTypes, Working
<1>14. HistoryKept'
  BY DEF HistoryKept, Autonomy, TaskTypes, OutcomeKnown
<1>15. QED
  BY <1>1, <1>2, <1>3, <1>4, <1>5, <1>6, <1>7, <1>8, <1>9, <1>10, <1>11, <1>12, <1>13, <1>14

\* A soft seal leaves the receipt of the turn as it is.
LEMMA SealSoftlyInv == ASSUME JobInv, NEW c \in Calls, SealSoftly(c) PROVE JobInv'
<1> USE Names DEF JobInv, JobTypes, SealSoftly, SetAutonomy, Step, TaskStep,
      Alive, calls, polls, review
<1>1. StoredTypes'
  BY DEF StoredTypes
<1>2. CallTypes'
  BY DEF CallTypes
<1>3. TaskTypes'
  BY DEF TaskTypes, Outcomes, Working
<1>4. ReviewTypes'
  BY DEF ReviewTypes
<1>5. CallsOrdered'
  BY DEF CallsOrdered
<1>6. OutcomeKnown'
  BY DEF OutcomeKnown, Autonomy, TaskTypes
<1>7. ShutdownNoted'
  BY DEF ShutdownNoted
<1>8. OneTask'
  BY DEF OneTask, Autonomy
<1>9. Attended'
  BY DEF Attended, Working
<1>10. ReceiptKept'
  BY DEF ReceiptKept
<1>11. SameVerdict'
  BY DEF SameVerdict, Autonomy
<1>12. MetaOnItsWay'
  BY DEF MetaOnItsWay
<1>13. RunningOwned'
  BY DEF RunningOwned, TaskTypes, Working
<1>14. HistoryKept'
  BY DEF HistoryKept, Autonomy, TaskTypes, OutcomeKnown
<1>15. QED
  BY <1>1, <1>2, <1>3, <1>4, <1>5, <1>6, <1>7, <1>8, <1>9, <1>10, <1>11, <1>12, <1>13, <1>14

\* The checker's verdict decides between session turn and error branch.
LEMMA SealInv == ASSUME JobInv, NEW c \in Calls, Seal(c) PROVE JobInv'
<1> USE Names DEF JobInv, JobTypes, Seal, SetAutonomy, Step, TaskStep, Alive,
      calls, polls, review
<1>1. StoredTypes'
  BY DEF StoredTypes
<1>2. CallTypes'
  BY DEF CallTypes
<1>3. TaskTypes'
  BY DEF TaskTypes, Outcomes, Working
<1>4. ReviewTypes'
  BY DEF ReviewTypes
<1>5. CallsOrdered'
  BY DEF CallsOrdered, TaskTypes
<1>6. OutcomeKnown'
  BY DEF OutcomeKnown, Autonomy, TaskTypes
<1>7. ShutdownNoted'
  BY DEF ShutdownNoted
<1>8. OneTask'
  BY DEF OneTask, Autonomy
<1>9. Attended'
  BY DEF Attended, Working, TaskTypes
<1>10. ReceiptKept'
  BY DEF ReceiptKept, TaskTypes
<1>11. SameVerdict'
  BY DEF SameVerdict, Autonomy, TaskTypes
<1>12. MetaOnItsWay'
  BY DEF MetaOnItsWay, OneTask, Autonomy
<1>13. RunningOwned'
  BY DEF RunningOwned, TaskTypes, Working
<1>14. HistoryKept'
  BY DEF HistoryKept, Autonomy, TaskTypes, OutcomeKnown
<1>15. QED
  BY <1>1, <1>2, <1>3, <1>4, <1>5, <1>6, <1>7, <1>8, <1>9, <1>10, <1>11, <1>12, <1>13, <1>14

\* The commit key keeps the number of turns at one.
LEMMA PersistSessionInv == ASSUME JobInv, NEW c \in Calls, PersistSession(c) PROVE JobInv'
<1> USE Names DEF JobInv, JobTypes, PersistSession, Step, TaskStep, Alive,
      AppendTurnOnce, calls, polls, review
<1>1. StoredTypes'
  BY DEF StoredTypes
<1>2. CallTypes'
  BY DEF CallTypes
<1>3. TaskTypes'
  BY DEF TaskTypes, Working
<1>4. ReviewTypes'
  BY DEF ReviewTypes
<1>5. CallsOrdered'
  BY DEF CallsOrdered, TaskTypes
<1>6. OutcomeKnown'
  BY DEF OutcomeKnown, Autonomy, TaskTypes
<1>7. ShutdownNoted'
  BY DEF ShutdownNoted
<1>8. OneTask'
  BY DEF OneTask, Autonomy
<1>9. Attended'
  BY DEF Attended, Working, TaskTypes
<1>10. ReceiptKept'
  BY DEF ReceiptKept, TaskTypes
<1>11. SameVerdict'
  BY DEF SameVerdict, Autonomy, TaskTypes
<1>12. MetaOnItsWay'
  BY DEF MetaOnItsWay, OneTask, Autonomy
<1>13. RunningOwned'
  BY DEF RunningOwned, TaskTypes, Working
<1>14. HistoryKept'
  <2>1. turns' = 1 \/ (turns' = turns /\ task'[c] = "fail" /\ \A d \in Calls : d # c => task'[d] = task[d])
    BY DEF StoredTypes, TaskTypes
  <2>2. QED
    BY <2>1 DEF HistoryKept, Autonomy
<1>15. QED
  BY <1>1, <1>2, <1>3, <1>4, <1>5, <1>6, <1>7, <1>8, <1>9, <1>10, <1>11, <1>12, <1>13, <1>14

\* The mission's status and claim, not the job's.
LEMMA SettleInv == ASSUME JobInv, NEW c \in Calls, Settle(c) PROVE JobInv'
<1> USE Names DEF JobInv, JobTypes, Settle, SetAutonomy, Step, TaskStep, Alive,
      calls, polls, review
<1>1. StoredTypes'
  BY DEF StoredTypes
<1>2. CallTypes'
  BY DEF CallTypes
<1>3. TaskTypes'
  BY DEF TaskTypes, Working, OutcomeKnown
<1>4. ReviewTypes'
  BY DEF ReviewTypes
<1>5. CallsOrdered'
  BY DEF CallsOrdered
<1>6. OutcomeKnown'
  BY DEF OutcomeKnown, Autonomy, Outcomes
<1>7. ShutdownNoted'
  BY DEF ShutdownNoted
<1>8. OneTask'
  BY DEF OneTask, Autonomy
<1>9. Attended'
  BY DEF Attended, Working
<1>10. ReceiptKept'
  BY DEF ReceiptKept, OutcomeKnown
<1>11. SameVerdict'
  BY DEF SameVerdict, Autonomy
<1>12. MetaOnItsWay'
  BY DEF MetaOnItsWay, OneTask, Autonomy
<1>13. RunningOwned'
  BY DEF RunningOwned, TaskTypes, Working
<1>14. HistoryKept'
  BY DEF HistoryKept, Autonomy
<1>15. QED
  BY <1>1, <1>2, <1>3, <1>4, <1>5, <1>6, <1>7, <1>8, <1>9, <1>10, <1>11, <1>12, <1>13, <1>14

\* The error branch corrects the telemetry row that said success.
LEMMA FailInv == ASSUME JobInv, NEW c \in Calls, Fail(c) PROVE JobInv'
<1> USE Names DEF JobInv, JobTypes, Fail, SetAutonomy, Step, TaskStep, Alive,
      FailReceipt, SaveReceipt, calls, polls, review
<1>1. StoredTypes'
  <2>1. mishap' \subseteq Mishaps
    BY DEF StoredTypes, Mishaps
  <2>2. QED
    BY <2>1 DEF StoredTypes
<1>2. CallTypes'
  BY DEF CallTypes
<1>3. TaskTypes'
  BY DEF TaskTypes, Outcomes, Working
<1>4. ReviewTypes'
  BY DEF ReviewTypes
<1>5. CallsOrdered'
  BY DEF CallsOrdered, TaskTypes
<1>6. OutcomeKnown'
  BY DEF OutcomeKnown, Autonomy, Outcomes, TaskTypes
<1>7. ShutdownNoted'
  BY DEF ShutdownNoted
<1>8. OneTask'
  BY DEF OneTask, Autonomy, TaskTypes
<1>9. Attended'
  BY DEF Attended, Working, TaskTypes
<1>10. ReceiptKept'
  BY DEF ReceiptKept, TaskTypes
<1>11. SameVerdict'
  BY DEF SameVerdict, Autonomy, TaskTypes
<1>12. MetaOnItsWay'
  BY DEF MetaOnItsWay, TaskTypes, Autonomy
<1>13. RunningOwned'
  BY DEF RunningOwned, TaskTypes, Working
<1>14. HistoryKept'
  BY DEF HistoryKept, Autonomy
<1>15. QED
  BY <1>1, <1>2, <1>3, <1>4, <1>5, <1>6, <1>7, <1>8, <1>9, <1>10, <1>11, <1>12, <1>13, <1>14

\* The row says what the task did, with the metadata it carries.
LEMMA RecordInv == ASSUME JobInv, NEW c \in Calls, Record(c) PROVE JobInv'
<1> USE Names DEF JobInv, JobTypes, Record, Save, Step, TaskStep, Alive,
      RowMetaOf, MergeFirst, calls, polls, review
<1>1. StoredTypes'
  <2>1. outcome[c] \in TerminalRows
    BY DEF OutcomeKnown, TerminalRows
  <2>2. mishap' \subseteq Mishaps
    BY DEF StoredTypes, Mishaps
  <2>3. QED
    BY <2>1, <2>2 DEF StoredTypes
<1>2. CallTypes'
  BY DEF CallTypes
<1>3. TaskTypes'
  BY DEF TaskTypes
<1>4. ReviewTypes'
  BY DEF ReviewTypes
<1>5. CallsOrdered'
  BY DEF CallsOrdered
<1>6. OutcomeKnown'
  BY DEF OutcomeKnown, Autonomy
<1>7. ShutdownNoted'
  BY DEF ShutdownNoted, OutcomeKnown, Outcomes
<1>8. OneTask'
  BY DEF OneTask, Autonomy
<1>9. Attended'
  BY DEF Attended, OutcomeKnown, Outcomes
<1>10. ReceiptKept'
  BY DEF ReceiptKept, TaskTypes
<1>11. SameVerdict'
  BY DEF SameVerdict, Autonomy, TerminalRows, StoredTypes, TaskTypes, OneTask,
     CallsOrdered, Early
<1>12. MetaOnItsWay'
  BY DEF MetaOnItsWay, OneTask, Autonomy
<1>13. RunningOwned'
  BY DEF RunningOwned, TaskTypes, OutcomeKnown, Outcomes
<1>14. HistoryKept'
  BY DEF HistoryKept, Autonomy, TaskTypes, OutcomeKnown, CallsOrdered, Early
<1>15. QED
  BY <1>1, <1>2, <1>3, <1>4, <1>5, <1>6, <1>7, <1>8, <1>9, <1>10, <1>11, <1>12, <1>13, <1>14

\* Metadata in memory reaches the row while its task works, or right after its save.
LEMMA AttachReviewInv == ASSUME JobInv, AttachReview PROVE JobInv'
<1> USE Names DEF JobInv, JobTypes, AttachReview, MergeFirst, MergedMeta, Alive,
      stored, tasks, calls, polls
<1>1. StoredTypes'
  BY DEF StoredTypes, Mishaps
<1>2. CallTypes'
  BY DEF CallTypes
<1>3. TaskTypes'
  BY DEF TaskTypes
<1>4. ReviewTypes'
  BY DEF ReviewTypes
<1>5. CallsOrdered'
  BY DEF CallsOrdered
<1>6. OutcomeKnown'
  BY DEF OutcomeKnown, Autonomy
<1>7. ShutdownNoted'
  BY DEF ShutdownNoted
<1>8. OneTask'
  BY DEF OneTask, Autonomy
<1>9. Attended'
  BY DEF Attended
<1>10. ReceiptKept'
  BY DEF ReceiptKept
<1>11. SameVerdict'
  BY DEF SameVerdict, Autonomy
<1>12. MetaOnItsWay'
  BY DEF MetaOnItsWay, Autonomy, SameVerdict
<1>13. RunningOwned'
  BY DEF RunningOwned
<1>14. HistoryKept'
  BY DEF HistoryKept, Autonomy
<1>15. QED
  BY <1>1, <1>2, <1>3, <1>4, <1>5, <1>6, <1>7, <1>8, <1>9, <1>10, <1>11, <1>12, <1>13, <1>14

\* A poll looks the record up, or turns to the row.
LEMMA PollBeginInv == ASSUME JobInv, NEW p \in Pollers, PollBegin(p) PROVE JobInv'
<1> USE Names DEF JobInv, JobTypes, PollBegin, Alive, stored, tasks, calls,
      review
<1>1. StoredTypes'
  BY DEF StoredTypes, Mishaps
<1>2. CallTypes'
  BY DEF CallTypes, TaskTypes
<1>3. TaskTypes'
  BY DEF TaskTypes
<1>4. ReviewTypes'
  BY DEF ReviewTypes
<1>5. CallsOrdered'
  BY DEF CallsOrdered, CallTypes, TaskTypes
<1>6. OutcomeKnown'
  BY DEF OutcomeKnown, Autonomy
<1>7. ShutdownNoted'
  BY DEF ShutdownNoted
<1>8. OneTask'
  BY DEF OneTask, Autonomy, TaskTypes, CallsOrdered, Early
<1>9. Attended'
  BY DEF Attended
<1>10. ReceiptKept'
  BY DEF ReceiptKept
<1>11. SameVerdict'
  BY DEF SameVerdict, Autonomy
<1>12. MetaOnItsWay'
  BY DEF MetaOnItsWay
<1>13. RunningOwned'
  BY DEF RunningOwned
<1>14. HistoryKept'
  BY DEF HistoryKept, Autonomy
<1>15. QED
  BY <1>1, <1>2, <1>3, <1>4, <1>5, <1>6, <1>7, <1>8, <1>9, <1>10, <1>11, <1>12, <1>13, <1>14

\* The outcome of a done task is told, which is the row's; the record goes.
LEMMA PollAwaitInv == ASSUME JobInv, NEW p \in Pollers, PollAwait(p) PROVE JobInv'
<1> USE Names DEF JobInv, JobTypes, PollAwait, Tell, Pop, Alive, stored, tasks,
      calls
<1>1. StoredTypes'
  <2>1. told' \subseteq TerminalRows \cup {"unknown"}
    BY DEF StoredTypes, TerminalRows, Outcomes, Autonomy
  <2>2. mishap' \subseteq Mishaps
    BY DEF StoredTypes, Mishaps
  <2>3. QED
    BY <2>1, <2>2 DEF StoredTypes
<1>2. CallTypes'
  BY DEF CallTypes
<1>3. TaskTypes'
  BY DEF TaskTypes
<1>4. ReviewTypes'
  BY DEF ReviewTypes
<1>5. CallsOrdered'
  BY DEF CallsOrdered, CallTypes
<1>6. OutcomeKnown'
  BY DEF OutcomeKnown, Autonomy
<1>7. ShutdownNoted'
  BY DEF ShutdownNoted
<1>8. OneTask'
  BY DEF OneTask, Working, Autonomy, CallTypes, CallsOrdered
<1>9. Attended'
  BY DEF Attended, Working, CallTypes, Outcomes
<1>10. ReceiptKept'
  BY DEF ReceiptKept
<1>11. SameVerdict'
  BY DEF SameVerdict, Autonomy, CallTypes, TaskTypes, CallsOrdered, OneTask
<1>12. MetaOnItsWay'
  BY DEF MetaOnItsWay
<1>13. RunningOwned'
  BY DEF RunningOwned
<1>14. HistoryKept'
  BY DEF HistoryKept, Autonomy
<1>15. QED
  BY <1>1, <1>2, <1>3, <1>4, <1>5, <1>6, <1>7, <1>8, <1>9, <1>10, <1>11, <1>12, <1>13, <1>14

\* What the row says is told; only an unattended running row is called lost.
LEMMA PollLoadInv == ASSUME JobInv, NEW p \in Pollers, PollLoad(p) PROVE JobInv'
<1> USE Names DEF JobInv, JobTypes, PollLoad, Tell, StoredVerdict, Alive,
      stored, tasks, calls
<1>1. StoredTypes'
  BY DEF StoredTypes, TerminalRows
<1>2. CallTypes'
  BY DEF CallTypes
<1>3. TaskTypes'
  BY DEF TaskTypes
<1>4. ReviewTypes'
  BY DEF ReviewTypes
<1>5. CallsOrdered'
  BY DEF CallsOrdered
<1>6. OutcomeKnown'
  BY DEF OutcomeKnown, Autonomy
<1>7. ShutdownNoted'
  BY DEF ShutdownNoted
<1>8. OneTask'
  BY DEF OneTask, Autonomy
<1>9. Attended'
  BY DEF Attended, StoredTypes, ShutdownNoted
<1>10. ReceiptKept'
  BY DEF ReceiptKept
<1>11. SameVerdict'
  BY DEF SameVerdict, Autonomy, TerminalRows, Outcomes, CallsOrdered, Early, OneTask
<1>12. MetaOnItsWay'
  BY DEF MetaOnItsWay
<1>13. RunningOwned'
  BY DEF RunningOwned
<1>14. HistoryKept'
  BY DEF HistoryKept, Autonomy
<1>15. QED
  BY <1>1, <1>2, <1>3, <1>4, <1>5, <1>6, <1>7, <1>8, <1>9, <1>10, <1>11, <1>12, <1>13, <1>14

\* The same after the task has raised.
LEMMA PollReloadInv == ASSUME JobInv, NEW p \in Pollers, PollReload(p) PROVE JobInv'
<1> USE Names DEF JobInv, JobTypes, PollReload, Tell, Alive, stored, tasks,
      calls
<1>1. StoredTypes'
  BY DEF StoredTypes
<1>2. CallTypes'
  BY DEF CallTypes
<1>3. TaskTypes'
  BY DEF TaskTypes
<1>4. ReviewTypes'
  BY DEF ReviewTypes
<1>5. CallsOrdered'
  BY DEF CallsOrdered
<1>6. OutcomeKnown'
  BY DEF OutcomeKnown, Autonomy
<1>7. ShutdownNoted'
  BY DEF ShutdownNoted
<1>8. OneTask'
  BY DEF OneTask, Autonomy
<1>9. Attended'
  BY DEF Attended, ShutdownNoted
<1>10. ReceiptKept'
  BY DEF ReceiptKept
<1>11. SameVerdict'
  BY DEF SameVerdict, Autonomy, TerminalRows, Outcomes, CallTypes, TaskTypes
<1>12. MetaOnItsWay'
  BY DEF MetaOnItsWay
<1>13. RunningOwned'
  BY DEF RunningOwned
<1>14. HistoryKept'
  BY DEF HistoryKept, Autonomy
<1>15. QED
  BY <1>1, <1>2, <1>3, <1>4, <1>5, <1>6, <1>7, <1>8, <1>9, <1>10, <1>11, <1>12, <1>13, <1>14

\* A done record expires; its row is terminal already.
LEMMA CleanupInv == ASSUME JobInv, Cleanup PROVE JobInv'
<1> USE Names DEF JobInv, JobTypes, Cleanup, Alive, stored, tasks, calls, polls,
      review
<1>1. StoredTypes'
  BY DEF StoredTypes
<1>2. CallTypes'
  BY DEF CallTypes
<1>3. TaskTypes'
  BY DEF TaskTypes
<1>4. ReviewTypes'
  BY DEF ReviewTypes
<1>5. CallsOrdered'
  BY DEF CallsOrdered
<1>6. OutcomeKnown'
  BY DEF OutcomeKnown, Autonomy
<1>7. ShutdownNoted'
  BY DEF ShutdownNoted
<1>8. OneTask'
  BY DEF OneTask, Working, Autonomy
<1>9. Attended'
  BY DEF Attended, Working
<1>10. ReceiptKept'
  BY DEF ReceiptKept
<1>11. SameVerdict'
  BY DEF SameVerdict, Autonomy
<1>12. MetaOnItsWay'
  BY DEF MetaOnItsWay
<1>13. RunningOwned'
  BY DEF RunningOwned
<1>14. HistoryKept'
  BY DEF HistoryKept, Autonomy
<1>15. QED
  BY <1>1, <1>2, <1>3, <1>4, <1>5, <1>6, <1>7, <1>8, <1>9, <1>10, <1>11, <1>12, <1>13, <1>14

\* Shutdown is a disturbance from its first step on.
LEMMA ShutdownBeginInv == ASSUME JobInv, ShutdownBegin PROVE JobInv'
<1> USE Names DEF JobInv, JobTypes, ShutdownBegin, stored, tasks, calls, polls,
      review
<1>1. StoredTypes'
  BY DEF StoredTypes, Mishaps
<1>2. CallTypes'
  BY DEF CallTypes
<1>3. TaskTypes'
  BY DEF TaskTypes
<1>4. ReviewTypes'
  BY DEF ReviewTypes
<1>5. CallsOrdered'
  BY DEF CallsOrdered
<1>6. OutcomeKnown'
  BY DEF OutcomeKnown, Autonomy
<1>7. ShutdownNoted'
  BY DEF ShutdownNoted
<1>8. OneTask'
  BY DEF OneTask, Autonomy
<1>9. Attended'
  BY DEF Attended
<1>10. ReceiptKept'
  BY DEF ReceiptKept
<1>11. SameVerdict'
  BY DEF SameVerdict
<1>12. MetaOnItsWay'
  BY DEF MetaOnItsWay
<1>13. RunningOwned'
  BY DEF RunningOwned
<1>14. HistoryKept'
  BY DEF HistoryKept, Autonomy
<1>15. QED
  BY <1>1, <1>2, <1>3, <1>4, <1>5, <1>6, <1>7, <1>8, <1>9, <1>10, <1>11, <1>12, <1>13, <1>14

\* The rows of unfinished tasks are marked lost.
LEMMA ShutdownMarkInv == ASSUME JobInv, ShutdownMark PROVE JobInv'
<1> USE Names DEF JobInv, JobTypes, ShutdownMark, Save, tasks, calls, polls,
      review
<1>1. StoredTypes'
  BY DEF StoredTypes, TerminalRows, Mishaps
<1>2. CallTypes'
  BY DEF CallTypes
<1>3. TaskTypes'
  BY DEF TaskTypes
<1>4. ReviewTypes'
  BY DEF ReviewTypes
<1>5. CallsOrdered'
  BY DEF CallsOrdered
<1>6. OutcomeKnown'
  BY DEF OutcomeKnown, Autonomy
<1>7. ShutdownNoted'
  BY DEF ShutdownNoted
<1>8. OneTask'
  BY DEF OneTask, Autonomy
<1>9. Attended'
  BY DEF Attended
<1>10. ReceiptKept'
  BY DEF ReceiptKept
<1>11. SameVerdict'
  BY DEF SameVerdict, ShutdownNoted
<1>12. MetaOnItsWay'
  BY DEF MetaOnItsWay, ShutdownNoted
<1>13. RunningOwned'
  BY DEF RunningOwned
<1>14. HistoryKept'
  BY DEF HistoryKept, Autonomy
<1>15. QED
  BY <1>1, <1>2, <1>3, <1>4, <1>5, <1>6, <1>7, <1>8, <1>9, <1>10, <1>11, <1>12, <1>13, <1>14

\* Cancelled tasks end or record that they were cancelled.
LEMMA ShutdownCancelInv == ASSUME JobInv, ShutdownCancel PROVE JobInv'
<1> USE Names DEF JobInv, JobTypes, ShutdownCancel, RowMetaOf, calls, polls,
      review
<1>1. StoredTypes'
  BY DEF StoredTypes, TerminalRows, OutcomeKnown
<1>2. CallTypes'
  BY DEF CallTypes
<1>3. TaskTypes'
  BY DEF TaskTypes, Outcomes, Working
<1>4. ReviewTypes'
  BY DEF ReviewTypes
<1>5. CallsOrdered'
  BY DEF CallsOrdered, Working
<1>6. OutcomeKnown'
  BY DEF OutcomeKnown, Autonomy, Outcomes
<1>7. ShutdownNoted'
  BY DEF ShutdownNoted
<1>8. OneTask'
  BY DEF OneTask, Working, Autonomy
<1>9. Attended'
  BY DEF Attended, ShutdownNoted
<1>10. ReceiptKept'
  BY DEF ReceiptKept
<1>11. SameVerdict'
  BY DEF SameVerdict, ShutdownNoted
<1>12. MetaOnItsWay'
  BY DEF MetaOnItsWay, ShutdownNoted
<1>13. RunningOwned'
  BY DEF RunningOwned, ShutdownNoted
<1>14. HistoryKept'
  BY DEF HistoryKept, Autonomy, TaskTypes, CallsOrdered, Early, OutcomeKnown
<1>15. QED
  BY <1>1, <1>2, <1>3, <1>4, <1>5, <1>6, <1>7, <1>8, <1>9, <1>10, <1>11, <1>12, <1>13, <1>14

\* A crash takes memory away, and is noted if a task was at work or about to start.
LEMMA StopInv == ASSUME JobInv, Stop PROVE JobInv'
<1> USE Names DEF JobInv, JobTypes, Stop, Alive, stored
<1>1. StoredTypes'
  BY DEF StoredTypes, Mishaps
<1>2. CallTypes'
  BY DEF CallTypes
<1>3. TaskTypes'
  BY DEF TaskTypes
<1>4. ReviewTypes'
  BY DEF ReviewTypes
<1>5. CallsOrdered'
  BY DEF CallsOrdered, Early
<1>6. OutcomeKnown'
  BY DEF OutcomeKnown, Autonomy
<1>7. ShutdownNoted'
  BY DEF ShutdownNoted
<1>8. OneTask'
  BY DEF OneTask, Working, Autonomy
<1>9. Attended'
  BY DEF Attended, TaskTypes
<1>10. ReceiptKept'
  BY DEF ReceiptKept
<1>11. SameVerdict'
  BY DEF SameVerdict, Autonomy
<1>12. MetaOnItsWay'
  BY DEF MetaOnItsWay
<1>13. RunningOwned'
  BY DEF RunningOwned
<1>14. HistoryKept'
  BY DEF HistoryKept, Autonomy
<1>15. QED
  BY <1>1, <1>2, <1>3, <1>4, <1>5, <1>6, <1>7, <1>8, <1>9, <1>10, <1>11, <1>12, <1>13, <1>14

\* A restarted process finds the rows and an empty registry.
LEMMA RestartInv == ASSUME JobInv, Restart PROVE JobInv'
<1> USE Names DEF JobInv, JobTypes, Restart, stored, tasks, calls, polls, review
<1>1. StoredTypes'
  BY DEF StoredTypes
<1>2. CallTypes'
  BY DEF CallTypes
<1>3. TaskTypes'
  BY DEF TaskTypes
<1>4. ReviewTypes'
  BY DEF ReviewTypes
<1>5. CallsOrdered'
  BY DEF CallsOrdered
<1>6. OutcomeKnown'
  BY DEF OutcomeKnown, Autonomy
<1>7. ShutdownNoted'
  BY DEF ShutdownNoted
<1>8. OneTask'
  BY DEF OneTask, Autonomy
<1>9. Attended'
  BY DEF Attended
<1>10. ReceiptKept'
  BY DEF ReceiptKept
<1>11. SameVerdict'
  BY DEF SameVerdict, Autonomy
<1>12. MetaOnItsWay'
  BY DEF MetaOnItsWay
<1>13. RunningOwned'
  BY DEF RunningOwned
<1>14. HistoryKept'
  BY DEF HistoryKept, Autonomy
<1>15. QED
  BY <1>1, <1>2, <1>3, <1>4, <1>5, <1>6, <1>7, <1>8, <1>9, <1>10, <1>11, <1>12, <1>13, <1>14

-----------------------------------------------------------------------------
(* The theorems. *)

\* Before the first call there is nothing to attend to.
LEMMA JobInit == Init => JobInv
<1> SUFFICES ASSUME Init PROVE JobInv
  OBVIOUS
<1>1. JobTypes
  BY Names DEF Init, JobTypes, StoredTypes, CallTypes, TaskTypes, ReviewTypes, Working
<1>2. CallsOrdered /\ OutcomeKnown /\ ShutdownNoted
  BY Names DEF Init, CallsOrdered, OutcomeKnown, ShutdownNoted
<1>3. OneTask /\ Attended /\ ReceiptKept
  BY Names DEF Init, OneTask, Attended, ReceiptKept, Working
<1>4. SameVerdict /\ MetaOnItsWay /\ RunningOwned /\ HistoryKept
  BY Names DEF Init, SameVerdict, MetaOnItsWay, RunningOwned, HistoryKept, TerminalRows, Outcomes
<1>5. QED
  BY <1>1, <1>2, <1>3, <1>4 DEF JobInv

\* One step per handler.
LEMMA JobNext == JobInv /\ [Next]_vars => JobInv'
<1> SUFFICES ASSUME JobInv, [Next]_vars PROVE JobInv'
  OBVIOUS
<1>1. ASSUME NEW c \in Calls, CallNext(c) PROVE JobInv'
  BY <1>1, BeginInv, StartInv, CancelRequestInv, WaitInv, ReloadInv, LoadTokenInv, CheckInflightInv,
     JoinInv, ClaimInv, PreflightInv, InvalidRequestInv, ResumeInv DEF CallNext
<1>2. ASSUME NEW c \in Calls, TaskNext(c) PROVE JobInv'
  BY <1>2, ProduceInv, TurnInv, FinalizeInv, SealSoftlyInv, SealInv, PersistSessionInv,
     SettleInv, FailInv, RecordInv DEF TaskNext
<1>3. ASSUME NEW p \in Pollers,
             PollBegin(p) \/ PollAwait(p) \/ PollLoad(p) \/ PollReload(p)
      PROVE  JobInv'
  BY <1>3, PollBeginInv, PollAwaitInv, PollLoadInv, PollReloadInv
<1>4. CASE UNCHANGED vars
  <2>1. JobTypes'
    BY <1>4 DEF vars, stored, review, calls, tasks, polls, JobInv, JobTypes, StoredTypes,
       CallTypes, TaskTypes, ReviewTypes
  <2>2. CallsOrdered' /\ OutcomeKnown' /\ ShutdownNoted'
    BY <1>4 DEF vars, stored, review, calls, tasks, polls, JobInv, CallsOrdered,
       OutcomeKnown, ShutdownNoted, Autonomy
  <2>3. OneTask' /\ Attended' /\ ReceiptKept'
    BY <1>4 DEF vars, stored, review, calls, tasks, polls, JobInv, OneTask, Attended,
       ReceiptKept, Autonomy
  <2>4. SameVerdict' /\ MetaOnItsWay'
    BY <1>4 DEF vars, stored, review, calls, tasks, polls, JobInv, SameVerdict,
       MetaOnItsWay, Autonomy
  <2>5. RunningOwned' /\ HistoryKept'
    BY <1>4 DEF vars, stored, review, calls, tasks, polls, JobInv, RunningOwned,
       HistoryKept, Autonomy
  <2>6. QED
    BY <2>1, <2>2, <2>3, <2>4, <2>5 DEF JobInv
<1>5. QED
  BY <1>1, <1>2, <1>3, <1>4, CreateInv, AttachReviewInv, CleanupInv, ShutdownBeginInv,
     ShutdownMarkInv, ShutdownCancelInv, StopInv, RestartInv DEF Next

\* Every handler, the tasks, shutdown and crash keep the inductive invariant.
THEOREM JobInvariant == Spec => []JobInv
BY JobInit, JobNext, PTL DEF Spec

\* The variables keep their types; a task that has settled knows its outcome and
\* only a started one is in _DURABLE_JOBS.
THEOREM JobTypeCorrect == Spec => []TypeOK
<1>1. JobInv => TypeOK
  <2> SUFFICES ASSUME JobInv PROVE TypeOK
    OBVIOUS
  <2>1. turns \in 0..1
    BY DEF JobInv, JobTypes, StoredTypes
  <2>2. claim \in Calls \cup {NoOne} /\ claim # First
    BY Names DEF JobInv, JobTypes, StoredTypes
  <2>3. QED
    BY <2>1, <2>2 DEF JobInv, JobTypes, StoredTypes, CallTypes, TaskTypes, ReviewTypes,
       TypeOK
<1>2. QED
  BY <1>1, JobInvariant, PTL

\* _persist_committed_session_turn comes before the row that callers are given:
\* a complete answer of a job with an autonomy row is in the session's history.
THEOREM CommittedInHistoryHolds == Spec => []CommittedInHistory
<1>1. JobInv => CommittedInHistory
  BY DEF JobInv, HistoryKept, CommittedInHistory
<1>2. QED
  BY <1>1, JobInvariant, PTL

\* The error branch of _complete_turn leaves an error row of every quantum that
\* is saved as failed, and no other quantum has one.
THEOREM ReceiptTruthHolds == Spec => []ReceiptTruth
<1>1. JobInv => ReceiptTruth
  BY DEF JobInv, ReceiptKept, ReceiptTruth
<1>2. QED
  BY <1>1, JobInvariant, PTL

\* agent_result reports "lost" only of a job that was cut off (of one that is not
\* resumed: by a stop of its process, a shutdown or a save that failed), or in
\* one of the two races of a resumed job.
THEOREM NoFalseLostHolds == Spec => []NoFalseLost
<1>1. JobInv => NoFalseLost
  <2> SUFFICES ASSUME JobInv, "lost" \in told
               PROVE  mishap \cap (IF Autonomy THEN Mishaps ELSE {"disturbed", "cut"}) # {}
    BY DEF NoFalseLost
  <2>1. mishap # {} /\ mishap \subseteq Mishaps
    BY DEF JobInv, Attended, JobTypes, StoredTypes
  <2>2. ~Autonomy => "raced" \notin mishap
    BY DEF JobInv, OneTask
  <2>3. QED
    BY <2>1, <2>2 DEF Mishaps
<1>2. QED
  BY <1>1, JobInvariant, PTL

\* The tool call and all polls of a job that is not resumed are told one verdict.
THEOREM OneVerdictHolds == Spec => []OneVerdict
<1>1. JobInv => OneVerdict
  <2> SUFFICES ASSUME JobInv, ~Autonomy, "disturbed" \notin mishap
               PROVE  Cardinality(told) <= 1
    BY DEF OneVerdict
  <2>1. row \in {"none", "running"} \cup TerminalRows
    BY DEF JobInv, JobTypes, StoredTypes
  <2>2. told = {} \/ told = {"lost"} \/ told = {row}
    BY <2>1 DEF JobInv, SameVerdict
  <2>3. Cardinality(told) \in {0, 1}
    BY <2>2, FS_EmptySet, FS_Singleton
  <2>4. QED
    BY <2>3
<1>2. QED
  BY <1>1, JobInvariant, PTL

\* review_pull_request's metadata is in the recorded result, whichever of the
\* attachment and _finalize_job_payload came first.
THEOREM ReviewStoredHolds == Spec => []ReviewStored
<1>1. JobInv => ReviewStored
  BY DEF JobInv, MetaOnItsWay, ReviewStored, TerminalRows, Outcomes
<1>2. QED
  BY <1>1, JobInvariant, PTL
=============================================================================
