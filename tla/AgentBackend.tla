---------------------------- MODULE AgentBackend ----------------------------
(******************************************************************************)
(* run_cursor_agent_cycle: one call of the agent, with its retries.  An       *)
(* attempt launches the SDK's bridge, creates the agent, sends the prompt,    *)
(* reads the messages, waits for the terminal status and closes the two       *)
(* again; one except clause around all of it decides about the next.          *)
(*                                                                            *)
(* External: the SDK.  It may raise CursorAgentError from any of its calls    *)
(* (cursor_client.py:8 names the timeouts that cut wait() off) and says of    *)
(* some of its errors that they are retryable; a run that has begun edits     *)
(* the working tree until it ends or its bridge is closed.                    *)
(******************************************************************************)
EXTENDS Naturals, FiniteSets

CONSTANTS
    Attempts,   \* startup_attempts, at least 1
    None        \* no status, no failure class

VARIABLES
    pc,             \* where the call is
    attempt,        \* the attempt under way, from 1
    running,        \* the agent of this attempt is at work
    status,         \* terminal status wait() returned
    streamError,    \* the message stream broke; kept from attempt to attempt
    edited,         \* attempts whose agent edited the working tree
    sent,           \* attempts whose prompt was sent
    errors,         \* attempts that raised CursorAgentError
    record          \* agent_backend_record.json

vars == <<pc, attempt, running, status, streamError, edited, sent, errors, record>>

Status == {"finished", "cancelled", "error"}

NoRecord == [status |-> None, failureClass |-> None, streamError |-> FALSE]

FailureClass(runStatus) ==
    CASE runStatus = "finished"  -> "none"
      [] runStatus = "cancelled" -> "infra_failure"
      [] OTHER                   -> "invalid_cycle"

Init ==
    /\ pc = "launch"
    /\ attempt = 1
    /\ running = FALSE
    /\ status = None
    /\ streamError = FALSE
    /\ edited = {}
    /\ sent = {}
    /\ errors = {}
    /\ record = NoRecord

-----------------------------------------------------------------------------
(* The SDK says retryable, or the message names a bridge that died before     *)
(* discovery, which only a launch can raise.                                  *)
Retryable(kind) == kind \in {"retryable", "bridge"}

Raises(kind) ==
    /\ errors' = errors \cup {attempt}
    /\ running' = FALSE
    /\ IF attempt < Attempts /\ Retryable(kind)
         THEN /\ attempt' = attempt + 1
              /\ pc' = "launch"
              /\ record' = record
         ELSE /\ record' = [status |-> "startup_error", failureClass |-> "infra_failure",
                            streamError |-> FALSE]
              /\ pc' = "raised"
              /\ attempt' = attempt
    /\ UNCHANGED <<status, streamError, edited, sent>>

Goto(label) ==
    /\ pc' = label
    /\ UNCHANGED <<attempt, errors, record>>

LaunchBridge ==
    /\ pc = "launch"
    /\ \/ Goto("create") /\ UNCHANGED <<running, status, streamError, edited, sent>>
       \/ \E kind \in {"bridge", "retryable", "fatal"} : Raises(kind)

CreateAgent ==
    /\ pc = "create"
    /\ \/ Goto("send") /\ UNCHANGED <<running, status, streamError, edited, sent>>
       \/ \E kind \in {"retryable", "fatal"} : Raises(kind)

Send ==
    /\ pc = "send"
    /\ \/ /\ Goto("messages")
          /\ sent' = sent \cup {attempt}
          /\ running' = TRUE
          /\ UNCHANGED <<status, streamError, edited>>
       \/ \E kind \in {"retryable", "fatal"} : Raises(kind)

Edit ==
    /\ running
    /\ edited' = edited \cup {attempt}
    /\ UNCHANGED <<pc, attempt, running, status, streamError, sent, errors, record>>

(* Whatever breaks the stream is noted and swallowed.                         *)
Messages ==
    /\ pc = "messages"
    /\ Goto("wait")
    /\ streamError' \in {streamError, TRUE}
    /\ UNCHANGED <<running, status, edited, sent>>

Wait ==
    /\ pc = "wait"
    /\ \/ /\ Goto("close")
          /\ status' \in Status
          /\ running' = FALSE
          /\ UNCHANGED <<streamError, edited, sent>>
       \/ \E kind \in {"retryable", "fatal"} : Raises(kind)

(* The break leaves the with statement, whose exits may raise in turn.        *)
Close ==
    /\ pc = "close"
    /\ \/ /\ record' = [status |-> status, failureClass |-> FailureClass(status),
                        streamError |-> streamError]
          /\ pc' = IF FailureClass(status) = "none" THEN "returned" ELSE "raised"
          /\ UNCHANGED <<attempt, running, status, streamError, edited, sent, errors>>
       \/ \E kind \in {"retryable", "fatal"} : Raises(kind)

Next ==
    \/ LaunchBridge \/ CreateAgent \/ Send
    \/ Edit
    \/ Messages \/ Wait \/ Close

Spec == Init /\ [][Next]_vars

-----------------------------------------------------------------------------
(* An SDK error means that the run did not start, as                          *)
(* failure_class_for_cursor_agent_error states (agent_backends.py:56): an     *)
(* attempt that ended with one has edited nothing, so that the prompt is      *)
(* sent again, or the call is reported as an agent that failed to start,      *)
(* on an untouched working tree.                                              *)
ErrorsMeanNotStarted == errors \cap edited = {}

=============================================================================
