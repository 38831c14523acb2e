----------------------------- MODULE ProviderCall -----------------------------
(***************************************************************************)
(* The call of a compute provider that an activity makes to start a worker   *)
(* or to resize a worker set (wci/workflow/compute_provider): building the   *)
(* client, the requests the SDK sends for it, what the call returns, and the *)
(* class of its failure.                                                     *)
(*                                                                         *)
(* "agentcore" is AWS AgentCore, which waits five seconds at most for an     *)
(* answer; "aws" is Lambda and ECS; "gcp" is Cloud Run.  A failure is who    *)
(* owns the configuration that was in use and what went wrong.               *)
(***************************************************************************)
EXTENDS Integers

CONSTANTS
  Callers,     \* the coroutines whose activities call providers
  MaxTries,    \* requests the AWS SDK sends for one call
  NoFailure

VARIABLE call  \* per caller: the call in progress.  lastWritten is history: the try whose
               \* request was last written to the connection

Kinds == {"agentcore", "aws", "gcp"}

\* What an AWS error says of itself: throttles are client faults of the API.
AWSClientFaults == {"throttled", "notFound", "accessDenied", "refused"}

\* What the error model does not tell the classifier: a service that failed with an
\* API error that models no fault (the generic errors, such as those of STS), or
\* with a response that holds no API error, and credentials of worker-controller
\* that cannot be resolved while a role of the customer is assumed.
Unrecognised == {"faultUnknown", "noAPIError", "credentials"}

AWSCauses == AWSClientFaults \cup Unrecognised
               \cup {"server", "transport", "deadline", "canceled", "local"}

\* gRPC codes.  tokenUnavailable and tokenThrottled are Unauthenticated with the
\* status of the token endpoint in the message.
GCPClientFaults == {"notFound", "accessDenied", "refused"}
TokenFaults == {"unauthenticated", "tokenUnavailable", "tokenThrottled"}
GCPCauses == GCPClientFaults \cup TokenFaults
               \cup {"server", "aborted", "throttled", "deadline", "canceled", "local"}

Failures == [owned : BOOLEAN, cause : AWSCauses \cup GCPCauses]

ASSUME CallAssumption == MaxTries \in Nat \ {0} /\ NoFailure \notin Failures

Phases == {"idle", "building", "connecting", "waiting", "pausing", "returned"}

CallType == [kind : Kinds, phase : Phases, tries : 0..MaxTries, requestSent : BOOLEAN,
             lastWritten : 0..MaxTries, failure : Failures \cup {NoFailure}]

CallWith(kind, phase, failure) ==
  [kind |-> kind, phase |-> phase, tries |-> 0, requestSent |-> FALSE, lastWritten |-> 0,
   failure |-> failure]

NewCall(kind) == CallWith(kind, "building", NoFailure)
NoCall        == CallWith("aws", "idle", NoFailure)

-----------------------------------------------------------------------------
(* Classes of failures *)

OwnerFault(f) == IF f.owned THEN "internal" ELSE "rejected"

\* A client fault of the customer's configuration, narrowed by its code.
classifyAWSRejection(f) ==
  CASE f.cause = "notFound"     -> "notFound"
    [] f.cause = "accessDenied" -> "accessDenied"
    [] OTHER                    -> "rejected"

ClientFaultClass(f) == IF f.owned THEN "internal" ELSE classifyAWSRejection(f)

\* Without the check of throttles ahead of the split by fault.
FaultSplitFirst(f) ==
  CASE f.cause = "canceled"                   -> "unclassified"
    [] f.cause \in AWSClientFaults \cup {"faultUnknown"} -> ClientFaultClass(f)
    [] f.cause \in {"server", "transport", "deadline"} -> "unavailable"
    [] OTHER                                  -> OwnerFault(f)

classifyAWSFailure(f) ==
  IF f.cause = "canceled" THEN "unclassified"
  ELSE IF f.cause = "throttled" THEN "throttled"
  ELSE IF f.cause = "server" THEN "unavailable"
  ELSE IF f.cause \in AWSClientFaults \cup {"faultUnknown"} THEN ClientFaultClass(f)
  ELSE IF f.cause \in {"transport", "deadline"} THEN "unavailable"
  ELSE OwnerFault(f)

classifyGCPFailure(f) ==
  CASE f.cause = "canceled"                        -> "unclassified"
    [] f.cause \in {"server", "tokenUnavailable"}  -> "unavailable"
    [] f.cause = "aborted"                         -> "conflict"
    [] f.cause \in {"throttled", "tokenThrottled"} -> "throttled"
    [] f.cause = "unauthenticated"                 -> "internal"
    [] f.cause \in GCPClientFaults                 -> ClientFaultClass(f)
    [] f.cause = "deadline"                        -> "unavailable"
    [] OTHER                                       -> OwnerFault(f)

Class(c) == IF call[c].kind = "gcp" THEN classifyGCPFailure(call[c].failure)
            ELSE classifyAWSFailure(call[c].failure)

-----------------------------------------------------------------------------
(* The steps of a call *)

Moves(c, new)    == call' = [call EXCEPT ![c] = new]
Returned(c)      == call[c].phase = "returned"
InProgress(c)    == call[c].phase \notin {"idle", "returned"}
FailsWith(c, f)  == Moves(c, CallWith(call[c].kind, "returned", f))
Succeeds(c)      == Moves(c, [call[c] EXCEPT !.phase = "returned"])

\* Assuming the intermediary roles, or the impersonation chain, uses worker-
\* controller's configuration; everything else uses the customer's.  AWS roles are
\* assumed by calls of its API.
BuildCauses(c) == IF call[c].kind = "gcp" THEN {"local"} ELSE AWSCauses \ {"deadline", "canceled"}

BuildFails(c) ==
  /\ call[c].phase = "building"
  /\ \E owned \in BOOLEAN, cause \in BuildCauses(c) : FailsWith(c, [owned |-> owned, cause |-> cause])

\* A try begins (the GetConn hook).
SentKept(c)  == call[c].requestSent
SentReset(c) == FALSE

GetConn(c) ==
  /\ call[c].phase \in {"building", "pausing"}
  /\ call[c].tries < MaxTries
  /\ Moves(c, [call[c] EXCEPT !.phase = "connecting", !.tries = @ + 1, !.requestSent = SentReset(c)])

WroteRequest(c) ==
  /\ call[c].phase = "connecting"
  /\ Moves(c, [call[c] EXCEPT !.phase = "waiting", !.requestSent = TRUE, !.lastWritten = call[c].tries])

Answered(c) == call[c].phase = "waiting" /\ Succeeds(c)

\* How a try fails: before its request is written, or by its answer; "local" is an
\* answer that the provider's own code refuses.
TryCauses(c) ==
  CASE call[c].phase = "connecting" ->
         IF call[c].kind = "gcp" THEN {"server"} \cup TokenFaults ELSE {"transport"}
    [] call[c].phase = "waiting" ->
         IF call[c].kind = "gcp"
         THEN GCPClientFaults \cup {"server", "aborted", "throttled", "unauthenticated"}
         ELSE AWSCauses \ {"deadline", "canceled", "credentials"}
    [] OTHER -> {}

\* The AWS SDK repeats a try that did not get through; the gRPC client does not.
SDKRepeats(c, cause) ==
  /\ call[c].kind # "gcp" /\ call[c].tries < MaxTries
  /\ cause \in {"transport", "throttled", "server", "faultUnknown", "noAPIError"}

TryFails(c) ==
  \E cause \in TryCauses(c) :
    IF SDKRepeats(c, cause) THEN Moves(c, [call[c] EXCEPT !.phase = "pausing"])
    ELSE FailsWith(c, [owned |-> FALSE, cause |-> cause])

\* agentCoreMaxRuntime is over while the activity's context is not: a request
\* that was sent counts as an invocation.
MaxRuntimeOver(c) ==
  /\ call[c].kind = "agentcore" /\ call[c].phase \in {"connecting", "waiting", "pausing"}
  /\ IF call[c].requestSent THEN Succeeds(c)
     ELSE FailsWith(c, [owned |-> FALSE, cause |-> "deadline"])

\* The activity's own context ends, by its 60 seconds or by cancellation.
ContextEnds(c) ==
  /\ InProgress(c)
  /\ \E owned \in BOOLEAN, cause \in {"deadline", "canceled"} :
       /\ owned => call[c].phase = "building"
       /\ FailsWith(c, [owned |-> owned, cause |-> cause])

CallStep(c) ==
  \/ BuildFails(c) \/ GetConn(c) \/ WroteRequest(c) \/ Answered(c)
  \/ TryFails(c) \/ MaxRuntimeOver(c) \/ ContextEnds(c)

-----------------------------------------------------------------------------
(* Properties *)

\* AgentCore's InvokeWorker reports an invocation at its own deadline on the word
\* of requestSent: the last try that was begun wrote its request, however many
\* tries went before it.
ReportedWasWritten ==
  \A c \in Callers : Returned(c) /\ call[c].failure = NoFailure =>
    call[c].tries > 0 /\ call[c].lastWritten = call[c].tries

\* The two axes of classify*Failure: what is at fault, and whose configuration.
\* The customer is blamed for what the customer can repair, however the failure came
\* about, and beyond that for nothing but what the AWS error model leaves
\* unrecognised while the customer's configuration is in use.
CustomersFault(f) == ~f.owned /\ f.cause \in {"notFound", "accessDenied", "refused", "local"}
TakenForCustomers(f) == ~f.owned /\ f.cause \in Unrecognised

CustomerIsBlamed ==
  \A c \in Callers : Returned(c) /\ call[c].failure # NoFailure =>
    (Class(c) \in {"rejected", "notFound", "accessDenied"}
       <=> CustomersFault(call[c].failure) \/ TakenForCustomers(call[c].failure))

=============================================================================
