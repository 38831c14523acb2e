----------------------------- MODULE UpdateQueue -----------------------------
(***************************************************************************)
(* What an instance promises about the updates and deletes it accepts: they  *)
(* wait in one line, in the order they were accepted, and when its turn      *)
(* comes each takes effect at once, on the spec the one before it left, or   *)
(* is refused and leaves no trace.  The line is empty when a run ends.       *)
(*                                                                         *)
(* What it does not promise is stated too.  A conflict token is compared     *)
(* when an update is accepted, not when its turn comes, and for updates      *)
(* only; an update whose turn comes after a delete still applies; and a      *)
(* delete that the end of a run overtakes is forgotten (NextRun).            *)
(*                                                                         *)
(* WorkerControllerInstance implements it, although an update there holds    *)
(* its turn over three blocking calls, between which everything else runs.   *)
(***************************************************************************)
EXTENDS Sequences

CONSTANTS
  Requests,     \* updates and deletes
  Tokens, NoToken,
  NoGroups,     \* the spec that deletes the instance
  Merge(_, _),  \* the spec an update makes of the one in force
  Valid(_)      \* the specs that may be in force

VARIABLES
  spec, token,  \* in force
  line,         \* accepted, its turn still to come; oldest first
  deleted,      \* in this run
  ended         \* the instance is gone

vars == <<spec, token, line, deleted, ended>>

Init ==
  /\ spec = NoGroups
  /\ token = NoToken
  /\ line = <<>>
  /\ deleted = FALSE
  /\ ended = FALSE

Accept(req) ==
  /\ ~deleted
  /\ req.kind = "update" => req.token \in {NoToken, token}
  /\ line' = Append(line, req)
  /\ UNCHANGED <<spec, token, deleted, ended>>

\* The turn of the oldest request, of the given kind.
Turn(kind) ==
  /\ line # <<>>
  /\ Head(line).kind = kind
  /\ line' = Tail(line)
  /\ UNCHANGED ended

Update ==
  /\ Turn("update")
  /\ spec' = Merge(spec, Head(line))
  /\ Valid(spec')
  /\ token' = Head(line).token
  /\ deleted' = (deleted \/ spec' = NoGroups)

\* An update that removes the last group is never refused.
Refuse ==
  /\ Turn("update")
  /\ Merge(spec, Head(line)) # NoGroups
  /\ UNCHANGED <<spec, token, deleted>>

\* Neither is a delete.
Delete ==
  /\ Turn("delete")
  /\ deleted' = TRUE
  /\ UNCHANGED <<spec, token>>

\* A run that finds no token in its state makes one before it accepts anything.
FreshToken ==
  /\ token = NoToken /\ line = <<>>
  /\ token' \in Tokens
  /\ UNCHANGED <<spec, line, deleted, ended>>

NextRun ==
  /\ line = <<>>
  /\ deleted' = FALSE
  /\ UNCHANGED <<spec, token, line, ended>>

End ==
  /\ deleted
  /\ ended' = TRUE
  /\ UNCHANGED <<spec, token, line, deleted>>

Next ==
  /\ ~ended
  /\ \/ \E req \in Requests : Accept(req)
     \/ Update \/ Refuse \/ Delete
     \/ FreshToken \/ NextRun \/ End

Spec == Init /\ [][Next]_vars

=============================================================================
