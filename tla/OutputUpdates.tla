---------------------------- MODULE OutputUpdates ----------------------------
(***************************************************************************)
(* What the dock relies on when it asks AitumBridge for an update: one     *)
(* request is in progress at a time, others are refused, each gets one     *)
(* answer, and an output only ever receives the credentials of a           *)
(* successful request for that output.  AitumBridge implements it.         *)
(***************************************************************************)
CONSTANTS
  Requests,   \* calls of update_async
  Outputs,
  Target,     \* credentials_.target_output of each request
  NoRequest   \* the credentials an output had before

Failures == {"AitumNotAvailable", "TargetOutputMissing", "OutputTabMissing",
             "OutputActionMissing", "EditorInvalid", "CredentialUpdateFailed",
             "SaveActionMissing", "SaveConfirmationTimeout", "SettingsAlreadyOpen"}

VARIABLES
  result,     \* new, pending, or the BridgeResult of each request
  stored      \* whose credentials each output has in Aitum's live profile

Init == /\ result = [r \in Requests |-> "new"]
        /\ stored = [o \in Outputs |-> NoRequest]

Idle == \A r \in Requests : result[r] # "pending"

Accept(r) == /\ Idle
             /\ result[r] = "new"
             /\ result' = [result EXCEPT ![r] = "pending"]
             /\ UNCHANGED stored

Refuse(r) == /\ ~Idle
             /\ result[r] = "new"
             /\ result' = [result EXCEPT ![r] = "Busy"]
             /\ UNCHANGED stored

Answer(r, res) == /\ result[r] = "pending"
                  /\ result' = [result EXCEPT ![r] = res]
                  /\ UNCHANGED stored

\* Aitum writes its profile: some outputs get what a successful request asked.
Commit == /\ stored' \in [Outputs -> Requests \cup {NoRequest}]
          /\ \A o \in Outputs : \/ stored'[o] = stored[o]
                                \/ /\ stored'[o] \in Requests
                                   /\ Target[stored'[o]] = o
                                   /\ result[stored'[o]] = "Success"
          /\ UNCHANGED result

Next == \/ \E r \in Requests : \/ Accept(r)
                               \/ Refuse(r)
                               \/ \E res \in Failures \cup {"Success"} : Answer(r, res)
        \/ Commit

Spec == Init /\ [][Next]_<<result, stored>>
=============================================================================
