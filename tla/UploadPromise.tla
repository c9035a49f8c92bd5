--------------------------- MODULE UploadPromise ---------------------------
(***************************************************************************)
(* What the upload service promises its callers.  A call is refused or     *)
(* accepted; the callback of an accepted one is called once, when the      *)
(* chain keeps the whole file, and is called in the end unless the service *)
(* has halted or has lost the file, which only the end of another upload   *)
(* makes it do.  Queue, servers, passes and retries are not seen.          *)
(***************************************************************************)
CONSTANTS
    Calls,   \* uploads that are asked for
    Files,   \* contents
    Regular  \* files whose fragments a storage node can be given

VARIABLES
    file,    \* the file of each call
    phase,   \* "new", "refused", "accepted" or "done"
    kept,    \* files the chain keeps whole
    lost,    \* files whose fragments are gone although a call needs them
    halted   \* the service serves nobody any more

vars == <<file, phase, kept, lost, halted>>

Init ==
    /\ file \in [Calls -> Files]
    /\ phase = [c \in Calls |-> "new"]
    /\ kept \subseteq Files
    /\ lost = {}
    /\ halted = FALSE

\* Nobody may need the file any more.
Refuse(c) ==
    /\ phase[c] = "new"
    /\ phase' = [phase EXCEPT ![c] = "refused"]
    /\ lost' \subseteq lost
    /\ UNCHANGED <<file, kept, halted>>

\* One upload more than the service can hold halts it.
Accept(c) ==
    /\ phase[c] = "new"
    /\ phase' = [phase EXCEPT ![c] = "accepted"]
    /\ halted' \in {halted, TRUE}
    /\ UNCHANGED <<file, kept, lost>>

\* A file is only ever completed for a call that was accepted.
Keep(f) ==
    /\ f \in Regular \ kept
    /\ \E c \in Calls : phase[c] = "accepted" /\ file[c] = f
    /\ kept' = kept \cup {f}
    /\ lost' \subseteq lost
    /\ UNCHANGED <<file, phase, halted>>

\* The files of other calls may go with that of the call.
CallBack(c) ==
    /\ phase[c] = "accepted"
    /\ file[c] \in kept
    /\ phase' = [phase EXCEPT ![c] = "done"]
    /\ lost \subseteq lost' /\ lost' \subseteq Files \ kept
    /\ UNCHANGED <<file, kept, halted>>

Halt ==
    /\ ~halted
    /\ halted' = TRUE
    /\ UNCHANGED <<file, phase, kept, lost>>

\* Another call brings a lost file again.
Regain(f) ==
    /\ f \in lost
    /\ \E c \in Calls : phase[c] = "new" /\ file[c] = f
    /\ lost' = lost \ {f}
    /\ UNCHANGED <<file, phase, kept, halted>>

Next ==
    \/ \E c \in Calls : Refuse(c) \/ Accept(c) \/ CallBack(c)
    \/ \E f \in Files : Keep(f) \/ Regain(f)
    \/ Halt

Served(c) ==
    phase[c] = "accepted" /\ file[c] \in Regular
        ~> phase[c] = "done" \/ halted \/ file[c] \in lost

Safety == Init /\ [][Next]_vars

Spec == Safety /\ \A c \in Calls : Served(c)

=============================================================================
