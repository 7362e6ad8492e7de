---------------------------- MODULE NetworkSearch ----------------------------
(***************************************************************************)
(* What the rejoin procedure of the V1.2 firmware promises, whatever its   *)
(* flags, alarms and signals do.  A device off its network searches, and   *)
(* while it is off only a restart or its deadline ends the search: the     *)
(* deadline at once, or when the attempt under way is over.  A search that *)
(* was given up leaves a wait, and the wait a new search.  A device that   *)
(* joins ends all of this before it can lose the network again.            *)
(***************************************************************************)
CONSTANT
    Abandons    \* may a search that its deadline has stopped be dropped, with
                \* no wait to bring the next one?

VARIABLES
    up,         \* the stack has started
    joined,     \* the device is on a network
    search      \* a member of Search

Search == {"none", "running", "stopping", "waiting"}

vars == <<up, joined, search>>

Init == up = FALSE /\ joined = FALSE /\ search = "none"

Start == ~up /\ up' = TRUE /\ UNCHANGED <<joined, search>>

Join ==
    /\ up /\ ~joined
    /\ joined' = TRUE
    /\ UNCHANGED <<up, search>>

\* The application hears that the device has joined.
Settle ==
    /\ joined /\ search # "none"
    /\ search' = "none"
    /\ UNCHANGED <<up, joined>>

Lose ==
    /\ joined /\ search = "none"
    /\ joined' = FALSE
    /\ UNCHANGED <<up, search>>

Begin ==
    /\ up /\ ~joined /\ search = "none"
    /\ search' = "running"
    /\ UNCHANGED <<up, joined>>

\* The deadline: between attempts the search is over at once.
GiveUp ==
    /\ search = "running"
    /\ search' \in {"stopping", "waiting"}
    /\ UNCHANGED <<up, joined>>

AttemptOver ==
    /\ search = "stopping"
    /\ search' = "waiting"
    /\ UNCHANGED <<up, joined>>

Abandon ==
    /\ Abandons
    /\ search = "stopping"
    /\ search' = "none"
    /\ UNCHANGED <<up, joined>>

\* User input, which the battery report counts as.
Resume ==
    /\ ~joined /\ search = "waiting"
    /\ search' = "running"
    /\ UNCHANGED <<up, joined>>

Restart == up' = FALSE /\ joined' = FALSE /\ search' = "none"

Next ==
    \/ Start \/ Join \/ Settle \/ Lose
    \/ Begin \/ GiveUp \/ AttemptOver \/ Abandon \/ Resume
    \/ Restart

Spec == Init /\ [][Next]_vars

\* A device off its network begins to search, each search joins or is given
\* up, and each wait ends; a join ends what is left of a search.
Fairness ==
    /\ WF_vars(Start) /\ WF_vars(Begin) /\ WF_vars(GiveUp)
    /\ WF_vars(AttemptOver) /\ WF_vars(Resume) /\ WF_vars(Settle)

FairSpec == Spec /\ Fairness
=============================================================================
