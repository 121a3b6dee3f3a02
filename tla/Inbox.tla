------------------------------- MODULE Inbox -------------------------------
(***************************************************************************)
(* What storing received files promises, whatever goes on underneath: a    *)
(* file appears in the directory whole and in one step, under a name       *)
(* nobody had; it is reported as stored only after that, and as refused    *)
(* only if it never happens.  A power failure takes names away again, as   *)
(* nothing makes the directory itself durable.                             *)
(***************************************************************************)
CONSTANTS
    Writers,      \* uploads
    FinalNames    \* the names files are published under

VARIABLES
    files,        \* the published files: name to upload
    verdict       \* what the session was told of its upload

inboxVars == <<files, verdict>>

Published(w) == \E n \in DOMAIN files : files[n] = w

InboxInit ==
    /\ files = [n \in {} |-> {}]
    /\ verdict = [w \in Writers |-> "none"]

Publish(w, name) ==
    /\ verdict[w] = "none"
    /\ ~Published(w)
    /\ name \notin DOMAIN files
    /\ files' = [n \in DOMAIN files \cup {name} |->
                    IF n = name THEN w ELSE files[n]]
    /\ UNCHANGED verdict

Confirm(w) ==
    /\ verdict[w] = "none"
    /\ Published(w)
    /\ verdict' = [verdict EXCEPT ![w] = "stored"]
    /\ UNCHANGED files

Reject(w) ==
    /\ verdict[w] = "none"
    /\ ~Published(w)
    /\ verdict' = [verdict EXCEPT ![w] = "error"]
    /\ UNCHANGED files

Lose ==
    /\ \E kept \in SUBSET DOMAIN files : files' = [n \in kept |-> files[n]]
    /\ UNCHANGED verdict

InboxNext ==
    \/ \E w \in Writers : \/ Confirm(w) \/ Reject(w)
                          \/ \E name \in FinalNames : Publish(w, name)
    \/ Lose

InboxSpec == InboxInit /\ [][InboxNext]_inboxVars
=============================================================================
