------------------------------ MODULE Delivery ------------------------------
(***************************************************************************)
(* What the program promises whoever runs a client: the exit code tells    *)
(* the truth about the file.  "accepted" (0) is said only of a file that   *)
(* is stored; "failed" (2, 3, 4, 6) only of one that is not and never will *)
(* be, so that sending it again stores it once; "unconfirmed" (5, or a     *)
(* killed client) says nothing, and the file may be stored even later.     *)
(***************************************************************************)
CONSTANT Clients

VARIABLES
    kept,    \* the clients whose file is stored
    told     \* what each client said of its file

DeliveryInit == kept = {} /\ told = [c \in Clients |-> "nothing"]

Keep(c) ==
    /\ c \notin kept
    /\ told[c] \in {"nothing", "unconfirmed"}
    /\ kept' = kept \cup {c}
    /\ UNCHANGED told

Tell(c, word) ==
    /\ told[c] = "nothing"
    /\ word = "accepted" => c \in kept
    /\ word = "failed" => c \notin kept
    /\ told' = [told EXCEPT ![c] = word]
    /\ UNCHANGED kept

DeliveryNext ==
    \E c \in Clients :
        Keep(c) \/ \E word \in {"accepted", "failed", "unconfirmed"} : Tell(c, word)

DeliverySpec == DeliveryInit /\ [][DeliveryNext]_<<kept, told>>
=============================================================================
