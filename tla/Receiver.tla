------------------------------ MODULE Receiver ------------------------------
(***************************************************************************)
(* The receiver as a program: its lifecycle with the discovery service,    *)
(* and, apart from it, the bytes it reads and writes.  The two share no    *)
(* state, so their behaviours are explored side by side and not            *)
(* interleaved.                                                            *)
(***************************************************************************)
EXTENDS ServerLifecycle, WireFormats

receiverVars == <<vars, formatVars>>

ReceiverInit ==
    /\ Init
    /\ NoFormat \/ (program = "posix" /\ FormatInit)

ReceiverNext ==
    \/ format = "none" /\ Next /\ UNCHANGED formatVars
    \/ FormatNext /\ UNCHANGED vars

ReceiverSpec == ReceiverInit /\ [][ReceiverNext]_receiverVars /\ Fairness
=============================================================================
