------------------------------- MODULE OsTime -------------------------------
(***************************************************************************)
(* The local clock, os_time_us, and the integer arithmetic the clocks of   *)
(* the senders are converted with.                                         *)
(***************************************************************************)
EXTENDS Integers

VARIABLE now   \* os_time_us

(* Integer division of C, which truncates.                                 *)
Quotient(a, b) == IF a >= 0 THEN a \div b ELSE -((-a) \div b)
=============================================================================
