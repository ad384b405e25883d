------------------------------- MODULE MCBoard -------------------------------
(***************************************************************************)
(* An instance of Board for TLC: the two i-processes, the CCI, the null    *)
(* process and one user process, in the order of main.c.                   *)
(***************************************************************************)
EXTENDS Board

Row(pid, priority, is_i_process) == [pid |-> pid, priority |-> priority, is_i_process |-> is_i_process]

BoardProc == {"timer", "uart", "cci", "null", "user"}

BoardSysPid == {"timer", "uart", "cci"}

BoardTable == << Row("timer", 0, TRUE), Row("uart", 0, TRUE), Row("cci", 0, FALSE),
                 Row("null", 2, FALSE), Row("user", 1, FALSE) >>
=============================================================================
