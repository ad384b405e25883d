---------------------------- MODULE MCApplications ----------------------------
(***************************************************************************)
(* An instance of Applications for TLC: the table of main.c without pong.  *)
(* A user types one line, or turns the clock on and then hits a key more.  *)
(***************************************************************************)
EXTENDS Applications

Row(pid, priority, is_i_process) == [pid |-> pid, priority |-> priority, is_i_process |-> is_i_process]

AppProc == {"timer", "uart", "cci", "null", "wallclock", "a", "b", "c"}

AppSysPid == {"timer", "uart", "cci"}

AppTable == << Row("timer", 0, TRUE), Row("uart", 0, TRUE), Row("cci", 0, FALSE),
               Row("null", 3, FALSE), Row("wallclock", 1, FALSE), Row("a", 2, FALSE),
               Row("b", 1, FALSE), Row("c", 0, FALSE) >>

Typed(cmd) == [cmd |-> cmd, arg |-> ""]

On  == Typed("cd")
Off == Typed("ct")

AppLine == {On, Off} \cup {Typed(cmd) : cmd \in {"s", "", "n"}}
           \cup {[cmd |-> "n", arg |-> "valid"], [cmd |-> "c", arg |-> "valid"],
                 [cmd |-> "c", arg |-> "wrong"]}

AppKeys == {<<line>> : line \in AppLine} \cup {<<On, NULL>>, <<On, Off>>}
=============================================================================
