------------------------------- MODULE TrapStubs -------------------------------
(***************************************************************************)
(* The trap interface of the Coldfire kernel (coldfire/kern/src/k_api.c,   *)
(* kern/inc/trap_table.h).  A stub puts the number of the primitive into   *)
(* register d0 and the arguments into d2, d3 and d4, whose old values it   *)
(* restores after the trap; kern_swi_handler (module Board) takes them     *)
(* from there.  A stub is the registers it loads.  The others hold what    *)
(* the caller left in them.                                                *)
(***************************************************************************)
EXTENDS Naturals

CONSTANT Leftover   \* what a register the stub does not load holds

TRAP_TABLE_SEND_MESSAGE           == 0
TRAP_TABLE_RECEIVE_MESSAGE        == 1
TRAP_TABLE_REQUEST_MSG_ENV        == 2
TRAP_TABLE_RELEASE_MSG_ENV        == 3
TRAP_TABLE_RELEASE_PROCESSOR      == 4
TRAP_TABLE_CHANGE_PRIORITY        == 9
TRAP_TABLE_REQUEST_DELAY          == 10
TRAP_TABLE_SEND_CONSOLE_CHARS     == 11

Registers(d0, d2, d3, d4) == [d0 |-> d0, d2 |-> d2, d3 |-> d3, d4 |-> d4]

send_message(dest_pid, msg_env) ==
    Registers(TRAP_TABLE_SEND_MESSAGE, dest_pid, msg_env, Leftover)

receive_message ==
    Registers(TRAP_TABLE_RECEIVE_MESSAGE, Leftover, Leftover, Leftover)

request_msg_env ==
    Registers(TRAP_TABLE_REQUEST_MSG_ENV, Leftover, Leftover, Leftover)

release_msg_env(msg_env) ==
    Registers(TRAP_TABLE_RELEASE_MSG_ENV, msg_env, Leftover, Leftover)

release_processor ==
    Registers(TRAP_TABLE_RELEASE_PROCESSOR, Leftover, Leftover, Leftover)

change_priority(new_priority, target_process_id) ==
    Registers(TRAP_TABLE_CHANGE_PRIORITY, new_priority, target_process_id, Leftover)

request_delay(time_delay, wakeup_code, msg_env) ==
    Registers(TRAP_TABLE_REQUEST_DELAY, time_delay, wakeup_code, msg_env)

send_console_chars(msg_env, request_ack) ==
    Registers(TRAP_TABLE_SEND_CONSOLE_CHARS, msg_env, request_ack, Leftover)
=============================================================================
