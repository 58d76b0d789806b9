------------------------------- MODULE Gateway -------------------------------
(***************************************************************************)
(* The main process of the gateway: main.c starts a connection manager     *)
(* (connmgr.c), a data manager (datamgr.c) and a storage manager           *)
(* (sensor_db.c), which share the buffer of SBuffer, three flags and one   *)
(* condition variable, and joins them.                                     *)
(*                                                                         *)
(* `lock` guards no flag: only the two managers' waits and the three waits *)
(* for the database are made under it.  The flags are set, the nodes       *)
(* inserted and the condition broadcast without it, so a thread is given a *)
(* step of its own wherever another can come between: between the test of  *)
(* a condition and the wait, between a flag and its broadcast, between the *)
(* evaluation of an argument and the call.  pc names the step a thread is  *)
(* about to take.  A wait is two steps: falling asleep, which releases     *)
(* lock, and waking, which takes it again.                                 *)
(***************************************************************************)
EXTENDS SBuffer

Threads == Managers \cup {"CONNMGR", "MAIN"}
MaxOpens == 3             \* attempts of init_connection to open the database

DbWaitPc == {"db_lock", "db_sleep", "db_asleep", "db_check"}
ConnMgrPc == DbWaitPc \cup {"bind", "refuse", "poll", "announce", "ending",
                            "signal", "done"}
ManagerPc == DbWaitPc \cup {"loop", "lock", "getinfo", "flag", "sleep",
                            "asleep", "unlock", "read", "enter", "scan", "done"}
InitConnectionPc == {"open", "fail_flag", "fail_conn", "fail_broadcast",
                     "publish", "broadcast", "ddl", "republish"}
SqlMgrPc == ManagerPc \cup InitConnectionPc \cup {"insert"}
MainPc == {"join", "exit"}

VARIABLES
  pc,                              \* pc[t]: the next step of thread t
  lock,                            \* owner of the mutex, or NoOne
  sleeping,                        \* threads blocked in pthread_cond_wait
  terminated_by_CONNMGR,
  terminated_by_INIT_CONNECTION,
  conn,                            \* the database handle is not NULL
  quit,                            \* quit[m]: the loop variable of manager m
  opens,                           \* counter of init_connection, 0 outside it
  stored,                          \* rows in the sensor table, oldest first
  lost                             \* data whose INSERT failed

flagVars == <<terminated_by_CONNMGR, terminated_by_INIT_CONNECTION, conn>>
dbVars == <<opens, stored, lost>>
gatewayVars == <<pc, lock, sleeping, flagVars, quit, dbVars>>
vars == <<bufferVars, gatewayVars>>

Init ==
  /\ sbuffer_init
  /\ pc = [t \in Threads |->
             CASE t = "CONNMGR" -> "bind"
               [] t = "DATAMGR" -> "db_lock"
               [] t = "SQLMGR"  -> "open"
               [] OTHER         -> "join"]
  /\ lock = NoOne
  /\ sleeping = {}
  /\ terminated_by_CONNMGR = FALSE
  /\ terminated_by_INIT_CONNECTION = FALSE
  /\ conn = FALSE
  /\ quit = [m \in Managers |-> FALSE]
  /\ opens = 0
  /\ stored = << >>
  /\ lost = {}

Goto(t, p) == pc' = [pc EXCEPT ![t] = p]

(* pthread_cond_broadcast: every thread in the wait becomes runnable. *)
Broadcast == sleeping' = {}

-----------------------------------------------------------------------------
(* The wait for the database, the same in the three threads.               *)

(* Take lock - on arrival or waking from the wait - and test the condition *)
DbTest(t) ==
  /\ \/ pc[t] = "db_lock"
     \/ pc[t] = "db_asleep" /\ t \notin sleeping
  /\ lock = NoOne
  /\ lock' = t
  /\ Goto(t, IF ~terminated_by_INIT_CONNECTION /\ ~conn THEN "db_sleep"
                                                        ELSE "db_check")
  /\ UNCHANGED <<bufferVars, sleeping, flagVars, quit, dbVars>>

DbSleep(t) ==
  /\ pc[t] = "db_sleep"
  /\ lock' = NoOne
  /\ sleeping' = sleeping \cup {t}
  /\ Goto(t, "db_asleep")
  /\ UNCHANGED <<bufferVars, flagVars, quit, dbVars>>

(* Mutant: the handle is tested and the flag is not. *)
DbCheckHandleOnly(t) ==
  /\ pc[t] = "db_check"
  /\ lock' = NoOne
  /\ Goto(t, IF t # "CONNMGR" THEN "loop" ELSE IF conn THEN "poll" ELSE "done")
  /\ UNCHANGED <<bufferVars, sleeping, flagVars, quit, dbVars>>

(* Leave with quit set if the database did not open.  CONNMGR then closes   *)
(* its server and ends; terminated_by_CONNMGR stays false (line 230).       *)
DbCheck(t) ==
  LET failed == terminated_by_INIT_CONNECTION \/ ~conn IN
  /\ pc[t] = "db_check"
  /\ lock' = NoOne
  /\ IF t = "CONNMGR"
     THEN /\ Goto(t, IF failed THEN "done" ELSE "poll")
          /\ quit' = quit
     ELSE /\ Goto(t, "loop")
          /\ quit' = [quit EXCEPT ![t] = failed]
  /\ UNCHANGED <<bufferVars, sleeping, flagVars, dbVars>>

WaitForDatabase(t) == DbTest(t) \/ DbSleep(t) \/ DbCheck(t)

-----------------------------------------------------------------------------
(* connmgr_thread, as the other threads see it: measurements, then an end. *)

Bind ==
  /\ pc["CONNMGR"] = "bind"
  /\ \E p \in {"db_lock", "refuse"} : Goto("CONNMGR", p)
  /\ UNCHANGED <<bufferVars, lock, sleeping, flagVars, quit, dbVars>>

Receive ==
  /\ pc["CONNMGR"] = "poll"
  /\ sbuffer_insert
  /\ Goto("CONNMGR", "announce")
  /\ UNCHANGED <<lock, sleeping, flagVars, quit, dbVars>>

Announce ==
  /\ pc["CONNMGR"] = "announce"
  /\ Broadcast
  /\ Goto("CONNMGR", "poll")
  /\ UNCHANGED <<bufferVars, lock, flagVars, quit, dbVars>>

CloseServer ==
  /\ pc["CONNMGR"] = "poll"
  /\ Goto("CONNMGR", "ending")
  /\ UNCHANGED <<bufferVars, lock, sleeping, flagVars, quit, dbVars>>

(* The port was refused, or the server closed: the flag, then the broadcast *)
SetTerminated ==
  /\ pc["CONNMGR"] \in {"refuse", "ending"}
  /\ terminated_by_CONNMGR' = TRUE
  /\ Goto("CONNMGR", "signal")
  /\ UNCHANGED <<bufferVars, lock, sleeping, terminated_by_INIT_CONNECTION, conn,
                 quit, dbVars>>

SignalTerminated ==
  /\ pc["CONNMGR"] = "signal"
  /\ Broadcast
  /\ Goto("CONNMGR", "done")
  /\ UNCHANGED <<bufferVars, lock, flagVars, quit, dbVars>>

connmgr_thread ==
  \/ Bind
  \/ WaitForDatabase("CONNMGR")
  \/ Receive
  \/ Announce
  \/ CloseServer
  \/ SetTerminated
  \/ SignalTerminated

-----------------------------------------------------------------------------
(* The loop of datamgr_thread and sqlmgr_thread, the same statement by     *)
(* statement up to what is done with the data.                             *)

(* Mutant: the flag is not looked at outside the wait. *)
LoopTestIgnoresFlag(m) ==
  /\ pc[m] = "loop"
  /\ Goto(m, IF quit[m] THEN "done" ELSE "lock")
  /\ UNCHANGED <<bufferVars, lock, sleeping, flagVars, quit, dbVars>>

LoopTest(m) ==
  /\ pc[m] = "loop"
  /\ Goto(m, IF quit[m] THEN "done" ELSE "lock")
  /\ quit' = [quit EXCEPT ![m] = @ \/ terminated_by_CONNMGR]
  /\ UNCHANGED <<bufferVars, lock, sleeping, flagVars, dbVars>>

Lock(m) ==
  /\ pc[m] = "lock"
  /\ lock = NoOne
  /\ lock' = m
  /\ Goto(m, "getinfo")
  /\ UNCHANGED <<bufferVars, sleeping, flagVars, quit, dbVars>>

(* The wait's condition: getinfo under the read lock, then the flag. *)
TestData(m) ==
  /\ pc[m] = "getinfo"
  /\ \E success \in BOOLEAN :
       /\ getinfo(m, success)
       /\ Goto(m, IF success THEN "unlock" ELSE "flag")
  /\ UNCHANGED <<lock, sleeping, flagVars, quit, dbVars>>

TestFlag(m) ==
  /\ pc[m] = "flag"
  /\ Goto(m, IF terminated_by_CONNMGR THEN "unlock" ELSE "sleep")
  /\ UNCHANGED <<bufferVars, lock, sleeping, flagVars, quit, dbVars>>

Sleep(m) ==
  /\ pc[m] = "sleep"
  /\ lock' = NoOne
  /\ sleeping' = sleeping \cup {m}
  /\ Goto(m, "asleep")
  /\ UNCHANGED <<bufferVars, flagVars, quit, dbVars>>

Wake(m) ==
  /\ pc[m] = "asleep"
  /\ m \notin sleeping
  /\ lock = NoOne
  /\ lock' = m
  /\ quit' = [quit EXCEPT ![m] = @ \/ terminated_by_CONNMGR]
  /\ Goto(m, "getinfo")
  /\ UNCHANGED <<bufferVars, sleeping, flagVars, dbVars>>

(* Mutant: the mutex is kept. *)
UnlockForgotten(m) ==
  /\ pc[m] = "unlock"
  /\ Goto(m, "read")
  /\ UNCHANGED <<bufferVars, lock, sleeping, flagVars, quit, dbVars>>

Unlock(m) ==
  /\ pc[m] = "unlock"
  /\ lock' = NoOne
  /\ Goto(m, "read")
  /\ UNCHANGED <<bufferVars, sleeping, flagVars, quit, dbVars>>

ReadArgument(m) ==
  /\ pc[m] = "read"
  /\ sbuffer_read_argument(m, terminated_by_CONNMGR)
  /\ Goto(m, "enter")
  /\ UNCHANGED <<lock, sleeping, flagVars, quit, dbVars>>

EnterRead(m) ==
  /\ pc[m] = "enter"
  /\ sbuffer_read(m)
  /\ Goto(m, IF reader' = m THEN "scan" ELSE "loop")
  /\ UNCHANGED <<lock, sleeping, flagVars, quit, dbVars>>

(* One step of the call.  DATAMGR's use of the data touches nothing shared; *)
(* SQLMGR's is an INSERT.                                                   *)
ScanList(m) ==
  /\ pc[m] = "scan"
  /\ sbuffer_read_loop(m)
  /\ Goto(m, IF reader' = m THEN "scan"
             ELSE IF m = "SQLMGR" /\ delivered' # delivered THEN "insert"
             ELSE "loop")
  /\ UNCHANGED <<lock, sleeping, flagVars, quit, dbVars>>

ManagerLoop(m) ==
  \/ LoopTest(m)
  \/ Lock(m)
  \/ TestData(m)
  \/ TestFlag(m)
  \/ Sleep(m)
  \/ Wake(m)
  \/ Unlock(m)
  \/ ReadArgument(m)
  \/ EnterRead(m)
  \/ ScanList(m)

datamgr_thread == WaitForDatabase("DATAMGR") \/ ManagerLoop("DATAMGR")

-----------------------------------------------------------------------------
(* sql_mgr: init_connection, then the manager's loop with insert_sensor.   *)

(* Mutant: one attempt too many. *)
OpenOnceMore ==
  /\ pc["SQLMGR"] = "open"
  /\ \/ /\ Goto("SQLMGR", "publish")
        /\ opens' = 0
     \/ /\ opens < MaxOpens
        /\ opens' = opens + 1
        /\ UNCHANGED pc
     \/ /\ opens = MaxOpens
        /\ opens' = 0
        /\ Goto("SQLMGR", "fail_flag")
  /\ UNCHANGED <<bufferVars, lock, sleeping, flagVars, quit, stored, lost>>

OpenDatabase ==
  /\ pc["SQLMGR"] = "open"
  /\ \/ /\ Goto("SQLMGR", "publish")
        /\ opens' = 0
     \/ /\ opens + 1 < MaxOpens
        /\ opens' = opens + 1
        /\ UNCHANGED pc
     \/ /\ opens + 1 = MaxOpens
        /\ opens' = 0
        /\ Goto("SQLMGR", "fail_flag")
  /\ UNCHANGED <<bufferVars, lock, sleeping, flagVars, quit, stored, lost>>

OpenFailed ==
  /\ pc["SQLMGR"] = "fail_flag"
  /\ terminated_by_INIT_CONNECTION' = TRUE
  /\ Goto("SQLMGR", "fail_conn")
  /\ UNCHANGED <<bufferVars, lock, sleeping, terminated_by_CONNMGR, conn, quit,
                 dbVars>>

(* sqlite3_open leaves a handle even when it fails. *)
SetConn ==
  /\ pc["SQLMGR"] \in {"fail_conn", "publish"}
  /\ conn' = TRUE
  /\ Goto("SQLMGR", IF pc["SQLMGR"] = "publish" THEN "broadcast"
                                                ELSE "fail_broadcast")
  /\ UNCHANGED <<bufferVars, lock, sleeping, terminated_by_CONNMGR,
                 terminated_by_INIT_CONNECTION, quit, dbVars>>

BroadcastConn ==
  /\ pc["SQLMGR"] \in {"fail_broadcast", "broadcast"}
  /\ Broadcast
  /\ Goto("SQLMGR", IF pc["SQLMGR"] = "broadcast" THEN "ddl" ELSE "db_lock")
  /\ UNCHANGED <<bufferVars, lock, flagVars, quit, dbVars>>

(* If a statement fails, init_connection returns NULL, which nobody reads, *)
(* and the rows will be refused one by one.                                *)
CreateTable ==
  /\ pc["SQLMGR"] = "ddl"
  /\ \E p \in {"republish", "db_lock"} : Goto("SQLMGR", p)
  /\ UNCHANGED <<bufferVars, lock, sleeping, flagVars, quit, dbVars>>

(* The same values once more, and a second broadcast. *)
Republish ==
  /\ pc["SQLMGR"] = "republish"
  /\ Broadcast
  /\ Goto("SQLMGR", "db_lock")
  /\ UNCHANGED <<bufferVars, lock, flagVars, quit, dbVars>>

init_connection ==
  \/ OpenDatabase
  \/ OpenFailed
  \/ SetConn
  \/ BroadcastConn
  \/ CreateTable
  \/ Republish

(* Mutant: a failed INSERT goes unreported. *)
InsertFailsSilently ==
  LET row == delivered["SQLMGR"][Len(delivered["SQLMGR"])] IN
  /\ pc["SQLMGR"] = "insert"
  /\ stored' \in {stored, Append(stored, row)}
  /\ Goto("SQLMGR", "loop")
  /\ UNCHANGED <<bufferVars, lock, sleeping, flagVars, quit, opens, lost>>

insert_sensor ==
  LET row == delivered["SQLMGR"][Len(delivered["SQLMGR"])] IN
  /\ pc["SQLMGR"] = "insert"
  /\ \/ /\ stored' = Append(stored, row)
        /\ lost' = lost
     \/ /\ lost' = lost \cup {row}
        /\ stored' = stored
  /\ Goto("SQLMGR", "loop")
  /\ UNCHANGED <<bufferVars, lock, sleeping, flagVars, quit, opens>>

sql_mgr ==
  \/ init_connection
  \/ WaitForDatabase("SQLMGR")
  \/ ManagerLoop("SQLMGR")
  \/ insert_sensor

-----------------------------------------------------------------------------
(* main_process after its joins: the END line for the log, then the buffer. *)
main_process ==
  /\ pc["MAIN"] = "join"
  /\ \A t \in Threads \ {"MAIN"} : pc[t] = "done"
  /\ sbuffer_free
  /\ Goto("MAIN", "exit")
  /\ UNCHANGED <<lock, sleeping, flagVars, quit, dbVars>>

(* POSIX lets pthread_cond_wait return with no broadcast. *)
SpuriousWakeup ==
  /\ memory # "aborted"
  /\ \E t \in sleeping : sleeping' = sleeping \ {t}
  /\ UNCHANGED <<bufferVars, pc, lock, flagVars, quit, dbVars>>

ProcessEnded == pc["MAIN"] = "exit" \/ memory = "aborted"

Ended == ProcessEnded /\ UNCHANGED vars

Run(threadStep) == memory # "aborted" /\ threadStep

Next ==
  \/ Run(connmgr_thread)
  \/ Run(datamgr_thread)
  \/ Run(sql_mgr)
  \/ Run(main_process)
  \/ SpuriousWakeup
  \/ Ended

(* A thread that can run again and again does, the mutex included: it is   *)
(* granted in the end to a thread that keeps asking.  Nothing is assumed of *)
(* what poll waits for - measurements may stop and the server stay open -   *)
(* nor of spurious wakeups: a sleeping thread may well sleep for ever.      *)
Fairness ==
  /\ SF_vars(Run(connmgr_thread /\ pc["CONNMGR"] # "poll"))
  /\ SF_vars(Run(datamgr_thread))
  /\ SF_vars(Run(sql_mgr))
  /\ WF_vars(Run(main_process))

Spec == Init /\ [][Next]_vars

FairSpec == Spec /\ Fairness
==============================================================================
