---------------------------- MODULE ServerProcess ----------------------------
(***************************************************************************)
(* Start-up and signals of nofare server processes (CLIConnection.cpp and *)
(* the start and end of Init.h run()).  The named boost message queue is  *)
(* the only thing the processes share: setupMessageQueue creates it with  *)
(* create_only, and a process that finds it asks on the console whether  *)
(* a server is still running.  Once the queue exists, the process installs *)
(* cleanUp for SIGABRT and SIGTERM; cleanUp only removes the queue.       *)
(* Everything a server does between start-up and the end of run() is one *)
(* state, "serving": the other modules model it.                          *)
(***************************************************************************)
EXTENDS Naturals, FiniteSets

CONSTANT Procs   \* launches of the nofare server binary

VARIABLES
  pc,      \* process -> "setup" | "asking" | "serving" | "down"
  queue    \* the named message queue MESSAGE_QUEUE_NAME exists

vars == <<pc, queue>>

States == {"setup", "asking", "serving", "down"}

TypeOK ==
  /\ pc \in [Procs -> States]
  /\ queue \in BOOLEAN

Serving == {p \in Procs : pc[p] = "serving"}

(* No queue exists before a server was ever started.                       *)
Init ==
  /\ pc = [p \in Procs |-> "setup"]
  /\ queue = FALSE

(* message_queue(create_only, ...): it succeeds only if the name is free; *)
(* then the handlers are installed and run() goes on to serve.  Otherwise *)
(* interprocess_exception leads to the console question.                  *)
Create(p) ==
  /\ pc[p] = "setup"
  /\ IF queue
       THEN pc' = [pc EXCEPT ![p] = "asking"] /\ UNCHANGED queue
       ELSE pc' = [pc EXCEPT ![p] = "serving"] /\ queue' = TRUE

(* askUserForQueueReset: on "yes" the queue is removed and                *)
(* setupMessageQueue tries again; on anything else it returns false and   *)
(* run() returns before loadOldModel.  The user answers "yes" only when   *)
(* no server is running, as the question asks.                           *)
AskUser(p) ==
  /\ pc[p] = "asking"
  /\ \/ /\ Serving = {}
        /\ pc' = [pc EXCEPT ![p] = "setup"]
        /\ queue' = FALSE
     \/ /\ pc' = [pc EXCEPT ![p] = "down"]
        /\ UNCHANGED queue

(* SIGTERM.  Before signal(SIGTERM, &cleanUp) the default action ends the *)
(* process; afterwards cleanUp removes the queue and the process goes on. *)
Sigterm(p) ==
  \/ /\ pc[p] \in {"setup", "asking"}
     /\ pc' = [pc EXCEPT ![p] = "down"]
     /\ UNCHANGED queue
  \/ /\ pc[p] = "serving"
     /\ queue' = FALSE
     /\ UNCHANGED pc

(* SIGKILL cannot be caught (signal(SIGKILL, ...) fails): the process     *)
(* ends at once and the queue stays.                                      *)
Kill(p) ==
  /\ pc[p] # "down"
  /\ pc' = [pc EXCEPT ![p] = "down"]
  /\ UNCHANGED queue

(* run() ends: cleanUp(0) removes the queue (Init.h 123); the             *)
(* std::terminate that follows raises SIGABRT, whose handler removes it    *)
(* again.  Either way the name is free and the process is gone.           *)
Exit(p) ==
  /\ pc[p] = "serving"
  /\ pc' = [pc EXCEPT ![p] = "down"]
  /\ queue' = FALSE

Next ==
  \E p \in Procs : Create(p) \/ AskUser(p) \/ Sigterm(p) \/ Kill(p) \/ Exit(p)

Spec == Init /\ [][Next]_vars

(* The queue is the server's lock: askUserForQueueReset tells the user    *)
(* that "the server seems to be running already" when it exists, and the *)
(* client asks "Is the server running?" when it does not.  So at most one *)
(* nofare server runs at a time, and it is the one the client reaches.   *)
AtMostOneServer == Cardinality(Serving) <= 1

=============================================================================
