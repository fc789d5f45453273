----------------------------- MODULE ModelStorage -----------------------------
(***************************************************************************)
(* The model persistence of the nofare server                              *)
(* (src/nofare_app/src/server/ModelSerialization.hpp, loadOldModel in      *)
(* Init.h).  A storage thread wakes every 10 s, writes a copy of the label *)
(* manager to model.archive.backup, removes model.archive and renames the  *)
(* backup into its place; the archive and its std::ofstream are only       *)
(* flushed and closed when the loop iteration ends.  On start, run()       *)
(* loads model.archive, or starts empty if it cannot be read.  The process *)
(* may be killed at any moment and started again.                          *)
(*                                                                         *)
(* The label manager is abstracted to a content number: 0 is the empty     *)
(* manager, and every change (a processed event, addLabelById,             *)
(* reclassify) gives new content.                                          *)
(***************************************************************************)
EXTENDS Naturals

CONSTANTS
  MaxChanges,    \* bound on the changes of the label manager
  MaxRestarts,   \* bound on the restarts of the process
  Crashes,       \* TRUE: the process may be killed
  Absent         \* a path with no file

ASSUME /\ MaxChanges \in Nat
       /\ MaxRestarts \in Nat
       /\ Crashes \in BOOLEAN

VARIABLES
  ver,        \* the content of the classifier's event_label_manager
  fresh,      \* the last content number handed out
  spc,        \* storage thread: "check", "lock", "wait", "open", "serialize",
              \*   "remove", "rename", "close", "exited" or "dead"
  shutdown,   \* detail::shutdown
  snap,       \* the content serialized by the current iteration
  disk,       \* path -> file or Absent
  stream,     \* where the file of the open std::ofstream is: a path or "none"
  mpc,        \* main thread: "running", "stopping", "notify", "join",
              \*   "exited" (clean exit) or "down" (killed)
  lastSaved,  \* the content of the last archive completely written
  restarts

vars == <<ver, fresh, spc, shutdown, snap, disk, stream, mpc, lastSaved, restarts>>

Paths == {"backup", "model"}   \* OLD_SERIALIZED_PATH, NEW_SERIALIZED_PATH
Empty == 0
Contents == 0..MaxChanges
File == [content : Contents, complete : BOOLEAN]

Alive == mpc \notin {"exited", "down"}

(* Mutant of LoadOldModel: a torn archive is read as if it were whole.   *)
LoadOldModelIgnoringTorn(f) == IF f = Absent THEN Empty ELSE f.content

(* loadOldModel: the archive at model.archive, or the empty manager when  *)
(* opening or parsing it throws (no file, or a file cut short).           *)
LoadOldModel(f) == IF f = Absent \/ ~f.complete THEN Empty ELSE f.content

Init ==
  /\ ver = LoadOldModel(Absent)
  /\ fresh = 0
  /\ spc = "check"
  /\ shutdown = FALSE
  /\ snap = Empty
  /\ disk = [p \in Paths |-> Absent]
  /\ stream = "none"
  /\ mpc = "running"
  /\ lastSaved = Empty
  /\ restarts = 0

(* Any change of the label manager under events_mutex: an event processed *)
(* by the runner, or addLabelById / reclassify from the message thread,   *)
(* which runs until the process exits.                                    *)
Change ==
  /\ Alive
  /\ fresh < MaxChanges
  /\ fresh' = fresh + 1
  /\ ver' = fresh + 1
  /\ UNCHANGED <<spc, shutdown, snap, disk, stream, mpc, lastSaved, restarts>>

-----------------------------------------------------------------------------
(* The storage thread, storeModelThreadFunction.                          *)

(* while (!detail::shutdown)                                              *)
Check ==
  /\ Alive /\ spc = "check"
  /\ spc' = IF shutdown THEN "exited" ELSE "lock"
  /\ UNCHANGED <<ver, fresh, shutdown, snap, disk, stream, mpc, lastSaved, restarts>>

(* unique_lock lk(condition_mutex), then wait_for, which releases it and  *)
(* blocks.  Until the thread blocks, a notify_all finds no waiter.        *)
Lock ==
  /\ Alive /\ spc = "lock"
  /\ spc' = "wait"
  /\ UNCHANGED <<ver, fresh, shutdown, snap, disk, stream, mpc, lastSaved, restarts>>

(* Mutant of Wake: wait(lk) without the timeout, woken by notify only.   *)
WakeOnNotifyOnly ==
  /\ Alive /\ spc = "wait"
  /\ FALSE
  /\ UNCHANGED vars

(* wait_for(lk, 10 s) returns on a notification or on the timeout, so     *)
(* always eventually.                                                     *)
Wake ==
  /\ Alive /\ spc = "wait"
  /\ spc' = "open"
  /\ UNCHANGED <<ver, fresh, shutdown, snap, disk, stream, mpc, lastSaved, restarts>>

(* std::ofstream(old_path, trunc) and the text_oarchive on it.            *)
Open ==
  /\ Alive /\ spc = "open"
  /\ disk' = [disk EXCEPT !["backup"] = [content |-> Empty, complete |-> FALSE]]
  /\ stream' = "backup"
  /\ spc' = "serialize"
  /\ UNCHANGED <<ver, fresh, shutdown, snap, mpc, lastSaved, restarts>>

(* DataClassifier::getEventLabelManager: a copy taken under events_mutex. *)
GetEventLabelManager == ver

(* The archive takes the copy; what it wrote is still partly in the       *)
(* stream buffer.                                                         *)
Serialize ==
  /\ Alive /\ spc = "serialize"
  /\ snap' = GetEventLabelManager
  /\ disk' = [disk EXCEPT ![stream] = [content |-> snap', complete |-> FALSE]]
  /\ spc' = "remove"
  /\ UNCHANGED <<ver, fresh, shutdown, stream, mpc, lastSaved, restarts>>

(* Mutant of Remove: std::remove(old_path), the file just written.       *)
RemoveOldPath ==
  /\ Alive /\ spc = "remove"
  /\ disk' = [disk EXCEPT !["backup"] = Absent]
  /\ spc' = "rename"
  /\ UNCHANGED <<ver, fresh, shutdown, snap, stream, mpc, lastSaved, restarts>>

(* std::remove(new_path)                                                  *)
Remove ==
  /\ Alive /\ spc = "remove"
  /\ disk' = [disk EXCEPT !["model"] = Absent]
  /\ spc' = "rename"
  /\ UNCHANGED <<ver, fresh, shutdown, snap, stream, mpc, lastSaved, restarts>>

(* std::rename(old_path, new_path): the open stream's file moves with it. *)
Rename ==
  /\ Alive /\ spc = "rename"
  /\ disk' = [backup |-> Absent, model |-> disk["backup"]]
  /\ stream' = "model"
  /\ spc' = "close"
  /\ UNCHANGED <<ver, fresh, shutdown, snap, mpc, lastSaved, restarts>>

(* The end of the iteration destroys the archive and the stream: the      *)
(* buffer is flushed into whatever path the file now has.                 *)
Close ==
  /\ Alive /\ spc = "close"
  /\ disk' = [disk EXCEPT ![stream] = [content |-> snap, complete |-> TRUE]]
  /\ lastSaved' = snap
  /\ stream' = "none"
  /\ spc' = "check"
  /\ UNCHANGED <<ver, fresh, shutdown, snap, mpc, restarts>>

StorageStep ==
  Check \/ Lock \/ Wake \/ Open \/ Serialize \/ Remove \/ Rename \/ Close

-----------------------------------------------------------------------------
(* The main thread at the end of run(), after stopThreads.                *)

(* run()'s loop is over and stopThreads has returned.                     *)
StopThreads ==
  /\ mpc = "running"
  /\ mpc' = "stopping"
  /\ UNCHANGED <<ver, fresh, spc, shutdown, snap, disk, stream, lastSaved, restarts>>

(* stopModelStorageThread: shutdown = true, notify_all, join.  Neither    *)
(* takes condition_mutex.                                                 *)
SetShutdown ==
  /\ mpc = "stopping"
  /\ shutdown' = TRUE
  /\ mpc' = "notify"
  /\ UNCHANGED <<ver, fresh, spc, snap, disk, stream, lastSaved, restarts>>

NotifyAll ==
  /\ mpc = "notify"
  /\ spc' = IF spc = "wait" THEN "open" ELSE spc
  /\ mpc' = "join"
  /\ UNCHANGED <<ver, fresh, shutdown, snap, disk, stream, lastSaved, restarts>>

(* The join returns; cleanUp and the return of run() end the process.     *)
Join ==
  /\ mpc = "join"
  /\ spc = "exited"
  /\ mpc' = "exited"
  /\ UNCHANGED <<ver, fresh, spc, shutdown, snap, disk, stream, lastSaved, restarts>>

MainStep == StopThreads \/ SetShutdown \/ NotifyAll \/ Join

-----------------------------------------------------------------------------
(* The process is killed: memory and the unflushed stream buffer are      *)
(* lost, the files stay as they are.                                      *)
Crash ==
  /\ Crashes
  /\ Alive
  /\ restarts < MaxRestarts
  /\ mpc' = "down"
  /\ spc' = "dead"
  /\ stream' = "none"
  /\ UNCHANGED <<ver, fresh, shutdown, snap, disk, lastSaved, restarts>>

(* The server is started again: loadOldModel, then                        *)
(* startModelStorageThread (detail::shutdown = false).                    *)
Restart ==
  /\ mpc \in {"exited", "down"}
  /\ restarts < MaxRestarts
  /\ ver' = LoadOldModel(disk["model"])
  /\ restarts' = restarts + 1
  /\ mpc' = "running"
  /\ spc' = "check"
  /\ shutdown' = FALSE
  /\ snap' = Empty
  /\ UNCHANGED <<fresh, disk, stream, lastSaved>>

(* No more restarts: the process stays stopped.                           *)
Finished ==
  /\ mpc \in {"exited", "down"}
  /\ restarts = MaxRestarts
  /\ UNCHANGED vars

Next == Change \/ StorageStep \/ MainStep \/ Crash \/ Restart \/ Finished

(* The storage thread always returns from wait_for (a timeout), and the   *)
(* main thread is an OS thread; changes, crashes and restarts may or may  *)
(* not come.                                                              *)
Spec == Init /\ [][Next]_vars /\ WF_vars(StorageStep) /\ WF_vars(MainStep)

-----------------------------------------------------------------------------
(* Properties.                                                            *)

(* Besides the types: the open std::ofstream always has a file at its     *)
(* path, so what the archive writes and the flush at the end of the       *)
(* iteration land in a file that a later loadOldModel can see.            *)
TypeOK ==
  /\ ver \in Contents /\ fresh \in Contents /\ snap \in Contents
  /\ lastSaved \in Contents
  /\ spc \in {"check", "lock", "wait", "open", "serialize", "remove", "rename", "close",
              "exited", "dead"}
  /\ shutdown \in BOOLEAN
  /\ disk \in [Paths -> File \cup {Absent}]
  /\ stream \in Paths \cup {"none"}
  /\ stream # "none" => disk[stream] # Absent
  /\ mpc \in {"running", "stopping", "notify", "join", "exited", "down"}
  /\ restarts \in 0..MaxRestarts

(* A step that starts the server again.                                   *)
Restarted == mpc \in {"exited", "down"} /\ mpc' = "running"

(* A restart resumes either from the last archive the storage thread      *)
(* completed or from an empty model: loadOldModel never takes a torn      *)
(* archive, and no older snapshot survives a newer one.                  *)
RestartLoadsSavedOrEmpty ==
  [][Restarted => ver' \in {lastSaved, Empty}]_vars

(* Spec 6: the snapshot is written to a temporary path and atomically     *)
(* renamed into place, so a restart loads the most recent snapshot.       *)
RestartLoadsLatestSnapshot ==
  [][Restarted => ver' = lastSaved]_vars

(* stopModelStorageThread's join returns: once detail::shutdown is set,   *)
(* the storage thread leaves its loop (or the process dies), even when    *)
(* notify_all came between its test of shutdown and its wait_for: the     *)
(* 10 s timeout, not the notification, guarantees the wake-up.            *)
StorageStopsAfterShutdown ==
  (shutdown /\ Alive) ~> (spc = "exited" \/ ~Alive)

=============================================================================
