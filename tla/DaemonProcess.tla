------------------------------ MODULE DaemonProcess ------------------------------
(***************************************************************************)
(* The life of the daemon's processes around what they share: the lock that *)
(* makes one of them the daemon, the path of the socket the displays        *)
(* connect to, and the configuration file.  A process loads and saves the   *)
(* configuration before it takes the lock, so one that is refused has       *)
(* written the file, and writes it once more on its way out.  The settings  *)
(* are versions; a save is delayed, and flushed when the daemon stops.      *)
(*                                                                         *)
(* The kernel drops the lock of a process that dies; the path stays.        *)
(***************************************************************************)
EXTENDS Integers, FiniteSets

CONSTANTS
  Daemons,  \* processes started on one socket path and one configuration
  MaxEdits  \* settings changed in a behaviour

ASSUME DaemonAssumption == MaxEdits \in Nat /\ "none" \notin Daemons

VARIABLES
  stage,   \* stage[d]: where in main the process is
  memory,  \* memory[d]: the version of the settings it has
  due,     \* due[d]: save_source_id is set
  lock,    \* the process that holds the lock, "none" if nobody
  path,    \* the process whose socket the path leads to, "none" if there is no file
  socketBound, \* bound[d]: socket_bound
  rendering, \* workers[d]: renderer workers of d live
  disk,    \* the version in the file
  newest,  \* the version last acknowledged to a client
  intact   \* no process was started beside the daemon, and no delayed save died

daemonVars == << stage, memory, due, lock, path, socketBound, rendering, disk, newest, intact >>
Edits == 0 .. MaxEdits
Stages == {"new", "loaded", "saved", "locked", "listening", "draining", "stopped",
           "unlocked", "refused", "gone"}

DaemonInit ==
  /\ stage = [d \in Daemons |-> "new"] /\ memory = [d \in Daemons |-> 0]
  /\ due = [d \in Daemons |-> FALSE] /\ socketBound = [d \in Daemons |-> FALSE]
  /\ rendering = [d \in Daemons |-> FALSE]
  /\ lock = "none" /\ path = "none" /\ disk = 0 /\ newest = 0 /\ intact = TRUE

Moves(d, to) == stage' = [stage EXCEPT ![d] = to]
Others(d)    == Daemons \ {d}

-----------------------------------------------------------------------------
(* main, producer_start *)

\* vivid_producer_config_load
Loads(d) ==
  /\ stage[d] = "new" /\ Moves(d, "loaded")
  /\ memory' = [memory EXCEPT ![d] = disk]
  /\ intact' = (intact /\ \A e \in Others(d) : stage[e] \in {"new", "gone"})
  /\ UNCHANGED << due, lock, path, socketBound, rendering, disk, newest >>

\* vivid_producer_config_save writes all of memory over the file.
Writes(d) == disk' = memory[d]

Saves(d) ==
  /\ stage[d] = "loaded" /\ Moves(d, "saved")
  /\ Writes(d)
  /\ UNCHANGED << memory, due, lock, path, socketBound, rendering, newest, intact >>

Locks(d) ==
  /\ stage[d] = "saved"
  /\ IF lock = "none" THEN lock' = d /\ Moves(d, "locked")
                      ELSE lock' = lock /\ Moves(d, "refused")
  /\ UNCHANGED << memory, due, path, socketBound, rendering, disk, newest, intact >>

\* unlink, socket, bind, listen
Listens(d) ==
  /\ stage[d] = "locked" /\ Moves(d, "listening")
  /\ path' = d /\ socketBound' = [socketBound EXCEPT ![d] = TRUE]
  /\ UNCHANGED << memory, due, lock, rendering, disk, newest, intact >>

\* One of them fails: producer_stop and out.
ListenFails(d) ==
  /\ stage[d] = "locked" /\ Moves(d, "stopped")
  /\ path' = "none"
  /\ UNCHANGED << memory, due, lock, socketBound, rendering, disk, newest, intact >>

-----------------------------------------------------------------------------
(* Work. *)

\* handle_control with settings: applied, a save scheduled, answered.
Edited(d) ==
  /\ stage[d] = "listening" /\ newest < MaxEdits
  /\ newest' = newest + 1
  /\ memory' = [memory EXCEPT ![d] = newest + 1] /\ due' = [due EXCEPT ![d] = TRUE]
  /\ UNCHANGED << stage, lock, path, socketBound, rendering, disk, intact >>

SaveFires(d) ==
  /\ stage[d] \in {"listening", "draining"} /\ due[d]
  /\ due' = [due EXCEPT ![d] = FALSE] /\ Writes(d)
  /\ UNCHANGED << stage, memory, lock, path, socketBound, rendering, newest, intact >>

WorkersStart(d) ==
  /\ stage[d] = "listening" /\ ~rendering[d]
  /\ rendering' = [rendering EXCEPT ![d] = TRUE]
  /\ UNCHANGED << stage, memory, due, lock, path, socketBound, disk, newest, intact >>

-----------------------------------------------------------------------------
(* Shutdown. *)

\* Mutant of StopsAccepting: the file goes with the process, bound by it or not.
AlwaysUnlinks(d) == path' = "none" /\ socketBound' = [socketBound EXCEPT ![d] = FALSE]
\* producer_stop_accepting removes the file at the path, whoever bound it.
StopsAccepting(d) ==
  /\ path' = IF socketBound[d] THEN "none" ELSE path
  /\ socketBound' = [socketBound EXCEPT ![d] = FALSE]

\* Mutant of Flushes: a save that is due is dropped with its timer.
FlushesNothing(d) == due' = [due EXCEPT ![d] = FALSE] /\ UNCHANGED disk
\* vivid_producer_config_flush_save
Flushes(d) == due' = [due EXCEPT ![d] = FALSE] /\ Writes(d)

\* Mutant of MayFinish: the daemon does not wait for its workers.
MayAlwaysFinish(live) == TRUE
\* producer_maybe_finish_shutdown
MayFinish(live) == ~live

\* A signal: producer_begin_shutdown.
ShutsDown(d) ==
  /\ stage[d] = "listening"
  /\ StopsAccepting(d) /\ Flushes(d)
  /\ Moves(d, IF MayFinish(rendering[d]) THEN "stopped" ELSE "draining")
  /\ UNCHANGED << memory, lock, rendering, newest, intact >>

\* The last worker is reaped, in the service or in the shutdown.
WorkersEnd(d) ==
  /\ rendering[d]
  /\ rendering' = [rendering EXCEPT ![d] = FALSE]
  /\ IF stage[d] = "draining" THEN Moves(d, "stopped") ELSE UNCHANGED stage
  /\ UNCHANGED << memory, due, lock, path, socketBound, disk, newest, intact >>

\* producer_stop, up to the lock; then the last flush, when another may have it.
Unlocks(d) ==
  /\ stage[d] \in {"stopped", "refused"} /\ Moves(d, "unlocked")
  /\ StopsAccepting(d)
  /\ lock' = IF lock = d THEN "none" ELSE lock
  /\ UNCHANGED << memory, due, rendering, disk, newest, intact >>

LastFlush(d) ==
  /\ stage[d] = "unlocked" /\ Moves(d, "gone")
  /\ Flushes(d)
  /\ UNCHANGED << memory, lock, path, socketBound, rendering, newest, intact >>

\* A process dies anywhere; its workers follow when their socket closes.
Dies(d) ==
  /\ stage[d] \notin {"new", "gone"} /\ Moves(d, "gone")
  /\ lock' = IF lock = d THEN "none" ELSE lock
  /\ due' = [due EXCEPT ![d] = FALSE] /\ intact' = (intact /\ ~due[d])
  /\ socketBound' = [socketBound EXCEPT ![d] = FALSE]
  /\ UNCHANGED << memory, path, rendering, disk, newest >>

\* The service manager starts the process again.
Restarts(d) ==
  /\ stage[d] = "gone" /\ Moves(d, "new")
  /\ ~rendering[d]
  /\ UNCHANGED << memory, due, lock, path, socketBound, rendering, disk, newest, intact >>

DaemonNext ==
  \E d \in Daemons :
    \/ Loads(d) \/ Saves(d) \/ Locks(d) \/ Listens(d) \/ ListenFails(d)
    \/ Edited(d) \/ SaveFires(d) \/ WorkersStart(d) \/ ShutsDown(d) \/ WorkersEnd(d)
    \/ Unlocks(d) \/ LastFlush(d) \/ Dies(d) \/ Restarts(d)

DaemonSpec == DaemonInit /\ [][DaemonNext]_daemonVars

-----------------------------------------------------------------------------

DaemonTypeOK ==
  /\ stage \in [Daemons -> Stages] /\ memory \in [Daemons -> Edits]
  /\ lock \in Daemons \cup {"none"} /\ path \in Daemons \cup {"none"}
  /\ due \in [Daemons -> BOOLEAN] /\ socketBound \in [Daemons -> BOOLEAN]
  /\ rendering \in [Daemons -> BOOLEAN] /\ disk \in Edits /\ newest \in Edits

\* The path leads to the process that listens, and that process holds the lock:
\* a process that stops never removes the socket of its successor, and one that is
\* refused never takes the path (producer_start, producer_stop_accepting).
PathLeadsToDaemon ==
  \A d \in Daemons : stage[d] = "listening" => lock = d /\ path = d

\* Two processes never have workers at once, unless one of them died: the lock is
\* kept until every worker is reaped (producer_begin_shutdown).
OneDaemonRenders ==
  \A d \in Daemons : rendering[d] /\ stage[d] # "gone" => lock = d

\* As long as no process was started beside the daemon and no daemon died with a save
\* due, the settings of a daemon at work are the newest acknowledged ones, and those of
\* a stopped one are on the disk: the delayed save is never lost.
SettingsSurvive ==
  intact => \A d \in Daemons :
    /\ stage[d] = "listening" => memory[d] = newest /\ (disk = newest \/ due[d])
    /\ stage[d] \in {"stopped", "draining"} => disk = newest

\* Daemons follow one another: the path, the workers and the settings pass from one
\* to the next whole.
DaemonsTakeTurns ==
  DaemonTypeOK /\ PathLeadsToDaemon /\ OneDaemonRenders /\ SettingsSurvive
=============================================================================
