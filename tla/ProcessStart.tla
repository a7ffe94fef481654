---------------------------- MODULE ProcessStart ----------------------------
(***************************************************************************)
(* How the processes of the program start: the mutex in lock.bin that they *)
(* share, and, within each of them, the plugins that must be ready before  *)
(* the receiver reads (plugin_initialize, start_after_dependencies).       *)
(*                                                                         *)
(* appbase is external: it initializes the plugins in the order of the     *)
(* options `plugin', the receiver last unless it is among them, starts     *)
(* them in the order in which their initialization ended, counts a plugin  *)
(* as started before it calls plugin_startup, and then runs the events.    *)
(* Initialization is local to a process, but for lock.bin and the opening  *)
(* of the database; the rest of it is a part of Launch.  Options that make *)
(* a plugin throw end a process as Exit does, and the mode is a known one. *)
(***************************************************************************)
EXTENDS Integers, Sequences, Functions, FiniteSets

CONSTANTS
    Procs,
    RelicAnswers,   \* FALSE: PQconnectdb fails, and exp_relic_plugin comes up deaf
    FirstStartAlone \* the first process creates lock.bin before another one starts

ASSUME StartAssumption ==
    /\ IsFiniteSet(Procs) /\ Procs \cap {"absent", "empty", "free", "orphan"} = {}
    /\ RelicAnswers \in BOOLEAN /\ FirstStartAlone \in BOOLEAN

VARIABLES
    lock,        \* lock.bin: no file, an empty one, the mutex free, its holder,
                 \* or an orphan, the mutex of a process that was killed
    writer,      \* the processes with the database open for writing
    database,    \* the shared memory file: "none" yet, "clean", or "dirty"
    pc,
    mode,
    todo,        \* plugins that are not started yet
    dependent_plugins,
    ready,       \* of the exporter's path: "decoder" and "exporter" subscribed, "ack"
    receiving    \* the receiver's start() was called

dbVars == <<writer, database>>
plugVars == <<mode, todo, dependent_plugins, ready, receiving>>
vars == <<lock, dbVars, pc, plugVars>>

Modes == {"scan", "scan-noexport", "interactive", "save-snapshot", "restore-snapshot"}
OneOff == {"save-snapshot", "restore-snapshot"}
PluginNames == {"receiver", "decoder", "exporter"}

Created   == {"exists", "truncated", "sized"}  \* before lock.bin is known to be there
Critical  == {"open", "section"}               \* the mutex is held
Locations == Created \cup Critical \cup
             {"down", "mapped", "startup", "running", "waiting", "copying"}

StartTypeOK ==
    /\ lock \in {"absent", "empty", "free", "orphan"} \cup Procs
    /\ lock \in Procs => pc[lock] \in Critical
    /\ writer \subseteq Procs /\ database \in {"none", "clean", "dirty"}
    /\ pc \in [Procs -> Locations]
    /\ mode \in [Procs -> Modes]
    /\ todo \in [Procs -> Seq(PluginNames)]
    /\ dependent_plugins \in [Procs -> SUBSET PluginNames]
    /\ ready \in [Procs -> SUBSET {"decoder", "exporter", "ack"}]
    /\ receiving \in [Procs -> BOOLEAN]

Init ==
    /\ lock = "absent" /\ writer = {} /\ database = "none"
    /\ pc = [p \in Procs |-> "down"] /\ mode = [p \in Procs |-> "scan"]
    /\ todo = [p \in Procs |-> <<>>] /\ dependent_plugins = [p \in Procs |-> {}]
    /\ ready = [p \in Procs |-> {}] /\ receiving = [p \in Procs |-> FALSE]

Goto(p, location) == pc' = [pc EXCEPT ![p] = location]

-------------------------------------------------------------------------------
(* Initialization.                                                           *)

Exports(m) == m \in {"scan", "interactive"}

\* The plugins of a process, in any order.
Configurations ==
    {s \in UNION {[1 .. k -> PluginNames] : k \in 0 .. 3} : IsInjective(s)}

\* The order in which initialization ends: the exporter initializes the decoder
\* before itself, and does nothing when nothing is exported.
StartOrders(m) ==
    IF Exports(m)
    THEN {s \in Configurations :
             /\ "receiver" \in Range(s)
             /\ \A i \in DOMAIN s : s[i] = "exporter" => \E j \in 1 .. i - 1 : s[j] = "decoder"}
    ELSE {<<"receiver">>}

Dependencies_NoExporter(order) == Range(order) \ {"receiver", "exporter"}
Dependencies(order) == Range(order) \ {"receiver"}

\* Another process is still creating lock.bin.
BeingCreated == \E q \in Procs : pc[q] \in Created

Launch(p) ==
    /\ pc[p] = "down"
    /\ FirstStartAlone => ~BeingCreated
    /\ Goto(p, "exists")
    /\ \E m \in Modes : \E order \in StartOrders(m) :
          /\ mode' = [mode EXCEPT ![p] = m]
          /\ todo' = [todo EXCEPT ![p] = order]
          /\ dependent_plugins' = [dependent_plugins EXCEPT ![p] = Dependencies(order)]
          /\ ready' = [ready EXCEPT ![p] = IF "exporter" \in Range(order) /\ RelicAnswers
                                           THEN {"exporter"} ELSE {}]
    /\ receiving' = [receiving EXCEPT ![p] = FALSE]
    /\ UNCHANGED <<lock, dbVars>>

IsNew_Always == TRUE
IsNew == lock = "absent"

\* The file is all zeros once it is sized, which the platform's mutex takes for
\* free; so it stays when its creator is killed before the placement new.
LockFile(p) ==
    /\ \/ /\ pc[p] = "exists" /\ IsNew
          /\ Goto(p, "truncated") /\ lock' = "empty"
       \/ /\ pc[p] = "exists" /\ ~IsNew
          /\ Goto(p, "mapped") /\ UNCHANGED lock
       \/ /\ pc[p] = "truncated"
          /\ Goto(p, "sized") /\ lock' = IF lock = "empty" THEN "free" ELSE lock
       \/ /\ pc[p] = "sized"   \* placement new
          /\ IF lock = "empty" THEN Goto(p, "down") /\ UNCHANGED lock
             ELSE Goto(p, "mapped") /\ lock' = "free"
    /\ UNCHANGED <<dbVars, plugVars>>

\* mutex.lock(): SIGBUS when the file is too short.
Lock(p) ==
    /\ pc[p] \in {"mapped", "waiting"}
    /\ \/ lock = "free" /\ lock' = p /\ Goto(p, IF pc[p] = "mapped" THEN "open" ELSE "section")
       \/ lock = "empty" /\ UNCHANGED lock /\ Goto(p, "down")
    /\ writer' = IF pc'[p] = "down" THEN writer \ {p} ELSE writer
    /\ UNCHANGED <<database, plugVars>>

\* scoped_lock.
LockAfterOpen_NotOnThrow(p, throws) == IF throws THEN p ELSE "free"
LockAfterOpen(p, throws) == "free"

\* chainbase: one process writes, and none after a writer was killed.
OpenThrows(p) ==
    IF mode[p] = "interactive" THEN database = "none"
    ELSE writer # {} \/ database = "dirty"

\* Saving a snapshot takes the mutex once more, for the reverting of the
\* uncommitted revisions; restoring one does not.
OpenDatabase(p) ==
    /\ pc[p] = "open"
    /\ lock' = LockAfterOpen(p, OpenThrows(p))
    /\ Goto(p, CASE OpenThrows(p) -> "down"
                 [] ~OpenThrows(p) /\ mode[p] = "save-snapshot" -> "waiting"
                 [] ~OpenThrows(p) /\ mode[p] = "restore-snapshot" -> "copying"
                 [] ~OpenThrows(p) /\ mode[p] \notin OneOff -> "startup")
    /\ IF OpenThrows(p) \/ mode[p] = "interactive" THEN UNCHANGED dbVars
       ELSE database' = "clean" /\ writer' = writer \cup {p}
    /\ UNCHANGED plugVars

\* The rows of a snapshot are written or read without the mutex, and the process
\* ends, by app().quit() or an exception.
CopyRows(p) ==
    /\ pc[p] = "copying"
    /\ Goto(p, "down") /\ writer' = writer \ {p}
    /\ UNCHANGED <<lock, database, plugVars>>

-------------------------------------------------------------------------------
(* Startup, and the receiver's use of the database.                          *)

AllStarted(p, rest) == dependent_plugins[p] \cap Range(rest) = {}

\* decoder_plugin subscribes to what somebody listens to.
DecoderSubscribes(p, plugin) ==
    IF plugin = "decoder" /\ "exporter" \in ready[p] THEN {"decoder"} ELSE {}

ExporterStarts(p, plugin) == IF plugin = "exporter" /\ mode[p] = "scan" THEN {"ack"} ELSE {}

StartPlugin(p) ==
    /\ pc[p] = "startup" /\ todo[p] # <<>>
    /\ LET plugin == Head(todo[p])
           rest   == Tail(todo[p])
       IN  /\ todo' = [todo EXCEPT ![p] = rest]
           /\ ready' = [ready EXCEPT ![p] = @ \cup DecoderSubscribes(p, plugin)
                                              \cup ExporterStarts(p, plugin)]
           /\ receiving' = [receiving EXCEPT ![p] = @ \/ (plugin = "receiver" /\ AllStarted(p, rest))]
           /\ Goto(p, IF rest = <<>> THEN "running" ELSE "startup")
    /\ UNCHANGED <<lock, dbVars, mode, dependent_plugins>>

DependencyTimer(p) ==
    /\ pc[p] = "running" /\ ~receiving[p]
    /\ AllStarted(p, todo[p])
    /\ receiving' = [receiving EXCEPT ![p] = TRUE]
    /\ UNCHANGED <<lock, dbVars, pc, mode, todo, dependent_plugins, ready>>

\* A handler needs the database, in every mode.
Handle(p) ==
    /\ pc[p] = "running" /\ receiving[p]
    /\ Goto(p, "waiting")
    /\ UNCHANGED <<lock, dbVars, plugVars>>

Unlock(p) ==
    /\ pc[p] = "section"
    /\ lock' = "free"
    /\ Goto(p, IF mode[p] \in OneOff THEN "copying" ELSE "running")
    /\ UNCHANGED <<dbVars, plugVars>>

-------------------------------------------------------------------------------
(* Ends.                                                                     *)

\* An orderly end, or an exception outside the critical sections.
Exit(p) ==
    /\ pc[p] \in {"startup", "running"}
    /\ Goto(p, "down") /\ writer' = writer \ {p}
    /\ UNCHANGED <<lock, database, plugVars>>

Kill(p) ==
    /\ pc[p] # "down"
    /\ Goto(p, "down")
    /\ lock' = IF pc[p] \in Critical /\ lock = p THEN "orphan" ELSE lock
    /\ writer' = writer \ {p}
    /\ database' = IF p \in writer THEN "dirty" ELSE database
    /\ UNCHANGED plugVars

\* The operator removes the directory receiver-state.
Clean ==
    /\ \A p \in Procs : pc[p] = "down"
    /\ lock' = "absent" /\ database' = "none"
    /\ UNCHANGED <<writer, pc, plugVars>>

Work(p) ==
    \/ LockFile(p) \/ Lock(p) \/ OpenDatabase(p) \/ CopyRows(p)
    \/ StartPlugin(p) \/ DependencyTimer(p) \/ Unlock(p)

Next ==
    \/ \E p \in Procs : Launch(p) \/ Work(p) \/ Handle(p) \/ Exit(p) \/ Kill(p)
    \/ Clean

Spec == Init /\ [][Next]_vars

\* A process runs on, and one that waits for a mutex that is free again and again
\* gets it in the end: a section lasts for one event, and the reading of the next
\* one separates it from the next section.
Fairness == \A p \in Procs : WF_vars(Work(p)) /\ SF_vars(Lock(p))

FairSpec == Spec /\ Fairness

-------------------------------------------------------------------------------
(* Properties.                                                               *)

\* No two processes are in a critical section, whatever processes start, end and
\* are killed (plugin_initialize, shmem_lock).
MutualExclusion == Cardinality({p \in Procs : pc[p] \in Critical}) <= 1

\* When the receiver starts, everything it publishes from then on reaches the
\* exporter, which has announced its acknowledgements in scan mode, whatever the
\* order of the plugins (donot_start_receiver_before, start_after_dependencies,
\* decoder_plugin::start).
ReadyBeforeEvents ==
    \A p \in Procs :
       receiving[p] /\ ready[p] # {} =>
          ready[p] = {"decoder", "exporter"} \cup (IF mode[p] = "scan" THEN {"ack"} ELSE {})

\* A process that starts comes to receive, unless it ends or another one was killed
\* in a critical section, which leaves the mutex locked for ever
\* (start_after_dependencies, interprocess_mutex).
StartsOrEnds ==
    \A p \in Procs :
       pc[p] = "exists" ~> (receiving[p] \/ pc[p] = "down" \/ lock = "orphan")

\* A handler that waits for the database gets it (receive_result, on_block_req).
WaitersServed ==
    \A p \in Procs : pc[p] = "waiting" ~> (pc[p] # "waiting" \/ lock = "orphan")
===============================================================================
