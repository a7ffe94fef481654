-------------------------- MODULE ProcessStartProofs --------------------------
(***************************************************************************)
(* Mutual exclusion and the readiness of the plugins, for any number of    *)
(* processes.                                                              *)
(*                                                                         *)
(* MutualExclusion is not inductive: the mutex is constructed in place in  *)
(* a file that other processes map, so what must be known is that nobody   *)
(* else is alive while a process builds the file.  That is so when the     *)
(* first process has created it before another one starts.                 *)
(***************************************************************************)
EXTENDS ProcessStart, FiniteSetTheorems, TLAPS

\* Processes that found no lock.bin, and are building it.
Building == {"truncated", "sized"}

LockInv ==
    \* The holder of the mutex is the one in a critical section.
    /\ \A p \in Procs : pc[p] \in Critical => lock = p
    \* One process at a time is creating the file, and alone while it builds it.
    /\ \A p, q \in Procs : pc[p] \in Created /\ pc[q] \in Created => p = q
    /\ \A p, q \in Procs : pc[p] \in Building /\ p # q => pc[q] = "down"
    /\ lock = "absent" => \A p \in Procs : pc[p] \in {"down", "exists"}
    /\ \A p \in Procs : pc[p] = "truncated" => lock = "empty"
    /\ \A p \in Procs : pc[p] = "sized" => lock = "free"

ReadyInv ==
    \A p \in Procs :
       /\ Range(todo[p]) \subseteq dependent_plugins[p] \cup {"receiver"}
       /\ "exporter" \in dependent_plugins[p] => "decoder" \in dependent_plugins[p]
       /\ "exporter" \in ready[p] <=> "exporter" \in dependent_plugins[p]
       /\ ready[p] # {} => "exporter" \in ready[p]
       /\ "exporter" \in ready[p] /\ "decoder" \notin Range(todo[p]) => "decoder" \in ready[p]
       /\ "exporter" \in ready[p] /\ "exporter" \notin Range(todo[p]) =>
             (mode[p] = "scan" => "ack" \in ready[p])
       /\ "ack" \in ready[p] => mode[p] = "scan"
       /\ receiving[p] => AllStarted(p, todo[p])

-------------------------------------------------------------------------------
(* The orders in which initialization can end.                               *)

LEMMA StartOrdersFacts ==
    ASSUME NEW m \in Modes, NEW order \in StartOrders(m)
    PROVE  /\ order \in Seq(PluginNames)
           /\ Range(order) \subseteq PluginNames
           /\ "exporter" \in Range(order) => "decoder" \in Range(order)
<1>1. CASE Exports(m)
  <2>1. order \in Configurations
    BY <1>1 DEF StartOrders
  <2>2. PICK k \in 0 .. 3 : order \in [1 .. k -> PluginNames]
    BY <2>1 DEF Configurations
  <2>3. order \in Seq(PluginNames) /\ DOMAIN order = 1 .. k
    BY <2>2
  <2>4. Range(order) \subseteq PluginNames
    BY <2>2 DEF Range
  <2>5. ASSUME "exporter" \in Range(order)
        PROVE  "decoder" \in Range(order)
    <3>1. PICK i \in DOMAIN order : order[i] = "exporter"
      BY <2>5 DEF Range
    <3>2. PICK j \in 1 .. i - 1 : order[j] = "decoder"
      BY <1>1, <3>1 DEF StartOrders
    <3>3. j \in DOMAIN order
      BY <2>3, <3>1, <3>2
    <3> QED
      BY <3>2, <3>3 DEF Range
  <2> QED
    BY <2>3, <2>4, <2>5
<1>2. CASE ~Exports(m)
  <2>1. order = <<"receiver">>
    BY <1>2 DEF StartOrders
  <2>2. Range(order) = {"receiver"}
    BY <2>1 DEF Range
  <2> QED
    BY <2>1, <2>2 DEF PluginNames
<1> QED
  BY <1>1, <1>2

LEMMA TailFacts ==
    ASSUME NEW s \in Seq(PluginNames), s # <<>>
    PROVE  /\ Head(s) \in PluginNames
           /\ Tail(s) \in Seq(PluginNames)
           /\ Range(s) = Range(Tail(s)) \cup {Head(s)}
<1>1. Head(s) \in PluginNames /\ Tail(s) \in Seq(PluginNames)
  OBVIOUS
<1>2. ASSUME NEW x \in Range(s)
      PROVE  x \in Range(Tail(s)) \cup {Head(s)}
  <2>1. PICK i \in DOMAIN s : x = s[i]
    BY DEF Range
  <2>2. CASE i = 1
    BY <2>1, <2>2
  <2>3. CASE i # 1
    <3>1. i - 1 \in DOMAIN Tail(s) /\ Tail(s)[i - 1] = s[i]
      BY <2>3
    <3> QED
      BY <2>1, <3>1 DEF Range
  <2> QED
    BY <2>2, <2>3
<1>3. ASSUME NEW x \in Range(Tail(s)) \cup {Head(s)}
      PROVE  x \in Range(s)
  <2>1. CASE x = Head(s)
    <3>1. 1 \in DOMAIN s /\ s[1] = Head(s)
      OBVIOUS
    <3> QED
      BY <2>1, <3>1 DEF Range
  <2>2. CASE x \in Range(Tail(s))
    <3>1. PICK i \in DOMAIN Tail(s) : x = Tail(s)[i]
      BY <2>2 DEF Range
    <3>2. i + 1 \in DOMAIN s /\ s[i + 1] = Tail(s)[i]
      OBVIOUS
    <3> QED
      BY <3>1, <3>2 DEF Range
  <2> QED
    BY <1>3, <2>1, <2>2
<1> QED
  BY <1>1, <1>2, <1>3

-------------------------------------------------------------------------------
(* The type invariant.                                                       *)

\* Every variable has its type in every reachable state, and the mutex belongs
\* only to a process that is in a critical section (plugin_initialize, shmem_lock).
THEOREM StartTypeCorrect == Spec => []StartTypeOK
<1>1. Init => StartTypeOK
  BY StartAssumption DEF Init, StartTypeOK, Locations, Critical, Created, Modes
<1>2. StartTypeOK /\ [Next]_vars => StartTypeOK'
  <2> SUFFICES ASSUME StartTypeOK, [Next]_vars
               PROVE  StartTypeOK'
    OBVIOUS
  <2> USE StartAssumption DEF StartTypeOK, Locations, Critical, Created, Goto, dbVars, plugVars
  <2>1. ASSUME NEW p \in Procs, Launch(p)
        PROVE  StartTypeOK'
    <3>1. PICK m \in Modes : \E order \in StartOrders(m) :
             /\ mode' = [mode EXCEPT ![p] = m]
             /\ todo' = [todo EXCEPT ![p] = order]
             /\ dependent_plugins' = [dependent_plugins EXCEPT ![p] = Dependencies(order)]
             /\ ready' = [ready EXCEPT ![p] = IF "exporter" \in Range(order) /\ RelicAnswers
                                              THEN {"exporter"} ELSE {}]
      BY <2>1 DEF Launch
    <3>2. PICK order \in StartOrders(m) :
             /\ mode' = [mode EXCEPT ![p] = m]
             /\ todo' = [todo EXCEPT ![p] = order]
             /\ dependent_plugins' = [dependent_plugins EXCEPT ![p] = Dependencies(order)]
             /\ ready' = [ready EXCEPT ![p] = IF "exporter" \in Range(order) /\ RelicAnswers
                                              THEN {"exporter"} ELSE {}]
      BY <3>1
    <3>3. order \in Seq(PluginNames) /\ Dependencies(order) \subseteq PluginNames
      BY StartOrdersFacts DEF Dependencies
    <3>4. todo' \in [Procs -> Seq(PluginNames)]
      BY <3>2, <3>3
    <3>5. dependent_plugins' \in [Procs -> SUBSET PluginNames]
      BY <3>2, <3>3
    <3>6. ready' \in [Procs -> SUBSET {"decoder", "exporter", "ack"}]
      BY <3>2
    <3>7. mode' \in [Procs -> Modes]
      BY <3>2
    <3> QED
      BY <2>1, <3>4, <3>5, <3>6, <3>7 DEF Launch
  <2>2. ASSUME NEW p \in Procs, LockFile(p)
        PROVE  StartTypeOK'
    BY <2>2 DEF LockFile, IsNew
  <2>3. ASSUME NEW p \in Procs, Lock(p)
        PROVE  StartTypeOK'
    BY <2>3 DEF Lock
  <2>4. ASSUME NEW p \in Procs, OpenDatabase(p)
        PROVE  StartTypeOK'
    <3>1. PICK location \in Locations \ Critical : pc' = [pc EXCEPT ![p] = location]
      BY <2>4 DEF OpenDatabase, Modes, OneOff
    <3>2. /\ lock' = "free" /\ pc[p] = "open" /\ UNCHANGED plugVars
          /\ writer' \subseteq Procs /\ database' \in {"none", "clean", "dirty"}
      BY <2>4 DEF OpenDatabase, LockAfterOpen
    <3> QED
      BY <3>1, <3>2
  <2>5. ASSUME NEW p \in Procs, StartPlugin(p)
        PROVE  StartTypeOK'
    <3> DEFINE plugin == Head(todo[p])
               rest   == Tail(todo[p])
    <3>1. rest \in Seq(PluginNames)
      BY <2>5, TailFacts DEF StartPlugin
    <3>2. DecoderSubscribes(p, plugin) \cup ExporterStarts(p, plugin) \subseteq {"decoder", "ack"}
      BY DEF DecoderSubscribes, ExporterStarts
    <3>3. ready' \in [Procs -> SUBSET {"decoder", "exporter", "ack"}]
      BY <2>5, <3>2 DEF StartPlugin
    <3>4. todo' \in [Procs -> Seq(PluginNames)]
      BY <2>5, <3>1 DEF StartPlugin
    <3>5. receiving' \in [Procs -> BOOLEAN]
      BY <2>5 DEF StartPlugin
    <3>6. UNCHANGED <<lock, writer, database, mode, dependent_plugins>>
      BY <2>5 DEF StartPlugin
    <3>7. pc[p] \notin Critical /\ pc' = [pc EXCEPT ![p] = IF rest = <<>> THEN "running" ELSE "startup"]
      BY <2>5 DEF StartPlugin
    <3> QED
      BY <3>3, <3>4, <3>5, <3>6, <3>7
  <2>6. ASSUME NEW p \in Procs, DependencyTimer(p)
        PROVE  StartTypeOK'
    BY <2>6 DEF DependencyTimer
  <2>7. ASSUME NEW p \in Procs, Unlock(p)
        PROVE  StartTypeOK'
    BY <2>7 DEF Unlock
  <2>8. ASSUME NEW p \in Procs, CopyRows(p) \/ Handle(p) \/ Exit(p)
        PROVE  StartTypeOK'
    BY <2>8 DEF CopyRows, Handle, Exit
  <2>9. ASSUME NEW p \in Procs, Kill(p)
        PROVE  StartTypeOK'
    BY <2>9 DEF Kill
  <2>10. CASE Clean
    BY <2>10 DEF Clean
  <2>11. CASE UNCHANGED vars
    BY <2>11 DEF vars
  <2> QED
    BY <2>1, <2>2, <2>3, <2>4, <2>5, <2>6, <2>7, <2>8, <2>9, <2>10, <2>11 DEF Next, Work
<1> QED
  BY <1>1, <1>2, PTL DEF Spec

-------------------------------------------------------------------------------
(* Mutual exclusion.                                                         *)

LEMMA LockInductive ==
    ASSUME FirstStartAlone, StartTypeOK, LockInv, [Next]_vars
    PROVE  LockInv'
<1> USE StartAssumption DEF StartTypeOK, LockInv, Building, Locations, Critical, Created,
        Goto, dbVars, plugVars
<1>1. ASSUME NEW p \in Procs, Launch(p)
      PROVE  LockInv'
  BY <1>1, FirstStartAlone DEF Launch, BeingCreated
<1>2. ASSUME NEW p \in Procs, LockFile(p)
      PROVE  LockInv'
  <2>1. CASE pc[p] = "exists" /\ lock = "absent"
    <3>1. pc' = [pc EXCEPT ![p] = "truncated"] /\ lock' = "empty"
      BY <1>2, <2>1 DEF LockFile, IsNew
    <3>2. \A q \in Procs : q # p => pc[q] = "down"
      BY <2>1
    <3> QED
      BY <2>1, <3>1, <3>2
  <2>2. CASE pc[p] = "exists" /\ lock # "absent"
    <3>1. pc' = [pc EXCEPT ![p] = "mapped"] /\ lock' = lock
      BY <1>2, <2>2 DEF LockFile, IsNew
    <3>2. \A q \in Procs : pc[q] \notin Building
      BY <2>2
    <3> QED
      BY <2>2, <3>1, <3>2
  <2>3. CASE pc[p] = "truncated"
    <3>1. pc' = [pc EXCEPT ![p] = "sized"] /\ lock' = "free"
      BY <1>2, <2>3 DEF LockFile
    <3> QED
      BY <2>3, <3>1
  <2>4. CASE pc[p] = "sized"
    <3>1. pc' = [pc EXCEPT ![p] = "mapped"] /\ lock' = "free"
      BY <1>2, <2>4 DEF LockFile
    <3> QED
      BY <2>4, <3>1
  <2> QED
    BY <1>2, <2>1, <2>2, <2>3, <2>4 DEF LockFile, IsNew
<1>3. ASSUME NEW p \in Procs, Lock(p)
      PROVE  LockInv'
  <2>1. CASE lock = "free"
    <3>1. PICK location \in Critical : pc' = [pc EXCEPT ![p] = location]
      BY <1>3, <2>1 DEF Lock
    <3>2. lock' = p /\ pc[p] \in {"mapped", "waiting"}
      BY <1>3, <2>1 DEF Lock
    <3>3. \A q \in Procs : pc[q] \notin Critical /\ pc[q] \notin Building
      BY <2>1, <3>2
    <3> QED
      BY <3>1, <3>2, <3>3
  <2>2. CASE lock = "empty"
    <3>1. pc' = [pc EXCEPT ![p] = "down"] /\ lock' = lock
      BY <1>3, <2>2 DEF Lock
    <3> QED
      BY <2>2, <3>1
  <2> QED
    BY <1>3, <2>1, <2>2 DEF Lock
<1>4. ASSUME NEW p \in Procs, OpenDatabase(p)
      PROVE  LockInv'
  <2>1. PICK location \in {"down", "waiting", "copying", "startup"} : pc' = [pc EXCEPT ![p] = location]
    BY <1>4 DEF OpenDatabase, Modes, OneOff
  <2>2. lock = p /\ lock' = "free"
    BY <1>4 DEF OpenDatabase, LockAfterOpen
  <2> QED
    BY <1>4, <2>1, <2>2 DEF OpenDatabase
<1>5. ASSUME NEW p \in Procs, StartPlugin(p) \/ DependencyTimer(p) \/ Handle(p)
      PROVE  LockInv'
  <2>1. PICK location \in {"startup", "running", "waiting"} : pc' = [pc EXCEPT ![p] = location]
    BY <1>5 DEF StartPlugin, DependencyTimer, Handle
  <2>2. pc[p] \in {"startup", "running"} /\ lock' = lock
    BY <1>5 DEF StartPlugin, DependencyTimer, Handle
  <2> QED
    BY <2>1, <2>2
<1>6. ASSUME NEW p \in Procs, Unlock(p)
      PROVE  LockInv'
  BY <1>6 DEF Unlock
<1>7. ASSUME NEW p \in Procs, CopyRows(p) \/ Exit(p)
      PROVE  LockInv'
  BY <1>7 DEF CopyRows, Exit
<1>8. ASSUME NEW p \in Procs, Kill(p)
      PROVE  LockInv'
  BY <1>8 DEF Kill
<1>9. CASE Clean
  BY <1>9 DEF Clean
<1>10. CASE UNCHANGED vars
  BY <1>10 DEF vars
<1> QED
  BY <1>1, <1>2, <1>3, <1>4, <1>5, <1>6, <1>7, <1>8, <1>9, <1>10 DEF Next, Work

\* When the first process creates lock.bin before another one starts, at most one
\* process is in a critical section, however many start, end and are killed, and
\* wherever (plugin_initialize, shmem_lock).
THEOREM OneInside == FirstStartAlone /\ Spec => []MutualExclusion
<1> SUFFICES ASSUME FirstStartAlone
             PROVE  Spec => []MutualExclusion
  OBVIOUS
<1>1. Init => LockInv
  BY StartAssumption DEF Init, LockInv, Critical, Created, Building
<1>2. LockInv => MutualExclusion
  <2> SUFFICES ASSUME LockInv
               PROVE  MutualExclusion
    OBVIOUS
  <2> DEFINE inside == {p \in Procs : pc[p] \in Critical}
  <2>1. CASE inside = {}
    BY <2>1, FS_EmptySet DEF MutualExclusion
  <2>2. CASE inside # {}
    <3>1. inside = {lock}
      BY <2>2 DEF LockInv
    <3>2. Cardinality({lock}) = 1
      BY FS_Singleton
    <3> QED
      BY <3>1, <3>2 DEF MutualExclusion
  <2> QED
    BY <2>1, <2>2
<1>3. StartTypeOK /\ LockInv /\ [Next]_vars => LockInv'
  BY LockInductive
<1> QED
  BY <1>1, <1>2, <1>3, StartTypeCorrect, PTL DEF Spec

-------------------------------------------------------------------------------
(* Readiness.                                                                *)

LEMMA ReadyInductive ==
    ASSUME RelicAnswers, StartTypeOK, ReadyInv, [Next]_vars
    PROVE  ReadyInv'
<1> USE DEF StartTypeOK, Goto, dbVars, plugVars
<1>1. ASSUME NEW p \in Procs, Launch(p)
      PROVE  ReadyInv'
  <2>1. PICK m \in Modes : \E order \in StartOrders(m) :
           /\ mode' = [mode EXCEPT ![p] = m]
           /\ todo' = [todo EXCEPT ![p] = order]
           /\ dependent_plugins' = [dependent_plugins EXCEPT ![p] = Dependencies(order)]
           /\ ready' = [ready EXCEPT ![p] = IF "exporter" \in Range(order) THEN {"exporter"} ELSE {}]
    BY <1>1, RelicAnswers DEF Launch
  <2>2. PICK order \in StartOrders(m) :
           /\ mode' = [mode EXCEPT ![p] = m]
           /\ todo' = [todo EXCEPT ![p] = order]
           /\ dependent_plugins' = [dependent_plugins EXCEPT ![p] = Dependencies(order)]
           /\ ready' = [ready EXCEPT ![p] = IF "exporter" \in Range(order) THEN {"exporter"} ELSE {}]
    BY <2>1
  <2>3. "exporter" \in Range(order) => "decoder" \in Range(order)
    BY StartOrdersFacts
  <2>4. receiving' = [receiving EXCEPT ![p] = FALSE]
    BY <1>1 DEF Launch
  <2>5. ASSUME NEW q \in Procs, q # p
        PROVE  /\ todo'[q] = todo[q] /\ dependent_plugins'[q] = dependent_plugins[q]
               /\ ready'[q] = ready[q] /\ mode'[q] = mode[q] /\ receiving'[q] = receiving[q]
    BY <2>2, <2>4, <2>5
  <2>6. /\ todo'[p] = order /\ dependent_plugins'[p] = Range(order) \ {"receiver"}
        /\ ready'[p] = (IF "exporter" \in Range(order) THEN {"exporter"} ELSE {})
        /\ receiving'[p] = FALSE
    BY <2>2, <2>4 DEF Dependencies
  <2> QED
    BY <2>3, <2>5, <2>6 DEF ReadyInv, AllStarted
<1>2. ASSUME NEW p \in Procs, StartPlugin(p)
      PROVE  ReadyInv'
  <2> DEFINE plugin == Head(todo[p])
             rest   == Tail(todo[p])
  <2>1. /\ todo' = [todo EXCEPT ![p] = rest]
        /\ ready' = [ready EXCEPT ![p] = @ \cup DecoderSubscribes(p, plugin)
                                           \cup ExporterStarts(p, plugin)]
        /\ receiving' = [receiving EXCEPT ![p] = @ \/ (plugin = "receiver" /\ AllStarted(p, rest))]
        /\ UNCHANGED <<mode, dependent_plugins>>
    BY <1>2 DEF StartPlugin
  <2>2. plugin \in PluginNames /\ Range(todo[p]) = Range(rest) \cup {plugin}
    BY <1>2, TailFacts DEF StartPlugin
  <2>3. ASSUME NEW q \in Procs, q # p
        PROVE  /\ todo'[q] = todo[q] /\ ready'[q] = ready[q] /\ receiving'[q] = receiving[q]
    BY <2>1, <2>3
  <2>4. /\ todo'[p] = rest
        /\ ready'[p] = ready[p] \cup DecoderSubscribes(p, plugin) \cup ExporterStarts(p, plugin)
        /\ receiving'[p] => receiving[p] \/ AllStarted(p, rest)
    BY <2>1
  <2>5. ExporterStarts(p, plugin) # {} => "exporter" \in dependent_plugins[p] /\ mode[p] = "scan"
    BY <2>2 DEF ReadyInv, ExporterStarts, PluginNames
  <2>6. /\ "exporter" \in ready'[p] <=> "exporter" \in ready[p]
        /\ ready'[p] # {} => "exporter" \in ready'[p]
        /\ "ack" \in ready'[p] => mode[p] = "scan"
    BY <2>4, <2>5 DEF ReadyInv, DecoderSubscribes, ExporterStarts
  <2>7. "exporter" \in ready'[p] /\ "decoder" \notin Range(rest) => "decoder" \in ready'[p]
    BY <2>2, <2>4, <2>6 DEF ReadyInv, DecoderSubscribes
  <2>8. "exporter" \in ready'[p] /\ "exporter" \notin Range(rest) =>
           (mode[p] = "scan" => "ack" \in ready'[p])
    BY <2>2, <2>4, <2>6 DEF ReadyInv, ExporterStarts
  <2>9. receiving'[p] => AllStarted(p, rest)
    BY <2>2, <2>4 DEF ReadyInv, AllStarted
  <2>10. Range(rest) \subseteq dependent_plugins[p] \cup {"receiver"}
    BY <2>2 DEF ReadyInv
  <2> QED
    BY <2>1, <2>3, <2>4, <2>6, <2>7, <2>8, <2>9, <2>10 DEF ReadyInv, AllStarted
<1>3. ASSUME NEW p \in Procs, DependencyTimer(p)
      PROVE  ReadyInv'
  BY <1>3 DEF DependencyTimer, ReadyInv, AllStarted
<1>4. CASE UNCHANGED plugVars
  BY <1>4 DEF ReadyInv, AllStarted
<1>5. ASSUME NEW p \in Procs, LockFile(p) \/ Lock(p) \/ OpenDatabase(p) \/ CopyRows(p)
                                \/ Unlock(p) \/ Handle(p) \/ Exit(p) \/ Kill(p)
      PROVE  UNCHANGED plugVars
  BY <1>5 DEF LockFile, Lock, OpenDatabase, CopyRows, Unlock, Handle, Exit, Kill
<1>6. Clean \/ UNCHANGED vars => UNCHANGED plugVars
  BY DEF Clean, vars
<1> QED
  BY <1>1, <1>2, <1>3, <1>4, <1>5, <1>6 DEF Next, Work

\* When the exporter could subscribe, no receiver starts before the decoder has
\* subscribed to its events and the exporter has announced its acknowledgements,
\* whatever the mode and the order of the plugins (start_after_dependencies).
THEOREM ReceiverStartsLast == RelicAnswers /\ Spec => []ReadyBeforeEvents
<1> SUFFICES ASSUME RelicAnswers
             PROVE  Spec => []ReadyBeforeEvents
  OBVIOUS
<1>1. Init => ReadyInv
  BY DEF Init, ReadyInv, AllStarted, Range
<1>2. StartTypeOK /\ ReadyInv => ReadyBeforeEvents
  <2> SUFFICES ASSUME StartTypeOK, ReadyInv, NEW p \in Procs, receiving[p], ready[p] # {}
               PROVE  ready[p] = {"decoder", "exporter"}
                                 \cup (IF mode[p] = "scan" THEN {"ack"} ELSE {})
    BY DEF ReadyBeforeEvents
  <2>1. dependent_plugins[p] \cap Range(todo[p]) = {}
    BY DEF ReadyInv, AllStarted
  <2>2. "exporter" \in ready[p] /\ "decoder" \in ready[p] /\ ("ack" \in ready[p] <=> mode[p] = "scan")
    BY <2>1 DEF ReadyInv
  <2>3. ready[p] \subseteq {"decoder", "exporter", "ack"}
    BY DEF StartTypeOK
  <2> QED
    BY <2>2, <2>3
<1>3. StartTypeOK /\ ReadyInv /\ [Next]_vars => ReadyInv'
  BY ReadyInductive
<1> QED
  BY <1>1, <1>2, <1>3, StartTypeCorrect, PTL DEF Spec
===============================================================================
