----------------------------- MODULE Spawn -----------------------------
(***************************************************************************)
(* Children and startup notification (spawn.c; SIGCHLD in awesome.c).      *)
(*                                                                         *)
(* A child that exits becomes a zombie and raises SIGCHLD, whose handler   *)
(* writes a byte to a pipe that the main loop watches; signals of several  *)
(* exits merge into one.  reap_children empties the pipe and reaps in a    *)
(* loop, calling the Lua function of each child, which may spawn again; a  *)
(* reaped pid is free for the next child.                                  *)
(*                                                                         *)
(* A launch is announced by messages that libsn turns into events of a     *)
(* startup sequence.  A sequence is counted memory: libsn, the list of     *)
(* waiting sequences and the timeout each hold a reference.                *)
(***************************************************************************)
EXTENDS Naturals, Sequences, FiniteSets, SequencesExt, Functions

CONSTANTS Pid,            \* process ids
          Launch,         \* startup ids, one for each launch with notification
          MaxSpawns,      \* bound on the spawned children
          MaxPipe,        \* bound on the bytes in the pipe
          MaxMessages     \* bound on startup messages under way and sent by others

ASSUME SpawnAssumption == MaxSpawns \in Nat /\ MaxPipe \in Nat /\ MaxMessages \in Nat

VARIABLES process,        \* pid |-> the child it is ("free", "running", "zombie")
          spawned,        \* how many children were spawned with a function
          runningChildren,\* pid |-> the spawn (1, 2, ...) whose function waits, or 0
          child,          \* pid |-> the spawn this process really is (history), or 0
          reported,       \* the spawns whose function was called (history), in order
          sigchld,        \* SIGCHLD is pending
          pipe,           \* bytes in the pipe
          reaping,        \* reap_children is in its loop
          messages,       \* startup messages under way, oldest first
          known,          \* sequences libsn keeps
          waits,          \* sn_waits
          timers,         \* sequences with a running timeout
          refs,           \* sequence |-> references to its memory
          launchers,      \* launcher contexts with a running timeout
          others          \* messages sent by others so far

spawnVars == <<process, spawned, runningChildren, child, reported, sigchld, pipe,
               reaping, messages, known, waits, timers, refs, launchers, others>>

childVars == <<process, spawned, runningChildren, child, reported, sigchld, pipe, reaping>>
snVars == <<messages, known, waits, timers, refs, launchers, others>>

SpawnTypeOK ==
    /\ process \in [Pid -> {"free", "running", "zombie"}]
    /\ spawned \in 0..MaxSpawns
    /\ runningChildren \in [Pid -> 0..MaxSpawns]
    /\ child \in [Pid -> 0..MaxSpawns]
    /\ Range(reported) \subseteq 1..MaxSpawns
    /\ sigchld \in BOOLEAN /\ reaping \in BOOLEAN
    /\ pipe \in 0..MaxPipe
    /\ \A i \in DOMAIN messages : messages[i] \in {"new", "remove"} \X Launch
    /\ known \subseteq Launch /\ timers \subseteq Launch /\ launchers \subseteq Launch
    /\ Range(waits) \subseteq Launch
    /\ refs \in [Launch -> 0..3]
    /\ others \in 0..MaxMessages

SpawnInit ==
    /\ process = [p \in Pid |-> "free"]
    /\ spawned = 0
    /\ runningChildren = [p \in Pid |-> 0]
    /\ child = [p \in Pid |-> 0]
    /\ reported = <<>>
    /\ sigchld = FALSE /\ pipe = 0 /\ reaping = FALSE
    /\ messages = <<>>
    /\ known = {} /\ waits = <<>> /\ timers = {} /\ launchers = {}
    /\ refs = [s \in Launch |-> 0]
    /\ others = 0

(***************************************************************************)
(* Children.                                                               *)
(***************************************************************************)
\* running_child_array_insert: a pid that is in the array already stays.
Inserted(p, n) ==
    [runningChildren EXCEPT ![p] = IF @ = 0 THEN n ELSE @]

\* The kernel: a child exits; a pending signal takes the next one in.
Exit(p) ==
    /\ process[p] = "running"
    /\ process' = [process EXCEPT ![p] = "zombie"]
    /\ sigchld' = TRUE
    /\ UNCHANGED <<spawned, runningChildren, child, reported, pipe, reaping>>
    /\ UNCHANGED snVars

\* signal_child
SignalChild ==
    /\ sigchld
    /\ pipe < MaxPipe
    /\ sigchld' = FALSE
    /\ pipe' = pipe + 1
    /\ UNCHANGED <<process, spawned, runningChildren, child, reported, reaping>>
    /\ UNCHANGED snVars

\* reap_children up to its loop: one read takes all that is in the pipe.
ReapBegin ==
    /\ ~reaping
    /\ pipe > 0
    /\ pipe' = 0
    /\ reaping' = TRUE
    /\ UNCHANGED <<process, spawned, runningChildren, child, reported, sigchld>>
    /\ UNCHANGED snVars

\* The loop goes on after a child; a slip would leave it after the first,
\* as if each byte stood for one child.
GoesOnOnce == FALSE
GoesOn == TRUE

\* waitpid finds a zombie; spawn_child_exited takes its entry out and calls
\* the function, whose own actions follow.
ReapChild(p) ==
    /\ reaping
    /\ process[p] = "zombie"
    /\ process' = [process EXCEPT ![p] = "free"]
    /\ reported' = IF runningChildren[p] = 0 THEN reported
                                             ELSE Append(reported, runningChildren[p])
    /\ runningChildren' = [runningChildren EXCEPT ![p] = 0]
    /\ child' = [child EXCEPT ![p] = 0]
    /\ reaping' = GoesOn
    /\ UNCHANGED <<spawned, sigchld, pipe>>
    /\ UNCHANGED snVars

\* waitpid finds no zombie.
ReapEnd ==
    /\ reaping
    /\ \A p \in Pid : process[p] # "zombie"
    /\ reaping' = FALSE
    /\ UNCHANGED <<process, spawned, runningChildren, child, reported, sigchld, pipe>>
    /\ UNCHANGED snVars

(***************************************************************************)
(* Spawning.                                                               *)
(***************************************************************************)
\* A launcher context announces the launch and gets a timeout.
Announce(s) ==
    /\ s \notin launchers /\ refs[s] = 0 /\ s \notin known
    /\ \A i \in DOMAIN messages : messages[i][2] # s
    /\ launchers' = launchers \cup {s}

\* luaA_spawn.  With a function glib leaves the child to awesome, which
\* remembers it; without one glib puts a process in between and reaps that
\* itself, and all awesome may see is a signal.  A launch that fails is
\* completed at once.
LuaSpawn(s, useSn) ==
    /\ IF useSn THEN Announce(s) /\ Len(messages) + 1 < MaxMessages
                ELSE UNCHANGED launchers
    /\ \/ /\ spawned < MaxSpawns
          /\ \E p \in {q \in Pid : process[q] = "free"} :
                /\ process' = [process EXCEPT ![p] = "running"]
                /\ runningChildren' = Inserted(p, spawned + 1)
                /\ child' = [child EXCEPT ![p] = spawned + 1]
          /\ spawned' = spawned + 1
          /\ UNCHANGED sigchld
          /\ messages' = IF useSn THEN Append(messages, <<"new", s>>) ELSE messages
       \/ /\ sigchld' = TRUE
          /\ UNCHANGED <<process, spawned, runningChildren, child>>
          /\ messages' = IF useSn THEN Append(messages, <<"new", s>>) ELSE messages
       \/ /\ useSn
          /\ UNCHANGED <<process, spawned, runningChildren, child, sigchld>>
          /\ messages' = messages \o << <<"new", s>>, <<"remove", s>> >>
    /\ UNCHANGED <<reported, pipe, reaping, known, waits, timers, refs, others>>

\* spawn_launchee_timeout
LauncheeTimeout(s) ==
    /\ s \in launchers
    /\ Len(messages) < MaxMessages
    /\ messages' = Append(messages, <<"remove", s>>)
    /\ launchers' = launchers \ {s}
    /\ UNCHANGED <<known, waits, timers, refs, others>>
    /\ UNCHANGED childVars

\* A launcher or a launched program of someone else sends messages too.
OthersSend(kind, s) ==
    /\ others < MaxMessages
    /\ Len(messages) < MaxMessages
    /\ messages' = Append(messages, <<kind, s>>)
    /\ others' = others + 1
    /\ UNCHANGED <<known, waits, timers, refs, launchers>>
    /\ UNCHANGED childVars

(***************************************************************************)
(* Startup sequences.                                                      *)
(***************************************************************************)
InitiatedRefs == 2

\* spawn_sequence_remove: gives the reference of the list back, if there is one.
InWaits(s) == s \in Range(waits)
RemovedRefs(s) == IF InWaits(s) THEN 1 ELSE 0

\* spawn_monitor_event, for the event libsn makes of the oldest message; a
\* message that fits no sequence, or announces it again, makes none.
MonitorEvent ==
    /\ messages # <<>>
    /\ messages' = Tail(messages)
    /\ LET kind == Head(messages)[1]
           s == Head(messages)[2]
       IN \/ /\ kind = "new" /\ s \notin known /\ refs[s] = 0
             /\ known' = known \cup {s}
             /\ waits' = Append(waits, s)
             /\ timers' = timers \cup {s}
             /\ refs' = [refs EXCEPT ![s] = 1 + InitiatedRefs]
          \/ /\ kind = "remove" /\ s \in known
             /\ waits' = RemoveFirst(waits, s)
             /\ known' = known \ {s}
             /\ refs' = [refs EXCEPT ![s] = IF @ >= RemovedRefs(s) + 1
                                            THEN @ - RemovedRefs(s) - 1 ELSE 0]
             /\ UNCHANGED timers
          \/ /\ IF kind = "new" THEN s \in known \/ refs[s] > 0 ELSE s \notin known
             /\ UNCHANGED <<known, waits, timers, refs>>
    /\ UNCHANGED <<launchers, others>>
    /\ UNCHANGED childVars

\* spawn_monitor_timeout
MonitorTimeout(s) ==
    /\ s \in timers
    /\ timers' = timers \ {s}
    /\ waits' = RemoveFirst(waits, s)
    /\ refs' = [refs EXCEPT ![s] = IF @ >= RemovedRefs(s) + 1
                                   THEN @ - RemovedRefs(s) - 1 ELSE 0]
    /\ UNCHANGED <<messages, known, launchers, others>>
    /\ UNCHANGED childVars

\* spawn_start_notify: a client appeared, perhaps with a startup id (own) and
\* perhaps with the class that some sequences name (alike); the first
\* sequence that fits is completed.
Fits(s, own, alike) == {s} # own \/ s \in alike

SpawnStartNotify(own, alike) ==
    /\ Len(messages) < MaxMessages
    /\ \E i \in DOMAIN waits :
          /\ Fits(waits[i], own, alike)
          /\ \A j \in 1..i - 1 : ~Fits(waits[j], own, alike)
          /\ messages' = Append(messages, <<"remove", waits[i]>>)
    /\ UNCHANGED <<known, waits, timers, refs, launchers, others>>
    /\ UNCHANGED childVars

SpawnNext ==
    \/ \E p \in Pid : Exit(p) \/ ReapChild(p)
    \/ SignalChild \/ ReapBegin \/ ReapEnd
    \/ \E s \in Launch, useSn \in BOOLEAN : LuaSpawn(s, useSn)
    \/ \E s \in Launch : LauncheeTimeout(s) \/ MonitorTimeout(s)
    \/ \E kind \in {"new", "remove"}, s \in Launch : OthersSend(kind, s)
    \/ MonitorEvent
    \/ \E own \in {{}} \cup {{s} : s \in Launch}, alike \in SUBSET Launch :
          SpawnStartNotify(own, alike)

SpawnSpec == SpawnInit /\ [][SpawnNext]_spawnVars

(***************************************************************************)
(* Properties.                                                             *)
(***************************************************************************)
\* No child is forgotten: while there is a zombie, a wakeup is on its way (a
\* pending signal, a byte in the pipe or the running loop), however exits,
\* signals and the loop interleave; and the function that waits on a pid is
\* the one of the child that has the pid, so that every function is called
\* once, for its own child, although pids are used again.
NoChildIsForgotten ==
    /\ (\E p \in Pid : process[p] = "zombie") => sigchld \/ pipe > 0 \/ reaping
    /\ runningChildren = child
    /\ IsInjective(reported)

\* The memory of a startup sequence lives as long as libsn, the list of
\* waiting sequences or a timeout points to it, in whatever order messages,
\* timeouts and starting clients end it, and no longer.
SequencesLiveLongEnough ==
    \A s \in Launch :
        refs[s] = Cardinality({w \in {"libsn"} : s \in known})
                    + Cardinality({i \in DOMAIN waits : waits[i] = s})
                    + Cardinality({w \in {"timer"} : s \in timers})

\* Together: every exit reaches the function that waits for it, and every startup sequence
\* is freed once, when nothing points to it any more.
SpawnInv == SpawnTypeOK /\ NoChildIsForgotten /\ SequencesLiveLongEnough
=============================================================================
