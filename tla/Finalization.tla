---------------------------- MODULE Finalization ----------------------------
(***************************************************************************)
(* Finalization: finalization.dylan.                                       *)
(*                                                                         *)
(* Objects found unreachable by the garbage collector are queued, and      *)
(* drain-finalization-queue takes them off and calls finalize on them.     *)
(* While automatic finalization is enabled a draining thread does that     *)
(* regularly.  It is started by the setter, and stops by itself when it    *)
(* next finds the switch off; the two agree through                        *)
(* *draining-thread-active?* under *automatic-finalization-lock*.          *)
(*                                                                         *)
(* The setter starts the thread with make(<thread>), whose initialize      *)
(* first drains the finalization queue: finalize methods run while the     *)
(* setter has the lock.                                                    *)
(***************************************************************************)
EXTENDS FiniteSets

CONSTANTS
  Clients,    \* the threads that set automatic-finalization-enabled?
  Drainers,   \* bound: the draining threads there may be at one time
  Objects,    \* the objects registered with finalize-when-unreachable
  Nobody      \* the lock is free

ASSUME FinalizationAssumption ==
  /\ Nobody \notin Clients \cup Drainers
  /\ Clients \cap Drainers = {}

VARIABLES
  automatic,      \* *automatic-finalization?*
  active,         \* *draining-thread-active?*
  automaticLock,  \* the owner of *automatic-finalization-lock*
  queue,          \* the finalization queue
  finalized,      \* the objects on which finalize has been called
  place           \* where each thread is

finalizationVars == <<automatic, active, automaticLock, queue, finalized, place>>

ClientLabels == {"idle", "on_lock", "off_lock", "on_test", "off_set", "on_drain", "on_make",
                 "on_set", "unlock"}
DrainerLabels == {"none", "continue", "sleep", "drain"}

FinalizationTypeOK ==
  /\ automatic \in BOOLEAN
  /\ active \in BOOLEAN
  /\ automaticLock \in Clients \cup {Nobody}
  /\ queue \subseteq Objects
  /\ finalized \subseteq Objects
  /\ place \in [Clients \cup Drainers -> ClientLabels \cup DrainerLabels]

FinalizationInit ==
  /\ automatic = FALSE
  /\ active = FALSE
  /\ automaticLock = Nobody
  /\ queue = {}
  /\ finalized = {}
  /\ place = [t \in Clients \cup Drainers |-> IF t \in Clients THEN "idle" ELSE "none"]

Move(t, from, to) ==
  /\ place[t] = from
  /\ place' = [place EXCEPT ![t] = to]

-----------------------------------------------------------------------------
(* The collector and the queue (external: the Memory Pool System).         *)

\* The collector finds a registered object unreachable and queues it, once.
Unreachable(o) ==
  /\ o \notin queue \cup finalized
  /\ queue' = queue \cup {o}
  /\ UNCHANGED <<automatic, active, automaticLock, finalized, place>>

\* mm-finalization-queue-first takes an object off, and finalize is called.
FinalizeFirst ==
  \E o \in queue : queue' = queue \ {o} /\ finalized' = finalized \cup {o}

-----------------------------------------------------------------------------
(* automatic-finalization-enabled?-setter.                                 *)

SetEnabled(c, newval) ==
  /\ Move(c, "idle", IF newval THEN "on_lock" ELSE "off_lock")
  /\ UNCHANGED <<automatic, active, automaticLock, queue, finalized>>

SetterLock(c) ==
  /\ Move(c, "on_lock", "on_test") \/ Move(c, "off_lock", "off_set")
  /\ automaticLock = Nobody
  /\ automaticLock' = c
  /\ UNCHANGED <<automatic, active, queue, finalized>>

SetOff(c) ==
  /\ Move(c, "off_set", "unlock")
  /\ automatic' = FALSE
  /\ UNCHANGED <<active, automaticLock, queue, finalized>>

\* Mutant: a thread is started for every change to #t.
SetOn_IgnoresActive(c) ==
  /\ Move(c, "on_test", IF automatic THEN "unlock" ELSE "on_drain")
  /\ UNCHANGED <<automatic, active, automaticLock, queue, finalized>>

\* Only a change to #t with no draining thread left starts a new one.
SetOn(c) ==
  /\ Move(c, "on_test", IF automatic THEN "unlock"
                        ELSE IF active THEN "on_set" ELSE "on_drain")
  /\ UNCHANGED <<automatic, active, automaticLock, queue, finalized>>

\* initialize (<thread>) calls drain-finalization-queue.
SetterDrain(c) ==
  /\ \/ queue # {} /\ Move(c, "on_drain", "on_drain") /\ FinalizeFirst
     \/ queue = {} /\ Move(c, "on_drain", "on_make") /\ UNCHANGED <<queue, finalized>>
  /\ UNCHANGED <<automatic, active, automaticLock>>

\* The thread is made and runs at once; the flag is set after that.
SetterMakeThread(c) ==
  /\ place[c] = "on_make"
  /\ \E d \in Drainers :
       /\ place[d] = "none"
       /\ place' = [place EXCEPT ![c] = "on_set", ![d] = "continue"]
  /\ active' = TRUE
  /\ UNCHANGED <<automatic, automaticLock, queue, finalized>>

SetterSet(c) ==
  /\ Move(c, "on_set", "unlock")
  /\ automatic' = TRUE
  /\ UNCHANGED <<active, automaticLock, queue, finalized>>

SetterUnlock(c) ==
  /\ Move(c, "unlock", "idle")
  /\ automaticLock' = Nobody
  /\ UNCHANGED <<automatic, active, queue, finalized>>

-----------------------------------------------------------------------------
(* automatic-finalization-function, the draining thread.                   *)

\* Mutant: the draining thread never stops.
Continue_Always(d) ==
  /\ automaticLock = Nobody
  /\ Move(d, "continue", "sleep")
  /\ UNCHANGED <<automatic, active, automaticLock, queue, finalized>>

\* continue?: the whole of its with-lock.  Off: the thread ends.
Continue(d) ==
  /\ automaticLock = Nobody
  /\ Move(d, "continue", IF automatic THEN "sleep" ELSE "none")
  /\ active' = (active /\ automatic)
  /\ UNCHANGED <<automatic, automaticLock, queue, finalized>>

\* mm-finalization-queue-first-block sleeps for a second first.
Sleep(d) ==
  /\ Move(d, "sleep", "drain")
  /\ UNCHANGED <<automatic, active, automaticLock, queue, finalized>>

\* Mutant: the loop ends when there is an object, not when there is none.
Drain_Inverted(d) ==
  /\ Move(d, "drain", "continue")
  /\ UNCHANGED <<automatic, active, automaticLock, queue, finalized>>

Drain(d) ==
  /\ \/ queue # {} /\ Move(d, "drain", "drain") /\ FinalizeFirst
     \/ queue = {} /\ Move(d, "drain", "continue") /\ UNCHANGED <<queue, finalized>>
  /\ UNCHANGED <<automatic, active, automaticLock>>

-----------------------------------------------------------------------------
SetterStep(c) ==
  \/ SetterLock(c) \/ SetOff(c) \/ SetOn(c) \/ SetterDrain(c) \/ SetterMakeThread(c)
  \/ SetterSet(c) \/ SetterUnlock(c)

DrainerStep(d) == Continue(d) \/ Sleep(d) \/ Drain(d)

FinalizationNext ==
  \/ \E o \in Objects : Unreachable(o)
  \/ \E c \in Clients : SetterStep(c) \/ \E newval \in BOOLEAN : SetEnabled(c, newval)
  \/ \E d \in Drainers : DrainerStep(d)

FinalizationSpec == FinalizationInit /\ [][FinalizationNext]_finalizationVars

\* Threads that can run do run and get the lock in the end; finalize methods
\* return.  Nobody has to call the setter.
FinalizationFairness ==
  /\ \A c \in Clients : WF_finalizationVars(SetterStep(c)) /\ SF_finalizationVars(SetterLock(c))
  /\ \A d \in Drainers : WF_finalizationVars(DrainerStep(d)) /\ SF_finalizationVars(Continue(d))

FinalizationFairSpec == FinalizationSpec /\ FinalizationFairness

-----------------------------------------------------------------------------
(* Properties.                                                             *)

Draining == {d \in Drainers : place[d] # "none"}

\* However the switch is flicked, there is never a second draining thread, and
\* when nobody is inside the setter the flag says whether there is one and an
\* enabled switch means that there is one.
OneDrainingThread ==
  /\ \A d, e \in Draining : d = e
  /\ automaticLock = Nobody => (active <=> Draining # {}) /\ (automatic => active)

\* While automatic finalization stays enabled, what is queued is finalized.
QueueIsDrained ==
  []<>(~automatic) \/ \A o \in Objects : o \in queue ~> o \in finalized

\* "If the state changes from #t to #f, then the finalization thread will exit":
\* once the switch stays off there is in the end no draining thread.
DrainingThreadExits ==
  []<>(automatic \/ \E c \in Clients : place[c] # "idle") \/ <>[](Draining = {})
=============================================================================
