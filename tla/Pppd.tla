-------------------------------- MODULE Pppd --------------------------------
(***************************************************************************)
(* The pppd child of a client on Unix (ppp.Start, Process.Close and        *)
(* cleanupOrphan), the file that names it, and the process table of the    *)
(* host, where a pppd outlives a client that was killed, takes its time to *)
(* exit, may hang inside the kernel, and leaves its PID to other programs. *)
(*                                                                         *)
(* The routines run inside a client that has one of them in progress at a  *)
(* time; step tells how far it has got.                                    *)
(***************************************************************************)
EXTENDS Integers, FiniteSets

CONSTANTS
  Pids,        \* process IDs of the host
  None,        \* no process
  Empty,       \* what stands in a file without a number in it
  MaxStuck,    \* bound on how often a pppd hangs in an uninterruptible call
  MaxMishaps   \* bound on the failures of pty.Start, of the file's I/O and of ps

ASSUME PppdAssumption ==
  /\ None \notin Pids /\ Empty \notin Pids /\ Empty # None
  /\ MaxStuck \in Nat /\ MaxMishaps \in Nat

VARIABLES
  \* the host
  os,          \* what runs under a PID: "free", "pppd" (one of ours) or "other"
  stuck,       \* the pppds that hang in the kernel and take no signal
  killed,      \* the pppds that were sent SIGKILL
  pidfile,     \* pidFilePath: a PID, Empty, or None where there is no file
  \* the client
  step,        \* where Start or Close is, "idle" between them
  target,      \* the PID cleanupOrphan read
  child,       \* t.pppdProc, from pty.Start to the return of connect
  gone,        \* the processes whose waitDone is closed: Wait has reaped them
  deferred,    \* the processes whose close waits in a goroutine
  \* bounds and history
  hangs, mishaps,
  escaped,     \* the pppds the file stopped naming, or never named
  astray       \* a signal went to a process that is not ours

hostVars   == <<os, stuck, killed, pidfile>>
clientVars == <<step, target, child, gone, deferred>>
ghostVars  == <<hangs, mishaps, escaped, astray>>
pppdVars   == <<hostVars, clientVars, ghostVars>>

Steps == {"idle", "clean", "look", "poll", "launch", "failed", "record", "up",
          "term", "kill", "closed"}

Live(p) == os[p] = "pppd"
Running == {p \in Pids : os[p] # "free"}       \* kill(pid, 0) succeeds

PppdInit ==
  /\ os = [p \in Pids |-> "free"] /\ stuck = {} /\ killed = {} /\ pidfile = None
  /\ step = "idle" /\ target = None /\ child = None /\ gone = {} /\ deferred = {}
  /\ hangs = 0 /\ mishaps = 0 /\ escaped = {} /\ astray = FALSE

Mishap == mishaps < MaxMishaps /\ mishaps' = mishaps + 1

\* What kill(2) does to the history.
Signal(p) == astray' = (astray \/ os[p] = "other")

-----------------------------------------------------------------------------
(* cleanupOrphan                                                           *)

\* A pppd that the file names, and will not name or not be asked about any more.
LoseNamed == escaped' = escaped \cup {p \in Pids : p = pidfile /\ Live(p)}

ReadPidFile ==
  /\ step = "clean"
  /\ \/ /\ pidfile \in Running
        /\ step' = "look" /\ target' = pidfile
        /\ UNCHANGED <<pidfile, mishaps, escaped>>
     \/ /\ pidfile \notin Running
        /\ pidfile' = None /\ step' = "launch"
        /\ UNCHANGED <<target, mishaps, escaped>>
     \/ /\ pidfile # None /\ Mishap /\ LoseNamed     \* os.ReadFile fails: a warning
        /\ step' = "launch"
        /\ UNCHANGED <<target, pidfile>>
  /\ UNCHANGED <<os, stuck, killed, child, gone, deferred, hangs, astray>>

\* Faulty: takes the PID for the pppd it once was.
LookAtNothing ==
  /\ step = "look"
  /\ Signal(target) /\ step' = "poll"
  /\ UNCHANGED <<target, pidfile, mishaps, escaped>>
  /\ UNCHANGED <<os, stuck, killed, child, gone, deferred, hangs>>

\* isOurPPPD asks ps; SIGTERM follows at once.
LookAtTarget ==
  /\ step = "look"
  /\ \/ /\ Live(target)
        /\ Signal(target) /\ step' = "poll"
        /\ UNCHANGED <<target, pidfile, mishaps, escaped>>
     \/ /\ ~Live(target)
        /\ pidfile' = None /\ step' = "launch" /\ target' = None
        /\ UNCHANGED <<mishaps, escaped, astray>>
     \/ /\ Live(target) /\ Mishap                    \* ps fails
        /\ escaped' = escaped \cup {target}
        /\ pidfile' = None /\ step' = "launch" /\ target' = None
        /\ UNCHANGED astray
  /\ UNCHANGED <<os, stuck, killed, child, gone, deferred, hangs>>

\* Faulty: ten seconds are enough for SIGTERM.
PollOnly ==
  /\ step = "poll"
  /\ pidfile' = None /\ step' = "launch" /\ target' = None
  /\ UNCHANGED <<os, stuck, killed, child, gone, deferred, hangs, mishaps, escaped, astray>>

\* The hundred polls end with the process, or without it and with SIGKILL, whose
\* effect nobody waits for.
PollTarget ==
  /\ step = "poll"
  /\ \/ target \notin Running /\ UNCHANGED <<killed, astray>>
     \/ /\ target \in Running
        /\ Signal(target)
        /\ killed' = killed \cup {p \in {target} : Live(p)}
  /\ pidfile' = None /\ step' = "launch" /\ target' = None
  /\ UNCHANGED <<os, stuck, child, gone, deferred, hangs, mishaps, escaped>>

-----------------------------------------------------------------------------
(* Start                                                                   *)

BeginStart ==
  /\ step = "idle" /\ step' = "clean"
  /\ UNCHANGED <<hostVars, target, child, gone, deferred, ghostVars>>

\* The PID of a pppd whose close is deferred does not come back so soon.
FreePids == (Pids \ Running) \ deferred

\* pty.Start, which fails where no PID is left, too
Launch ==
  /\ step = "launch"
  /\ \/ \E p \in FreePids :
          /\ os' = [os EXCEPT ![p] = "pppd"] /\ child' = p /\ step' = "record"
          /\ gone' = gone \ {p}
          /\ UNCHANGED mishaps
     \/ /\ (FreePids = {} /\ UNCHANGED mishaps) \/ Mishap
        /\ step' = "failed"
        /\ UNCHANGED <<os, child, gone>>
  /\ UNCHANGED <<stuck, killed, pidfile, target, deferred, hangs, escaped, astray>>

RecordPid ==
  /\ step = "record"
  /\ \/ pidfile' = child /\ UNCHANGED <<mishaps, escaped>>
     \/ Mishap /\ escaped' = escaped \cup {p \in {child} : Live(p)} /\ UNCHANGED pidfile
  /\ step' = "up"
  /\ UNCHANGED <<os, stuck, killed, target, child, gone, deferred, hangs, astray>>

\* Faulty: the error of pty.Start is not returned.
StartAnyway ==
  /\ step = "failed" /\ step' = "up"
  /\ UNCHANGED <<hostVars, target, child, gone, deferred, ghostVars>>

\* Start returns its error.
StartFails ==
  /\ step = "failed" /\ step' = "idle"
  /\ UNCHANGED <<hostVars, target, child, gone, deferred, ghostVars>>

-----------------------------------------------------------------------------
(* Close: os.Process knows a process that was reaped and sends it nothing. *)

FinishClose ==
  /\ step \in {"term", "kill"} /\ child \in gone
  /\ pidfile' = None /\ step' = "closed"
  /\ UNCHANGED <<os, stuck, killed, target, child, gone, deferred>>
  /\ UNCHANGED ghostVars

BeginClose ==
  /\ step = "up" /\ step' = "term"
  /\ IF child \in gone THEN UNCHANGED astray ELSE Signal(child)
  /\ UNCHANGED <<hostVars, target, child, gone, deferred, hangs, mishaps, escaped>>

\* Three seconds after SIGTERM.
KillChild ==
  /\ step = "term" /\ child \notin gone
  /\ Signal(child) /\ killed' = killed \cup {p \in {child} : Live(p)}
  /\ step' = "kill"
  /\ UNCHANGED <<os, stuck, pidfile, target, child, gone, deferred, hangs, mishaps, escaped>>

\* Three seconds after SIGKILL.
DeferClose ==
  /\ step = "kill" /\ child \notin gone
  /\ deferred' = deferred \cup {child}
  /\ step' = "closed"
  /\ UNCHANGED <<hostVars, target, child, gone, ghostVars>>

\* connect returns and forgets the process; further calls of Close did nothing.
Forget ==
  /\ step = "closed" /\ step' = "idle" /\ child' = None
  /\ gone' = gone \cap deferred
  /\ UNCHANGED <<hostVars, target, deferred, ghostVars>>

\* The goroutine Close left behind removes the file whoever it names by now.
DeferredClose(p) ==
  /\ p \in deferred \cap gone
  /\ pidfile' = None /\ LoseNamed
  /\ deferred' = deferred \ {p} /\ gone' = gone \ ({p} \ {child})
  /\ UNCHANGED <<os, stuck, killed, step, target, child, hangs, mishaps, astray>>

-----------------------------------------------------------------------------
(* The host.  A PID may be used again, but not within the ten seconds that *)
(* cleanupOrphan has its eyes on it.  Of the other programs only those     *)
(* matter that get a PID the client or its file still knows.               *)

PppdExits(p) ==
  /\ Live(p) /\ p \notin stuck
  /\ os' = [os EXCEPT ![p] = "free"]
  /\ killed' = killed \ {p} /\ escaped' = escaped \ {p}
  /\ gone' = gone \cup ({p} \cap ({child} \cup deferred))
  /\ UNCHANGED <<stuck, pidfile, step, target, child, deferred, hangs, mishaps, astray>>

PppdHangs(p) ==
  /\ Live(p) /\ p \notin stuck /\ hangs < MaxStuck
  /\ stuck' = stuck \cup {p} /\ hangs' = hangs + 1
  /\ UNCHANGED <<os, killed, pidfile, clientVars, mishaps, escaped, astray>>

PppdWakes(p) ==
  /\ p \in stuck
  /\ stuck' = stuck \ {p}
  /\ UNCHANGED <<os, killed, pidfile, clientVars, ghostVars>>

OtherStarts(p) ==
  /\ os[p] = "free" /\ p # target /\ p \in {pidfile, child} \cup deferred
  /\ os' = [os EXCEPT ![p] = "other"]
  /\ UNCHANGED <<stuck, killed, pidfile, clientVars, ghostVars>>

OtherExits(p) ==
  /\ os[p] = "other"
  /\ os' = [os EXCEPT ![p] = "free"]
  /\ UNCHANGED <<stuck, killed, pidfile, clientVars, ghostVars>>

Host ==
  \E p \in Pids : \/ PppdExits(p) \/ PppdHangs(p) \/ PppdWakes(p)
                  \/ OtherStarts(p) \/ OtherExits(p)

-----------------------------------------------------------------------------
\* The client is gone, from one moment to the next, and its memory with it.  The file
\* may have been opened and not written yet.
ClientGone ==
  /\ step' = "idle" /\ target' = None /\ child' = None /\ gone' = {} /\ deferred' = {}
  /\ \/ step = "record" /\ pidfile' = Empty
     \/ UNCHANGED pidfile
  /\ escaped' = escaped \cup {p \in Pids : p = child /\ Live(p) /\ step = "record"}
  /\ UNCHANGED <<os, stuck, killed, hangs, mishaps, astray>>

PppdStep ==
  \/ ReadPidFile \/ LookAtTarget \/ PollTarget \/ Launch \/ RecordPid
  \/ FinishClose \/ KillChild \/ DeferClose
  \/ \E p \in Pids : DeferredClose(p)
=============================================================================
