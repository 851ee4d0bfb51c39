------------------------------- MODULE VMShim -------------------------------
(***************************************************************************)
(* The VM of one sandbox: the worker that creates it, attaches to it,      *)
(* stops it and reaps it; the shims that run Firecracker for it, in        *)
(* processes of their own; and the files they share in the sandbox's       *)
(* directory.  Any of these processes ends at any point.                   *)
(*                                                                         *)
(* One action is one system call that another process can observe.  The    *)
(* Manager lets one goroutine at a time work on a sandbox (OneOwner in     *)
(* SandboxManager), so the worker is one sequence of steps.  Process IDs   *)
(* are not reused, and an exit code is the shim whose VM exited with it.   *)
(***************************************************************************)
CONSTANTS
    Shim,       \* identities for shim processes
    NoShim,
    DiskFails   \* whether files and volumes may fail to be written or removed

ASSUME ShimAssumption ==
    /\ NoShim \notin Shim
    /\ "none" \notin Shim /\ "died" \notin Shim
    /\ DiskFails \in BOOLEAN

VARIABLES
    dir,       \* the sandbox's directory exists
    volume,    \* the device of its thin volume exists
    stuck,     \* it has no live table, and cannot be removed
    pidFile,   \* shim.pid
    exitFile,  \* shim.exit
    sock,      \* the shim that bound shim.sock, if the file is there
    shim,      \* the shims
    worker     \* the worker process

files == <<dir, pidFile, exitFile, sock>>
vars == <<files, volume, stuck, shim, worker>>

-----------------------------------------------------------------------------
(* Where serve is: about to listen, to write its pid file, to register for *)
(* signals, to start Firecracker; waiting for it; about to record its      *)
(* exit, to tell the clients, to close the listener.                       *)
ShimPC == {"off", "listen", "pid", "notify", "fork", "wait", "record", "tell", "close", "gone"}

(* Firecracker: started, holding its drive, running.                       *)
FC == {"none", "started", "open", "running", "gone"}

(* The worker's connection to the shim: in the socket's queue, accepted,   *)
(* with the exit line on its way, dropped.                                 *)
Conn == {"none", "queued", "accepted", "line", "eof"}

(* term: SIGTERM was forwarded.  killed: the shim did not end by itself.   *)
(* lost: its pid or exit file could not be written, or was removed.        *)
ShimProcess == [pc : ShimPC, fc : FC, conn : Conn,
                term : BOOLEAN, killed : BOOLEAN, lost : BOOLEAN]
NewShim == [pc |-> "listen", fc |-> "none", conn |-> "none",
            term |-> FALSE, killed |-> FALSE, lost |-> FALSE]
NoProcess == [NewShim EXCEPT !.pc = "off"]

(* "idle": the sandbox is not tracked, and nobody works on it.             *)
WorkerPC == {"idle", "volume", "clear", "start", "dial", "boot", "tracked",
             "term", "grace", "killed", "cleanup", "rmdir",
             "attach", "exited", "connect", "killStale", "find"}

(* pid, peer, result: the Handle, once there is one: the shim it signals,  *)
(* the shim it is connected to, and what its Wait returns.  after: where a *)
(* Stop goes on.                                                           *)
Worker == [pc : WorkerPC, pid : Shim \cup {NoShim}, peer : Shim \cup {NoShim},
           result : {"none", "died"} \cup Shim, after : {"tracked", "cleanup"}]
Idle == [pc |-> "idle", pid |-> NoShim, peer |-> NoShim, result |-> "none", after |-> "cleanup"]

Init ==
    /\ dir = FALSE
    /\ volume = FALSE
    /\ stuck = FALSE
    /\ pidFile = NoShim
    /\ exitFile = NoShim
    /\ sock = NoShim
    /\ shim = [h \in Shim |-> NoProcess]
    /\ worker = Idle

Alive(h) == shim[h].pc \notin {"off", "gone"}
Listening(h) == Alive(h) /\ shim[h].pc # "listen"
HasVM(h) == shim[h].fc \in {"started", "open", "running"}
Holds(h) == shim[h].fc \in {"open", "running"}
Busy == \E h \in Shim : Holds(h)

Becomes(h, p) == shim' = [shim EXCEPT ![h] = p]
ShimGoto(h, pc) == shim' = [shim EXCEPT ![h].pc = pc]
Goto(pc) == worker' = [worker EXCEPT !.pc = pc]

(* The process is gone, and its sockets with it.                           *)
Gone(p) == [p EXCEPT !.pc = "gone",
                     !.conn = IF @ \in {"queued", "accepted"} THEN "eof" ELSE @]
Killed(p) == [Gone(p) EXCEPT !.killed = TRUE]

-----------------------------------------------------------------------------
(* The shim.                                                               *)

Listen(h) ==
    /\ shim[h].pc = "listen"
    /\ IF dir
       THEN sock' = h /\ ShimGoto(h, "pid")
       ELSE UNCHANGED sock /\ Becomes(h, Gone(shim[h]))
    /\ UNCHANGED <<dir, pidFile, exitFile, volume, stuck, worker>>

(* From here on connections are accepted; or, on a failure, serve returns. *)
WritePidFile(h) ==
    /\ shim[h].pc = "pid"
    /\ \/ /\ dir
          /\ pidFile' = h
          /\ ShimGoto(h, "notify")
          /\ UNCHANGED sock
       \/ /\ DiskFails \/ ~dir
          /\ sock' = NoShim
          /\ Becomes(h, [Gone(shim[h]) EXCEPT !.lost = TRUE])
          /\ UNCHANGED pidFile
    /\ UNCHANGED <<dir, exitFile, volume, stuck, worker>>

(* SIGTERM no longer ends the shim.                                        *)
Notify(h) ==
    /\ shim[h].pc = "notify"
    /\ ShimGoto(h, "fork")
    /\ UNCHANGED <<files, volume, stuck, worker>>

(* A Firecracker that does not start is one that exited with -1.           *)
StartFirecracker(h) ==
    /\ shim[h].pc = "fork"
    /\ \/ Becomes(h, [shim[h] EXCEPT !.pc = "wait", !.fc = "started"])
       \/ Becomes(h, [shim[h] EXCEPT !.pc = "record", !.fc = "gone"])
    /\ UNCHANGED <<files, volume, stuck, worker>>

CollectExit(h) ==
    /\ shim[h].pc = "wait"
    /\ shim[h].fc = "gone"
    /\ ShimGoto(h, "record")
    /\ UNCHANGED <<files, volume, stuck, worker>>

(* A failure is only logged.                                               *)
WriteExit(h) ==
    /\ shim[h].pc = "record"
    /\ \/ /\ dir
          /\ exitFile' = h
          /\ ShimGoto(h, "tell")
       \/ /\ DiskFails \/ ~dir
          /\ UNCHANGED exitFile
          /\ Becomes(h, [shim[h] EXCEPT !.pc = "tell", !.lost = TRUE])
    /\ UNCHANGED <<dir, pidFile, sock, volume, stuck, worker>>

(* finish: the exit line to the clients accepted so far.                   *)
Finish(h) ==
    /\ shim[h].pc = "tell"
    /\ Becomes(h, [shim[h] EXCEPT !.pc = "close",
                                  !.conn = IF @ = "accepted" THEN "line" ELSE @])
    /\ UNCHANGED <<files, volume, stuck, worker>>

(* Accept goes on until the listener is closed, and tells late clients.    *)
Accept(h) ==
    /\ Listening(h)
    /\ shim[h].pc # "pid"
    /\ shim[h].conn = "queued"
    /\ shim' = [shim EXCEPT ![h].conn = IF shim[h].pc = "close" THEN "line" ELSE "accepted"]
    /\ UNCHANGED <<files, volume, stuck, worker>>

(* Faulty: connections still in the queue are left there.                  *)
CloseListenerOnly(h) ==
    /\ shim[h].pc = "close"
    /\ ShimGoto(h, "gone")
    /\ sock' = NoShim
    /\ UNCHANGED <<dir, pidFile, exitFile, volume, stuck, worker>>

(* The socket file is unlinked by its name, whoever bound it; what is      *)
(* still in the queue is dropped; serve returns.                           *)
CloseListener(h) ==
    /\ shim[h].pc = "close"
    /\ Becomes(h, Gone(shim[h]))
    /\ sock' = NoShim
    /\ UNCHANGED <<dir, pidFile, exitFile, volume, stuck, worker>>

ShimStep(h) ==
    \/ Listen(h)
    \/ WritePidFile(h)
    \/ Notify(h)
    \/ StartFirecracker(h)
    \/ CollectExit(h)
    \/ WriteExit(h)
    \/ Finish(h)
    \/ CloseListener(h)

(* The shim dies, whatever kills it.                                       *)
ShimDies(h) ==
    /\ Alive(h)
    /\ Becomes(h, Killed(shim[h]))
    /\ UNCHANGED <<files, volume, stuck, worker>>

-----------------------------------------------------------------------------
(* Firecracker.                                                            *)

(* It reads vm.json, then opens its drive.                                 *)
OpenDrive(h) ==
    /\ shim[h].fc = "started"
    /\ dir
    /\ volume
    /\ shim' = [shim EXCEPT ![h].fc = "open"]
    /\ UNCHANGED <<files, volume, stuck, worker>>

BootVM(h) ==
    /\ shim[h].fc = "open"
    /\ shim' = [shim EXCEPT ![h].fc = "running"]
    /\ UNCHANGED <<files, volume, stuck, worker>>

ExitVM(h) ==
    /\ HasVM(h)
    /\ shim' = [shim EXCEPT ![h].fc = "gone"]
    /\ UNCHANGED <<files, volume, stuck, worker>>

(* It was told to stop, its shim is gone (Pdeathsig), or it has no drive.  *)
Doomed(h) ==
    \/ shim[h].term
    \/ ~Alive(h)
    \/ shim[h].fc = "started" /\ ~(dir /\ volume)

-----------------------------------------------------------------------------
(* The worker: creating the VM.                                            *)

(* A timing assumption, in no line of the worker: when an ID is created    *)
(* again, every shim it had before has ended, unless its VM still has the  *)
(* old volume open (then CreateVolume fails).  An untracked shim without a *)
(* drive, and one that told its exit and is about to close its listener,   *)
(* need milliseconds to end; the orchestrator's retry takes seconds.  Only *)
(* a request that was delayed in the network until just then comes sooner. *)
OldShimsEnded == \A h \in Shim : Alive(h) \/ HasVM(h) => Holds(h)

(* newFirecrackerVM, for an ID that is not tracked.                        *)
Create ==
    /\ worker = Idle
    /\ OldShimsEnded
    /\ dir' = TRUE
    /\ Goto("volume")
    /\ UNCHANGED <<pidFile, exitFile, sock, volume, stuck, shim>>

(* Every failure of a create goes on to stop and clean up.  CreateVolume   *)
(* fails, among others, if the device exists; the removal that undoes one  *)
(* may fail too.                                                           *)
CreateVolume ==
    /\ worker.pc = "volume"
    /\ \/ ~volume /\ volume' = TRUE /\ UNCHANGED stuck /\ Goto("clear")
       \/ UNCHANGED <<volume, stuck>> /\ Goto("cleanup")
       \/ DiskFails /\ ~volume /\ volume' = TRUE /\ stuck' \in BOOLEAN /\ Goto("cleanup")
    /\ UNCHANGED <<files, shim>>

(* Faulty: the exit of an earlier VM is left.                              *)
KeepExit ==
    /\ worker.pc = "clear"
    /\ Goto("start")
    /\ UNCHANGED <<files, volume, stuck, shim>>

(* Spawn: "An exit left by a previous run must not pass for this VM's".    *)
ClearExit ==
    /\ worker.pc = "clear"
    /\ \/ exitFile' = NoShim /\ Goto("start")
       \/ DiskFails /\ UNCHANGED exitFile /\ Goto("cleanup")
    /\ UNCHANGED <<dir, pidFile, sock, volume, stuck, shim>>

(* An identity nothing refers to any more.                                 *)
Free(h) == ~Alive(h) /\ ~HasVM(h) /\ h \notin {pidFile, exitFile, sock}

StartShim ==
    /\ worker.pc = "start"
    /\ \/ \E h \in Shim :
              /\ Free(h)
              /\ Becomes(h, NewShim)
              /\ worker' = [worker EXCEPT !.pc = "dial", !.pid = h]
       \/ Goto("cleanup") /\ UNCHANGED shim
    /\ UNCHANGED <<files, volume, stuck>>

CanConnect == sock # NoShim /\ Listening(sock)

Connects(pid) ==
    /\ CanConnect
    /\ shim' = [shim EXCEPT ![sock].conn = "queued"]
    /\ worker' = [worker EXCEPT !.pid = pid, !.peer = sock,
                                !.pc = IF @ = "dial" THEN "boot" ELSE "tracked"]

(* Spawn's loop: connected; or the shim ended first, having recorded an    *)
(* exit or not; or connectTimeout is over, and the shim is killed, even if *)
(* it listens by now.                                                      *)
Dial ==
    /\ worker.pc = "dial"
    /\ \/ Connects(worker.pid)
       \/ /\ ~CanConnect
          /\ ~Alive(worker.pid)
          /\ worker' = IF exitFile = NoShim THEN [Idle EXCEPT !.pc = "cleanup"]
                       ELSE [worker EXCEPT !.pc = "boot", !.result = exitFile]
          /\ UNCHANGED shim
       \/ /\ Alive(worker.pid)
          /\ Becomes(worker.pid, Killed(shim[worker.pid]))
          /\ worker' = [Idle EXCEPT !.pc = "cleanup"]
    /\ UNCHANGED <<files, volume, stuck>>

(* waitRunning: the VM runs; or it is gone, or not running in time.        *)
WaitRunning ==
    /\ worker.pc = "boot"
    /\ \/ \E h \in Shim : shim[h].fc = "running" /\ Goto("tracked")
       \/ Goto("term")
    /\ UNCHANGED <<files, volume, stuck, shim>>

(* Faulty: only the line counts.                                           *)
ReadLineOnly ==
    /\ worker.peer # NoShim
    /\ worker.result = "none"
    /\ shim[worker.peer].conn \in {"line", "eof"}
    /\ worker' = [worker EXCEPT !.result =
           IF shim[worker.peer].conn = "line" THEN worker.peer ELSE "died"]
    /\ UNCHANGED <<files, volume, stuck, shim>>

(* Handle.read: the exit line; or a dropped connection, and then what      *)
(* shim.exit says.                                                         *)
Read ==
    /\ worker.peer # NoShim
    /\ worker.result = "none"
    /\ shim[worker.peer].conn \in {"line", "eof"}
    /\ worker' = [worker EXCEPT !.result =
           IF shim[worker.peer].conn = "line" THEN worker.peer
           ELSE IF exitFile # NoShim THEN exitFile ELSE "died"]
    /\ UNCHANGED <<files, volume, stuck, shim>>

-----------------------------------------------------------------------------
(* The worker: stopping and removing the VM, or reaping what is left.      *)

StopOrRemove ==
    /\ worker.pc = "tracked"
    /\ \E next \in {"tracked", "cleanup"} :
           worker' = [worker EXCEPT !.pc = "term", !.after = next]
    /\ UNCHANGED <<files, volume, stuck, shim>>

StopReturns ==
    worker' = [worker EXCEPT !.pc = worker.after, !.after = "cleanup"]

(* A SIGTERM before Notify ends the shim; after the exit it is too late.   *)
Term(p) ==
    IF p.pc \in {"listen", "pid", "notify"} THEN Killed(p)
    ELSE [p EXCEPT !.term = @ \/ p.pc \in {"fork", "wait"}]

(* Handle.Stop: nothing to do if done is closed.                           *)
Terminate ==
    /\ worker.pc = "term"
    /\ \/ /\ worker.result # "none"
          /\ StopReturns
          /\ UNCHANGED shim
       \/ /\ worker.result = "none"
          /\ Goto("grace")
          /\ Becomes(worker.pid, Term(shim[worker.pid]))
    /\ UNCHANGED <<files, volume, stuck>>

(* Done, or not after stopGrace: SIGKILL, which kills the VM too.          *)
GraceEnds ==
    /\ worker.pc = "grace"
    /\ \/ /\ worker.result # "none"
          /\ StopReturns
          /\ UNCHANGED shim
       \/ /\ worker.result = "none"
          /\ Goto("killed")
          /\ Becomes(worker.pid, IF Alive(worker.pid) THEN Killed(shim[worker.pid])
                                 ELSE shim[worker.pid])
    /\ UNCHANGED <<files, volume, stuck>>

(* Done, or an error; a removal goes on either way.                        *)
KillEnds ==
    /\ worker.pc = "killed"
    /\ StopReturns
    /\ UNCHANGED <<files, volume, stuck, shim>>

(* Faulty: a volume in use goes too; the directory goes in any case.       *)
RemoveVolumeInUse ==
    /\ worker.pc = "cleanup"
    /\ volume' = FALSE
    /\ Goto("rmdir")
    /\ UNCHANGED <<files, stuck, shim>>
RemoveVolumeRegardless ==
    /\ worker.pc = "cleanup"
    /\ volume' = (volume /\ Busy)
    /\ Goto("rmdir")
    /\ UNCHANGED <<files, stuck, shim>>

(* The kernel refuses to remove the device Firecracker holds, the pool to  *)
(* remove one without a live table; the directory then stays for the       *)
(* audit.  Another failure may come before or after the device is gone.    *)
RemoveVolume ==
    /\ worker.pc = "cleanup"
    /\ \/ /\ ~Busy /\ ~stuck
          /\ volume' = FALSE
          /\ Goto("rmdir") \/ (DiskFails /\ worker' = Idle)
       \/ /\ Busy \/ stuck \/ DiskFails
          /\ UNCHANGED volume
          /\ worker' = Idle
    /\ UNCHANGED <<files, stuck, shim>>

(* A failure leaves the directory, and some of its files.                  *)
RemoveDir ==
    /\ worker.pc = "rmdir"
    /\ \/ /\ dir' = FALSE
          /\ pidFile' = NoShim
          /\ exitFile' = NoShim
          /\ sock' = NoShim
          /\ UNCHANGED shim
       \/ /\ DiskFails
          /\ pidFile' \in {pidFile, NoShim}
          /\ exitFile' \in {exitFile, NoShim}
          /\ sock' \in {sock, NoShim}
          /\ shim' = [h \in Shim |-> [shim[h] EXCEPT !.lost = @ \/ (exitFile = h /\ exitFile' # h)]]
          /\ UNCHANGED dir
    /\ worker' = Idle
    /\ UNCHANGED <<volume, stuck>>

(* Faulty: only a sandbox that got as far as a shim is reaped.             *)
ReapShim ==
    /\ worker = Idle
    /\ dir
    /\ pidFile # NoShim
    /\ Goto("killStale")
    /\ UNCHANGED <<files, volume, stuck, shim>>

(* The audit: a directory of a sandbox nobody tracks.                      *)
ReapOrphan ==
    /\ worker = Idle
    /\ dir
    /\ Goto("killStale")
    /\ UNCHANGED <<files, volume, stuck, shim>>

(* ReapSandbox: the shim of the pid file, if it is one and alive ...       *)
KillStale ==
    /\ worker.pc = "killStale"
    /\ Goto("find")
    /\ IF pidFile # NoShim /\ Alive(pidFile)
       THEN Becomes(pidFile, Killed(shim[pidFile]))
       ELSE UNCHANGED shim
    /\ UNCHANGED <<files, volume, stuck>>

(* ... and a Firecracker that is still there.                              *)
TermFirecracker ==
    /\ worker.pc = "find"
    /\ Goto("cleanup")
    /\ \/ \E h \in Shim : HasVM(h) /\ shim' = [shim EXCEPT ![h].term = TRUE]
       \/ UNCHANGED shim /\ \A h \in Shim : ~HasVM(h)
    /\ UNCHANGED <<files, volume, stuck>>

-----------------------------------------------------------------------------
(* The worker: its end, and the next one.                                  *)

(* Its connections close.  Inside CreateVolume, between the creation of    *)
(* the device and its resume, it leaves a device without a live table.     *)
(* The next process recovers what has a directory.                         *)
WorkerRestarts ==
    /\ worker' = [Idle EXCEPT !.pc = IF dir THEN "attach" ELSE "idle"]
    /\ shim' = [h \in Shim |-> [shim[h] EXCEPT !.conn = "none"]]
    /\ \/ UNCHANGED <<volume, stuck>>
       \/ worker.pc = "volume" /\ ~volume /\ volume' = TRUE /\ stuck' = TRUE
    /\ UNCHANGED files

(* Attach: is there a shim?                                                *)
Attach ==
    /\ worker.pc = "attach"
    /\ IF pidFile # NoShim /\ Alive(pidFile)
       THEN worker' = [worker EXCEPT !.pc = "exited", !.pid = pidFile]
       ELSE Goto("killStale")
    /\ UNCHANGED <<files, volume, stuck, shim>>

(* Is its VM over?                                                         *)
AttachReadsExit ==
    /\ worker.pc = "exited"
    /\ worker' = IF exitFile = NoShim THEN [worker EXCEPT !.pc = "connect"]
                 ELSE [Idle EXCEPT !.pc = "killStale"]
    /\ UNCHANGED <<files, volume, stuck, shim>>

AttachConnects ==
    /\ worker.pc = "connect"
    /\ \/ Connects(worker.pid)
       \/ ~CanConnect /\ worker' = [Idle EXCEPT !.pc = "killStale"] /\ UNCHANGED shim
    /\ UNCHANGED <<files, volume, stuck>>

WorkerStep ==
    \/ CreateVolume
    \/ ClearExit
    \/ StartShim
    \/ Dial
    \/ WaitRunning
    \/ Terminate
    \/ GraceEnds
    \/ KillEnds
    \/ RemoveVolume
    \/ RemoveDir
    \/ ReapOrphan
    \/ KillStale
    \/ TermFirecracker
    \/ Attach
    \/ AttachReadsExit
    \/ AttachConnects

-----------------------------------------------------------------------------
Next ==
    \/ Create
    \/ StopOrRemove
    \/ WorkerStep
    \/ Read
    \/ WorkerRestarts
    \/ \E h \in Shim :
           \/ ShimStep(h)
           \/ Accept(h)
           \/ ShimDies(h)
           \/ OpenDrive(h)
           \/ BootVM(h)
           \/ ExitVM(h)

Spec == Init /\ [][Next]_vars

(* Processes and goroutines go on; signals and the loss of a drive end     *)
(* Firecracker.  A teardown tried again and again succeeds some time.      *)
Fairness ==
    /\ WF_vars(WorkerStep)
    /\ WF_vars(Read)
    /\ SF_vars(RemoveVolume /\ worker'.pc = "rmdir")
    /\ SF_vars(RemoveDir /\ ~dir')
    /\ \A h \in Shim :
           /\ WF_vars(ShimStep(h))
           /\ WF_vars(Accept(h))
           /\ WF_vars(ExitVM(h) /\ Doomed(h))

FairSpec == Spec /\ Fairness

-----------------------------------------------------------------------------
(* Properties.                                                             *)

(* The processes are in their states; a Handle that is done carries an     *)
(* exit or an error, never neither (Handle.read falls back to the file).   *)
TypeOK ==
    /\ dir \in BOOLEAN
    /\ volume \in BOOLEAN
    /\ stuck \in BOOLEAN
    /\ {pidFile, exitFile, sock} \subseteq Shim \cup {NoShim}
    /\ shim \in [Shim -> ShimProcess]
    /\ worker \in Worker

(* What the Handle says is so.  The exit code that Wait returns is the one *)
(* of this VM, which has exited: never what an earlier VM of the directory *)
(* left in shim.exit.  Wait fails only if the shim died, or its files      *)
(* could not be kept: a connection dropped unanswered by a shim that ended *)
(* well is not taken for its death.  "Done is closed once the VM is gone:  *)
(* Firecracker exited, or the shim died", which kills it.                  *)
HandleIsTrue ==
    LET r == worker.result
        p == shim[worker.pid]
    IN  /\ r \in Shim => r = worker.pid /\ p.fc = "gone"
        /\ r = "died" => p.killed \/ p.lost
        /\ r # "none" => ~HasVM(worker.pid) \/ (~Alive(worker.pid) /\ p.killed)

(* A restarted worker gives a sandbox up for its audit to reap only if it  *)
(* has no shim with a VM: "It fails with shim.ErrShimGone if the sandbox   *)
(* has no live shim" (runtime.Attach).                                     *)
AttachFindsShim ==
    [][worker.pc \in {"attach", "exited", "connect"} /\ worker'.pc = "killStale"
           => \A h \in Shim : ~(Alive(h) /\ Holds(h))]_vars

(* Two VMs never have the same root drive, whatever died, was killed or    *)
(* was left behind before the second was created.                          *)
OneVMPerVolume == \A g, h \in Shim : Holds(g) /\ Holds(h) => g = h

Host == INSTANCE SandboxHost WITH
    vm <- IF \E h \in Shim : shim[h].fc = "running" THEN "running"
          ELSE IF Busy THEN "booting" ELSE "none"

(* Directory, volume and VM change only as the Manager relies on: the      *)
(* volume outlives the VM and the directory outlives the volume.           *)
HostContract == Host!Spec

(* Unless the worker restarts for ever, what nobody tracks goes:           *)
(* directory, volume, shim and VM, if the sandbox is not created again.    *)
(* Only a device without a live table stays, with its directory.           *)
AllReaped ==
    <>[][~WorkerRestarts]_vars =>
        (worker.pc = "idle" /\ dir ~>
            \/ /\ stuck \/ ~(dir \/ volume)
               /\ \A h \in Shim : ~Alive(h) /\ ~HasVM(h)
            \/ worker.pc \in {"volume", "tracked"})

(* The exit of a tracked VM reaches the worker: done is closed, even if    *)
(* the connection was never accepted, or the worker is restarted.          *)
ExitReported ==
    worker.pc = "tracked" /\ (shim[worker.pid].fc = "gone" \/ ~Alive(worker.pid)) ~>
        worker.pc # "tracked" \/ worker.result # "none"

=============================================================================
