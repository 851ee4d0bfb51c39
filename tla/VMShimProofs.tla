---------------------------- MODULE VMShimProofs ----------------------------
(***************************************************************************)
(* Proofs about VMShim, for any number of shims: two VMs never share a     *)
(* root drive, what VMShim does to directory, volume and VM is what        *)
(* SandboxHost allows, what a Handle says of its VM is so, and a restarted *)
(* worker finds the shim of a VM that runs.                                *)
(***************************************************************************)
EXTENDS VMShim, TLAPS

(* A shim process, or a Firecracker that outlives its shim.                *)
Here(h) == Alive(h) \/ HasVM(h)

(* A sandbox has one shim, because nothing is left of an earlier one when  *)
(* the worker gets a new volume; and it gets one only if the old is gone,  *)
(* which the kernel prevents as long as a VM holds it.                     *)
OneShim ==
    /\ \A g, h \in Shim : Here(g) /\ Here(h) => g = h
    /\ \A h \in Shim : Holds(h) => volume = TRUE
    /\ worker.pc \in {"clear", "start"} => \A h \in Shim : ~Here(h)
    /\ worker.pc = "volume" => volume = TRUE \/ \A h \in Shim : ~Here(h)
    /\ worker.pc = "volume" => dir = TRUE
    /\ worker.pc = "rmdir" => volume = FALSE

-----------------------------------------------------------------------------
(* Type correctness.                                                       *)

LEMMA ProcessTypes ==
    ASSUME NEW p \in ShimProcess
    PROVE  /\ Gone(p) \in ShimProcess
           /\ Killed(p) \in ShimProcess
           /\ Term(p) \in ShimProcess
           /\ [Gone(p) EXCEPT !.lost = TRUE] \in ShimProcess
           /\ \A pc \in ShimPC :
                  /\ [p EXCEPT !.pc = pc] \in ShimProcess
                  /\ [p EXCEPT !.pc = pc, !.lost = TRUE] \in ShimProcess
                  /\ \A fc \in FC : [p EXCEPT !.pc = pc, !.fc = fc] \in ShimProcess
BY Zenon DEF ShimProcess, Gone, Killed, Term, ShimPC, FC, Conn

LEMMA ProcessFields ==
    ASSUME NEW p \in ShimProcess
    PROVE  /\ Gone(p).fc = p.fc /\ Gone(p).pc = "gone"
           /\ Killed(p).fc = p.fc /\ Killed(p).pc = "gone"
           /\ [Gone(p) EXCEPT !.lost = TRUE].fc = p.fc
           /\ Term(p).fc = p.fc /\ Term(p).pc \in {p.pc, "gone"}
BY DEF ShimProcess, Gone, Killed, Term

LEMMA RecordTypes ==
    ASSUME NEW r \in Worker, NEW pc \in WorkerPC
    PROVE  /\ [r EXCEPT !.pc = pc] \in Worker
           /\ \A a \in {"tracked", "cleanup"} : [r EXCEPT !.pc = pc, !.after = a] \in Worker
           /\ \A h \in Shim \cup {NoShim} : [r EXCEPT !.pc = pc, !.pid = h] \in Worker
           /\ \A e \in {"none", "died"} \cup Shim : [r EXCEPT !.pc = pc, !.result = e] \in Worker
           /\ \A g, h \in Shim \cup {NoShim} : [r EXCEPT !.pid = g, !.peer = h, !.pc = pc] \in Worker
BY Zenon DEF Worker

LEMMA InitType == Init => TypeOK
<1>1. NoProcess \in ShimProcess
  BY Zenon DEF NoProcess, NewShim, ShimProcess, ShimPC, FC, Conn
<1>2. Idle \in Worker
  BY DEF Idle, Worker, WorkerPC
<1> QED
  BY <1>1, <1>2, Zenon DEF Init, TypeOK

(* The steps of a shim and its Firecracker.                                *)
LEMMA ShimTypes ==
    ASSUME TypeOK, NEW h \in Shim,
           ShimStep(h) \/ Accept(h) \/ ShimDies(h) \/ OpenDrive(h) \/ BootVM(h) \/ ExitVM(h)
    PROVE  TypeOK'
<1> shim[h] \in ShimProcess
  BY DEF TypeOK
<1> \A pc \in ShimPC : ShimGoto(h, pc) => shim' \in [Shim -> ShimProcess]
  BY ProcessTypes, Zenon DEF ShimGoto, TypeOK
<1> USE DEF TypeOK, Becomes, files
<1>1. CASE Listen(h) BY <1>1, ProcessTypes, Zenon DEF Listen, ShimPC
<1>2. CASE WritePidFile(h) BY <1>2, ProcessTypes, Zenon DEF WritePidFile, ShimPC
<1>3. CASE Notify(h) BY <1>3 DEF Notify, ShimPC
<1>4. CASE StartFirecracker(h) BY <1>4, ProcessTypes, Zenon DEF StartFirecracker, ShimPC, FC
<1>5. CASE CollectExit(h) BY <1>5 DEF CollectExit, ShimPC
<1>6. CASE WriteExit(h) BY <1>6, ProcessTypes, Zenon DEF WriteExit, ShimPC
<1>7. CASE Finish(h) BY <1>7, Zenon DEF Finish, ShimProcess, ShimPC, Conn
<1>8. CASE CloseListener(h) BY <1>8, ProcessTypes, Zenon DEF CloseListener
<1>9. CASE Accept(h) BY <1>9 DEF Accept, ShimProcess, Conn
<1>10. CASE ShimDies(h) BY <1>10, ProcessTypes, Zenon DEF ShimDies
<1>11. CASE OpenDrive(h) BY <1>11 DEF OpenDrive, ShimProcess, FC
<1>12. CASE BootVM(h) BY <1>12 DEF BootVM, ShimProcess, FC
<1>13. CASE ExitVM(h) BY <1>13 DEF ExitVM, ShimProcess, FC
<1> QED
  BY <1>1, <1>2, <1>3, <1>4, <1>5, <1>6, <1>7, <1>8, <1>9, <1>10, <1>11, <1>12, <1>13 DEF ShimStep

(* The steps of the worker.                                                *)
LEMMA WorkerTypes ==
    ASSUME TypeOK,
           Create \/ StopOrRemove \/ WorkerStep \/ Read \/ WorkerRestarts
    PROVE  TypeOK'
<1> \A h \in Shim : shim[h] \in ShimProcess
  BY DEF TypeOK
<1> Idle \in Worker
  BY DEF Idle, Worker, WorkerPC
<1> \A pc \in WorkerPC : (Goto(pc) => worker' \in Worker) /\ [Idle EXCEPT !.pc = pc] \in Worker
  BY RecordTypes, Zenon DEF Goto, TypeOK
<1> worker \in Worker
  BY DEF TypeOK
<1>a. worker.after \in {"tracked", "cleanup"} /\ worker.pid \in Shim \cup {NoShim}
  BY DEF Worker
<1> StopReturns => worker' \in Worker
  <2>1. worker.after \in WorkerPC
    BY <1>a DEF WorkerPC
  <2>2. [worker EXCEPT !.pc = worker.after, !.after = "cleanup"] \in Worker
    BY <2>1, RecordTypes, Zenon
  <2> QED
    BY <2>2 DEF StopReturns
<1> \A h, p : Becomes(h, p) /\ (h \in Shim => p \in ShimProcess) => shim' \in [Shim -> ShimProcess]
  BY Zenon DEF Becomes, TypeOK
<1>c. \A pid \in Shim \cup {NoShim} : Connects(pid) =>
          shim' \in [Shim -> ShimProcess] /\ worker' \in Worker
  <2> SUFFICES ASSUME NEW pid \in Shim \cup {NoShim}, Connects(pid)
               PROVE  shim' \in [Shim -> ShimProcess] /\ worker' \in Worker
    OBVIOUS
  <2>1. shim' \in [Shim -> ShimProcess]
    BY Zenon DEF Connects, TypeOK, ShimProcess, Conn
  <2>2. "boot" \in WorkerPC /\ "tracked" \in WorkerPC
    BY DEF WorkerPC
  <2>3. worker' \in Worker
    BY <2>2, RecordTypes, Zenon DEF Connects, TypeOK
  <2> QED
    BY <2>1, <2>3
<1> USE DEF files
<1>1. CASE Create BY <1>1 DEF Create, TypeOK, WorkerPC
<1>2. CASE StopOrRemove
  <2>1. "term" \in WorkerPC
    BY DEF WorkerPC
  <2>2. \A a \in {"tracked", "cleanup"} : [worker EXCEPT !.pc = "term", !.after = a] \in Worker
    BY <2>1, RecordTypes, Zenon
  <2>3. worker' \in Worker
    BY <1>2, <2>2, Zenon DEF StopOrRemove
  <2> QED
    BY <1>2, <2>3 DEF StopOrRemove, TypeOK
<1>3. CASE CreateVolume BY <1>3, Zenon DEF CreateVolume, TypeOK, WorkerPC
<1>4. CASE ClearExit BY <1>4 DEF ClearExit, TypeOK, WorkerPC
<1>5. CASE StartShim
  <2>1. NewShim \in ShimProcess
    BY DEF NewShim, ShimProcess, ShimPC, FC, Conn
  <2>2. "dial" \in WorkerPC /\ "cleanup" \in WorkerPC
    BY DEF WorkerPC
  <2>3. \A h \in Shim : [worker EXCEPT !.pc = "dial", !.pid = h] \in Worker
    BY <2>2, RecordTypes, Zenon
  <2>4. worker' \in Worker
    BY <1>5, <2>2, <2>3, Zenon DEF StartShim
  <2>5. shim' \in [Shim -> ShimProcess]
    BY <1>5, <2>1, Zenon DEF StartShim, TypeOK
  <2> QED
    BY <1>5, <2>4, <2>5, Zenon DEF StartShim, TypeOK
<1>6. CASE Dial
  <2>1. "boot" \in WorkerPC /\ "cleanup" \in WorkerPC
    BY DEF WorkerPC
  <2>2. exitFile # NoShim => [worker EXCEPT !.pc = "boot", !.result = exitFile] \in Worker
    <3>1. exitFile # NoShim => exitFile \in {"none", "died"} \cup Shim
      BY DEF TypeOK
    <3> QED
      BY <2>1, <3>1, RecordTypes, Zenon
  <2>3. worker' \in Worker
    BY <1>6, <1>a, <1>c, <2>1, <2>2 DEF Dial
  <2>4. shim' \in [Shim -> ShimProcess]
    BY <1>6, <1>a, <1>c, ProcessTypes, Zenon DEF Dial, TypeOK
  <2> QED
    BY <1>6, <2>3, <2>4 DEF Dial, TypeOK
<1>7. CASE WaitRunning BY <1>7 DEF WaitRunning, TypeOK, WorkerPC
<1>8. CASE Terminate BY <1>8, ProcessTypes, Zenon DEF Terminate, TypeOK, WorkerPC
<1>9. CASE GraceEnds BY <1>9, ProcessTypes, Zenon DEF GraceEnds, TypeOK, WorkerPC
<1>10. CASE KillEnds BY <1>10 DEF KillEnds, TypeOK
<1>11. CASE RemoveVolume BY <1>11, Zenon DEF RemoveVolume, TypeOK, WorkerPC
<1>12. CASE RemoveDir
  <2>1. shim' \in [Shim -> ShimProcess]
    <3>1. \A p \in ShimProcess, b \in BOOLEAN : [p EXCEPT !.lost = b] \in ShimProcess
      BY DEF ShimProcess
    <3>2. \A h \in Shim : (shim[h].lost \/ (exitFile = h /\ exitFile' # h)) \in BOOLEAN
      OBVIOUS
    <3>3. \A h \in Shim :
              [shim[h] EXCEPT !.lost = @ \/ (exitFile = h /\ exitFile' # h)] \in ShimProcess
      BY <3>1, <3>2, Zenon
    <3> QED
      BY <1>12, <3>3 DEF RemoveDir, TypeOK
  <2>2. dir' \in BOOLEAN /\ volume' \in BOOLEAN /\ stuck' \in BOOLEAN /\ worker' \in Worker
    BY <1>12, Zenon DEF RemoveDir, TypeOK
  <2>3. {pidFile', exitFile', sock'} \subseteq Shim \cup {NoShim}
    BY <1>12 DEF RemoveDir, TypeOK
  <2> QED
    BY <2>1, <2>2, <2>3 DEF TypeOK
<1>13. CASE ReapOrphan BY <1>13 DEF ReapOrphan, TypeOK, WorkerPC
<1>14. CASE KillStale BY <1>14, ProcessTypes, Zenon DEF KillStale, TypeOK, WorkerPC
<1>15. CASE TermFirecracker BY <1>15, Zenon DEF TermFirecracker, TypeOK, WorkerPC, ShimProcess
<1>16. CASE Attach
  <2>1. "exited" \in WorkerPC /\ "killStale" \in WorkerPC
    BY DEF WorkerPC
  <2>2. pidFile \in Shim \cup {NoShim}
    BY DEF TypeOK
  <2>3. [worker EXCEPT !.pc = "exited", !.pid = pidFile] \in Worker
    BY <2>1, <2>2, RecordTypes, Zenon
  <2>4. worker' \in Worker
    BY <1>16, <2>1, <2>3, Zenon DEF Attach
  <2> QED
    BY <1>16, <2>4 DEF Attach, TypeOK
<1>17. CASE AttachReadsExit BY <1>17 DEF AttachReadsExit, TypeOK, Worker, WorkerPC
<1>18. CASE AttachConnects BY <1>18, <1>c DEF AttachConnects, TypeOK, Worker, WorkerPC
<1>19. CASE Read BY <1>19 DEF Read, TypeOK, Worker
<1>20. CASE WorkerRestarts BY <1>20, Zenon DEF WorkerRestarts, TypeOK, ShimProcess, Conn, WorkerPC
<1> QED
  BY <1>1, <1>2, <1>3, <1>4, <1>5, <1>6, <1>7, <1>8, <1>9, <1>10, <1>11, <1>12, <1>13, <1>14,
     <1>15, <1>16, <1>17, <1>18, <1>19, <1>20 DEF WorkerStep

-----------------------------------------------------------------------------
(* One shim.                                                               *)

LEMMA InitOneShim == Init => OneShim
BY DEF Init, OneShim, Here, Alive, HasVM, Holds, NoProcess, NewShim, Idle

(* A shim and its Firecracker start nothing but themselves, and hold a     *)
(* volume that is there.                                                   *)
ShimMoves(h) ==
    /\ dir' = dir /\ volume' = volume /\ worker' = worker
    /\ Here(h)
    /\ \A g \in Shim \ {h} : shim'[g] = shim[g]
    /\ Holds(h)' => volume = TRUE

LEMMA ShimsMove ==
    ASSUME TypeOK, OneShim, NEW h \in Shim,
           ShimStep(h) \/ Accept(h) \/ ShimDies(h) \/ OpenDrive(h) \/ BootVM(h) \/ ExitVM(h)
    PROVE  ShimMoves(h)
<1> shim \in [Shim -> ShimProcess] /\ volume \in BOOLEAN /\ (Holds(h) => volume = TRUE)
  BY DEF TypeOK, OneShim
<1> shim[h] \in ShimProcess
  OBVIOUS
<1> USE DEF ShimMoves, ShimGoto, Becomes, files, Here, Alive, HasVM, Holds, ShimProcess
<1>1. CASE Listen(h) BY <1>1, Zenon DEF Listen, Gone
<1>2. CASE WritePidFile(h)
  <2>1. [Gone(shim[h]) EXCEPT !.lost = TRUE].fc = shim[h].fc
    BY ProcessFields
  <2>2. shim'[h].fc = shim[h].fc /\ \A g \in Shim \ {h} : shim'[g] = shim[g]
    BY <1>2, <2>1, Zenon DEF WritePidFile
  <2> QED
    BY <1>2, <2>2 DEF WritePidFile
<1>3. CASE Notify(h) BY <1>3 DEF Notify
<1>4. CASE StartFirecracker(h) BY <1>4, Zenon DEF StartFirecracker
<1>5. CASE CollectExit(h) BY <1>5 DEF CollectExit
<1>6. CASE WriteExit(h) BY <1>6, Zenon DEF WriteExit
<1>7. CASE Finish(h) BY <1>7 DEF Finish
<1>8. CASE CloseListener(h) BY <1>8 DEF CloseListener, Gone
<1>9. CASE Accept(h) BY <1>9 DEF Accept, Listening
<1>10. CASE ShimDies(h) BY <1>10 DEF ShimDies, Killed, Gone
<1>11. CASE OpenDrive(h) BY <1>11 DEF OpenDrive
<1>12. CASE BootVM(h) BY <1>12 DEF BootVM
<1>13. CASE ExitVM(h) BY <1>13 DEF ExitVM
<1> QED
  BY <1>1, <1>2, <1>3, <1>4, <1>5, <1>6, <1>7, <1>8, <1>9, <1>10, <1>11, <1>12, <1>13, Zenon DEF ShimStep

LEMMA ShimKeepsOne ==
    ASSUME OneShim, NEW h \in Shim, ShimMoves(h)
    PROVE  OneShim'
<1>1. \A g \in Shim : (Here(g)' => Here(g)) /\ (Holds(g)' => Holds(g) \/ volume = TRUE)
  BY DEF ShimMoves, Here, Alive, HasVM, Holds
<1> QED
  BY <1>1 DEF OneShim, ShimMoves

(* The worker's steps, but for the start of a shim, start nothing and      *)
(* leave the VMs to end by themselves.                                     *)
WorkerMoves ==
    \A h \in Shim : shim'[h].fc = shim[h].fc /\ (Here(h)' => Here(h))

LEMMA WorkersMove ==
    ASSUME TypeOK,
           Create \/ StopOrRemove \/ WorkerStep \/ Read \/ WorkerRestarts,
           ~StartShim
    PROVE  WorkerMoves
<1> shim \in [Shim -> ShimProcess]
  BY DEF TypeOK
<1> shim' = shim => WorkerMoves
  BY DEF WorkerMoves, Here, Alive, HasVM
<1> \A h, p : /\ Becomes(h, p)
              /\ h \in Shim => p.fc = shim[h].fc /\ p.pc \in {shim[h].pc, "gone"}
              => WorkerMoves
  BY DEF Becomes, WorkerMoves, Here, Alive, HasVM
<1> \A pid : Connects(pid) => WorkerMoves
  BY DEF Connects, WorkerMoves, Here, Alive, HasVM, ShimProcess
<1> USE DEF files
<1>1. CASE Create BY <1>1 DEF Create
<1>2. CASE StopOrRemove BY <1>2 DEF StopOrRemove
<1>3. CASE CreateVolume BY <1>3 DEF CreateVolume
<1>4. CASE ClearExit BY <1>4 DEF ClearExit
<1>5. CASE Dial BY <1>5, ProcessFields DEF Dial
<1>6. CASE WaitRunning BY <1>6 DEF WaitRunning
<1>7. CASE Terminate BY <1>7, ProcessFields DEF Terminate
<1>8. CASE GraceEnds BY <1>8, ProcessFields DEF GraceEnds
<1>9. CASE KillEnds BY <1>9 DEF KillEnds
<1>10. CASE RemoveVolume BY <1>10 DEF RemoveVolume
<1>11. CASE RemoveDir BY <1>11 DEF RemoveDir, WorkerMoves, Here, Alive, HasVM, ShimProcess
<1>12. CASE ReapOrphan BY <1>12 DEF ReapOrphan
<1>13. CASE KillStale BY <1>13, ProcessFields DEF KillStale
<1>14. CASE TermFirecracker BY <1>14 DEF TermFirecracker, WorkerMoves, Here, Alive, HasVM, ShimProcess
<1>15. CASE Attach BY <1>15 DEF Attach
<1>16. CASE AttachReadsExit BY <1>16 DEF AttachReadsExit
<1>17. CASE AttachConnects BY <1>17 DEF AttachConnects
<1>18. CASE Read BY <1>18 DEF Read
<1>19. CASE WorkerRestarts BY <1>19 DEF WorkerRestarts, WorkerMoves, Here, Alive, HasVM, ShimProcess
<1> QED
  BY <1>1, <1>2, <1>3, <1>4, <1>5, <1>6, <1>7, <1>8, <1>9, <1>10, <1>11, <1>12, <1>13, <1>14,
     <1>15, <1>16, <1>17, <1>18, <1>19 DEF WorkerStep

LEMMA WorkerKeepsOne ==
    ASSUME TypeOK, OneShim,
           Create \/ StopOrRemove \/ WorkerStep \/ Read \/ WorkerRestarts
    PROVE  OneShim'
<1> worker \in Worker /\ shim \in [Shim -> ShimProcess] /\ volume \in BOOLEAN
  BY DEF TypeOK
<1>g. \A pc : /\ Goto(pc) => worker'.pc = pc
              /\ [Idle EXCEPT !.pc = pc].pc = pc
  BY DEF Goto, Worker, Idle
<1>h. \A h \in Shim : Holds(h) => Here(h)
  BY DEF Holds, Here, HasVM
<1>m. ~StartShim => /\ \A h \in Shim : Here(h)' => Here(h)
                    /\ \A h \in Shim : Holds(h)' => Holds(h)
  BY WorkersMove DEF WorkerMoves, Holds
<1>s. /\ ~StartShim
      /\ volume' = volume
      /\ worker'.pc \notin {"volume", "clear", "start", "rmdir"}
      => OneShim'
  BY <1>m DEF OneShim
<1> USE DEF files
<1>1. CASE Create
  <2>1. worker'.pc = "volume" /\ dir' = TRUE /\ volume' = volume /\ ~StartShim
    BY <1>1, <1>g DEF Create, StartShim, Idle
  <2>2. volume = TRUE \/ \A h \in Shim : ~Here(h)
    BY <1>1 DEF Create, OldShimsEnded, OneShim, Here
  <2> QED
    BY <1>m, <2>1, <2>2 DEF OneShim
<1>2. CASE StartShim
  <2>1. worker.pc = "start" /\ volume' = volume
    BY <1>2, Zenon DEF StartShim
  <2>2. worker'.pc \in {"dial", "cleanup"}
    BY <1>2, <1>g, Zenon DEF StartShim, Worker
  <2>3. \A h \in Shim : ~Here(h)
    BY <2>1 DEF OneShim
  <2>4. CASE UNCHANGED shim
    BY <2>1, <2>2, <2>3, <2>4 DEF OneShim, Here, Alive, HasVM, Holds
  <2>5. CASE \E h \in Shim : Becomes(h, NewShim)
    <3> PICK h \in Shim : Becomes(h, NewShim)
      BY <2>5
    <3>1. \A g \in Shim : (Here(g)' => g = h) /\ ~Holds(g)'
      BY <2>3 DEF Becomes, Here, Alive, HasVM, Holds, NewShim
    <3> QED
      BY <2>1, <2>2, <3>1 DEF OneShim
  <2> QED
    BY <1>2, <2>4, <2>5, Zenon DEF StartShim
<1>3. CASE CreateVolume
  <2>1. worker.pc = "volume" /\ ~StartShim
    BY <1>3 DEF CreateVolume, StartShim
  <2>2. CASE volume = FALSE /\ volume' = TRUE /\ worker'.pc = "clear"
    BY <1>m, <2>1, <2>2 DEF OneShim
  <2>3. CASE volume' = volume /\ worker'.pc = "cleanup"
    BY <1>s, <2>1, <2>3
  <2>4. CASE volume = FALSE /\ volume' = TRUE /\ worker'.pc = "cleanup"
    BY <1>m, <2>1, <2>4 DEF OneShim
  <2> QED
    BY <1>3, <1>g, <2>2, <2>3, <2>4, Zenon DEF CreateVolume
<1>4. CASE ClearExit
  <2>1. worker.pc = "clear" /\ worker'.pc \in {"start", "cleanup"} /\ volume' = volume /\ ~StartShim
    BY <1>4, <1>g DEF ClearExit, StartShim
  <2> QED
    BY <1>m, <2>1 DEF OneShim
<1>5. CASE RemoveVolume
  <2>1. worker.pc = "cleanup" /\ ~StartShim
    BY <1>5 DEF RemoveVolume, StartShim
  <2>2. CASE ~Busy /\ volume' = FALSE /\ worker'.pc \in {"rmdir", "idle"}
    <3>1. \A h \in Shim : ~Holds(h)
      BY <2>2 DEF Busy
    <3> QED
      BY <1>m, <2>1, <2>2, <3>1 DEF OneShim
  <2>3. CASE volume' = volume /\ worker'.pc = "idle"
    BY <1>s, <2>1, <2>3
  <2>4. Idle.pc = "idle"
    BY DEF Idle
  <2>5. \/ ~Busy /\ volume' = FALSE /\ worker'.pc \in {"rmdir", "idle"}
        \/ volume' = volume /\ worker'.pc = "idle"
    BY <1>5, <1>g, <2>4, Zenon DEF RemoveVolume
  <2> QED
    BY <2>2, <2>3, <2>5, Zenon
<1>6. CASE Read
  <2>1. worker'.pc = worker.pc /\ volume' = volume /\ dir' = dir /\ shim' = shim
    BY <1>6 DEF Read, Worker
  <2> QED
    BY <2>1 DEF OneShim, Here, Alive, HasVM, Holds
<1>7. CASE StopOrRemove BY <1>7, <1>s DEF StopOrRemove, StartShim, Worker
<1>8. CASE Dial
  <2>1. worker'.pc \in {"boot", "tracked", "cleanup"}
    BY <1>8, <1>g, Zenon DEF Dial, Connects, Worker
  <2> QED
    BY <1>8, <1>s, <2>1 DEF Dial, StartShim
<1>9. CASE WaitRunning BY <1>9, <1>g, <1>s DEF WaitRunning, StartShim
<1>10. CASE Terminate \/ GraceEnds \/ KillEnds
  <2>1. worker.after \in {"tracked", "cleanup"}
    BY DEF Worker
  <2>2. StopReturns => worker'.pc \in {"tracked", "cleanup"}
    BY <2>1 DEF StopReturns, Worker
  <2> QED
    BY <1>10, <1>g, <1>s, <2>2, Zenon DEF Terminate, GraceEnds, KillEnds, StartShim
<1>11. CASE RemoveDir BY <1>11, <1>s DEF RemoveDir, StartShim, Idle
<1>12. CASE ReapOrphan BY <1>12, <1>g, <1>s DEF ReapOrphan, StartShim, Idle
<1>13. CASE KillStale BY <1>13, <1>g, <1>s DEF KillStale, StartShim
<1>14. CASE TermFirecracker BY <1>14, <1>g, <1>s DEF TermFirecracker, StartShim
<1>15. CASE Attach
  <2>1. worker'.pc \in {"exited", "killStale"}
    BY <1>15, <1>g, Zenon DEF Attach, Worker
  <2> QED
    BY <1>15, <1>s, <2>1 DEF Attach, StartShim
<1>16. CASE AttachReadsExit
  <2>1. worker'.pc \in {"connect", "killStale"}
    BY <1>16, <1>g DEF AttachReadsExit, Worker
  <2> QED
    BY <1>16, <1>s, <2>1 DEF AttachReadsExit, StartShim
<1>17. CASE AttachConnects
  <2>1. worker'.pc \in {"boot", "tracked", "killStale"}
    BY <1>17, <1>g, Zenon DEF AttachConnects, Connects, Worker
  <2> QED
    BY <1>17, <1>s, <2>1 DEF AttachConnects, StartShim
<1>18. CASE WorkerRestarts
  <2>1. worker'.pc \in {"attach", "idle"}
    BY <1>18, <1>g DEF WorkerRestarts
  <2>2. /\ volume' = volume \/ volume' = TRUE
        /\ \A h \in Shim : shim'[h].fc = shim[h].fc /\ shim'[h].pc = shim[h].pc
    BY <1>18 DEF WorkerRestarts, ShimProcess
  <2> QED
    BY <2>1, <2>2 DEF OneShim, Here, Alive, HasVM, Holds
<1> QED
  BY <1>1, <1>2, <1>3, <1>4, <1>5, <1>6, <1>7, <1>8, <1>9, <1>10, <1>11, <1>12, <1>13, <1>14,
     <1>15, <1>16, <1>17, <1>18 DEF WorkerStep

LEMMA Inductive == TypeOK /\ OneShim /\ [Next]_vars => (TypeOK /\ OneShim)'
<1> SUFFICES ASSUME TypeOK, OneShim, [Next]_vars
             PROVE  TypeOK' /\ OneShim'
  OBVIOUS
<1>1. CASE Create \/ StopOrRemove \/ WorkerStep \/ Read \/ WorkerRestarts
  BY <1>1, WorkerTypes, WorkerKeepsOne
<1>2. ASSUME NEW h \in Shim,
             ShimStep(h) \/ Accept(h) \/ ShimDies(h) \/ OpenDrive(h) \/ BootVM(h) \/ ExitVM(h)
      PROVE  TypeOK' /\ OneShim'
  BY <1>2, ShimTypes, ShimsMove, ShimKeepsOne
<1>3. CASE UNCHANGED vars
  BY <1>3 DEF TypeOK, OneShim, Here, Alive, HasVM, Holds, vars, files
<1> QED
  BY <1>1, <1>2, <1>3 DEF Next

LEMMA Invariant == Spec => [](TypeOK /\ OneShim)
<1>1. Init => TypeOK /\ OneShim
  BY InitType, InitOneShim
<1> QED
  BY <1>1, Inductive, PTL DEF Spec

(* Shims, worker and files keep their types: a Handle that is done carries *)
(* an exit or an error, for any number of shims.                           *)
THEOREM TypeCorrect == Spec => []TypeOK
BY Invariant, PTL

(* Two VMs never have the same root drive, for any number of shims that    *)
(* crashes, restarts and reaping leave behind.                             *)
THEOREM OneDrive == Spec => []OneVMPerVolume
<1>1. OneShim => OneVMPerVolume
  BY DEF OneShim, OneVMPerVolume, Here, HasVM, Holds
<1> QED
  BY <1>1, Invariant, PTL

-----------------------------------------------------------------------------
(* Refinement of SandboxHost.                                              *)

(* The VM as SandboxHost sees it.                                          *)
HostVM == IF \E h \in Shim : shim[h].fc = "running" THEN "running"
          ELSE IF Busy THEN "booting" ELSE "none"

LEMMA VMUnchanged ==
    ASSUME \A h \in Shim : shim'[h].fc = shim[h].fc
    PROVE  HostVM' = HostVM
BY DEF HostVM, Busy, Holds

LEMMA VMOfOne ==
    ASSUME OneShim, NEW h \in Shim, Here(h)
    PROVE  HostVM = IF shim[h].fc = "running" THEN "running"
                    ELSE IF shim[h].fc = "open" THEN "booting" ELSE "none"
BY DEF HostVM, OneShim, Busy, Here, HasVM, Holds

LEMMA VMOfOneNext ==
    ASSUME OneShim, NEW h \in Shim, ShimMoves(h)
    PROVE  HostVM' = IF shim'[h].fc = "running" THEN "running"
                     ELSE IF shim'[h].fc = "open" THEN "booting" ELSE "none"
<1>1. \A g \in Shim \ {h} : ~Here(g)
  BY DEF OneShim, ShimMoves
<1>2. \A g \in Shim \ {h} : shim'[g].fc \notin {"open", "running"}
  BY <1>1 DEF ShimMoves, Here, HasVM
<1> QED
  BY <1>2 DEF HostVM, Busy, Holds

(* Firecracker gets its drive, runs, and exits.                            *)
LEMMA FirecrackerMoves ==
    ASSUME TypeOK, NEW h \in Shim,
           ShimStep(h) \/ Accept(h) \/ ShimDies(h) \/ OpenDrive(h) \/ BootVM(h) \/ ExitVM(h)
    PROVE  \/ shim'[h].fc = shim[h].fc
           \/ shim'[h].fc \notin {"open", "running"}
           \/ shim[h].fc = "started" /\ shim'[h].fc = "open" /\ volume = TRUE
           \/ shim[h].fc = "open" /\ shim'[h].fc = "running"
<1> shim \in [Shim -> ShimProcess] /\ volume \in BOOLEAN
  BY DEF TypeOK
<1> shim[h] \in ShimProcess
  OBVIOUS
<1> USE DEF ShimGoto, Becomes, files
<1>1. CASE StartFirecracker(h) BY <1>1, Zenon DEF StartFirecracker, ShimProcess
<1>2. CASE Listen(h) BY <1>2, ProcessFields DEF Listen, ShimProcess
<1>3. CASE WritePidFile(h)
  <2>1. [Gone(shim[h]) EXCEPT !.lost = TRUE].fc = shim[h].fc
    BY ProcessFields
  <2>2. shim'[h].fc = shim[h].fc
    BY <1>3, <2>1, Zenon DEF WritePidFile, ShimProcess
  <2> QED
    BY <2>2
<1>4. CASE Notify(h) \/ CollectExit(h) BY <1>4 DEF Notify, CollectExit, ShimProcess
<1>5. CASE WriteExit(h)
  <2>1. shim'[h].fc = shim[h].fc
    BY <1>5, Zenon DEF WriteExit, ShimProcess
  <2> QED
    BY <2>1
<1>11. CASE Finish(h)
  <2>1. shim'[h].fc = shim[h].fc
    BY <1>11 DEF Finish, ShimProcess
  <2> QED
    BY <2>1
<1>6. CASE CloseListener(h) \/ ShimDies(h) BY <1>6, ProcessFields DEF CloseListener, ShimDies
<1>7. CASE Accept(h) BY <1>7 DEF Accept, ShimProcess
<1>8. CASE OpenDrive(h) BY <1>8 DEF OpenDrive, ShimProcess
<1>9. CASE BootVM(h) BY <1>9 DEF BootVM, ShimProcess
<1>10. CASE ExitVM(h) BY <1>10 DEF ExitVM, ShimProcess
<1> QED
  BY <1>1, <1>2, <1>3, <1>4, <1>5, <1>6, <1>7, <1>8, <1>9, <1>10, <1>11, Zenon DEF ShimStep

(* A step of the shim or its Firecracker, for SandboxHost.                 *)
LEMMA ShimRefines ==
    ASSUME TypeOK, OneShim, NEW h \in Shim,
           ShimStep(h) \/ Accept(h) \/ ShimDies(h) \/ OpenDrive(h) \/ BootVM(h) \/ ExitVM(h)
    PROVE  Host!Next \/ UNCHANGED Host!vars
<1>1. ShimMoves(h)
  BY ShimsMove
<1>2. dir' = dir /\ volume' = volume /\ Here(h)
  BY <1>1 DEF ShimMoves
<1>3. HostVM = IF shim[h].fc = "running" THEN "running"
               ELSE IF shim[h].fc = "open" THEN "booting" ELSE "none"
  BY <1>2, VMOfOne
<1>4. HostVM' = IF shim'[h].fc = "running" THEN "running"
                ELSE IF shim'[h].fc = "open" THEN "booting" ELSE "none"
  BY <1>1, VMOfOneNext
<1>5. \/ HostVM' = HostVM
      \/ HostVM' = "none"
      \/ HostVM = "none" /\ HostVM' = "booting" /\ volume
      \/ HostVM = "booting" /\ HostVM' = "running"
  BY <1>3, <1>4, FirecrackerMoves, Zenon
<1> QED
  BY <1>2, <1>5 DEF HostVM, Host!Next, Host!VMEnds, Host!StartVM, Host!VMRuns, Host!vars

LEMMA WorkerRefines ==
    ASSUME TypeOK, OneShim,
           Create \/ StopOrRemove \/ WorkerStep \/ Read \/ WorkerRestarts
    PROVE  Host!Next \/ UNCHANGED Host!vars
<1>1. HostVM' = HostVM
  <2>1. CASE StartShim
    <3>1. \A h \in Shim : ~Here(h)
      BY <2>1, Zenon DEF StartShim, OneShim
    <3>2. \A h \in Shim : shim[h].fc \notin {"open", "running"} /\ shim'[h].fc \notin {"open", "running"}
      <4>1. \A h \in Shim : shim[h].fc \notin {"open", "running"}
        BY <3>1, Zenon DEF Here, HasVM
      <4>2. UNCHANGED shim \/ \E h \in Shim : Becomes(h, NewShim)
        BY <2>1, Zenon DEF StartShim
      <4>3. NewShim.fc = "none" /\ shim \in [Shim -> ShimProcess]
        BY DEF NewShim, TypeOK
      <4> QED
        BY <4>1, <4>2, <4>3 DEF Becomes
    <3> QED
      BY <3>2 DEF HostVM, Busy, Holds
  <2>2. CASE ~StartShim
    BY <2>2, WorkersMove, VMUnchanged DEF WorkerMoves
  <2> QED
    BY <2>1, <2>2
<1>2. CASE dir' = dir /\ volume' = volume
  BY <1>1, <1>2 DEF HostVM, Host!vars
<1>3. CASE Create
  BY <1>1, <1>3 DEF Create, HostVM, Host!Next, Host!MakeDir
<1>4. CASE CreateVolume
  <2>1. dir
    BY <1>4 DEF CreateVolume, OneShim
  <2>2. CASE volume' = TRUE /\ dir' = dir
    BY <1>1, <2>1, <2>2 DEF HostVM, Host!Next, Host!CreateVolume
  <2> QED
    BY <1>2, <1>4, <2>2, Zenon DEF CreateVolume, files
<1>5. CASE RemoveVolume
  <2>1. CASE ~Busy /\ volume' = FALSE /\ dir' = dir
    <3>1. HostVM = "none"
      BY <2>1 DEF HostVM, Busy, Holds
    <3> QED
      BY <1>1, <2>1, <3>1 DEF HostVM, Host!Next, Host!RemoveVolume
  <2> QED
    BY <1>2, <1>5, <2>1, Zenon DEF RemoveVolume, files
<1>6. CASE RemoveDir
  <2>1. ~volume
    BY <1>6 DEF RemoveDir, OneShim
  <2>2. CASE dir' = FALSE /\ volume' = volume
    BY <1>1, <2>1, <2>2 DEF HostVM, Host!Next, Host!RemoveDir
  <2> QED
    BY <1>2, <1>6, <2>2, Zenon DEF RemoveDir
<1>7. CASE WorkerRestarts
  <2>1. CASE worker.pc = "volume" /\ volume' = TRUE /\ dir' = dir
    BY <1>1, <2>1 DEF OneShim, HostVM, Host!Next, Host!CreateVolume
  <2> QED
    BY <1>2, <1>7, <2>1, Zenon DEF WorkerRestarts, files
<1> QED
  BY <1>2, <1>3, <1>4, <1>5, <1>6, <1>7, Zenon
     DEF WorkerStep, files, StopOrRemove, ClearExit, StartShim, Dial, WaitRunning, Terminate,
         GraceEnds, KillEnds, ReapOrphan, KillStale, TermFirecracker, Attach, AttachReadsExit,
         AttachConnects, Read

(* The shim, its files and the worker's calls do to directory, volume and  *)
(* VM what SandboxHost allows: VMShim implements the contract the Manager  *)
(* relies on, for any number of shims.                                     *)
THEOREM Implements == Spec => HostContract
<1>1. Init => Host!Init
  BY DEF Init, Host!Init, Busy, Holds, NoProcess, NewShim
<1>2. TypeOK /\ OneShim /\ [Next]_vars => [Host!Next]_Host!vars
  <2> SUFFICES ASSUME TypeOK, OneShim, [Next]_vars
               PROVE  Host!Next \/ UNCHANGED Host!vars
    OBVIOUS
  <2>1. CASE UNCHANGED vars
    BY <2>1 DEF vars, files, Host!vars, Busy, Holds
  <2> QED
    BY <2>1, WorkerRefines, ShimRefines DEF Next
<1> QED
  BY <1>1, <1>2, Invariant, PTL DEF Spec, HostContract, Host!Spec

-----------------------------------------------------------------------------
(***************************************************************************)
(* The Handle.  What it says depends on which shim it is connected to and  *)
(* whose exit is in shim.exit, and both on which files each shim has left: *)
(* the invariant below follows a shim from its start to its last file.     *)
(***************************************************************************)

(* Of a shim on its own: Firecracker exists from the fork on, and is gone  *)
(* once its exit is recorded; the exit line is sent after that; only a     *)
(* shim that is gone drops a connection, and one that ended by itself      *)
(* leaves no VM.                                                           *)
ProcessInv(p) ==
    /\ p.pc \in {"listen", "pid", "notify", "fork"} => p.fc = "none"
    /\ p.pc \in {"record", "tell", "close"} => p.fc = "gone"
    /\ p.pc = "listen" => p.conn = "none"
    /\ p.conn = "line" => p.pc \in {"close", "gone"} /\ p.fc = "gone"
    /\ p.conn = "eof" => p.pc = "gone"
    /\ p.pc \in {"off", "gone"} => p.killed = TRUE \/ p.fc \in {"none", "gone"}

(* Of the files: an exit is recorded by a shim whose VM is gone; past that *)
(* point, a shim somebody can find has its exit in the file, or lost it.   *)
FileInv ==
    /\ exitFile # NoShim => shim[exitFile].pc \in {"tell", "close", "gone"} /\ shim[exitFile].fc = "gone"
    /\ \A h \in {pidFile, worker.pid} \ {NoShim} :
           shim[h].pc \in {"tell", "close"} => exitFile = h \/ shim[h].lost = TRUE
    /\ worker.pc = "start" => exitFile = NoShim

(* Of the Handle's shim: no other is there, or has its exit in the file    *)
(* once Attach has looked; and it dropped no connection without a reason.  *)
OwnInv(h) ==
    /\ \A g \in Shim : Here(g) => g = h
    /\ worker.pc # "exited" => exitFile \in {NoShim, h}
    /\ shim[h].conn # "none" /\ ~Alive(h) =>
           shim[h].killed = TRUE \/ shim[h].lost = TRUE \/ exitFile = h

(* Of the Handle: when there is one, whom it is connected to, and what it  *)
(* says.                                                                   *)
HandleInv ==
    /\ worker.pc \in {"idle", "volume", "clear", "start", "attach", "killStale", "find"} =>
           worker.pid = NoShim
    /\ worker.pc \in {"dial", "exited", "connect"} =>
           worker.pid # NoShim /\ worker.peer = NoShim /\ worker.result = "none"
    /\ worker.pid = NoShim => worker.peer = NoShim /\ worker.result = "none"
    /\ worker.peer \in {NoShim, worker.pid}
    /\ worker.pid # NoShim => OwnInv(worker.pid)
    /\ worker.result \in Shim => worker.result = worker.pid /\ shim[worker.pid].fc = "gone"
    /\ worker.result = "died" =>
           ~Alive(worker.pid) /\ (shim[worker.pid].killed = TRUE \/ shim[worker.pid].lost = TRUE)

(* Of a shim that lives: its files are its own, and they are there as long *)
(* as there is a volume that its VM may hold.                              *)
FoundInv(h) ==
    Alive(h) =>
        /\ exitFile \in {NoShim, h}
        /\ volume = TRUE /\ shim[h].pc \in {"pid", "notify", "fork", "wait"} => sock = h
        /\ volume = TRUE /\ shim[h].pc \in {"notify", "fork", "wait"} => pidFile = h

TrueInv == FileInv /\ HandleInv /\ \A h \in Shim : ProcessInv(shim[h]) /\ FoundInv(h)

LEMMA ProcessKept ==
    ASSUME NEW p \in ShimProcess, ProcessInv(p)
    PROVE  /\ ProcessInv(Killed(p))
           /\ ProcessInv(Term(p))
           /\ p.pc \in {"listen", "pid", "close"} => ProcessInv(Gone(p)) /\ ProcessInv([Gone(p) EXCEPT !.lost = TRUE])
           /\ ProcessInv([p EXCEPT !.term = TRUE])
           /\ \A b \in BOOLEAN : ProcessInv([p EXCEPT !.lost = b])
           /\ ProcessInv([p EXCEPT !.conn = "none"])
           /\ p.pc \notin {"off", "listen", "gone"} => ProcessInv([p EXCEPT !.conn = "queued"])
BY DEF ProcessInv, ShimProcess, ShimPC, FC, Conn, Killed, Term, Gone

(* What a shim and its Firecracker do to the shim and its files.           *)
ShimEffect(h) ==
    LET p == shim[h]
        q == shim'[h]
    IN  /\ p.fc = "gone" => q.fc = "gone"
        /\ ~Alive(h) => q.pc = p.pc /\ q.conn = p.conn
        /\ (p.killed = TRUE => q.killed = TRUE) /\ (p.lost = TRUE => q.lost = TRUE)
        /\ p.pc \in {"tell", "close"} => q.pc \in {"tell", "close", "gone"}
        /\ q.pc \in {"tell", "close"} => p.pc \in {"tell", "close"} \/ exitFile' = h \/ q.lost = TRUE
        /\ Alive(h) /\ ~Alive(h)' =>
               p.pc = "close" \/ q.killed = TRUE \/ q.lost = TRUE \/ q.conn = "none"
        /\ q.pc \in {"pid", "notify", "fork", "wait"} =>
               sock' = h \/ (sock' = sock /\ p.pc \in {"pid", "notify", "fork", "wait"})
        /\ q.pc \in {"notify", "fork", "wait"} =>
               pidFile' = h \/ (pidFile' = pidFile /\ p.pc \in {"notify", "fork", "wait"})
        /\ pidFile' = pidFile \/ (pidFile' = h /\ q.pc = "notify")
        /\ exitFile' = exitFile \/ (exitFile' = h /\ Alive(h) /\ q.pc = "tell" /\ q.fc = "gone")
        /\ ProcessInv(q)

LEMMA ShimsEffect ==
    ASSUME TypeOK, NEW h \in Shim, ProcessInv(shim[h]),
           ShimStep(h) \/ Accept(h) \/ ShimDies(h) \/ OpenDrive(h) \/ BootVM(h) \/ ExitVM(h)
    PROVE  ShimEffect(h)
<1>a. shim \in [Shim -> ShimProcess] /\ shim[h] \in ShimProcess
  BY DEF TypeOK
<1>b. \A q : Becomes(h, q) => shim'[h] = q
  BY <1>a DEF Becomes
<1>c. \A pc \in {"pid", "notify", "fork", "record", "tell"} : ShimGoto(h, pc) =>
          /\ shim'[h].pc = pc /\ shim'[h].fc = shim[h].fc /\ shim'[h].conn = shim[h].conn
          /\ shim'[h].killed = shim[h].killed /\ shim'[h].lost = shim[h].lost
  BY <1>a DEF ShimGoto, ShimProcess
<1>d. \A q \in {Gone(shim[h]), [Gone(shim[h]) EXCEPT !.lost = TRUE]} :
          /\ q.pc = "gone" /\ q.fc = shim[h].fc /\ q.killed = shim[h].killed
          /\ q.conn = IF shim[h].conn \in {"queued", "accepted"} THEN "eof" ELSE shim[h].conn
          /\ q.lost = TRUE \/ q.lost = shim[h].lost
  BY <1>a, Zenon DEF Gone, ShimProcess
<1>e. [Gone(shim[h]) EXCEPT !.lost = TRUE].lost = TRUE
  BY <1>a DEF Gone, ShimProcess
<1> USE DEF ShimEffect, ProcessInv, Alive, files
<1>1. CASE Listen(h)
  <2>1. CASE sock' = h /\ ShimGoto(h, "pid")
    BY <1>1, <1>c, <2>1 DEF Listen
  <2>2. CASE shim'[h] = Gone(shim[h])
    BY <1>1, <1>d, <2>2 DEF Listen
  <2> QED BY <1>1, <1>b, <2>1, <2>2, Zenon DEF Listen
<1>2. CASE WritePidFile(h)
  <2>1. CASE pidFile' = h /\ sock' = sock /\ ShimGoto(h, "notify")
    BY <1>2, <1>c, <2>1 DEF WritePidFile
  <2>2. CASE pidFile' = pidFile /\ shim'[h] = [Gone(shim[h]) EXCEPT !.lost = TRUE]
    BY <1>2, <1>d, <1>e, <2>2 DEF WritePidFile
  <2> QED BY <1>2, <1>b, <2>1, <2>2, Zenon DEF WritePidFile
<1>3. CASE Notify(h) BY <1>3, <1>a, <1>c DEF Notify
<1>4. CASE StartFirecracker(h) BY <1>4, <1>a, <1>b, Zenon DEF StartFirecracker, ShimProcess
<1>5. CASE CollectExit(h) BY <1>5, <1>a, <1>c DEF CollectExit
<1>6. CASE WriteExit(h)
  <2>1. CASE exitFile' = h /\ ShimGoto(h, "tell")
    BY <1>6, <1>c, <2>1 DEF WriteExit
  <2>2. CASE exitFile' = exitFile /\ shim'[h] = [shim[h] EXCEPT !.pc = "tell", !.lost = TRUE]
    BY <1>6, <1>a, <2>2 DEF WriteExit, ShimProcess
  <2> QED BY <1>6, <1>b, <2>1, <2>2, Zenon DEF WriteExit
<1>7. CASE Finish(h) BY <1>7, <1>a, <1>b, Zenon DEF Finish, ShimProcess
<1>8. CASE CloseListener(h) BY <1>8, <1>a, <1>b, Zenon DEF CloseListener, ShimProcess, Gone
<1>9. CASE Accept(h) BY <1>9, <1>a DEF ShimProcess, Accept, Listening
<1>10. CASE ShimDies(h) BY <1>10, <1>a, <1>b, Zenon DEF ShimDies, ShimProcess, Killed, Gone
<1>11. CASE OpenDrive(h) BY <1>11, <1>a DEF ShimProcess, OpenDrive
<1>12. CASE BootVM(h) BY <1>12, <1>a DEF ShimProcess, BootVM
<1>13. CASE ExitVM(h) BY <1>13, <1>a DEF ShimProcess, ExitVM, HasVM
<1> QED
  BY <1>1, <1>2, <1>3, <1>4, <1>5, <1>6, <1>7, <1>8, <1>9, <1>10, <1>11, <1>12, <1>13, Zenon DEF ShimStep

LEMMA ShimKeepsTrue ==
    ASSUME TypeOK, TypeOK', OneShim, TrueInv, NEW h \in Shim, ShimMoves(h), ShimEffect(h)
    PROVE  TrueInv'
<1>a. /\ {pidFile, exitFile, sock} \subseteq Shim \cup {NoShim} /\ NoShim \notin Shim
      /\ worker.pid \in Shim \cup {NoShim} /\ worker' = worker /\ volume' = volume
  BY ShimAssumption DEF TypeOK, Worker, ShimMoves
<1>b. \A g \in Shim : g # h => shim'[g] = shim[g] /\ ~Here(g)
  BY Zenon DEF ShimMoves, OneShim
<1>c. \A g \in Shim : (Alive(g) => Here(g)) /\ (Alive(g)' => Alive(g)) /\ (Here(g)' => Here(g))
  BY <1>b DEF ShimMoves, Here, Alive, HasVM, ShimEffect
<1>1. \A g \in Shim : ProcessInv(shim[g])'
  BY <1>b, Zenon DEF TrueInv, ShimEffect
<1>2. FileInv'
  <2>1. exitFile' # NoShim => /\ shim'[exitFile'].pc \in {"tell", "close", "gone"}
                              /\ shim'[exitFile'].fc = "gone"
    <3>1. CASE exitFile' = exitFile /\ exitFile = h
      BY <1>a, <3>1 DEF TrueInv, FileInv, ShimEffect, Alive
    <3>2. CASE exitFile' = exitFile /\ exitFile # h
      BY <1>a, <1>b, <3>2 DEF TrueInv, FileInv
    <3>3. CASE exitFile' = h /\ shim'[h].pc = "tell" /\ shim'[h].fc = "gone"
      BY <3>3
    <3> QED BY <3>1, <3>2, <3>3, Zenon DEF ShimEffect
  <2>2. ASSUME NEW g \in {pidFile', worker.pid} \ {NoShim}, shim'[g].pc \in {"tell", "close"}
        PROVE  exitFile' = g \/ shim'[g].lost = TRUE
    <3>1. g \in Shim
      BY <1>a, <2>2 DEF ShimEffect
    <3>2. g = h
      <4>1. Alive(g)'
        BY <2>2 DEF Alive
      <4> QED BY <1>b, <1>c, <3>1, <4>1
    <3>3. CASE shim[h].pc \in {"tell", "close"} /\ g \in {pidFile, worker.pid}
      <4>1. exitFile = h \/ shim[h].lost = TRUE
        BY <2>2, <3>2, <3>3, Zenon DEF TrueInv, FileInv
      <4> QED BY <3>2, <4>1 DEF ShimEffect
    <3>4. CASE shim[h].pc \notin {"tell", "close"}
      BY <2>2, <3>2, <3>4 DEF ShimEffect
    <3>5. CASE pidFile' # pidFile /\ shim[h].pc \in {"tell", "close"}
      BY <2>2, <3>2, <3>5 DEF ShimEffect
    <3> QED BY <2>2, <3>3, <3>4, <3>5, Zenon
  <2>3. worker.pc = "start" => exitFile' = NoShim
    BY <1>c DEF TrueInv, FileInv, ShimEffect, OneShim
  <2> QED BY <1>a, <2>1, <2>2, <2>3, Zenon DEF FileInv
<1>3. ASSUME worker.pid # NoShim
      PROVE  OwnInv(worker.pid)'
  <2>1. worker.pid = h /\ worker.pid \in Shim /\ OwnInv(h)
    BY <1>3, <1>a, Zenon DEF TrueInv, HandleInv, OwnInv, ShimMoves
  <2>2. \A g \in Shim : Here(g)' => g = h
    BY <1>c, <2>1 DEF OwnInv
  <2>3. worker.pc # "exited" => exitFile' \in {NoShim, h}
    BY <2>1 DEF OwnInv, ShimEffect
  <2>4. ASSUME shim'[h].conn # "none", ~Alive(h)'
        PROVE  shim'[h].killed = TRUE \/ shim'[h].lost = TRUE \/ exitFile' = h
    <3>1. CASE ~Alive(h)
      <4>1. shim[h].killed = TRUE \/ shim[h].lost = TRUE \/ exitFile = h
        BY <2>1, <2>4, <3>1 DEF OwnInv, ShimEffect
      <4> QED BY <4>1 DEF ShimEffect
    <3>2. CASE shim[h].pc = "close"
      <4>1. exitFile = h \/ shim[h].lost = TRUE
        BY <1>a, <2>1, <3>2 DEF TrueInv, FileInv
      <4> QED BY <4>1 DEF ShimEffect
    <3> QED BY <2>4, <3>1, <3>2, Zenon DEF ShimEffect
  <2> QED BY <1>a, <2>1, <2>2, <2>3, <2>4, Zenon DEF OwnInv
<1>4. HandleInv'
  <2>1. worker.pid # NoShim => worker.pid = h
    BY <1>a, Zenon DEF TrueInv, HandleInv, OwnInv, ShimMoves
  <2>2. worker.result \in Shim => worker.result = worker.pid /\ shim'[worker.pid].fc = "gone"
    BY <2>1, <1>a DEF TrueInv, HandleInv, ShimEffect
  <2>3. worker.result = "died" =>
            ~Alive(worker.pid)' /\ (shim'[worker.pid].killed = TRUE \/ shim'[worker.pid].lost = TRUE)
    <3> SUFFICES ASSUME worker.result = "died"
                 PROVE  ~Alive(worker.pid)' /\ (shim'[worker.pid].killed = TRUE \/ shim'[worker.pid].lost = TRUE)
      BY Zenon
    <3>1. worker.pid = h
      BY <2>1 DEF TrueInv, HandleInv
    <3>2. ~Alive(h) /\ (shim[h].killed = TRUE \/ shim[h].lost = TRUE)
      BY <3>1, Zenon DEF TrueInv, HandleInv
    <3> QED BY <1>a, <1>c, <3>1, <3>2 DEF ShimEffect
  <2> QED BY <1>3, <1>a, <2>2, <2>3, Zenon DEF TrueInv, HandleInv
<1>5. ASSUME NEW g \in Shim
      PROVE  FoundInv(g)'
  <2>1. CASE g # h
    BY <1>b, <1>c, <2>1 DEF FoundInv
  <2>2. CASE g = h
    BY <1>a, <1>c, <2>2 DEF TrueInv, FoundInv, ShimEffect
  <2> QED BY <2>1, <2>2
<1> QED BY <1>1, <1>2, <1>4, <1>5, Zenon DEF TrueInv

(* What the worker does to the shims, but for starting one: it kills them, *)
(* signals their VM, connects, or loses their exit file.                   *)
WorkerEffect ==
    \A h \in Shim :
        LET p == shim[h]
            q == shim'[h]
        IN  /\ q.fc = p.fc
            /\ q.pc = p.pc \/ (q.pc = "gone" /\ q.killed = TRUE)
            /\ (p.killed = TRUE => q.killed = TRUE) /\ (p.lost = TRUE => q.lost = TRUE)
            /\ ~Alive(h) => q.conn \in {p.conn, "none"}
            /\ ProcessInv(q)

LEMMA OneEffect ==
    ASSUME TypeOK, TrueInv, NEW h, NEW q, Becomes(h, q),
           h \in Shim =>
               \/ q = shim[h]
               \/ q = Term(shim[h])
               \/ Alive(h) /\ q = Killed(shim[h])
    PROVE  WorkerEffect
<1>1. shim \in [Shim -> ShimProcess] /\ \A g \in Shim : ProcessInv(shim[g])
  BY Zenon DEF TypeOK, TrueInv
<1>2. \A g \in Shim : g # h => shim'[g] = shim[g]
  BY <1>1, Zenon DEF Becomes
<1>3. h \in Shim => shim'[h] = q
  BY <1>1, Zenon DEF Becomes
<1>4. ASSUME NEW p \in ShimProcess
      PROVE  \A r \in {p, Term(p), Killed(p)} :
                 /\ r.fc = p.fc /\ (r.pc = p.pc \/ (r.pc = "gone" /\ r.killed = TRUE))
                 /\ (p.killed = TRUE => r.killed = TRUE) /\ (p.lost = TRUE => r.lost = TRUE)
  BY Zenon DEF ShimProcess, Term, Killed, Gone
<1>5. ASSUME NEW p \in ShimProcess, p.pc \in {"off", "gone"}
      PROVE  Term(p).conn = p.conn
  BY <1>5 DEF ShimProcess, Term
<1>6. ASSUME h \in Shim
      PROVE  /\ shim'[h].fc = shim[h].fc
             /\ shim'[h].pc = shim[h].pc \/ (shim'[h].pc = "gone" /\ shim'[h].killed = TRUE)
             /\ shim[h].killed = TRUE => shim'[h].killed = TRUE
             /\ shim[h].lost = TRUE => shim'[h].lost = TRUE
             /\ ~Alive(h) => shim'[h].conn = shim[h].conn
             /\ ProcessInv(shim'[h])
  <2>1. shim[h] \in ShimProcess /\ shim'[h] \in {shim[h], Term(shim[h]), Killed(shim[h])}
    BY <1>1, <1>3, <1>6, Zenon
  <2>2. ProcessInv(shim'[h])
    BY <1>1, <1>6, <2>1, ProcessKept, Zenon
  <2>3. ~Alive(h) => shim'[h].conn = shim[h].conn
    BY <1>3, <1>5, <1>6, <2>1, Zenon DEF Alive
  <2> QED BY <1>4, <2>1, <2>2, <2>3, Zenon
<1> QED BY <1>1, <1>2, <1>6, Zenon DEF WorkerEffect

LEMMA ConnectEffect ==
    ASSUME TypeOK, TrueInv, NEW pid, Connects(pid)
    PROVE  WorkerEffect /\ sock \in Shim /\ Alive(sock) /\ Here(sock) /\ shim'[sock].pc = shim[sock].pc
<1>1. shim \in [Shim -> ShimProcess] /\ (\A g \in Shim : ProcessInv(shim[g])) /\ sock \in Shim
  BY Zenon DEF TypeOK, TrueInv, Connects, CanConnect
<1>2. Alive(sock) /\ Here(sock) /\ shim[sock].pc \notin {"off", "listen", "gone"}
  BY Zenon DEF Connects, CanConnect, Listening, Alive, Here
<1>3. shim'[sock] = [shim[sock] EXCEPT !.conn = "queued"] /\ \A g \in Shim \ {sock} : shim'[g] = shim[g]
  BY <1>1 DEF Connects
<1>4. ProcessInv(shim'[sock])
  <2>1. shim[sock] \in ShimProcess /\ ProcessInv(shim[sock])
    BY <1>1, Zenon
  <2>2. ProcessInv([shim[sock] EXCEPT !.conn = "queued"])
    BY <1>2, <2>1, ProcessKept, Zenon
  <2> QED BY <1>3, <2>2, Zenon
<1>5. /\ shim'[sock].pc = shim[sock].pc /\ shim'[sock].fc = shim[sock].fc
      /\ shim'[sock].killed = shim[sock].killed /\ shim'[sock].lost = shim[sock].lost
  BY <1>1, <1>3 DEF ShimProcess
<1> QED BY <1>1, <1>2, <1>3, <1>4, <1>5, Zenon DEF WorkerEffect

LEMMA WorkersEffect ==
    ASSUME TypeOK, TrueInv,
           Create \/ StopOrRemove \/ WorkerStep \/ Read \/ WorkerRestarts,
           ~StartShim
    PROVE  WorkerEffect
<1>a. shim \in [Shim -> ShimProcess] /\ (\A h \in Shim : shim[h] \in ShimProcess)
      /\ \A h \in Shim : ProcessInv(shim[h])
  BY Zenon DEF TypeOK, TrueInv
<1>b. shim' = shim => WorkerEffect
  BY <1>a, Zenon DEF WorkerEffect
<1> USE DEF files
<1>1. CASE UNCHANGED shim BY <1>1, <1>b
<1>2. CASE Dial BY <1>2, <1>b, ConnectEffect, OneEffect, Zenon DEF Dial
<1>3. CASE Terminate BY <1>3, <1>b, OneEffect, Zenon DEF Terminate
<1>4. CASE GraceEnds BY <1>4, <1>b, OneEffect, Zenon DEF GraceEnds
<1>5. CASE KillStale BY <1>5, <1>b, OneEffect, Zenon DEF KillStale
<1>6. CASE AttachConnects BY <1>6, <1>b, ConnectEffect, Zenon DEF AttachConnects
<1>7. CASE TermFirecracker
  <2>1. CASE \E h \in Shim : shim' = [shim EXCEPT ![h].term = TRUE]
    <3>1. PICK h \in Shim : shim' = [shim EXCEPT ![h].term = TRUE]
      BY <2>1, Zenon
    <3>2. shim'[h] = [shim[h] EXCEPT !.term = TRUE] /\ \A g \in Shim \ {h} : shim'[g] = shim[g]
      BY <1>a, <3>1
    <3>3. ProcessInv(shim'[h])
      BY <1>a, <3>2, ProcessKept, Zenon
    <3>4. /\ shim'[h].pc = shim[h].pc /\ shim'[h].fc = shim[h].fc /\ shim'[h].conn = shim[h].conn
          /\ shim'[h].killed = shim[h].killed /\ shim'[h].lost = shim[h].lost
      BY <1>a, <3>2 DEF ShimProcess
    <3> QED BY <1>a, <3>2, <3>3, <3>4, Zenon DEF WorkerEffect
  <2> QED BY <1>7, <1>b, <2>1, Zenon DEF TermFirecracker
<1>8. CASE RemoveDir
  <2>1. CASE shim' = [h \in Shim |-> [shim[h] EXCEPT !.lost = @ \/ (exitFile = h /\ exitFile' # h)]]
    <3> SUFFICES ASSUME NEW h \in Shim
                 PROVE  /\ shim'[h].fc = shim[h].fc /\ shim'[h].pc = shim[h].pc
                        /\ shim'[h].killed = shim[h].killed
                        /\ shim[h].lost = TRUE => shim'[h].lost = TRUE
                        /\ shim'[h].conn = shim[h].conn
                        /\ ProcessInv(shim'[h])
      BY Zenon DEF WorkerEffect
    <3>1. PICK b \in BOOLEAN : shim'[h] = [shim[h] EXCEPT !.lost = b] /\ (shim[h].lost = TRUE => b = TRUE)
      <4>1. shim'[h] = [shim[h] EXCEPT !.lost = shim[h].lost \/ (exitFile = h /\ exitFile' # h)]
        BY <1>a, <2>1
      <4>2. (shim[h].lost \/ (exitFile = h /\ exitFile' # h)) \in BOOLEAN
        OBVIOUS
      <4> QED BY <4>1, <4>2, Zenon
    <3>2. ProcessInv(shim'[h])
      <4>1. shim[h] \in ShimProcess /\ ProcessInv(shim[h])
        BY <1>a, Zenon
      <4>2. ProcessInv([shim[h] EXCEPT !.lost = b])
        BY <4>1, ProcessKept, Zenon
      <4> QED BY <3>1, <4>2, Zenon
    <3> QED BY <1>a, <3>1, <3>2 DEF ShimProcess
  <2> QED BY <1>8, <1>b, <2>1, Zenon DEF RemoveDir
<1>9. CASE WorkerRestarts
  <2> SUFFICES ASSUME NEW h \in Shim
               PROVE  /\ shim'[h].fc = shim[h].fc /\ shim'[h].pc = shim[h].pc
                      /\ shim'[h].killed = shim[h].killed /\ shim'[h].lost = shim[h].lost
                      /\ shim'[h].conn = "none"
                      /\ ProcessInv(shim'[h])
    BY Zenon DEF WorkerEffect
  <2>1. shim'[h] = [shim[h] EXCEPT !.conn = "none"]
    BY <1>9 DEF WorkerRestarts
  <2>2. ProcessInv(shim'[h])
    BY <1>a, <2>1, ProcessKept, Zenon
  <2> QED BY <1>a, <2>1, <2>2 DEF ShimProcess
<1> QED
  BY <1>1, <1>2, <1>3, <1>4, <1>5, <1>6, <1>7, <1>8, <1>9, Zenon
     DEF WorkerStep, Create, StopOrRemove, CreateVolume, ClearExit, WaitRunning, KillEnds,
         RemoveVolume, ReapOrphan, Attach, AttachReadsExit, Read

NoHandle == {"idle", "volume", "clear", "start", "attach", "killStale", "find"}
Opening == {"dial", "exited", "connect"}

(* A step that keeps the Handle as it is.                                  *)
LEMMA KeepsHandle ==
    ASSUME TypeOK, TrueInv, WorkerEffect, exitFile' = exitFile,
           worker'.pid = worker.pid, worker'.peer = worker.peer, worker'.result = worker.result,
           worker.pc # "exited", worker'.pc \notin NoHandle \cup Opening
    PROVE  HandleInv'
<1>a. worker.pid \in Shim \cup {NoShim} /\ NoShim \notin Shim
  BY ShimAssumption DEF TypeOK, Worker
<1>b. HandleInv
  BY DEF TrueInv
<1>1. ASSUME worker.pid # NoShim
      PROVE  OwnInv(worker.pid)'
  <2>1. worker.pid \in Shim /\ OwnInv(worker.pid)
    BY <1>1, <1>a, <1>b, Zenon DEF HandleInv
  <2>2. \A g \in Shim : Here(g)' => Here(g)
    BY DEF WorkerEffect, Here, Alive, HasVM
  <2>3. \A h \in Shim : h = worker.pid => worker'.pid = h
    BY Zenon
  <2> QED BY <2>1, <2>2, <2>3 DEF OwnInv, WorkerEffect, Alive
<1>2. worker.pid \in Shim =>
          /\ shim'[worker.pid].fc = shim[worker.pid].fc
          /\ ~Alive(worker.pid) => ~Alive(worker.pid)'
          /\ shim[worker.pid].killed = TRUE => shim'[worker.pid].killed = TRUE
          /\ shim[worker.pid].lost = TRUE => shim'[worker.pid].lost = TRUE
  BY DEF WorkerEffect, Alive
<1>3. worker.result \in Shim \cup {"died"} => worker.pid \in Shim
  BY <1>a, <1>b, ShimAssumption DEF HandleInv
<1>4. worker.result \in Shim => worker.result = worker.pid /\ shim'[worker.pid].fc = "gone"
  BY <1>b, <1>2, <1>3, Zenon DEF HandleInv
<1>5. worker.result = "died" =>
          ~Alive(worker.pid)' /\ (shim'[worker.pid].killed = TRUE \/ shim'[worker.pid].lost = TRUE)
  BY <1>b, <1>2, <1>3, Zenon DEF HandleInv
<1> QED BY <1>b, <1>1, <1>4, <1>5 DEF HandleInv, NoHandle, Opening

(* A step after which there is no Handle.                                  *)
LEMMA DropsHandle ==
    ASSUME worker'.pid = NoShim, worker'.peer = NoShim, worker'.result = "none", worker'.pc \notin Opening
    PROVE  HandleInv'
BY ShimAssumption DEF HandleInv, Opening

(* A step that leaves the files; a new Handle is of the pid file's shim.   *)
LEMMA KeepsFiles ==
    ASSUME TypeOK, TrueInv, WorkerEffect, UNCHANGED <<pidFile, exitFile, sock>>,
           volume' = volume \/ volume' = FALSE,
           worker'.pid \in {worker.pid, pidFile, NoShim},
           worker'.pc # "start"
    PROVE  FileInv' /\ \A h \in Shim : FoundInv(h)'
<1>a. {pidFile, exitFile, worker.pid} \subseteq Shim \cup {NoShim} /\ NoShim \notin Shim
  BY ShimAssumption DEF TypeOK, Worker
<1>b. FileInv /\ \A h \in Shim : FoundInv(h)
  BY DEF TrueInv
<1>1. \A h \in Shim : FoundInv(h)'
  BY <1>b DEF FoundInv, WorkerEffect, Alive
<1>2. exitFile # NoShim => /\ shim'[exitFile].pc \in {"tell", "close", "gone"}
                           /\ shim'[exitFile].fc = "gone"
  BY <1>a, <1>b DEF FileInv, WorkerEffect
<1>3. ASSUME NEW h \in {pidFile, worker'.pid} \ {NoShim}, shim'[h].pc \in {"tell", "close"}
      PROVE  exitFile = h \/ shim'[h].lost = TRUE
  <2>1. h \in {pidFile, worker.pid} \ {NoShim} /\ h \in Shim
    BY <1>3, <1>a
  <2>2. shim[h].pc \in {"tell", "close"}
    BY <1>3, <2>1 DEF WorkerEffect
  <2> QED BY <1>b, <2>1, <2>2 DEF FileInv, WorkerEffect
<1> QED BY <1>1, <1>2, <1>3, Zenon DEF FileInv

(* The shim that answers on the socket is the Handle's: no other is there. *)
LEMMA ConnectsRight ==
    ASSUME TypeOK, TypeOK', TrueInv, worker.pc \in {"dial", "connect"}, Connects(worker.pid),
           UNCHANGED <<files, volume>>
    PROVE  TrueInv'
<1>a. worker \in Worker /\ worker.pid \in Shim \cup {NoShim} /\ NoShim \notin Shim
  BY ShimAssumption DEF TypeOK, Worker
<1>b. HandleInv
  BY DEF TrueInv
<1>c. WorkerEffect /\ sock \in Shim /\ Alive(sock) /\ Here(sock) /\ shim'[sock].pc = shim[sock].pc
  BY ConnectEffect
<1>1. /\ worker.pid \in Shim /\ worker.peer = NoShim /\ worker.result = "none" /\ OwnInv(worker.pid)
  BY <1>a, <1>b DEF HandleInv
<1>2. sock = worker.pid
  BY <1>c, <1>1, Zenon DEF OwnInv
<1>3. /\ worker'.pid = worker.pid /\ worker'.peer = worker.pid /\ worker'.result = "none"
      /\ worker'.pc \in {"boot", "tracked"}
  BY <1>a, <1>1, <1>2 DEF Connects, Worker
<1>4. OwnInv(worker.pid)'
  <2>1. \A g \in Shim : Here(g)' => Here(g)
    BY <1>c DEF WorkerEffect, Here, Alive, HasVM
  <2>2. Alive(worker.pid)'
    BY <1>c, <1>2, <1>3 DEF Alive
  <2>3. exitFile' \in {NoShim, worker.pid}
    BY <1>1 DEF OwnInv, files
  <2> QED BY <1>1, <1>3, <2>1, <2>2, <2>3 DEF OwnInv, Alive
<1>5. HandleInv'
  BY <1>1, <1>3, <1>4, ShimAssumption DEF HandleInv
<1>6. FileInv' /\ \A h \in Shim : FoundInv(h)'
  <2>1. worker'.pid \in {worker.pid, pidFile, NoShim} /\ worker'.pc # "start"
    BY <1>3
  <2> QED BY <1>c, <2>1, KeepsFiles, Zenon DEF files
<1> QED BY <1>c, <1>5, <1>6, Zenon DEF TrueInv, WorkerEffect

(* What the Handle says once its connection ends.                          *)
LEMMA ReadsRight ==
    ASSUME TypeOK, TypeOK', TrueInv, Read
    PROVE  TrueInv'
<1> DEFINE h == worker.pid
<1>a. /\ worker \in Worker /\ {h, exitFile, worker.peer} \subseteq Shim \cup {NoShim}
      /\ NoShim \notin Shim
  BY ShimAssumption DEF TypeOK, Worker
<1>b. HandleInv /\ FileInv
  BY DEF TrueInv
<1>c. WorkerEffect /\ UNCHANGED <<files, volume, shim>>
  BY Zenon DEF WorkerEffect, TrueInv, Read
<1>1. h \in Shim /\ worker.peer = h /\ worker.pc \notin NoHandle \cup Opening /\ OwnInv(h)
  BY <1>a, <1>b DEF Read, HandleInv, NoHandle, Opening
<1>2. /\ worker'.pid = h /\ worker'.peer = h /\ worker'.pc = worker.pc
      /\ worker'.result = IF shim[h].conn = "line" THEN h
                          ELSE IF exitFile # NoShim THEN exitFile ELSE "died"
  BY <1>a, <1>1 DEF Read, Worker
<1>3. ProcessInv(shim[h]) /\ shim[h].conn \in {"line", "eof"}
  BY <1>1 DEF Read, TrueInv
<1>4. exitFile \in {NoShim, h} /\ (exitFile # NoShim => shim[h].fc = "gone")
  BY <1>1, <1>b DEF OwnInv, FileInv, Opening
<1>5. worker'.result \in Shim => worker'.result = h /\ shim[h].fc = "gone"
  BY <1>2, <1>3, <1>4, ShimAssumption DEF ProcessInv
<1>6. worker'.result = "died" => ~Alive(h) /\ (shim[h].killed = TRUE \/ shim[h].lost = TRUE)
  <2> SUFFICES ASSUME worker'.result = "died"
               PROVE  ~Alive(h) /\ (shim[h].killed = TRUE \/ shim[h].lost = TRUE)
    BY Zenon
  <2>1. shim[h].conn = "eof" /\ exitFile = NoShim
    BY <1>1, <1>2, <1>3, <1>4, ShimAssumption
  <2>2. ~Alive(h)
    BY <1>3, <2>1 DEF ProcessInv, Alive
  <2> QED BY <1>a, <1>1, <2>1, <2>2 DEF OwnInv
<1>7. OwnInv(h)'
  BY <1>1, <1>2, <1>c, Zenon DEF OwnInv, Here, Alive, HasVM, files
<1>8. HandleInv'
  <2>1. ~Alive(h) => ~Alive(worker.pid)'
    BY <1>c, <1>2 DEF Alive
  <2>2. shim'[worker'.pid] = shim[h]
    BY <1>c, <1>2
  <2> QED BY <1>1, <1>2, <1>5, <1>6, <1>7, <1>a, <2>1, <2>2 DEF HandleInv, NoHandle, Opening
<1>9. FileInv' /\ \A g \in Shim : FoundInv(g)'
  <2>1. worker'.pid \in {worker.pid, pidFile, NoShim} /\ worker'.pc # "start"
    BY <1>1, <1>2 DEF NoHandle
  <2> QED BY <1>c, <2>1, KeepsFiles, Zenon DEF files
<1> QED BY <1>c, <1>8, <1>9, Zenon DEF TrueInv, WorkerEffect

(* A new shim: it is the only one, and nothing in the directory is its.    *)
LEMMA StartsRight ==
    ASSUME TypeOK, TypeOK', OneShim, TrueInv, StartShim
    PROVE  TrueInv'
<1>a. /\ worker \in Worker /\ {pidFile, exitFile, sock} \subseteq Shim \cup {NoShim} /\ NoShim \notin Shim
      /\ shim \in [Shim -> ShimProcess] /\ UNCHANGED <<pidFile, exitFile, sock, volume>>
  BY ShimAssumption, Zenon DEF TypeOK, StartShim, files
<1>b. HandleInv /\ FileInv /\ worker.pc = "start" /\ \A h \in Shim : ~Here(h)
  BY Zenon DEF TrueInv, StartShim, OneShim
<1>c. worker.pid = NoShim /\ worker.peer = NoShim /\ worker.result = "none" /\ exitFile = NoShim
  BY <1>b DEF HandleInv, FileInv
<1>1. CASE Goto("cleanup") /\ UNCHANGED shim
  <2>1. /\ worker'.pc = "cleanup" /\ worker'.pid = NoShim /\ worker'.peer = NoShim
        /\ worker'.result = "none"
    BY <1>1, <1>a, <1>c DEF Goto, Worker
  <2>2. HandleInv'
    BY <2>1, DropsHandle DEF Opening
  <2>3. WorkerEffect
    BY <1>1, Zenon DEF WorkerEffect, TrueInv
  <2>4. FileInv' /\ \A h \in Shim : FoundInv(h)'
    <3>1. worker'.pid \in {worker.pid, pidFile, NoShim} /\ worker'.pc # "start"
      BY <2>1
    <3> QED BY <1>a, <2>3, <3>1, KeepsFiles, Zenon
  <2> QED BY <2>2, <2>3, <2>4, Zenon DEF TrueInv, WorkerEffect
<1>2. ASSUME NEW h \in Shim, Free(h), Becomes(h, NewShim),
             worker' = [worker EXCEPT !.pc = "dial", !.pid = h]
      PROVE  TrueInv'
  <2>1. shim'[h] = NewShim /\ \A g \in Shim \ {h} : shim'[g] = shim[g]
    BY <1>2, <1>a DEF Becomes
  <2>2. worker'.pc = "dial" /\ worker'.pid = h /\ worker'.peer = NoShim /\ worker'.result = "none"
    BY <1>2, <1>a, <1>c DEF Worker
  <2>3. \A g \in Shim : ProcessInv(shim[g])'
    <3>1. ProcessInv(NewShim)
      BY DEF ProcessInv, NewShim
    <3> QED BY <2>1, <3>1, Zenon DEF TrueInv
  <2>4. h \notin {pidFile, exitFile, sock} /\ NewShim.pc = "listen" /\ NewShim.conn = "none"
    BY <1>2, Zenon DEF Free, NewShim
  <2>5. \A g \in Shim \ {h} : ~Alive(g)' /\ ~Here(g)'
    BY <1>b, <2>1 DEF Here, Alive, HasVM
  <2>6. \A g \in Shim : FoundInv(g)'
    BY <1>a, <1>c, <2>1, <2>4, <2>5 DEF FoundInv
  <2>7. FileInv'
    <3>1. ASSUME NEW g \in {pidFile, h} \ {NoShim}
          PROVE  shim'[g].pc \notin {"tell", "close"}
      <4>1. g \in Shim
        BY <1>a
      <4> QED BY <2>1, <2>4, <2>5, <4>1 DEF Alive
    <3> QED BY <1>a, <1>c, <2>2, <3>1 DEF FileInv
  <2>8. OwnInv(worker.pid)'
    BY <1>a, <1>c, <2>1, <2>2, <2>4, <2>5 DEF OwnInv
  <2>9. HandleInv'
    BY <2>2, <2>8, <1>a, ShimAssumption DEF HandleInv
  <2> QED BY <2>3, <2>6, <2>7, <2>9, Zenon DEF TrueInv
<1> QED BY <1>1, <1>2, Zenon DEF StartShim

(* Directory and files are removed when nobody has a Handle any more, and  *)
(* no VM a volume.                                                         *)
LEMMA RemovesRight ==
    ASSUME TypeOK, TypeOK', OneShim, TrueInv, RemoveDir
    PROVE  TrueInv'
<1>a. /\ {pidFile, exitFile, sock} \subseteq Shim \cup {NoShim} /\ NoShim \notin Shim
      /\ shim \in [Shim -> ShimProcess]
  BY ShimAssumption DEF TypeOK
<1>b. FileInv /\ (\A h \in Shim : FoundInv(h)) /\ worker.pc = "rmdir" /\ volume' = FALSE
  BY Zenon DEF TrueInv, RemoveDir, OneShim
<1>c. WorkerEffect
  BY <1>b, WorkersEffect DEF WorkerStep, StartShim
<1>1. HandleInv'
  <2>1. worker' = Idle
    BY Zenon DEF RemoveDir
  <2> QED BY <2>1, DropsHandle DEF Idle, Opening
<1>2. exitFile' \in {exitFile, NoShim} /\ pidFile' \in {pidFile, NoShim}
  BY Zenon DEF RemoveDir
<1>3. \A h \in Shim : FoundInv(h)'
  BY <1>b, <1>c, <1>2 DEF FoundInv, WorkerEffect, Alive
<1>4. exitFile' # NoShim => /\ shim'[exitFile'].pc \in {"tell", "close", "gone"}
                            /\ shim'[exitFile'].fc = "gone"
  BY <1>a, <1>b, <1>c, <1>2 DEF FileInv, WorkerEffect
<1>5. ASSUME NEW h \in {pidFile', worker'.pid} \ {NoShim}, shim'[h].pc \in {"tell", "close"}
      PROVE  exitFile' = h \/ shim'[h].lost = TRUE
  <2>1. worker'.pid = NoShim
    BY DEF RemoveDir, Idle
  <2>2. h = pidFile /\ h \in Shim /\ pidFile' # NoShim
    BY <1>5, <1>a, <1>2, <2>1
  <2>3. shim[h].pc \in {"tell", "close"}
    BY <1>5, <1>c, <2>2 DEF WorkerEffect
  <2>4. exitFile = h \/ shim[h].lost = TRUE
    BY <1>b, <2>2, <2>3 DEF FileInv
  <2>5. CASE shim[h].lost = TRUE
    BY <1>c, <2>2, <2>5 DEF WorkerEffect
  <2>6. CASE exitFile = h /\ exitFile' # h
    <3>1. shim' = [g \in Shim |-> [shim[g] EXCEPT !.lost = @ \/ (exitFile = g /\ exitFile' # g)]]
      BY <2>2, Zenon DEF RemoveDir
    <3>2. shim'[h] = [shim[h] EXCEPT !.lost = shim[h].lost \/ (exitFile = h /\ exitFile' # h)]
      BY <2>2, <3>1
    <3>3. (shim[h].lost \/ (exitFile = h /\ exitFile' # h)) = TRUE
      BY <2>6
    <3>4. shim'[h] = [shim[h] EXCEPT !.lost = TRUE]
      BY <3>2, <3>3, Zenon
    <3> QED BY <1>a, <2>2, <3>4 DEF ShimProcess
  <2> QED BY <2>4, <2>5, <2>6, Zenon
<1>6. worker'.pc # "start"
  BY DEF RemoveDir, Idle
<1> QED BY <1>c, <1>1, <1>3, <1>4, <1>5, <1>6, Zenon DEF TrueInv, FileInv, WorkerEffect

LEMMA WorkerKeepsTrue ==
    ASSUME TypeOK, TypeOK', OneShim, TrueInv,
           Create \/ StopOrRemove \/ WorkerStep \/ Read \/ WorkerRestarts
    PROVE  TrueInv'
<1>a. /\ worker \in Worker /\ worker.after \in {"tracked", "cleanup"}
      /\ {pidFile, exitFile, sock, worker.pid} \subseteq Shim \cup {NoShim} /\ NoShim \notin Shim
  BY ShimAssumption DEF TypeOK, Worker
<1>b. HandleInv /\ FileInv /\ \A h \in Shim : ProcessInv(shim[h]) /\ FoundInv(h)
  BY DEF TrueInv
<1>c. worker.pc \in NoHandle => worker.pid = NoShim /\ worker.peer = NoShim /\ worker.result = "none"
  BY <1>b DEF HandleInv, NoHandle
<1>g. \A pc : Goto(pc) => /\ worker'.pc = pc /\ worker'.pid = worker.pid
                          /\ worker'.peer = worker.peer /\ worker'.result = worker.result
  BY <1>a DEF Goto, Worker
<1>i. \A pc : LET r == [Idle EXCEPT !.pc = pc]
              IN  r.pc = pc /\ r.pid = NoShim /\ r.peer = NoShim /\ r.result = "none"
  BY DEF Idle
<1>s. StopReturns => /\ worker'.pc \in {"tracked", "cleanup"} /\ worker'.pid = worker.pid
                     /\ worker'.peer = worker.peer /\ worker'.result = worker.result
  BY <1>a DEF StopReturns, Worker
<1>e. ~StartShim => WorkerEffect
  BY WorkersEffect, Zenon
<1> DEFINE Still == pidFile' = pidFile /\ exitFile' = exitFile /\ sock' = sock
                    /\ (volume' = volume \/ volume' = FALSE)
<1>k. ASSUME worker.pc \notin {"start", "exited"}, Still,
             worker'.pid = worker.pid, worker'.peer = worker.peer, worker'.result = worker.result,
             worker'.pc \notin NoHandle \cup Opening
      PROVE  TrueInv'
  <2>1. WorkerEffect
    BY <1>k, <1>e, Zenon DEF StartShim
  <2>2. HandleInv'
    BY <1>k, <2>1, KeepsHandle
  <2>3. FileInv' /\ \A h \in Shim : FoundInv(h)'
    BY <1>k, <2>1, KeepsFiles, Zenon DEF NoHandle
  <2> QED BY <2>1, <2>2, <2>3, Zenon DEF TrueInv, WorkerEffect
<1>d. ASSUME worker.pc # "start", Still,
             worker'.pid = NoShim, worker'.peer = NoShim, worker'.result = "none",
             worker'.pc \notin Opening \cup {"start"}
      PROVE  TrueInv'
  <2>1. WorkerEffect
    BY <1>d, <1>e, Zenon DEF StartShim
  <2>2. HandleInv'
    BY <1>d, DropsHandle
  <2>3. FileInv' /\ \A h \in Shim : FoundInv(h)'
    BY <1>d, <2>1, KeepsFiles, Zenon
  <2> QED BY <2>1, <2>2, <2>3, Zenon DEF TrueInv, WorkerEffect
<1>1. CASE Create
  BY <1>1, <1>c, <1>d, <1>g DEF Create, Idle, NoHandle, Opening
<1>2. CASE StopOrRemove
  <2>1. /\ worker'.pc = "term" /\ worker'.pid = worker.pid
        /\ worker'.peer = worker.peer /\ worker'.result = worker.result
    BY <1>2, <1>a DEF StopOrRemove, Worker
  <2> QED BY <1>2, <1>k, <2>1 DEF StopOrRemove, NoHandle, Opening, files
<1>3. CASE CreateVolume
  <2>1. /\ worker'.pc \in {"clear", "cleanup"} /\ worker'.pid = NoShim /\ worker'.peer = NoShim
        /\ worker'.result = "none" /\ worker.pc = "volume" /\ UNCHANGED <<pidFile, exitFile, sock>>
    BY <1>3, <1>c, <1>g DEF CreateVolume, NoHandle, files
  <2>2. CASE volume' = volume
    BY <1>d, <2>1, <2>2 DEF Opening
  <2>3. CASE volume = FALSE
    <3>1. \A h \in Shim : ~Here(h)
      BY <2>1, <2>3 DEF OneShim
    <3>2. shim' = shim
      BY <1>3 DEF CreateVolume
    <3>3. \A h \in Shim : FoundInv(h)'
      BY <3>1, <3>2 DEF FoundInv, Here, Alive
    <3>4. HandleInv'
      BY <2>1, DropsHandle DEF Opening
    <3>5. FileInv'
      BY <1>b, <2>1, <3>2 DEF FileInv
    <3> QED BY <1>b, <3>2, <3>3, <3>4, <3>5, Zenon DEF TrueInv
  <2>4. volume' = volume \/ volume = FALSE
    BY <1>3, Zenon DEF CreateVolume, TypeOK
  <2> QED BY <2>2, <2>3, <2>4, Zenon
<1>4. CASE ClearExit
  <2>1. /\ worker'.pc \in {"start", "cleanup"} /\ worker'.pid = NoShim /\ worker'.peer = NoShim
        /\ worker'.result = "none" /\ worker.pc = "clear" /\ UNCHANGED <<pidFile, sock, volume, shim>>
        /\ exitFile' = NoShim \/ (exitFile' = exitFile /\ worker'.pc = "cleanup")
    BY <1>4, <1>c, <1>g DEF ClearExit, NoHandle
  <2>2. \A h \in Shim : ~Alive(h) /\ ~Alive(h)'
    BY <2>1 DEF OneShim, Here, Alive
  <2>3. \A h \in Shim : FoundInv(h)'
    BY <2>2, Zenon DEF FoundInv
  <2>4. HandleInv'
    BY <2>1, DropsHandle DEF Opening
  <2>5. FileInv'
    <3>1. \A h \in {pidFile, NoShim} \ {NoShim} : shim[h].pc \notin {"tell", "close"}
      BY <1>a, <2>2 DEF Alive
    <3> QED BY <1>b, <2>1, <3>1 DEF FileInv
  <2> QED BY <1>b, <2>1, <2>3, <2>4, <2>5, Zenon DEF TrueInv
<1>5. CASE StartShim BY <1>5, StartsRight
<1>6. CASE Dial
  <2>1. worker.pc = "dial" /\ UNCHANGED <<files, volume>> /\ Still
    BY <1>6 DEF Dial, files
  <2>2. CASE Connects(worker.pid)
    BY <2>1, <2>2, ConnectsRight
  <2>3. CASE worker' = [Idle EXCEPT !.pc = "cleanup"]
    BY <1>d, <1>i, <2>1, <2>3 DEF Opening
  <2>4. CASE /\ ~Alive(worker.pid) /\ shim' = shim /\ exitFile # NoShim
             /\ worker' = [worker EXCEPT !.pc = "boot", !.result = exitFile]
    <3>1. /\ worker.pid \in Shim /\ worker.peer = NoShim /\ worker.result = "none" /\ OwnInv(worker.pid)
      BY <1>a, <1>b, <2>1 DEF HandleInv
    <3>2. exitFile = worker.pid /\ shim[worker.pid].fc = "gone"
      BY <1>b, <2>1, <2>4, <3>1 DEF OwnInv, FileInv
    <3>3. /\ worker'.pc = "boot" /\ worker'.pid = worker.pid /\ worker'.peer = NoShim
          /\ worker'.result = worker.pid
      BY <1>a, <2>4, <3>1, <3>2 DEF Worker
    <3>4. OwnInv(worker.pid)'
      BY <2>1, <2>4, <3>1, <3>2, <3>3 DEF OwnInv, Here, Alive, HasVM
    <3>5. HandleInv'
      BY <1>a, <2>4, <3>1, <3>2, <3>3, <3>4, ShimAssumption DEF HandleInv
    <3>6. WorkerEffect
      BY <1>e, <2>1 DEF StartShim
    <3>7. FileInv' /\ \A h \in Shim : FoundInv(h)'
      BY <2>1, <3>3, <3>6, KeepsFiles
    <3> QED BY <3>5, <3>6, <3>7, Zenon DEF TrueInv, WorkerEffect
  <2> QED BY <1>6, <2>2, <2>3, <2>4, Zenon DEF Dial
<1>7. CASE WaitRunning
  BY <1>7, <1>g, <1>k DEF WaitRunning, NoHandle, Opening, files
<1>8. CASE Terminate \/ GraceEnds \/ KillEnds
  <2>1. /\ worker'.pc \in {"tracked", "cleanup", "grace", "killed"} /\ worker'.pid = worker.pid
        /\ worker'.peer = worker.peer /\ worker'.result = worker.result
        /\ worker.pc \in {"term", "grace", "killed"} /\ Still
    BY <1>8, <1>g, <1>s, Zenon DEF Terminate, GraceEnds, KillEnds, files
  <2> QED BY <1>k, <2>1, Zenon DEF NoHandle, Opening
<1>9. CASE RemoveVolume
  <2>1. worker.pc = "cleanup" /\ Still
    BY <1>9, Zenon DEF RemoveVolume, files
  <2>2. CASE Goto("rmdir")
    <3>1. /\ worker'.pc = "rmdir" /\ worker'.pid = worker.pid
          /\ worker'.peer = worker.peer /\ worker'.result = worker.result
      BY <1>g, <2>2, Zenon
    <3> QED BY <1>k, <2>1, <3>1, Zenon DEF NoHandle, Opening
  <2>3. CASE worker' = Idle
    BY <1>d, <2>1, <2>3, Zenon DEF Idle, Opening
  <2> QED BY <1>9, <2>2, <2>3, Zenon DEF RemoveVolume
<1>10. CASE RemoveDir BY <1>10, RemovesRight
<1>11. CASE ReapOrphan \/ KillStale \/ TermFirecracker
  <2>1. /\ worker.pc \in {"idle", "killStale", "find"} /\ worker'.pc \in {"killStale", "find", "cleanup"}
        /\ worker'.pid = worker.pid /\ worker'.peer = worker.peer /\ worker'.result = worker.result
        /\ Still
    BY <1>11, <1>g DEF ReapOrphan, KillStale, TermFirecracker, Idle, files
  <2> QED BY <1>c, <1>d, <2>1, Zenon DEF NoHandle, Opening
<1>12. CASE Attach
  <2>1. worker.pc = "attach" /\ Still /\ shim' = shim
    BY <1>12, Zenon DEF Attach, files
  <2>2. CASE Goto("killStale")
    <3>1. /\ worker'.pc = "killStale" /\ worker'.pid = worker.pid
          /\ worker'.peer = worker.peer /\ worker'.result = worker.result
      BY <1>g, <2>2, Zenon
    <3> QED BY <1>c, <1>d, <2>1, <3>1, Zenon DEF NoHandle, Opening
  <2>3. CASE pidFile # NoShim /\ Alive(pidFile) /\ worker' = [worker EXCEPT !.pc = "exited", !.pid = pidFile]
    <3>1. /\ worker'.pc = "exited" /\ worker'.pid = pidFile /\ worker'.peer = NoShim
          /\ worker'.result = "none" /\ pidFile \in Shim
      BY <1>a, <1>c, <2>1, <2>3 DEF NoHandle, Worker
    <3>2. OwnInv(worker.pid)'
      <4>1. \A g \in Shim : Here(g) => g = pidFile
        BY <2>3, <3>1, Zenon DEF OneShim, Here
      <4> QED BY <2>1, <2>3, <3>1, <4>1 DEF OwnInv, Here, Alive, HasVM
    <3>3. HandleInv'
      BY <1>a, <3>1, <3>2, ShimAssumption DEF HandleInv
    <3>4. WorkerEffect
      BY <1>e, <2>1 DEF StartShim
    <3>5. FileInv' /\ \A h \in Shim : FoundInv(h)'
      BY <2>1, <3>1, <3>4, KeepsFiles, Zenon
    <3> QED BY <3>3, <3>4, <3>5, Zenon DEF TrueInv, WorkerEffect
  <2> QED BY <1>12, <2>2, <2>3, Zenon DEF Attach
<1>13. CASE AttachReadsExit
  <2>1. worker.pc = "exited" /\ Still /\ shim' = shim
    BY <1>13, Zenon DEF AttachReadsExit, files
  <2>2. CASE worker' = [Idle EXCEPT !.pc = "killStale"]
    BY <1>d, <1>i, <2>1, <2>2, Zenon DEF Opening
  <2>3. CASE exitFile = NoShim /\ worker' = [worker EXCEPT !.pc = "connect"]
    <3>1. /\ worker.pid \in Shim /\ worker.peer = NoShim /\ worker.result = "none" /\ OwnInv(worker.pid)
      BY <1>a, <1>b, <2>1 DEF HandleInv
    <3>2. /\ worker'.pc = "connect" /\ worker'.pid = worker.pid /\ worker'.peer = NoShim
          /\ worker'.result = "none"
      BY <1>a, <2>3, <3>1 DEF Worker
    <3>3. OwnInv(worker.pid)'
      BY <2>1, <2>3, <3>1, <3>2 DEF OwnInv, Here, Alive, HasVM
    <3>4. HandleInv'
      BY <1>a, <3>1, <3>2, <3>3, ShimAssumption DEF HandleInv
    <3>5. WorkerEffect
      BY <1>e, <2>1 DEF StartShim
    <3>6. FileInv' /\ \A h \in Shim : FoundInv(h)'
      BY <2>1, <3>2, <3>5, KeepsFiles, Zenon
    <3> QED BY <3>4, <3>5, <3>6, Zenon DEF TrueInv, WorkerEffect
  <2> QED BY <1>13, <2>2, <2>3, Zenon DEF AttachReadsExit
<1>14. CASE AttachConnects
  <2>1. worker.pc = "connect" /\ UNCHANGED <<files, volume>> /\ Still
    BY <1>14 DEF AttachConnects, files
  <2>2. CASE Connects(worker.pid)
    BY <2>1, <2>2, ConnectsRight
  <2>3. CASE worker' = [Idle EXCEPT !.pc = "killStale"]
    BY <1>d, <1>i, <2>1, <2>3 DEF Opening
  <2> QED BY <1>14, <2>2, <2>3, Zenon DEF AttachConnects
<1>15. CASE Read BY <1>15, ReadsRight
<1>16. CASE WorkerRestarts
  <2>1. /\ worker'.pc \in {"attach", "idle"} /\ worker'.pid = NoShim /\ worker'.peer = NoShim
        /\ worker'.result = "none" /\ UNCHANGED <<pidFile, exitFile, sock>>
        /\ volume' = volume \/ (worker.pc = "volume" /\ volume = FALSE)
    BY <1>16, <1>i DEF WorkerRestarts, files
  <2>3. CASE ~StartShim
    <3>1. WorkerEffect
      BY <1>e, <2>3
    <3>2. CASE volume' = volume
      <4>1. FileInv' /\ \A h \in Shim : FoundInv(h)'
        BY <2>1, <3>1, <3>2, KeepsFiles, Zenon
      <4>2. HandleInv'
        BY <2>1, DropsHandle DEF Opening
      <4> QED BY <3>1, <4>1, <4>2, Zenon DEF TrueInv, WorkerEffect
    <3>3. CASE worker.pc = "volume" /\ volume = FALSE
      <4>1. \A h \in Shim : ~Alive(h)
        BY <3>3 DEF OneShim, Here
      <4>2. \A h \in Shim : FoundInv(h)'
        BY <3>1, <4>1 DEF FoundInv, Alive, WorkerEffect
      <4>3. FileInv'
        BY <1>b, <2>1, <3>1, <4>1, ShimAssumption DEF FileInv, WorkerEffect, Alive, TypeOK
      <4>4. HandleInv'
        BY <2>1, DropsHandle DEF Opening
      <4> QED BY <3>1, <4>2, <4>3, <4>4, Zenon DEF TrueInv, WorkerEffect
    <3> QED BY <2>1, <3>2, <3>3, Zenon
  <2> QED BY <1>5, <2>3, Zenon
<1> QED
  BY <1>1, <1>2, <1>3, <1>4, <1>5, <1>6, <1>7, <1>8, <1>9, <1>10, <1>11, <1>12, <1>13, <1>14,
     <1>15, <1>16, Zenon DEF WorkerStep

LEMMA TrueInvariant == Spec => []TrueInv
<1>1. Init => TrueInv
  <2> SUFFICES ASSUME Init PROVE TrueInv
    BY Zenon
  <2>1. \A h \in Shim : shim[h] = NoProcess
    BY Zenon DEF Init
  <2>2. worker = Idle /\ exitFile = NoShim /\ pidFile = NoShim
    BY DEF Init
  <2>3. HandleInv /\ FileInv
    BY <2>2, ShimAssumption DEF HandleInv, FileInv, Idle
  <2>4. \A h \in Shim : ProcessInv(shim[h]) /\ FoundInv(h)
    BY <2>1, Zenon DEF ProcessInv, FoundInv, Alive, NoProcess, NewShim
  <2> QED BY <2>3, <2>4, Zenon DEF TrueInv
<1>2. TypeOK /\ OneShim /\ TypeOK' /\ TrueInv /\ [Next]_vars => TrueInv'
  <2> SUFFICES ASSUME TypeOK, OneShim, TypeOK', TrueInv, [Next]_vars
               PROVE  TrueInv'
    BY Zenon
  <2>1. CASE Create \/ StopOrRemove \/ WorkerStep \/ Read \/ WorkerRestarts
    BY <2>1, WorkerKeepsTrue, Zenon
  <2>2. ASSUME NEW h \in Shim,
               ShimStep(h) \/ Accept(h) \/ ShimDies(h) \/ OpenDrive(h) \/ BootVM(h) \/ ExitVM(h)
        PROVE  TrueInv'
    <3>1. ProcessInv(shim[h])
      BY DEF TrueInv
    <3> QED BY <2>2, <3>1, ShimsMove, ShimsEffect, ShimKeepsTrue, Zenon
  <2>3. CASE UNCHANGED vars
    BY <2>3, Zenon DEF vars, files, TrueInv, HandleInv, FileInv, FoundInv, OwnInv, Here, Alive, HasVM
  <2> QED BY <2>1, <2>2, <2>3, Zenon DEF Next
<1> QED BY <1>1, <1>2, Invariant, PTL DEF Spec

(* What a Handle says of its VM is so, for any number of shims: no exit of *)
(* an earlier VM passes for this one's, no orderly end for a death, and a  *)
(* VM said to be gone is gone, or dies with its shim.                      *)
THEOREM HandleSaysTrue == Spec => []HandleIsTrue
<1>1. TypeOK /\ TrueInv => HandleIsTrue
  <2> SUFFICES ASSUME TypeOK, TrueInv PROVE HandleIsTrue
    BY Zenon
  <2>1. HandleInv /\ worker.pid \in Shim \cup {NoShim} /\ worker.result \in {"none", "died"} \cup Shim
    BY DEF TrueInv, TypeOK, Worker
  <2>2. worker.result # "none" => worker.pid \in Shim /\ ProcessInv(shim[worker.pid])
    BY <2>1, Zenon DEF HandleInv, TrueInv
  <2>3. worker.result \in Shim => worker.result = worker.pid /\ shim[worker.pid].fc = "gone"
    BY <2>1, Zenon DEF HandleInv
  <2>4. worker.result = "died" =>
            ~Alive(worker.pid) /\ (shim[worker.pid].killed = TRUE \/ shim[worker.pid].lost = TRUE)
    BY <2>1, Zenon DEF HandleInv
  <2>5. worker.result # "none" =>
            ~HasVM(worker.pid) \/ (~Alive(worker.pid) /\ shim[worker.pid].killed = TRUE)
    BY <2>1, <2>2, <2>3, <2>4 DEF ProcessInv, HasVM, Alive
  <2> QED BY <2>3, <2>4, <2>5, Zenon DEF HandleIsTrue
<1> QED BY <1>1, Invariant, TrueInvariant, PTL

(* A restarted worker gives no sandbox up whose shim still runs a VM with  *)
(* its volume, for any number of shims and restarts.                       *)
THEOREM AttachRight == Spec => AttachFindsShim
<1>1. TypeOK /\ OneShim /\ TrueInv /\ [Next]_vars =>
          [worker.pc \in {"attach", "exited", "connect"} /\ worker'.pc = "killStale"
               => \A h \in Shim : ~(Alive(h) /\ Holds(h))]_vars
  <2> SUFFICES ASSUME TypeOK, OneShim, TrueInv, Next,
                      worker.pc \in {"attach", "exited", "connect"}, worker'.pc = "killStale",
                      NEW h \in Shim, Alive(h), Holds(h)
               PROVE  FALSE
    BY Zenon
  <2>a. worker \in Worker /\ NoShim \notin Shim
    BY ShimAssumption DEF TypeOK
  <2>1. shim[h].pc = "wait" /\ shim[h] \in ShimProcess
    BY DEF TrueInv, ProcessInv, TypeOK, ShimProcess, ShimPC, Alive, Holds
  <2>2. sock = h /\ pidFile = h /\ exitFile \in {NoShim, h}
    BY <2>1 DEF TrueInv, FoundInv, OneShim
  <2>3. exitFile = NoShim
    BY <2>1, <2>2, <2>a DEF TrueInv, FileInv
  <2>4. CanConnect
    BY <2>1, <2>2, <2>a DEF CanConnect, Listening
  <2>5. \/ Attach /\ Goto("killStale") /\ ~(pidFile # NoShim /\ Alive(pidFile))
        \/ AttachReadsExit /\ exitFile # NoShim
        \/ AttachConnects /\ ~CanConnect
    <3>1. worker' # worker
      BY Zenon
    <3>2. \A g \in Shim : ~(ShimStep(g) \/ Accept(g) \/ ShimDies(g) \/ OpenDrive(g) \/ BootVM(g) \/ ExitVM(g))
      BY <3>1, ShimsMove, Zenon DEF ShimMoves
    <3>3. Attach => Goto("killStale") /\ ~(pidFile # NoShim /\ Alive(pidFile))
      <4>1. [worker EXCEPT !.pc = "exited", !.pid = pidFile].pc # "killStale"
        BY <2>a DEF Worker
      <4> QED BY <4>1, Zenon DEF Attach
    <3>4. AttachReadsExit => exitFile # NoShim
      <4>1. [worker EXCEPT !.pc = "connect"].pc # "killStale"
        BY <2>a DEF Worker
      <4> QED BY <4>1, Zenon DEF AttachReadsExit
    <3>5. AttachConnects => ~CanConnect
      <4>1. Connects(worker.pid) => worker'.pc \in {"boot", "tracked"}
        BY <2>a DEF Connects, Worker
      <4> QED BY <4>1 DEF AttachConnects
    <3>6. ~WorkerRestarts
      BY DEF WorkerRestarts, Idle
    <3>7. Attach \/ AttachReadsExit \/ AttachConnects
      <4>1. ~Create /\ ~StopOrRemove /\ ~Read
        BY <2>a DEF Create, StopOrRemove, Read, Idle, Worker
      <4>2. WorkerStep
        BY <3>2, <3>6, <4>1, Zenon DEF Next
      <4>3. worker.pc \notin {"idle", "volume", "clear", "start", "dial", "boot", "term", "grace",
                              "killed", "cleanup", "rmdir", "killStale", "find"}
        OBVIOUS
      <4>4. Idle.pc = "idle"
        BY DEF Idle
      <4> QED
        BY <4>2, <4>3, <4>4, Zenon
           DEF WorkerStep, CreateVolume, ClearExit, StartShim, Dial, WaitRunning, Terminate, GraceEnds,
               KillEnds, RemoveVolume, RemoveDir, ReapOrphan, KillStale, TermFirecracker
    <3> QED BY <3>3, <3>4, <3>5, <3>7, Zenon
  <2> QED BY <2>2, <2>3, <2>4, <2>5, <2>a
<1> QED BY <1>1, Invariant, TrueInvariant, PTL DEF Spec, AttachFindsShim

=============================================================================
