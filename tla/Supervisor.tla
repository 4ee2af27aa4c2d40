----------------------------- MODULE Supervisor -----------------------------
(***************************************************************************)
(* The master/worker replay supervisor of                                  *)
(* src/cli/fossilize_replay_windows.hpp: run_master_process and its        *)
(* ProcessProgress records on one side, run_slave_process and its          *)
(* crash_handler on the other, joined by one message-mode pipe per worker  *)
(* slot and a stdin pipe carrying the module blacklist.                    *)
(*                                                                         *)
(* The master is one thread.  Its WaitForMultipleObjects call and the      *)
(* handler it then runs are two steps, because a worker keeps running      *)
(* between them.  start_child_process is split the same way at the point   *)
(* where the worker may run before the first pipe read is kicked.          *)
(***************************************************************************)
EXTENDS Integers, Sequences, FiniteSets, SequencesExt

CONSTANTS
    NumProcesses,     \* replayer_opts.num_threads: number of worker slots
    NumGraphics,      \* graphics pipelines in the archive
    NumCompute,       \* compute pipelines in the archive
    Modules,          \* shader-module hashes the engine may implicate
    NoModule,         \* model value: module field of a message without one
    MaxCrashes,       \* bound: crashes of the workers of one slot per run
    HasControlBlock,  \* Global::control_block # nullptr
    JobAssignMayFail, \* AssignProcessToJobObject may fail (logged, ignored)
    ConcurrentHandlers \* slots whose workers may fault on a second thread in the handler

ASSUME /\ NumProcesses \in Nat \ {0}
       /\ NumGraphics \in Nat /\ NumCompute \in Nat
       /\ NoModule \notin Modules
       /\ MaxCrashes \in Nat
       /\ HasControlBlock \in BOOLEAN /\ JobAssignMayFail \in BOOLEAN
       /\ ConcurrentHandlers \subseteq 0 .. NumProcesses - 1

Slots == 0 .. NumProcesses - 1

\* The partition of run_master_process into [start, end) ranges per slot.
StartG(i) == (i * NumGraphics) \div NumProcesses
EndG(i)   == ((i + 1) * NumGraphics) \div NumProcesses
StartC(i) == (i * NumCompute) \div NumProcesses
EndC(i)   == ((i + 1) * NumCompute) \div NumProcesses

(* Pipe messages.  The text "GRAPHICS %u\n" and the parse with strtol are  *)
(* inverse on the indices a worker can report, so a message is kept as    *)
(* its kind and value.                                                     *)
CrashMsg        == [kind |-> "CRASH",    val |-> 0, mod |-> NoModule]
ModuleMsg(m)    == [kind |-> "MODULE",   val |-> 0, mod |-> m]
GraphicsMsg(n)  == [kind |-> "GRAPHICS", val |-> n, mod |-> NoModule]
ComputeMsg(n)   == [kind |-> "COMPUTE",  val |-> n, mod |-> NoModule]
NoMsg           == [kind |-> "NONE",     val |-> 0, mod |-> NoModule]
Msg == {CrashMsg, NoMsg} \cup {ModuleMsg(m) : m \in Modules}
         \cup {GraphicsMsg(n) : n \in 0 .. NumGraphics}
         \cup {ComputeMsg(n) : n \in 0 .. NumCompute}

\* Master outcomes: EXIT_SUCCESS and the three EXIT_FAILURE returns.
Terminal == {"ok", "spawn_failure", "kick_failure", "terminate_failure"}

ChildStates == {"none", "replay", "handler", "early_handler", "teardown", "exited"}

VARIABLES
    mpc,         \* master control point, or its exit outcome
    cur,         \* [slot, kind]: the slot (and handle) the master works on
    launching,   \* still in the initial start_child_process loop
    blacklist,   \* Global::faulty_spirv_modules
    active,      \* Global::active_processes
    banned, cleanDeaths, dirtyDeaths, progressComplete,  \* control block
    slot,        \* ProcessProgress per slot (master side)
    pipe,        \* messages written into the slot's pipe and not yet read
    child,       \* the worker process of the slot
    reapedSent   \* history: modules written by workers since reaped

vars == <<mpc, cur, launching, blacklist, active, banned, cleanDeaths,
          dirtyDeaths, progressComplete, slot, pipe, child, reapedSent>>

(* ProcessProgress: start indices, the handles (process, pipe_event,       *)
(* timer_handle), the overlapped read, and the progress markers.  rd is    *)
(* "pending" for a read in flight, "done" for one completed with buf,      *)
(* "failed" for one completed with an error, "idle" for none.              *)
SlotRec == [sg : 0 .. NumGraphics, sc : 0 .. NumCompute,
            hproc : BOOLEAN, hevent : BOOLEAN,
            rd : {"idle", "pending", "done", "failed"}, buf : Msg,
            timer : {"none", "armed", "fired"},
            g : -1 .. NumGraphics, c : -1 .. NumCompute]

(* The worker: its state, the crash handler's messages still to write,    *)
(* the state and messages of a crash handler entered on a second thread,  *)
(* the blacklist it read from stdin, its exit code, whether it is in the   *)
(* job, and (history) what it has written to the pipe.                     *)
ChildRec == [st : ChildStates, outbox : Seq(Msg), masked : SUBSET Modules,
             outbox2 : Seq(Msg), st2 : {"none", "handler", "teardown"},
             code : 0 .. 3, crashes : 0 .. MaxCrashes, inJob : BOOLEAN,
             sent : SUBSET Modules, lastG : -1 .. NumGraphics,
             lastC : -1 .. NumCompute]

Alive(w) == child[w].st \in {"replay", "handler", "early_handler", "teardown"}

-----------------------------------------------------------------------------
\* Mutant: the CRASH message does not arm the timeout timer.
ParseNoTimer(ps, m) ==
    CASE m.kind = "GRAPHICS" -> [ps EXCEPT !.g = m.val]
      [] m.kind = "COMPUTE"  -> [ps EXCEPT !.c = m.val]
      [] m.kind = "MODULE"   -> [ps EXCEPT !.bl = @ \cup {m.mod},
                                           !.n = IF HasControlBlock THEN @ + 1 ELSE @]
      [] OTHER               -> ps

\* Mutant: the GRAPHICS and COMPUTE values are stored into each other's field.
ParseSwapped(ps, m) ==
    CASE m.kind = "CRASH"    -> [ps EXCEPT !.t = "armed"]
      [] m.kind = "GRAPHICS" -> [ps EXCEPT !.c = m.val]
      [] m.kind = "COMPUTE"  -> [ps EXCEPT !.g = m.val]
      [] m.kind = "MODULE"   -> [ps EXCEPT !.bl = @ \cup {m.mod},
                                           !.n = IF HasControlBlock THEN @ + 1 ELSE @]
      [] OTHER               -> ps

(* ProcessProgress::parse.  A MODULE message also bumps banned_modules and *)
(* is copied into the control block's ring buffer under the shared mutex.  *)
Parse(ps, m) ==
    CASE m.kind = "CRASH"    -> [ps EXCEPT !.t = "armed"]
      [] m.kind = "GRAPHICS" -> [ps EXCEPT !.g = m.val]
      [] m.kind = "COMPUTE"  -> [ps EXCEPT !.c = m.val]
      [] m.kind = "MODULE"   -> [ps EXCEPT !.bl = @ \cup {m.mod},
                                           !.n = IF HasControlBlock THEN @ + 1 ELSE @]
      [] OTHER               -> ps

ParseState(w) == [t |-> slot[w].timer, g |-> slot[w].g, c |-> slot[w].c,
                  bl |-> blacklist, n |-> banned]

(* kick_overlapped_io: ReadFile on the pipe.  It completes at once with a  *)
(* waiting message, stays pending while the writer lives, and fails with a *)
(* broken pipe once the writer is gone and nothing is left.                *)
Kick(w, p) ==
    IF p # <<>> THEN [rd |-> "done", buf |-> Head(p), pipe |-> Tail(p)]
    ELSE IF child[w].st = "exited" THEN [rd |-> "idle", buf |-> NoMsg, pipe |-> p]
    ELSE [rd |-> "pending", buf |-> NoMsg, pipe |-> p]

\* Mutant: process_shutdown without the `while (process_once())` flush.
UnreadNoDrain(w) == <<>>

(* The messages the flush loop of process_shutdown reads once the worker  *)
(* is dead: the completed read, then whatever the pipe still holds.  A     *)
(* failed or absent read makes process_once return false at once.          *)
Unread(w) ==
    CASE slot[w].rd = "done"    -> <<slot[w].buf>> \o pipe[w]
      [] slot[w].rd = "pending" -> pipe[w]
      [] OTHER                  -> <<>>

\* Mutant: the launch loop runs one slot too far.
AfterStartOffByOne(w) ==
    IF launching /\ w < NumProcesses
    THEN mpc' = "spawn" /\ cur' = [slot |-> w + 1, kind |-> "none"] /\ UNCHANGED launching
    ELSE mpc' = "wait" /\ launching' = FALSE /\ UNCHANGED cur

(* Where the master goes after start_child_process returned true.          *)
AfterStart(w) ==
    IF launching /\ w < NumProcesses - 1
    THEN mpc' = "spawn" /\ cur' = [slot |-> w + 1, kind |-> "none"] /\ UNCHANGED launching
    ELSE mpc' = "wait" /\ launching' = FALSE /\ UNCHANGED cur

\* Mutant: the progress markers of the previous worker are kept.
ResetProgressKept(s) == s

\* start_child_process begins by forgetting the previous worker's progress.
ResetProgress(s) == [s EXCEPT !.g = -1, !.c = -1]

(* start_child_process up to the blacklist hand-over: progress markers are *)
(* reset; an empty range starts nothing; otherwise CreateProcess either    *)
(* fails (EXIT_FAILURE) or starts a worker, which the job may or may not   *)
(* take, and which receives the blacklist bl on stdin.  s, c are the slot  *)
(* and worker records, a the active count, before the call.                *)
StartChild(w, s, c, bl, a) ==
    LET s0 == ResetProgress(s) IN
    IF s0.sg >= EndG(w) /\ s0.sc >= EndC(w)
    THEN /\ slot' = [slot EXCEPT ![w] = s0]
         /\ child' = [child EXCEPT ![w] = c]
         /\ active' = a /\ UNCHANGED pipe
         /\ AfterStart(w)
    ELSE \/ /\ slot' = [slot EXCEPT ![w] = s0]
            /\ child' = [child EXCEPT ![w] = c]
            /\ mpc' = "spawn_failure"
            /\ active' = a /\ UNCHANGED <<pipe, cur, launching>>
         \/ \E job \in IF JobAssignMayFail THEN BOOLEAN ELSE {TRUE} :
            /\ slot' = [slot EXCEPT ![w] = [s0 EXCEPT !.hproc = TRUE]]
            /\ child' = [child EXCEPT ![w] = [c EXCEPT !.st = "replay",
                            !.outbox = <<>>, !.outbox2 = <<>>, !.st2 = "none",
                            !.masked = bl, !.code = 0,
                            !.inJob = job, !.sent = {}, !.lastG = -1, !.lastC = -1]]
            /\ pipe' = [pipe EXCEPT ![w] = <<>>]
            /\ active' = a + 1
            /\ mpc' = "kick"
            /\ UNCHANGED <<cur, launching>>

(* process_shutdown followed, when it returns true, by start_child_process: *)
(* drain the pipe, close the handles, reap the exit code, count the death  *)
(* and restart the slot at the reported progress.                          *)
Reap(w, exitCode) ==
    LET ps == FoldLeft(Parse, ParseState(w), Unread(w))
        progressed == ps.g >= 0 /\ ps.c >= 0
        crashed == exitCode # 0
        retry == crashed /\ progressed /\ ~(ps.g >= EndG(w) /\ ps.c >= EndC(w))
        dead == [child[w] EXCEPT !.st = "exited", !.code = exitCode]
        closed == [slot[w] EXCEPT !.hproc = FALSE, !.hevent = FALSE,
                     !.timer = "none", !.rd = "idle", !.buf = NoMsg,
                     !.g = ps.g, !.c = ps.c,
                     !.sg = IF crashed /\ progressed THEN ps.g ELSE @,
                     !.sc = IF crashed /\ progressed THEN ps.c ELSE @]
    IN /\ blacklist' = ps.bl
       /\ banned' = ps.n
       /\ dirtyDeaths' = IF HasControlBlock /\ crashed /\ ~progressed
                         THEN dirtyDeaths + 1 ELSE dirtyDeaths
       /\ cleanDeaths' = IF HasControlBlock /\ crashed /\ progressed
                         THEN cleanDeaths + 1 ELSE cleanDeaths
       /\ reapedSent' = reapedSent \cup child[w].sent
       /\ IF retry
          THEN StartChild(w, closed, dead, ps.bl, active - 1)
          ELSE /\ slot' = [slot EXCEPT ![w] = closed]
               /\ child' = [child EXCEPT ![w] = dead]
               /\ pipe' = [pipe EXCEPT ![w] = <<>>]
               /\ active' = active - 1
               /\ mpc' = "wait"
               /\ UNCHANGED <<cur, launching>>
       /\ UNCHANGED progressComplete

-----------------------------------------------------------------------------
(***************************** Master steps ********************************)

Init ==
    /\ mpc = "spawn"
    /\ cur = [slot |-> 0, kind |-> "none"]
    /\ launching = TRUE
    /\ blacklist = {}
    /\ active = 0
    /\ banned = 0 /\ cleanDeaths = 0 /\ dirtyDeaths = 0
    /\ progressComplete = FALSE
    /\ slot = [w \in Slots |-> [sg |-> StartG(w), sc |-> StartC(w),
                 hproc |-> FALSE, hevent |-> FALSE, rd |-> "idle", buf |-> NoMsg,
                 timer |-> "none", g |-> -1, c |-> -1]]
    /\ pipe = [w \in Slots |-> <<>>]
    /\ child = [w \in Slots |-> [st |-> "none", outbox |-> <<>>, masked |-> {},
                 outbox2 |-> <<>>, st2 |-> "none",
                 code |-> 0, crashes |-> 0, inJob |-> FALSE, sent |-> {},
                 lastG |-> -1, lastC |-> -1]]
    /\ reapedSent = {}

\* The initial loop: start_child_process for the next slot.
Launch ==
    /\ mpc = "spawn"
    /\ StartChild(cur.slot, slot[cur.slot], child[cur.slot], blacklist, active)
    /\ UNCHANGED <<blacklist, banned, cleanDeaths, dirtyDeaths,
                   progressComplete, reapedSent>>

\* The rest of start_child_process: CreateEvent and the first pipe read.
\* Its failure makes run_master_process return EXIT_FAILURE.
KickFirstRead ==
    /\ mpc = "kick"
    /\ LET w == cur.slot
           k == Kick(w, pipe[w])
       IN /\ slot' = [slot EXCEPT ![w].hevent = TRUE, ![w].rd = k.rd, ![w].buf = k.buf]
          /\ pipe' = [pipe EXCEPT ![w] = k.pipe]
          /\ IF k.rd = "idle"
             THEN mpc' = "kick_failure" /\ UNCHANGED <<cur, launching>>
             ELSE AfterStart(w)
    /\ UNCHANGED <<blacklist, active, banned, cleanDeaths, dirtyDeaths,
                   progressComplete, child, reapedSent>>

(* The handle array: per slot in order, pipe_event, process, timer_handle, *)
(* each only while open.  WaitForMultipleObjects returns the lowest index  *)
(* that is signaled.                                                       *)
HandleKinds == <<"event", "process", "timer">>
HandleOrder == [i \in 1 .. 3 * NumProcesses |->
                  [slot |-> (i - 1) \div 3, kind |-> HandleKinds[((i - 1) % 3) + 1]]]

Signaled(h) ==
    CASE h.kind = "event"   -> slot[h.slot].hevent /\ slot[h.slot].rd \in {"done", "failed"}
      [] h.kind = "process" -> slot[h.slot].hproc /\ child[h.slot].st = "exited"
      [] h.kind = "timer"   -> slot[h.slot].timer = "fired"

Wait ==
    /\ mpc = "wait"
    /\ active # 0
    /\ \E i \in DOMAIN HandleOrder :
          /\ Signaled(HandleOrder[i])
          /\ \A j \in 1 .. i - 1 : ~Signaled(HandleOrder[j])
          /\ cur' = HandleOrder[i]
    /\ mpc' = "handle"
    /\ UNCHANGED <<launching, blacklist, active, banned, cleanDeaths, dirtyDeaths,
                   progressComplete, slot, pipe, child, reapedSent>>

\* Mutant: the loop condition is off by one.
LoopExitEarly ==
    /\ mpc = "wait"
    /\ active <= 1
    /\ mpc' = "ok"
    /\ progressComplete' = HasControlBlock
    /\ UNCHANGED <<cur, launching, blacklist, active, banned, cleanDeaths,
                   dirtyDeaths, slot, pipe, child, reapedSent>>

\* The loop ends once no worker is active: progress_complete is published.
LoopExit ==
    /\ mpc = "wait"
    /\ active = 0
    /\ mpc' = "ok"
    /\ progressComplete' = HasControlBlock
    /\ UNCHANGED <<cur, launching, blacklist, active, banned, cleanDeaths,
                   dirtyDeaths, slot, pipe, child, reapedSent>>

\* pipe_event: process_once reads one message, parses it, kicks a new read.
HandlePipeEvent ==
    /\ mpc = "handle" /\ cur.kind = "event"
    /\ LET w == cur.slot IN
       IF slot[w].rd = "done"
       THEN LET ps == Parse(ParseState(w), slot[w].buf)
                k == Kick(w, pipe[w])
            IN /\ slot' = [slot EXCEPT ![w].timer = ps.t, ![w].g = ps.g, ![w].c = ps.c,
                                       ![w].rd = k.rd, ![w].buf = k.buf]
               /\ pipe' = [pipe EXCEPT ![w] = k.pipe]
               /\ blacklist' = ps.bl
               /\ banned' = ps.n
       ELSE /\ slot' = [slot EXCEPT ![w].rd = "idle"]
            /\ UNCHANGED <<pipe, blacklist, banned>>
    /\ mpc' = "wait"
    /\ UNCHANGED <<cur, launching, active, cleanDeaths, dirtyDeaths,
                   progressComplete, child, reapedSent>>

\* process handle: the worker exited by itself.
HandleProcessExit ==
    /\ mpc = "handle" /\ cur.kind = "process"
    /\ Reap(cur.slot, child[cur.slot].code)

(* timer_handle: TerminateProcess(process, 3), then the exit path.  On a   *)
(* process that has already exited TerminateProcess fails, and the master  *)
(* returns EXIT_FAILURE.                                                   *)
HandleTimer ==
    /\ mpc = "handle" /\ cur.kind = "timer"
    /\ IF child[cur.slot].st = "exited"
       THEN /\ mpc' = "terminate_failure"
            /\ UNCHANGED <<cur, launching, blacklist, active, banned, cleanDeaths,
                           dirtyDeaths, progressComplete, slot, pipe, child,
                           reapedSent>>
       ELSE Reap(cur.slot, 3)

-----------------------------------------------------------------------------
(***************************** Worker steps ********************************)

\* The worker exits: its pipe write end closes, failing a read in flight.
ChildExit(w, rc) ==
    /\ child' = [child EXCEPT ![w].st = "exited", ![w].code = rc,
                              ![w].st2 = "none", ![w].outbox2 = <<>>]
    /\ slot' = [slot EXCEPT ![w].rd = IF @ = "pending" THEN "failed" ELSE @]

(* run_slave_process returns from run_normal_process: 0, or 1 for a       *)
(* failure it reports by its exit code (also the outcome of a crash before *)
(* the crash handler is installed).                                        *)
Finish(w) ==
    /\ child[w].st = "replay"
    /\ \E rc \in {0, 1} : ChildExit(w, rc)
    /\ UNCHANGED <<mpc, cur, launching, blacklist, active, banned, cleanDeaths,
                   dirtyDeaths, progressComplete, pipe, reapedSent>>

(* What crash_handler writes: CRASH, then, with global_replayer set, a     *)
(* MODULE line per implicated module and the crashing thread's graphics    *)
(* and compute indices; without it (the window before line 825) CRASH only.*)
Reports(w, engine) ==
    IF engine
    THEN {<<CrashMsg>> \o [i \in 1 .. Cardinality(mods) |-> ModuleMsg(SetToSeq(mods)[i])]
                       \o <<GraphicsMsg(g), ComputeMsg(c)>> :
            g \in slot[w].sg .. EndG(w), c \in slot[w].sc .. EndC(w),
            mods \in SUBSET (Modules \ child[w].masked)}
    ELSE {<<CrashMsg>>}

(* A crash enters crash_handler on the first faulting thread.  With an     *)
(* engine it reports and then tears down, without one it reports and exits.*)
Crash(w) ==
    /\ child[w].st = "replay"
    /\ child[w].crashes < MaxCrashes
    /\ \E engine \in BOOLEAN : \E r \in Reports(w, engine) :
          child' = [child EXCEPT ![w].st = IF engine THEN "handler" ELSE "early_handler",
                                 ![w].crashes = @ + 1, ![w].outbox = r]
    /\ UNCHANGED <<mpc, cur, launching, blacklist, active, banned, cleanDeaths,
                   dirtyDeaths, progressComplete, slot, pipe, reapedSent>>

(* The handler may fire on any thread and nothing serialises it: a second  *)
(* thread faults while the first is still reporting or tearing down, and   *)
(* runs crash_handler too, writing its own report to the same pipe.  One  *)
(* such thread per worker process; it does not count against MaxCrashes.   *)
CrashAgain(w) ==
    /\ w \in ConcurrentHandlers
    /\ child[w].st \in {"handler", "early_handler", "teardown"}
    /\ child[w].st2 = "none"
    /\ \E r \in Reports(w, child[w].st # "early_handler") :
          child' = [child EXCEPT ![w].st2 = "handler", ![w].outbox2 = r]
    /\ UNCHANGED <<mpc, cur, launching, blacklist, active, banned, cleanDeaths,
                   dirtyDeaths, progressComplete, slot, pipe, reapedSent>>

\* The outbox of handler thread t, and whether it is still writing.
Outbox(w, t) == IF t = 1 THEN child[w].outbox ELSE child[w].outbox2
Writing(w, t) ==
    IF t = 1 THEN child[w].st \in {"handler", "early_handler"}
    ELSE child[w].st2 = "handler"

(* write_all of a thread's next message: WriteFile, then FlushFileBuffers, *)
(* which returns only once the master has read it; so a write waits for   *)
(* the pipe to be empty.  A read in flight completes with it at once.      *)
WriteMsg(w) ==
    /\ pipe[w] = <<>>
    /\ mpc \notin Terminal
    /\ \E t \in {1, 2} :
         /\ Writing(w, t) /\ Outbox(w, t) # <<>>
         /\ LET m == Head(Outbox(w, t)) IN
            /\ IF slot[w].rd = "pending"
               THEN slot' = [slot EXCEPT ![w].rd = "done", ![w].buf = m] /\ UNCHANGED pipe
               ELSE pipe' = [pipe EXCEPT ![w] = <<m>>] /\ UNCHANGED slot
            /\ child' = [child EXCEPT ![w].outbox = IF t = 1 THEN Tail(@) ELSE @,
                           ![w].outbox2 = IF t = 2 THEN Tail(@) ELSE @,
                           ![w].sent = IF m.kind = "MODULE" THEN @ \cup {m.mod} ELSE @,
                           ![w].lastG = IF m.kind = "GRAPHICS" THEN m.val ELSE @,
                           ![w].lastC = IF m.kind = "COMPUTE" THEN m.val ELSE @]
    /\ UNCHANGED <<mpc, cur, launching, blacklist, active, banned, cleanDeaths,
                   dirtyDeaths, progressComplete, reapedSent>>

(* The first thread's last flush returned: with an engine it starts        *)
(* emergency_teardown, without one it calls ExitProcess(2).                *)
HandlerDone(w) ==
    /\ child[w].st \in {"handler", "early_handler"}
    /\ child[w].outbox = <<>>
    /\ pipe[w] = <<>>
    /\ IF child[w].st = "handler"
       THEN child' = [child EXCEPT ![w].st = "teardown"] /\ UNCHANGED slot
       ELSE ChildExit(w, 2)
    /\ UNCHANGED <<mpc, cur, launching, blacklist, active, banned, cleanDeaths,
                   dirtyDeaths, progressComplete, pipe, reapedSent>>

\* The same for the second thread, which tears down alongside the first.
HandlerDone2(w) ==
    /\ child[w].st2 = "handler"
    /\ child[w].outbox2 = <<>>
    /\ pipe[w] = <<>>
    /\ IF child[w].st = "early_handler"
       THEN ChildExit(w, 2)
       ELSE child' = [child EXCEPT ![w].st2 = "teardown"] /\ UNCHANGED slot
    /\ UNCHANGED <<mpc, cur, launching, blacklist, active, banned, cleanDeaths,
                   dirtyDeaths, progressComplete, pipe, reapedSent>>

\* The master is gone, so a write or a flush fails: ExitProcess(2).
BrokenPipe(w) ==
    /\ \E t \in {1, 2} : Writing(w, t)
    /\ mpc \in Terminal
    /\ ChildExit(w, 2)
    /\ UNCHANGED <<mpc, cur, launching, blacklist, active, banned, cleanDeaths,
                   dirtyDeaths, progressComplete, pipe, reapedSent>>

(* emergency_teardown returns on either thread (it may also hang forever)  *)
(* and ExitProcess(2) ends the whole process.                              *)
TeardownExit(w) ==
    /\ "teardown" \in {child[w].st, child[w].st2}
    /\ ChildExit(w, 2)
    /\ UNCHANGED <<mpc, cur, launching, blacklist, active, banned, cleanDeaths,
                   dirtyDeaths, progressComplete, pipe, reapedSent>>

-----------------------------------------------------------------------------
(************************** Environment steps ******************************)

\* One second after SetWaitableTimer the timer is signaled.
TimerFires(w) ==
    /\ slot[w].timer = "armed"
    /\ mpc \notin Terminal
    /\ slot' = [slot EXCEPT ![w].timer = "fired"]
    /\ UNCHANGED <<mpc, cur, launching, blacklist, active, banned, cleanDeaths,
                   dirtyDeaths, progressComplete, pipe, child, reapedSent>>

\* Mutant: the job is created without JOB_OBJECT_LIMIT_KILL_ON_JOB_CLOSE.
JobKillNever == FALSE

\* The master process has exited: closing its job handle kills the workers
\* the job holds (JOB_OBJECT_LIMIT_KILL_ON_JOB_CLOSE).
JobKill ==
    /\ mpc \in Terminal
    /\ \E w \in Slots : Alive(w) /\ child[w].inJob
    /\ child' = [w \in Slots |-> IF Alive(w) /\ child[w].inJob
                                 THEN [child[w] EXCEPT !.st = "exited", !.code = 1,
                                                      !.st2 = "none", !.outbox2 = <<>>]
                                 ELSE child[w]]
    /\ UNCHANGED <<mpc, cur, launching, blacklist, active, banned, cleanDeaths,
                   dirtyDeaths, progressComplete, slot, pipe, reapedSent>>

\* The master has returned; nothing of it changes any more.
MasterGone ==
    /\ mpc \in Terminal
    /\ UNCHANGED vars

MasterStep == Launch \/ KickFirstRead \/ Wait \/ LoopExit
                \/ HandlePipeEvent \/ HandleProcessExit \/ HandleTimer

WorkerStep(w) == Finish(w) \/ Crash(w) \/ CrashAgain(w) \/ WriteMsg(w)
                   \/ HandlerDone(w) \/ HandlerDone2(w) \/ BrokenPipe(w)
                   \/ TeardownExit(w)

Next ==
    \/ MasterStep
    \/ \E w \in Slots : WorkerStep(w) \/ TimerFires(w)
    \/ JobKill
    \/ MasterGone

(* Fairness: the master loop handles every signaled handle; time passes,   *)
(* so an armed timer fires; a write the master will read completes; a      *)
(* replay of a finite range ends.  emergency_teardown gets no fairness: it *)
(* may hang, which is what the timer is for.                               *)
Fairness ==
    /\ WF_vars(MasterStep)
    /\ WF_vars(JobKill)
    /\ \A w \in Slots :
         /\ WF_vars(TimerFires(w))
         /\ WF_vars(Finish(w))
         /\ WF_vars(WriteMsg(w))
         /\ WF_vars(HandlerDone(w))
         /\ WF_vars(HandlerDone2(w))
         /\ WF_vars(BrokenPipe(w))

Spec == Init /\ [][Next]_vars /\ Fairness

-----------------------------------------------------------------------------
(******************************* Properties ********************************)

TypeOK ==
    /\ mpc \in {"spawn", "kick", "wait", "handle"} \cup Terminal
    /\ cur \in [slot : Slots, kind : {"none", "event", "process", "timer"}]
    /\ launching \in BOOLEAN
    /\ blacklist \subseteq Modules
    /\ active \in 0 .. NumProcesses
    /\ banned \in Nat /\ cleanDeaths \in Nat /\ dirtyDeaths \in Nat
    /\ progressComplete \in BOOLEAN
    /\ slot \in [Slots -> SlotRec]
    /\ pipe \in [Slots -> Seq(Msg)]
    /\ child \in [Slots -> ChildRec]
    /\ reapedSent \subseteq Modules

(* Every MODULE message a worker wrote to its pipe is in the master's      *)
(* blacklist once that worker has been reaped: the messages still in the   *)
(* pipe or in a completed read when the exit (or the timeout) is handled   *)
(* are not lost.  Covers crash_handler, process_once, the flush loop of    *)
(* process_shutdown and the handle priority of the wait loop.              *)
ReportedModulesBanned == reapedSent \subseteq blacklist

(* run_master_process reports success only after every worker it started  *)
(* has exited and been reaped (the active_processes bookkeeping of         *)
(* start_child_process and process_shutdown).                              *)
CompleteOnlyWhenAllReaped ==
    mpc = "ok" => \A w \in Slots : ~slot[w].hproc /\ ~Alive(w)

(* A slot is restarted exactly at the graphics and compute indices the dead *)
(* worker last reported, and only if it reported both: a progress marker   *)
(* of an earlier worker of the slot is never reused.                       *)
Respawning(w) ==
    slot[w].hproc /\ child[w].st # "replay" /\ child'[w].st = "replay"

RespawnResumesAtReportedProgress ==
    [][\A w \in Slots :
          Respawning(w) => /\ slot'[w].sg = child[w].lastG
                           /\ slot'[w].sc = child[w].lastC]_vars

(* The refinement mapping to SlotLifecycle.  A slot is launched once the  *)
(* launch loop has passed it; it is spawned while its process handle is    *)
(* open and the first read has not been kicked successfully, crashing once *)
(* its timer is set, and retired once launched with no process handle.     *)
Launched(w) == ~launching \/ w < cur.slot

Phase(w) ==
    CASE slot[w].hproc /\ (~slot[w].hevent \/ (mpc = "kick_failure" /\ cur.slot = w))
                                              -> "spawned"
      [] slot[w].hproc /\ slot[w].timer = "none" -> "running"
      [] slot[w].hproc                          -> "crashing"
      [] Launched(w)                            -> "retired"
      [] OTHER                                  -> "idle"

Lifecycle == INSTANCE SlotLifecycle WITH
    phase <- [w \in Slots |-> Phase(w)],
    start <- [w \in Slots |-> [g |-> slot[w].sg, c |-> slot[w].sc]],
    given <- [w \in Slots |-> child[w].masked],
    outcome <- CASE mpc = "ok" -> "ok" [] mpc \in Terminal -> "aborted" [] OTHER -> "running"

(* Spec 4.7 and section 8: the master drives every slot through the        *)
(* lifecycle of SlotLifecycle: the range start never moves back, a slot is *)
(* respawned only over a range that is not done, each worker gets the      *)
(* blacklist as it stands after its predecessor's messages were flushed,   *)
(* and success is reported only with every slot retired.                   *)
ImplementsSlotLifecycle == Lifecycle!Spec

(* A worker hung in emergency_teardown after its crash report is killed:   *)
(* the CRASH message arms the one-second timer before the teardown starts. *)
HungWorkerReaped ==
    \A w \in Slots : child[w].st = "teardown" ~> child[w].st # "teardown"

(* Section 4.8: once the master has returned, whatever the reason, every   *)
(* worker dies: the job object created with KILL_ON_JOB_CLOSE leaves no    *)
(* orphaned replayer holding the GPU.                                      *)
OrphansKilled == (mpc \in Terminal) ~> (\A w \in Slots : ~Alive(w))

\* The supervisor always returns.
Termination == <>(mpc \in Terminal)

(* Section 7 of the spec: the only supervisor error that aborts the run is *)
(* a failure to spawn a worker.  A timeout must not abort the master.      *)
TimeoutNeverAbortsMaster == mpc # "terminate_failure"

\* Nor a channel failure on a worker's pipe: that worker counts as a crash
\* without progress.
ChannelFailureNotFatal == mpc # "kick_failure"

=============================================================================
