---------------------------- MODULE SlotLifecycle ----------------------------
(***************************************************************************)
(* What the master supervisor promises for each worker slot (spec 4.7 and  *)
(* section 8), without processes, pipes, handles or messages.              *)
(*                                                                         *)
(* A slot is idle until the launch loop reaches it, then spawned, running  *)
(* once its first pipe read is kicked, crashing once a CRASH message is    *)
(* parsed, and, when its worker exits or is terminated, either retired or  *)
(* spawned again over what is left of its range.  The range's start never *)
(* moves back, the blacklist only grows, and every worker is handed the    *)
(* blacklist as it stands when it is spawned.  The supervisor reports      *)
(* success only when every slot is retired, and may abort at any time (the *)
(* reasons are the subject of other properties); after either, no slot     *)
(* changes.  SPAWNED -> RUNNING -> CRASHING -> TERMINATED -> EXITED of spec  *)
(* 4.7 collapses EXITED and TERMINATED into the step that leaves the slot  *)
(* retired or spawned, which is what the master's handler does in one go.  *)
(***************************************************************************)
EXTENDS Integers

CONSTANTS
    Slots,       \* the worker slots
    Modules,     \* shader-module hashes that may be blacklisted
    StartG(_), EndG(_), StartC(_), EndC(_)   \* the initial partition

VARIABLES
    phase,       \* per slot: "idle", "spawned", "running", "crashing", "retired"
    start,       \* per slot: [g, c], the start of the range left to replay
    blacklist,   \* the modules banned so far
    given,       \* per slot: the blacklist handed to its current worker
    outcome      \* "running", "ok" or "aborted"

vars == <<phase, start, blacklist, given, outcome>>

RangeDone(s, w) == s.g >= EndG(w) /\ s.c >= EndC(w)

Init ==
    /\ phase = [w \in Slots |-> "idle"]
    /\ start = [w \in Slots |-> [g |-> StartG(w), c |-> StartC(w)]]
    /\ blacklist = {}
    /\ given = [w \in Slots |-> {}]
    /\ outcome = "running"

\* The launch loop reaches a slot: an empty range starts no worker.
Spawn(w) ==
    /\ outcome = "running" /\ phase[w] = "idle"
    /\ IF RangeDone(start[w], w)
       THEN phase' = [phase EXCEPT ![w] = "retired"] /\ UNCHANGED given
       ELSE /\ phase' = [phase EXCEPT ![w] = "spawned"]
            /\ given' = [given EXCEPT ![w] = blacklist]
    /\ UNCHANGED <<start, blacklist, outcome>>

Run(w) ==
    /\ outcome = "running" /\ phase[w] = "spawned"
    /\ phase' = [phase EXCEPT ![w] = "running"]
    /\ UNCHANGED <<start, blacklist, given, outcome>>

CrashReported(w) ==
    /\ outcome = "running" /\ phase[w] = "running"
    /\ phase' = [phase EXCEPT ![w] = "crashing"]
    /\ UNCHANGED <<start, blacklist, given, outcome>>

Ban(m) ==
    /\ outcome = "running"
    /\ blacklist' = blacklist \cup {m}
    /\ UNCHANGED <<phase, start, given, outcome>>

(* The worker is gone: the modules it still reported are banned, the range *)
(* start moves forward (or stays), and the slot is retired, or spawned     *)
(* again over a range that is not done with the current blacklist, or the  *)
(* respawn fails and the supervisor aborts.                                *)
Exit(w) ==
    /\ outcome = "running" /\ phase[w] \in {"running", "crashing"}
    /\ \E p \in {"retired", "spawned"} : phase' = [phase EXCEPT ![w] = p]
    /\ \E s \in [g : start[w].g .. EndG(w), c : start[w].c .. EndC(w)] :
          start' = [start EXCEPT ![w] = s]
    /\ \E bl \in SUBSET Modules : blacklist \subseteq bl /\ blacklist' = bl
    /\ \/ phase'[w] = "retired" /\ UNCHANGED <<given, outcome>>
       \/ /\ phase'[w] = "spawned" /\ ~RangeDone(start'[w], w)
          /\ given' = [given EXCEPT ![w] = blacklist']
          /\ UNCHANGED outcome
       \/ /\ phase'[w] = "retired" /\ ~RangeDone(start'[w], w)
          /\ outcome' = "aborted" /\ UNCHANGED given

Finish ==
    /\ outcome = "running"
    /\ \A w \in Slots : phase[w] = "retired"
    /\ outcome' = "ok"
    /\ UNCHANGED <<phase, start, blacklist, given>>

Abort ==
    /\ outcome = "running"
    /\ outcome' = "aborted"
    /\ UNCHANGED <<phase, start, blacklist, given>>

Next ==
    \/ \E w \in Slots : Spawn(w) \/ Run(w) \/ CrashReported(w) \/ Exit(w)
    \/ \E m \in Modules : Ban(m)
    \/ Finish \/ Abort

Spec == Init /\ [][Next]_vars

=============================================================================
