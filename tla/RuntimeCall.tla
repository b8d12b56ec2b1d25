---------------------------- MODULE RuntimeCall -----------------------------
(***************************************************************************)
(* Calls of a subscription runtime: a private directory, a process with    *)
(* its descendants, and the bounds (time, output, interruption) that end   *)
(* it. The worker and the server make several at once; the runtimes are    *)
(* other people's programs, so nothing is assumed of when they exit.       *)
(***************************************************************************)
EXTENDS Naturals

CONSTANTS
    Calls,          \* the calls that may be made
    Asked,          \* the pairs of a runtime and a kind they may be of
    OutputLimit     \* outputLimitBytes, in chunks

VARIABLES
    worker,     \* the process that makes the calls: "up" or "down"
    call,       \* [call -> runtime, kind, where it is, what came of it]
    tree,       \* [call -> its child, the child's helpers, input and output]
    directory   \* the calls whose temporary directory exists

callVars == <<worker, call, tree, directory>>

-----------------------------------------------------------------------------
(* What is asked of which runtime.                                         *)

Runtimes == {"codex", "claude", "opencode"}

(* A probe asks for a version or a status; it has no input and no          *)
(* directory. The others are a discovery's two halves and an assessment.   *)
Kinds == {"report", "structure", "assess", "probe"}

ASSUME RuntimeCallAssumption ==
    OutputLimit \in Nat /\ Asked \subseteq Runtimes \X Kinds

(* Codex is handed the answer's schema in a file.                          *)
NeedsSchemaFile(c) ==
    call[c].runtime = "codex" /\ call[c].kind \in {"structure", "assess"}

(* OpenCode answers and exits while a helper keeps its pipes open: its     *)
(* exit, not the closing of the pipes, ends the call.                      *)
SettlesOnExit(c) ==
    call[c].runtime = "opencode" /\ call[c].kind # "probe"

NoTree == [child |-> "none", helpers |-> {}, input |-> "written", output |-> 0]

CallInit ==
    /\ worker = "up"
    /\ call = [c \in Calls |-> [pc |-> "idle", runtime |-> "codex",
                                kind |-> "probe", result |-> "none"]]
    /\ tree = [c \in Calls |-> NoTree]
    /\ directory = {}

At(c, pc) == worker = "up" /\ call[c].pc = pc

(* The call goes on, or goes to its cleanup with a result.                 *)
Goes(c, pc) == call' = [call EXCEPT ![c].pc = pc]

Settles(c, result) ==
    call' = [call EXCEPT ![c].pc = "release", ![c].result = result]

-----------------------------------------------------------------------------
(* Before the process.                                                     *)

(* A runtime without an executable blocks the task before anything is made.*)
Begin(c) ==
    /\ At(c, "idle")
    /\ \E asked \in Asked, found \in BOOLEAN :
         call' = [call EXCEPT ![c] =
            [pc |-> IF ~found THEN "done"
                    ELSE IF asked[2] = "probe" THEN "spawn" ELSE "directory",
             runtime |-> asked[1], kind |-> asked[2],
             result |-> IF found THEN "none" ELSE "Blocked"]]
    /\ UNCHANGED <<worker, tree, directory>>

MakeDirectory(c) ==
    /\ At(c, "directory")
    /\ \/ /\ directory' = directory \cup {c}
          /\ Goes(c, IF NeedsSchemaFile(c) THEN "schema" ELSE "spawn")
       \/ /\ Settles(c, "Blocked")
          /\ UNCHANGED directory
    /\ UNCHANGED <<worker, tree>>

WriteSchema(c) ==
    /\ At(c, "schema")
    /\ Goes(c, "spawn") \/ Settles(c, "Blocked")
    /\ UNCHANGED <<worker, tree, directory>>

(* A prompt that is too large starts nothing, and neither does a launch    *)
(* that fails; otherwise the input is written while the child runs.        *)
Spawn(c) ==
    /\ At(c, "spawn")
    /\ \/ /\ Settles(c, "Infrastructure") \/ Settles(c, "Blocked")
          /\ UNCHANGED tree
       \/ /\ Goes(c, "running")
          /\ tree' = [tree EXCEPT ![c] = [NoTree EXCEPT !.child = "running",
                !.input = IF call[c].kind = "probe" THEN "written" ELSE "writing"]]
    /\ UNCHANGED <<worker, directory>>

-----------------------------------------------------------------------------
(* The runtime's own program.                                              *)

ReadsInput(c) ==
    /\ tree[c].child = "running" /\ tree[c].input = "writing"
    /\ tree' = [tree EXCEPT ![c].input = "written"]
    /\ UNCHANGED <<worker, call, directory>>

(* What a runtime starts stays in its process group, and either inherits   *)
(* the child's pipes or has its own; one of each stands for any number.    *)
Helpers == {"pipes", "own"}

HoldsPipes(c) == tree[c].child = "running" \/ "pipes" \in tree[c].helpers

Running(c) == tree[c].child = "running" \/ tree[c].helpers # {}

StartsHelper(c) ==
    /\ Running(c)
    /\ \E helper \in Helpers \ tree[c].helpers :
         /\ helper = "pipes" => HoldsPipes(c)
         /\ tree' = [tree EXCEPT ![c].helpers = @ \cup {helper}]
    /\ UNCHANGED <<worker, call, directory>>

ExitCodes == {"exited", "failed"}

ChildExits(c) ==
    /\ tree[c].child = "running"
    /\ \E code \in ExitCodes : tree' = [tree EXCEPT ![c].child = code]
    /\ UNCHANGED <<worker, call, directory>>

HelperExits(c) ==
    /\ \E helper \in tree[c].helpers :
         tree' = [tree EXCEPT ![c].helpers = @ \ {helper}]
    /\ UNCHANGED <<worker, call, directory>>

-----------------------------------------------------------------------------
(* What ends a call.                                                       *)

\* Faulty: only the child is killed, not the group it leads.
KillChild(state) ==
    [state EXCEPT !.child = IF @ = "running" THEN "killed" ELSE @]

(* The child leads a process group, which the kill is for: it reaches the  *)
(* helpers also when the child has exited. (So on POSIX. On Windows the    *)
(* tree of a child that has exited is not found, and its helpers stay.)    *)
KillTree(state) ==
    [state EXCEPT !.child = IF @ = "running" THEN "killed" ELSE @,
                  !.helpers = {}]

(* A chunk too many ends the call; the answer is not wanted any more.      *)
Output(c) ==
    /\ At(c, "running")
    /\ HoldsPipes(c)
    /\ IF tree[c].output = OutputLimit
         THEN /\ tree' = [tree EXCEPT ![c] = KillTree(tree[c])]
              /\ Settles(c, "output-limit")
         ELSE /\ tree' = [tree EXCEPT ![c].output = @ + 1]
              /\ UNCHANGED call
    /\ UNCHANGED <<worker, directory>>

\* Faulty: the timer is off once the child has exited.
TimesOutRunning(c) ==
    /\ At(c, "running") /\ tree[c].child = "running"
    /\ tree' = [tree EXCEPT ![c] = KillTree(tree[c])]
    /\ Settles(c, "timeout")
    /\ UNCHANGED <<worker, directory>>

TimesOut(c) ==
    /\ At(c, "running")
    /\ tree' = [tree EXCEPT ![c] = KillTree(tree[c])]
    /\ Settles(c, "timeout")
    /\ UNCHANGED <<worker, directory>>

(* The stage that waits for the call is interrupted: a lost lease, or a    *)
(* sibling slot whose claim failed. A directory being made is made first.  *)
Interrupted(c) ==
    /\ At(c, "schema") \/ At(c, "spawn") \/ At(c, "running")
    /\ tree' = [tree EXCEPT ![c] = KillTree(tree[c])]
    /\ Settles(c, "interrupted")
    /\ UNCHANGED <<worker, directory>>

(* What the exit code and the last of stderr make of a finished process. A *)
(* runtime that is not logged in blocks, a rate limit is transient.        *)
Verdicts(c) ==
    IF tree[c].child = "exited" THEN {"answered"} ELSE {"Transient", "Blocked"}

(* The pipes close when the last process that holds them is gone; a helper *)
(* with its own is not asked after, and not killed.                        *)
Closes(c) ==
    /\ At(c, "running")
    /\ tree[c].child \in ExitCodes /\ ~HoldsPipes(c)
    /\ \E verdict \in Verdicts(c) : Settles(c, verdict)
    /\ UNCHANGED <<worker, tree, directory>>

(* Two seconds after the exit nobody waits for the pipes any longer; no    *)
(* helper is killed.                                                       *)
SettlesAfterExit(c) ==
    /\ At(c, "running") /\ SettlesOnExit(c)
    /\ tree[c].child \in ExitCodes
    /\ \E verdict \in Verdicts(c) : Settles(c, verdict)
    /\ UNCHANGED <<worker, tree, directory>>

(* Where Codex assesses, a removal that fails takes the answer along.      *)
InsistsOnRemoval(c) == call[c].runtime = "codex" /\ call[c].kind = "assess"

(* Everywhere else it is ignored.                                          *)
Removes(c, removed) == directory' = IF removed THEN directory \ {c} ELSE directory

(* The answer is parsed and decoded, then the directory is removed. An     *)
(* answer that cannot be read is transient.                                *)
Release(c) ==
    /\ At(c, "release")
    /\ \E read \in BOOLEAN, removed \in BOOLEAN :
         /\ Removes(c, removed)
         /\ call' = [call EXCEPT ![c].pc = "done", ![c].result =
              IF ~removed /\ c \in directory /\ InsistsOnRemoval(c) THEN "defect"
              ELSE IF @ = "answered" /\ ~read THEN "Transient"
              ELSE @]
    /\ tree' = [tree EXCEPT ![c].output = 0]
    /\ UNCHANGED worker

(* A child that ends without reading breaks the pipe, and nobody listens   *)
(* for that error: the worker dies of it, with every other call it makes.  *)
(* Process groups of their own survive it.                                 *)
InputBreaks(c) ==
    /\ worker = "up" /\ tree[c].input = "writing"
    /\ tree[c].child \in {"exited", "failed", "killed"}
    /\ worker' = "down"
    /\ call' = [k \in Calls |->
                  IF call[k].pc \in {"idle", "done"} THEN call[k]
                  ELSE [call[k] EXCEPT !.pc = "done", !.result = "lost"]]
    /\ UNCHANGED <<tree, directory>>

(* The supervisor starts it again; the task is given back to another call. *)
Restart ==
    /\ worker = "down"
    /\ worker' = "up"
    /\ tree' = [c \in Calls |-> [tree[c] EXCEPT !.input = "written"]]
    /\ UNCHANGED <<call, directory>>

Awaited(c) ==
    \/ MakeDirectory(c) \/ WriteSchema(c) \/ Spawn(c)
    \/ TimesOut(c) \/ Closes(c) \/ SettlesAfterExit(c) \/ Release(c)

Environment(c) ==
    ReadsInput(c) \/ StartsHelper(c) \/ ChildExits(c) \/ HelperExits(c)

Finished ==
    /\ worker = "up" /\ \A c \in Calls : call[c].pc = "done"
    /\ UNCHANGED callVars

CallNext ==
    \/ \E c \in Calls :
         \/ Begin(c) \/ Awaited(c) \/ Output(c) \/ Interrupted(c)
         \/ InputBreaks(c) \/ Environment(c)
    \/ Restart
    \/ Finished

(* File operations answer and timers fire; no runtime need ever exit.      *)
CallSpec == CallInit /\ [][CallNext]_callVars /\ \A c \in Calls : WF_callVars(Awaited(c))

-----------------------------------------------------------------------------
(* Properties.                                                             *)

(* A call that was cut short (by time, by output or by its caller) leaves  *)
(* no process behind, neither the child nor a helper. Only a call that the *)
(* child's own exit has ended may leave helpers: those with pipes of their *)
(* own, and OpenCode's that hold the child's. The child itself outlives    *)
(* only the worker's death, which is no end of the call's making.          *)
NoProcessIsLeft ==
    \A c \in Calls :
        /\ call[c].pc \in {"release", "done"} /\ call[c].result # "lost"
        /\ Running(c)
        => /\ tree[c].child \in ExitCodes
           /\ call[c].result \in {"answered", "Transient", "Blocked", "defect"}
           /\ HoldsPipes(c) => SettlesOnExit(c)

(* Every call comes to an end, whatever the runtime does: a stage is never *)
(* held by a process that neither answers nor exits.                       *)
CallsEnd ==
    \A c \in Calls : (call[c].pc # "idle") ~> (call[c].pc = "done")
=============================================================================
