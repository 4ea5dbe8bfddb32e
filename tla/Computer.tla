------------------------------ MODULE Computer ------------------------------
(***************************************************************************)
(* The life of a dedicated computer: its row, the sandboxes a provider     *)
(* keeps for it, and the operations that boot, put to sleep and replace it *)
(* concurrently from several processes.                                    *)
(*                                                                         *)
(* Every database or provider call is one action.  Operations claim the    *)
(* row with an update that compares what they read; the row's stamp        *)
(* (updatedAt) tells one claim from the next, and a claim counts as        *)
(* abandoned when its stamp is older than the execution-lease TTL.         *)
(***************************************************************************)
EXTENDS Naturals, FiniteSets

CONSTANTS
    Runners,    \* operations on behalf of a run, whose lease is renewed meanwhile
    Sleepers,   \* computer.sleep jobs
    Resetters,  \* Reset: replaceComputer from the router
    Openers,    \* boots without a run: the owner opens the computer (its own look at
                \* the row, an earlier read, decides only whether it provisions)
    Slow,       \* operations that may hang for longer than their claim, or the lease of
                \* their run, is good for
    Boxes,      \* sandboxes the provider can make
    NoBox,      \* providerRef = null
    MaxStamp    \* bound: stamps written

Ops == Runners \cup Sleepers \cup Resetters \cup Openers

ASSUME KindsAssumption == Runners \cap (Sleepers \cup Resetters \cup Openers) = {}
ASSUME BoxAssumption == NoBox \notin Boxes
ASSUME BoundAssumption == MaxStamp \in Nat

VARIABLES
    row,     \* the computers row
    clock,   \* the latest stamp written
    box,     \* what the provider knows of each sandbox
    op,      \* local state of each operation
    run,     \* the run of each runner: none, live (lease renewed) or waiting
    lost     \* observer: the sandboxes nobody answers for any more, and why

vars == <<row, clock, box, op, run, lost>>

\* An operation died with the sandbox, or the provider refused to remove it, or a Reset left
\* it because its engine is not configured, or a Reset cleared the row of it unawares.
Causes == {"died", "refused", "unreachable", "forgotten"}

Resting == {"running", "stopped", "suspended", "error"}
InTransit == {"booting", "suspending"}

RowType ==
    [state: Resting \cup InTransit, ref: Boxes \cup {NoBox}, stamp: Nat,
     old: BOOLEAN,   \* the stamp is older than EXECUTION_LEASE_MS
     prov: Nat]      \* provisioningId: the stamp of the boot it belongs to, or 0

Phases == {"idle", "wait", "seen", "claimed", "booted", "failed", "record", "using",
           "drowsy", "saving", "saved", "stopping", "asleep",
           "planned", "recheck", "destroy", "clear", "restore", "caught"}

OpType ==
    [phase: Phases,
     state: Resting \cup InTransit, ref: Boxes \cup {NoBox},   \* the row as read
     mark: Nat,      \* stamp of the claim found in transit, or read for a comparison
     stale: BOOLEAN, \* that claim was abandoned when first seen
     claim: Nat,     \* stamp of its own claim
     recon: BOOLEAN, \* reconnecting
     box: Boxes \cup {NoBox}, fresh: BOOLEAN,                  \* what provision returned
     busy: BOOLEAN,  \* the cause of the failure is ComputerBusyError
     kept: BOOLEAN,  \* the rollback failed
     reset: Nat]     \* stamp of the replacement it boots for, or 0

IdleOp ==
    [phase |-> "idle", state |-> "stopped", ref |-> NoBox, mark |-> 0, stale |-> FALSE,
     claim |-> 0, recon |-> FALSE, box |-> NoBox, fresh |-> FALSE, busy |-> FALSE,
     kept |-> FALSE, reset |-> 0]

\* A computer that never ran, or one that was booted before and runs with nobody at work.
Init ==
    /\ \E ref \in Boxes \cup {NoBox} :
          /\ clock = IF ref = NoBox THEN 0 ELSE 1
          /\ row = [state |-> IF ref = NoBox THEN "stopped" ELSE "running", ref |-> ref,
                    stamp |-> clock, old |-> FALSE, prov |-> 0]
          /\ box = [b \in Boxes |-> IF b = ref THEN "up" ELSE "absent"]
    /\ op = [c \in Ops |-> IdleOp]
    /\ run = [c \in Runners |-> "none"]
    /\ lost = {}

-----------------------------------------------------------------------------
(* Helpers.                                                                 *)

\* An update of the row: Prisma writes a new updatedAt with every one.
Write(state, ref, prov) ==
    /\ clock < MaxStamp
    /\ clock' = clock + 1
    /\ row' = [state |-> state, ref |-> ref, stamp |-> clock + 1, old |-> FALSE, prov |-> prov]

KeepRow == UNCHANGED <<row, clock>>

\* Mutant: no run counts as foreign, so that age alone decides.
NoForeignRunLease(c) == FALSE

hasLiveForeignRunLease(c) == \E d \in Runners \ {c} : run[d] = "live"
findActiveRun == \E d \in Runners : run[d] # "none"

\* Mutant: an operation without a run is given one.
RunOfAnyone(c, s) == run' = [d \in Runners \cup {c} |-> IF d = c THEN s ELSE run[d]]

\* What becomes of the run an operation belongs to, if it belongs to one: a busy
\* computer puts it back in the queue, where it stays active without a lease.
RunOf(c, s) == run' = IF c \in Runners THEN [run EXCEPT ![c] = s] ELSE run

\* The operation ends with an error; a replacement catches that of the boot it called.
Throw(c) ==
    op' = [op EXCEPT ![c] = IF @.reset = 0 THEN IdleOp
                            ELSE [IdleOp EXCEPT !.phase = "caught", !.reset = op[c].reset]]

-----------------------------------------------------------------------------
(* provisionComputer.                                                       *)

\* A booting claim that is not abandoned is left alone.
FreshBoot == row.state = "booting" /\ ~row.old

ProvisionRefused(c) ==
    /\ op[c].phase = "restore" \/ (op[c].phase = "idle" /\ c \in Runners)
    /\ FreshBoot \/ (row.state = "booting" /\ hasLiveForeignRunLease(c))
    /\ Throw(c)
    /\ RunOf(c, "waiting")
    /\ KeepRow /\ UNCHANGED <<box, lost>>

ProvisionRead(c) ==
    /\ op[c].phase = "restore" \/ (op[c].phase = "idle" /\ c \in Runners \cup Openers)
    /\ ~FreshBoot
    /\ ~(row.state = "booting" /\ hasLiveForeignRunLease(c))
    /\ op' = [op EXCEPT ![c] =
                [IdleOp EXCEPT !.phase = IF row.state \in InTransit THEN "wait" ELSE "seen",
                               !.state = row.state, !.ref = row.ref, !.stale = row.old,
                               !.mark = IF row.state \in InTransit THEN row.stamp ELSE 0,
                               !.reset = op[c].reset]]
    /\ RunOf(c, "live")
    /\ KeepRow /\ UNCHANGED <<box, lost>>

\* The row after waitForComputerReady is one this operation may claim.
MayClaim(c) ==
    \/ row.state \in Resting /\ ~(op[c].state = "booting" /\ row.state = "running")
    \/ row.state = "booting" /\ op[c].state = "booting" /\ ~hasLiveForeignRunLease(c)
    \/ /\ row.state = "suspending" /\ op[c].state = "suspending" /\ op[c].stale
       /\ ~hasLiveForeignRunLease(c)

WaitForComputerReady(c) ==
    /\ op[c].phase = "wait"
    /\ IF MayClaim(c)
       THEN /\ op' = [op EXCEPT ![c].phase = "seen", ![c].state = row.state, ![c].ref = row.ref]
            /\ UNCHANGED run
       ELSE Throw(c) /\ RunOf(c, "waiting")
    /\ KeepRow /\ UNCHANGED <<box, lost>>

\* claimWhere: the state and what identifies the claim or the sandbox found.
ClaimWhere(c) ==
    /\ row.state = op[c].state
    /\ row.state \in InTransit => row.stamp = op[c].mark
    /\ row.state # "booting" => row.ref = op[c].ref

ClaimBoot(c) ==
    /\ op[c].phase = "seen"
    /\ IF ClaimWhere(c)
       THEN /\ Write("booting", row.ref, clock + 1)
            /\ op' = [op EXCEPT ![c].phase = "claimed", ![c].claim = clock + 1,
                                ![c].recon = /\ op[c].ref # NoBox
                                             /\ op[c].state \in {"running", "suspending"}]
            /\ UNCHANGED run
       ELSE Throw(c) /\ RunOf(c, "waiting") /\ KeepRow
    /\ UNCHANGED <<box, lost>>

\* The provider finds the sandbox it is asked for, makes a new one, or fails.
Provision(c) ==
    /\ op[c].phase = "claimed"
    /\ \/ /\ op[c].ref # NoBox /\ box[op[c].ref] \in {"up", "stopped"}
          /\ box' = [box EXCEPT ![op[c].ref] = "up"]
          /\ op' = [op EXCEPT ![c].phase = "booted", ![c].box = op[c].ref]
       \/ /\ op[c].ref # NoBox => box[op[c].ref] = "gone"
          /\ \E b \in Boxes :
                /\ box[b] = "absent"
                /\ box' = [box EXCEPT ![b] = "up"]
                /\ op' = [op EXCEPT ![c].phase = "booted", ![c].box = b, ![c].fresh = TRUE]
       \/ /\ op' = [op EXCEPT ![c].phase = "failed"]
          /\ UNCHANGED box
    /\ KeepRow /\ UNCHANGED <<run, lost>>

\* prepare, the restore of the workspace or its layout fails.
PrepareFails(c) ==
    /\ op[c].phase = "booted"
    /\ op' = [op EXCEPT ![c].phase = "failed"]
    /\ KeepRow /\ UNCHANGED <<box, run, lost>>

\* The row is still the one this boot claimed.
OwnsBoot(c) == row.state = "booting" /\ row.prov = op[c].claim /\ row.ref = op[c].ref

Activate(c) ==
    /\ op[c].phase = "booted"
    /\ IF OwnsBoot(c)
       THEN /\ Write("running", op[c].box, 0)
            /\ op' = [op EXCEPT ![c] = IF c \in Runners THEN [IdleOp EXCEPT !.phase = "using"]
                                       ELSE IdleOp]
       ELSE /\ op' = [op EXCEPT ![c].phase = "failed", ![c].busy = TRUE]
            /\ KeepRow
    /\ UNCHANGED <<box, run, lost>>

\* Mutant: a failed reconnect rolls nothing back, not even a sandbox it made.
RollsBackUnlessReconnecting(c) == op[c].box # NoBox /\ ~op[c].recon

\* A failed reconnect never owns an existing workspace.
RollsBack(c) == op[c].box # NoBox /\ (~op[c].recon \/ op[c].fresh)

\* rollbackProvisionedComputer: a new sandbox is destroyed, another stopped (destroyed
\* if that fails after a lost claim); the provider may refuse.
Rollback(c) ==
    LET b == op[c].box IN
    /\ op[c].phase = "failed"
    /\ IF RollsBack(c)
       THEN \/ /\ \E s \in IF op[c].fresh THEN {"gone"}
                           ELSE IF op[c].busy THEN {"stopped", "gone"} ELSE {"stopped"} :
                     box' = [box EXCEPT ![b] = IF @ = "gone" THEN @ ELSE s]
               /\ op' = [op EXCEPT ![c].phase = "record"]
               /\ UNCHANGED lost
            \/ /\ op' = [op EXCEPT ![c].phase = "record", ![c].kept = TRUE]
               /\ lost' = lost \cup {<<b, "refused">>}
               /\ UNCHANGED box
       ELSE /\ op' = [op EXCEPT ![c].phase = "record"]
            /\ UNCHANGED <<box, lost>>
    /\ KeepRow /\ UNCHANGED run

RecordFailure(c) ==
    /\ op[c].phase = "record"
    /\ IF OwnsBoot(c)
       THEN Write(IF op[c].recon THEN "running" ELSE "error",
                  IF ~op[c].recon /\ op[c].kept THEN op[c].box ELSE row.ref, 0)
       ELSE KeepRow
    /\ Throw(c)
    /\ RunOf(c, "waiting")
    /\ UNCHANGED <<box, lost>>

-----------------------------------------------------------------------------
(* sleepComputerIfIdle.                                                     *)

SleepRead(c) ==
    /\ op[c].phase = "idle" /\ c \in Sleepers
    /\ row.state = "running" /\ row.ref # NoBox
    /\ ~findActiveRun
    /\ op' = [op EXCEPT ![c] = [IdleOp EXCEPT !.phase = "drowsy", !.ref = row.ref,
                                              !.mark = row.stamp]]
    /\ KeepRow /\ UNCHANGED <<box, run, lost>>

SleepClaim(c) ==
    /\ op[c].phase = "drowsy"
    /\ IF row.state = "running" /\ row.ref = op[c].ref /\ row.stamp = op[c].mark
       THEN /\ Write("suspending", row.ref, row.prov)
            /\ op' = [op EXCEPT ![c].phase = "saving", ![c].claim = clock + 1]
       ELSE KeepRow /\ Throw(c)
    /\ UNCHANGED <<box, run, lost>>

\* suspensionClaim: the row is still the one this sleep claimed.
OwnsSleep(c) == row.state = "suspending" /\ row.ref = op[c].ref /\ row.stamp = op[c].claim

\* The heartbeat of a long save.
RenewSleep(c) ==
    /\ op[c].phase = "saving"
    /\ OwnsSleep(c)
    /\ Write("suspending", row.ref, row.prov)
    /\ op' = [op EXCEPT ![c].claim = clock + 1]
    /\ UNCHANGED <<box, run, lost>>

\* The workspace is saved and its revision recorded, under the same stamp.
Saved(c) ==
    /\ op[c].phase = "saving"
    /\ IF OwnsSleep(c) THEN op' = [op EXCEPT ![c].phase = "saved"] ELSE Throw(c)
    /\ KeepRow /\ UNCHANGED <<box, run, lost>>

\* The save fails, work turned up, or the provider refuses to stop: the computer stays up.
WakeAgain(c) ==
    /\ \/ op[c].phase = "saving"
       \/ op[c].phase = "saved"       \* activeAfterCheckpoint or background work
       \/ op[c].phase = "stopping"
    /\ IF OwnsSleep(c) THEN Write("running", row.ref, row.prov) ELSE KeepRow
    /\ Throw(c)
    /\ UNCHANGED <<box, run, lost>>

\* The last look: the claim still holds and nothing became active.
StillIdle(c) == ~findActiveRun /\ OwnsSleep(c)

LastLook(c) ==
    /\ op[c].phase = "saved"
    /\ StillIdle(c)
    /\ op' = [op EXCEPT ![c].phase = "stopping"]
    /\ KeepRow /\ UNCHANGED <<box, run, lost>>

StopBox(c) ==
    /\ op[c].phase = "stopping"
    /\ box' = [box EXCEPT ![op[c].ref] = IF @ = "up" THEN "stopped" ELSE @]
    /\ op' = [op EXCEPT ![c].phase = "asleep"]
    /\ KeepRow /\ UNCHANGED <<run, lost>>

Suspend(c) ==
    /\ op[c].phase = "asleep"
    /\ IF OwnsSleep(c) THEN Write("suspended", row.ref, row.prov) ELSE KeepRow
    /\ Throw(c)
    /\ UNCHANGED <<box, run, lost>>

-----------------------------------------------------------------------------
(* replaceComputer, by Reset.                                               *)

ReplaceRead(c) ==
    /\ op[c].phase = "idle" /\ c \in Resetters
    /\ row.state \in InTransit => row.old /\ ~findActiveRun
    /\ op' = [op EXCEPT ![c] = [IdleOp EXCEPT !.phase = "planned", !.state = row.state,
                                              !.ref = row.ref, !.mark = row.stamp]]
    /\ KeepRow /\ UNCHANGED <<box, run, lost>>

\* Mutant: the replacement goes on though its claim failed.
ReplaceClaimUnchecked(c) ==
    /\ op[c].phase = "planned"
    /\ IF row.state = op[c].state /\ (row.state \in InTransit => row.stamp = op[c].mark)
       THEN Write("suspending", row.ref, row.prov) ELSE KeepRow
    /\ op' = [op EXCEPT ![c].phase = "recheck", ![c].claim = clock']
    /\ UNCHANGED <<box, run, lost>>

ReplaceClaim(c) ==
    /\ op[c].phase = "planned"
    /\ IF row.state = op[c].state /\ (row.state \in InTransit => row.stamp = op[c].mark)
       THEN /\ Write("suspending", row.ref, row.prov)
            /\ op' = [op EXCEPT ![c].phase = "recheck", ![c].claim = clock + 1]
       ELSE KeepRow /\ Throw(c)
    /\ UNCHANGED <<box, run, lost>>

OwnsReplace(c) == row.state = "suspending" /\ row.stamp = op[c].claim

\* A run that started meanwhile wins, and the row gets its state back.
ReplaceRecheck(c) ==
    /\ op[c].phase = "recheck"
    /\ IF findActiveRun
       THEN /\ IF OwnsReplace(c) THEN Write(op[c].state, row.ref, row.prov) ELSE KeepRow
            /\ op' = [op EXCEPT ![c] = IdleOp]
       ELSE /\ op' = [op EXCEPT ![c].phase = "destroy", ![c].reset = op[c].claim]
            /\ KeepRow
    /\ UNCHANGED <<box, run, lost>>

\* The old sandbox is destroyed, unless there is none or its engine is not configured here;
\* a Reset whose save or destroy fails gives up.
DestroyOld(c) ==
    /\ op[c].phase = "destroy"
    /\ \/ /\ \/ op[c].ref # NoBox /\ box' = [box EXCEPT ![op[c].ref] = "gone"]
             \/ UNCHANGED box
          /\ op' = [op EXCEPT ![c].phase = "clear"]
       \/ /\ op[c].ref # NoBox
          /\ Throw(c)
          /\ UNCHANGED box
    /\ KeepRow /\ UNCHANGED <<run, lost>>

\* The row forgets the sandbox, under the stamp of the claim, and is booted afresh.  The
\* claim did not compare the sandbox, so it may be another than the one destroyed.
ClearRow(c) ==
    /\ op[c].phase = "clear"
    /\ IF OwnsReplace(c)
       THEN /\ row' = [row EXCEPT !.state = "stopped", !.ref = NoBox]
            /\ op' = [op EXCEPT ![c].phase = "restore"]
            /\ lost' = lost \cup
                  {<<b, IF b = op[c].ref THEN "unreachable" ELSE "forgotten">> :
                      b \in {k \in Boxes : k = row.ref /\ box[k] # "gone"}}
       ELSE Throw(c) /\ UNCHANGED <<row, lost>>
    /\ UNCHANGED <<clock, box, run>>

\* The replacement failed: the row says so unless someone else has written it since.
Caught(c) ==
    /\ op[c].phase = "caught"
    /\ IF row.stamp = op[c].reset THEN Write("error", row.ref, row.prov) ELSE KeepRow
    /\ op' = [op EXCEPT ![c] = IdleOp]
    /\ UNCHANGED <<box, run, lost>>

-----------------------------------------------------------------------------
(* The rest of the world.                                                   *)

\* The run is over, or is cancelled while it waits.
EndRun(c) ==
    /\ op[c].phase \in {"idle", "using"}
    /\ run[c] # "none"
    /\ run' = [run EXCEPT ![c] = "none"]
    /\ op' = [op EXCEPT ![c] = IdleOp]
    /\ KeepRow /\ UNCHANGED <<box, lost>>

\* A process dies in the middle; the lease of its run runs out some time later.
Crash(c) ==
    /\ op[c].phase # "idle"
    /\ op' = [op EXCEPT ![c] = IdleOp]
    /\ lost' = lost \cup {<<b, "died">> : b \in {op[c].box} \ {NoBox}}
    /\ KeepRow /\ UNCHANGED <<box, run>>

\* The worker of the run is gone, or hangs.
ExpireRunLease(c) ==
    /\ run[c] = "live"
    /\ op[c].phase = "idle" \/ c \in Slow
    /\ run' = [run EXCEPT ![c] = "waiting"]
    /\ KeepRow /\ UNCHANGED <<box, op, lost>>

\* A claim grows old: its operation is gone or slow, or is the boot of a run, which waits
\* for its provider that long while the worker renews the lease of the run.
Age ==
    /\ row.state \in InTransit /\ ~row.old
    /\ ~\E c \in Ops \ (Runners \cup Slow) : op[c].phase # "idle" /\ op[c].claim = row.stamp
    /\ row' = [row EXCEPT !.old = TRUE]
    /\ UNCHANGED <<clock, box, op, run, lost>>

\* The provider reaps a sandbox.
Vanish(b) ==
    /\ box[b] \in {"up", "stopped"}
    /\ box' = [box EXCEPT ![b] = "gone"]
    /\ KeepRow /\ UNCHANGED <<op, run, lost>>

-----------------------------------------------------------------------------
Boot(c) ==
    \/ WaitForComputerReady(c) \/ ClaimBoot(c) \/ Provision(c) \/ PrepareFails(c)
    \/ Activate(c) \/ Rollback(c) \/ RecordFailure(c)

Sleep(c) ==
    \/ SleepClaim(c) \/ RenewSleep(c) \/ Saved(c) \/ WakeAgain(c)
    \/ LastLook(c) \/ StopBox(c) \/ Suspend(c)

Replace(c) ==
    \/ ReplaceClaim(c) \/ ReplaceRecheck(c) \/ DestroyOld(c) \/ ClearRow(c) \/ Caught(c)

Next ==
    \/ \E c \in Ops :
          \/ ProvisionRead(c) \/ ProvisionRefused(c) \/ Boot(c)
          \/ SleepRead(c) \/ Sleep(c) \/ ReplaceRead(c) \/ Replace(c) \/ Crash(c)
    \/ \E c \in Runners : EndRun(c) \/ ExpireRunLease(c)
    \/ \E b \in Boxes : Vanish(b)
    \/ Age

Spec == Init /\ [][Next]_vars

-----------------------------------------------------------------------------
(* Properties.                                                              *)

\* Every variable holds a value of its type.
TypeOK ==
    /\ row \in RowType
    /\ clock \in Nat
    /\ box \in [Boxes -> {"absent", "up", "stopped", "gone"}]
    /\ op \in [Ops -> OpType]
    /\ run \in [Runners -> {"none", "live", "waiting"}]
    /\ lost \subseteq Boxes \X Causes

\* One boot at a time: no two operations are with the provider for the same computer,
\* although abandoned boots and suspensions are taken over (provisionComputer's claim),
\* except one that hung until its claim counted as abandoned.
OneBoot ==
    \A c, d \in Ops \ Slow :
        op[c].phase \in {"claimed", "booted"} /\ op[d].phase \in {"claimed", "booted"} => c = d

\* No operation that is not slow stops or destroys the sandbox a running computer is on:
\* not the rollback of a boot, not a sleep, not a replacement.
WinnerSurvives ==
    [][(\E c \in Ops \ Slow : op'[c] # op[c])
         /\ row.state = "running" /\ row.ref # NoBox /\ box[row.ref] = "up"
         => box'[row.ref] = "up"]_vars

\* The sandbox was given up, in one of the ways the code has.
Lost(b) == \E why \in Causes : <<b, why>> \in lost

\* No sandbox is left up with nobody to answer for it, however slow the operations are and
\* whichever lose their claim, but in four ways: its operation died; the provider refused
\* to remove it; a Reset found its engine not configured; and, with nobody dead and nothing
\* refused, a Reset that had read another sandbox cleared the row of it, because its claim
\* compares the state of a resting row and not the sandbox (replaceComputer).  Otherwise
\* one that is up is the computer's, or in the hands of a boot.
NoStrayBox ==
    \A b \in Boxes : box[b] = "up" =>
        \/ row.ref = b
        \/ Lost(b)
        \/ \E c \in Ops : op[c].box = b /\ op[c].phase \in {"booted", "failed"}
=============================================================================
