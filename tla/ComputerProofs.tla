--------------------------- MODULE ComputerProofs ---------------------------
(***************************************************************************)
(* Proofs about Computer, for any set of slow operations.  The row is a    *)
(* lock: an operation that is not slow keeps the row it claimed until it   *)
(* gives it up, because who takes over an abandoned claim compares a stamp *)
(* that no such operation holds any more (Abandoned), having seen it old   *)
(* and no other run live (OldClaim, Kinds).  Slow operations may lose      *)
(* their claim at any time; what is said of sandboxes (Carries, Remembers, *)
(* NoStrayBox) holds for them as well.                                     *)
(***************************************************************************)
EXTENDS Computer, TLAPS

\* The phases in which an operation has claimed the row: to boot, to sleep, to replace.
Booting == {"claimed", "booted", "failed", "record"}
Sleeping == {"saving", "saved", "stopping", "asleep"}
Replacing == {"recheck", "destroy", "clear"}
Claimed == Booting \cup Sleeping \cup Replacing

Timely == Ops \ Slow

\* No stamp is ahead of the clock, every claim has one of its own, and so has a replacement
\* that boots or failed.
Stamps ==
    /\ row.stamp <= clock
    /\ \A c \in Ops : op[c].claim <= clock /\ op[c].mark <= clock /\ op[c].reset <= clock
    /\ \A c, d \in Ops : c # d =>
          /\ op[c].claim # 0 => op[c].claim # op[d].claim
          /\ op[c].reset # 0 => op[c].reset # op[d].claim
    /\ \A c \in Ops : op[c].phase \in Claimed => op[c].claim # 0

\* What the row says while c has claimed it.
Owns(c) ==
    /\ op[c].phase \in Claimed => row.stamp = op[c].claim
    /\ op[c].phase \in Booting =>
          row.state = "booting" /\ row.prov = op[c].claim /\ row.ref = op[c].ref
    /\ op[c].phase \in Sleeping => row.state = "suspending" /\ row.ref = op[c].ref
    /\ op[c].phase \in Replacing => row.state = "suspending"

\* Who does what; the lease of a run is live while its computer is provisioned.
Kinds(c) ==
    /\ op[c].phase \in Sleeping \cup {"drowsy"} => c \in Sleepers
    /\ op[c].phase \in Replacing \cup {"planned"} => c \in Resetters
    /\ op[c].phase \in Booting \cup {"wait", "seen"} /\ c \in Runners \ Slow => run[c] = "live"

\* c may take over the claim it found.
Chases(c) ==
    \/ op[c].phase = "wait" /\ (op[c].state = "booting" \/ op[c].stale)
    \/ op[c].phase \in {"seen", "planned"} /\ op[c].state \in InTransit

\* The claim c may take over is that of a slow operation or nobody's, as long as the row
\* has its stamp.
Abandoned(c) ==
    Chases(c) /\ row.state \in InTransit /\ row.stamp = op[c].mark =>
        /\ \A d \in Timely : op[d].phase \notin Claimed
        /\ op[c].phase = "seen" /\ op[c].state = "booting" /\ row.state = "booting"
              => row.ref = op[c].ref

\* An old claim is that of a run, of a slow operation or of nobody.
OldClaim ==
    row.old /\ row.state \in InTransit =>
        \A c \in Timely \ Runners : op[c].phase \in Claimed => op[c].claim # row.stamp

\* The sandbox an operation has: a new one, made because the row's was gone, or the row's.
Carries(c) ==
    /\ op[c].box # NoBox => op[c].phase \in {"booted", "failed", "record"}
    /\ op[c].phase = "booted" => op[c].box # NoBox
    /\ op[c].fresh => op[c].box # NoBox /\ (op[c].ref # NoBox => box[op[c].ref] = "gone")
    /\ op[c].box # NoBox /\ ~op[c].fresh => op[c].box = op[c].ref
    /\ op[c].kept => op[c].box # NoBox

\* The sandbox an operation read in the row is still there, or gone, or lost.
Remembers(c) ==
    op[c].ref # NoBox => row.ref = op[c].ref \/ box[op[c].ref] = "gone" \/ Lost(op[c].ref)

ClaimsHold == \A c \in Timely : Owns(c)

IInv ==
    /\ TypeOK /\ Stamps /\ OldClaim /\ ClaimsHold
    /\ \A c \in Ops : Kinds(c) /\ Abandoned(c) /\ Carries(c) /\ Remembers(c)
    /\ NoStrayBox

-----------------------------------------------------------------------------
(* Types.                                                                   *)

\* An operation at rest is well typed, and has nothing.
LEMMA IdleType ==
    /\ IdleOp \in OpType
    /\ \A n \in Nat : /\ [IdleOp EXCEPT !.phase = "caught", !.reset = n] \in OpType
                      /\ [IdleOp EXCEPT !.phase = "caught", !.reset = n].phase = "caught"
  BY DEF IdleOp, OpType, Phases, Resting, InTransit

\* The first state is well typed.
LEMMA TypeInit == Init => TypeOK
  <1> SUFFICES ASSUME Init PROVE TypeOK
    OBVIOUS
  <1>1. row \in RowType /\ clock \in Nat
    BY DEF Init, RowType, Resting, InTransit
  <1>2. op \in [Ops -> OpType]
    BY IdleType DEF Init
  <1>3. box \in [Boxes -> {"absent", "up", "stopped", "gone"}]
    BY DEF Init
  <1>4. run \in [Runners -> {"none", "live", "waiting"}] /\ lost \subseteq Boxes \X Causes
    BY DEF Init
  <1> QED BY <1>1, <1>2, <1>3, <1>4 DEF TypeOK

\* An operation that throws keeps nothing but the replacement it boots for.
LEMMA ThrowFields ==
    ASSUME TypeOK, NEW c \in Ops, Throw(c)
    PROVE  /\ op' \in [Ops -> OpType]
           /\ \A d \in Ops \ {c} : op'[d] = op[d]
           /\ op'[c].phase \in {"idle", "caught"} /\ op'[c].claim = 0 /\ op'[c].mark = 0
           /\ op'[c].ref = NoBox /\ op'[c].box = NoBox /\ op'[c].reset = op[c].reset
           /\ op'[c].fresh = FALSE /\ op'[c].kept = FALSE
  <1>1. op[c] \in OpType /\ op[c].reset \in Nat
    BY DEF TypeOK, OpType
  <1>2. CASE op[c].reset = 0
    BY <1>1, <1>2, IdleType DEF Throw, IdleOp, TypeOK
  <1>3. CASE op[c].reset # 0
    <2>1. op' = [op EXCEPT ![c] = [IdleOp EXCEPT !.phase = "caught", !.reset = op[c].reset]]
      BY <1>3 DEF Throw
    <2>2. [IdleOp EXCEPT !.phase = "caught", !.reset = op[c].reset] \in OpType
      BY <1>1, IdleType
    <2>3. QED
      BY <1>1, <2>1, <2>2 DEF IdleOp, TypeOK
  <1>4. QED
    BY <1>2, <1>3

\* The run of an operation.
LEMMA RunOfType ==
    ASSUME TypeOK, NEW c \in Ops, NEW s \in {"none", "live", "waiting"}, RunOf(c, s)
    PROVE  /\ run' \in [Runners -> {"none", "live", "waiting"}]
           /\ \A d \in Runners \ {c} : run'[d] = run[d]
           /\ c \in Runners => run'[c] = s
  BY DEF RunOf, TypeOK

\* An update of the row.
LEMMA WriteType ==
    ASSUME TypeOK, NEW s \in Resting \cup InTransit, NEW b \in Boxes \cup {NoBox}, NEW p \in Nat,
           Write(s, b, p)
    PROVE  /\ row' \in RowType /\ clock' \in Nat /\ clock' = clock + 1
           /\ row'.state = s /\ row'.ref = b /\ row'.prov = p
           /\ row'.stamp = clock + 1 /\ row'.old = FALSE
  BY DEF Write, TypeOK, RowType

\* An operation that claims a boot is well typed.
LEMMA ClaimType ==
    ASSUME NEW o \in OpType, NEW k \in Nat
    PROVE  /\ [o EXCEPT !.phase = "claimed", !.claim = k, !.recon = TRUE] \in OpType
           /\ [o EXCEPT !.phase = "claimed", !.claim = k, !.recon = FALSE] \in OpType
  BY DEF OpType, Phases

\* A step of a boot keeps the types.
LEMMA BootType ==
    ASSUME TypeOK, NEW c \in Ops, ProvisionRead(c) \/ ProvisionRefused(c) \/ Boot(c)
    PROVE  TypeOK'
  <1> USE DEF Resting, InTransit
  <1>0. /\ op[c] \in OpType /\ row \in RowType /\ clock \in Nat /\ op \in [Ops -> OpType]
        /\ IdleOp \in OpType
    BY IdleType DEF TypeOK
  <1>1. CASE ProvisionRefused(c)
    BY <1>1, ThrowFields, RunOfType DEF ProvisionRefused, TypeOK, KeepRow
  <1>2. CASE ProvisionRead(c)
    <2>1. run' \in [Runners -> {"none", "live", "waiting"}]
      BY <1>2, RunOfType DEF ProvisionRead
    <2>2. op' \in [Ops -> OpType]
      <3> DEFINE p == IF row.state \in InTransit THEN "wait" ELSE "seen"
                 k == IF row.state \in InTransit THEN row.stamp ELSE 0
                 o == [IdleOp EXCEPT !.phase = p, !.state = row.state, !.ref = row.ref,
                                     !.stale = row.old, !.mark = k, !.reset = op[c].reset]
      <3>1. p \in Phases /\ k \in Nat
        BY <1>0 DEF RowType, Phases
      <3>2. o \in OpType
        BY <1>0, <3>1 DEF RowType, OpType
      <3>3. op' = [op EXCEPT ![c] = o]
        BY <1>2 DEF ProvisionRead
      <3> QED BY <1>0, <3>2, <3>3
    <2> QED BY <1>2, <2>1, <2>2 DEF ProvisionRead, TypeOK, KeepRow
  <1>3. CASE WaitForComputerReady(c)
    <2>1. CASE MayClaim(c)
      BY <1>0, <1>3, <2>1 DEF WaitForComputerReady, TypeOK, KeepRow, OpType, RowType, Phases
    <2>2. CASE ~MayClaim(c)
      BY <1>3, <2>2, ThrowFields, RunOfType DEF WaitForComputerReady, TypeOK, KeepRow
    <2> QED BY <2>1, <2>2
  <1>4. CASE ClaimBoot(c)
    <2>1. CASE ClaimWhere(c)
      <3>1. Write("booting", row.ref, clock + 1)
        BY <1>4, <2>1 DEF ClaimBoot
      <3>2. row' \in RowType /\ clock' \in Nat
        <4>1. row.ref \in Boxes \cup {NoBox} /\ clock + 1 \in Nat
          BY <1>0 DEF RowType
        <4> QED BY <3>1, <4>1, WriteType
      <3>3. PICK a \in BOOLEAN : a = (op[c].ref # NoBox /\ op[c].state \in {"running", "suspending"})
        OBVIOUS
      <3>4. op' = [op EXCEPT ![c].phase = "claimed", ![c].claim = clock + 1, ![c].recon = a]
        BY <1>4, <2>1, <3>3, Zenon DEF ClaimBoot
      <3>5. op' \in [Ops -> OpType]
        <4>0. a = TRUE \/ a = FALSE
          BY <3>3, Zenon
        <4>1. [op[c] EXCEPT !.phase = "claimed", !.claim = clock + 1, !.recon = a] \in OpType
          <5>1. clock + 1 \in Nat
            BY <1>0
          <5> QED BY <1>0, <4>0, <5>1, ClaimType, Zenon
        <4>2. op' = [op EXCEPT ![c] = [op[c] EXCEPT !.phase = "claimed", !.claim = clock + 1,
                                                    !.recon = a]]
          BY <1>0, <3>4
        <4> QED BY <1>0, <4>1, <4>2
      <3> QED BY <1>4, <2>1, <3>2, <3>5 DEF ClaimBoot, TypeOK
    <2>2. CASE ~ClaimWhere(c)
      BY <1>4, <2>2, ThrowFields, RunOfType DEF ClaimBoot, TypeOK, KeepRow
    <2> QED BY <2>1, <2>2
  <1>5. CASE Provision(c)
    <2>1. op' \in [Ops -> OpType]
      <3>1. CASE op' = [op EXCEPT ![c].phase = "failed"]
        BY <1>0, <3>1 DEF OpType, Phases
      <3>2. CASE op' = [op EXCEPT ![c].phase = "booted", ![c].box = op[c].ref]
        BY <1>0, <3>2 DEF OpType, Phases
      <3>3. ASSUME NEW b \in Boxes,
                   op' = [op EXCEPT ![c].phase = "booted", ![c].box = b, ![c].fresh = TRUE]
            PROVE  op' \in [Ops -> OpType]
        <4>1. [op[c] EXCEPT !.phase = "booted", !.box = b, !.fresh = TRUE] \in OpType
          BY <1>0 DEF OpType, Phases
        <4>2. op' = [op EXCEPT ![c] = [op[c] EXCEPT !.phase = "booted", !.box = b, !.fresh = TRUE]]
          BY <1>0, <3>3
        <4> QED BY <1>0, <4>1, <4>2
      <3> QED BY <1>5, <3>1, <3>2, <3>3 DEF Provision
    <2>2. box' \in [Boxes -> {"absent", "up", "stopped", "gone"}]
      BY <1>5 DEF Provision, TypeOK
    <2> QED BY <1>5, <2>1, <2>2 DEF Provision, TypeOK, KeepRow
  <1>6. CASE PrepareFails(c)
    BY <1>0, <1>6 DEF PrepareFails, TypeOK, KeepRow, OpType, Phases
  <1>7. CASE Activate(c)
    <2>1. CASE OwnsBoot(c)
      <3>1. row' \in RowType /\ clock' \in Nat
        BY <1>0, <1>7, <2>1, WriteType DEF Activate, OpType
      <3>2. [IdleOp EXCEPT !.phase = "using"] \in OpType
        BY <1>0 DEF OpType, Phases
      <3>3. op' \in [Ops -> OpType]
        BY <1>0, <1>7, <2>1, <3>2 DEF Activate
      <3> QED BY <1>7, <2>1, <3>1, <3>3 DEF Activate, TypeOK
    <2>2. CASE ~OwnsBoot(c)
      BY <1>0, <1>7, <2>2 DEF Activate, TypeOK, KeepRow, OpType, Phases
    <2> QED BY <2>1, <2>2
  <1>8. CASE Rollback(c)
    <2>1. op' \in [Ops -> OpType]
      BY <1>0, <1>8 DEF Rollback, OpType, Phases
    <2>2. box' \in [Boxes -> {"absent", "up", "stopped", "gone"}]
      BY <1>8 DEF Rollback, TypeOK
    <2>3. lost' \subseteq Boxes \X Causes
      BY <1>0, <1>8 DEF Rollback, RollsBack, TypeOK, OpType, Causes
    <2> QED BY <1>8, <2>1, <2>2, <2>3 DEF Rollback, TypeOK, KeepRow
  <1>9. CASE RecordFailure(c)
    <2>1. row' \in RowType /\ clock' \in Nat
      <3>1. CASE OwnsBoot(c)
        <4> DEFINE s == IF op[c].recon THEN "running" ELSE "error"
                   b == IF ~op[c].recon /\ op[c].kept THEN op[c].box ELSE row.ref
        <4>1. s \in Resting \cup InTransit /\ b \in Boxes \cup {NoBox}
          BY <1>0 DEF OpType, RowType
        <4> QED BY <1>9, <3>1, <4>1, WriteType DEF RecordFailure
      <3>2. CASE ~OwnsBoot(c)
        BY <1>0, <1>9, <3>2 DEF RecordFailure, KeepRow
      <3> QED BY <3>1, <3>2
    <2> QED BY <1>9, <2>1, ThrowFields, RunOfType DEF RecordFailure, TypeOK
  <1> QED BY <1>1, <1>2, <1>3, <1>4, <1>5, <1>6, <1>7, <1>8, <1>9 DEF Boot

\* A step of a sleep keeps the types.
LEMMA SleepType ==
    ASSUME TypeOK, NEW c \in Ops, SleepRead(c) \/ Sleep(c)
    PROVE  TypeOK'
  <1> USE DEF Resting, InTransit
  <1>0. /\ op[c] \in OpType /\ row \in RowType /\ clock \in Nat /\ op \in [Ops -> OpType]
        /\ IdleOp \in OpType
    BY IdleType DEF TypeOK
  <1>1. CASE SleepRead(c)
    <2>1. [IdleOp EXCEPT !.phase = "drowsy", !.ref = row.ref, !.mark = row.stamp] \in OpType
      BY <1>0 DEF OpType, RowType, Phases
    <2> QED BY <1>0, <1>1, <2>1 DEF SleepRead, TypeOK, KeepRow
  <1>2. CASE SleepClaim(c)
    <2>1. CASE row.state = "running" /\ row.ref = op[c].ref /\ row.stamp = op[c].mark
      <3>1. row' \in RowType /\ clock' \in Nat
        BY <1>0, <1>2, <2>1, WriteType DEF SleepClaim, RowType
      <3> QED BY <1>0, <1>2, <2>1, <3>1 DEF SleepClaim, TypeOK, OpType, Phases
    <2>2. CASE ~(row.state = "running" /\ row.ref = op[c].ref /\ row.stamp = op[c].mark)
      BY <1>2, <2>2, ThrowFields DEF SleepClaim, TypeOK, KeepRow
    <2> QED BY <2>1, <2>2
  <1>3. CASE RenewSleep(c)
    <2>1. row' \in RowType /\ clock' \in Nat
      BY <1>0, <1>3, WriteType DEF RenewSleep, RowType
    <2> QED BY <1>0, <1>3, <2>1 DEF RenewSleep, TypeOK, OpType
  <1>4. CASE Saved(c)
    <2>1. CASE OwnsSleep(c)
      BY <1>0, <1>4, <2>1 DEF Saved, TypeOK, KeepRow, OpType, Phases
    <2>2. CASE ~OwnsSleep(c)
      BY <1>4, <2>2, ThrowFields DEF Saved, TypeOK, KeepRow
    <2> QED BY <2>1, <2>2
  <1>5. CASE WakeAgain(c)
    <2>1. row' \in RowType /\ clock' \in Nat
      BY <1>0, <1>5, WriteType DEF WakeAgain, RowType, KeepRow
    <2> QED BY <1>5, <2>1, ThrowFields DEF WakeAgain, TypeOK
  <1>6. CASE LastLook(c)
    BY <1>0, <1>6 DEF LastLook, TypeOK, KeepRow, OpType, Phases
  <1>7. CASE StopBox(c)
    BY <1>0, <1>7 DEF StopBox, TypeOK, KeepRow, OpType, Phases
  <1>8. CASE Suspend(c)
    <2>1. row' \in RowType /\ clock' \in Nat
      BY <1>0, <1>8, WriteType DEF Suspend, RowType, KeepRow
    <2> QED BY <1>8, <2>1, ThrowFields DEF Suspend, TypeOK
  <1> QED BY <1>1, <1>2, <1>3, <1>4, <1>5, <1>6, <1>7, <1>8 DEF Sleep

\* A step of a replacement keeps the types.
LEMMA ReplaceType ==
    ASSUME TypeOK, NEW c \in Ops, ReplaceRead(c) \/ Replace(c)
    PROVE  TypeOK'
  <1> USE DEF Resting, InTransit
  <1>0. /\ op[c] \in OpType /\ row \in RowType /\ clock \in Nat /\ op \in [Ops -> OpType]
        /\ IdleOp \in OpType
    BY IdleType DEF TypeOK
  <1>1. CASE ReplaceRead(c)
    <2>1. [IdleOp EXCEPT !.phase = "planned", !.state = row.state, !.ref = row.ref,
                         !.mark = row.stamp] \in OpType
      BY <1>0 DEF OpType, RowType, Phases
    <2> QED BY <1>0, <1>1, <2>1 DEF ReplaceRead, TypeOK, KeepRow
  <1>2. CASE ReplaceClaim(c)
    <2> DEFINE same == row.state = op[c].state /\ (row.state \in InTransit => row.stamp = op[c].mark)
    <2>1. CASE same
      <3>1. row' \in RowType /\ clock' \in Nat
        BY <1>0, <1>2, <2>1, WriteType DEF ReplaceClaim, RowType
      <3> QED BY <1>0, <1>2, <2>1, <3>1 DEF ReplaceClaim, TypeOK, OpType, Phases
    <2>2. CASE ~same
      BY <1>2, <2>2, ThrowFields DEF ReplaceClaim, TypeOK, KeepRow
    <2> QED BY <2>1, <2>2
  <1>3. CASE ReplaceRecheck(c)
    <2>1. row' \in RowType /\ clock' \in Nat
      BY <1>0, <1>3, WriteType DEF ReplaceRecheck, RowType, KeepRow, OpType
    <2>2. op' \in [Ops -> OpType]
      BY <1>0, <1>3 DEF ReplaceRecheck, OpType, Phases
    <2> QED BY <1>3, <2>1, <2>2 DEF ReplaceRecheck, TypeOK
  <1>4. CASE DestroyOld(c)
    <2>1. op' \in [Ops -> OpType]
      <3>1. CASE op' = [op EXCEPT ![c].phase = "clear"]
        BY <1>0, <3>1 DEF OpType, Phases
      <3> QED BY <1>4, <3>1, ThrowFields DEF DestroyOld
    <2> QED BY <1>4, <2>1 DEF DestroyOld, TypeOK, KeepRow
  <1>5. CASE ClearRow(c)
    <2>1. CASE OwnsReplace(c)
      <3>1. op' \in [Ops -> OpType]
        BY <1>0, <1>5, <2>1 DEF ClearRow, OpType, Phases
      <3>2. row' \in RowType /\ lost' \subseteq Boxes \X Causes
        <4>1. row' = [row EXCEPT !.state = "stopped", !.ref = NoBox]
          BY <1>5, <2>1 DEF ClearRow
        <4>2. lost' = lost \cup
                 {<<b, IF b = op[c].ref THEN "unreachable" ELSE "forgotten">> :
                     b \in {k \in Boxes : k = row.ref /\ box[k] # "gone"}}
          BY <1>5, <2>1 DEF ClearRow
        <4>3. lost' \subseteq Boxes \X Causes
          BY <4>2 DEF TypeOK, Causes
        <4> QED BY <1>0, <4>1, <4>3 DEF RowType
      <3>3. UNCHANGED <<clock, box, run>>
        BY <1>5 DEF ClearRow
      <3> QED BY <3>1, <3>2, <3>3 DEF TypeOK
    <2>2. CASE ~OwnsReplace(c)
      BY <1>5, <2>2, ThrowFields DEF ClearRow, TypeOK
    <2> QED BY <2>1, <2>2
  <1>6. CASE Caught(c)
    <2>1. row' \in RowType /\ clock' \in Nat
      BY <1>0, <1>6, WriteType DEF Caught, RowType, KeepRow
    <2> QED BY <1>0, <1>6, <2>1 DEF Caught, TypeOK
  <1> QED BY <1>1, <1>2, <1>3, <1>4, <1>5, <1>6 DEF Replace

\* Every step keeps the types.
LEMMA TypeStep == TypeOK /\ [Next]_vars => TypeOK'
  <1> SUFFICES ASSUME TypeOK, [Next]_vars PROVE TypeOK'
    OBVIOUS
  <1>0. Runners \subseteq Ops /\ op \in [Ops -> OpType] /\ IdleOp \in OpType
    BY IdleType DEF Ops, TypeOK
  <1>1. ASSUME NEW c \in Ops, Crash(c) PROVE TypeOK'
    <2>1. lost' \subseteq Boxes \X Causes
      BY <1>0, <1>1 DEF Crash, TypeOK, OpType, Causes
    <2> QED BY <1>0, <1>1, <2>1 DEF Crash, TypeOK, KeepRow
  <1>2. ASSUME NEW c \in Runners, EndRun(c) \/ ExpireRunLease(c) PROVE TypeOK'
    BY <1>0, <1>2 DEF EndRun, ExpireRunLease, TypeOK, KeepRow
  <1>3. ASSUME NEW b \in Boxes, Vanish(b) PROVE TypeOK'
    BY <1>3 DEF Vanish, TypeOK, KeepRow
  <1>4. CASE Age
    BY <1>4 DEF Age, TypeOK, RowType
  <1>5. CASE UNCHANGED vars
    BY <1>5 DEF vars, TypeOK
  <1> QED
    BY <1>1, <1>2, <1>3, <1>4, <1>5, BootType, SleepType, ReplaceType DEF Next

\* Every reachable state of the row, the operations and the sandboxes is well typed.
THEOREM TypeCorrect == Spec => []TypeOK
  BY TypeInit, TypeStep, PTL DEF Spec

-----------------------------------------------------------------------------
(* The row is a lock.                                                       *)

\* What is said of each operation by itself.
Local(c) == Kinds(c) /\ Abandoned(c) /\ Carries(c) /\ Remembers(c)

\* The step is that of operation c.
StepOf(c) ==
    /\ \A d \in Ops \ {c} : op'[d] = op[d]
    /\ \A d \in Runners \ {c} : run'[d] = run[d]

\* What the provider forgot stays forgotten, what was lost stays lost.
Forgets ==
    /\ \A b \in Boxes : box[b] = "gone" => box'[b] = "gone"
    /\ lost \subseteq lost'

\* Operation c may write the row: it is at rest, c's own, or that of a claim c found abandoned.
MayWrite(c) ==
    \/ row.state \in Resting
    \/ op[c].phase \in Booting /\ OwnsBoot(c)
    \/ op[c].phase \in Claimed /\ row.stamp = op[c].claim
    \/ op[c].phase = "caught" /\ row.stamp = op[c].reset
    \/ Chases(c) /\ row.state \in InTransit /\ row.stamp = op[c].mark

\* Who may write the row robs nobody but a slow operation.
LEMMA NobodyElse ==
    ASSUME IInv, NEW c \in Ops, MayWrite(c)
    PROVE  \A d \in Timely \ {c} : op[d].phase \notin Claimed
  <1> SUFFICES ASSUME NEW d \in Timely \ {c}, op[d].phase \in Claimed PROVE FALSE
    OBVIOUS
  <1> USE DEF Resting, InTransit
  <1>1. d \in Ops /\ c # d /\ Owns(d) /\ Stamps /\ Abandoned(c)
    BY DEF IInv, Timely, ClaimsHold
  <1>2. /\ row.stamp = op[d].claim /\ op[d].claim # 0 /\ row.state \in InTransit
        /\ row.state = "booting" => row.prov = op[d].claim
    BY <1>1 DEF Owns, Stamps, Claimed, Booting, Sleeping, Replacing
  <1>3. op[c].phase \in Claimed => op[c].claim # op[d].claim
    BY <1>1 DEF Stamps
  <1>4. op[c].reset # op[d].claim
    BY <1>1, <1>2 DEF Stamps
  <1>5. ~(op[c].phase \in Booting /\ OwnsBoot(c))
    BY <1>2, <1>3 DEF OwnsBoot, Claimed
  <1>6. ~(Chases(c) /\ row.state \in InTransit /\ row.stamp = op[c].mark)
    BY <1>1 DEF Abandoned
  <1> QED BY <1>2, <1>3, <1>4, <1>5, <1>6 DEF MayWrite

\* A step that leaves the row alone keeps the invariant if it does for the operation itself.
LEMMA Keep ==
    ASSUME IInv, TypeOK', NEW c \in Ops, KeepRow, StepOf(c), Forgets, NoStrayBox',
           op'[c].claim \in {0, op[c].claim},
           op'[c].reset \in {0, op[c].reset, op[c].claim},
           op'[c].mark <= clock,
           op'[c].phase \in Claimed => op[c].phase \in Claimed /\ op'[c].claim = op[c].claim,
           c \in Timely => Owns(c)', Local(c)'
    PROVE  IInv'
  <1>0. row' = row /\ clock' = clock /\ Stamps /\ OldClaim /\ ClaimsHold /\ TypeOK
    BY DEF KeepRow, IInv
  <1>1. \A d \in Ops \ {c} : op'[d] = op[d]
    BY DEF StepOf
  <1>2. Stamps'
    BY <1>0, <1>1 DEF Stamps, TypeOK, OpType
  <1>3. OldClaim'
    BY <1>0, <1>1 DEF OldClaim, Timely
  <1>4. ClaimsHold'
    BY <1>0, <1>1 DEF ClaimsHold, Owns, Timely
  <1>5. ASSUME NEW d \in Ops \ {c} PROVE Local(d)'
    <2>0. Kinds(d) /\ Abandoned(d) /\ Carries(d) /\ Remembers(d) /\ op'[d] = op[d]
          /\ op[d].ref \in Boxes \cup {NoBox}
      BY <1>0, <1>1, <1>5 DEF IInv, TypeOK, OpType
    <2>1. Kinds(d)'
      BY <1>5, <2>0 DEF Kinds, StepOf
    <2>2. Abandoned(d)'
      BY <1>0, <1>1, <2>0 DEF Abandoned, Chases, Timely
    <2>3. Carries(d)'
      BY <2>0 DEF Carries, Forgets
    <2>4. Remembers(d)'
      BY <1>0, <2>0 DEF Remembers, Forgets, Lost
    <2> QED BY <2>1, <2>2, <2>3, <2>4 DEF Local
  <1> QED BY <1>2, <1>3, <1>4, <1>5 DEF IInv, Local

\* So does a step that writes the row and may.
LEMMA Wrote ==
    ASSUME IInv, TypeOK', NEW c \in Ops, MayWrite(c), StepOf(c), box' = box, lost' = lost,
           clock' = clock + 1, row'.stamp = clock + 1, row'.old = FALSE, NoStrayBox',
           row'.ref = row.ref \/ row.ref = NoBox \/ box[row.ref] = "gone",
           op'[c].claim \in {0, clock + 1},
           op'[c].reset \in {0, op[c].reset},
           op'[c].mark <= clock,
           op'[c].phase \in Claimed => op'[c].claim = clock + 1,
           c \in Timely => Owns(c)', Local(c)'
    PROVE  IInv'
  <1>0. Stamps /\ TypeOK /\ clock \in Nat /\ row \in RowType
    BY DEF IInv, TypeOK
  <1>1. \A d \in Ops \ {c} : op'[d] = op[d] /\ op[d] \in OpType
    BY <1>0 DEF StepOf, TypeOK
  <1>2. \A d \in Timely \ {c} : op'[d].phase \notin Claimed
    BY <1>1, NobodyElse DEF Timely
  <1>3. Stamps'
    <2>1. \A d \in Ops : /\ op[d].claim \in Nat /\ op[d].mark \in Nat /\ op[d].reset \in Nat
                         /\ op[d].claim <= clock /\ op[d].mark <= clock /\ op[d].reset <= clock
      BY <1>0 DEF Stamps, TypeOK, OpType
    <2>2. row'.stamp <= clock'
      BY <1>0
    <2>3. \A d \in Ops : op'[d].claim <= clock' /\ op'[d].mark <= clock' /\ op'[d].reset <= clock'
      <3>1. op'[c].claim <= clock' /\ op'[c].mark <= clock' /\ op'[c].reset <= clock'
        <4>1. op'[c].mark \in Nat /\ op'[c].reset \in Nat
          BY DEF TypeOK, OpType
        <4> QED BY <1>0, <2>1, <4>1
      <3>2. \A d \in Ops \ {c} :
                op'[d].claim <= clock' /\ op'[d].mark <= clock' /\ op'[d].reset <= clock'
        BY <1>0, <1>1, <2>1
      <3> QED BY <3>1, <3>2
    <2>4. ASSUME NEW d \in Ops, NEW e \in Ops, d # e
          PROVE  /\ op'[d].claim # 0 => op'[d].claim # op'[e].claim
                 /\ op'[d].reset # 0 => op'[d].reset # op'[e].claim
      <3>1. CASE d # c /\ e # c
        BY <1>0, <1>1, <2>4, <3>1 DEF Stamps
      <3>2. CASE d = c
        BY <1>0, <1>1, <2>1, <2>4, <3>2 DEF Stamps
      <3>3. CASE e = c
        BY <1>0, <1>1, <2>1, <2>4, <3>3 DEF Stamps
      <3> QED BY <3>1, <3>2, <3>3
    <2>5. \A d \in Ops : op'[d].phase \in Claimed => op'[d].claim # 0
      BY <1>0, <1>1 DEF Stamps
    <2> QED BY <2>2, <2>3, <2>4, <2>5 DEF Stamps
  <1>4. OldClaim'
    BY DEF OldClaim
  <1>5. ClaimsHold'
    BY <1>2 DEF ClaimsHold, Owns, Timely, Claimed
  <1>6. ASSUME NEW d \in Ops \ {c} PROVE Local(d)'
    <2>0. /\ Kinds(d) /\ Abandoned(d) /\ Carries(d) /\ Remembers(d) /\ op'[d] = op[d]
          /\ op[d].ref \in Boxes \cup {NoBox} /\ op[d].mark \in Nat /\ op[d].mark <= clock
      BY <1>0, <1>1, <1>6 DEF IInv, OpType, Stamps
    <2>1. Kinds(d)'
      BY <1>6, <2>0 DEF Kinds, StepOf
    <2>2. Abandoned(d)'
      BY <1>0, <2>0 DEF Abandoned
    <2>3. Carries(d)'
      BY <2>0 DEF Carries
    <2>4. Remembers(d)'
      BY <2>0 DEF Remembers, Lost
    <2> QED BY <2>1, <2>2, <2>3, <2>4 DEF Local
  <1> QED BY <1>3, <1>4, <1>5, <1>6 DEF IInv, Local

\* An operation at rest, or whose boot succeeded or failed, has nothing.
AtRest(o) ==
    /\ o.phase \in {"idle", "caught", "using"} /\ o.claim = 0 /\ o.mark = 0
    /\ o.ref = NoBox /\ o.box = NoBox /\ o.fresh = FALSE /\ o.kept = FALSE

\* Nothing is asked of it.
LEMMA Rested ==
    ASSUME NEW c \in Ops, AtRest(op'[c])
    PROVE  Owns(c)' /\ Local(c)'
  <1> USE DEF AtRest, Claimed, Booting, Sleeping, Replacing
  <1>1. Owns(c)' /\ Kinds(c)'
    BY DEF Owns, Kinds
  <1>2. Abandoned(c)'
    BY DEF Abandoned, Chases
  <1>3. Carries(c)' /\ Remembers(c)'
    BY DEF Carries, Remembers, Lost
  <1> QED BY <1>1, <1>2, <1>3 DEF Local

\* An operation that ends is at rest, and so is a replacement whose boot failed.
LEMMA Ends ==
    ASSUME TypeOK, NEW c \in Ops
    PROVE  /\ Throw(c) => /\ AtRest(op'[c]) /\ op'[c].reset = op[c].reset
                          /\ \A d \in Ops \ {c} : op'[d] = op[d]
           /\ op' = [op EXCEPT ![c] = IdleOp] =>
                /\ AtRest(op'[c]) /\ op'[c].reset = 0
                /\ \A d \in Ops \ {c} : op'[d] = op[d]
           /\ op' = [op EXCEPT ![c] = [IdleOp EXCEPT !.phase = "using"]] =>
                /\ AtRest(op'[c]) /\ op'[c].reset = 0
                /\ \A d \in Ops \ {c} : op'[d] = op[d]
  <1>1. op \in [Ops -> OpType]
    BY DEF TypeOK
  <1>2. Throw(c) => /\ AtRest(op'[c]) /\ op'[c].reset = op[c].reset
                    /\ \A d \in Ops \ {c} : op'[d] = op[d]
    BY ThrowFields DEF AtRest
  <1>3. ASSUME op' = [op EXCEPT ![c] = IdleOp]
        PROVE  AtRest(op'[c]) /\ op'[c].reset = 0 /\ \A d \in Ops \ {c} : op'[d] = op[d]
    BY <1>1, <1>3 DEF IdleOp, AtRest
  <1>4. ASSUME op' = [op EXCEPT ![c] = [IdleOp EXCEPT !.phase = "using"]]
        PROVE  AtRest(op'[c]) /\ op'[c].reset = 0 /\ \A d \in Ops \ {c} : op'[d] = op[d]
    BY <1>1, <1>4 DEF IdleOp, AtRest
  <1> QED BY <1>2, <1>3, <1>4

\* No sandbox is left behind by a step that starts none and drops none.
LEMMA StrayKept ==
    ASSUME NoStrayBox, NEW c \in Ops, \A d \in Ops \ {c} : op'[d] = op[d], lost \subseteq lost',
           \A b \in Boxes : box'[b] = "up" =>
              /\ box[b] = "up"
              /\ row.ref = b => row'.ref = b \/ Lost(b)'
              /\ op[c].box = b /\ op[c].phase \in {"booted", "failed"} =>
                    \/ op'[c].box = b /\ op'[c].phase \in {"booted", "failed"}
                    \/ Lost(b)' \/ row'.ref = b
    PROVE  NoStrayBox'
  <1> SUFFICES ASSUME NEW b \in Boxes, box'[b] = "up"
               PROVE  row'.ref = b \/ Lost(b)' \/
                      \E d \in Ops : op'[d].box = b /\ op'[d].phase \in {"booted", "failed"}
    BY DEF NoStrayBox
  <1>1. CASE row.ref = b \/ Lost(b)
    BY <1>1 DEF Lost
  <1>2. ASSUME NEW d \in Ops, op[d].box = b, op[d].phase \in {"booted", "failed"}
        PROVE  row'.ref = b \/ Lost(b)' \/
               \E e \in Ops : op'[e].box = b /\ op'[e].phase \in {"booted", "failed"}
    BY <1>2
  <1> QED BY <1>1, <1>2 DEF NoStrayBox

\* An operation that gives up leaves the invariant as it was.
LEMMA KeepEnds ==
    ASSUME IInv, TypeOK', NEW c \in Ops, KeepRow, StepOf(c), box' = box, lost \subseteq lost',
           AtRest(op'[c]), op'[c].reset \in {0, op[c].reset},
           op[c].phase \in {"booted", "failed"} => \A b \in Boxes : b = op[c].box => Lost(b)'
    PROVE  IInv'
  <1>0. /\ clock \in Nat /\ TypeOK /\ NoStrayBox /\ row' = row /\ row.ref \in Boxes \cup {NoBox}
        /\ \A d \in Ops \ {c} : op'[d] = op[d]
    BY DEF IInv, TypeOK, RowType, KeepRow, StepOf
  <1>1. NoStrayBox'
    BY <1>0, StrayKept, BoxAssumption
  <1>2. Owns(c)' /\ Local(c)'
    BY Rested
  <1>3. op'[c].phase \notin Claimed /\ op'[c].claim = 0 /\ op'[c].mark = 0
    BY DEF AtRest, Claimed, Booting, Sleeping, Replacing
  <1>4. Forgets
    BY DEF Forgets
  <1> QED BY <1>0, <1>1, <1>2, <1>3, <1>4, Keep

\* So does one that ends with a last update of the row.
LEMMA WroteEnds ==
    ASSUME IInv, TypeOK', NEW c \in Ops, MayWrite(c), StepOf(c), box' = box, lost' = lost,
           clock' = clock + 1, row'.stamp = clock + 1, row'.old = FALSE,
           AtRest(op'[c]), op'[c].reset \in {0, op[c].reset},
           row'.ref = row.ref \/ row.ref = NoBox \/ box[row.ref] = "gone",
           op[c].phase \in {"booted", "failed"} => row'.ref = op[c].box
    PROVE  IInv'
  <1>0. /\ clock \in Nat /\ TypeOK /\ NoStrayBox /\ row.ref \in Boxes \cup {NoBox}
        /\ \A d \in Ops \ {c} : op'[d] = op[d]
    BY DEF IInv, TypeOK, RowType, StepOf
  <1>1. NoStrayBox'
    BY <1>0, StrayKept, BoxAssumption
  <1>2. Owns(c)' /\ Local(c)'
    BY Rested
  <1>3. op'[c].phase \notin Claimed /\ op'[c].claim = 0 /\ op'[c].mark = 0
    BY DEF AtRest, Claimed, Booting, Sleeping, Replacing
  <1>4. op'[c].claim \in {0, clock + 1} /\ op'[c].mark <= clock
    BY <1>0, <1>3
  <1>5. op'[c].phase \in Claimed => op'[c].claim = clock + 1
    BY <1>3
  <1> QED BY <1>1, <1>2, <1>4, <1>5, Wrote, Zenon

\* What an update of the row sets.
LEMMA WriteFields ==
    ASSUME TypeOK, NEW s, NEW b, NEW p, Write(s, b, p)
    PROVE  /\ clock' = clock + 1 /\ row'.stamp = clock + 1 /\ row'.old = FALSE
           /\ row'.state = s /\ row'.ref = b /\ row'.prov = p
  BY DEF Write

\* The run of an operation is its own.
LEMMA OwnRun ==
    ASSUME TypeOK, NEW c \in Ops, NEW s, RunOf(c, s)
    PROVE  (\A d \in Runners \ {c} : run'[d] = run[d]) /\ (c \in Runners => run'[c] = s)
  BY DEF RunOf, TypeOK

\* A claim that is old or that a run waits behind belongs to no operation that is not slow,
\* when no other run has a live lease.
LEMMA OldIsAbandoned ==
    ASSUME IInv, NEW c \in Ops, op[c].phase \notin Claimed, row.state \in InTransit, row.old,
           row.state = "booting" => ~hasLiveForeignRunLease(c)
    PROVE  \A d \in Timely : op[d].phase \notin Claimed
  <1> SUFFICES ASSUME NEW d \in Timely, op[d].phase \in Claimed PROVE FALSE
    OBVIOUS
  <1>1. d \in Ops /\ Owns(d) /\ Kinds(d) /\ d # c /\ OldClaim
    BY DEF IInv, Timely, ClaimsHold
  <1>2. CASE d \in Runners
    <2>1. op[d].phase \in Booting
      BY <1>1, <1>2, KindsAssumption DEF Kinds, Claimed
    <2>2. run[d] = "live" /\ row.state = "booting"
      BY <1>1, <1>2, <2>1 DEF Kinds, Owns, Timely
    <2> QED BY <1>1, <1>2, <2>2 DEF hasLiveForeignRunLease
  <1>3. CASE d \notin Runners
    <2>1. op[d].claim # row.stamp
      BY <1>1, <1>3 DEF OldClaim
    <2> QED BY <1>1, <2>1 DEF Owns
  <1> QED BY <1>2, <1>3

\* provisionComputer starts.
LEMMA ProvisionKeeps ==
    ASSUME IInv, TypeOK', NEW c \in Ops, ProvisionRead(c) \/ ProvisionRefused(c)
    PROVE  IInv'
  <1>0. /\ TypeOK /\ NoStrayBox /\ op \in [Ops -> OpType] /\ op[c] \in OpType /\ row \in RowType
        /\ clock \in Nat /\ row.stamp <= clock /\ Carries(c)
    BY DEF IInv, TypeOK, Stamps
  <1>1. CASE ProvisionRefused(c)
    <2>1. AtRest(op'[c]) /\ op'[c].reset = op[c].reset /\ StepOf(c)
      BY <1>0, <1>1, Ends, OwnRun DEF ProvisionRefused, StepOf
    <2> QED BY <1>1, <2>1, KeepEnds DEF ProvisionRefused
  <1>2. CASE ProvisionRead(c)
    <2>1. PICK p \in {"wait", "seen"}, k \in Nat :
             /\ p = "wait" => k = row.stamp /\ row.state \in InTransit
             /\ p = "seen" => row.state \in Resting /\ k = 0
             /\ op' = [op EXCEPT ![c] =
                  [IdleOp EXCEPT !.phase = p, !.state = row.state, !.ref = row.ref,
                                 !.stale = row.old, !.mark = k, !.reset = op[c].reset]]
      <3>1. CASE row.state \in InTransit
        BY <1>0, <1>2, <3>1 DEF ProvisionRead, RowType
      <3>2. CASE row.state \notin InTransit
        <4>1. row.state \in Resting
          BY <1>0, <3>2 DEF RowType
        <4> QED BY <1>2, <3>2, <4>1 DEF ProvisionRead
      <3> QED BY <3>1, <3>2
    <2>2. /\ op'[c].phase = p /\ op'[c].state = row.state /\ op'[c].ref = row.ref
          /\ op'[c].stale = row.old /\ op'[c].mark = k /\ op'[c].reset = op[c].reset
          /\ op'[c].claim = 0 /\ op'[c].box = NoBox /\ op'[c].fresh = FALSE /\ op'[c].kept = FALSE
      BY <1>0, <2>1 DEF IdleOp
    <2>3. /\ \A d \in Ops \ {c} : op'[d] = op[d]
          /\ row' = row /\ clock' = clock /\ box' = box /\ lost' = lost
      BY <1>0, <1>2, <2>1 DEF ProvisionRead, KeepRow
    <2>4. StepOf(c) /\ (c \in Runners => run'[c] = "live")
      BY <1>0, <1>2, <2>3, OwnRun DEF ProvisionRead, StepOf
    <2>5. op'[c].phase \notin Claimed /\ op[c].phase \notin Claimed
      BY <1>2, <2>2 DEF ProvisionRead, Claimed, Booting, Sleeping, Replacing
    <2>6. NoStrayBox'
      <3>1. op[c].phase \notin {"booted", "failed"}
        BY <1>2 DEF ProvisionRead
      <3> QED BY <1>0, <2>3, <3>1, StrayKept
    <2>7. Owns(c)' /\ Kinds(c)'
      BY <2>2, <2>4, <2>5 DEF Owns, Kinds, Claimed, Booting, Sleeping, Replacing
    <2>8. Abandoned(c)'
      <3> SUFFICES ASSUME Chases(c)', row.state \in InTransit, row.stamp = op'[c].mark
                   PROVE  \A d \in Timely : op'[d].phase \notin Claimed
        BY <2>2, <2>3 DEF Abandoned, Timely
      <3>1. row.state = "booting" \/ row.old
        BY <2>1, <2>2 DEF Chases, Resting, InTransit
      <3>2. row.old /\ (row.state = "booting" => ~hasLiveForeignRunLease(c))
        BY <1>2, <3>1 DEF ProvisionRead, FreshBoot
      <3>3. \A d \in Timely : op[d].phase \notin Claimed
        BY <2>5, <3>2, OldIsAbandoned
      <3> QED BY <2>3, <2>5, <3>3 DEF Timely
    <2>9. Carries(c)' /\ Remembers(c)'
      BY <2>2, <2>3 DEF Carries, Remembers, Lost
    <2>10. op'[c].claim \in {0, op[c].claim} /\ op'[c].reset \in {0, op[c].reset, op[c].claim}
           /\ op'[c].mark <= clock
      BY <1>0, <2>1, <2>2
    <2>11. Forgets /\ KeepRow
      BY <2>3 DEF Forgets, KeepRow
    <2> QED BY <2>4, <2>5, <2>6, <2>7, <2>8, <2>9, <2>10, <2>11, Keep DEF Local
  <1> QED BY <1>1, <1>2

\* A boot that waited goes on with the row as it is now, or gives up.
LEMMA WaitKeeps ==
    ASSUME IInv, TypeOK', NEW c \in Ops, WaitForComputerReady(c)
    PROVE  IInv'
  <1>0. /\ TypeOK /\ NoStrayBox /\ op \in [Ops -> OpType] /\ op[c] \in OpType /\ row \in RowType
        /\ clock \in Nat /\ Stamps /\ Carries(c) /\ Kinds(c) /\ Abandoned(c)
        /\ op[c].phase = "wait" /\ op[c].mark <= clock
    BY DEF IInv, TypeOK, Stamps, WaitForComputerReady
  <1>1. CASE ~MayClaim(c)
    <2>1. AtRest(op'[c]) /\ op'[c].reset = op[c].reset /\ StepOf(c)
      BY <1>0, <1>1, Ends, OwnRun DEF WaitForComputerReady, StepOf
    <2>2. KeepRow /\ box' = box /\ lost' = lost
      BY DEF WaitForComputerReady
    <2> QED BY <1>0, <2>1, <2>2, KeepEnds
  <1>2. CASE MayClaim(c)
    <2>1. op' = [op EXCEPT ![c].phase = "seen", ![c].state = row.state, ![c].ref = row.ref]
      BY <1>2 DEF WaitForComputerReady
    <2>2. /\ op'[c].phase = "seen" /\ op'[c].state = row.state /\ op'[c].ref = row.ref
          /\ op'[c].mark = op[c].mark /\ op'[c].reset = op[c].reset
          /\ op'[c].claim = op[c].claim /\ op'[c].box = op[c].box /\ op'[c].fresh = op[c].fresh
          /\ op'[c].kept = op[c].kept
      BY <1>0, <2>1 DEF OpType
    <2>3. /\ \A d \in Ops \ {c} : op'[d] = op[d]
          /\ row' = row /\ clock' = clock /\ box' = box /\ lost' = lost /\ run' = run
      BY <1>0, <1>2, <2>1 DEF WaitForComputerReady, KeepRow
    <2>4. op'[c].phase \notin Claimed /\ op[c].phase \notin Claimed
      BY <1>0, <2>2 DEF Claimed, Booting, Sleeping, Replacing
    <2>5. NoStrayBox'
      BY <1>0, <2>3, StrayKept
    <2>6. Owns(c)' /\ Kinds(c)'
      BY <1>0, <2>2, <2>3, <2>4 DEF Owns, Kinds, Claimed, Booting, Sleeping, Replacing
    <2>7. Abandoned(c)'
      <3> SUFFICES ASSUME Chases(c)', row.state \in InTransit, row.stamp = op[c].mark
                   PROVE  \A d \in Timely : op'[d].phase \notin Claimed
        BY <2>2, <2>3 DEF Abandoned, Timely
      <3>1. op[c].state = "booting" \/ op[c].stale
        BY <1>2 DEF MayClaim, Resting, InTransit
      <3>2. \A d \in Timely : op[d].phase \notin Claimed
        BY <1>0, <3>1 DEF Abandoned, Chases
      <3> QED BY <2>3, <2>4, <3>2 DEF Timely
    <2>8. Carries(c)' /\ Remembers(c)'
      BY <1>0, <2>2, <2>3 DEF Carries, Remembers, Lost
    <2>9. Forgets /\ KeepRow /\ StepOf(c)
      BY <2>3 DEF Forgets, KeepRow, StepOf
    <2> QED BY <1>0, <2>2, <2>4, <2>5, <2>6, <2>7, <2>8, <2>9, Keep DEF Local
  <1> QED BY <1>1, <1>2

\* A boot claims the row, or finds that it changed.
LEMMA ClaimKeeps ==
    ASSUME IInv, TypeOK', NEW c \in Ops, ClaimBoot(c)
    PROVE  IInv'
  <1>0. /\ TypeOK /\ NoStrayBox /\ op \in [Ops -> OpType] /\ op[c] \in OpType /\ row \in RowType
        /\ clock \in Nat /\ Stamps /\ Carries(c) /\ Kinds(c) /\ Abandoned(c)
        /\ op[c].phase = "seen" /\ op[c].mark <= clock
    BY DEF IInv, TypeOK, Stamps, ClaimBoot
  <1>1. CASE ~ClaimWhere(c)
    <2>1. AtRest(op'[c]) /\ op'[c].reset = op[c].reset /\ StepOf(c)
      BY <1>0, <1>1, Ends, OwnRun DEF ClaimBoot, StepOf
    <2>2. KeepRow /\ box' = box /\ lost' = lost
      BY <1>1 DEF ClaimBoot
    <2> QED BY <1>0, <2>1, <2>2, KeepEnds
  <1>2. CASE ClaimWhere(c)
    <2>1. PICK a : op' = [op EXCEPT ![c].phase = "claimed", ![c].claim = clock + 1, ![c].recon = a]
      BY <1>2, Zenon DEF ClaimBoot
    <2>2. /\ op'[c].phase = "claimed" /\ op'[c].ref = op[c].ref
          /\ op'[c].mark = op[c].mark /\ op'[c].reset = op[c].reset
          /\ op'[c].claim = clock + 1 /\ op'[c].box = op[c].box /\ op'[c].fresh = op[c].fresh
          /\ op'[c].kept = op[c].kept
      BY <1>0, <2>1 DEF OpType
    <2>3. /\ \A d \in Ops \ {c} : op'[d] = op[d]
          /\ box' = box /\ lost' = lost /\ run' = run
      BY <1>0, <1>2, <2>1 DEF ClaimBoot
    <2>4. /\ clock' = clock + 1 /\ row'.stamp = clock + 1 /\ row'.old = FALSE
          /\ row'.state = "booting" /\ row'.ref = row.ref /\ row'.prov = clock + 1
      BY <1>0, <1>2, WriteFields DEF ClaimBoot
    <2>5. MayWrite(c)
      <3>1. row.state \in InTransit => Chases(c) /\ row.stamp = op[c].mark
        BY <1>0, <1>2 DEF ClaimWhere, Chases
      <3> QED BY <1>0, <3>1 DEF MayWrite, RowType
    <2>6. row.ref = op[c].ref
      <3>1. CASE row.state = "booting"
        BY <1>0, <1>2, <3>1 DEF ClaimWhere, Abandoned, Chases, InTransit
      <3>2. CASE row.state # "booting"
        BY <1>2, <3>2 DEF ClaimWhere
      <3> QED BY <3>1, <3>2
    <2>7. NoStrayBox'
      BY <1>0, <2>3, <2>4, StrayKept
    <2>8. Owns(c)' /\ Kinds(c)'
      BY <1>0, <2>2, <2>3, <2>4, <2>6 DEF Owns, Kinds, Claimed, Booting, Sleeping, Replacing
    <2>9. Abandoned(c)'
      BY <2>2 DEF Abandoned, Chases
    <2>10. Carries(c)' /\ Remembers(c)'
      BY <1>0, <2>2, <2>3, <2>4, <2>6 DEF Carries, Remembers, Lost
    <2>11. StepOf(c)
      BY <2>3 DEF StepOf
    <2> QED BY <1>0, <2>2, <2>3, <2>4, <2>5, <2>7, <2>8, <2>9, <2>10, <2>11, Wrote DEF Local
  <1> QED BY <1>1, <1>2

\* The provider makes or finds a sandbox, or a boot fails.
LEMMA ProviderKeeps ==
    ASSUME IInv, TypeOK', NEW c \in Ops, Provision(c) \/ PrepareFails(c)
    PROVE  IInv'
  <1>0. /\ TypeOK /\ NoStrayBox /\ op \in [Ops -> OpType] /\ op[c] \in OpType /\ row \in RowType
        /\ clock \in Nat /\ Stamps /\ Carries(c) /\ Kinds(c) /\ Remembers(c)
        /\ op[c].phase \in {"claimed", "booted"} /\ op[c].mark <= clock
        /\ (c \in Timely => Owns(c))
        /\ box \in [Boxes -> {"absent", "up", "stopped", "gone"}]
        /\ op[c].ref \in Boxes \cup {NoBox} /\ op[c].box \in Boxes \cup {NoBox}
    BY DEF IInv, TypeOK, Stamps, Provision, PrepareFails, ClaimsHold, OpType
  <1>1. ASSUME NEW p \in {"booted", "failed"}, NEW x \in Boxes \cup {NoBox}, NEW f \in BOOLEAN,
               op'[c].phase = p, op'[c].box = x, op'[c].fresh = f,
               op'[c].ref = op[c].ref, op'[c].mark = op[c].mark, op'[c].reset = op[c].reset,
               op'[c].claim = op[c].claim, op'[c].kept = op[c].kept,
               \A d \in Ops \ {c} : op'[d] = op[d],
               Forgets, NoStrayBox', lost' = lost, Carries(c)'
        PROVE  IInv'
    <2>1. row' = row /\ clock' = clock /\ run' = run /\ KeepRow
      BY DEF Provision, PrepareFails, KeepRow
    <2>2. op'[c].phase \in Booting /\ op[c].phase \in Booting
      BY <1>0, <1>1 DEF Booting
    <2>3. op'[c].phase \in Claimed /\ op[c].phase \in Claimed
      BY <2>2 DEF Claimed
    <2>4. (c \in Timely => Owns(c)') /\ Kinds(c)'
      <3>1. op'[c].phase \notin Sleeping /\ op'[c].phase \notin Replacing
            /\ op'[c].phase \notin {"drowsy", "planned"}
        BY <1>1 DEF Sleeping, Replacing
      <3> QED BY <1>0, <1>1, <2>1, <2>2, <2>3, <3>1 DEF Owns, Kinds
    <2>5. Abandoned(c)'
      BY <1>1 DEF Abandoned, Chases
    <2>6. Remembers(c)'
      BY <1>0, <1>1, <2>1 DEF Remembers, Forgets, Lost
    <2>7. StepOf(c)
      BY <1>1, <2>1 DEF StepOf
    <2> QED BY <1>0, <1>1, <2>1, <2>3, <2>4, <2>5, <2>6, <2>7, Keep DEF Local
  <1>2. CASE op' = [op EXCEPT ![c].phase = "failed"] /\ box' = box /\ lost' = lost
    <2>1. /\ op'[c].phase = "failed" /\ op'[c].box = op[c].box /\ op'[c].fresh = op[c].fresh
          /\ op'[c].ref = op[c].ref /\ op'[c].mark = op[c].mark /\ op'[c].reset = op[c].reset
          /\ op'[c].claim = op[c].claim /\ op'[c].kept = op[c].kept /\ op[c].fresh \in BOOLEAN
          /\ \A d \in Ops \ {c} : op'[d] = op[d]
      BY <1>0, <1>2 DEF OpType
    <2>2. row' = row /\ Forgets
      BY <1>2 DEF Provision, PrepareFails, KeepRow, Forgets
    <2>3. NoStrayBox'
      BY <1>0, <1>2, <2>1, <2>2, StrayKept
    <2>4. Carries(c)'
      BY <1>0, <1>2, <2>1 DEF Carries
    <2> QED BY <1>0, <1>1, <1>2, <2>1, <2>2, <2>3, <2>4
  <1>3. CASE /\ Provision(c) /\ op[c].ref # NoBox /\ box[op[c].ref] \in {"up", "stopped"}
             /\ box' = [box EXCEPT ![op[c].ref] = "up"]
             /\ op' = [op EXCEPT ![c].phase = "booted", ![c].box = op[c].ref]
    <2>0. op[c].phase = "claimed" /\ op[c].box = NoBox /\ ~op[c].fresh
      BY <1>0, <1>3 DEF Provision, Carries
    <2>1. /\ op'[c].phase = "booted" /\ op'[c].box = op[c].ref /\ op'[c].fresh = op[c].fresh
          /\ op'[c].ref = op[c].ref /\ op'[c].mark = op[c].mark /\ op'[c].reset = op[c].reset
          /\ op'[c].claim = op[c].claim /\ op'[c].kept = op[c].kept /\ op[c].fresh \in BOOLEAN
          /\ \A d \in Ops \ {c} : op'[d] = op[d]
      BY <1>0, <1>3 DEF OpType
    <2>2. row' = row /\ lost' = lost
      BY <1>3 DEF Provision, KeepRow
    <2>3. Forgets
      BY <1>0, <1>3, <2>2 DEF Forgets
    <2>4. NoStrayBox'
      <3> SUFFICES ASSUME NEW b \in Boxes, box'[b] = "up"
                   PROVE  row'.ref = b \/ Lost(b)' \/
                          \E d \in Ops : op'[d].box = b /\ op'[d].phase \in {"booted", "failed"}
        BY DEF NoStrayBox
      <3>1. CASE b = op[c].ref
        BY <2>1, <3>1
      <3>2. CASE b # op[c].ref
        <4>1. box[b] = "up"
          BY <1>0, <1>3, <3>2
        <4>2. row.ref = b \/ Lost(b) \/
                 \E d \in Ops : op[d].box = b /\ op[d].phase \in {"booted", "failed"}
          BY <1>0, <4>1 DEF NoStrayBox
        <4>3. \A d \in Ops : op[d].phase \in {"booted", "failed"} => d # c
          BY <2>0
        <4> QED BY <2>1, <2>2, <4>2, <4>3 DEF Lost
      <3> QED BY <3>1, <3>2
    <2>5. Carries(c)'
      BY <1>0, <1>3, <2>0, <2>1 DEF Carries
    <2> QED BY <1>0, <1>1, <2>1, <2>2, <2>3, <2>4, <2>5
  <1>4. ASSUME NEW b \in Boxes, Provision(c), op[c].ref # NoBox => box[op[c].ref] = "gone",
               box[b] = "absent", box' = [box EXCEPT ![b] = "up"],
               op' = [op EXCEPT ![c].phase = "booted", ![c].box = b, ![c].fresh = TRUE]
        PROVE  IInv'
    <2>0. op[c].phase = "claimed" /\ op[c].box = NoBox
      BY <1>0, <1>4 DEF Provision, Carries
    <2>1. /\ op'[c].phase = "booted" /\ op'[c].box = b /\ op'[c].fresh = TRUE
          /\ op'[c].ref = op[c].ref /\ op'[c].mark = op[c].mark /\ op'[c].reset = op[c].reset
          /\ op'[c].claim = op[c].claim /\ op'[c].kept = op[c].kept
          /\ \A d \in Ops \ {c} : op'[d] = op[d]
      BY <1>0, <1>4 DEF OpType
    <2>2. row' = row /\ lost' = lost
      BY <1>4 DEF Provision, KeepRow
    <2>3. Forgets
      BY <1>0, <1>4, <2>2 DEF Forgets
    <2>4. NoStrayBox'
      <3> SUFFICES ASSUME NEW x \in Boxes, box'[x] = "up"
                   PROVE  row'.ref = x \/ Lost(x)' \/
                          \E d \in Ops : op'[d].box = x /\ op'[d].phase \in {"booted", "failed"}
        BY DEF NoStrayBox
      <3>1. CASE x = b
        BY <2>1, <3>1
      <3>2. CASE x # b
        <4>1. box[x] = "up"
          BY <1>0, <1>4, <3>2
        <4>2. row.ref = x \/ Lost(x) \/
                 \E d \in Ops : op[d].box = x /\ op[d].phase \in {"booted", "failed"}
          BY <1>0, <4>1 DEF NoStrayBox
        <4>3. \A d \in Ops : op[d].phase \in {"booted", "failed"} => d # c
          BY <2>0
        <4> QED BY <2>1, <2>2, <4>2, <4>3 DEF Lost
      <3> QED BY <3>1, <3>2
    <2>5. Carries(c)'
      BY <1>0, <1>4, <2>0, <2>1, BoxAssumption DEF Carries
    <2> QED BY <1>0, <1>1, <2>1, <2>2, <2>3, <2>4, <2>5
  <1>5. CASE Provision(c)
    BY <1>2, <1>3, <1>4, <1>5 DEF Provision
  <1>6. CASE PrepareFails(c)
    BY <1>2, <1>6 DEF PrepareFails
  <1> QED BY <1>5, <1>6

\* A boot ends: with a running computer, or a failure to clean up after.
LEMMA ActivateKeeps ==
    ASSUME IInv, TypeOK', NEW c \in Ops, Activate(c)
    PROVE  IInv'
  <1>0. /\ TypeOK /\ NoStrayBox /\ op \in [Ops -> OpType] /\ op[c] \in OpType /\ row \in RowType
        /\ clock \in Nat /\ Stamps /\ Carries(c) /\ Kinds(c) /\ Remembers(c)
        /\ op[c].phase = "booted" /\ op[c].mark <= clock /\ (c \in Timely => Owns(c))
        /\ box' = box /\ lost' = lost /\ run' = run
    BY DEF IInv, TypeOK, Stamps, Activate, ClaimsHold
  <1>1. CASE OwnsBoot(c)
    <2>1. /\ AtRest(op'[c]) /\ op'[c].reset = 0
          /\ \A d \in Ops \ {c} : op'[d] = op[d]
      <3>1. CASE c \in Runners
        BY <1>0, <1>1, <3>1, Ends DEF Activate
      <3>2. CASE c \notin Runners
        BY <1>0, <1>1, <3>2, Ends DEF Activate
      <3> QED BY <3>1, <3>2
    <2>2. /\ clock' = clock + 1 /\ row'.stamp = clock + 1 /\ row'.old = FALSE
          /\ row'.ref = op[c].box
      BY <1>0, <1>1, WriteFields DEF Activate
    <2>3. row'.ref = row.ref \/ row.ref = NoBox \/ box[row.ref] = "gone"
      BY <1>0, <1>1, <2>2 DEF Carries, OwnsBoot
    <2>4. MayWrite(c)
      BY <1>0, <1>1 DEF MayWrite, Booting
    <2>5. StepOf(c)
      BY <1>0, <2>1 DEF StepOf
    <2> QED BY <1>0, <2>1, <2>2, <2>3, <2>4, <2>5, WroteEnds
  <1>2. CASE ~OwnsBoot(c)
    <2>0. c \notin Timely
      BY <1>0, <1>2 DEF Owns, OwnsBoot, Booting
    <2>1. op' = [op EXCEPT ![c].phase = "failed", ![c].busy = TRUE] /\ KeepRow
      BY <1>2 DEF Activate
    <2>2. /\ op'[c].phase = "failed" /\ op'[c].box = op[c].box /\ op'[c].fresh = op[c].fresh
          /\ op'[c].ref = op[c].ref /\ op'[c].mark = op[c].mark /\ op'[c].reset = op[c].reset
          /\ op'[c].claim = op[c].claim /\ op'[c].kept = op[c].kept
          /\ \A d \in Ops \ {c} : op'[d] = op[d]
      BY <1>0, <2>1 DEF OpType
    <2>3. NoStrayBox'
      BY <1>0, <2>1, <2>2, StrayKept DEF KeepRow
    <2>4. Kinds(c)' /\ Abandoned(c)'
      BY <1>0, <2>2 DEF Kinds, Abandoned, Chases, Booting, Sleeping, Replacing
    <2>5. Carries(c)' /\ Remembers(c)'
      BY <1>0, <2>1, <2>2 DEF Carries, Remembers, KeepRow, Lost
    <2>6. op[c].phase \in Claimed /\ StepOf(c) /\ Forgets
      BY <1>0, <2>2 DEF Claimed, Booting, StepOf, Forgets
    <2> QED BY <1>0, <2>0, <2>1, <2>2, <2>3, <2>4, <2>5, <2>6, Keep DEF Local
  <1> QED BY <1>1, <1>2

\* A failed boot removes what it started, or what it cannot remove is lost.
LEMMA RollbackKeeps ==
    ASSUME IInv, TypeOK', NEW c \in Ops, Rollback(c)
    PROVE  IInv'
  <1>0. /\ TypeOK /\ NoStrayBox /\ op \in [Ops -> OpType] /\ op[c] \in OpType /\ row \in RowType
        /\ clock \in Nat /\ Stamps /\ Carries(c) /\ Kinds(c) /\ Remembers(c)
        /\ op[c].phase = "failed" /\ op[c].mark <= clock /\ (c \in Timely => Owns(c))
        /\ KeepRow /\ row' = row /\ clock' = clock /\ run' = run
        /\ box \in [Boxes -> {"absent", "up", "stopped", "gone"}]
        /\ op[c].box \in Boxes \cup {NoBox} /\ op[c].ref \in Boxes \cup {NoBox}
    BY DEF IInv, TypeOK, Stamps, Rollback, ClaimsHold, KeepRow, OpType
  <1>1. /\ op'[c].phase = "record" /\ op'[c].box = op[c].box /\ op'[c].fresh = op[c].fresh
        /\ op'[c].ref = op[c].ref /\ op'[c].mark = op[c].mark /\ op'[c].reset = op[c].reset
        /\ op'[c].claim = op[c].claim /\ (op'[c].kept => op[c].kept \/ RollsBack(c))
        /\ \A d \in Ops \ {c} : op'[d] = op[d]
    <2>1. CASE op' = [op EXCEPT ![c].phase = "record"]
      BY <1>0, <2>1 DEF OpType
    <2>2. CASE RollsBack(c) /\ op' = [op EXCEPT ![c].phase = "record", ![c].kept = TRUE]
      BY <1>0, <2>2 DEF OpType
    <2> QED BY <2>1, <2>2 DEF Rollback
  <1>2. Forgets /\ \A b \in Boxes : box'[b] = "up" => box[b] = "up"
    <2>1. CASE box' = box
      BY <2>1 DEF Rollback, Forgets
    <2>2. ASSUME NEW s \in {"gone", "stopped"}, lost' = lost,
                 box' = [box EXCEPT ![op[c].box] = IF @ = "gone" THEN @ ELSE s]
          PROVE  Forgets /\ \A b \in Boxes : box'[b] = "up" => box[b] = "up"
      BY <1>0, <2>2 DEF Forgets
    <2> QED BY <2>1, <2>2 DEF Rollback
  <1>3. ASSUME NEW k \in Boxes, k = op[c].box, box'[k] = "up"
        PROVE  Lost(k)' \/ row'.ref = k
    <2>1. CASE RollsBack(c)
      <3>1. ASSUME NEW s \in {"gone", "stopped"},
                   box' = [box EXCEPT ![op[c].box] = IF @ = "gone" THEN @ ELSE s]
            PROVE  FALSE
        BY <1>0, <1>3, <3>1
      <3>2. lost' = lost \cup {<<op[c].box, "refused">>} => Lost(k)'
        BY <1>3 DEF Lost, Causes
      <3> QED BY <2>1, <3>1, <3>2 DEF Rollback
    <2>2. CASE ~RollsBack(c)
      <3>1. ~op[c].fresh
        BY <1>3, <2>2, BoxAssumption DEF RollsBack
      <3>2. op[c].box = op[c].ref /\ op[c].ref # NoBox /\ box' = box /\ lost' = lost
        BY <1>0, <1>3, <2>2, <3>1, BoxAssumption DEF Carries, Rollback
      <3> QED BY <1>0, <1>3, <3>2 DEF Remembers, Lost
    <2> QED BY <2>1, <2>2
  <1>4. NoStrayBox'
    BY <1>0, <1>1, <1>2, <1>3, StrayKept DEF Forgets
  <1>5. (c \in Timely => Owns(c)') /\ Kinds(c)' /\ Abandoned(c)'
    <2>1. (c \in Timely => Owns(c)')
      BY <1>0, <1>1 DEF Owns, Claimed, Booting, Sleeping, Replacing
    <2>2. Kinds(c)' /\ Abandoned(c)'
      BY <1>0, <1>1 DEF Kinds, Abandoned, Chases, Booting, Sleeping, Replacing
    <2> QED BY <2>1, <2>2
  <1>6. Carries(c)' /\ Remembers(c)'
    <2>1. RollsBack(c) => op[c].box # NoBox
      BY DEF RollsBack
    <2>2. Carries(c)'
      BY <1>0, <1>1, <1>2, <2>1 DEF Carries, Forgets
    <2>3. Remembers(c)'
      BY <1>0, <1>1, <1>2 DEF Remembers, Forgets, Lost
    <2> QED BY <2>2, <2>3
  <1>7. op[c].phase \in Claimed /\ StepOf(c)
    BY <1>0, <1>1 DEF Claimed, Booting, StepOf
  <1> QED BY <1>0, <1>1, <1>2, <1>4, <1>5, <1>6, <1>7, Keep DEF Local

\* The failure is recorded under the claim of the boot.
LEMMA RecordKeeps ==
    ASSUME IInv, TypeOK', NEW c \in Ops, RecordFailure(c)
    PROVE  IInv'
  <1>0. /\ TypeOK /\ Carries(c) /\ op[c].phase = "record" /\ box' = box /\ lost' = lost
    BY DEF IInv, RecordFailure
  <1>1. AtRest(op'[c]) /\ op'[c].reset = op[c].reset /\ StepOf(c)
    BY <1>0, Ends, OwnRun DEF RecordFailure, StepOf
  <1>2. CASE OwnsBoot(c)
    <2>1. PICK s : Write(s, IF ~op[c].recon /\ op[c].kept THEN op[c].box ELSE row.ref, 0)
      BY <1>2 DEF RecordFailure
    <2>2. /\ clock' = clock + 1 /\ row'.stamp = clock + 1 /\ row'.old = FALSE
          /\ row'.ref = row.ref \/ (op[c].kept /\ row'.ref = op[c].box)
      BY <1>0, <2>1, WriteFields
    <2>3. row'.ref = row.ref \/ row.ref = NoBox \/ box[row.ref] = "gone"
      BY <1>0, <1>2, <2>2 DEF Carries, OwnsBoot
    <2>4. MayWrite(c)
      BY <1>0, <1>2 DEF MayWrite, Booting
    <2> QED BY <1>0, <1>1, <2>2, <2>3, <2>4, WroteEnds
  <1>3. CASE ~OwnsBoot(c)
    BY <1>0, <1>1, <1>3, KeepEnds DEF RecordFailure
  <1> QED BY <1>2, <1>3

\* A sleep looks for an idle computer and claims it.
LEMMA SleepClaims ==
    ASSUME IInv, TypeOK', NEW c \in Ops, SleepRead(c) \/ SleepClaim(c) \/ RenewSleep(c)
    PROVE  IInv'
  <1>0. /\ TypeOK /\ NoStrayBox /\ op \in [Ops -> OpType] /\ op[c] \in OpType /\ row \in RowType
        /\ clock \in Nat /\ Stamps /\ Carries(c) /\ Kinds(c) /\ Remembers(c)
        /\ op[c].phase \in {"idle", "drowsy", "saving"} /\ op[c].mark <= clock
        /\ row.stamp <= clock /\ box' = box /\ lost' = lost /\ run' = run
    BY DEF IInv, TypeOK, Stamps, SleepRead, SleepClaim, RenewSleep
  <1>1. CASE SleepRead(c)
    <2>1. op' = [op EXCEPT ![c] = [IdleOp EXCEPT !.phase = "drowsy", !.ref = row.ref,
                                                 !.mark = row.stamp]]
          /\ row' = row /\ KeepRow
      BY <1>1 DEF SleepRead, KeepRow
    <2>2. /\ op'[c].phase = "drowsy" /\ op'[c].ref = row.ref /\ op'[c].mark = row.stamp
          /\ op'[c].claim = 0 /\ op'[c].reset = 0 /\ op'[c].box = NoBox
          /\ op'[c].fresh = FALSE /\ op'[c].kept = FALSE
          /\ \A d \in Ops \ {c} : op'[d] = op[d]
      BY <1>0, <2>1 DEF IdleOp
    <2>3. NoStrayBox'
      BY <1>0, <1>1, <2>1, <2>2, StrayKept DEF SleepRead
    <2>4. Owns(c)' /\ Kinds(c)' /\ Abandoned(c)' /\ op'[c].phase \notin Claimed
      BY <1>1, <2>2 DEF Owns, Kinds, Abandoned, Chases, Claimed, Booting, Sleeping, Replacing,
                        SleepRead
    <2>5. Carries(c)' /\ Remembers(c)'
      BY <2>1, <2>2 DEF Carries, Remembers, Lost
    <2>6. StepOf(c) /\ Forgets
      BY <1>0, <2>2 DEF StepOf, Forgets
    <2> QED BY <1>0, <2>1, <2>2, <2>3, <2>4, <2>5, <2>6, Keep DEF Local
  <1>2. ASSUME op'[c].phase = "saving", op'[c].claim = clock + 1, op'[c].ref = op[c].ref,
               op'[c].mark = op[c].mark, op'[c].reset = op[c].reset, op'[c].box = op[c].box,
               op'[c].fresh = op[c].fresh, op'[c].kept = op[c].kept,
               \A d \in Ops \ {c} : op'[d] = op[d],
               Write("suspending", row.ref, row.prov), row.ref = op[c].ref,
               op[c].phase \in {"drowsy", "saving"}, MayWrite(c)
        PROVE  IInv'
    <2>1. /\ clock' = clock + 1 /\ row'.stamp = clock + 1 /\ row'.old = FALSE
          /\ row'.state = "suspending" /\ row'.ref = row.ref
      BY <1>0, <1>2, WriteFields
    <2>2. NoStrayBox'
      BY <1>0, <1>2, <2>1, StrayKept
    <2>3. Owns(c)' /\ Kinds(c)' /\ Abandoned(c)'
      <3>1. Owns(c)'
        BY <1>2, <2>1 DEF Owns, Claimed, Booting, Sleeping, Replacing
      <3>2. Kinds(c)' /\ Abandoned(c)'
        BY <1>0, <1>2 DEF Kinds, Abandoned, Chases, Booting, Sleeping, Replacing
      <3> QED BY <3>1, <3>2
    <2>4. Carries(c)' /\ Remembers(c)'
      BY <1>0, <1>2, <2>1 DEF Carries, Remembers, Lost
    <2>5. StepOf(c)
      BY <1>0, <1>2 DEF StepOf
    <2> QED BY <1>0, <1>2, <2>1, <2>2, <2>3, <2>4, <2>5, Wrote DEF Local
  <1>3. CASE SleepClaim(c)
    <2>1. CASE row.state = "running" /\ row.ref = op[c].ref /\ row.stamp = op[c].mark
      <3>1. op' = [op EXCEPT ![c].phase = "saving", ![c].claim = clock + 1]
        BY <1>3, <2>1 DEF SleepClaim
      <3>2. /\ op'[c].phase = "saving" /\ op'[c].claim = clock + 1 /\ op'[c].ref = op[c].ref
            /\ op'[c].mark = op[c].mark /\ op'[c].reset = op[c].reset /\ op'[c].box = op[c].box
            /\ op'[c].fresh = op[c].fresh /\ op'[c].kept = op[c].kept
            /\ \A d \in Ops \ {c} : op'[d] = op[d]
        BY <1>0, <3>1 DEF OpType
      <3>3. MayWrite(c)
        BY <2>1 DEF MayWrite, Resting
      <3> QED BY <1>2, <1>3, <2>1, <3>2, <3>3 DEF SleepClaim
    <2>2. CASE ~(row.state = "running" /\ row.ref = op[c].ref /\ row.stamp = op[c].mark)
      <3>1. AtRest(op'[c]) /\ op'[c].reset = op[c].reset /\ StepOf(c) /\ KeepRow
        BY <1>0, <1>3, <2>2, Ends DEF SleepClaim, StepOf
      <3> QED BY <1>0, <3>1, KeepEnds
    <2> QED BY <2>1, <2>2
  <1>4. CASE RenewSleep(c)
    <2>1. op' = [op EXCEPT ![c].claim = clock + 1] /\ op[c].phase = "saving"
      BY <1>4 DEF RenewSleep
    <2>2. /\ op'[c].phase = "saving" /\ op'[c].claim = clock + 1 /\ op'[c].ref = op[c].ref
          /\ op'[c].mark = op[c].mark /\ op'[c].reset = op[c].reset /\ op'[c].box = op[c].box
          /\ op'[c].fresh = op[c].fresh /\ op'[c].kept = op[c].kept
          /\ \A d \in Ops \ {c} : op'[d] = op[d]
      BY <1>0, <2>1 DEF OpType
    <2>3. MayWrite(c) /\ row.ref = op[c].ref
      BY <1>4, <2>1 DEF MayWrite, RenewSleep, OwnsSleep, Claimed, Sleeping
    <2> QED BY <1>2, <1>4, <2>1, <2>2, <2>3 DEF RenewSleep
  <1> QED BY <1>1, <1>3, <1>4

\* A sleep that claimed the row saves, stops and records, or wakes the computer again.
LEMMA SleepKeeps ==
    ASSUME IInv, TypeOK', NEW c \in Ops, Sleep(c)
    PROVE  IInv'
  <1>0. /\ TypeOK /\ NoStrayBox /\ op \in [Ops -> OpType] /\ op[c] \in OpType /\ row \in RowType
        /\ clock \in Nat /\ Stamps /\ Carries(c) /\ Kinds(c) /\ Remembers(c)
        /\ op[c].mark <= clock /\ (c \in Timely => Owns(c)) /\ op[c].ref \in Boxes \cup {NoBox}
        /\ box \in [Boxes -> {"absent", "up", "stopped", "gone"}]
    BY DEF IInv, TypeOK, Stamps, ClaimsHold, OpType
  <1>1. CASE SleepClaim(c) \/ RenewSleep(c)
    BY <1>1, SleepClaims
  <1>2. ASSUME NEW p \in {"saved", "stopping", "asleep"}, op' = [op EXCEPT ![c].phase = p],
               op[c].phase \in Sleeping, KeepRow, lost' = lost, run' = run,
               \A b \in Boxes : /\ box[b] = "gone" => box'[b] = "gone"
                                /\ box'[b] = "up" => box[b] = "up"
        PROVE  IInv'
    <2>1. /\ op'[c].phase = p /\ op'[c].claim = op[c].claim /\ op'[c].ref = op[c].ref
          /\ op'[c].mark = op[c].mark /\ op'[c].reset = op[c].reset /\ op'[c].box = op[c].box
          /\ op'[c].fresh = op[c].fresh /\ op'[c].kept = op[c].kept
          /\ \A d \in Ops \ {c} : op'[d] = op[d]
      BY <1>0, <1>2 DEF OpType
    <2>2. row' = row /\ Forgets /\ StepOf(c) /\ op[c].phase \in Claimed
      BY <1>2, <2>1 DEF KeepRow, Forgets, StepOf, Claimed
    <2>3. NoStrayBox'
      BY <1>0, <1>2, <2>1, <2>2, StrayKept DEF Sleeping
    <2>4. (c \in Timely => Owns(c)') /\ Kinds(c)' /\ Abandoned(c)'
      <3>1. (c \in Timely => Owns(c)')
        BY <1>0, <1>2, <2>1, <2>2 DEF Owns, Claimed, Booting, Sleeping, Replacing
      <3>2. Kinds(c)' /\ Abandoned(c)'
        BY <1>0, <1>2, <2>1 DEF Kinds, Abandoned, Chases, Booting, Sleeping, Replacing
      <3> QED BY <3>1, <3>2
    <2>5. Carries(c)' /\ Remembers(c)'
      BY <1>0, <1>2, <2>1, <2>2 DEF Carries, Remembers, Sleeping, Forgets, Lost
    <2> QED BY <1>0, <1>2, <2>1, <2>2, <2>3, <2>4, <2>5, Keep DEF Local
  <1>3. ASSUME Throw(c), op[c].phase \in Sleeping, box' = box, lost' = lost, run' = run,
               KeepRow \/ (OwnsSleep(c) /\ \E s : Write(s, row.ref, row.prov))
        PROVE  IInv'
    <2>1. AtRest(op'[c]) /\ op'[c].reset = op[c].reset /\ StepOf(c)
      BY <1>0, <1>3, Ends DEF StepOf
    <2>2. op[c].phase \notin {"booted", "failed"}
      BY <1>3 DEF Sleeping
    <2>3. CASE KeepRow
      BY <1>0, <1>3, <2>1, <2>2, <2>3, KeepEnds
    <2>4. ASSUME NEW s, OwnsSleep(c), Write(s, row.ref, row.prov) PROVE IInv'
      <3>1. /\ clock' = clock + 1 /\ row'.stamp = clock + 1 /\ row'.old = FALSE
            /\ row'.ref = row.ref
        BY <1>0, <2>4, WriteFields
      <3>2. MayWrite(c)
        BY <1>3, <2>4 DEF MayWrite, OwnsSleep, Claimed
      <3> QED BY <1>0, <1>3, <2>1, <2>2, <3>1, <3>2, WroteEnds
    <2> QED BY <1>3, <2>3, <2>4
  <1>4. CASE Saved(c)
    <2>1. op[c].phase \in Sleeping /\ KeepRow /\ lost' = lost /\ run' = run /\ box' = box
      BY <1>4 DEF Saved, Sleeping
    <2> QED BY <1>2, <1>3, <1>4, <2>1 DEF Saved
  <1>5. CASE WakeAgain(c)
    <2>1. op[c].phase \in Sleeping /\ lost' = lost /\ run' = run /\ box' = box
      BY <1>5 DEF WakeAgain, Sleeping
    <2> QED BY <1>3, <1>5, <2>1 DEF WakeAgain
  <1>6. CASE LastLook(c)
    <2>1. op[c].phase \in Sleeping /\ KeepRow /\ lost' = lost /\ run' = run /\ box' = box
      BY <1>6 DEF LastLook, Sleeping
    <2> QED BY <1>2, <1>6, <2>1 DEF LastLook
  <1>7. CASE StopBox(c)
    <2>1. op[c].phase \in Sleeping /\ KeepRow /\ lost' = lost /\ run' = run
      BY <1>7 DEF StopBox, Sleeping
    <2>2. \A b \in Boxes : /\ box[b] = "gone" => box'[b] = "gone"
                           /\ box'[b] = "up" => box[b] = "up"
      BY <1>0, <1>7 DEF StopBox
    <2> QED BY <1>2, <1>7, <2>1, <2>2 DEF StopBox
  <1>8. CASE Suspend(c)
    <2>1. op[c].phase \in Sleeping /\ lost' = lost /\ run' = run /\ box' = box
      BY <1>8 DEF Suspend, Sleeping
    <2> QED BY <1>3, <1>8, <2>1 DEF Suspend
  <1> QED BY <1>1, <1>4, <1>5, <1>6, <1>7, <1>8 DEF Sleep

\* A replacement plans and claims.
LEMMA ReplaceClaims ==
    ASSUME IInv, TypeOK', NEW c \in Ops, ReplaceRead(c) \/ ReplaceClaim(c)
    PROVE  IInv'
  <1>0. /\ TypeOK /\ NoStrayBox /\ op \in [Ops -> OpType] /\ op[c] \in OpType /\ row \in RowType
        /\ clock \in Nat /\ Stamps /\ Carries(c) /\ Kinds(c) /\ Remembers(c)
        /\ op[c].phase \in {"idle", "planned"} /\ op[c].mark <= clock
        /\ row.stamp <= clock /\ box' = box /\ lost' = lost /\ run' = run
    BY DEF IInv, TypeOK, Stamps, ReplaceRead, ReplaceClaim
  <1>1. CASE ReplaceRead(c)
    <2>1. op' = [op EXCEPT ![c] = [IdleOp EXCEPT !.phase = "planned", !.state = row.state,
                                                 !.ref = row.ref, !.mark = row.stamp]]
          /\ row' = row /\ KeepRow
      BY <1>1 DEF ReplaceRead, KeepRow
    <2>2. /\ op'[c].phase = "planned" /\ op'[c].ref = row.ref /\ op'[c].mark = row.stamp
          /\ op'[c].claim = 0 /\ op'[c].reset = 0 /\ op'[c].box = NoBox
          /\ op'[c].fresh = FALSE /\ op'[c].kept = FALSE
          /\ \A d \in Ops \ {c} : op'[d] = op[d]
      BY <1>0, <2>1 DEF IdleOp
    <2>3. NoStrayBox'
      BY <1>0, <2>1, <2>2, StrayKept
    <2>4. Owns(c)' /\ Kinds(c)' /\ op'[c].phase \notin Claimed /\ op[c].phase \notin Claimed
      BY <1>0, <1>1, <2>2 DEF Owns, Kinds, Claimed, Booting, Sleeping, Replacing, ReplaceRead
    <2>5. Abandoned(c)'
      <3> SUFFICES ASSUME row.state \in InTransit
                   PROVE  \A d \in Timely : op'[d].phase \notin Claimed
        BY <2>1, <2>2 DEF Abandoned, Timely
      <3>1. row.old /\ ~hasLiveForeignRunLease(c)
        BY <1>1 DEF ReplaceRead, findActiveRun, hasLiveForeignRunLease
      <3>2. \A d \in Timely : op[d].phase \notin Claimed
        BY <2>4, <3>1, OldIsAbandoned
      <3> QED BY <2>2, <2>4, <3>2 DEF Timely
    <2>6. Carries(c)' /\ Remembers(c)'
      BY <2>1, <2>2 DEF Carries, Remembers, Lost
    <2>7. StepOf(c) /\ Forgets
      BY <1>0, <2>2 DEF StepOf, Forgets
    <2> QED BY <1>0, <2>1, <2>2, <2>3, <2>4, <2>5, <2>6, <2>7, Keep DEF Local
  <1>2. CASE ReplaceClaim(c)
    <2> DEFINE same == row.state = op[c].state /\ (row.state \in InTransit => row.stamp = op[c].mark)
    <2>1. CASE same
      <3>1. op' = [op EXCEPT ![c].phase = "recheck", ![c].claim = clock + 1]
            /\ Write("suspending", row.ref, row.prov)
        BY <1>2, <2>1 DEF ReplaceClaim
      <3>2. /\ op'[c].phase = "recheck" /\ op'[c].claim = clock + 1 /\ op'[c].ref = op[c].ref
            /\ op'[c].mark = op[c].mark /\ op'[c].reset = op[c].reset /\ op'[c].box = op[c].box
            /\ op'[c].fresh = op[c].fresh /\ op'[c].kept = op[c].kept
            /\ \A d \in Ops \ {c} : op'[d] = op[d]
        BY <1>0, <3>1 DEF OpType
      <3>3. /\ clock' = clock + 1 /\ row'.stamp = clock + 1 /\ row'.old = FALSE
            /\ row'.state = "suspending" /\ row'.ref = row.ref
        BY <1>0, <3>1, WriteFields
      <3>4. MayWrite(c)
        <4>1. row.state \in InTransit => Chases(c) /\ row.stamp = op[c].mark
          BY <1>2, <2>1 DEF Chases, ReplaceClaim
        <4> QED BY <1>0, <4>1 DEF MayWrite, RowType
      <3>5. NoStrayBox'
        BY <1>0, <3>2, <3>3, StrayKept
      <3>6. Owns(c)' /\ Kinds(c)' /\ Abandoned(c)'
        <4>1. Owns(c)'
          BY <3>2, <3>3 DEF Owns, Claimed, Booting, Sleeping, Replacing
        <4>2. Kinds(c)' /\ Abandoned(c)'
          BY <1>0, <1>2, <3>2 DEF Kinds, Abandoned, Chases, Booting, Sleeping, Replacing,
                                  ReplaceClaim
        <4> QED BY <4>1, <4>2
      <3>7. Carries(c)' /\ Remembers(c)'
        BY <1>0, <3>2, <3>3 DEF Carries, Remembers, Lost
      <3>8. StepOf(c)
        BY <1>0, <3>2 DEF StepOf
      <3> QED BY <1>0, <3>2, <3>3, <3>4, <3>5, <3>6, <3>7, <3>8, Wrote DEF Local
    <2>2. CASE ~same
      <3>1. AtRest(op'[c]) /\ op'[c].reset = op[c].reset /\ StepOf(c) /\ KeepRow
        BY <1>0, <1>2, <2>2, Ends DEF ReplaceClaim, StepOf
      <3> QED BY <1>0, <3>1, KeepEnds
    <2> QED BY <2>1, <2>2
  <1> QED BY <1>1, <1>2

\* A replacement gives way to a run, or destroys the old sandbox.
LEMMA ReplaceDestroys ==
    ASSUME IInv, TypeOK', NEW c \in Ops, ReplaceRecheck(c) \/ DestroyOld(c) \/ Caught(c)
    PROVE  IInv'
  <1>0. /\ TypeOK /\ NoStrayBox /\ op \in [Ops -> OpType] /\ op[c] \in OpType /\ row \in RowType
        /\ clock \in Nat /\ Stamps /\ Carries(c) /\ Kinds(c) /\ Remembers(c)
        /\ op[c].phase \in {"recheck", "destroy", "caught"} /\ op[c].mark <= clock
        /\ (c \in Timely => Owns(c)) /\ lost' = lost /\ run' = run
        /\ op[c].ref \in Boxes \cup {NoBox}
        /\ box \in [Boxes -> {"absent", "up", "stopped", "gone"}]
    BY DEF IInv, TypeOK, Stamps, ReplaceRecheck, DestroyOld, Caught, ClaimsHold, OpType
  <1>1. ASSUME NEW p \in {"destroy", "clear"}, KeepRow, op[c].phase \in {"recheck", "destroy"},
               op'[c].phase = p, op'[c].claim = op[c].claim, op'[c].ref = op[c].ref,
               op'[c].mark = op[c].mark, op'[c].reset \in {op[c].reset, op[c].claim},
               op'[c].box = op[c].box, op'[c].fresh = op[c].fresh, op'[c].kept = op[c].kept,
               \A d \in Ops \ {c} : op'[d] = op[d], Forgets,
               \A b \in Boxes : box'[b] = "up" => box[b] = "up"
        PROVE  IInv'
    <2>1. row' = row /\ StepOf(c) /\ op[c].phase \in Claimed
      BY <1>0, <1>1 DEF KeepRow, StepOf, Claimed, Replacing
    <2>2. NoStrayBox'
      BY <1>0, <1>1, <2>1, StrayKept
    <2>3. (c \in Timely => Owns(c)') /\ Kinds(c)' /\ Abandoned(c)'
      <3>1. (c \in Timely => Owns(c)')
        BY <1>0, <1>1, <2>1 DEF Owns, Claimed, Booting, Sleeping, Replacing
      <3>2. Kinds(c)' /\ Abandoned(c)'
        BY <1>0, <1>1 DEF Kinds, Abandoned, Chases, Booting, Sleeping, Replacing
      <3> QED BY <3>1, <3>2
    <2>4. Carries(c)'
      BY <1>0, <1>1 DEF Carries, Forgets
    <2>5. Remembers(c)'
      BY <1>0, <1>1, <2>1 DEF Remembers, Forgets, Lost
    <2> QED BY <1>0, <1>1, <2>1, <2>2, <2>3, <2>4, <2>5, Keep DEF Local
  <1>2. ASSUME AtRest(op'[c]), op'[c].reset \in {0, op[c].reset}, box' = box,
               \A d \in Ops \ {c} : op'[d] = op[d],
               KeepRow \/ (MayWrite(c) /\ \E s : Write(s, row.ref, row.prov))
        PROVE  IInv'
    <2>1. StepOf(c)
      BY <1>0, <1>2 DEF StepOf
    <2>2. CASE KeepRow
      BY <1>0, <1>2, <2>1, <2>2, KeepEnds
    <2>3. ASSUME NEW s, MayWrite(c), Write(s, row.ref, row.prov) PROVE IInv'
      <3>1. /\ clock' = clock + 1 /\ row'.stamp = clock + 1 /\ row'.old = FALSE
            /\ row'.ref = row.ref
        BY <1>0, <2>3, WriteFields
      <3> QED BY <1>0, <1>2, <2>1, <2>3, <3>1, WroteEnds
    <2> QED BY <1>2, <2>2, <2>3
  <1>3. CASE ReplaceRecheck(c)
    <2>1. CASE findActiveRun
      <3>1. op' = [op EXCEPT ![c] = IdleOp] /\ box' = box
        BY <1>3, <2>1 DEF ReplaceRecheck
      <3>2. AtRest(op'[c]) /\ op'[c].reset = 0 /\ \A d \in Ops \ {c} : op'[d] = op[d]
        BY <1>0, <3>1, Ends
      <3>3. OwnsReplace(c) => MayWrite(c)
        BY <1>3 DEF ReplaceRecheck, OwnsReplace, MayWrite, Claimed, Replacing
      <3>4. KeepRow \/ (MayWrite(c) /\ \E s : Write(s, row.ref, row.prov))
        BY <1>3, <2>1, <3>3 DEF ReplaceRecheck
      <3> QED BY <1>2, <3>1, <3>2, <3>4
    <2>2. CASE ~findActiveRun
      <3>1. op' = [op EXCEPT ![c].phase = "destroy", ![c].reset = op[c].claim]
            /\ KeepRow /\ box' = box /\ op[c].phase = "recheck"
        BY <1>3, <2>2 DEF ReplaceRecheck
      <3>2. /\ op'[c].phase = "destroy" /\ op'[c].claim = op[c].claim /\ op'[c].ref = op[c].ref
            /\ op'[c].mark = op[c].mark /\ op'[c].reset = op[c].claim /\ op'[c].box = op[c].box
            /\ op'[c].fresh = op[c].fresh /\ op'[c].kept = op[c].kept
            /\ \A d \in Ops \ {c} : op'[d] = op[d]
        BY <1>0, <3>1 DEF OpType
      <3>3. Forgets
        BY <1>0, <3>1 DEF Forgets
      <3> QED BY <1>1, <3>1, <3>2, <3>3
    <2> QED BY <2>1, <2>2
  <1>4. CASE DestroyOld(c)
    <2>1. CASE /\ box' = box \/ (op[c].ref # NoBox /\ box' = [box EXCEPT ![op[c].ref] = "gone"])
               /\ op' = [op EXCEPT ![c].phase = "clear"]
      <3>1. /\ op'[c].phase = "clear" /\ op'[c].claim = op[c].claim /\ op'[c].ref = op[c].ref
            /\ op'[c].mark = op[c].mark /\ op'[c].reset = op[c].reset /\ op'[c].box = op[c].box
            /\ op'[c].fresh = op[c].fresh /\ op'[c].kept = op[c].kept
            /\ \A d \in Ops \ {c} : op'[d] = op[d]
        BY <1>0, <2>1 DEF OpType
      <3>2. Forgets /\ \A b \in Boxes : box'[b] = "up" => box[b] = "up"
        BY <1>0, <2>1 DEF Forgets
      <3> QED BY <1>1, <1>4, <3>1, <3>2 DEF DestroyOld
    <2>2. CASE Throw(c) /\ box' = box
      <3>1. AtRest(op'[c]) /\ op'[c].reset = op[c].reset /\ \A d \in Ops \ {c} : op'[d] = op[d]
        BY <1>0, <2>2, Ends
      <3> QED BY <1>2, <1>4, <2>2, <3>1 DEF DestroyOld
    <2> QED BY <1>4, <2>1, <2>2 DEF DestroyOld
  <1>5. CASE Caught(c)
    <2>1. op' = [op EXCEPT ![c] = IdleOp] /\ box' = box
      BY <1>5 DEF Caught
    <2>2. AtRest(op'[c]) /\ op'[c].reset = 0 /\ \A d \in Ops \ {c} : op'[d] = op[d]
      BY <1>0, <2>1, Ends
    <2>3. KeepRow \/ (MayWrite(c) /\ \E s : Write(s, row.ref, row.prov))
      BY <1>5 DEF Caught, MayWrite
    <2> QED BY <1>2, <2>1, <2>2, <2>3
  <1> QED BY <1>3, <1>4, <1>5

\* The row forgets its sandbox.
LEMMA ClearKeeps ==
    ASSUME IInv, TypeOK', NEW c \in Ops, ClearRow(c)
    PROVE  IInv'
  <1>0. /\ TypeOK /\ NoStrayBox /\ op \in [Ops -> OpType] /\ op[c] \in OpType /\ row \in RowType
        /\ clock \in Nat /\ Stamps /\ Carries(c) /\ op[c].phase = "clear"
        /\ row.ref \in Boxes \cup {NoBox} /\ box' = box /\ run' = run /\ clock' = clock
    BY DEF IInv, TypeOK, ClearRow, RowType
  <1>1. CASE ~OwnsReplace(c)
    <2>1. AtRest(op'[c]) /\ op'[c].reset = op[c].reset /\ StepOf(c) /\ KeepRow /\ lost' = lost
      BY <1>0, <1>1, Ends DEF ClearRow, StepOf, KeepRow
    <2> QED BY <1>0, <2>1, KeepEnds
  <1>2. CASE OwnsReplace(c)
    <2>1. /\ op' = [op EXCEPT ![c].phase = "restore"]
          /\ row' = [row EXCEPT !.state = "stopped", !.ref = NoBox]
          /\ lost' = lost \cup
                {<<b, IF b = op[c].ref THEN "unreachable" ELSE "forgotten">> :
                    b \in {k \in Boxes : k = row.ref /\ box[k] # "gone"}}
      BY <1>2 DEF ClearRow
    <2>2. /\ op'[c].phase = "restore" /\ op'[c].claim = op[c].claim /\ op'[c].ref = op[c].ref
          /\ op'[c].mark = op[c].mark /\ op'[c].reset = op[c].reset /\ op'[c].box = op[c].box
          /\ op'[c].fresh = op[c].fresh /\ op'[c].kept = op[c].kept
          /\ \A d \in Ops \ {c} : op'[d] = op[d]
      BY <1>0, <2>1 DEF OpType
    <2>3. row'.state = "stopped" /\ row'.ref = NoBox /\ row'.stamp = row.stamp
      BY <1>0, <2>1 DEF RowType
    <2>4. lost \subseteq lost'
          /\ \A b \in Boxes : b = row.ref => box[b] = "gone" \/ Lost(b)'
      BY <1>0, <2>1 DEF Lost, Causes
    <2>5. MayWrite(c)
      BY <1>0, <1>2 DEF MayWrite, OwnsReplace, Claimed, Replacing
    <2>6. \A d \in Timely : op'[d].phase \notin Claimed
      <3>1. op'[c].phase \notin Claimed
        BY <2>2 DEF Claimed, Booting, Sleeping, Replacing
      <3> QED BY <2>2, <2>5, <3>1, NobodyElse DEF Timely
    <2>7. Stamps'
      <3>1. \A d \in Ops : /\ op'[d].claim = op[d].claim /\ op'[d].mark = op[d].mark
                           /\ op'[d].reset = op[d].reset
                           /\ op'[d].phase \in Claimed => op[d].phase \in Claimed
        BY <2>2 DEF Claimed, Booting, Sleeping, Replacing
      <3> QED BY <1>0, <2>3, <3>1 DEF Stamps
    <2>8. OldClaim' /\ ClaimsHold'
      BY <2>3, <2>6 DEF OldClaim, ClaimsHold, Owns, Claimed, InTransit, Timely
    <2>9. ASSUME NEW d \in Ops PROVE Local(d)'
      <3>0. Kinds(d) /\ Carries(d) /\ Remembers(d)
        BY DEF IInv
      <3>1. Kinds(d)'
        BY <1>0, <2>2, <3>0 DEF Kinds, Booting, Sleeping, Replacing
      <3>2. Abandoned(d)'
        BY <2>3 DEF Abandoned, InTransit
      <3>3. Carries(d)'
        BY <1>0, <2>2, <3>0 DEF Carries
      <3>5. op[d].ref \in Boxes \cup {NoBox}
        BY <1>0 DEF TypeOK, OpType
      <3>4. Remembers(d)'
        BY <1>0, <2>2, <2>4, <3>0, <3>5 DEF Remembers, Lost
      <3> QED BY <3>1, <3>2, <3>3, <3>4 DEF Local
    <2>10. NoStrayBox'
      <3>1. \A b \in Boxes : row.ref = b /\ box'[b] = "up" => Lost(b)'
        BY <1>0, <2>4
      <3> QED BY <1>0, <2>2, <2>4, <3>1, StrayKept
    <2> QED BY <2>7, <2>8, <2>9, <2>10 DEF IInv, Local
  <1> QED BY <1>1, <1>2

\* Processes die, runs end, claims grow old, the provider reaps sandboxes.
LEMMA WorldKeeps ==
    ASSUME IInv, TypeOK',
           \/ \E c \in Ops : Crash(c)
           \/ \E c \in Runners : EndRun(c) \/ ExpireRunLease(c)
           \/ \E b \in Boxes : Vanish(b)
           \/ Age
    PROVE  IInv'
  <1>0. /\ TypeOK /\ NoStrayBox /\ op \in [Ops -> OpType] /\ row \in RowType
        /\ Stamps /\ OldClaim /\ ClaimsHold /\ Runners \subseteq Ops
        /\ \A c \in Ops : Kinds(c) /\ Abandoned(c) /\ Carries(c) /\ Remembers(c)
        /\ run \in [Runners -> {"none", "live", "waiting"}]
        /\ box \in [Boxes -> {"absent", "up", "stopped", "gone"}]
    BY DEF IInv, TypeOK, Ops
  <1>1. ASSUME NEW c \in Ops, Crash(c) PROVE IInv'
    <2>1. AtRest(op'[c]) /\ op'[c].reset = 0 /\ StepOf(c)
      BY <1>0, <1>1, Ends DEF Crash, StepOf
    <2>2. KeepRow /\ box' = box /\ lost \subseteq lost'
      BY <1>1 DEF Crash
    <2>3. \A b \in Boxes : b = op[c].box => Lost(b)'
      BY <1>1, BoxAssumption DEF Crash, Lost, Causes
    <2> QED BY <2>1, <2>2, <2>3, KeepEnds
  <1>2. ASSUME NEW c \in Runners, EndRun(c) PROVE IInv'
    <2>1. AtRest(op'[c]) /\ op'[c].reset = 0 /\ StepOf(c)
      BY <1>0, <1>2, Ends DEF EndRun, StepOf
    <2>2. KeepRow /\ box' = box /\ lost' = lost /\ op[c].phase \notin {"booted", "failed"}
      BY <1>2 DEF EndRun
    <2> QED BY <1>0, <2>1, <2>2, KeepEnds
  <1>3. ASSUME NEW c \in Runners, ExpireRunLease(c) PROVE IInv'
    <2>1. /\ row' = row /\ clock' = clock /\ op' = op /\ box' = box /\ lost' = lost
          /\ op[c].phase = "idle" \/ c \in Slow
          /\ \A d \in Runners \ {c} : run'[d] = run[d]
      BY <1>0, <1>3 DEF ExpireRunLease, KeepRow
    <2>2. Stamps' /\ OldClaim' /\ ClaimsHold' /\ NoStrayBox'
      BY <1>0, <2>1 DEF Stamps, OldClaim, ClaimsHold, Owns, NoStrayBox, Lost
    <2>3. ASSUME NEW d \in Ops PROVE Local(d)'
      <3>1. Kinds(d)'
        BY <1>0, <2>1 DEF Kinds, Booting
      <3>2. Abandoned(d)' /\ Carries(d)' /\ Remembers(d)'
        BY <1>0, <2>1 DEF Abandoned, Chases, Carries, Remembers, Lost
      <3> QED BY <3>1, <3>2 DEF Local
    <2> QED BY <2>2, <2>3 DEF IInv, Local
  <1>4. ASSUME NEW b \in Boxes, Vanish(b) PROVE IInv'
    <2>1. /\ row' = row /\ clock' = clock /\ op' = op /\ run' = run /\ lost' = lost
          /\ \A x \in Boxes : /\ box[x] = "gone" => box'[x] = "gone"
                              /\ box'[x] = "up" => box[x] = "up"
      BY <1>0, <1>4 DEF Vanish, KeepRow
    <2>2. Stamps' /\ OldClaim' /\ ClaimsHold'
      BY <1>0, <2>1 DEF Stamps, OldClaim, ClaimsHold, Owns
    <2>3. NoStrayBox'
      BY <1>0, <2>1 DEF NoStrayBox, Lost
    <2>4. ASSUME NEW d \in Ops PROVE Local(d)'
      <3>1. Kinds(d)' /\ Abandoned(d)'
        BY <1>0, <2>1 DEF Kinds, Abandoned, Chases
      <3>2. op[d].ref \in Boxes \cup {NoBox}
        BY <1>0 DEF OpType
      <3>3. Carries(d)' /\ Remembers(d)'
        BY <1>0, <2>1, <3>2 DEF Carries, Remembers, Lost
      <3> QED BY <3>1, <3>3 DEF Local
    <2> QED BY <2>2, <2>3, <2>4 DEF IInv, Local
  <1>5. CASE Age
    <2>1. /\ clock' = clock /\ op' = op /\ run' = run /\ lost' = lost /\ box' = box
          /\ row'.state = row.state /\ row'.ref = row.ref /\ row'.stamp = row.stamp
          /\ row'.prov = row.prov
      BY <1>0, <1>5 DEF Age, RowType
    <2>2. OldClaim'
      <3> SUFFICES ASSUME NEW c \in Timely \ Runners, op[c].phase \in Claimed
                   PROVE  op[c].claim # row.stamp
        BY <2>1 DEF OldClaim
      <3>1. op[c].phase # "idle" /\ c \in Ops \ (Runners \cup Slow)
        BY DEF Claimed, Booting, Sleeping, Replacing, Timely
      <3> QED BY <1>5, <3>1 DEF Age
    <2>3. Stamps' /\ ClaimsHold' /\ NoStrayBox'
      BY <1>0, <2>1 DEF Stamps, ClaimsHold, Owns, NoStrayBox, Lost
    <2>4. ASSUME NEW d \in Ops PROVE Local(d)'
      BY <1>0, <2>1 DEF Local, Kinds, Abandoned, Chases, Carries, Remembers, Lost
    <2> QED BY <2>2, <2>3, <2>4 DEF IInv, Local
  <1> QED BY <1>1, <1>2, <1>3, <1>4, <1>5

-----------------------------------------------------------------------------
(* The results.                                                             *)

\* The invariant holds in the first state.
LEMMA InvInit == Init => IInv
  <1> SUFFICES ASSUME Init PROVE IInv
    OBVIOUS
  <1>1. TypeOK
    BY TypeInit
  <1>2. \A c \in Ops : op[c] = IdleOp
    BY DEF Init
  <1>3. \A c \in Ops : /\ op[c].phase = "idle" /\ op[c].claim = 0 /\ op[c].mark = 0
                       /\ op[c].reset = 0 /\ op[c].ref = NoBox /\ op[c].box = NoBox
                       /\ op[c].fresh = FALSE /\ op[c].kept = FALSE
    BY <1>2 DEF IdleOp
  <1>4. \A c \in Ops : op[c].phase \notin Claimed
    BY <1>3 DEF Claimed, Booting, Sleeping, Replacing
  <1>5. Stamps
    BY <1>3, <1>4 DEF Init, Stamps
  <1>6. OldClaim /\ ClaimsHold
    BY <1>4 DEF Init, OldClaim, ClaimsHold, Owns, Claimed, InTransit, Timely
  <1>7. ASSUME NEW c \in Ops PROVE Kinds(c) /\ Abandoned(c) /\ Carries(c) /\ Remembers(c)
    <2>1. Kinds(c)
      BY <1>3 DEF Kinds, Booting, Sleeping, Replacing
    <2>2. Abandoned(c)
      BY <1>3 DEF Abandoned, Chases
    <2>3. Carries(c) /\ Remembers(c)
      BY <1>3 DEF Carries, Remembers, Lost
    <2> QED BY <2>1, <2>2, <2>3
  <1>8. NoStrayBox
    BY DEF Init, NoStrayBox
  <1> QED BY <1>1, <1>5, <1>6, <1>7, <1>8 DEF IInv

\* Every step keeps it.
LEMMA InvStep == IInv /\ [Next]_vars => IInv'
  <1> SUFFICES ASSUME IInv, [Next]_vars PROVE IInv'
    OBVIOUS
  <1>1. TypeOK'
    BY TypeStep DEF IInv
  <1>2. ASSUME NEW c \in Ops, ProvisionRead(c) \/ ProvisionRefused(c) \/ Boot(c) PROVE IInv'
    BY <1>1, <1>2, ProvisionKeeps, WaitKeeps, ClaimKeeps, ProviderKeeps, ActivateKeeps,
       RollbackKeeps, RecordKeeps DEF Boot
  <1>3. ASSUME NEW c \in Ops, SleepRead(c) \/ Sleep(c) PROVE IInv'
    BY <1>1, <1>3, SleepClaims, SleepKeeps
  <1>4. ASSUME NEW c \in Ops, ReplaceRead(c) \/ Replace(c) PROVE IInv'
    BY <1>1, <1>4, ReplaceClaims, ReplaceDestroys, ClearKeeps DEF Replace
  <1>5. CASE UNCHANGED vars
    <2>1. /\ row' = row /\ clock' = clock /\ box' = box /\ op' = op /\ run' = run /\ lost' = lost
      BY <1>5 DEF vars
    <2>2. Stamps' /\ OldClaim' /\ ClaimsHold' /\ NoStrayBox'
      BY <2>1 DEF IInv, Stamps, OldClaim, ClaimsHold, Owns, NoStrayBox, Lost
    <2>3. \A c \in Ops : (Kinds(c) /\ Abandoned(c) /\ Carries(c) /\ Remembers(c))'
      BY <2>1 DEF IInv, Kinds, Abandoned, Chases, Carries, Remembers, Lost
    <2> QED BY <1>1, <2>2, <2>3 DEF IInv
  <1> QED BY <1>1, <1>2, <1>3, <1>4, <1>5, WorldKeeps DEF Next

\* The invariant holds in every reachable state.
THEOREM Invariant == Spec => []IInv
  BY InvInit, InvStep, PTL DEF Spec

\* An operation that is not slow keeps the row it claimed until it gives it up itself: no
\* boot, sleep or replacement takes it over, whatever other operations and the provider do
\* and whichever processes die.
THEOREM ClaimsAreKept == Spec => []ClaimsHold
  <1>1. IInv => ClaimsHold
    BY DEF IInv
  <1> QED BY <1>1, Invariant, PTL

\* One boot at a time, among the operations that are not slow.
THEOREM OneBootAtATime == Spec => []OneBoot
  <1>1. IInv => OneBoot
    <2> SUFFICES ASSUME IInv, NEW c \in Ops \ Slow, NEW d \in Ops \ Slow,
                        op[c].phase \in {"claimed", "booted"}, op[d].phase \in {"claimed", "booted"}
                 PROVE  c = d
      BY DEF OneBoot
    <2>1. Owns(c) /\ Owns(d) /\ Stamps
      BY DEF IInv, ClaimsHold, Timely
    <2>2. op[c].phase \in Claimed /\ op[d].phase \in Claimed
      BY DEF Claimed, Booting
    <2>3. op[c].claim = row.stamp /\ op[d].claim = row.stamp
      BY <2>1, <2>2 DEF Owns
    <2> QED BY <2>1, <2>2, <2>3 DEF Stamps
  <1> QED BY <1>1, Invariant, PTL

\* A sandbox that is up is the row's or in the hands of a boot, however slow the operations
\* are, but in four cases: its operation died, the provider refused to remove it, a Reset
\* found its engine not configured, or a Reset that had read another sandbox cleared the
\* row of this one (provisionComputer, rollbackProvisionedComputer, replaceComputer).
THEOREM NothingLeftBehind == Spec => []NoStrayBox
  <1>1. IInv => NoStrayBox
    BY DEF IInv
  <1> QED BY <1>1, Invariant, PTL

\* No operation that is not slow stops or destroys the sandbox of a running computer.
THEOREM RunningIsLeftAlone == Spec => WinnerSurvives
  <1> DEFINE P == (\E c \in Ops \ Slow : op'[c] # op[c])
                     /\ row.state = "running" /\ row.ref # NoBox /\ box[row.ref] = "up"
                     => box'[row.ref] = "up"
  <1>1. IInv /\ [Next]_vars => [P]_vars
    <2> SUFFICES ASSUME IInv, Next, NEW c \in Ops \ Slow, op'[c] # op[c],
                        row.state = "running", row.ref # NoBox, box[row.ref] = "up"
                 PROVE  box'[row.ref] = "up"
      OBVIOUS
    <2>0. /\ TypeOK /\ op \in [Ops -> OpType] /\ row.ref \in Boxes
          /\ box \in [Boxes -> {"absent", "up", "stopped", "gone"}]
      BY DEF IInv, TypeOK, RowType
    <2>1. op[c].phase \notin Claimed
      <3>1. Owns(c)
        BY DEF IInv, ClaimsHold, Timely
      <3> QED BY <3>1 DEF Owns, Claimed
    <2>2. ASSUME NEW d \in Ops, \A e \in Ops \ {d} : op'[e] = op[e], op[d].phase \in Claimed
          PROVE  FALSE
      BY <2>1, <2>2
    <2>3. ASSUME NEW d \in Ops, op[d].phase \notin Claimed,
                 \/ ProvisionRead(d) \/ ProvisionRefused(d) \/ Boot(d)
                 \/ SleepRead(d) \/ Sleep(d) \/ ReplaceRead(d) \/ Replace(d) \/ Crash(d)
          PROVE  box' = box
      <3> USE <2>3 DEF Claimed, Booting, Sleeping, Replacing
      <3>1. CASE ProvisionRead(d) \/ ProvisionRefused(d) \/ SleepRead(d) \/ ReplaceRead(d) \/ Crash(d)
        BY <3>1 DEF ProvisionRead, ProvisionRefused, SleepRead, ReplaceRead, Crash
      <3>2. CASE Boot(d)
        BY <3>2 DEF Boot, WaitForComputerReady, ClaimBoot, Provision, PrepareFails, Activate,
                    Rollback, RecordFailure
      <3>3. CASE Sleep(d)
        BY <3>3 DEF Sleep, SleepClaim, RenewSleep, Saved, WakeAgain, LastLook, StopBox, Suspend
      <3>4. CASE Replace(d)
        BY <3>4 DEF Replace, ReplaceClaim, ReplaceRecheck, DestroyOld, ClearRow, Caught
      <3> QED BY <2>3, <3>1, <3>2, <3>3, <3>4
    <2>4. ASSUME NEW d \in Ops,
                 \/ ProvisionRead(d) \/ ProvisionRefused(d) \/ Boot(d)
                 \/ SleepRead(d) \/ Sleep(d) \/ ReplaceRead(d) \/ Replace(d) \/ Crash(d)
          PROVE  \A e \in Ops \ {d} : op'[e] = op[e]
      <3> USE <2>0, <2>4, ThrowFields
      <3>1. CASE ProvisionRead(d) \/ ProvisionRefused(d) \/ SleepRead(d) \/ ReplaceRead(d) \/ Crash(d)
        BY <3>1 DEF ProvisionRead, ProvisionRefused, SleepRead, ReplaceRead, Crash
      <3>2. CASE Boot(d)
        BY <3>2 DEF Boot, WaitForComputerReady, ClaimBoot, Provision, PrepareFails, Activate,
                    Rollback, RecordFailure
      <3>3. CASE Sleep(d)
        BY <3>3 DEF Sleep, SleepClaim, RenewSleep, Saved, WakeAgain, LastLook, StopBox, Suspend
      <3>4. CASE Replace(d)
        BY <3>4 DEF Replace, ReplaceClaim, ReplaceRecheck, DestroyOld, ClearRow, Caught
      <3> QED BY <2>4, <3>1, <3>2, <3>3, <3>4
    <2>5. ASSUME NEW d \in Runners, EndRun(d) \/ ExpireRunLease(d) PROVE box' = box
      BY <2>5 DEF EndRun, ExpireRunLease
    <2>6. ASSUME NEW b \in Boxes, Vanish(b) PROVE FALSE
      BY <2>6 DEF Vanish
    <2>7. ASSUME Age PROVE FALSE
      BY <2>7 DEF Age
    <2> QED BY <2>2, <2>3, <2>4, <2>5, <2>6, <2>7 DEF Next
  <1> QED BY <1>1, Invariant, PTL DEF Spec, WinnerSurvives
=============================================================================
