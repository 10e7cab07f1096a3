-------------------------- MODULE InstallerProofs --------------------------
(***************************************************************************)
(* What an installation promises, for any roles and jobs, any number of     *)
(* runs, of commands that fail or lie, and of crashes.  The inductive       *)
(* invariant follows the run: what its two receipts say of the jobs it      *)
(* found, what the manager may still do, and what each step has achieved.   *)
(***************************************************************************)
EXTENDS Installer, FiniteSetTheorems, SequenceTheorems, TLAPS

JobOrNone == Job \cup {NoJob}
Jobs == [Slots -> JobOrNone]
Manager == [op : {"none", "quiesce", "apply", "rollback"}, todo : Seq(Call), rec : Receipt \cup {None},
            tried : SUBSET Owned, off : SUBSET Slots, errors : BOOLEAN, undo : BOOLEAN,
            result : {"none", "prepared", "ready", "failed", "incomplete", "restored"}]
Skill == {"absent", "old", "new"}
Config == [is : {"none", "old", "new"}, prepared : BOOLEAN]
Ledger == [n : Nat, canon : BOOLEAN]
Run == [pc : Steps, runs : 0 .. MaxRuns, seen : Ledger, kept : Skill, swapped : BOOLEAN,
        preserve : BOOLEAN, result : {"none", "READY", "BLOCKED", "INCOMPLETE", "KILLED", "RECOVERED"}]

Typed ==
  /\ jobs \in Jobs /\ running \subseteq Slots /\ mgr \in Manager
  /\ receipts \in [{"quiesce", "apply"} -> Receipt \cup {None}]
  /\ faults \in 0 .. MaxFaults /\ starts \in 0 .. MaxStarts
  /\ inst \in Run /\ skill \in Skill /\ config \in Config
  /\ ledger \in Ledger /\ inst.seen.n <= ledger.n
  /\ lock \in {Free, Mine} \cup Slots
  /\ was \in [jobs : Jobs, skill : Skill, config : Config]

Quiesced == receipts.quiesce # None
Applied == receipts.apply # None
LegacyOff(js) == \A s \in Legacy : js[s] = NoJob \/ ~js[s].on
OwnedOf(s) == <<"owned", s[2]>>
(* A role whose adopted job is on has no owned job. *)
NotTwice(js) == \A s \in Legacy : js[s] # NoJob /\ js[s].on => js[OwnedOf(s)] = NoJob
NoneCreated == \A s \in Slots : was.jobs[s] = NoJob => jobs[s] = NoJob
GivenBack == \A s \in Slots : jobs[s] = receipts.apply.before[s]

(* What the receipts of the run say of the jobs it found. *)
ReceiptsTell ==
  /\ Quiesced => /\ receipts.quiesce.before = was.jobs
                 /\ \A s \in Owned : receipts.quiesce.acts[s] # "create"
                 /\ \A s \in Owned : receipts.quiesce.acts[s] = "update" => was.jobs[s] # NoJob
  /\ Applied => /\ \A s \in Slots : was.jobs[s] = NoJob => receipts.apply.before[s] = NoJob
                /\ ~Quiesced => receipts.apply.before = was.jobs
                /\ \A s \in Owned : receipts.apply.acts[s] = "create" <=> receipts.apply.before[s] = NoJob
                /\ \A s \in Legacy : receipts.apply.before[s] = NoJob => jobs[s] = NoJob
                /\ LegacyOff(receipts.apply.before)
  /\ ~Quiesced /\ ~Applied => jobs = was.jobs
  /\ ~Applied => NoneCreated
  /\ \A s \in Legacy : was.jobs[s] = NoJob => jobs[s] = NoJob

(* Which step the installer is at when the manager works, with which receipt. *)
Steered ==
  /\ mgr.op = "quiesce" => inst.pc = "quiescing" /\ mgr.rec = receipts.quiesce /\ Quiesced
  /\ mgr.op = "apply" => inst.pc = "applying" /\ mgr.rec = receipts.apply /\ Applied
  /\ mgr.op = "rollback" =>
       \/ inst.pc \in {"undoingApply", "recoveringApply"} /\ mgr.rec = receipts.apply /\ Applied
       \/ inst.pc \in {"undoingQuiesce", "recoveringQuiesce"} /\ mgr.rec = receipts.quiesce /\ Quiesced
  /\ mgr.op = "rollback" => ~mgr.undo
  /\ mgr.op = "none" => mgr.todo = <<>>
  /\ inst.pc \in {"quiesce", "quiescing", "lock", "files", "aside", "place", "apply"} => ~Applied
  /\ inst.pc = "quiesce" => ~Quiesced
  /\ inst.pc \in {"undoApply", "recoverApply", "undoingApply", "recoveringApply"} => Applied
  /\ inst.pc \in {"undoQuiesce", "recoverQuiesce", "undoingQuiesce", "recoveringQuiesce"} => Quiesced
  /\ lock = Mine => inst.pc \notin {"idle", "quiesce", "quiescing", "lock",
                                    "recoverApply", "recoveringApply", "recoverQuiesce", "recoveringQuiesce"}

(* The calls that are left: which kind meets which slot, and what a         *)
(* transaction that goes forward ends with.                                 *)
Fits(c, op, before) ==
  \/ IsProbe(c)
  \/ c.do \in {"off", "set"} /\ c.slot \in Slots /\ before[c.slot] # NoJob
  \/ c.do = "restore" /\ c.slot \in Owned /\ before[c.slot] # NoJob
  \/ c.do = "remove" /\ c.slot \in Owned /\ before[c.slot] = NoJob
  \/ c.do \in {"stage", "on"} /\ c.slot \in Owned /\ op = "apply"
AllFit(calls, op, before) == calls \in Seq(Call) /\ \A i \in 1 .. Len(calls) : Fits(calls[i], op, before)
Doing == IF mgr.undo THEN "undo" ELSE mgr.op
Forward(op) == mgr.op = op /\ ~mgr.undo
AllDesired == \A s \in Owned : jobs[s] = Desired(TRUE)
EndsWith(probe) == mgr.todo[Len(mgr.todo)].do = probe
Worklist ==
  /\ mgr.op # "none" => AllFit(mgr.todo, Doing, mgr.rec.before)
  /\ mgr.op # "none" => \A s \in mgr.off : mgr.rec.before[s] # NoJob
  /\ Forward("quiesce") => /\ \A i \in 1 .. Len(mgr.todo) : mgr.todo[i].do \in {"off", "quiet"}
                           /\ running \subseteq Present(jobs)
                           /\ IF mgr.todo = <<>> THEN running = {} /\ Enabled(jobs) = {} ELSE EndsWith("quiet")
  /\ Forward("apply") => IF mgr.todo = <<>> THEN AllDesired ELSE EndsWith("verify")
  /\ mgr.op = "quiesce" => mgr.tried = {}
  /\ mgr.op = "apply" => /\ LegacyOff(jobs)
                         /\ \A s \in Owned : receipts.apply.before[s] = NoJob /\ jobs[s] # NoJob => s \in mgr.tried

(* What the manager's answer is worth to the installer, or the operator.    *)
Answered(pc, result) == inst.pc = pc /\ mgr.op = "none" /\ mgr.result = result
Answers ==
  /\ inst.pc = "quiescing" /\ mgr.op = "none" => mgr.result \in {"prepared", "failed", "incomplete"}
  /\ inst.pc = "applying" /\ mgr.op = "none" => mgr.result \in {"ready", "failed", "incomplete"}
  /\ inst.pc \in {"undoingApply", "undoingQuiesce", "recoveringApply", "recoveringQuiesce"} /\ mgr.op = "none"
       => mgr.result \in {"restored", "incomplete"}
  /\ Answered("quiescing", "failed") => jobs = was.jobs
  /\ Answered("quiescing", "prepared") =>
       running = {} /\ Enabled(jobs) = {} /\ (~Quiesced => Present(jobs) = {})
  /\ Answered("applying", "ready") => AllDesired /\ LegacyOff(jobs)
  /\ Answered("applying", "failed") /\ Applied => GivenBack
  /\ Answered("undoingApply", "restored") \/ Answered("recoveringApply", "restored") => GivenBack
  /\ Answered("undoingQuiesce", "restored") \/ Answered("recoveringQuiesce", "restored") => jobs = was.jobs

(* What each step of the installer may rely on. *)
Achieved ==
  /\ inst.pc \in {"quiesce", "quiescing", "lock", "files"} => config = was.config /\ skill = was.skill
  /\ inst.pc = "quiesce" => config.is # "none"
  /\ inst.pc \in {"lock", "files"} =>
       /\ Quiesced => running = {} /\ Enabled(jobs) = {}
       /\ ~Quiesced /\ was.config.is # "none" => skill = "new" \/ (running = {} /\ Present(jobs) = {})
       /\ Quiesced \/ config.prepared \/ Present(jobs) \cap Legacy = {}
  /\ inst.pc \in {"aside", "place"} /\ was.config.is # "none" => running = {} /\ Enabled(jobs) = {}
  /\ inst.pc \in {"aside", "place", "apply", "applying", "last"} => config.is = "new"
  /\ inst.pc \in {"apply", "applying", "last"} => skill = "new"
  /\ inst.pc = "last" => AllDesired /\ LegacyOff(jobs)
  /\ inst.pc \in {"undoQuiesce", "undoingQuiesce", "recoverQuiesce", "recoveringQuiesce"} => NoneCreated
  /\ inst.pc \in {"unplace", "unaside", "unfile"} => jobs = was.jobs
  /\ inst.pc = "aside" => skill = was.skill
  /\ inst.pc = "place" => inst.kept = was.skill
  /\ inst.pc \in {"quiesce", "quiescing", "lock", "files", "aside", "place"} => ~inst.swapped
  /\ inst.pc \in {"apply", "applying", "last", "undoApply", "undoingApply", "undoQuiesce", "undoingQuiesce"} =>
       IF inst.swapped THEN inst.kept = was.skill ELSE skill = was.skill
  /\ inst.pc \in {"unplace", "unaside"} => inst.kept = was.skill
  /\ inst.pc = "unfile" => inst.preserve \/ skill = was.skill

(* A configuration of ours that faces an adopted job knows it was prepared. *)
Known(c, js) == c.is = "new" /\ Present(js) \cap Legacy # {} => c.prepared

IInv ==
  /\ Typed /\ ReceiptsTell /\ Steered /\ Worklist /\ Answers /\ Achieved
  /\ NotTwice(jobs) /\ NotTwice(was.jobs)
  /\ Known(config, jobs) /\ Known(was.config, was.jobs)
  /\ HonestRollback
-----------------------------------------------------------------------------
(* The slots and their calls. *)
LEMMA SlotsFinite == IsFiniteSet(Slots)
<1>1. ASSUME NEW R \in SUBSET Roles, NEW kind PROVE IsFiniteSet({kind} \X R)
  <2>1. IsFiniteSet(R) /\ IsFiniteSet({kind})
    BY TopologyAssumption, FS_Subset, FS_Singleton
  <2> QED BY <2>1, FS_Product
<1>2. IsFiniteSet(Owned) /\ IsFiniteSet(Legacy)
  BY <1>1, TopologyAssumption DEF Owned, Legacy
<1> QED BY <1>2, FS_Union DEF Slots

(* An owned slot is no legacy slot, and each legacy slot has its owned one. *)
LEMMA OwnedOrLegacy ==
  /\ Owned \cap Legacy = {} /\ Owned \subseteq Slots /\ Legacy \subseteq Slots
  /\ \A s \in Legacy : OwnedOf(s) \in Owned
BY TopologyAssumption DEF Owned, Legacy, Slots, OwnedOf

(* The lock tells the installer, a job and nobody apart.                   *)
LEMMA LocksDiffer == Free # Mine /\ Mine \notin Slots /\ Free \notin Slots
BY DEF Free, Mine, Slots, Owned, Legacy

(* A set as a sequence has a place for each of its members. *)
LEMMA SetAsSequence ==
  ASSUME NEW S, IsFiniteSet(S)
  PROVE  Cardinality(S) \in Nat /\ SetToSeq(S) \in [1 .. Cardinality(S) -> S]
<1>1. Cardinality(S) \in Nat /\ ExistsBijection(1 .. Cardinality(S), S)
  BY FS_CardinalityType
<1>2. PICK f \in Bijection(1 .. Cardinality(S), S) : TRUE
  BY <1>1 DEF ExistsBijection
<1>3. f \in [1 .. Cardinality(S) -> S] /\ IsInjective(f)
  BY <1>2 DEF Bijection, Injection, IsInjective
<1> QED BY <1>1, <1>3 DEF SetToSeq

Verbs == {"off", "on", "set", "stage", "remove", "restore"}
Probes == {"quiet", "staged", "canary", "verify"}
(* The calls for a set of slots name a slot of the set each.               *)
LEMMA CallsOf ==
  ASSUME NEW what \in Verbs, NEW S \in SUBSET Slots
  PROVE  /\ Calls(what, S) \in Seq(Call)
         /\ \A i \in 1 .. Len(Calls(what, S)) : Calls(what, S)[i].do = what /\ Calls(what, S)[i].slot \in S
<1>1. Cardinality(S) \in Nat /\ SetToSeq(S) \in [1 .. Cardinality(S) -> S]
  BY SlotsFinite, FS_Subset, SetAsSequence
<1> DEFINE n == Cardinality(S)
           f == SetToSeq(S)
<1>2. \A i \in 1 .. n : [do |-> what, slot |-> f[i]] \in Call
  BY <1>1 DEF Call, Verbs
<1>3. Calls(what, S) = [i \in 1 .. n |-> [do |-> what, slot |-> f[i]]]
  BY DEF Calls
<1> HIDE DEF n, f
<1>4. Calls(what, S) \in Seq(Call) /\ Len(Calls(what, S)) = n
  BY <1>1, <1>2, <1>3 DEF n
<1> QED BY <1>1, <1>3, <1>4 DEF n, f

(* Calls fit when each of them does.                                       *)
LEMMA FitCalls ==
  ASSUME NEW what \in Verbs, NEW S \in SUBSET Slots, NEW op, NEW before,
         \A s \in S : Fits([do |-> what, slot |-> s], op, before)
  PROVE  AllFit(Calls(what, S), op, before)
<1>1. ASSUME NEW i \in 1 .. Len(Calls(what, S)) PROVE Fits(Calls(what, S)[i], op, before)
  BY CallsOf DEF Fits, IsProbe
<1> QED BY <1>1, CallsOf DEF AllFit

(* A probe fits anywhere.                                                  *)
LEMMA FitProbe ==
  ASSUME NEW what \in Probes, NEW op, NEW before
  PROVE  AllFit(Probe(what), op, before) /\ Len(Probe(what)) = 1 /\ Probe(what)[1].do = what
BY DEF AllFit, Probe, Fits, IsProbe, Call, Probes

(* Lists of fitting calls put together, reversed or begun still fit.       *)
LEMMA FitConcat ==
  ASSUME NEW op, NEW before, NEW a, NEW b, AllFit(a, op, before), AllFit(b, op, before)
  PROVE  AllFit(a \o b, op, before)
BY ConcatProperties DEF AllFit

LEMMA FitReverse ==
  ASSUME NEW op, NEW before, NEW a, AllFit(a, op, before)
  PROVE  AllFit(Reverse(a), op, before)
<1>1. a \in Seq(Call) /\ Len(a) \in Nat  BY DEF AllFit
<1>2. \A i \in 1 .. Len(a) : (Len(a) - i) + 1 \in 1 .. Len(a)  BY <1>1
<1>3. Reverse(a) \in Seq(Call) /\ Len(Reverse(a)) = Len(a)
  BY <1>1, <1>2 DEF Reverse
<1> QED BY <1>2, <1>3 DEF AllFit, Reverse

LEMMA FitTail ==
  ASSUME NEW op, NEW before, NEW a, AllFit(a, op, before), a # <<>>
  PROVE  AllFit(Tail(a), op, before) /\ Fits(Head(a), op, before) /\ Head(a) \in Call
<1>1. a \in Seq(Call) /\ Len(a) \in Nat /\ 1 \in 1 .. Len(a)  BY EmptySeq DEF AllFit
<1>2. Head(a) = a[1]  BY <1>1
<1> QED BY <1>1, <1>2, HeadTailProperties DEF AllFit
-----------------------------------------------------------------------------
(* What a move to another step, and the end of a run, leave of the run.    *)
LEMMA Going ==
  ASSUME Typed, NEW pc \in Steps, Goes(pc)
  PROVE  /\ inst' \in Run /\ inst'.pc = pc /\ inst'.runs = inst.runs /\ inst'.seen = inst.seen
         /\ inst'.kept = inst.kept /\ inst'.swapped = inst.swapped
         /\ inst'.preserve = inst.preserve /\ inst'.result = inst.result
BY DEF Typed, Goes, Run

LEMMA Finishing ==
  ASSUME Typed, NEW r \in {"READY", "BLOCKED", "INCOMPLETE", "KILLED", "RECOVERED"}, Finishes(r)
  PROVE  /\ inst' \in Run /\ inst'.pc = "idle" /\ inst'.result = r /\ inst'.seen = inst.seen
         /\ inst'.runs = inst.runs
BY DEF Typed, Finishes, Run, Steps

Working == {"quiescing", "applying", "undoingApply", "undoingQuiesce", "recoveringApply", "recoveringQuiesce"}

(* Between the manager's transactions no manager is at work. *)
LEMMA NoManagerAtWork ==
  ASSUME Steered, Typed, inst.pc \notin Working
  PROVE  mgr.op = "none"
BY DEF Steered, Typed, Manager, Working

(* A step of the installer that neither starts nor waits for a manager: the *)
(* jobs, the receipts and what the run found stay, and so what they tell.   *)
LEMMA InstallerStep ==
  ASSUME IInv, UNCHANGED <<jobs, running, mgr, receipts, was>>, mgr.op = "none",
         inst'.pc \notin Working, Typed', Steered', Achieved', Known(config, jobs)', HonestRollback'
  PROVE  IInv'
<1>1. ReceiptsTell'
  BY DEF IInv, ReceiptsTell, Quiesced, Applied, NoneCreated
<1>2. Worklist'
  BY DEF IInv, Worklist, Forward, AllDesired, EndsWith, Doing, AllFit, Fits, Present, Enabled
<1>3. Answers'
  BY DEF Answers, Answered, Working
<1>4. NotTwice(jobs)' /\ NotTwice(was.jobs)' /\ Known(was.config, was.jobs)'
  BY DEF IInv, NotTwice, Known, Present
<1> QED BY <1>1, <1>2, <1>3, <1>4 DEF IInv

(* The steps of the installer, one by one.                                 *)
LEMMA InstallLockKeeps ==
  ASSUME IInv, InstallLock
  PROVE  IInv'
<1> USE DEF IInv
<1>1. /\ UNCHANGED <<jobs, running, mgr, receipts, was, faults, starts, skill, config, ledger>>
      /\ inst.pc = "lock" /\ mgr.op = "none" /\ Typed
  BY NoManagerAtWork DEF InstallLock, StillTopology, StillFiles, NoManager, Working
<1>2. PICK pc \in {"files", "undoQuiesce", "unfile"} :
        /\ Goes(pc) /\ lock' \in {lock, Mine}
        /\ pc # "files" => lock' = lock
        /\ pc = "undoQuiesce" => Quiesced
        /\ pc = "unfile" => ~Quiesced
  BY <1>1 DEF InstallLock, UndoFrom, Achieved, Quiesced
<1>3. /\ inst' \in Run /\ inst'.pc = pc /\ inst'.seen = inst.seen /\ inst'.kept = inst.kept
      /\ inst'.swapped = inst.swapped
      /\ inst'.preserve = inst.preserve /\ inst'.result = inst.result
  BY <1>1, <1>2, Going DEF Steps
<1>4. Typed'
  BY <1>1, <1>2, <1>3 DEF Typed
<1>5. Steered'
  BY <1>1, <1>2, <1>3 DEF Steered, Quiesced, Applied
<1>6. Achieved'
  BY <1>1, <1>2, <1>3 DEF Achieved, Steered, ReceiptsTell, Quiesced, Applied, AllDesired, NoneCreated, Enabled, Present
<1>7. Known(config, jobs)' /\ HonestRollback'
  BY <1>1, <1>2, <1>3 DEF Known, HonestRollback, Present
<1> QED BY <1>1, <1>2, <1>3, <1>4, <1>5, <1>6, <1>7, InstallerStep DEF Working

LEMMA InstallStepFailsKeeps ==
  ASSUME IInv, InstallStepFails
  PROVE  IInv'
<1> USE DEF IInv
<1>1. /\ UNCHANGED <<jobs, running, mgr, receipts, was, starts, config, ledger, lock>>
      /\ inst.pc \in {"files", "aside", "place"} /\ mgr.op = "none" /\ Typed
  BY NoManagerAtWork DEF InstallStepFails, StillTopology, StillFiles, NoManager, Working
<1>2. PICK pc \in {"undoQuiesce", "unfile"} :
        /\ Goes(pc)
        /\ lock' = lock
        /\ faults' \in 0 .. MaxFaults
        /\ skill' = IF inst.pc = "place" THEN inst.kept ELSE skill
        /\ pc = "undoQuiesce" => Quiesced
        /\ pc = "unfile" => ~Quiesced
  BY <1>1, TopologyAssumption DEF InstallStepFails, UndoFrom, Achieved, Quiesced, Typed
<1>3. /\ inst' \in Run /\ inst'.pc = pc /\ inst'.seen = inst.seen /\ inst'.kept = inst.kept
      /\ inst'.swapped = inst.swapped
      /\ inst'.preserve = inst.preserve /\ inst'.result = inst.result
  BY <1>1, <1>2, Going DEF Steps
<1>4. Typed'
  BY <1>1, <1>2, <1>3 DEF Typed, Run
<1>5. Steered'
  BY <1>1, <1>2, <1>3 DEF Steered, Quiesced, Applied
<1>6. Achieved'
  BY <1>1, <1>2, <1>3 DEF Achieved, Steered, ReceiptsTell, Quiesced, Applied, AllDesired, NoneCreated, Enabled, Present
<1>7. Known(config, jobs)' /\ HonestRollback'
  BY <1>1, <1>2, <1>3 DEF Known, HonestRollback, Present
<1> QED BY <1>1, <1>2, <1>3, <1>4, <1>5, <1>6, <1>7, InstallerStep DEF Working

LEMMA InstallRawChangedKeeps ==
  ASSUME IInv, InstallRawChanged
  PROVE  IInv'
<1> USE DEF IInv
<1>1. /\ UNCHANGED <<jobs, running, mgr, receipts, was, starts, skill, config, ledger>>
      /\ inst.pc = "last" /\ mgr.op = "none" /\ Typed
  BY NoManagerAtWork DEF InstallRawChanged, StillTopology, StillFiles, NoManager, Working
<1>2. PICK pc \in {"undoApply", "undoQuiesce", "unplace", "unfile"} :
        /\ Goes(pc)
        /\ lock' = lock
        /\ faults' \in 0 .. MaxFaults
        /\ pc = "undoApply" <=> Applied
        /\ pc = "undoQuiesce" => Quiesced
        /\ pc \in {"unplace", "unfile"} => ~Quiesced
        /\ pc = "unplace" => inst.swapped
        /\ pc = "unfile" => ~inst.swapped
  BY <1>1, TopologyAssumption DEF InstallRawChanged, UndoFrom, Quiesced, Applied, Typed
<1>3. /\ inst' \in Run /\ inst'.pc = pc /\ inst'.seen = inst.seen /\ inst'.kept = inst.kept
      /\ inst'.swapped = inst.swapped
      /\ inst'.preserve = inst.preserve /\ inst'.result = inst.result
  BY <1>1, <1>2, Going DEF Steps
<1>4. Typed'
  BY <1>1, <1>2, <1>3 DEF Typed
<1>5. Steered'
  BY <1>1, <1>2, <1>3 DEF Steered, Quiesced, Applied
<1>6. Achieved'
  BY <1>1, <1>2, <1>3 DEF Achieved, Steered, ReceiptsTell, Quiesced, Applied, AllDesired, NoneCreated, Enabled, Present
<1>7. Known(config, jobs)' /\ HonestRollback'
  BY <1>1, <1>2, <1>3 DEF Known, HonestRollback, Present
<1> QED BY <1>1, <1>2, <1>3, <1>4, <1>5, <1>6, <1>7, InstallerStep DEF Working

LEMMA InstallUnplaceKeeps ==
  ASSUME IInv, InstallUnplace
  PROVE  IInv'
<1> USE DEF IInv
<1>1. /\ UNCHANGED <<jobs, running, mgr, receipts, was, starts, config, ledger, lock, faults>>
      /\ inst.pc = "unplace" /\ mgr.op = "none" /\ Typed
  BY NoManagerAtWork DEF InstallUnplace, StillTopology, StillFiles, NoManager, Working
<1>2. PICK pc \in {"unaside"} :
        /\ Goes(pc)
        /\ skill' = "absent"
  BY <1>1 DEF InstallUnplace, Skill
<1>3. /\ inst' \in Run /\ inst'.pc = pc /\ inst'.seen = inst.seen /\ inst'.kept = inst.kept
      /\ inst'.swapped = inst.swapped
      /\ inst'.preserve = inst.preserve /\ inst'.result = inst.result
  BY <1>1, <1>2, Going DEF Steps
<1>4. Typed'
  BY <1>1, <1>2, <1>3 DEF Typed, Skill
<1>5. Steered'
  BY <1>1, <1>2, <1>3 DEF Steered, Quiesced, Applied
<1>6. Achieved'
  BY <1>1, <1>2, <1>3 DEF Achieved, Steered, ReceiptsTell, Quiesced, Applied, AllDesired, NoneCreated, Enabled, Present
<1>7. Known(config, jobs)' /\ HonestRollback'
  BY <1>1, <1>2, <1>3 DEF Known, HonestRollback, Present
<1> QED BY <1>1, <1>2, <1>3, <1>4, <1>5, <1>6, <1>7, InstallerStep DEF Working

LEMMA InstallUnasideKeeps ==
  ASSUME IInv, InstallUnaside
  PROVE  IInv'
<1> USE DEF IInv
<1>1. /\ UNCHANGED <<jobs, running, mgr, receipts, was, starts, config, ledger, lock, faults>>
      /\ inst.pc = "unaside" /\ mgr.op = "none" /\ Typed
  BY NoManagerAtWork DEF InstallUnaside, StillTopology, StillFiles, NoManager, Working
<1>2. PICK pc \in {"unfile"} :
        /\ Goes(pc)
        /\ skill' = inst.kept
  BY <1>1 DEF InstallUnaside, Skill
<1>3. /\ inst' \in Run /\ inst'.pc = pc /\ inst'.seen = inst.seen /\ inst'.kept = inst.kept
      /\ inst'.swapped = inst.swapped
      /\ inst'.preserve = inst.preserve /\ inst'.result = inst.result
  BY <1>1, <1>2, Going DEF Steps
<1>4. Typed'
  BY <1>1, <1>2, <1>3 DEF Typed, Run
<1>5. Steered'
  BY <1>1, <1>2, <1>3 DEF Steered, Quiesced, Applied
<1>6. Achieved'
  BY <1>1, <1>2, <1>3 DEF Achieved, Steered, ReceiptsTell, Quiesced, Applied, AllDesired, NoneCreated, Enabled, Present
<1>7. Known(config, jobs)' /\ HonestRollback'
  BY <1>1, <1>2, <1>3 DEF Known, HonestRollback, Present
<1> QED BY <1>1, <1>2, <1>3, <1>4, <1>5, <1>6, <1>7, InstallerStep DEF Working

LEMMA OperatorRecoversKeeps ==
  ASSUME IInv, OperatorRecovers
  PROVE  IInv'
<1> USE DEF IInv
<1>1. /\ UNCHANGED <<jobs, running, mgr, receipts, was, starts, skill, config, ledger, lock, faults>>
      /\ inst.pc = "idle" /\ mgr.op = "none" /\ Typed
  BY NoManagerAtWork DEF OperatorRecovers, StillTopology, StillFiles, NoManager, Working
<1>2. PICK pc \in {"recoverApply", "recoverQuiesce"} :
        /\ Goes(pc)
        /\ inst.result = "KILLED"
        /\ pc = "recoverApply" => Applied
        /\ pc = "recoverQuiesce" => Quiesced /\ ~Applied
  BY <1>1 DEF OperatorRecovers, Quiesced, Applied, Typed, StillTopology
<1>3. /\ inst' \in Run /\ inst'.pc = pc /\ inst'.seen = inst.seen /\ inst'.kept = inst.kept
      /\ inst'.swapped = inst.swapped
      /\ inst'.preserve = inst.preserve /\ inst'.result = inst.result
  BY <1>1, <1>2, Going DEF Steps
<1>4. Typed'
  BY <1>1, <1>2, <1>3 DEF Typed
<1>5. Steered'
  BY <1>1, <1>2, <1>3 DEF Steered, Quiesced, Applied
<1>6. Achieved'
  BY <1>1, <1>2, <1>3 DEF Achieved, Steered, ReceiptsTell, Quiesced, Applied, AllDesired, NoneCreated, Enabled, Present
<1>7. Known(config, jobs)' /\ HonestRollback'
  BY <1>1, <1>2, <1>3 DEF Known, HonestRollback, Present
<1> QED BY <1>1, <1>2, <1>3, <1>4, <1>5, <1>6, <1>7, InstallerStep DEF Working

LEMMA InstallFilesKeeps ==
  ASSUME IInv, InstallFiles
  PROVE  IInv'
<1> USE DEF IInv
<1>1. /\ UNCHANGED <<jobs, running, mgr, receipts, was, starts, faults, skill, lock>>
      /\ inst.pc = "files" /\ mgr.op = "none" /\ Typed
  BY NoManagerAtWork DEF InstallFiles, StillTopology, StillFiles, NoManager, Working
<1>2. /\ config' \in Config /\ config'.is = "new" /\ ledger' \in Ledger /\ ledger'.n = inst.seen.n
      /\ config.prepared => config'.prepared
      /\ Quiesced /\ Present(jobs) \cap Legacy # {} => config'.prepared
  BY <1>1 DEF InstallFiles, Config, Typed, Run, Ledger, Quiesced
<1>3. /\ inst' \in Run
      /\ inst'.pc = (IF skill = "new" THEN "apply" ELSE "aside") /\ inst'.seen = inst.seen /\ inst'.kept = inst.kept
      /\ inst'.swapped = inst.swapped /\ inst'.preserve = inst.preserve /\ inst'.result = inst.result
  <2>1. (IF skill = "new" THEN "apply" ELSE "aside") \in Steps  BY DEF Steps
  <2> QED BY <1>1, <2>1, Going DEF InstallFiles
<1>4. Typed'
  <2>1. inst.seen.n \in Nat /\ inst.seen.n <= inst.seen.n  BY <1>1 DEF Typed, Run, Ledger
  <2> QED BY <1>1, <1>2, <1>3, <2>1 DEF Typed
<1>5. Steered'
  BY <1>1, <1>2, <1>3 DEF Steered, Quiesced, Applied
<1>6. Achieved'
  BY <1>1, <1>2, <1>3 DEF Achieved, Steered, ReceiptsTell, Quiesced, Applied, AllDesired, NoneCreated, Enabled, Present
<1>7. Known(config, jobs)' /\ HonestRollback'
  BY <1>1, <1>2, <1>3 DEF Known, HonestRollback, Present, Achieved
<1> QED BY <1>1, <1>2, <1>3, <1>4, <1>5, <1>6, <1>7, InstallerStep DEF Working

LEMMA InstallAsideKeeps ==
  ASSUME IInv, InstallAside
  PROVE  IInv'
<1> USE DEF IInv
<1>1. /\ UNCHANGED <<jobs, running, mgr, receipts, was, starts, faults, config, ledger, lock>>
      /\ inst.pc = "aside" /\ mgr.op = "none" /\ Typed
  BY NoManagerAtWork DEF InstallAside, StillTopology, StillFiles, NoManager, Working
<1>2. skill' = "absent" /\ skill \in Skill  BY <1>1 DEF InstallAside, Typed
<1>3. /\ inst' \in Run
      /\ inst'.pc = "place" /\ inst'.seen = inst.seen /\ inst'.kept = skill
      /\ inst'.swapped = inst.swapped /\ inst'.preserve = inst.preserve
      /\ inst'.result = inst.result
  BY <1>1, <1>2 DEF InstallAside, Typed, Run, Steps
<1>4. Typed'
  BY <1>1, <1>2, <1>3 DEF Typed, Skill
<1>5. Steered'
  BY <1>1, <1>2, <1>3 DEF Steered, Quiesced, Applied
<1>6. Achieved'
  BY <1>1, <1>2, <1>3 DEF Achieved, Steered, ReceiptsTell, Quiesced, Applied, AllDesired, NoneCreated, Enabled, Present
<1>7. Known(config, jobs)' /\ HonestRollback'
  BY <1>1, <1>2, <1>3 DEF Known, HonestRollback, Present
<1> QED BY <1>1, <1>2, <1>3, <1>4, <1>5, <1>6, <1>7, InstallerStep DEF Working

LEMMA InstallPlaceKeeps ==
  ASSUME IInv, InstallPlace
  PROVE  IInv'
<1> USE DEF IInv
<1>1. /\ UNCHANGED <<jobs, running, mgr, receipts, was, starts, faults, config, ledger, lock>>
      /\ inst.pc = "place" /\ mgr.op = "none" /\ Typed
  BY NoManagerAtWork DEF InstallPlace, StillTopology, StillFiles, NoManager, Working
<1>2. skill' = "new"  BY DEF InstallPlace
<1>3. /\ inst' \in Run
      /\ inst'.pc = "apply" /\ inst'.seen = inst.seen /\ inst'.kept = inst.kept
      /\ inst'.swapped /\ inst'.preserve = inst.preserve
      /\ inst'.result = inst.result
  BY <1>1, <1>2 DEF InstallPlace, Typed, Run, Steps
<1>4. Typed'
  BY <1>1, <1>2, <1>3 DEF Typed, Skill
<1>5. Steered'
  BY <1>1, <1>2, <1>3 DEF Steered, Quiesced, Applied
<1>6. Achieved'
  BY <1>1, <1>2, <1>3 DEF Achieved, Steered, ReceiptsTell, Quiesced, Applied, AllDesired, NoneCreated, Enabled, Present
<1>7. Known(config, jobs)' /\ HonestRollback'
  BY <1>1, <1>2, <1>3 DEF Known, HonestRollback, Present
<1> QED BY <1>1, <1>2, <1>3, <1>4, <1>5, <1>6, <1>7, InstallerStep DEF Working

LEMMA InstallReadyKeeps ==
  ASSUME IInv, InstallReady
  PROVE  IInv'
<1> USE DEF IInv
<1>1. /\ UNCHANGED <<jobs, running, mgr, receipts, was, starts, faults, skill, config, ledger>>
      /\ inst.pc = "last" /\ mgr.op = "none" /\ Typed
  BY NoManagerAtWork DEF InstallReady, StillTopology, StillFiles, NoManager, Working
<1>2. lock' \in {lock, Free} /\ lock' # Mine
  BY LocksDiffer DEF InstallReady, Released
<1>3. /\ inst' \in Run
      /\ inst'.pc = "idle" /\ inst'.seen = inst.seen /\ inst'.result = "READY"
  BY <1>1, Finishing DEF InstallReady
<1>4. Typed'
  BY <1>1, <1>2, <1>3 DEF Typed
<1>5. Steered'
  BY <1>1, <1>2, <1>3 DEF Steered, Quiesced, Applied
<1>6. Achieved'
  BY <1>1, <1>2, <1>3 DEF Achieved, Steered, ReceiptsTell, Quiesced, Applied, AllDesired, NoneCreated, Enabled, Present
<1>7. Known(config, jobs)' /\ HonestRollback'
  BY <1>1, <1>2, <1>3 DEF Known, HonestRollback, Present
<1> QED BY <1>1, <1>2, <1>3, <1>4, <1>5, <1>6, <1>7, InstallerStep DEF Working

LEMMA InstallUnfileKeeps ==
  ASSUME IInv, InstallUnfile
  PROVE  IInv'
<1> USE DEF IInv
<1>1. /\ UNCHANGED <<jobs, running, mgr, receipts, was, starts, faults, skill>>
      /\ inst.pc = "unfile" /\ mgr.op = "none" /\ Typed
  BY NoManagerAtWork DEF InstallUnfile, StillTopology, StillFiles, NoManager, Working
<1>2. /\ lock' \in {lock, Free} /\ lock' # Mine
      /\ config' = was.config /\ ledger' = inst.seen /\ inst.seen \in Ledger /\ inst.seen.n <= inst.seen.n
  <2>1. lock' \in {lock, Free} /\ lock' # Mine  BY LocksDiffer DEF InstallUnfile, Released
  <2>2. inst.seen \in Ledger /\ inst.seen.n <= inst.seen.n  BY <1>1 DEF Typed, Run, Ledger
  <2> QED BY <2>1, <2>2 DEF InstallUnfile
<1> DEFINE r == IF inst.preserve THEN "INCOMPLETE" ELSE "BLOCKED"
<1>3. /\ inst' \in Run
      /\ inst'.pc = "idle" /\ inst'.seen = inst.seen /\ inst'.result = r
  BY <1>1, Finishing DEF InstallUnfile
<1>4. Typed'
  BY <1>1, <1>2, <1>3 DEF Typed
<1>5. Steered'
  BY <1>1, <1>2, <1>3 DEF Steered, Quiesced, Applied
<1>6. Achieved'
  BY <1>1, <1>2, <1>3 DEF Achieved, Steered, ReceiptsTell, Quiesced, Applied, AllDesired, NoneCreated, Enabled, Present
<1>7. Known(config, jobs)' /\ HonestRollback'
  BY <1>1, <1>2, <1>3 DEF Known, HonestRollback, Present, Achieved
<1> QED BY <1>1, <1>2, <1>3, <1>4, <1>5, <1>6, <1>7, InstallerStep DEF Working

LEMMA InstallUndoFailsKeeps ==
  ASSUME IInv, InstallUndoFails
  PROVE  IInv'
<1> USE DEF IInv
<1>1. /\ UNCHANGED <<jobs, running, mgr, receipts, was, starts, skill, config, ledger, lock>>
      /\ inst.pc \in {"unplace", "unaside"} /\ mgr.op = "none" /\ Typed
  BY NoManagerAtWork DEF InstallUndoFails, StillTopology, StillFiles, NoManager, Working
<1>2. faults' \in 0 .. MaxFaults
  BY <1>1, TopologyAssumption DEF InstallUndoFails, Typed
<1>3. /\ inst' \in Run
      /\ inst'.pc = "unfile" /\ inst'.seen = inst.seen /\ inst'.preserve
      /\ inst'.result = inst.result
  BY <1>1 DEF InstallUndoFails, Typed, Run, Steps
<1>4. Typed'
  BY <1>1, <1>2, <1>3 DEF Typed
<1>5. Steered'
  BY <1>1, <1>2, <1>3 DEF Steered, Quiesced, Applied
<1>6. Achieved'
  BY <1>1, <1>2, <1>3 DEF Achieved, Steered, ReceiptsTell, Quiesced, Applied, AllDesired, NoneCreated, Enabled, Present
<1>7. Known(config, jobs)' /\ HonestRollback'
  BY <1>1, <1>2, <1>3 DEF Known, HonestRollback, Present
<1> QED BY <1>1, <1>2, <1>3, <1>4, <1>5, <1>6, <1>7, InstallerStep DEF Working

(* When the jobs are back as the apply receipt has them, nothing is left    *)
(* that the run created, and without a quiescence all is as it was found.   *)
LEMMA BackMeans ==
  ASSUME Typed, ReceiptsTell, Applied, GivenBack
  PROVE  NoneCreated /\ (~Quiesced => jobs = was.jobs)
<1>1. receipts.apply.before \in Jobs
  BY DEF Typed, Applied, Receipt, Jobs, JobOrNone
<1>2. jobs = receipts.apply.before
  BY <1>1 DEF GivenBack, Typed, Jobs
<1> QED BY <1>2 DEF ReceiptsTell, NoneCreated

LEMMA InstallQuiescedKeeps ==
  ASSUME IInv, InstallQuiesced
  PROVE  IInv'
<1> USE DEF IInv
<1>1. /\ UNCHANGED <<jobs, running, mgr, receipts, was, starts, faults, skill, config, ledger>>
      /\ inst.pc = "quiescing" /\ mgr.op = "none" /\ Typed
  BY DEF InstallQuiesced, StillTopology, StillFiles, NoManager
<1>2. /\ UNCHANGED lock /\ lock # Mine
      /\ mgr.result \in {"prepared", "failed", "incomplete"}
  BY <1>1 DEF InstallQuiesced, Steered, Answers
<1>3. /\ inst' \in Run /\ inst'.seen = inst.seen
      /\ \/ /\ mgr.result = "prepared" /\ inst'.pc = "lock" /\ inst'.seen = inst.seen
            /\ inst'.kept = inst.kept /\ inst'.swapped = inst.swapped
            /\ inst'.preserve = inst.preserve
         \/ /\ mgr.result = "failed" /\ inst'.pc = "unfile"
            /\ inst'.preserve = inst.preserve
         \/ mgr.result = "incomplete" /\ inst'.pc = "idle" /\ inst'.result = "INCOMPLETE"
  BY <1>1, <1>2, Going, Finishing DEF InstallQuiesced, Steps
<1>4. Typed'
  BY <1>1, <1>2, <1>3 DEF Typed
<1>5. Steered'
  BY <1>1, <1>2, <1>3 DEF Steered, Quiesced, Applied
<1>6. Achieved'
  BY <1>1, <1>2, <1>3 DEF Achieved, Steered, ReceiptsTell, Answers, Answered, Quiesced, Applied, AllDesired,
                          NoneCreated, GivenBack, Enabled, Present, Known, Present
<1>7. Known(config, jobs)' /\ HonestRollback'
  BY <1>1, <1>2, <1>3 DEF Known, HonestRollback, Present, Achieved, Answers, Answered
<1> QED BY <1>1, <1>2, <1>3, <1>4, <1>5, <1>6, <1>7, InstallerStep DEF Working

LEMMA InstallAppliedKeeps ==
  ASSUME IInv, InstallApplied
  PROVE  IInv'
<1> USE DEF IInv
<1>1. /\ UNCHANGED <<jobs, running, mgr, receipts, was, starts, faults, skill, config, ledger>>
      /\ inst.pc = "applying" /\ mgr.op = "none" /\ Typed
  BY DEF InstallApplied, StillTopology, StillFiles, NoManager
<1>2. /\ lock' \in {lock, Free} /\ (mgr.result = "incomplete" => lock' # Mine)
      /\ mgr.result \in {"ready", "failed", "incomplete"}
  <2>1. Released \in {lock, Free} /\ Released # Mine  BY LocksDiffer DEF Released
  <2>2. mgr.result \in {"ready", "failed", "incomplete"}  BY <1>1 DEF Answers
  <2> QED BY <2>1, <2>2 DEF InstallApplied
<1>3. /\ inst' \in Run /\ inst'.seen = inst.seen
      /\ \/ mgr.result = "incomplete" /\ inst'.pc = "idle" /\ inst'.result = "INCOMPLETE"
         \/ /\ inst'.pc \in {"last", "undoQuiesce", "unplace", "unfile"} /\ inst'.seen = inst.seen
            /\ inst'.kept = inst.kept /\ inst'.swapped = inst.swapped
            /\ inst'.preserve = inst.preserve
            /\ mgr.result = "ready" <=> inst'.pc = "last"
            /\ mgr.result \in {"ready", "failed"}
            /\ inst'.pc = "undoQuiesce" => Quiesced
            /\ inst'.pc \in {"unplace", "unfile"} => ~Quiesced
            /\ inst'.pc = "unplace" => inst.swapped
            /\ inst'.pc = "unfile" => ~inst.swapped
  <2>1. CASE mgr.result = "ready"
    <3>1. Goes("last")  BY <2>1 DEF InstallApplied
    <3> QED BY <1>1, <2>1, <3>1, Going DEF Steps
  <2>2. CASE mgr.result = "failed"
    <3>1. PICK pc \in {"undoQuiesce", "unplace", "unfile"} :
            /\ Goes(pc)
            /\ pc = "undoQuiesce" => Quiesced
            /\ pc \in {"unplace", "unfile"} => ~Quiesced
            /\ pc = "unplace" => inst.swapped
            /\ pc = "unfile" => ~inst.swapped
      BY <2>2 DEF InstallApplied, UndoFrom, Quiesced
    <3> QED BY <1>1, <2>2, <3>1, Going DEF Steps
  <2>3. CASE mgr.result = "incomplete"
    <3>1. Finishes("INCOMPLETE")  BY <2>3 DEF InstallApplied
    <3> QED BY <1>1, <2>3, <3>1, Finishing
  <2> QED BY <1>2, <2>1, <2>2, <2>3
<1>4. Typed'
  BY <1>1, <1>2, <1>3 DEF Typed
<1>5. Steered'
  BY <1>1, <1>2, <1>3 DEF Steered, Quiesced, Applied
<1>6. Achieved'
  <2>1. /\ inst'.pc = "undoQuiesce" => NoneCreated
        /\ inst'.pc \in {"unplace", "unfile"} => jobs = was.jobs
    BY <1>1, <1>3, BackMeans DEF ReceiptsTell, Steered, Answers, Answered, Achieved
  <2> QED BY <1>1, <1>2, <1>3, <2>1 DEF Achieved, Answers, Answered, AllDesired, NoneCreated
<1>7. Known(config, jobs)' /\ HonestRollback'
  BY <1>1, <1>2, <1>3 DEF Known, HonestRollback, Present, Achieved, Answers, Answered
<1> QED BY <1>1, <1>2, <1>3, <1>4, <1>5, <1>6, <1>7, InstallerStep DEF Working

LEMMA InstallUndoneCronKeeps ==
  ASSUME IInv, InstallUndoneCron
  PROVE  IInv'
<1> USE DEF IInv
<1>1. /\ UNCHANGED <<jobs, running, mgr, receipts, was, starts, faults, skill, config, ledger>>
      /\ inst.pc \in {"undoingApply", "undoingQuiesce"} /\ mgr.op = "none" /\ Typed
  BY DEF InstallUndoneCron, StillTopology, StillFiles, NoManager
<1>2. /\ lock' \in {lock, Free} /\ (mgr.result = "incomplete" => lock' # Mine)
      /\ mgr.result \in {"restored", "incomplete"}
  <2>1. Released \in {lock, Free} /\ Released # Mine  BY LocksDiffer DEF Released
  <2>2. mgr.result \in {"restored", "incomplete"}  BY <1>1 DEF Answers
  <2> QED BY <2>1, <2>2 DEF InstallUndoneCron
<1>3. /\ inst' \in Run /\ inst'.seen = inst.seen
      /\ \/ mgr.result = "incomplete" /\ inst'.pc = "idle" /\ inst'.result = "INCOMPLETE"
         \/ /\ inst'.pc \in {"undoQuiesce", "unplace", "unfile"} /\ inst'.seen = inst.seen
            /\ inst'.kept = inst.kept /\ inst'.swapped = inst.swapped
            /\ inst'.preserve = inst.preserve
            /\ mgr.result = "restored"
            /\ inst'.pc = "undoQuiesce" => Quiesced /\ inst.pc = "undoingApply"
            /\ inst'.pc \in {"unplace", "unfile"} => (inst.pc = "undoingApply" => ~Quiesced)
            /\ inst'.pc = "unplace" => inst.swapped
            /\ inst'.pc = "unfile" => ~inst.swapped
  <2>1. CASE mgr.result = "restored"
    <3>1. PICK pc \in {"undoQuiesce", "unplace", "unfile"} :
            /\ Goes(pc)
            /\ pc = "undoQuiesce" => Quiesced /\ inst.pc = "undoingApply"
            /\ pc \in {"unplace", "unfile"} => (inst.pc = "undoingApply" => ~Quiesced)
            /\ pc = "unplace" => inst.swapped
            /\ pc = "unfile" => ~inst.swapped
      BY <1>1, <2>1 DEF InstallUndoneCron, UndoFrom, Quiesced
    <3> QED BY <1>1, <2>1, <3>1, Going DEF Steps
  <2>2. CASE mgr.result = "incomplete"
    <3>1. Finishes("INCOMPLETE")  BY <2>2 DEF InstallUndoneCron
    <3> QED BY <1>1, <2>2, <3>1, Finishing
  <2> QED BY <1>2, <2>1, <2>2
<1>4. Typed'
  BY <1>1, <1>2, <1>3 DEF Typed
<1>5. Steered'
  BY <1>1, <1>2, <1>3 DEF Steered, Quiesced, Applied
<1>6. Achieved'
  <2>1. /\ inst'.pc = "undoQuiesce" => NoneCreated
        /\ inst'.pc \in {"unplace", "unfile"} => jobs = was.jobs
    BY <1>1, <1>3, BackMeans DEF ReceiptsTell, Steered, Answers, Answered, Achieved
  <2> QED BY <1>1, <1>2, <1>3, <2>1 DEF Achieved, Answers, Answered, AllDesired, NoneCreated
<1>7. Known(config, jobs)' /\ HonestRollback'
  BY <1>1, <1>2, <1>3 DEF Known, HonestRollback, Present, Achieved, Answers, Answered
<1> QED BY <1>1, <1>2, <1>3, <1>4, <1>5, <1>6, <1>7, InstallerStep DEF Working

LEMMA OperatorReadsKeeps ==
  ASSUME IInv, OperatorReads
  PROVE  IInv'
<1> USE DEF IInv
<1>1. /\ UNCHANGED <<jobs, running, mgr, receipts, was, starts, faults, skill, config, ledger>>
      /\ inst.pc \in {"recoveringApply", "recoveringQuiesce"} /\ mgr.op = "none" /\ Typed
  BY DEF OperatorReads, StillTopology, StillFiles, NoManager
<1>2. /\ UNCHANGED lock /\ lock # Mine
      /\ mgr.result \in {"restored", "incomplete"}
  BY <1>1 DEF OperatorReads, Steered, Answers
<1>3. /\ inst' \in Run /\ inst'.seen = inst.seen
      /\ \/ inst'.pc = "idle" /\ inst'.result = "INCOMPLETE"
         \/ /\ mgr.result = "restored" /\ inst.pc = "recoveringApply" /\ Quiesced /\ inst'.pc = "recoverQuiesce"
         \/ /\ mgr.result = "restored" /\ (inst.pc = "recoveringApply" => ~Quiesced)
            /\ inst'.pc = "idle" /\ inst'.result = "RECOVERED"
  <2>1. CASE mgr.result = "incomplete"
    <3>1. Finishes("INCOMPLETE")  BY <2>1 DEF OperatorReads
    <3> QED BY <1>1, <2>1, <3>1, Finishing
  <2>2. CASE mgr.result = "restored" /\ inst.pc = "recoveringApply" /\ Quiesced
    <3>1. Goes("recoverQuiesce")  BY <2>2 DEF OperatorReads, Quiesced
    <3> QED BY <1>1, <2>2, <3>1, Going DEF Steps
  <2>3. CASE mgr.result = "restored" /\ ~(inst.pc = "recoveringApply" /\ Quiesced)
    <3>1. Finishes("RECOVERED")  BY <2>3 DEF OperatorReads, Quiesced
    <3> QED BY <1>1, <2>3, <3>1, Finishing
  <2> QED BY <1>2, <2>1, <2>2, <2>3
<1>4. Typed'
  BY <1>1, <1>2, <1>3 DEF Typed
<1>5. Steered'
  BY <1>1, <1>2, <1>3 DEF Steered, Quiesced, Applied
<1>6. Achieved'
  BY <1>1, <1>2, <1>3 DEF Achieved, Steered, ReceiptsTell, Answers, Answered, Quiesced, Applied, AllDesired,
                          NoneCreated, GivenBack, Enabled, Present
<1>7. Known(config, jobs)'
  BY <1>1, <1>2, <1>3 DEF Known, Present
<1>8. HonestRollback'
  <2>1. inst'.pc = "idle" /\ inst'.result = "RECOVERED" => jobs = was.jobs
    BY <1>1, <1>3, BackMeans DEF ReceiptsTell, Steered, Answers, Answered
  <2> QED BY <1>1, <1>3, <2>1 DEF HonestRollback
<1> QED BY <1>1, <1>2, <1>3, <1>4, <1>5, <1>6, <1>7, <1>8, InstallerStep DEF Working
-----------------------------------------------------------------------------
(* A run begins: what it finds is what there is.                           *)
LEMMA InstallStartKeeps ==
  ASSUME IInv, InstallStart
  PROVE  IInv'
<1> USE DEF IInv
<1> DEFINE blocked == config.is = "none" /\ Present(jobs) \cap Legacy # {}
           first == IF blocked THEN "unfile" ELSE IF config.is # "none" /\ ChangeExpected THEN "quiesce" ELSE "lock"
<1>1. /\ UNCHANGED <<jobs, running, mgr, starts, faults, skill, config, ledger, lock>>
      /\ was'.jobs = jobs /\ was'.skill = skill /\ was'.config = config
      /\ ~Quiesced' /\ ~Applied'
      /\ inst.pc = "idle" /\ mgr.op = "none" /\ Typed
  BY DEF InstallStart, StillTopology, Found, Quiesced, Applied
<1>2. inst' \in Run /\ inst'.seen = ledger /\ inst'.pc = first /\ ~inst'.swapped
  <2>1. inst.runs + 1 \in 0 .. MaxRuns /\ ledger \in Ledger
    BY <1>1, InstallerAssumption DEF InstallStart, Typed, Run
  <2>2. inst' = [pc |-> first, runs |-> inst.runs + 1, seen |-> ledger, kept |-> "absent", swapped |-> FALSE,
                 preserve |-> FALSE, result |-> "none"]
    BY DEF InstallStart, NotStarted
  <2>3. first \in Steps  BY DEF Steps
  <2> HIDE DEF first, blocked
  <2> QED BY <2>1, <2>2, <2>3 DEF Run, Skill
<1>3. Typed'
  <2>1. was' \in [jobs : Jobs, skill : Skill, config : Config]
    BY <1>1 DEF InstallStart, Found, Typed
  <2>2. receipts' \in [{"quiesce", "apply"} -> Receipt \cup {None}]
    BY DEF InstallStart
  <2>3. ledger.n <= ledger.n  BY DEF Typed, Ledger
  <2> QED BY <1>1, <1>2, <2>1, <2>2, <2>3 DEF Typed
<1>4. ReceiptsTell' /\ NotTwice(jobs)' /\ NotTwice(was.jobs)' /\ Known(config, jobs)' /\ Known(was.config, was.jobs)'
  BY <1>1 DEF ReceiptsTell, NoneCreated, NotTwice, Known, Present
<1>5. Worklist' /\ Answers'
  BY <1>1, <1>2 DEF Worklist, Forward, Answers, Answered
<1>6. Steered'
  BY <1>1, <1>2 DEF Steered
<1>7. Achieved'
  BY <1>1, <1>2 DEF Achieved, ChangeExpected, Known, Present
<1>8. HonestRollback'
  BY <1>1, <1>2 DEF HonestRollback
<1> QED BY <1>3, <1>4, <1>5, <1>6, <1>7, <1>8

(* The manager, the jobs, the receipts and the installer's step stay.       *)
LEMMA OthersStepKeeps ==
  ASSUME IInv, UNCHANGED <<jobs, mgr, receipts, faults, inst, skill, config, was>>,
         running' \subseteq running \cup Enabled(jobs),
         Typed', Steered'
  PROVE  IInv'
<1> USE DEF IInv
<1>1. ReceiptsTell' /\ NotTwice(jobs)' /\ NotTwice(was.jobs)' /\ Known(config, jobs)' /\ Known(was.config, was.jobs)'
  BY DEF ReceiptsTell, NoneCreated, Quiesced, Applied, NotTwice, Known, Present
<1>2. Worklist'
  <2>1. Enabled(jobs) \subseteq Present(jobs)  BY DEF Enabled
  <2>2. Enabled(jobs)' = Enabled(jobs) /\ Present(jobs)' = Present(jobs)  BY DEF Enabled, Present
  <2> QED BY <2>1, <2>2 DEF Worklist, Forward, EndsWith, AllDesired, Doing, AllFit, Fits
<1>3. Answers'
  BY DEF Answers, Answered, AllDesired, GivenBack, Quiesced, Applied, Enabled, Present
<1>4. Achieved'
  <2>1. /\ Enabled(jobs) = {} /\ running = {} => running' = {}
        /\ Present(jobs) = {} /\ running = {} => running' = {}
    BY DEF Enabled
  <2>2. Enabled(jobs)' = Enabled(jobs) /\ Present(jobs)' = Present(jobs)  BY DEF Enabled, Present
  <2>3. AllDesired' = AllDesired /\ LegacyOff(jobs)' = LegacyOff(jobs) /\ NoneCreated' = NoneCreated
        /\ Quiesced' = Quiesced
    BY DEF AllDesired, LegacyOff, NoneCreated, Quiesced
  <2> QED BY <2>1, <2>2, <2>3 DEF Achieved
<1>5. HonestRollback'
  BY DEF HonestRollback
<1> QED BY <1>1, <1>2, <1>3, <1>4, <1>5

(* The jobs and the machine.                                               *)
LEMMA JobStartsKeeps ==
  ASSUME IInv, JobStarts, UNCHANGED <<inst, skill, config, ledger, lock, was>>
  PROVE  IInv'
<1>1. /\ UNCHANGED <<jobs, mgr, receipts, faults>> /\ running' \subseteq running \cup Enabled(jobs)
      /\ running' \subseteq Slots /\ starts' \in 0 .. MaxStarts
  BY TopologyAssumption DEF JobStarts, IInv, Typed, Enabled, Present
<1>2. Typed' /\ Steered'
  BY <1>1 DEF IInv, Typed, Steered, Quiesced, Applied
<1> QED BY <1>1, <1>2, OthersStepKeeps

LEMMA JobLocksKeeps ==
  ASSUME IInv, JobLocks
  PROVE  IInv'
<1>1. /\ UNCHANGED <<jobs, running, mgr, receipts, faults, starts, inst, skill, config, ledger, was>>
      /\ lock' \in Slots
  BY DEF JobLocks, StillTopology, StillFiles, NoManager, IInv, Typed
<1>2. Typed' /\ Steered'
  BY <1>1, LocksDiffer DEF IInv, Typed, Steered, Quiesced, Applied
<1> QED BY <1>1, <1>2, OthersStepKeeps

LEMMA JobEndsKeeps ==
  ASSUME IInv, JobEnds
  PROVE  IInv'
<1>1. /\ UNCHANGED <<jobs, mgr, receipts, faults, starts, inst, skill, config, was>>
      /\ running' \subseteq running /\ lock' \in {lock, Free}
  BY DEF JobEnds, NoManager
<1>2. ledger' \in Ledger /\ inst.seen.n <= ledger'.n
  <2>1. ledger \in Ledger /\ inst.seen.n <= ledger.n /\ inst.seen.n \in Nat
    BY DEF IInv, Typed, Run, Ledger
  <2>2. ledger' = ledger \/ ledger' = [n |-> ledger.n + 1, canon |-> FALSE]
    BY DEF JobEnds
  <2>3. inst' = inst /\ ledger.n \in Nat /\ ledger.n + 1 \in Nat /\ inst.seen.n <= ledger.n + 1
    BY <1>1, <2>1 DEF Ledger
  <2>4. CASE ledger' = ledger  BY <2>1, <2>3, <2>4
  <2>5. CASE ledger' = [n |-> ledger.n + 1, canon |-> FALSE]
    <3>1. ledger'.n = ledger.n + 1  BY <2>5
    <3>2. ledger' \in Ledger  BY <2>3, <2>5 DEF Ledger
    <3> QED BY <2>3, <3>1, <3>2
  <2> QED BY <2>2, <2>4, <2>5
<1>3. Typed' /\ Steered'
  BY <1>1, <1>2, LocksDiffer DEF IInv, Typed, Steered, Quiesced, Applied
<1> QED BY <1>1, <1>3, OthersStepKeeps

LEMMA CrashKeeps ==
  ASSUME IInv, Crash
  PROVE  IInv'
<1> USE DEF IInv
<1>1. /\ UNCHANGED <<jobs, receipts, starts, skill, config, ledger, was>> /\ Typed
      /\ mgr' = Idle /\ running' = {} /\ lock' = Free /\ faults' \in 0 .. MaxFaults
  BY TopologyAssumption DEF Crash, StillFiles, Typed
<1>2. inst' \in Run /\ inst'.pc = "idle" /\ inst'.result = "KILLED" /\ inst'.seen = inst.seen
  BY <1>1, Finishing DEF Crash
<1>3. Idle \in Manager /\ Idle.op = "none" /\ Idle.todo = <<>>
  <2>1. <<>> \in Seq(Call) /\ {} \in SUBSET Owned /\ {} \in SUBSET Slots  OBVIOUS
  <2> QED BY <2>1 DEF Idle, Manager
<1>4. Typed'
  BY <1>1, <1>2, <1>3 DEF Typed
<1>5. Steered' /\ Worklist' /\ Answers' /\ Achieved' /\ HonestRollback'
  BY <1>1, <1>2, <1>3, LocksDiffer DEF Steered, Worklist, Forward, Answers, Answered, Achieved, HonestRollback
<1>6. ReceiptsTell' /\ NotTwice(jobs)' /\ NotTwice(was.jobs)' /\ Known(config, jobs)' /\ Known(was.config, was.jobs)'
  BY <1>1 DEF ReceiptsTell, NoneCreated, Quiesced, Applied, NotTwice, Known, Present
<1> QED BY <1>4, <1>5, <1>6
-----------------------------------------------------------------------------
(* The manager's record when a transaction begins, or is answered at once. *)
LEMMA Beginning ==
  ASSUME NEW op \in {"quiesce", "apply", "rollback"}, NEW rec \in Receipt, NEW calls \in Seq(Call),
         Begins(op, rec, calls)
  PROVE  /\ mgr' \in Manager /\ mgr'.op = op /\ mgr'.rec = rec /\ mgr'.todo = calls /\ mgr'.tried = {}
         /\ mgr'.off = {} /\ mgr'.undo = FALSE
<1>1. mgr' = [op |-> op, todo |-> calls, rec |-> rec, tried |-> {}, off |-> {}, errors |-> FALSE,
              undo |-> FALSE, result |-> "none"]
  BY DEF Begins, Idle
<1>2. {} \in SUBSET Owned /\ {} \in SUBSET Slots  OBVIOUS
<1> QED BY <1>1, <1>2 DEF Manager

(* The manager that ends before its first command is idle again.           *)
LEMMA Answering ==
  ASSUME NEW r \in {"prepared", "ready", "failed", "incomplete"}, AnswersAtOnce(r)
  PROVE  mgr' \in Manager /\ mgr'.op = "none" /\ mgr'.todo = <<>> /\ mgr'.result = r
<1>1. mgr' = [op |-> "none", todo |-> <<>>, rec |-> None, tried |-> {}, off |-> {}, errors |-> FALSE,
              undo |-> FALSE, result |-> r]
  BY DEF AnswersAtOnce, Idle
<1>2. {} \in SUBSET Owned /\ {} \in SUBSET Slots /\ <<>> \in Seq(Call)  OBVIOUS
<1>3. [op |-> "none", todo |-> <<>>, rec |-> None, tried |-> {}, off |-> {}, errors |-> FALSE,
       undo |-> FALSE, result |-> r] \in Manager
  BY <1>2 DEF Manager
<1> QED BY <1>1, <1>3

(* A list of calls with one more at its end. *)
LEMMA OneMore ==
  ASSUME NEW a \in Seq(Call), NEW b \in Seq(Call), Len(b) = 1
  PROVE  /\ a \o b \in Seq(Call) /\ Len(a \o b) = Len(a) + 1 /\ Len(a) \in Nat /\ a \o b # <<>>
         /\ \A i \in 1 .. Len(a) : (a \o b)[i] = a[i]
         /\ (a \o b)[Len(a) + 1] = b[1]
<1>1. Len(a) \in Nat /\ a \o b \in Seq(Call) /\ Len(a \o b) = Len(a) + Len(b)
  BY ConcatProperties, LenProperties, Zenon
<1>2. \A i \in 1 .. Len(a) + Len(b) : (a \o b)[i] = IF i <= Len(a) THEN a[i] ELSE b[i - Len(a)]
  BY ConcatProperties
<1>3. \A i \in 1 .. Len(a) : i \in 1 .. Len(a) + Len(b) /\ i <= Len(a)
  BY <1>1
<1>4. /\ Len(a) + 1 \in 1 .. Len(a) + Len(b) /\ ~(Len(a) + 1 <= Len(a))
      /\ (Len(a) + 1) - Len(a) = 1 /\ Len(a) + 1 # 0
  BY <1>1
<1>5. Len(<<>>) = 0  BY EmptySeq
<1> QED BY <1>1, <1>2, <1>3, <1>4, <1>5

(* A list to which a probe is added ends with it.                          *)
LEMMA EndOfConcat ==
  ASSUME NEW a \in Seq(Call), NEW what \in Probes
  PROVE  a \o Probe(what) # <<>> /\ (a \o Probe(what))[Len(a \o Probe(what))].do = what
<1>1. Probe(what) \in Seq(Call) /\ Len(Probe(what)) = 1 /\ Probe(what)[1].do = what
  BY FitProbe DEF AllFit
<1> DEFINE b == Probe(what)
<1>2. b \in Seq(Call) /\ Len(b) = 1 /\ b[1].do = what
  BY <1>1
<1> HIDE DEF b
<1>3. Len(a \o b) = Len(a) + 1 /\ (a \o b)[Len(a) + 1] = b[1] /\ a \o b # <<>>
  BY <1>2, OneMore
<1> QED BY <1>2, <1>3 DEF b

(* The calls of the three transactions, as they are when one begins.        *)
LEMMA QuiesceFits ==
  ASSUME jobs \in Jobs, NEW op
  PROVE  /\ AllFit(QuiesceCalls, op, jobs)
         /\ \A i \in 1 .. Len(QuiesceCalls) : QuiesceCalls[i].do \in {"off", "quiet"}
         /\ QuiesceCalls # <<>> /\ QuiesceCalls[Len(QuiesceCalls)].do = "quiet"
<1> DEFINE a == Calls("off", Enabled(jobs))
           b == Probe("quiet")
<1>1. Enabled(jobs) \in SUBSET Slots /\ "off" \in Verbs /\ "quiet" \in Probes
      /\ \A s \in Enabled(jobs) : s \in Slots /\ jobs[s] # NoJob
  BY DEF Enabled, Present, Verbs, Probes
<1>2. \A s \in Enabled(jobs) : Fits([do |-> "off", slot |-> s], op, jobs)
  BY <1>1 DEF Fits
<1>3. AllFit(a, op, jobs)
  BY <1>1, <1>2, FitCalls
<1>4. AllFit(b, op, jobs) /\ Len(b) = 1 /\ b[1].do = "quiet"
  BY <1>1, FitProbe
<1>5. \A i \in 1 .. Len(a) : a[i].do = "off"
  BY <1>1, CallsOf
<1>6. QuiesceCalls = a \o b  BY DEF QuiesceCalls
<1> HIDE DEF a, b
<1>7. AllFit(a \o b, op, jobs)
  BY <1>3, <1>4, FitConcat
<1>8. a \in Seq(Call) /\ b \in Seq(Call)
  BY <1>3, <1>4 DEF AllFit
<1>9. /\ Len(a \o b) = Len(a) + 1 /\ Len(a) \in Nat /\ a \o b # <<>>
      /\ \A i \in 1 .. Len(a) : (a \o b)[i] = a[i]
      /\ (a \o b)[Len(a) + 1] = b[1]
  BY <1>4, <1>8, OneMore
<1>10. \A i \in 1 .. Len(a) + 1 : (a \o b)[i].do \in {"off", "quiet"}
  <2>1. TAKE i \in 1 .. Len(a) + 1
  <2>2. CASE i \in 1 .. Len(a)  BY <1>5, <1>9, <2>2
  <2>3. CASE i = Len(a) + 1  BY <1>4, <1>9, <2>3
  <2> QED BY <1>9, <2>2, <2>3
<1> QED BY <1>4, <1>6, <1>7, <1>9, <1>10

LEMMA ApplyFits ==
  ASSUME jobs \in Jobs, NEW rec \in Receipt
  PROVE  /\ AllFit(ApplyCalls(rec), "apply", jobs)
         /\ ApplyCalls(rec) # <<>> /\ ApplyCalls(rec)[Len(ApplyCalls(rec))].do = "verify"
<1>1. /\ Enabled(jobs) \cap Legacy \in SUBSET Slots /\ Enabled(jobs) \cap Owned \in SUBSET Slots
      /\ ToStage(rec) \in SUBSET Slots /\ Owned \in SUBSET Slots
      /\ {"off", "stage", "on"} \subseteq Verbs /\ {"staged", "canary", "verify"} \subseteq Probes
  BY DEF Enabled, Present, Verbs, Probes, ToStage, Slots
<1>2. /\ \A s \in Enabled(jobs) : Fits([do |-> "off", slot |-> s], "apply", jobs)
      /\ \A s \in Owned : Fits([do |-> "stage", slot |-> s], "apply", jobs)
      /\ \A s \in Owned : Fits([do |-> "on", slot |-> s], "apply", jobs)
  BY <1>1 DEF Fits, Enabled, Present
<1>3. AllFit(Calls("off", Enabled(jobs) \cap Legacy), "apply", jobs)
  BY <1>1, <1>2, FitCalls
<1>4. AllFit(Calls("off", Enabled(jobs) \cap Owned), "apply", jobs)
  BY <1>1, <1>2, FitCalls
<1>5. AllFit(Calls("stage", ToStage(rec)), "apply", jobs)
  <2>1. ToStage(rec) \subseteq Owned  BY DEF ToStage
  <2> QED BY <1>1, <1>2, <2>1, FitCalls
<1>6. AllFit(Calls("on", Owned), "apply", jobs)
  BY <1>1, <1>2, FitCalls
<1>7. AllFit(Probe("staged"), "apply", jobs) /\ AllFit(Probe("canary"), "apply", jobs)
      /\ AllFit(Probe("verify"), "apply", jobs)
  BY <1>1, FitProbe
<1> DEFINE b1 == Calls("off", Enabled(jobs) \cap Legacy) \o Calls("off", Enabled(jobs) \cap Owned)
           b2 == b1 \o Calls("stage", ToStage(rec))
           b3 == b2 \o Probe("staged")
           b4 == b3 \o Probe("canary")
           b5 == b4 \o Calls("on", Owned)
<1>8. ApplyCalls(rec) = b5 \o Probe("verify")
  BY DEF ApplyCalls
<1>9. AllFit(b1, "apply", jobs)  BY <1>3, <1>4, FitConcat
<1> HIDE DEF b1
<1>10. AllFit(b2, "apply", jobs)  BY <1>5, <1>9, FitConcat
<1> HIDE DEF b2
<1>11. AllFit(b3, "apply", jobs)  BY <1>7, <1>10, FitConcat
<1> HIDE DEF b3
<1>12. AllFit(b4, "apply", jobs)  BY <1>7, <1>11, FitConcat
<1> HIDE DEF b4
<1>13. AllFit(b5, "apply", jobs)  BY <1>6, <1>12, FitConcat
<1> HIDE DEF b5
<1>14. AllFit(b5 \o Probe("verify"), "apply", jobs)  BY <1>7, <1>13, FitConcat
<1>15. b5 \in Seq(Call)  BY <1>13 DEF AllFit
<1> QED BY <1>1, <1>8, <1>14, <1>15, EndOfConcat
(* A step that hands the work to the manager: what it may rely on stays.    *)
LEMMA HandsOver ==
  ASSUME IInv, NEW pc \in Working, Goes(pc), mgr.op = "none",
         <<inst.pc, pc>> \in {<<"quiesce", "quiescing">>, <<"apply", "applying">>,
                              <<"undoApply", "undoingApply">>, <<"undoQuiesce", "undoingQuiesce">>,
                              <<"recoverApply", "recoveringApply">>, <<"recoverQuiesce", "recoveringQuiesce">>},
         UNCHANGED <<jobs, running, starts, skill, config, ledger, was, lock>>, faults' \in 0 .. MaxFaults,
         mgr' \in Manager, receipts' \in [{"quiesce", "apply"} -> Receipt \cup {None}],
         ReceiptsTell', Steered', Worklist', Answers'
  PROVE  IInv'
<1>1. Typed /\ pc \in Steps  BY DEF IInv, Working, Steps
<1>2. /\ inst' \in Run /\ inst'.pc = pc /\ inst'.seen = inst.seen /\ inst'.kept = inst.kept
      /\ inst'.swapped = inst.swapped
      /\ inst'.preserve = inst.preserve /\ inst'.result = inst.result
  BY <1>1, Going
<1>3. Typed'
  BY <1>1, <1>2 DEF Typed
<1>4. Achieved'
  <2>1. NoneCreated' = NoneCreated  BY DEF NoneCreated
  <2>2. pc \notin {"idle", "quiesce", "lock", "files", "aside", "place", "apply", "last", "undoQuiesce",
                   "recoverQuiesce", "recoverApply", "undoApply", "unplace", "unaside", "unfile"}
    BY DEF Working
  <2> QED BY <1>2, <2>1, <2>2 DEF Achieved, IInv
<1>5. NotTwice(jobs)' /\ NotTwice(was.jobs)' /\ Known(config, jobs)' /\ Known(was.config, was.jobs)'
  BY DEF IInv, NotTwice, Known, Present
<1>6. HonestRollback'
  BY <1>2 DEF HonestRollback, Working
<1> QED BY <1>3, <1>4, <1>5, <1>6 DEF IInv

(* The quiescence begins: its receipt holds what the run found.            *)
LEMMA InstallQuiesceKeeps ==
  ASSUME IInv, InstallQuiesce
  PROVE  IInv'
<1>1. /\ UNCHANGED <<jobs, running, starts, skill, config, ledger, was, lock>>
      /\ inst.pc = "quiesce" /\ Goes("quiescing") /\ "quiescing" \in Working /\ StartQuiesce(config.prepared)
  BY DEF InstallQuiesce, StillTopology, StillFiles, Working
<1>2. mgr.op = "none" /\ Typed /\ ~Quiesced /\ ~Applied /\ jobs = was.jobs /\ NoneCreated /\ lock # Mine
      /\ jobs \in Jobs /\ ReceiptsTell
  <2>1. inst.pc \notin Working  BY <1>1 DEF Working
  <2> QED BY <1>1, <2>1, NoManagerAtWork DEF IInv, Steered, ReceiptsTell, Typed
<1>3. inst'.pc = "quiescing"  BY <1>1, <1>2, Going DEF Steps
<1> DEFINE acts == [s \in Owned |-> IF jobs[s] = NoJob THEN "none" ELSE "update"]
           rec == ReceiptOf(acts)
<1>0. faults' \in 0 .. MaxFaults
  BY <1>1, <1>2, TopologyAssumption DEF StartQuiesce, Unread, Typed
<1>4. PICK a : /\ AnswersAtOnce(a) /\ receipts' = receipts
               /\ a = "failed" \/ (a = "prepared" /\ running = {} /\ Present(jobs) = {})
      \/ /\ running = {} /\ receipts' = [receipts EXCEPT !.quiesce = rec]
         /\ Begins("quiesce", rec, QuiesceCalls)
  <2>1. CASE Unread("failed")  BY <2>1 DEF Unread, AnswersAtOnce
  <2>2. CASE ~Unread("failed")  BY <1>1, <2>2 DEF StartQuiesce, AnswersAtOnce
  <2> QED BY <2>1, <2>2
<1>5. CASE /\ AnswersAtOnce(a) /\ receipts' = receipts
           /\ a = "failed" \/ (a = "prepared" /\ running = {} /\ Present(jobs) = {})
  <2>1. mgr' \in Manager /\ mgr'.op = "none" /\ mgr'.todo = <<>> /\ mgr'.result = a
    BY <1>5, Answering
  <2>2. receipts' \in [{"quiesce", "apply"} -> Receipt \cup {None}]  BY <1>2, <1>5 DEF Typed
  <2>3. ReceiptsTell'
    BY <1>1, <1>2, <1>5 DEF ReceiptsTell, Quiesced, Applied, NoneCreated
  <2>4. Steered'
    BY <1>1, <1>2, <1>3, <1>5, <2>1 DEF Steered, Quiesced, Applied
  <2>5. Worklist'
    BY <2>1 DEF Worklist, Forward
  <2>6. Answers'
    BY <1>1, <1>2, <1>3, <1>5, <2>1 DEF Answers, Answered, Quiesced, Enabled
  <2> QED BY <1>0, <1>1, <1>2, <2>1, <2>2, <2>3, <2>4, <2>5, <2>6, HandsOver
<1>6. CASE /\ running = {} /\ receipts' = [receipts EXCEPT !.quiesce = rec]
           /\ Begins("quiesce", rec, QuiesceCalls)
  <2>1. acts \in [Owned -> {"create", "update", "unchanged", "none"}]
        /\ \A s \in Owned : acts[s] # "create" /\ (acts[s] = "update" => jobs[s] # NoJob)
    OBVIOUS
  <2> HIDE DEF acts
  <2>2. rec \in Receipt /\ rec.before = jobs /\ rec.acts = acts
    BY <1>2, <2>1 DEF ReceiptOf, Receipt, Jobs, JobOrNone
  <2> HIDE DEF rec
  <2>3. QuiesceCalls \in Seq(Call)  BY <1>2, QuiesceFits DEF AllFit
  <2>4. /\ mgr' \in Manager /\ mgr'.op = "quiesce" /\ mgr'.rec = rec /\ mgr'.todo = QuiesceCalls /\ mgr'.tried = {}
        /\ mgr'.off = {} /\ mgr'.undo = FALSE
    BY <1>6, <2>2, <2>3, Beginning
  <2>5. /\ receipts' \in [{"quiesce", "apply"} -> Receipt \cup {None}]
        /\ receipts'.quiesce = rec /\ receipts'.apply = receipts.apply /\ rec # None
    BY <1>2, <1>6, <2>2, DistinctAssumption DEF Typed
  <2>6. ReceiptsTell'
    BY <1>1, <1>2, <2>1, <2>2, <2>5 DEF ReceiptsTell, Quiesced, Applied, NoneCreated
  <2>7. Steered'
    BY <1>1, <1>2, <1>3, <2>4, <2>5 DEF Steered, Quiesced, Applied
  <2>8. Worklist'
    <3>1. AllFit(mgr.todo, mgr.op, mgr.rec.before)' /\ mgr'.todo # <<>>
          /\ EndsWith("quiet")' /\ \A i \in 1 .. Len(mgr'.todo) : mgr'.todo[i].do \in {"off", "quiet"}
      BY <1>2, <2>2, <2>4, QuiesceFits DEF EndsWith
    <3> QED BY <1>1, <1>6, <2>4, <3>1 DEF Worklist, Forward, Doing
  <2>9. Answers'
    BY <1>3, <2>4 DEF Answers, Answered
  <2> QED BY <1>0, <1>1, <1>2, <2>4, <2>5, <2>6, <2>7, <2>8, <2>9, HandsOver
<1> QED BY <1>4, <1>5, <1>6

(* An adopted job that an installed topology may be applied to is off.      *)
LEMMA AdoptedAreOff ==
  ASSUME IInv, inst.pc = "apply", AdoptionHolds(config.prepared)
  PROVE  LegacyOff(jobs)
<1>1. config.is = "new" /\ Known(config, jobs) /\ jobs \in Jobs  BY DEF IInv, Achieved, Typed
<1>2. SUFFICES ASSUME NEW s \in Legacy, jobs[s] # NoJob PROVE ~jobs[s].on
  BY DEF LegacyOff
<1>3. config.prepared
  BY <1>1, <1>2, OwnedOrLegacy DEF Known, Present
<1>4. jobs[s] = LegacyJob(FALSE)
  BY <1>2, <1>3 DEF AdoptionHolds
<1> QED BY <1>4 DEF LegacyJob

(* The topology is applied: its receipt holds adopted jobs that are off.   *)
LEMMA InstallApplyKeeps ==
  ASSUME IInv, InstallApply
  PROVE  IInv'
<1>1. /\ UNCHANGED <<jobs, running, starts, skill, config, ledger, was, lock>>
      /\ inst.pc = "apply" /\ Goes("applying") /\ "applying" \in Working /\ StartApply(config.prepared)
  BY DEF InstallApply, StillTopology, StillFiles, Working
<1>2. mgr.op = "none" /\ Typed /\ ~Applied /\ NoneCreated /\ jobs \in Jobs /\ ReceiptsTell
      /\ \A s \in Slots : was.jobs[s] = NoJob => jobs[s] = NoJob
  <2>1. inst.pc \notin Working  BY <1>1 DEF Working
  <2> QED BY <1>1, <2>1, NoManagerAtWork DEF IInv, Steered, ReceiptsTell, Typed, NoneCreated
<1>3. inst'.pc = "applying"  BY <1>1, <1>2, Going DEF Steps
<1> DEFINE rec == ReceiptOf(PlanOf(jobs))
<1>4. /\ PlanOf(jobs) \in [Owned -> {"create", "update", "unchanged", "none"}]
      /\ \A s \in Owned : PlanOf(jobs)[s] = "create" <=> jobs[s] = NoJob
      /\ \A s \in Owned : PlanOf(jobs)[s] = "unchanged" => jobs[s] = Desired(TRUE)
  BY DEF PlanOf
<1>5. rec \in Receipt /\ rec.before = jobs /\ rec.acts = PlanOf(jobs)
  BY <1>2, <1>4 DEF ReceiptOf, Receipt, Jobs, JobOrNone
<1> HIDE DEF rec
<1>6. \/ /\ AnswersAtOnce("ready") /\ receipts' = receipts /\ AdoptionHolds(config.prepared)
         /\ \A s \in Owned : rec.acts[s] = "unchanged"
      \/ AnswersAtOnce("failed") /\ receipts' = receipts
      \/ /\ AdoptionHolds(config.prepared) /\ receipts' = [receipts EXCEPT !.apply = rec]
         /\ Begins("apply", rec, ApplyCalls(rec))
  <2>1. CASE Unread("failed")  BY <2>1 DEF Unread, AnswersAtOnce
  <2>2. CASE ~Unread("failed")  BY <1>1, <2>2 DEF StartApply, AnswersAtOnce, rec
  <2> QED BY <2>1, <2>2
<1>0. faults' \in 0 .. MaxFaults
  BY <1>1, <1>2, TopologyAssumption DEF StartApply, Unread, Typed
<1>7. ASSUME NEW a \in {"ready", "failed"}, AnswersAtOnce(a), receipts' = receipts,
             a = "ready" => AllDesired /\ LegacyOff(jobs)
      PROVE  IInv'
  <2>1. mgr' \in Manager /\ mgr'.op = "none" /\ mgr'.todo = <<>> /\ mgr'.result = a
    BY <1>7, Answering
  <2>2. receipts' \in [{"quiesce", "apply"} -> Receipt \cup {None}]  BY <1>2, <1>7 DEF Typed
  <2>3. ReceiptsTell'
    BY <1>1, <1>2, <1>7 DEF ReceiptsTell, Quiesced, Applied, NoneCreated
  <2>4. Steered'
    BY <1>1, <1>2, <1>3, <1>7, <2>1 DEF Steered, Quiesced, Applied
  <2>5. Worklist'
    BY <2>1 DEF Worklist, Forward
  <2>6. Answers'
    <3>1. AllDesired' = AllDesired /\ LegacyOff(jobs)' = LegacyOff(jobs) /\ ~Applied'
      BY <1>1, <1>2, <1>7 DEF AllDesired, LegacyOff, Applied
    <3> QED BY <1>3, <1>7, <2>1, <3>1 DEF Answers, Answered
  <2> QED BY <1>0, <1>1, <1>2, <2>1, <2>2, <2>3, <2>4, <2>5, <2>6, HandsOver
<1>8. CASE /\ AdoptionHolds(config.prepared) /\ receipts' = [receipts EXCEPT !.apply = rec]
           /\ Begins("apply", rec, ApplyCalls(rec))
  <2>1. LegacyOff(jobs)  BY <1>1, <1>8, AdoptedAreOff
  <2>2. ApplyCalls(rec) \in Seq(Call)  BY <1>2, <1>5, ApplyFits DEF AllFit
  <2>3. /\ mgr' \in Manager /\ mgr'.op = "apply" /\ mgr'.rec = rec /\ mgr'.todo = ApplyCalls(rec) /\ mgr'.tried = {}
        /\ mgr'.off = {} /\ mgr'.undo = FALSE
    BY <1>5, <1>8, <2>2, Beginning
  <2>4. /\ receipts' \in [{"quiesce", "apply"} -> Receipt \cup {None}]
        /\ receipts'.apply = rec /\ receipts'.quiesce = receipts.quiesce /\ rec # None
    BY <1>2, <1>5, <1>8, DistinctAssumption DEF Typed
  <2>5. ReceiptsTell'
    <3>1. Applied' /\ Quiesced' = Quiesced /\ LegacyOff(receipts.apply.before)'
      BY <1>5, <2>1, <2>4 DEF Applied, Quiesced, LegacyOff
    <3>2. ~Quiesced => jobs = was.jobs  BY <1>2 DEF ReceiptsTell
    <3> QED BY <1>1, <1>2, <1>4, <1>5, <2>4, <3>1, <3>2 DEF ReceiptsTell, Quiesced
  <2>6. Steered'
    BY <1>1, <1>2, <1>3, <2>3, <2>4 DEF Steered, Quiesced, Applied, IInv
  <2>7. Worklist'
    <3>1. AllFit(mgr.todo, mgr.op, mgr.rec.before)' /\ mgr'.todo # <<>> /\ EndsWith("verify")'
      BY <1>2, <1>5, <2>3, ApplyFits DEF EndsWith
    <3>2. LegacyOff(jobs)' /\ \A s \in Owned : receipts'.apply.before[s] = NoJob => jobs'[s] = NoJob
      BY <1>1, <1>5, <2>1, <2>4 DEF LegacyOff
    <3> QED BY <2>3, <3>1, <3>2 DEF Worklist, Forward, Doing
  <2>8. Answers'
    BY <1>3, <2>3 DEF Answers, Answered
  <2> QED BY <1>0, <1>1, <1>2, <2>3, <2>4, <2>5, <2>6, <2>7, <2>8, HandsOver
<1>9. CASE /\ AnswersAtOnce("ready") /\ receipts' = receipts /\ AdoptionHolds(config.prepared)
           /\ \A s \in Owned : rec.acts[s] = "unchanged"
  <2>1. AllDesired /\ LegacyOff(jobs)
    BY <1>1, <1>4, <1>5, <1>9, AdoptedAreOff DEF AllDesired
  <2> QED BY <1>7, <1>9, <2>1
<1> QED BY <1>6, <1>7, <1>8, <1>9
(* The calls that a receipt asks a rollback for.                            *)
RollbackCalls(rec) == Reverts(rec) \o Calls("set", Present(rec.before) \cap Legacy)
LEMMA RollbackFits ==
  ASSUME NEW rec \in Receipt,
         \A s \in Owned : rec.acts[s] = "create" => rec.before[s] = NoJob,
         \A s \in Owned : rec.acts[s] = "update" => rec.before[s] # NoJob
  PROVE  AllFit(RollbackCalls(rec), "rollback", rec.before)
<1> DEFINE staged == ToStage(rec)
           n == Cardinality(staged)
           order == SetToSeq(staged)
           call(s) == [do |-> IF rec.acts[s] = "create" THEN "remove" ELSE "restore", slot |-> s]
           adopted == Present(rec.before) \cap Legacy
<1>1. n \in Nat /\ order \in [1 .. n -> staged]
  <2>1. IsFiniteSet(staged)  BY SlotsFinite, OwnedOrLegacy, FS_Subset DEF ToStage
  <2> QED BY <2>1, SetAsSequence
<1>2. ASSUME NEW s \in staged PROVE call(s) \in Call /\ Fits(call(s), "rollback", rec.before)
  <2>1. s \in Owned /\ s \in Slots /\ rec.acts[s] \in {"create", "update"}  BY OwnedOrLegacy DEF ToStage
  <2> QED BY <2>1 DEF Call, Fits
<1>3. Reverts(rec) = [i \in 1 .. n |-> call(order[i])]
  BY DEF Reverts
<1> HIDE DEF staged, n, order, call
<1>4. AllFit(Reverts(rec), "rollback", rec.before)
  <2>1. \A i \in 1 .. n : call(order[i]) \in Call /\ Fits(call(order[i]), "rollback", rec.before)
    BY <1>1, <1>2
  <2>2. Reverts(rec) \in Seq(Call) /\ Len(Reverts(rec)) = n /\ \A i \in 1 .. n : Reverts(rec)[i] = call(order[i])
    BY <1>1, <1>3, <2>1
  <2> QED BY <2>1, <2>2 DEF AllFit
<1>5. AllFit(Calls("set", adopted), "rollback", rec.before)
  <2>1. adopted \in SUBSET Slots /\ "set" \in Verbs  BY OwnedOrLegacy DEF Verbs, Present
  <2>2. \A s \in adopted : Fits([do |-> "set", slot |-> s], "rollback", rec.before)  BY DEF Fits, Present
  <2> HIDE DEF adopted
  <2> QED BY <2>1, <2>2, FitCalls
<1> QED BY <1>4, <1>5, FitConcat DEF RollbackCalls

(* A rollback begins, by the installer or by the operator.                 *)
LEMMA RollbackStarts ==
  ASSUME IInv, NEW pc \in Working, Goes(pc), NEW rec, StartRollback(rec),
         \/ /\ <<inst.pc, pc>> \in {<<"undoApply", "undoingApply">>, <<"recoverApply", "recoveringApply">>}
            /\ rec = receipts.apply
         \/ /\ <<inst.pc, pc>> \in {<<"undoQuiesce", "undoingQuiesce">>, <<"recoverQuiesce", "recoveringQuiesce">>}
            /\ rec = receipts.quiesce,
         UNCHANGED <<jobs, running, starts, skill, config, ledger, was, lock>>
  PROVE  IInv'
<1>1. /\ mgr.op = "none" /\ Typed /\ ReceiptsTell /\ pc \in Steps
      /\ inst.pc \in {"undoApply", "recoverApply"} => Applied
      /\ inst.pc \in {"undoQuiesce", "recoverQuiesce"} => Quiesced
      /\ lock = Mine => inst.pc \notin {"recoverApply", "recoverQuiesce"}
  <2>1. inst.pc \notin Working  BY DEF Working
  <2> QED BY <2>1, NoManagerAtWork DEF IInv, Steered, Working, Steps
<1>2. inst'.pc = pc  BY <1>1, Going
<1>3. /\ rec \in Receipt
      /\ \A s \in Owned : rec.acts[s] = "create" => rec.before[s] = NoJob
      /\ \A s \in Owned : rec.acts[s] = "update" => rec.before[s] # NoJob
  <2>1. CASE rec = receipts.apply /\ Applied
    BY <1>1, <2>1 DEF ReceiptsTell, Typed, Applied
  <2>2. CASE rec = receipts.quiesce /\ Quiesced
    BY <1>1, <2>2, OwnedOrLegacy DEF ReceiptsTell, Typed, Quiesced
  <2> QED BY <1>1, <2>1, <2>2
<1>4. AllFit(RollbackCalls(rec), "rollback", rec.before) /\ RollbackCalls(rec) \in Seq(Call)
  BY <1>3, RollbackFits DEF AllFit
<1>5. /\ receipts' = receipts /\ faults' \in 0 .. MaxFaults
      /\ Begins("rollback", rec, RollbackCalls(rec)) \/ AnswersAtOnce("incomplete")
  BY <1>1, TopologyAssumption DEF StartRollback, RollbackCalls, Unread, AnswersAtOnce, Typed
<1>6. /\ mgr' \in Manager
      /\ \/ /\ mgr'.op = "rollback" /\ mgr'.rec = rec /\ mgr'.todo = RollbackCalls(rec)
            /\ mgr'.tried = {} /\ mgr'.off = {} /\ mgr'.undo = FALSE
         \/ mgr'.op = "none" /\ mgr'.todo = <<>> /\ mgr'.result = "incomplete"
  <2>1. CASE Begins("rollback", rec, RollbackCalls(rec))  BY <1>3, <1>4, <2>1, Beginning
  <2>2. CASE AnswersAtOnce("incomplete")  BY <2>2, Answering
  <2> QED BY <1>5, <2>1, <2>2
<1>7. receipts' \in [{"quiesce", "apply"} -> Receipt \cup {None}]  BY <1>1, <1>5 DEF Typed
<1>8. ReceiptsTell'
  BY <1>1, <1>5 DEF ReceiptsTell, Quiesced, Applied, NoneCreated
<1>9. Steered'
  BY <1>1, <1>2, <1>5, <1>6 DEF Steered, Quiesced, Applied, IInv
<1>10. Worklist'
  BY <1>4, <1>6 DEF Worklist, Forward, Doing
<1>11. Answers'
  BY <1>2, <1>6 DEF Answers, Answered
<1> QED BY <1>1, <1>5, <1>6, <1>7, <1>8, <1>9, <1>10, <1>11, HandsOver

LEMMA RollbacksKeep ==
  ASSUME IInv, InstallUndoCron \/ OperatorRollsBack
  PROVE  IInv'
<1>1. UNCHANGED <<jobs, running, starts, skill, config, ledger, was, lock>>
  BY DEF InstallUndoCron, OperatorRollsBack, StillTopology, StillFiles
<1>2. PICK t \in {<<"undoApply", "apply", "undoingApply">>, <<"undoQuiesce", "quiesce", "undoingQuiesce">>,
                  <<"recoverApply", "apply", "recoveringApply">>,
                  <<"recoverQuiesce", "quiesce", "recoveringQuiesce">>} :
        inst.pc = t[1] /\ StartRollback(receipts[t[2]]) /\ Goes(t[3])
  BY DEF InstallUndoCron, OperatorRollsBack
<1> QED BY <1>1, <1>2, RollbackStarts DEF Working
-----------------------------------------------------------------------------
(* What a command may make of the job it addresses.                         *)
Becomes(c, v, before) ==
  /\ v \in JobOrNone
  /\ jobs[c.slot] = NoJob /\ c.do # "stage" => v = NoJob
  /\ c.slot \in Legacy => (v = NoJob <=> jobs[c.slot] = NoJob)
  /\ c.slot \in Legacy /\ v # NoJob /\ v.on => jobs[c.slot].on \/ (c.do = "set" /\ before[c.slot].on)
  /\ c.do = "off" => (v = NoJob <=> jobs[c.slot] = NoJob)

(* Every job the manager writes is one, and none is the empty slot.        *)
LEMMA JobKinds ==
  /\ \A e \in BOOLEAN : Desired(e) \in Job /\ [Desired(e) EXCEPT !.code = "half"] \in Job
  /\ \A j \in Job : /\ Off(j) \in Job /\ ~Off(j).on
                    /\ \A e \in BOOLEAN : [j EXCEPT !.on = e] \in Job /\ [j EXCEPT !.on = e].on = e
  /\ \A j \in Job : j # NoJob /\ j.on \in BOOLEAN
BY DistinctAssumption DEF Desired, Job, Off

(* Every stage of a command is what the command may make of the job.       *)
LEMMA Effects ==
  ASSUME jobs \in Jobs, NEW before \in Jobs, NEW c \in Call, NEW op, Fits(c, op, before), ~IsProbe(c)
  PROVE  /\ Becomes(c, Last(Stages(c, before)), before)
         /\ \A v \in Range(Stages(c, before)) : Becomes(c, v, before)
<1>1. /\ c.slot \in Slots /\ jobs[c.slot] \in JobOrNone /\ before[c.slot] \in JobOrNone
      /\ c.do \in Verbs
      /\ c.do \notin {"off", "set"} => c.slot \notin Legacy
      /\ c.do = "restore" => before[c.slot] # NoJob
      /\ c.do = "set" => before[c.slot] # NoJob
  BY OwnedOrLegacy DEF Fits, IsProbe, Jobs, Call, Verbs
<1>2. ASSUME NEW v, Becomes(c, v, before), Stages(c, before) = <<v>>
      PROVE  /\ Becomes(c, Last(Stages(c, before)), before)
             /\ \A w \in Range(Stages(c, before)) : Becomes(c, w, before)
  <2>1. Last(<<v>>) = v /\ \A w \in Range(<<v>>) : w = v  BY DEF Last, Range
  <2> QED BY <1>2, <2>1
<1>3. CASE jobs[c.slot] = NoJob /\ c.do # "stage"
  <2>1. Stages(c, before) = <<NoJob>>  BY <1>3 DEF Stages
  <2>2. Becomes(c, NoJob, before)  BY <1>3 DEF Becomes, JobOrNone
  <2> QED BY <1>2, <2>1, <2>2
<1>4. CASE c.do = "off" /\ jobs[c.slot] # NoJob
  <2>1. Stages(c, before) = <<Off(jobs[c.slot])>>  BY <1>4 DEF Stages
  <2>2. Becomes(c, Off(jobs[c.slot]), before)  BY <1>1, <1>4, JobKinds DEF Becomes, JobOrNone
  <2> QED BY <1>2, <2>1, <2>2
<1>5. CASE c.do = "on" /\ jobs[c.slot] # NoJob
  <2> DEFINE j == jobs[c.slot]
             w == [j EXCEPT !.on = TRUE]
  <2>1. Stages(c, before) = <<w>>  BY <1>5 DEF Stages
  <2>2. j \in Job  BY <1>1, <1>5 DEF JobOrNone
  <2>3. w \in Job /\ w # NoJob  BY <2>2, JobKinds
  <2> HIDE DEF w
  <2>4. Becomes(c, w, before)  BY <1>1, <1>5, <2>3 DEF Becomes, JobOrNone
  <2> QED BY <1>2, <2>1, <2>4
<1>6. CASE c.do = "set" /\ jobs[c.slot] # NoJob
  <2> DEFINE j == jobs[c.slot]
             e == before[c.slot].on
             w == [j EXCEPT !.on = e]
  <2>1. Stages(c, before) = <<w>>  BY <1>6 DEF Stages
  <2>2. j \in Job /\ e \in BOOLEAN  BY <1>1, <1>6, JobKinds DEF JobOrNone
  <2> HIDE DEF e
  <2>3. w \in Job /\ w # NoJob /\ w.on = e  BY <2>2, JobKinds
  <2> HIDE DEF w
  <2>4. Becomes(c, w, before)  BY <1>1, <1>6, <2>3 DEF Becomes, JobOrNone, e
  <2> QED BY <1>2, <2>1, <2>4
<1>7. CASE c.do = "remove" /\ jobs[c.slot] # NoJob
  <2>1. Stages(c, before) = <<NoJob>>  BY <1>7 DEF Stages
  <2>2. Becomes(c, NoJob, before)  BY <1>1, <1>7 DEF Becomes, JobOrNone
  <2> QED BY <1>2, <2>1, <2>2
<1>8. ASSUME c.do \in {"stage", "restore"}, NEW v \in Job, c.do = "restore" => jobs[c.slot] # NoJob
      PROVE  Becomes(c, v, before)
  BY <1>1, <1>8, JobKinds DEF Becomes, JobOrNone
<1>9. CASE c.do = "stage"
  <2>1. \/ Stages(c, before) = <<[Desired(FALSE) EXCEPT !.code = "half"], Desired(FALSE)>>
        \/ Stages(c, before) = <<Desired(FALSE)>>
    BY <1>9 DEF Stages
  <2> DEFINE a == [Desired(FALSE) EXCEPT !.code = "half"]
             b == Desired(FALSE)
  <2>2. a \in Job /\ b \in Job  BY JobKinds
  <2> HIDE DEF a, b
  <2>3. CASE Stages(c, before) = <<b>>  BY <1>2, <1>8, <1>9, <2>2, <2>3
  <2>4. CASE Stages(c, before) = <<a, b>>
    <3>1. Last(<<a, b>>) = b /\ \A w \in Range(<<a, b>>) : w \in {a, b}  BY DEF Last, Range
    <3> QED BY <1>8, <1>9, <2>2, <2>4, <3>1
  <2> QED BY <2>1, <2>3, <2>4 DEF a, b
<1>10. CASE c.do = "restore" /\ jobs[c.slot] # NoJob
  <2> DEFINE a == [Desired(FALSE) EXCEPT !.code = "half"]
             d == before[c.slot]
             b == Off(d)
  <2>1. Stages(c, before) = <<a, b, d>>
    BY <1>10 DEF Stages
  <2>2. a \in Job /\ b \in Job /\ d \in Job  BY <1>1, <1>10, JobKinds DEF JobOrNone
  <2> HIDE DEF a, b, d
  <2>3. Last(<<a, b, d>>) = d /\ \A w \in Range(<<a, b, d>>) : w \in {a, b, d}  BY DEF Last, Range
  <2> QED BY <1>8, <1>10, <2>1, <2>2, <2>3
<1> QED BY <1>1, <1>3, <1>4, <1>5, <1>6, <1>7, <1>9, <1>10 DEF Verbs
(* The receipt a manager works from, and what it says of the adopted jobs.  *)
LEMMA WorksFrom ==
  ASSUME IInv, mgr.op # "none"
  PROVE  /\ mgr.rec \in Receipt /\ mgr.rec.before \in Jobs
         /\ mgr.op \in {"quiesce", "apply", "rollback"} /\ inst.pc \in Working /\ (Quiesced \/ Applied)
         /\ \/ mgr.rec = receipts.apply /\ Applied /\ LegacyOff(mgr.rec.before)
               /\ mgr.op \in {"apply", "rollback"}
            \/ mgr.rec = receipts.quiesce /\ Quiesced /\ NoneCreated /\ mgr.rec.before = was.jobs
               /\ mgr.op \in {"quiesce", "rollback"}
         /\ mgr.op = "apply" => Applied
<1>1. Typed /\ Steered /\ ReceiptsTell  BY DEF IInv
<1>2. mgr.op \in {"quiesce", "apply", "rollback"}  BY <1>1 DEF Typed, Manager
<1>3. Applied => receipts.apply \in Receipt  BY <1>1 DEF Typed, Applied
<1>4. Quiesced => receipts.quiesce \in Receipt  BY <1>1 DEF Typed, Quiesced
<1>5. \A r \in Receipt : r.before \in Jobs  BY DEF Receipt, Jobs, JobOrNone
<1>6. CASE mgr.rec = receipts.apply /\ Applied /\ inst.pc \in Working /\ mgr.op \in {"apply", "rollback"}
  BY <1>1, <1>2, <1>3, <1>5, <1>6 DEF ReceiptsTell
<1>7. CASE mgr.rec = receipts.quiesce /\ Quiesced /\ mgr.op \in {"quiesce", "rollback"}
           /\ inst.pc \in {"quiescing", "undoingQuiesce", "recoveringQuiesce"}
  <2>1. NoneCreated
    BY <1>1, <1>7 DEF Steered, ReceiptsTell, IInv, Achieved
  <2> QED BY <1>1, <1>2, <1>4, <1>5, <1>7, <2>1 DEF ReceiptsTell, Working
<1> QED BY <1>1, <1>2, <1>6, <1>7 DEF Steered, Working

(* What a command of a transaction leaves as it was.                        *)
Harmless(c) ==
  /\ jobs' \in Jobs /\ ReceiptsTell' /\ NotTwice(jobs)' /\ Known(config, jobs)'
  /\ mgr.op # "apply" /\ NoneCreated => NoneCreated'
  /\ mgr.op = "apply" => LegacyOff(jobs')
  /\ \A s \in Slots : jobs[s] = NoJob /\ jobs'[s] # NoJob => s = c.slot /\ c.do = "stage"
  /\ c.do = "off" => Present(jobs') = Present(jobs)

(* Nothing done is harmless.                                               *)
LEMMA NothingDone ==
  ASSUME IInv, NEW c, UNCHANGED <<jobs, receipts, was, config>>
  PROVE  Harmless(c)
<1>1. ReceiptsTell' /\ (NoneCreated => NoneCreated')
  BY DEF IInv, ReceiptsTell, Quiesced, Applied, NoneCreated
<1>2. NotTwice(jobs)' /\ Known(config, jobs)' /\ (mgr.op = "apply" => LegacyOff(jobs'))
  BY DEF IInv, NotTwice, Known, Present, Worklist, LegacyOff
<1>3. jobs' \in Jobs /\ Present(jobs') = Present(jobs)  BY DEF IInv, Typed, Present
<1> QED BY <1>1, <1>2, <1>3 DEF Harmless

(* A command keeps what the receipts tell and lets no role run twice.       *)
LEMMA CommandKeeps ==
  ASSUME IInv, mgr.op # "none", NEW c \in Call, Fits(c, Doing, mgr.rec.before), ~IsProbe(c),
         NEW v, v = jobs[c.slot] \/ Becomes(c, v, mgr.rec.before),
         jobs' = [jobs EXCEPT ![c.slot] = v],
         UNCHANGED <<receipts, was, config>>
  PROVE  Harmless(c)
<1> DEFINE before == mgr.rec.before
<1>1. /\ Typed /\ jobs \in Jobs /\ before \in Jobs /\ ReceiptsTell /\ NotTwice(jobs) /\ NotTwice(was.jobs)
      /\ Known(config, jobs) /\ (Quiesced \/ Applied)
      /\ mgr.op = "apply" => LegacyOff(jobs) /\ Applied
      /\ \/ LegacyOff(before) /\ mgr.op \in {"apply", "rollback"}
         \/ NoneCreated /\ before = was.jobs /\ mgr.op \in {"quiesce", "rollback"}
  BY WorksFrom DEF IInv, Typed, Worklist
<1>2. /\ c.slot \in Slots /\ (c.do = "stage" => mgr.op = "apply" /\ c.slot \in Owned)
      /\ c.do = "set" => before[c.slot] # NoJob
  BY OwnedOrLegacy DEF Fits, IsProbe, Doing
<1> HIDE DEF before
<1>3. /\ v \in JobOrNone
      /\ jobs[c.slot] = NoJob /\ c.do # "stage" => v = NoJob
      /\ c.slot \in Legacy => (v = NoJob <=> jobs[c.slot] = NoJob)
      /\ c.slot \in Legacy /\ v # NoJob /\ v.on => jobs[c.slot].on \/ (c.do = "set" /\ before[c.slot].on)
      /\ c.do = "off" => (v = NoJob <=> jobs[c.slot] = NoJob)
  <2>1. jobs[c.slot] \in JobOrNone  BY <1>1, <1>2 DEF Jobs
  <2> QED BY <2>1 DEF Becomes, before
<1>4. /\ jobs' \in Jobs /\ jobs'[c.slot] = v
      /\ \A s \in Slots : s # c.slot => jobs'[s] = jobs[s]
  BY <1>1, <1>2, <1>3 DEF Jobs
<1>5. /\ \A s \in Slots : jobs[s] = NoJob /\ jobs'[s] # NoJob => s = c.slot /\ c.do = "stage"
      /\ \A s \in Legacy : jobs'[s] = NoJob <=> jobs[s] = NoJob
  BY <1>2, <1>3, <1>4, OwnedOrLegacy
<1>6. mgr.op # "apply" /\ NoneCreated => NoneCreated'
  BY <1>2, <1>5 DEF NoneCreated
<1>7. mgr.op = "apply" => LegacyOff(jobs')
  <2>1. SUFFICES ASSUME mgr.op = "apply", NEW s \in Legacy, jobs'[s] # NoJob, jobs'[s].on PROVE FALSE
    BY DEF LegacyOff
  <2>2. LegacyOff(jobs) /\ LegacyOff(before)  BY <1>1, <2>1
  <2>3. jobs[s] # NoJob /\ ~jobs[s].on  BY <1>5, <2>1, <2>2 DEF LegacyOff
  <2>4. s = c.slot /\ before[s].on /\ before[s] # NoJob
    BY <1>2, <1>3, <1>4, <2>1, <2>3, OwnedOrLegacy
  <2> QED BY <2>1, <2>2, <2>4 DEF LegacyOff
<1>8. NotTwice(jobs')
  <2>1. SUFFICES ASSUME NEW s \in Legacy, jobs'[s] # NoJob, jobs'[s].on PROVE jobs'[OwnedOf(s)] = NoJob
    BY DEF NotTwice
  <2>2. OwnedOf(s) \in Owned /\ OwnedOf(s) \in Slots /\ s \in Slots  BY OwnedOrLegacy
  <2>3. mgr.op # "apply"  BY <1>7, <2>1 DEF LegacyOff
  <2>4. jobs'[OwnedOf(s)] # NoJob => jobs[OwnedOf(s)] # NoJob
    BY <1>2, <1>5, <2>2, <2>3
  <2>5. jobs[s] # NoJob  BY <1>5, <2>1
  <2>6. CASE jobs[s].on
    BY <1>1, <2>4, <2>5, <2>6 DEF NotTwice
  <2>7. CASE ~jobs[s].on
    <3>1. c.slot = s /\ before[s].on /\ before[s] # NoJob
      BY <1>2, <1>3, <1>4, <2>1, <2>2, <2>7
    <3>2. NoneCreated /\ before = was.jobs
      BY <1>1, <2>1, <3>1 DEF LegacyOff
    <3>3. was.jobs[OwnedOf(s)] = NoJob
      BY <1>1, <2>1, <3>1, <3>2 DEF NotTwice
    <3>4. jobs[OwnedOf(s)] = NoJob
      BY <2>2, <3>2, <3>3 DEF NoneCreated
    <3> QED BY <2>4, <3>4
  <2> QED BY <2>6, <2>7
<1>9. Known(config, jobs)'
  <2>1. Present(jobs') \cap Legacy = Present(jobs) \cap Legacy
    BY <1>5, OwnedOrLegacy DEF Present
  <2> QED BY <1>1, <2>1 DEF Known
<1>10. ReceiptsTell'
  <2>1. /\ Quiesced' = Quiesced /\ Applied' = Applied
        /\ LegacyOff(receipts.apply.before)' = LegacyOff(receipts.apply.before)
    BY DEF Quiesced, Applied, LegacyOff
  <2>2. ~Applied => NoneCreated'  BY <1>1, <1>6 DEF ReceiptsTell
  <2> QED BY <1>1, <1>5, <2>1, <2>2 DEF ReceiptsTell
<1>11. c.do = "off" => Present(jobs') = Present(jobs)
  BY <1>2, <1>3, <1>4 DEF Present
<1> QED BY <1>4, <1>5, <1>6, <1>7, <1>8, <1>9, <1>10, <1>11 DEF Harmless
(* A manager at work: only the jobs and its own record change.              *)
LEMMA ManagerMoves ==
  ASSUME IInv, mgr.op # "none", mgr' \in Manager, mgr'.op = mgr.op, mgr'.rec = mgr.rec,
         mgr.op = "rollback" => ~mgr'.undo,
         UNCHANGED <<running, receipts, starts, inst, skill, config, ledger, lock, was>>,
         faults' \in 0 .. MaxFaults, jobs' \in Jobs,
         ReceiptsTell', NotTwice(jobs)', Known(config, jobs)',
         mgr.op # "apply" /\ NoneCreated => NoneCreated',
         Worklist'
  PROVE  IInv'
<1>1. Typed'  BY DEF IInv, Typed
<1>2. Steered'  BY DEF IInv, Steered, Quiesced, Applied
<1>3. Answers'  BY DEF Answers, Answered
<1>4. inst.pc \in Working /\ (mgr.op = "apply" => inst.pc = "applying")
  BY WorksFrom DEF IInv, Steered
<1>5. Achieved'
  <2>1. inst.pc \notin {"idle", "quiesce", "lock", "files", "aside", "place", "apply", "last", "undoQuiesce",
                        "recoverQuiesce", "recoverApply", "undoApply", "unplace", "unaside", "unfile"}
    BY <1>4 DEF Working
  <2>2. inst' = inst /\ skill' = skill /\ config' = config /\ was' = was  OBVIOUS
  <2>3. inst.pc \in {"undoingQuiesce", "recoveringQuiesce"} => NoneCreated'
    BY <1>4 DEF IInv, Achieved
  <2> QED BY <2>1, <2>2, <2>3 DEF IInv, Achieved
<1>6. NotTwice(was.jobs)' /\ Known(was.config, was.jobs)'
  BY DEF IInv, NotTwice, Known, Present
<1>7. HonestRollback'
  BY <1>4 DEF HonestRollback, Working
<1> QED BY <1>1, <1>2, <1>3, <1>5, <1>6, <1>7 DEF IInv

(* The first call of a list that is not empty, and the rest.               *)
LEMMA AtHead ==
  ASSUME IInv, mgr.op # "none", mgr.todo # <<>>
  PROVE  /\ AllFit(Tail(mgr.todo), Doing, mgr.rec.before) /\ Fits(Head(mgr.todo), Doing, mgr.rec.before)
         /\ Head(mgr.todo) \in Call /\ mgr.todo \in Seq(Call) /\ Tail(mgr.todo) \in Seq(Call)
         /\ Len(mgr.todo) \in Nat \ {0} /\ Len(Tail(mgr.todo)) = Len(mgr.todo) - 1
         /\ Head(mgr.todo) = mgr.todo[1]
         /\ \A i \in 1 .. Len(Tail(mgr.todo)) : Tail(mgr.todo)[i] = mgr.todo[i + 1]
<1> DEFINE todo == mgr.todo
<1>1. AllFit(todo, Doing, mgr.rec.before) /\ todo # <<>>  BY DEF IInv, Worklist
<1>2. todo \in Seq(Call)  BY <1>1 DEF AllFit
<1> HIDE DEF todo
<1>3. AllFit(Tail(todo), Doing, mgr.rec.before) /\ Fits(Head(todo), Doing, mgr.rec.before) /\ Head(todo) \in Call
  BY <1>1, FitTail
<1>4. /\ Tail(todo) \in Seq(Call) /\ Len(Tail(todo)) = Len(todo) - 1
      /\ \A i \in 1 .. Len(Tail(todo)) : Tail(todo)[i] = todo[i + 1]
  BY <1>1, <1>2, HeadTailProperties
<1>5. Len(todo) \in Nat \ {0}  BY <1>1, <1>2, EmptySeq
<1>6. Head(todo) = todo[1]  BY <1>1, <1>2
<1> QED BY <1>2, <1>3, <1>4, <1>5, <1>6 DEF todo

(* What a transaction ends with stays at its end.                           *)
LEMMA EndStays ==
  ASSUME IInv, mgr.op # "none", mgr.todo # <<>>, NEW probe, EndsWith(probe), mgr'.todo = Tail(mgr.todo)
  PROVE  IF mgr'.todo = <<>> THEN Head(mgr.todo).do = probe ELSE EndsWith(probe)'
<1>1. CASE Tail(mgr.todo) = <<>>
  <2>1. Len(Tail(mgr.todo)) = 0  BY <1>1, EmptySeq
  <2>2. Len(mgr.todo) = 1  BY <2>1, AtHead
  <2> QED BY <1>1, <2>2, AtHead DEF EndsWith
<1>2. CASE Tail(mgr.todo) # <<>>
  <2>1. Len(Tail(mgr.todo)) \in Nat \ {0}  BY <1>2, AtHead, EmptySeq
  <2>2. Len(mgr.todo) \in Nat /\ Len(Tail(mgr.todo)) = Len(mgr.todo) - 1  BY AtHead
  <2>3. Len(Tail(mgr.todo)) \in 1 .. Len(Tail(mgr.todo)) /\ Len(Tail(mgr.todo)) + 1 = Len(mgr.todo)
    <3> DEFINE n == Len(Tail(mgr.todo))
               m == Len(mgr.todo)
    <3> HIDE DEF n, m
    <3>1. n \in Nat \ {0} /\ m \in Nat /\ n = m - 1  BY <2>1, <2>2 DEF n, m
    <3>2. n \in 1 .. n /\ n + 1 = m  BY <3>1
    <3> QED BY <3>2 DEF n, m
  <2>4. Tail(mgr.todo)[Len(Tail(mgr.todo))] = mgr.todo[Len(mgr.todo)]  BY <2>3, AtHead
  <2> QED BY <1>2, <2>4 DEF EndsWith
<1> QED BY <1>1, <1>2

(* Only staging counts as tried.                                           *)
LEMMA TriedGrows ==
  ASSUME IInv, mgr.op # "none", NEW c \in Call, Fits(c, Doing, mgr.rec.before)
  PROVE  /\ Attempted(c) \subseteq Owned /\ mgr.tried \subseteq Attempted(c)
         /\ c.do = "stage" => c.slot \in Attempted(c)
         /\ mgr.op # "apply" => Attempted(c) = mgr.tried
BY DEF IInv, Typed, Manager, Attempted, Fits, Doing, IsProbe

(* The manager's record after a call that succeeded, and after one that did not. *)
LEMMA Proceeding ==
  ASSUME IInv, mgr.op # "none", mgr.todo # <<>>, Proceeds(Head(mgr.todo))
  PROVE  /\ mgr' \in Manager /\ mgr'.op = mgr.op /\ mgr'.rec = mgr.rec /\ mgr'.undo = mgr.undo
         /\ mgr'.todo = Tail(mgr.todo) /\ mgr'.tried = Attempted(Head(mgr.todo))
         /\ \A s \in mgr'.off : mgr.rec.before[s] # NoJob
<1> DEFINE c == Head(mgr.todo)
<1>1. /\ c \in Call /\ Fits(c, Doing, mgr.rec.before) /\ Tail(mgr.todo) \in Seq(Call)
      /\ Attempted(c) \subseteq Owned /\ mgr \in Manager
      /\ \A s \in mgr.off : mgr.rec.before[s] # NoJob
  BY AtHead, TriedGrows DEF IInv, Typed, Worklist
<1> DEFINE off == mgr.off \cup (IF c.do = "off" THEN {c.slot} ELSE {})
<1>2. off \subseteq Slots /\ \A s \in off : mgr.rec.before[s] # NoJob
  BY <1>1 DEF Fits, IsProbe, Manager
<1>3. mgr' = [mgr EXCEPT !.todo = Tail(mgr.todo), !.tried = Attempted(c), !.off = off]
  BY DEF Proceeds
<1> HIDE DEF off, c
<1> QED BY <1>1, <1>2, <1>3 DEF Manager, c

(* The undo of a transaction: what was created goes, the rest comes back.   *)
LEMMA UndoFits ==
  ASSUME NEW before, NEW tried \in SUBSET Owned, NEW off \in SUBSET Slots, NEW op,
         \A s \in off : before[s] # NoJob
  PROVE  AllFit(UndoCalls(before, tried, off), op, before)
<1> DEFINE created == {s \in tried : before[s] = NoJob}
           changed == tried \ created
           offL == off \cap Legacy
           offO == off \cap Owned
<1>1. /\ created \in SUBSET Slots /\ changed \in SUBSET Slots /\ offL \in SUBSET Slots /\ offO \in SUBSET Slots
      /\ {"remove", "restore", "set"} \subseteq Verbs
  BY OwnedOrLegacy DEF Verbs
<1>2. /\ \A s \in created : Fits([do |-> "remove", slot |-> s], op, before)
      /\ \A s \in changed : Fits([do |-> "restore", slot |-> s], op, before)
      /\ \A s \in offL : Fits([do |-> "set", slot |-> s], op, before)
      /\ \A s \in offO : Fits([do |-> "set", slot |-> s], op, before)
  BY DEF Fits
<1> DEFINE a == Reverse(Calls("remove", created))
           b == Reverse(Calls("restore", changed))
           c == Reverse(Calls("set", offL))
           d == Reverse(Calls("set", offO))
<1>3. UndoCalls(before, tried, off) = ((a \o b) \o c) \o d
  BY DEF UndoCalls
<1> HIDE DEF created, changed, offL, offO
<1>4. AllFit(a, op, before)  BY <1>1, <1>2, FitCalls, FitReverse
<1>5. AllFit(b, op, before)  BY <1>1, <1>2, FitCalls, FitReverse
<1>6. AllFit(c, op, before)  BY <1>1, <1>2, FitCalls, FitReverse
<1>7. AllFit(d, op, before)  BY <1>1, <1>2, FitCalls, FitReverse
<1> HIDE DEF a, b, c, d
<1> DEFINE x == a \o b
<1>8. AllFit(x, op, before)  BY <1>4, <1>5, FitConcat
<1>9. UndoCalls(before, tried, off) = (x \o c) \o d  BY <1>3
<1> HIDE DEF x
<1> DEFINE y == x \o c
<1>10. AllFit(y, op, before)  BY <1>6, <1>8, FitConcat
<1>11. UndoCalls(before, tried, off) = y \o d  BY <1>9
<1> HIDE DEF y
<1> QED BY <1>7, <1>10, <1>11, FitConcat

LEMMA Raising ==
  ASSUME IInv, mgr.op # "none", mgr.todo # <<>>, Raises(Head(mgr.todo))
  PROVE  /\ mgr' \in Manager /\ mgr'.op = mgr.op /\ mgr'.rec = mgr.rec
         /\ mgr'.undo \/ mgr.op = "rollback"
         /\ mgr.op = "rollback" => ~mgr'.undo
         /\ AllFit(mgr'.todo, Doing', mgr.rec.before)
         /\ mgr'.off = mgr.off
         /\ mgr'.tried = Attempted(Head(mgr.todo)) \/ ((mgr.undo \/ mgr.op = "rollback") /\ mgr'.tried = mgr.tried)
<1> DEFINE c == Head(mgr.todo)
<1>1. /\ c \in Call /\ Fits(c, Doing, mgr.rec.before) /\ Tail(mgr.todo) \in Seq(Call)
      /\ AllFit(Tail(mgr.todo), Doing, mgr.rec.before)
      /\ Attempted(c) \subseteq Owned /\ mgr \in Manager /\ mgr.tried \subseteq Owned /\ mgr.off \subseteq Slots
      /\ \A s \in mgr.off : mgr.rec.before[s] # NoJob
      /\ mgr.op = "rollback" => ~mgr.undo
  BY AtHead, TriedGrows DEF IInv, Typed, Worklist, Manager, Steered
<1> HIDE DEF c
<1>2. CASE mgr.undo \/ mgr.op = "rollback"
  <2>1. mgr' = [mgr EXCEPT !.todo = Tail(mgr.todo), !.errors = TRUE]
    BY <1>2 DEF Raises
  <2> QED BY <1>1, <1>2, <2>1 DEF Manager, Doing
<1>3. CASE ~(mgr.undo \/ mgr.op = "rollback")
  <2> DEFINE u == UndoCalls(mgr.rec.before, Attempted(c), mgr.off)
  <2>1. mgr' = [mgr EXCEPT !.undo = TRUE, !.tried = Attempted(c), !.todo = u]
    BY <1>3 DEF Raises, c
  <2>2. AllFit(u, "undo", mgr.rec.before)  BY <1>1, UndoFits
  <2>3. u \in Seq(Call)  BY <2>2 DEF AllFit
  <2> HIDE DEF u
  <2> QED BY <1>1, <1>3, <2>1, <2>2, <2>3 DEF Manager, Doing, c
<1> QED BY <1>2, <1>3
(* A job that appears is one that the transaction tried to stage.           *)
LEMMA CreatedAreTried ==
  ASSUME IInv, mgr.op = "apply", NEW c \in Call, Fits(c, Doing, mgr.rec.before), Harmless(c),
         NEW tried, tried = Attempted(c) \/ (tried = mgr.tried /\ mgr.undo),
         UNCHANGED receipts
  PROVE  \A s \in Owned : receipts'.apply.before[s] = NoJob /\ jobs'[s] # NoJob => s \in tried
<1>1. SUFFICES ASSUME NEW s \in Owned, receipts.apply.before[s] = NoJob, jobs'[s] # NoJob PROVE s \in tried
  OBVIOUS
<1>2. mgr.tried \subseteq Attempted(c) /\ (c.do = "stage" => c.slot \in Attempted(c))
  BY TriedGrows
<1>3. CASE jobs[s] # NoJob
  <2>1. s \in mgr.tried  BY <1>1, <1>3 DEF IInv, Worklist
  <2> QED BY <1>2, <2>1
<1>4. CASE jobs[s] = NoJob
  <2>1. s = c.slot /\ c.do = "stage"  BY <1>1, <1>4, OwnedOrLegacy DEF Harmless
  <2>2. ~mgr.undo  BY <2>1 DEF Fits, IsProbe, Doing
  <2> QED BY <1>2, <2>1, <2>2
<1> QED BY <1>3, <1>4

(* A step of the manager that went well, and one that did not.             *)
LEMMA ProceedsKeeps ==
  ASSUME IInv, mgr.op # "none", mgr.todo # <<>>, Proceeds(Head(mgr.todo)), Harmless(Head(mgr.todo)),
         IsProbe(Head(mgr.todo)) => jobs' = jobs /\ ProbeHolds(Head(mgr.todo)),
         UNCHANGED <<running, receipts, starts, inst, skill, config, ledger, lock, was>>,
         faults' \in 0 .. MaxFaults
  PROVE  IInv'
<1> DEFINE c == Head(mgr.todo)
<1>1. /\ c \in Call /\ Fits(c, Doing, mgr.rec.before) /\ mgr.todo \in Seq(Call)
      /\ AllFit(Tail(mgr.todo), Doing, mgr.rec.before)
  BY AtHead
<1>2. /\ mgr' \in Manager /\ mgr'.op = mgr.op /\ mgr'.rec = mgr.rec /\ mgr'.undo = mgr.undo
      /\ mgr'.todo = Tail(mgr.todo) /\ mgr'.tried = Attempted(c)
      /\ \A s \in mgr'.off : mgr.rec.before[s] # NoJob
  BY Proceeding
<1>3. Worklist /\ Steered  BY DEF IInv
<1> HIDE DEF c
<1>4. AllFit(mgr.todo, Doing, mgr.rec.before)'
  BY <1>1, <1>2 DEF Doing
<1>5. ASSUME Forward("quiesce")
      PROVE  /\ \A i \in 1 .. Len(mgr'.todo) : mgr'.todo[i].do \in {"off", "quiet"}
             /\ running' \subseteq Present(jobs')
             /\ IF mgr'.todo = <<>> THEN running' = {} /\ Enabled(jobs') = {} ELSE EndsWith("quiet")'
  <2>1. /\ \A i \in 1 .. Len(mgr.todo) : mgr.todo[i].do \in {"off", "quiet"}
        /\ running \subseteq Present(jobs) /\ EndsWith("quiet")
    BY <1>3, <1>5 DEF Worklist
  <2>2. \A i \in 1 .. Len(Tail(mgr.todo)) : i + 1 \in 1 .. Len(mgr.todo)
    <3> DEFINE n == Len(Tail(mgr.todo))
               m == Len(mgr.todo)
    <3>1. m \in Nat \ {0} /\ n = m - 1  BY AtHead
    <3> HIDE DEF n, m
    <3>2. \A i \in 1 .. n : i + 1 \in 1 .. m  BY <3>1
    <3> QED BY <3>2 DEF n, m
  <2>3. \A i \in 1 .. Len(mgr'.todo) : mgr'.todo[i].do \in {"off", "quiet"}
    BY <1>2, <2>1, <2>2, AtHead
  <2>4. c.do \in {"off", "quiet"}
    <3>1. c = mgr.todo[1] /\ Len(mgr.todo) \in Nat \ {0}  BY AtHead DEF c
    <3>2. 1 \in 1 .. Len(mgr.todo)  BY <3>1
    <3> QED BY <2>1, <3>1, <3>2
  <2>5. Present(jobs') = Present(jobs)
    BY <2>4 DEF Harmless, IsProbe, c
  <2>6. IF mgr'.todo = <<>> THEN c.do = "quiet" ELSE EndsWith("quiet")'
    BY <1>2, <2>1, EndStays DEF c
  <2>7. c.do = "quiet" => jobs' = jobs /\ Enabled(jobs) = {} /\ running \cap Present(jobs) = {}
    BY DEF IsProbe, ProbeHolds, c
  <2>8. c.do = "quiet" => Enabled(jobs') = {} /\ running' = {}
    BY <2>1, <2>7
  <2> QED BY <2>1, <2>3, <2>5, <2>6, <2>8
<1>6. ASSUME Forward("apply")
      PROVE  IF mgr'.todo = <<>> THEN AllDesired' ELSE EndsWith("verify")'
  <2>1. EndsWith("verify")  BY <1>3, <1>6 DEF Worklist
  <2>2. IF mgr'.todo = <<>> THEN c.do = "verify" ELSE EndsWith("verify")'
    BY <1>2, <2>1, EndStays DEF c
  <2>3. c.do = "verify" => jobs' = jobs /\ \A s \in Owned : PlanOf(jobs)[s] = "unchanged"
    BY DEF IsProbe, ProbeHolds, c
  <2>4. \A s \in Owned : PlanOf(jobs)[s] = "unchanged" => jobs[s] = Desired(TRUE)
    BY DEF PlanOf
  <2>5. c.do = "verify" => AllDesired'
    BY <2>3, <2>4 DEF AllDesired
  <2> QED BY <2>2, <2>5
<1>7. mgr.op = "quiesce" => mgr'.tried = {}
  BY <1>1, <1>2, <1>3, TriedGrows DEF Worklist
<1>8. mgr.op = "apply" => /\ LegacyOff(jobs')
                          /\ \A s \in Owned : receipts'.apply.before[s] = NoJob /\ jobs'[s] # NoJob => s \in mgr'.tried
  BY <1>1, <1>2, CreatedAreTried DEF Harmless, c
<1>9. Worklist'
  BY <1>2, <1>4, <1>5, <1>6, <1>7, <1>8 DEF Worklist, Forward
<1>10. mgr.op = "rollback" => ~mgr'.undo  BY <1>2, <1>3 DEF Steered
<1> QED BY <1>2, <1>9, <1>10, ManagerMoves DEF Harmless

LEMMA RaisesKeeps ==
  ASSUME IInv, mgr.op # "none", mgr.todo # <<>>, Raises(Head(mgr.todo)), Harmless(Head(mgr.todo)),
         UNCHANGED <<running, receipts, starts, inst, skill, config, ledger, lock, was>>,
         faults' \in 0 .. MaxFaults
  PROVE  IInv'
<1> DEFINE c == Head(mgr.todo)
<1>1. c \in Call /\ Fits(c, Doing, mgr.rec.before)
  BY AtHead
<1>2. /\ mgr' \in Manager /\ mgr'.op = mgr.op /\ mgr'.rec = mgr.rec
      /\ mgr'.undo \/ mgr.op = "rollback"
      /\ mgr.op = "rollback" => ~mgr'.undo
      /\ AllFit(mgr'.todo, Doing', mgr.rec.before)
      /\ mgr'.off = mgr.off
      /\ mgr'.tried = Attempted(c) \/ ((mgr.undo \/ mgr.op = "rollback") /\ mgr'.tried = mgr.tried)
  BY Raising
<1>3. Worklist  BY DEF IInv
<1> HIDE DEF c
<1>4. mgr.op = "quiesce" => mgr'.tried = {}
  BY <1>1, <1>2, <1>3, TriedGrows DEF Worklist
<1>5. mgr.op = "apply" => /\ LegacyOff(jobs')
                          /\ \A s \in Owned : receipts'.apply.before[s] = NoJob /\ jobs'[s] # NoJob => s \in mgr'.tried
  BY <1>1, <1>2, CreatedAreTried DEF Harmless, c
<1>6. Worklist'
  BY <1>2, <1>3, <1>4, <1>5 DEF Worklist, Forward
<1> QED BY <1>2, <1>6, ManagerMoves DEF Harmless
(* What no manager touches.                                                 *)
ByManager == UNCHANGED <<inst, skill, config, ledger, lock, was>>

(* The actions of the manager.                                             *)
LEMMA ManagerCallKeeps ==
  ASSUME IInv, ManagerCall, ByManager
  PROVE  IInv'
<1> DEFINE c == Head(mgr.todo)
<1>1. /\ mgr.op # "none" /\ mgr.todo # <<>> /\ ~IsProbe(c) /\ Proceeds(c)
      /\ jobs' = [jobs EXCEPT ![c.slot] = Last(Stages(c, mgr.rec.before))]
      /\ UNCHANGED <<running, receipts, faults, starts, inst, skill, config, ledger, lock, was>>
  BY DEF ManagerCall, ByManager
<1>2. c \in Call /\ Fits(c, Doing, mgr.rec.before)  BY <1>1, AtHead
<1>3. mgr.rec.before \in Jobs /\ jobs \in Jobs  BY <1>1, WorksFrom DEF IInv, Typed
<1> HIDE DEF c
<1>4. Becomes(c, Last(Stages(c, mgr.rec.before)), mgr.rec.before)
  BY <1>1, <1>2, <1>3, Effects
<1>5. Harmless(c)
  BY <1>1, <1>2, <1>4, CommandKeeps
<1>6. faults' \in 0 .. MaxFaults  BY <1>1 DEF IInv, Typed
<1> QED BY <1>1, <1>5, <1>6, ProceedsKeeps DEF c

LEMMA ManagerCallIgnoredKeeps ==
  ASSUME IInv, ManagerCallIgnored, ByManager
  PROVE  IInv'
<1>1. /\ mgr.op # "none" /\ mgr.todo # <<>> /\ ~IsProbe(Head(mgr.todo)) /\ Proceeds(Head(mgr.todo))
      /\ UNCHANGED <<jobs, running, receipts, starts, inst, skill, config, ledger, lock, was>>
      /\ faults' = faults + 1 /\ faults < MaxFaults
  BY DEF ManagerCallIgnored, ByManager
<1>2. Harmless(Head(mgr.todo))  BY <1>1, NothingDone
<1>3. faults' \in 0 .. MaxFaults  BY <1>1, TopologyAssumption DEF IInv, Typed
<1> QED BY <1>1, <1>2, <1>3, ProceedsKeeps

LEMMA ManagerCallFailsKeeps ==
  ASSUME IInv, ManagerCallFails, ByManager
  PROVE  IInv'
<1> DEFINE c == Head(mgr.todo)
<1>1. /\ mgr.op # "none" /\ mgr.todo # <<>> /\ ~IsProbe(c) /\ Raises(c)
      /\ \E job \in {jobs[c.slot]} \cup Range(Stages(c, mgr.rec.before)) : jobs' = [jobs EXCEPT ![c.slot] = job]
      /\ UNCHANGED <<running, receipts, starts, inst, skill, config, ledger, lock, was>>
      /\ faults' = faults + 1 /\ faults < MaxFaults
  BY DEF ManagerCallFails, ByManager
<1>2. c \in Call /\ Fits(c, Doing, mgr.rec.before)  BY <1>1, AtHead
<1>3. mgr.rec.before \in Jobs /\ jobs \in Jobs  BY <1>1, WorksFrom DEF IInv, Typed
<1> HIDE DEF c
<1>4. PICK job : /\ job = jobs[c.slot] \/ job \in Range(Stages(c, mgr.rec.before))
                 /\ jobs' = [jobs EXCEPT ![c.slot] = job]
  BY <1>1
<1>5. job = jobs[c.slot] \/ Becomes(c, job, mgr.rec.before)
  BY <1>1, <1>2, <1>3, <1>4, Effects
<1>6. Harmless(c)
  BY <1>1, <1>2, <1>4, <1>5, CommandKeeps
<1>7. faults' \in 0 .. MaxFaults  BY <1>1, TopologyAssumption DEF IInv, Typed
<1> QED BY <1>1, <1>6, <1>7, RaisesKeeps DEF c

LEMMA ManagerProbesKeep ==
  ASSUME IInv, ManagerProbe \/ ManagerProbeFails, ByManager
  PROVE  IInv'
<1>1. /\ mgr.op # "none" /\ mgr.todo # <<>> /\ IsProbe(Head(mgr.todo))
      /\ Raises(Head(mgr.todo)) \/ (Proceeds(Head(mgr.todo)) /\ ProbeHolds(Head(mgr.todo)))
      /\ UNCHANGED <<jobs, running, receipts, starts, inst, skill, config, ledger, lock, was>>
      /\ faults' = faults \/ (faults' = faults + 1 /\ faults < MaxFaults)
  BY DEF ManagerProbe, ManagerProbeFails, ByManager
<1>2. Harmless(Head(mgr.todo))  BY <1>1, NothingDone
<1>3. faults' \in 0 .. MaxFaults  BY <1>1, TopologyAssumption DEF IInv, Typed
<1>4. CASE Raises(Head(mgr.todo))  BY <1>1, <1>2, <1>3, <1>4, RaisesKeeps
<1>5. CASE Proceeds(Head(mgr.todo)) /\ ProbeHolds(Head(mgr.todo))
  BY <1>1, <1>2, <1>3, <1>5, ProceedsKeeps
<1> QED BY <1>1, <1>4, <1>5

(* What the final look at the inventory is worth.                           *)
LEMMA RestoredMeans ==
  ASSUME IInv, mgr.op # "none", mgr.undo \/ mgr.op = "rollback", Restored(mgr.rec.before, CreatedBy(mgr))
  PROVE  /\ mgr.rec = receipts.apply /\ Applied => GivenBack
         /\ ~(mgr.rec = receipts.apply /\ Applied) => jobs = was.jobs
<1>1. /\ Typed /\ ReceiptsTell /\ Worklist /\ Steered /\ mgr.rec.before \in Jobs /\ jobs \in Jobs
      /\ mgr.op \in {"quiesce", "apply", "rollback"}
      /\ ~(mgr.rec = receipts.apply /\ Applied) =>
            /\ NoneCreated /\ mgr.rec.before = was.jobs /\ was.jobs \in Jobs
  BY WorksFrom DEF IInv, Typed
<1> DEFINE before == mgr.rec.before
<1>2. /\ \A s \in CreatedBy(mgr) : jobs[s] = NoJob
      /\ \A s \in Slots : before[s] # NoJob => jobs[s] = before[s]
  BY DEF Restored, Present
<1>3. ASSUME mgr.rec = receipts.apply, Applied, NEW s \in Slots PROVE jobs[s] = receipts.apply.before[s]
  <2>1. CASE before[s] # NoJob  BY <1>2, <1>3, <2>1
  <2>2. CASE before[s] = NoJob /\ s \in Legacy  BY <1>1, <1>3, <2>2 DEF ReceiptsTell
  <2>3. CASE before[s] = NoJob /\ s \in Owned /\ mgr.op = "rollback"
    <3>1. s \in CreatedBy(mgr)  BY <1>1, <1>3, <2>3 DEF CreatedBy, ReceiptsTell
    <3> QED BY <1>2, <1>3, <2>3, <3>1
  <2>4. CASE before[s] = NoJob /\ s \in Owned /\ mgr.op = "apply"
    <3>1. jobs[s] # NoJob => s \in CreatedBy(mgr)  BY <1>1, <1>3, <2>4 DEF CreatedBy, Worklist
    <3> QED BY <1>2, <1>3, <2>4, <3>1
  <2>5. CASE before[s] = NoJob /\ mgr.op = "quiesce"
    <3>1. inst.pc = "quiescing" /\ ~Applied  BY <1>1, <2>5 DEF Steered
    <3> QED BY <1>3, <3>1
  <2> QED BY <1>1, <2>1, <2>2, <2>3, <2>4, <2>5 DEF Slots
<1>4. ASSUME ~(mgr.rec = receipts.apply /\ Applied) PROVE jobs = was.jobs
  <2>1. \A s \in Slots : jobs[s] = was.jobs[s]  BY <1>1, <1>2, <1>4 DEF NoneCreated
  <2> QED BY <1>1, <1>4, <2>1 DEF Jobs
<1> QED BY <1>3, <1>4 DEF GivenBack
(* The manager's answer.                                                   *)
LEMMA ManagerEndsKeeps ==
  ASSUME IInv, ManagerEnds, ByManager
  PROVE  IInv'
<1>1. /\ mgr.op # "none" /\ mgr.todo = <<>>
      /\ UNCHANGED <<jobs, running, receipts, starts, inst, skill, config, ledger, lock, was>>
      /\ faults' \in 0 .. MaxFaults
  <2>1. mgr.op # "none" /\ mgr.todo = <<>>
        /\ UNCHANGED <<jobs, running, receipts, starts, inst, skill, config, ledger, lock, was>>
    BY DEF ManagerEnds, ByManager
  <2>2. PICK unreadable \in IF faults < MaxFaults THEN BOOLEAN ELSE {FALSE} :
          faults' = faults + IF unreadable THEN 1 ELSE 0
    BY DEF ManagerEnds
  <2>3. faults' = faults \/ (faults < MaxFaults /\ faults' = faults + 1)
    <3>1. CASE unreadable
      <4>1. faults < MaxFaults /\ faults' = faults + 1  BY <2>2, <3>1
      <4> QED BY <4>1
    <3>2. CASE ~unreadable
      <4>1. faults' = faults + 0 /\ faults \in Nat  BY <2>2, <3>2, TopologyAssumption DEF IInv, Typed
      <4> QED BY <4>1
    <3> QED BY <3>1, <3>2
  <2> QED BY <2>1, <2>3, TopologyAssumption DEF IInv, Typed
<1>2. /\ mgr.op \in {"quiesce", "apply", "rollback"} /\ inst.pc \in Working
      /\ Typed /\ Steered /\ Worklist /\ ReceiptsTell
      /\ mgr.op = "apply" => Applied
      /\ mgr.op = "quiesce" => Quiesced /\ ~Applied
  BY <1>1, WorksFrom DEF IInv, Steered
<1>3. PICK result :
        /\ Ends(result)
        /\ \/ /\ mgr.undo \/ mgr.op = "rollback"
              /\ \/ result = "incomplete"
                 \/ /\ Restored(mgr.rec.before, CreatedBy(mgr))
                    /\ result = IF mgr.undo THEN "failed" ELSE "restored"
           \/ /\ ~(mgr.undo \/ mgr.op = "rollback")
              /\ result = IF mgr.op = "quiesce" THEN "prepared" ELSE "ready"
  BY DEF ManagerEnds
<1>4. result \in {"prepared", "ready", "failed", "incomplete", "restored"}
  BY <1>3
<1>5. mgr' \in Manager /\ mgr'.op = "none" /\ mgr'.todo = <<>> /\ mgr'.result = result
  <2>1. <<>> \in Seq(Call)  BY EmptySeq
  <2> QED BY <1>2, <1>3, <1>4, <2>1 DEF Ends, Typed, Manager
<1>6. Typed'
  BY <1>1, <1>2, <1>5 DEF Typed
<1>7. Steered' /\ Worklist'
  BY <1>1, <1>2, <1>5 DEF Steered, Worklist, Forward, Quiesced, Applied
<1>8. ReceiptsTell' /\ NotTwice(jobs)' /\ NotTwice(was.jobs)' /\ Known(config, jobs)' /\ Known(was.config, was.jobs)'
  BY <1>1 DEF IInv, ReceiptsTell, NoneCreated, Quiesced, Applied, NotTwice, Known, Present
<1>9. Achieved' /\ HonestRollback'
  BY <1>1, <1>2 DEF IInv, Achieved, HonestRollback, Working, Quiesced, AllDesired, NoneCreated,
                       LegacyOff, Enabled, Present
<1>10. /\ inst.pc = "quiescing" => result \in {"prepared", "failed", "incomplete"}
       /\ inst.pc = "applying" => result \in {"ready", "failed", "incomplete"}
       /\ inst.pc \in {"undoingApply", "undoingQuiesce", "recoveringApply", "recoveringQuiesce"}
            => result \in {"restored", "incomplete"}
       /\ inst.pc = "quiescing" <=> mgr.op = "quiesce"
       /\ inst.pc = "applying" <=> mgr.op = "apply"
  BY <1>2, <1>3 DEF Steered
<1>11. result = "prepared" => running = {} /\ Enabled(jobs) = {} /\ Quiesced
  BY <1>1, <1>2, <1>3 DEF Worklist, Forward
<1>12. result = "ready" => AllDesired /\ LegacyOff(jobs)
  BY <1>1, <1>2, <1>3 DEF Worklist, Forward
<1>13. result \in {"failed", "restored"} => /\ mgr.rec = receipts.apply /\ Applied => GivenBack
                                            /\ ~(mgr.rec = receipts.apply /\ Applied) => jobs = was.jobs
  BY <1>1, <1>3, RestoredMeans
<1>14. /\ inst.pc \in {"undoingApply", "recoveringApply", "applying"} => mgr.rec = receipts.apply /\ Applied
       /\ inst.pc = "quiescing" => ~Applied
  BY <1>2, <1>10 DEF Steered
<1>15. inst.pc \in {"undoingQuiesce", "recoveringQuiesce"} /\ result = "restored" => jobs = was.jobs
  <2>1. SUFFICES ASSUME inst.pc \in {"undoingQuiesce", "recoveringQuiesce"}, result = "restored",
                        mgr.rec = receipts.apply /\ Applied
                 PROVE  jobs = was.jobs
    BY <1>13
  <2>2. GivenBack  BY <1>13, <2>1
  <2>3. NoneCreated /\ mgr.rec = receipts.quiesce /\ Quiesced /\ receipts.apply.before = was.jobs
    BY <1>2, <2>1 DEF IInv, Achieved, Steered, ReceiptsTell
  <2>4. \A s \in Slots : jobs[s] = was.jobs[s]  BY <2>2, <2>3 DEF GivenBack
  <2>5. jobs \in Jobs /\ was.jobs \in Jobs  BY <1>2 DEF Typed
  <2> QED BY <2>4, <2>5 DEF Jobs
<1>16. Answers'
  <2>1. /\ Enabled(jobs)' = Enabled(jobs) /\ AllDesired' = AllDesired /\ LegacyOff(jobs)' = LegacyOff(jobs)
        /\ GivenBack' = GivenBack /\ Applied' = Applied /\ Quiesced' = Quiesced
    BY <1>1 DEF Enabled, Present, AllDesired, LegacyOff, GivenBack, Applied, Quiesced
  <2> HIDE DEF Ends
  <2>2. inst' = inst /\ jobs' = jobs /\ was' = was /\ running' = running  BY <1>1
  <2> QED BY <1>5, <1>10, <1>11, <1>12, <1>13, <1>14, <1>15, <2>1, <2>2 DEF Answers, Answered
<1> QED BY <1>6, <1>7, <1>8, <1>9, <1>16 DEF IInv
-----------------------------------------------------------------------------
(* The induction.                                                          *)
LEMMA InitHolds ==
  ASSUME InstallInit
  PROVE  IInv
<1>1. /\ config \in Config /\ config.is # "new" /\ config.prepared = FALSE /\ skill \in Skill
      /\ jobs \in Jobs /\ NotTwice(jobs)
  <2>1. LegacyJob(TRUE) \in Job /\ [code : {"old"}, on : BOOLEAN] \subseteq Job
    BY DEF LegacyJob, Job
  <2>2. jobs \in Jobs  BY <2>1 DEF InstallInit, Jobs, JobOrNone
  <2>3. NotTwice(jobs)  BY DEF InstallInit, NotTwice, OwnedOf
  <2> QED BY <2>2, <2>3 DEF InstallInit, Config, Skill
<1>2. /\ running = {} /\ mgr = Idle /\ faults = 0 /\ starts = 0 /\ inst = NotStarted
      /\ ledger = [n |-> 0, canon |-> TRUE] /\ lock = Free
      /\ was = [jobs |-> jobs, skill |-> skill, config |-> config]
      /\ receipts \in [{"quiesce", "apply"} -> Receipt \cup {None}] /\ ~Quiesced /\ ~Applied
  BY DEF InstallInit, Found, Quiesced, Applied
<1>3. Idle \in Manager /\ Idle.op = "none" /\ Idle.todo = <<>>
  <2>1. <<>> \in Seq(Call) /\ {} \in SUBSET Owned /\ {} \in SUBSET Slots  OBVIOUS
  <2> QED BY <2>1 DEF Idle, Manager
<1>4. inst \in Run /\ inst.pc = "idle" /\ inst.seen = [n |-> 0, canon |-> TRUE] /\ inst.result = "none"
  BY <1>2, InstallerAssumption DEF NotStarted, Run, Steps, Skill, Ledger
<1>5. Typed
  BY <1>1, <1>2, <1>3, <1>4, TopologyAssumption DEF Typed, Ledger
<1>6. ReceiptsTell
  BY <1>1, <1>2 DEF ReceiptsTell, NoneCreated
<1>7. Steered /\ Worklist /\ Answers /\ Achieved /\ HonestRollback
  BY <1>2, <1>3, <1>4, LocksDiffer DEF Steered, Worklist, Forward, Answers, Answered, Achieved, HonestRollback
<1>8. NotTwice(was.jobs) /\ Known(config, jobs) /\ Known(was.config, was.jobs)
  BY <1>1, <1>2 DEF Known
<1> QED BY <1>1, <1>5, <1>6, <1>7, <1>8 DEF IInv

LEMMA Stutter ==
  ASSUME IInv, UNCHANGED installVars
  PROVE  IInv'
<1>1. /\ jobs' = jobs /\ running' = running /\ mgr' = mgr /\ receipts' = receipts /\ faults' = faults
      /\ starts' = starts /\ inst' = inst /\ skill' = skill /\ config' = config /\ ledger' = ledger
      /\ lock' = lock /\ was' = was
  BY DEF installVars
<1>2. Typed' /\ Steered'
  BY <1>1 DEF IInv, Typed, Steered, Quiesced, Applied
<1>3. running' \subseteq running \cup Enabled(jobs)  BY <1>1
<1> QED BY <1>1, <1>2, <1>3, OthersStepKeeps

LEMMA NextKeeps ==
  ASSUME IInv, InstallNext
  PROVE  IInv'
<1>1. CASE ManagerNext /\ ByManager
  BY <1>1, ManagerCallKeeps, ManagerCallIgnoredKeeps, ManagerCallFailsKeeps, ManagerProbesKeep, ManagerEndsKeeps
     DEF ManagerNext
<1>2. CASE JobStarts /\ ByManager
  BY <1>2, JobStartsKeeps DEF ByManager
<1>3. CASE JobLocks \/ JobEnds \/ Crash
  BY <1>3, JobLocksKeeps, JobEndsKeeps, CrashKeeps
<1>4. CASE InstallStart \/ InstallQuiesce \/ InstallQuiesced \/ InstallLock \/ InstallFiles \/ InstallAside
  BY <1>4, InstallStartKeeps, InstallQuiesceKeeps, InstallQuiescedKeeps, InstallLockKeeps, InstallFilesKeeps,
     InstallAsideKeeps
<1>5. CASE InstallPlace \/ InstallStepFails \/ InstallApply \/ InstallApplied \/ InstallReady \/ InstallRawChanged
  BY <1>5, InstallPlaceKeeps, InstallStepFailsKeeps, InstallApplyKeeps, InstallAppliedKeeps, InstallReadyKeeps,
     InstallRawChangedKeeps
<1>6. CASE InstallUndoCron \/ InstallUndoneCron \/ InstallUnplace \/ InstallUnaside \/ InstallUnfile \/ InstallUndoFails
  BY <1>6, RollbacksKeep, InstallUndoneCronKeeps, InstallUnplaceKeeps, InstallUnasideKeeps, InstallUnfileKeeps,
     InstallUndoFailsKeeps
<1>7. CASE OperatorRecovers \/ OperatorRollsBack \/ OperatorReads
  BY <1>7, OperatorRecoversKeeps, RollbacksKeep, OperatorReadsKeeps
<1> QED BY <1>1, <1>2, <1>3, <1>4, <1>5, <1>6, <1>7 DEF InstallNext, ByManager
(* The induction: what an installation always satisfies, for any roles, any *)
(* bound on the runs, the commands that fail or lie, and the job starts.    *)
THEOREM Inductive == Spec => []IInv
<1>1. InstallInit => IInv
  BY InitHolds
<1>2. IInv /\ [InstallNext]_installVars => IInv'
  BY NextKeeps, Stutter
<1> QED BY <1>1, <1>2, PTL DEF Spec

(* What holds at every moment of an installation (install.py 914-1045,      *)
(* manage_cron_topology.py 1437-1692): nothing is swapped under a running    *)
(* job, and no role ever runs from its owned and from its adopted job.       *)
THEOREM DeploymentSafe == Spec => []DeploymentInv
<1>1. IInv => DeploymentInv
  <2>1. SUFFICES ASSUME IInv PROVE DeploymentInv  OBVIOUS
  <2>2. TypeOK
    BY <2>1 DEF IInv, Typed, Steered, TypeOK, TopologyType, Jobs, JobOrNone, Manager, Run, Skill, Config
  <2>3. QuietSwap
    BY <2>1 DEF IInv, Achieved, QuietSwap, Quiesced
  <2>4. NeverTwice
    BY <2>1 DEF IInv, NotTwice, OwnedOf, NeverTwice, Coexists
  <2> QED BY <2>2, <2>3, <2>4 DEF DeploymentInv
<1> QED BY <1>1, Inductive, PTL

(* Whatever dies, and whenever, a receipt on disk holds the original of      *)
(* every job that is not as the run found it, or says that the run creates   *)
(* it (write_receipt, manage_cron_topology.py 828-853).                      *)
THEOREM ReceiptsCover == Spec => []ReceiptCovers
<1>1. IInv => ReceiptCovers
  <2>1. SUFFICES ASSUME IInv, NEW s \in Slots, jobs[s] # was.jobs[s]
                 PROVE  \/ \E t \in DOMAIN receipts : /\ receipts[t] # None /\ was.jobs[s] # NoJob
                                                      /\ receipts[t].before[s] = was.jobs[s]
                        \/ was.jobs[s] = NoJob /\ receipts.apply # None /\ receipts.apply.acts[s] = "create"
    BY DEF ReceiptCovers
  <2>2. ReceiptsTell /\ DOMAIN receipts = {"quiesce", "apply"}  BY <2>1 DEF IInv, Typed
  <2>3. Quiesced \/ Applied  BY <2>1, <2>2 DEF ReceiptsTell
  <2>4. CASE was.jobs[s] # NoJob
    <3>1. CASE Quiesced
      <4>1. receipts["quiesce"].before[s] = was.jobs[s]  BY <2>2, <3>1 DEF ReceiptsTell
      <4> QED BY <2>2, <2>4, <3>1, <4>1 DEF Quiesced
    <3>2. CASE ~Quiesced
      <4>1. receipts["apply"].before[s] = was.jobs[s]  BY <2>2, <2>3, <3>2 DEF ReceiptsTell
      <4> QED BY <2>2, <2>3, <2>4, <3>2, <4>1 DEF Applied
    <3> QED BY <3>1, <3>2
  <2>5. CASE was.jobs[s] = NoJob
    <3>1. jobs[s] # NoJob  BY <2>1, <2>5
    <3>2. Applied  BY <2>2, <2>5, <3>1 DEF ReceiptsTell, NoneCreated
    <3>3. s \in Owned  BY <2>2, <2>5, <3>1 DEF ReceiptsTell, Slots
    <3>4. receipts.apply.acts[s] = "create"  BY <2>2, <2>5, <3>2, <3>3 DEF ReceiptsTell, Slots
    <3> QED BY <2>5, <3>2, <3>4 DEF Applied
  <2> QED BY <2>4, <2>5
<1> QED BY <1>1, Inductive, PTL

(* A run that reports BLOCKED, and an operator's rollback that reports        *)
(* success, gave back what the run found (install.py 1002-1045).              *)
THEOREM RollbackHonest == Spec => []HonestRollback
<1>1. IInv => HonestRollback
  BY DEF IInv
<1> QED BY <1>1, Inductive, PTL

(* READY is reported only with the new skill, its configuration and all its   *)
(* jobs in place and no adopted job enabled beside them (install.py 914-1000). *)
THEOREM ReadyMeansConverged == Spec => ReadyConverged
<1> DEFINE Promise == inst.result # "READY" /\ inst'.result = "READY" =>
                        /\ skill = "new" /\ config.is = "new"
                        /\ \A s \in Owned : jobs[s] = Desired(TRUE)
                        /\ \A s \in Legacy : jobs[s] # NoJob => ~jobs[s].on
<1>1. ASSUME IInv, InstallNext, inst.result # "READY", inst'.result = "READY"
      PROVE  InstallReady
  <2>1. Typed  BY <1>1 DEF IInv
  <2>2. \A pc \in Steps : ~Goes(pc)
    BY <1>1, <2>1, Going
  <2>3. \A r \in {"BLOCKED", "INCOMPLETE", "KILLED", "RECOVERED"} : ~Finishes(r)
    BY <1>1, <2>1, Finishing
  <2>4. inst' # inst  BY <1>1
  <2>5. ~InstallStart
    <3>1. SUFFICES ASSUME InstallStart PROVE FALSE  OBVIOUS
    <3> DEFINE blocked == config.is = "none" /\ Present(jobs) \cap Legacy # {}
               first == IF blocked THEN "unfile" ELSE IF config.is # "none" /\ ChangeExpected THEN "quiesce" ELSE "lock"
    <3>2. inst' = [pc |-> first, runs |-> inst.runs + 1, seen |-> ledger, kept |-> "absent", swapped |-> FALSE,
                   preserve |-> FALSE, result |-> "none"]
      BY <3>1 DEF InstallStart, NotStarted
    <3> HIDE DEF blocked, first
    <3> QED BY <1>1, <3>2
  <2>6. ~InstallFiles /\ ~InstallAside /\ ~InstallPlace /\ ~InstallUndoFails
    BY <1>1, <2>1 DEF InstallFiles, Goes, InstallAside, InstallPlace, InstallUndoFails, Typed, Run
  <2>7. \A applied \in BOOLEAN : UndoFrom(applied) \in Steps  BY DEF UndoFrom, Steps
  <2>8. ~JobLocks /\ ~JobEnds /\ ~ByManager  BY <2>4 DEF JobLocks, JobEnds, ByManager
  <2>9. /\ ~InstallQuiesce /\ ~InstallApply /\ ~InstallUndoCron /\ ~OperatorRollsBack /\ ~OperatorRecovers
        /\ ~InstallUnplace /\ ~InstallUnaside /\ ~InstallLock /\ ~InstallStepFails
    <3>1. {"quiescing", "applying", "undoingApply", "undoingQuiesce", "recoveringApply", "recoveringQuiesce",
           "recoverApply", "recoverQuiesce", "unaside", "unfile", "files"} \subseteq Steps
      BY DEF Steps
    <3>2. ~InstallQuiesce /\ ~InstallApply  BY <2>2, <3>1 DEF InstallQuiesce, InstallApply
    <3>3. ~InstallUndoCron  BY <2>2, <3>1 DEF InstallUndoCron
    <3>4. ~OperatorRollsBack /\ ~OperatorRecovers  BY <2>2, <3>1 DEF OperatorRollsBack, OperatorRecovers
    <3>5. ~InstallUnplace /\ ~InstallUnaside  BY <2>2, <3>1 DEF InstallUnplace, InstallUnaside
    <3>6. ~InstallLock /\ ~InstallStepFails  BY <2>2, <2>7, <3>1 DEF InstallLock, InstallStepFails
    <3> QED BY <3>2, <3>3, <3>4, <3>5, <3>6
  <2>10. ~InstallRawChanged
    BY <2>2, <2>7 DEF InstallRawChanged
  <2>11. ~InstallQuiesced
    <3>1. inst.pc = "quiescing" /\ mgr.op = "none" => mgr.result \in {"prepared", "failed", "incomplete"}
      BY <1>1 DEF IInv, Answers
    <3> QED BY <2>2, <2>3, <3>1 DEF InstallQuiesced, Steps
  <2>12. ~InstallApplied
    <3>1. inst.pc = "applying" /\ mgr.op = "none" => mgr.result \in {"ready", "failed", "incomplete"}
      BY <1>1 DEF IInv, Answers
    <3> QED BY <2>2, <2>3, <2>7, <3>1 DEF InstallApplied, Steps
  <2>13. ~InstallUndoneCron /\ ~OperatorReads
    BY <2>2, <2>3, <2>7 DEF InstallUndoneCron, OperatorReads, Steps
  <2>14. ~InstallUnfile /\ ~Crash
    BY <2>3 DEF InstallUnfile, Crash
  <2> QED BY <1>1, <2>5, <2>6, <2>8, <2>9, <2>10, <2>11, <2>12, <2>13, <2>14 DEF InstallNext, ByManager
<1>2. IInv /\ InstallReady => Promise
  BY DEF InstallReady, IInv, Achieved, AllDesired, LegacyOff
<1>3. IInv /\ [InstallNext]_installVars => Promise
  BY <1>1, <1>2 DEF installVars
<1> HIDE DEF Promise
<1>4. Spec => [][Promise]_installVars
  BY <1>3, Inductive, PTL DEF Spec
<1> QED BY <1>4 DEF ReadyConverged, Promise
=============================================================================
