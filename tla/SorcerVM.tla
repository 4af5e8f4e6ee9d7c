------------------------------- MODULE SorcerVM -------------------------------
(***************************************************************************)
(* The virtual machine: SR_run (sorcer.c) on a linked image, one action    *)
(* per opcode, and what the host does between runs.                        *)
(*                                                                         *)
(*   code  ctx->code, the image           p     the program counter of     *)
(*   ds    ctx->dataStack                       SR_run (Wild when idle)    *)
(*   rs    ctx->retStack                  mode  "idle", "running", or the  *)
(*   vt    ctx->varTable                        fault that stopped the     *)
(*   pool  the live handles of the              process, "freed"           *)
(*         number pool                    err   SR_RunErrorInfo.error      *)
(*                                                                         *)
(* A fault is an assertion of SR_run that fails (a build without NDEBUG    *)
(* stops there) or a read outside a vector whose outcome is a crash.       *)
(***************************************************************************)
EXTENDS Integers, SorcerCells, SequencesExt

CONSTANTS
  Images,             \* the linked images a run may execute
  Numerals,           \* the literals the constructor of "num" accepts
  OprTable,           \* ctx->oprTable, a sequence of operators
  Handles,            \* the handles of the number pool
  MaxCells,           \* bound on the data stack
  MaxFrames,          \* bound on the return stack
  MaxVars,            \* bound on the variable table
  HostCells,          \* bound on the data stack the host builds up between runs
  ReuseAfterFailure   \* does the host run a context again after a failed run?

ASSUME ImagesAssumption == \A c \in Images : c \in Seq(Instruction) /\ Linkage(c)
ASSUME OprAssumption    == OprTable \in Seq(Opr)
ASSUME HandlesAssumption == Handles \subseteq Nat
ASSUME BoundsAssumption == {MaxCells, MaxFrames, MaxVars, HostCells} \subseteq Nat
ASSUME ReuseAssumption  == ReuseAfterFailure \in BOOLEAN

VARIABLES code, ds, rs, vt, pool, p, mode, err

vars == << code, ds, rs, vt, pool, p, mode, err >>

Faults == { "assertImm", "assertFrame", "noCell", "noSlot", "noInst" }

Frame == [address : Nat, varBase : Nat]

TypeOK ==
  /\ code \in Seq(Instruction)
  /\ ds \in Seq(Cell)
  /\ rs \in Seq(Frame)
  /\ vt \in Seq(Cell)
  /\ pool \subseteq Handles
  /\ p \in Nat
  /\ mode \in {"idle", "running", "freed"} \union Faults
  /\ err \in {"NONE", "OprArgs"}

Init ==
  /\ code \in Images
  /\ ds = << >> /\ rs = << >> /\ vt = << >> /\ pool = {}
  /\ p = Wild /\ mode = "idle" /\ err = "NONE"

-------------------------------------------------------------------------------
(* The pieces the opcodes are made of. *)

ExecutingOneOf(ops) == mode = "running" /\ p \in 1..Len(code) /\ code[p].op \in ops

Executing(op) == ExecutingOneOf({op})

Arg == code[p].arg

(* Where the variables of the running block start in the variable table. *)
VarBase == IF rs = << >> THEN 0 ELSE Last(rs).varBase

(* The entry of the variable table that variable v of the block occupies. *)
Slot(v) == VarBase + v + 1

(* PushVar finds its slot at or past vt->length, where no variable is alive. *)
ReadsUnbound == Executing("PushVar") /\ Slot(Arg) > Len(vt)

TopIsBlock == ds # << >> /\ Last(ds).type = BLOCK

Free == Handles \ pool
Fresh == CHOOSE h \in Handles : h \notin pool

Jump(a) == p' = a /\ UNCHANGED << mode, err >>

Halt(e) == p' = Wild /\ mode' = "idle" /\ err' = e

Fault(f) == mode' = f /\ UNCHANGED << ds, rs, vt, pool, p, err >>

(* Faulty: the return address is that of the call itself. *)
PushFrameAtCall == rs' = Append(rs, [address |-> p, varBase |-> Len(vt)])

(* Faulty: the return address is one instruction too far. *)
PushFramePastNext == rs' = Append(rs, [address |-> p + 2, varBase |-> Len(vt)])

(* Faulty: the callee's variables start one cell too early. *)
PushFrameEarly == rs' = Append(rs, [address |-> p + 1, varBase |-> Len(vt) - 1])

(* Faulty: the callee's variables start where the caller's do. *)
PushFrameAtBase == rs' = Append(rs, [address |-> p + 1, varBase |-> VarBase])

PushFrame == rs' = Append(rs, [address |-> p + 1, varBase |-> Len(vt)])

(* SR_ctxCellVecResize of the variable table to a length it already exceeds. *)
CutVars(n) ==
  /\ vt' = SubSeq(vt, 1, n)
  /\ pool' = Freed(pool, SubSeq(vt, n + 1, Len(vt)))

(* Faulty: a run that fails leaves its variables behind. *)
FailKeepingVars == Halt("OprArgs") /\ UNCHANGED << ds, vt, pool >>

(* The label failed: the variables go, the data and return stacks stay. *)
Fail == CutVars(0) /\ Halt("OprArgs") /\ UNCHANGED ds

(* Push a cell whose handle, if it is a number, is the fresh one. *)
PushCell(c) ==
  /\ Len(ds) < MaxCells
  /\ Free # {}
  /\ ds' = Append(ds, c)
  /\ pool' = pool \union Owned(<< c >>)

-------------------------------------------------------------------------------
(* The opcodes. *)

PopNull ==
  /\ Executing("PopNull")
  /\ ds # << >>
  /\ ds' = Front(ds)
  /\ pool' = Freed(pool, << Last(ds) >>)
  /\ Jump(p + 1)
  /\ UNCHANGED << rs, vt >>

PopVar ==
  /\ Executing("PopVar")
  /\ ds # << >>
  /\ Len(vt) < MaxVars
  /\ ds' = Front(ds)
  /\ vt' = Append(vt, Last(ds))
  /\ Jump(p + 1)
  /\ UNCHANGED << rs, pool >>

(* vec_last of an empty data stack, when the read or the wrapped length is   *)
(* fatal.                                                                    *)
PopNothing ==
  /\ ExecutingOneOf({"PopNull", "PopVar", "Apply", "TailApply"})
  /\ Executing("TailApply") => VarBase <= Len(vt)
  /\ ds = << >>
  /\ Fault("noCell")

PushImm ==
  /\ Executing("PushImm")
  /\ Arg \in Numerals
  /\ PushCell(Num(Fresh))
  /\ Jump(p + 1)
  /\ UNCHANGED << rs, vt >>

(* assert(r): the constructor refused the literal. *)
PushBadImm ==
  /\ Executing("PushImm")
  /\ Arg \notin Numerals
  /\ Fault("assertImm")

PushVar ==
  /\ Executing("PushVar")
  /\ Slot(Arg) <= Len(vt)
  /\ PushCell(CellDup(vt[Slot(Arg)], Fresh))
  /\ Jump(p + 1)
  /\ UNCHANGED << rs, vt >>

(***************************************************************************)
(* A slot past the end of the variable table: the read finds the remains   *)
(* of a cell that was cut off (a block, or a number, whose copy gets a     *)
(* handle of its own) or crashes.                                          *)
(***************************************************************************)
PushRemains ==
  /\ ReadsUnbound
  /\ \E c \in {Blk(a) : a \in Entries(code)} \union {Num(Fresh)} : PushCell(c)
  /\ Jump(p + 1)
  /\ UNCHANGED << rs, vt >>

PushNothing ==
  /\ ReadsUnbound
  /\ Fault("noSlot")

PushBlock ==
  /\ Executing("PushBlock")
  /\ PushCell(Blk(Arg))
  /\ Jump(p + 1)
  /\ UNCHANGED << rs, vt >>

Call ==
  /\ Executing("Call")
  /\ Len(rs) < MaxFrames
  /\ PushFrame
  /\ Jump(Arg)
  /\ UNCHANGED << ds, vt, pool >>

Apply ==
  /\ Executing("Apply")
  /\ Len(rs) < MaxFrames
  /\ TopIsBlock
  /\ PushFrame
  /\ ds' = Front(ds)
  /\ Jump(Last(ds).val)
  /\ UNCHANGED << vt, pool >>

(* The frame is pushed before the type of the top cell is looked at.  Below   *)
(* an empty stack lies whatever the memory holds, which need not be a block.  *)
ApplyFail ==
  /\ Executing("Apply")
  /\ Len(rs) < MaxFrames
  /\ ~ TopIsBlock
  /\ PushFrame
  /\ Fail

OprFits(o) ==
  /\ Len(ds) >= o.numIns
  /\ \A i \in (Len(ds) - o.numIns + 1)..Len(ds) : ds[i].type = NUM

OprRun ==
  /\ Executing("Opr")
  /\ Arg \in DOMAIN OprTable
  /\ Free # {}
  /\ LET o    == OprTable[Arg]
         rest == Len(ds) - o.numIns
         args == SubSeq(ds, rest + 1, Len(ds))
     IN /\ OprFits(o)
        /\ ds' = Append(SubSeq(ds, 1, rest), OprResult(o, args, Fresh))
        /\ pool' = OprPool(o, args, Fresh, pool)
  /\ Jump(p + 1)
  /\ UNCHANGED << rs, vt >>

OprFail ==
  /\ Executing("Opr")
  /\ Arg \in DOMAIN OprTable
  /\ ~ OprFits(OprTable[Arg])
  /\ Fail
  /\ UNCHANGED rs

(* Faulty: the fields of SR_Ret are swapped. *)
RetToBase ==
  /\ Executing("Ret")
  /\ rs # << >> /\ VarBase <= Len(vt)
  /\ rs' = Front(rs)
  /\ CutVars(VarBase)
  /\ Jump(Last(rs).varBase)
  /\ UNCHANGED ds

Ret ==
  /\ Executing("Ret")
  /\ rs # << >> /\ VarBase <= Len(vt)
  /\ rs' = Front(rs)
  /\ CutVars(VarBase)
  /\ Jump(Last(rs).address)
  /\ UNCHANGED ds

(* Ret with no frame left ends the run. *)
RetEnd ==
  /\ Executing("Ret")
  /\ rs = << >>
  /\ CutVars(0)
  /\ Halt("NONE")
  /\ UNCHANGED << ds, rs >>

(* assert(vt->length >= ret.varBase), made by all three ways out of a block. *)
BadFrame ==
  /\ ExecutingOneOf({"Ret", "TailCall", "TailApply"})
  /\ VarBase > Len(vt)
  /\ Fault("assertFrame")

TailCall ==
  /\ Executing("TailCall")
  /\ VarBase <= Len(vt)
  /\ CutVars(VarBase)
  /\ Jump(Arg)
  /\ UNCHANGED << ds, rs >>

TailApply ==
  /\ Executing("TailApply")
  /\ VarBase <= Len(vt)
  /\ TopIsBlock
  /\ CutVars(VarBase)
  /\ ds' = Front(ds)
  /\ Jump(Last(ds).val)
  /\ UNCHANGED rs

TailApplyFail ==
  /\ Executing("TailApply")
  /\ VarBase <= Len(vt)
  /\ ~ TopIsBlock
  /\ Fail
  /\ UNCHANGED rs

(* The program counter left the code vector. *)
FetchNothing ==
  /\ mode = "running"
  /\ p \notin 1..Len(code)
  /\ Fault("noInst")

Step ==
  \/ PopNull \/ PopVar \/ PopNothing
  \/ PushImm \/ PushBadImm \/ PushVar \/ PushRemains \/ PushNothing \/ PushBlock
  \/ Call \/ Apply \/ ApplyFail \/ OprRun \/ OprFail
  \/ Ret \/ RetEnd \/ BadFrame \/ TailCall \/ TailApply \/ TailApplyFail
  \/ FetchNothing

-------------------------------------------------------------------------------
(* The host, between runs. *)

(* SR_run: the error is cleared, the stacks are left as they were. *)
Run(a) ==
  /\ mode = "idle"
  /\ Len(ds) <= HostCells
  /\ err # "NONE" => ReuseAfterFailure
  /\ p' = a /\ mode' = "running" /\ err' = "NONE"
  /\ UNCHANGED << ds, rs, vt, pool >>

(* SR_cellNew of a number and SR_dsPush. *)
HostPush ==
  /\ mode = "idle"
  /\ Len(ds) < HostCells
  /\ PushCell(Num(Fresh))
  /\ UNCHANGED << rs, vt, p, mode, err >>

(* SR_dsPop of n cells, which the host then frees. *)
HostPop(n) ==
  /\ mode = "idle"
  /\ n \in 1..Len(ds)
  /\ ds' = SubSeq(ds, 1, Len(ds) - n)
  /\ pool' = Freed(pool, SubSeq(ds, Len(ds) - n + 1, Len(ds)))
  /\ UNCHANGED << rs, vt, p, mode, err >>

(* Faulty: the cells of the data stack go unfreed with their vector. *)
CtxFreeNoCells ==
  /\ mode = "idle" /\ vt = << >>
  /\ mode' = "freed"
  /\ ds' = << >> /\ rs' = << >>
  /\ UNCHANGED << vt, pool, p, err >>

(***************************************************************************)
(* SR_ctxFree: it asserts that no variable is left, frees the cells of the *)
(* data stack and drops the stacks; what is left in the pool is lost.  The *)
(* code goes too, but nothing reads it any more.                           *)
(***************************************************************************)
CtxFree ==
  /\ mode = "idle" /\ vt = << >>
  /\ mode' = "freed"
  /\ ds' = << >> /\ rs' = << >>
  /\ pool' = Freed(pool, ds)
  /\ UNCHANGED << vt, p, err >>

Host == HostPush \/ (\E n \in 1..Len(ds) : HostPop(n)) \/ CtxFree

Next ==
  /\ Step \/ Host \/ \E a \in Entries(code) : Run(a)
  /\ UNCHANGED code

Spec == Init /\ [][Next]_vars

(* SR_run is a loop of one thread: while it runs, it goes on to the next step. *)
FairSpec == Spec /\ WF_vars(Step /\ UNCHANGED code)

-------------------------------------------------------------------------------
(* The properties. *)

(* The base of the block that runs on top of the first k frames. *)
Base(k) == IF k = 0 THEN 0 ELSE rs[k].varBase

(***************************************************************************)
(* The variable table is partitioned exactly: the running block owns one   *)
(* cell per variable it has bound so far, and so does every suspended      *)
(* block at the point it will resume from.  Calls, tail calls, applied     *)
(* blocks and returns all keep this, so the assertions of SR_run on        *)
(* ret.varBase hold.  It is about runs that start with no frame left over. *)
(***************************************************************************)
ExactFrames ==
  mode = "running" =>
    /\ Len(vt) = VarBase + Bound(code, p)
    /\ \A k \in 1..Len(rs) :
         rs[k].varBase = Base(k - 1) + Bound(code, rs[k].address)

(* The assertions vt->length >= ret.varBase of Ret, TailCall and TailApply   *)
(* never fail.                                                               *)
FrameAssertions == mode # "assertFrame"

(***************************************************************************)
(* In a program without captured variables PushVar never reads outside the *)
(* variables of the activation that executes it.                           *)
(***************************************************************************)
OwnVariables ==
  SelfContained(code) /\ Executing("PushVar") => Slot(Arg) \in (VarBase + 1)..Len(vt)

(***************************************************************************)
(* Every live number has exactly one owner, a cell of the data stack or of *)
(* the variable table: nothing leaks, nothing is freed twice, no cell      *)
(* holds a freed number, whatever the program does and however it fails;   *)
(* and none outlives the context, which ends with both empty.              *)
(***************************************************************************)
SoleOwner(s) ==
  \A i, j \in 1..Len(s) :
    s[i].type = NUM /\ s[j].type = NUM /\ s[i].val = s[j].val => i = j

Ownership ==
  /\ pool = Owned(ds) \union Owned(vt)
  /\ Owned(ds) \intersect Owned(vt) = {}
  /\ SoleOwner(ds) /\ SoleOwner(vt)

(***************************************************************************)
(* Between runs no variable is alive (what SR_ctxFree asserts), and no     *)
(* frame either unless the last run failed.                                *)
(***************************************************************************)
CleanReturn ==
  mode = "idle" => vt = << >> /\ (err = "NONE" => rs = << >>)

(***************************************************************************)
(* Tail call elimination is complete: every frame resumes just after the   *)
(* call that pushed it, and has something left to do there.                *)
(***************************************************************************)
NoIdleFrames ==
  \A k \in 1..Len(rs) :
    /\ code[rs[k].address - 1].op \in {"Call", "Apply"}
    /\ code[rs[k].address].op # "Ret"

(***************************************************************************)
(* Control stays inside the code vector: the default branch of SR_run's    *)
(* switch, which asserts false, is never what a fetch finds.               *)
(***************************************************************************)
NoStrayFetch == mode = "running" => p \in 1..Len(code)

(* A run of a program that cannot loop ends. *)
Termination == (mode = "running" /\ LoopFree(code)) ~> (mode # "running")

(***************************************************************************)
(* PushVar reads a variable that is alive, below vt->length.  1.mana       *)
(* supposes it: the name its last block uses is bound on the line before.  *)
(***************************************************************************)
BoundReads == ~ ReadsUnbound
===============================================================================
