---------------------------- MODULE SorcerSemantics ----------------------------
(***************************************************************************)
(* What a sorcer program means, without addresses, a return stack, a       *)
(* shared variable table or tail calls: blocks are lists of instructions   *)
(* that name each other, and every activation of a block has variables of  *)
(* its own.  A number is a value nobody else holds.                        *)
(*                                                                         *)
(*   blocks  the program            current    the activation that runs    *)
(*   stack   the data stack         suspended  those that wait, outermost  *)
(*                                             first                       *)
(*   status  "idle", "running", "failed" (the last run did), "stopped" (on *)
(*           a program the language does not define) or "freed"            *)
(***************************************************************************)
EXTENDS Integers, SorcerCells, SequencesExt

CONSTANTS Numerals, OprTable

VARIABLES blocks, stack, current, suspended, status

semVars == << blocks, stack, current, suspended, status >>

(* An activation of block b that starts. *)
Activation(b) == [block |-> b, at |-> 1, vars |-> << >>]

(* What current is while nothing runs. *)
Nobody == Activation(0)

Init == stack = << >> /\ current = Nobody /\ suspended = << >> /\ status = "idle"

-------------------------------------------------------------------------------
Code == blocks[current.block]

Executing(op) ==
  status = "running" /\ current.at <= Len(Code) /\ Code[current.at].op = op

Arg == Code[current.at].arg

Top == Last(stack)

(* The numbers a stack and the variables of every activation hold. *)
Held(s) ==
  Owned(s) \union Owned(current.vars)
    \union UNION { Owned(suspended[k].vars) : k \in DOMAIN suspended }

(* The running activation with one instruction done. *)
Further == [current EXCEPT !.at = @ + 1]

Proceed == current' = Further /\ UNCHANGED << suspended, status >>

(* A number that nothing else holds is put on what is left of the stack. *)
PutNumber(rest) ==
  /\ Len(stack') = Len(rest) + 1
  /\ Front(stack') = rest
  /\ Last(stack').type = NUM
  /\ Last(stack').val \notin Held(rest)

(***************************************************************************)
(* Block b is entered.  The caller is kept for when b is done, unless it   *)
(* has nothing left to do then: a program may call in tail position for    *)
(* ever without being remembered for it.                                   *)
(***************************************************************************)
Enter(b) ==
  /\ current' = Activation(b)
  /\ suspended' = IF current.at = Len(Code) THEN suspended ELSE Append(suspended, Further)
  /\ UNCHANGED status

(* The run is over, whatever waits. *)
Ends(s) == current' = Nobody /\ suspended' = << >> /\ status' = s /\ UNCHANGED stack

-------------------------------------------------------------------------------
(* The instructions. *)

PopNull ==
  /\ Executing("PopNull")
  /\ stack # << >> /\ stack' = Front(stack)
  /\ Proceed

PopVar ==
  /\ Executing("PopVar")
  /\ stack # << >> /\ stack' = Front(stack)
  /\ current' = [Further EXCEPT !.vars = Append(@, Top)]
  /\ UNCHANGED << suspended, status >>

PushImm ==
  /\ Executing("PushImm")
  /\ Arg \in Numerals
  /\ PutNumber(stack)
  /\ Proceed

(* A variable is read by copying it. *)
PushVar ==
  /\ Executing("PushVar")
  /\ Arg < Len(current.vars)
  /\ LET c == current.vars[Arg + 1]
     IN IF c.type = NUM THEN PutNumber(stack) ELSE stack' = Append(stack, c)
  /\ Proceed

(* A variable the activation has not bound may be anything. *)
PushUnbound ==
  /\ Executing("PushVar")
  /\ Arg >= Len(current.vars)
  /\ \/ PutNumber(stack)
     \/ \E b \in DOMAIN blocks : stack' = Append(stack, Blk(b))
  /\ Proceed

PushBlock ==
  /\ Executing("PushBlock")
  /\ stack' = Append(stack, Blk(Arg))
  /\ Proceed

Call ==
  /\ Executing("Call")
  /\ Enter(Arg)
  /\ UNCHANGED stack

Apply ==
  /\ Executing("Apply")
  /\ stack # << >> /\ Top.type = BLOCK
  /\ stack' = Front(stack)
  /\ Enter(Top.val)

ApplyFail ==
  /\ Executing("Apply")
  /\ stack = << >> \/ Top.type # BLOCK
  /\ Ends("failed")

Takes(o) ==
  /\ Len(stack) >= o.numIns
  /\ \A i \in (Len(stack) - o.numIns + 1)..Len(stack) : stack[i].type = NUM

OprRun ==
  /\ Executing("Opr")
  /\ Takes(OprTable[Arg])
  /\ PutNumber(SubSeq(stack, 1, Len(stack) - OprTable[Arg].numIns))
  /\ Proceed

OprFail ==
  /\ Executing("Opr")
  /\ ~ Takes(OprTable[Arg])
  /\ Ends("failed")

(* The end of a block: its variables go, the caller goes on with its own. *)
Return ==
  /\ status = "running" /\ current.at = Len(Code) + 1
  /\ suspended # << >>
  /\ current' = Last(suspended) /\ suspended' = Front(suspended)
  /\ UNCHANGED << stack, status >>

(* The end of the block the run started with. *)
Finish ==
  /\ status = "running" /\ current.at = Len(Code) + 1
  /\ suspended = << >>
  /\ Ends("idle")

(* A program that takes from an empty stack, reads what it has not bound or *)
(* writes a literal nobody understands may stop everything.                 *)
Undefined ==
  \/ stack = << >> /\ (Executing("PopNull") \/ Executing("PopVar") \/ Executing("Apply"))
  \/ Executing("PushVar") /\ Arg >= Len(current.vars)
  \/ Executing("PushImm") /\ Arg \notin Numerals

Stop == Undefined /\ status' = "stopped" /\ UNCHANGED << stack, current, suspended >>

-------------------------------------------------------------------------------
(* The host. *)

Start(b) ==
  /\ status = "idle"
  /\ status' = "running"
  /\ current' = Activation(b)
  /\ UNCHANGED << stack, suspended >>

HostPush ==
  /\ status \in {"idle", "failed"}
  /\ PutNumber(stack)
  /\ UNCHANGED << current, suspended, status >>

HostPop ==
  /\ status \in {"idle", "failed"}
  /\ \E n \in 1..Len(stack) : stack' = SubSeq(stack, 1, Len(stack) - n)
  /\ UNCHANGED << current, suspended, status >>

Free ==
  /\ status \in {"idle", "failed"}
  /\ stack' = << >> /\ status' = "freed"
  /\ UNCHANGED << current, suspended >>

Next ==
  /\ \/ PopNull \/ PopVar \/ PushImm \/ PushVar \/ PushUnbound \/ PushBlock
     \/ Call \/ Apply \/ ApplyFail \/ OprRun \/ OprFail \/ Return \/ Finish \/ Stop
     \/ (\E b \in DOMAIN blocks : Start(b)) \/ HostPush \/ HostPop \/ Free
  /\ UNCHANGED blocks

Spec == Init /\ [][Next]_semVars
===============================================================================
