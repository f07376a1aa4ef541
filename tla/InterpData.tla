----------------------------- MODULE InterpData -----------------------------
(***************************************************************************)
(* The instructions that compute, load, store and jump inside a function.  *)
(* Short forms of an instruction (ACC3, PUSHCONST0, GETFIELD1, MAKEBLOCK2) *)
(* are the general form with that operand.                                 *)
(***************************************************************************)
EXTENDS InterpState

\* `Next' in the code: the instruction is done, with s on the stack, a in accu
\* and h the heap; n is the next instruction.
Done(n, a, s, h) ==
  /\ pc' = n /\ accu' = a /\ stacks' = WithSp(s) /\ heap' = h /\ at' = "fetch"
  /\ UNCHANGED <<prog, env, extra_args, locals, why, cval, current_stack, trap_sp_off,
                 base, activationVars, signalVars, collections>>

Step(a, s) == Done(pc + 1, a, s, heap) /\ UNCHANGED caml_global_data
Store(h, s) == Done(pc + 1, Unit, s, h) /\ UNCHANGED caml_global_data
Jump(n) == Done(n, accu, sp, heap) /\ UNCHANGED caml_global_data
-----------------------------------------------------------------------------
(* Loads *)

Loads == {"ACC", "ENVACC", "OFFSETCLOSURE", "GETGLOBAL", "GETGLOBALFIELD", "ATOM", "CONSTINT"}

\* The instructions that push accu first
PushLoads ==
  [PUSHACC |-> "ACC", PUSHENVACC |-> "ENVACC", PUSHOFFSETCLOSURE |-> "OFFSETCLOSURE",
   PUSHGETGLOBAL |-> "GETGLOBAL", PUSHGETGLOBALFIELD |-> "GETGLOBALFIELD",
   PUSHATOM |-> "ATOM", PUSHCONSTINT |-> "CONSTINT"]

Loaded(op, s) ==
  CASE op = "ACC" -> s[Arg(1) + 1]
    [] op = "ENVACC" -> Field(env, Arg(1))
    [] op = "OFFSETCLOSURE" -> Ptr(env[2], env[3] + Arg(1))
    [] op = "GETGLOBAL" -> caml_global_data[Arg(1)]
    [] op = "GETGLOBALFIELD" -> Field(caml_global_data[Arg(1)], Arg(2))
    [] op = "ATOM" -> Atom(Arg(1))
    [] op = "CONSTINT" -> Val_int(Arg(1))

Load == Op \in Loads /\ Step(Loaded(Op, sp), sp)
PushLoad ==
  /\ Op \in DOMAIN PushLoads
  /\ LET s == <<accu>> \o sp IN Step(Loaded(PushLoads[Op], s), s)
PUSH == Op = "PUSH" /\ Step(accu, <<accu>> \o sp)
POP == Op = "POP" /\ Step(accu, Drop(sp, Arg(1)))
ASSIGN == Op = "ASSIGN" /\ Step(Unit, [sp EXCEPT ![Arg(1) + 1] = accu])
-----------------------------------------------------------------------------
(* Computations on accu, and on accu and the word popped *)

Is_block(v) == v[1] # "int"

Unary(op) ==
  CASE op = "NEGINT" -> <<"int", NEGINT(accu[2])>>
    [] op = "BOOLNOT" -> <<"int", BOOLNOT(accu[2])>>
    [] op = "OFFSETINT" -> <<"int", OFFSETINT(accu[2], Arg(1))>>
    [] op = "ISINT" -> <<"int", Bool(~Is_block(accu))>>
    [] op = "GETFIELD" -> Field(accu, Arg(1))
    [] op = "VECTLENGTH" -> Val_int(Wosize_val(accu))

Unaries == {"NEGINT", "BOOLNOT", "OFFSETINT", "ISINT", "GETFIELD", "VECTLENGTH"}

\* The comparisons of two words; EQ and NEQ also compare pointers.
Compared(t, v, w) ==
  CASE t = "EQ" -> <<"int", Bool(v = w)>>
    [] t = "NEQ" -> <<"int", Bool(v # w)>>
    [] OTHER -> <<"int", Compare(t, v[2], w[2])>>

Binary(op) ==
  CASE op \in ArithOps -> <<"int", Arith(op, accu[2], sp[1][2])>>
    [] op \in Tests -> Compared(op, accu, sp[1])
    [] op \in {"GETVECTITEM", "GETBYTESCHAR"} -> Field(accu, Long(sp[1]))

Binaries == ArithOps \cup Tests \cup {"GETVECTITEM", "GETBYTESCHAR"}

UnaryOp == Op \in Unaries /\ Step(Unary(Op), sp)
BinaryOp ==
  /\ Op \in Binaries
  /\ Op \in DivisionOps => Long(sp[1]) # 0
  /\ Step(Binary(Op), Tail(sp))

\* Division by zero: Setup_for_c_call, then caml_raise_zero_divide
DivideByZero ==
  /\ Op \in DivisionOps /\ Long(sp[1]) = 0
  /\ stacks' = WithSp(<<env, Code(pc + 1)>> \o Tail(sp))
  /\ at' = "pending" /\ why' = "raise" /\ cval' = Exn("Division_by_zero")
  /\ UNCHANGED <<prog, regs, locals, current_stack, trap_sp_off, heapVars,
                 caml_global_data, activationVars, signalVars, collections>>
-----------------------------------------------------------------------------
(* Stores *)

Double_val(v) == Field(v, 0)

StoreOp ==
  \/ Op = "SETFIELD" /\ Store(WithField(accu, Arg(1), sp[1]), Tail(sp))
  \/ Op = "SETFLOATFIELD" /\ Store(WithField(accu, Arg(1), Double_val(sp[1])), Tail(sp))
  \/ Op = "SETVECTITEM" /\ Store(WithField(accu, Long(sp[1]), sp[2]), Drop(sp, 2))
  \/ /\ Op = "SETBYTESCHAR"
     /\ Store(WithField(accu, Long(sp[1]), Val_int(Long(sp[2]) % 256)), Drop(sp, 2))
  \/ /\ Op = "OFFSETREF"
     /\ Store(WithField(accu, 0, <<"int", OFFSETINT(Field(accu, 0)[2], Arg(1))>>), sp)

SETGLOBAL ==
  /\ Op = "SETGLOBAL"
  /\ caml_global_data' = [caml_global_data EXCEPT ![Arg(1)] = accu]
  /\ Done(pc + 1, Unit, sp, heap)
-----------------------------------------------------------------------------
(* Jumps: an operand is the instruction the jump leads to *)

BranchOps == [BEQ |-> "EQ", BNEQ |-> "NEQ", BLTINT |-> "LTINT", BLEINT |-> "LEINT",
              BGTINT |-> "GTINT", BGEINT |-> "GEINT", BULTINT |-> "ULTINT",
              BUGEINT |-> "UGEINT"]

Branch ==
  \/ Op = "BRANCH" /\ Jump(Arg(1))
  \/ Op = "BRANCHIF" /\ Jump(IF accu # Unit THEN Arg(1) ELSE pc + 1)
  \/ Op = "BRANCHIFNOT" /\ Jump(IF accu = Unit THEN Arg(1) ELSE pc + 1)
  \/ Op \in DOMAIN BranchOps
     /\ Jump(IF BranchTaken(BranchOps[Op], Arg(1), accu[2]) THEN Arg(2) ELSE pc + 1)

\* Operands: the targets for constants, those for the tags of blocks
SWITCH ==
  /\ Op = "SWITCH"
  /\ Jump(IF Is_block(accu) THEN Arg(2)[heap[accu[2]].tag + 1] ELSE Arg(1)[Long(accu) + 1])

DataStep ==
  /\ at = "fetch"
  /\ \/ Load \/ PushLoad \/ PUSH \/ POP \/ ASSIGN
     \/ UnaryOp \/ BinaryOp \/ DivideByZero
     \/ StoreOp \/ SETGLOBAL
     \/ Branch \/ SWITCH
=============================================================================
