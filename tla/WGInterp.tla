----------------------------- MODULE WGInterp -----------------------------
(***************************************************************************)
(* The x86-64 interpreter: Sources/CPU/wg_x86_interp.c, wg_x86_state.c.    *)
(*                                                                         *)
(* wg_x86_exec_one works on 64-bit integers whatever the size of the       *)
(* operands; masks and the sign bit of the operation size cut them down.   *)
(* QWORD stands for 64 bits, DWORD for 32, BYTE for 8; the arithmetic is   *)
(* done modulo 2^QWORD as in C.  An instruction has one size for its       *)
(* operands and one for its flags (op_size), which the decoder leaves at   *)
(* DWORD for operations on bytes.                                          *)
(***************************************************************************)
EXTENDS Integers, Sequences

CONSTANTS
    QWORD, DWORD, BYTE,     \* widths in bits: 64, 32, 8 in the code
    MaxStack                \* bound: words on the stack

ASSUME InterpAssumption ==
    /\ {QWORD, DWORD, BYTE, MaxStack} \subseteq Nat \ {0}
    /\ BYTE < DWORD /\ DWORD < QWORD

VARIABLES
    dst, src,       \* the contents of two registers
    flags,          \* CF, ZF, SF, OF, PF of rflags
    ran,                    \* what was executed last, on what
    stack, rbp,     \* the words above RSP, the newest first; RBP as their number
    frames          \* history: for each function entered, what its return should find

interpVars == <<dst, src, flags, ran, stack, rbp, frames>>

\* Power[n] is 2^n, for the widths there are.
Power[n \in 0 .. QWORD] == IF n = 0 THEN 1 ELSE 2 * Power[n - 1]

Words      == 0 .. Power[QWORD] - 1
Low(x, n)  == x % Power[n]
Bit(x, i)  == (x \div Power[i]) % 2 = 1
Value(b)   == IF b THEN 1 ELSE 0
Wrap(x)    == x % Power[QWORD]
Signed(x, n) == IF Bit(x, n - 1) THEN Low(x, n) - Power[n] ELSE Low(x, n)

\* Bits set in a word.
Ones(x) ==
    LET sum[i \in 0 .. QWORD] == IF i = 0 THEN 0 ELSE sum[i - 1] + Value(Bit(x, i - 1))
    IN  sum[QWORD]

Flags == [CF : BOOLEAN, ZF : BOOLEAN, SF : BOOLEAN, OF : BOOLEAN, PF : BOOLEAN]

-----------------------------------------------------------------------------
(* Operands and flags.                                                     *)

read_operand(reg, size) == Low(reg, size)
sign_extend(x, size) == Wrap(Signed(x, size))

\* A result of 32 bits clears the upper half of a register, a smaller one leaves
\* the rest as it is.
write_operand(old, size, val) ==
    IF size = DWORD THEN Low(val, DWORD)
    ELSE IF size < DWORD THEN old - Low(old, size) + Low(val, size)
    ELSE Wrap(val)

Sum(r, bits) == [ZF |-> Low(r, bits) = 0, SF |-> Bit(r, bits - 1), PF |-> Ones(Low(r, bits)) % 2 = 0]

wg_x86_update_flags_add(a, b, r, bits) ==
    LET s == Sum(r, bits)
        sb == bits - 1
    IN  [CF |-> r >= Power[bits], ZF |-> s.ZF, SF |-> s.SF, PF |-> s.PF,
         OF |-> Bit(a, sb) # Bit(r, sb) /\ Bit(b, sb) # Bit(r, sb)]

\* Mutant of wg_x86_update_flags_sub: the overflow is tested as after an addition.
update_flags_sub_as_add(a, b, r, bits) ==
    LET s == Sum(r, bits)
        sb == bits - 1
    IN  [CF |-> a < b, ZF |-> s.ZF, SF |-> s.SF, PF |-> s.PF,
         OF |-> Bit(a, sb) # Bit(r, sb) /\ Bit(b, sb) # Bit(r, sb)]

wg_x86_update_flags_sub(a, b, r, bits) ==
    LET s == Sum(r, bits)
        sb == bits - 1
    IN  [CF |-> a < b, ZF |-> s.ZF, SF |-> s.SF, PF |-> s.PF,
         OF |-> Bit(a, sb) # Bit(b, sb) /\ Bit(a, sb) # Bit(r, sb)]

wg_x86_update_flags_logic(r, bits) ==
    LET s == Sum(r, bits)
    IN  [CF |-> FALSE, OF |-> FALSE, ZF |-> s.ZF, SF |-> s.SF, PF |-> s.PF]

\* The conditions of Jcc, SETcc and CMOVcc: eight, and their negations.
Conditions == {"O", "B", "E", "BE", "S", "P", "L", "LE"}
eval_condition(cc) ==
    CASE cc = "O"  -> flags.OF
      [] cc = "B"  -> flags.CF
      [] cc = "E"  -> flags.ZF
      [] cc = "BE" -> flags.CF \/ flags.ZF
      [] cc = "S"  -> flags.SF
      [] cc = "P"  -> flags.PF
      [] cc = "L"  -> flags.SF # flags.OF
      [] cc = "LE" -> flags.ZF \/ flags.SF # flags.OF

-----------------------------------------------------------------------------
(* Instructions on registers.                                              *)

\* Bitwise operations, bit by bit.
OnBits(op, p, q) == CASE op \in {"AND", "TEST"} -> p /\ q [] op = "OR" -> p \/ q [] op = "XOR" -> p # q
Logic(op, a, b) ==
    LET sum[i \in 0 .. QWORD] ==
          IF i = 0 THEN 0
          ELSE sum[i - 1] + Power[i - 1] * Value(OnBits(op, Bit(a, i - 1), Bit(b, i - 1)))
    IN  sum[QWORD]

Sizes == {BYTE, DWORD, QWORD}
Done(op, a, b, size, bits) == [op |-> op, a |-> a, b |-> b, size |-> size, bits |-> bits,
                               old |-> dst, before |-> flags]

Arithmetic2 == {"ADD", "SUB", "CMP", "AND", "OR", "XOR", "TEST"}

\* ADD, SUB, CMP, AND, OR, XOR, TEST: all read both operands, TEST and CMP write none.
Alu(op, size, bits) ==
    LET a == read_operand(dst, size)
        b == read_operand(src, size)
        r == CASE op = "ADD" -> Wrap(a + b)
               [] op \in {"SUB", "CMP"} -> Wrap(a - b)
               [] OTHER -> Logic(op, a, b)
    IN  /\ dst' = IF op \in {"CMP", "TEST"} THEN dst ELSE write_operand(dst, size, r)
        /\ flags' = CASE op = "ADD" -> wg_x86_update_flags_add(a, b, r, bits)
                      [] op \in {"SUB", "CMP"} -> wg_x86_update_flags_sub(a, b, r, bits)
                      [] OTHER -> wg_x86_update_flags_logic(r, bits)
        /\ ran' = Done(op, a, b, size, bits)

\* INC and DEC leave CF alone; NOT leaves all flags, NEG subtracts from 0.
Unary(op, size, bits) ==
    LET a == read_operand(dst, size)
        r == CASE op = "INC" -> Wrap(a + 1) [] op = "DEC" -> Wrap(a - 1)
               [] op = "NOT" -> Wrap(-1 - a) [] op = "NEG" -> Wrap(0 - a)
    IN  /\ dst' = write_operand(dst, size, r)
        /\ flags' = CASE op = "INC" -> [wg_x86_update_flags_add(a, 1, r, bits) EXCEPT !.CF = flags.CF]
                      [] op = "DEC" -> [wg_x86_update_flags_sub(a, 1, r, bits) EXCEPT !.CF = flags.CF]
                      [] op = "NEG" -> wg_x86_update_flags_sub(0, a, r, bits)
                      [] op = "NOT" -> flags
        /\ ran' = Done(op, a, 0, size, bits)

\* SHL, SHR, SAR.  A shift of a 64-bit integer by more than the size of the
\* operation is not defined in C for the carry: counts stay below.
Shift(op, size, bits) ==
    LET a == read_operand(dst, size)
        n == Low(src, BYTE)
        r == CASE op = "SHL" -> Wrap(a * Power[n])
               [] op = "SHR" -> Low(a, bits) \div Power[n]
               [] op = "SAR" -> Wrap(Signed(a, bits) \div Power[n])
    IN  /\ n \in 1 .. bits - 1
        /\ dst' = write_operand(dst, size, r)
        /\ flags' = [wg_x86_update_flags_logic(r, bits) EXCEPT
                       !.CF = IF op = "SHL" THEN Bit(a, bits - n) ELSE Bit(a, n - 1)]
        /\ ran' = Done(op, a, n, size, bits)

\* MOV, MOVZX, MOVSX, and CMOVcc, whose condition may not hold.
Move(op, from, size) ==
    LET a == read_operand(src, from)
    IN  /\ op \in {"MOV", "CMOVcc"} => from = size
        /\ dst' = IF op = "CMOVcc" /\ ~ eval_condition("L") THEN dst
                  ELSE write_operand(dst, size, IF op = "MOVSX" THEN sign_extend(a, from) ELSE a)
        /\ ran' = Done(op, a, from, size, size)
        /\ UNCHANGED flags

SetCC(cc) ==
    /\ dst' = write_operand(dst, BYTE, Value(eval_condition(cc)))
    /\ ran' = Done("SETcc", Value(eval_condition(cc)), 0, BYTE, BYTE)
    /\ UNCHANGED flags

\* IMUL in its forms with a register for the result; no flag is set.
IMul(size) ==
    LET a == Signed(read_operand(dst, size), size)
        b == Signed(read_operand(src, size), size)
    IN  /\ dst' = write_operand(dst, size, Wrap(a * b))
        /\ ran' = Done("IMUL", Low(dst, size), Low(src, size), size, size)
        /\ UNCHANGED flags

Xchg(size) ==
    /\ dst' = write_operand(dst, size, read_operand(src, size))
    /\ src' = write_operand(src, size, read_operand(dst, size))
    /\ ran' = Done("XCHG", Low(dst, size), Low(src, size), size, size)
    /\ UNCHANGED flags

\* The decoder sets the size for flags to the size of the operands, unless these
\* are bytes.
BitsFor(size) == IF size = BYTE THEN DWORD ELSE size

exec_one ==
    /\ ran.op = "nothing"
    /\ UNCHANGED <<stack, rbp, frames>>
    /\ \/ /\ \E size \in Sizes :
               \/ \E op \in Arithmetic2 : Alu(op, size, BitsFor(size))
               \/ \E op \in {"INC", "DEC", "NOT", "NEG"} : Unary(op, size, BitsFor(size))
               \/ \E op \in {"SHL", "SHR", "SAR"} : Shift(op, size, BitsFor(size))
               \/ \E op \in {"MOV", "MOVZX", "MOVSX", "CMOVcc"}, from \in {s \in Sizes : s <= size} :
                    Move(op, from, size)
               \/ IMul(size)
          /\ UNCHANGED src
       \/ \E cc \in Conditions : SetCC(cc) /\ UNCHANGED src
       \/ \E size \in Sizes : Xchg(size)

-----------------------------------------------------------------------------
(* The stack.  A function the guest runs saves RBP, makes it the height of *)
(* the stack, and ends with LEAVE and RET.                                 *)

Frame(entry) == [height |-> entry, rbp |-> rbp]
registers == <<dst, src, flags, ran>>

\* CALL of guest code: the address behind the call is pushed (as the number of
\* the frame it belongs to); push rbp; mov rbp, rsp.
Call ==
    /\ Len(stack) + 2 <= MaxStack
    /\ stack' = <<rbp, Len(frames) + 1>> \o stack
    /\ frames' = <<Frame(Len(stack))>> \o frames
    /\ rbp' = Len(stack')
    /\ UNCHANGED registers

\* CALL of an address of the thunk range: what was pushed is popped at once, and
\* the caller of wg_x86_exec_one serves the function.
CallThunk ==
    /\ Len(stack) < MaxStack
    /\ LET pushed == <<Len(frames) + 1>> \o stack IN stack' = Tail(pushed)
    /\ UNCHANGED <<rbp, frames>> /\ UNCHANGED registers

Push ==
    /\ frames # <<>> /\ Len(stack) < MaxStack
    /\ stack' = <<0>> \o stack
    /\ UNCHANGED <<rbp, frames>> /\ UNCHANGED registers

Pop ==
    /\ frames # <<>> /\ Len(stack) > rbp
    /\ stack' = Tail(stack)
    /\ UNCHANGED <<rbp, frames>> /\ UNCHANGED registers

Drop(n) == SubSeq(stack, Len(stack) - n + 1, Len(stack))

\* LEAVE; RET.  ran.a tells where the function returned to.
LeaveRet ==
    /\ frames # <<>>
    /\ LET atRbp == Drop(rbp)
       IN  /\ rbp'   = Head(atRbp)
           /\ stack' = Tail(Tail(atRbp))
           /\ ran'  = [ran EXCEPT !.a = Head(Tail(atRbp))]
    /\ frames' = Tail(frames)
    /\ UNCHANGED <<dst, src, flags>>

-----------------------------------------------------------------------------
Nought == [CF |-> FALSE, ZF |-> FALSE, SF |-> FALSE, OF |-> FALSE, PF |-> FALSE]

InterpInit ==
    /\ dst = 0 /\ src = 0
    /\ flags = [Nought EXCEPT !.SF = TRUE, !.CF = TRUE]
    /\ ran = [op |-> "nothing", a |-> 0, b |-> 0, size |-> QWORD, bits |-> QWORD,
               old |-> 0, before |-> Nought]
    /\ stack = <<>> /\ rbp = 0 /\ frames = <<>>

\* Two MOVs of immediates, before the instruction that is tried.
Given ==
    /\ ran.op = "nothing" /\ stack = <<>> /\ dst = 0 /\ src = 0
    /\ dst' \in Words /\ src' \in Words
    /\ UNCHANGED <<flags, ran, stack, rbp, frames>>

\* The stack instructions are tried with one content of the registers.
InterpNext ==
    \/ Given
    \/ exec_one
    \/ ran.op = "nothing" /\ dst = 0 /\ src = 0 /\ (Call \/ CallThunk \/ Push \/ Pop \/ LeaveRet)

InterpSpec == InterpInit /\ [][InterpNext]_interpVars

-----------------------------------------------------------------------------
(* Properties.                                                             *)

InterpTypeOK ==
    /\ dst \in Words /\ src \in Words /\ flags \in Flags
    /\ stack \in Seq(0 .. MaxStack) /\ rbp \in 0 .. Len(stack)
    /\ Len(frames) <= Len(stack)

\* The conditions after an instruction say of its operands what their names say:
\* after CMP and SUB, below, equal and less compare the operands, unsigned and
\* signed, at every size but that of bytes (whose flags are taken at 32 bits);
\* after ADD of less than 64 bits there is a carry exactly if the sum does not
\* fit; INC and DEC overflow at the ends and keep the carry; and what is written
\* is the result modulo the size, with the upper half cleared at 32 bits only
\* (wg_x86_update_flags_add, _sub, _logic, eval_condition, write_operand).
ConditionsMean ==
    LET n  == ran.size
        a  == ran.a
        b  == ran.b
        sa == Signed(a, n)
        sb == Signed(b, n)
        Fits(x)     == x \in -(Power[n - 1]) .. Power[n - 1] - 1
        Result(x)  == dst = IF n = BYTE THEN ran.old - Low(ran.old, n) + Low(x, n) ELSE Low(x, n)
    IN  /\ ran.op \in {"SUB", "CMP"} /\ n # BYTE =>
             /\ eval_condition("B")  <=> a < b
             /\ eval_condition("BE") <=> a <= b
             /\ eval_condition("L")  <=> sa < sb
             /\ eval_condition("LE") <=> sa <= sb
             /\ eval_condition("O")  <=> ~ Fits(sa - sb)
        /\ ran.op \in {"SUB", "CMP"} => (eval_condition("E") <=> a = b)
        /\ ran.op = "ADD" /\ n = DWORD =>
             (eval_condition("B") <=> a + b >= Power[n]) /\ (eval_condition("O") <=> ~ Fits(sa + sb))
        /\ ran.op = "INC" /\ n # BYTE =>
             (eval_condition("O") <=> ~ Fits(sa + 1)) /\ flags.CF = ran.before.CF
        /\ ran.op = "DEC" /\ n # BYTE =>
             (eval_condition("O") <=> ~ Fits(sa - 1)) /\ flags.CF = ran.before.CF
        /\ ran.op \in {"AND", "OR", "XOR"} => (eval_condition("E") <=> Low(dst, n) = 0)
        /\ ran.op = "ADD"  => Result(a + b)
        /\ ran.op = "SUB"  => Result(a - b)
        /\ ran.op = "IMUL" => Result(sa * sb)
        /\ ran.op = "NEG"  => Result(-a)
        /\ ran.op = "SAR" /\ n # BYTE => Result(sa \div Power[b])
        /\ ran.op = "SHR"  => Result(a \div Power[b])
        /\ ran.op = "SHL"  => Result(a * Power[b])

\* However calls nest, and however much a function leaves on the stack, below RBP
\* are the caller's RBP and the way back to the caller, and all frames further out
\* stand as they were made: LEAVE and RET bring a function home (push64, pop64, the
\* CALL, RET and LEAVE of wg_x86_exec_one).
FramesStand ==
    /\ rbp = IF frames = <<>> THEN 0 ELSE frames[1].height + 2
    /\ \A i \in DOMAIN frames :
         LET saved == SubSeq(stack, Len(stack) - frames[i].height - 1,
                             Len(stack) - frames[i].height)
         IN  saved = <<frames[i].rbp, Len(frames) - i + 1>>

\* The conditional jumps after an instruction of wg_x86_exec_one go where the
\* processor's would, and CALL, RET and LEAVE restore the caller's frame.
InterpRight == ConditionsMean /\ FramesStand

=============================================================================
