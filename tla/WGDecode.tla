----------------------------- MODULE WGDecode -----------------------------
(***************************************************************************)
(* The x86-64 decoder: Sources/CPU/wg_x86_decode.c.                        *)
(*                                                                         *)
(* wg_x86_decode reads an instruction byte by byte from a buffer that may  *)
(* end anywhere.  A fetch that does not fit yields 0 and consumes nothing. *)
(* Kept: what is consumed, which operation it is, which operands it has    *)
(* and what a relative address is relative to.  The value of an immediate  *)
(* is left out; the bytes of displacements and immediates are all 1.       *)
(***************************************************************************)
EXTENDS Integers, Sequences, FiniteSets

CONSTANTS
    LeadBytes,      \* the prefixes an instruction may start with: sequences of bytes
    ModRMs,         \* the ModR/M bytes tried
    Sibs            \* the SIB bytes tried

ASSUME DecodeAssumption ==
    /\ \A p \in LeadBytes : p \in Seq(0 .. 255)
    /\ ModRMs \subseteq 0 .. 255 /\ Sibs \subseteq 0 .. 255

VARIABLES
    code,           \* the bytes at hand
    instruction     \* what they were decoded to

decodeVars == <<code, instruction>>

Legacy  == {\hF0, \hF2, \hF3, \h66, \h67, \h26, \h2E, \h36, \h3E, \h64, \h65}
Rex     == \h40 .. \h4F
NoBase  == "none"
RipBase == "rip"

-----------------------------------------------------------------------------
(* The forms of instructions: a name, whether a ModR/M byte follows, how   *)
(* many bytes of immediate, and whether that is relative to the next one.  *)

Plain(op)        == [op |-> op, modrm |-> FALSE, imm |-> 0, rel |-> FALSE]
Imm(op, n)       == [op |-> op, modrm |-> FALSE, imm |-> n, rel |-> FALSE]
Rel(op, n)       == [op |-> op, modrm |-> FALSE, imm |-> n, rel |-> TRUE]
RM(op)           == [op |-> op, modrm |-> TRUE,  imm |-> 0, rel |-> FALSE]
RMImm(op, n)     == [op |-> op, modrm |-> TRUE,  imm |-> n, rel |-> FALSE]
Unknown          == Plain("UNKNOWN")

Group80 == <<"ADD", "OR", "ADC", "SBB", "AND", "SUB", "XOR", "CMP">>
GroupC0 == <<"ROL", "ROR", "UNKNOWN", "UNKNOWN", "SHL", "SHR", "SHL", "SAR">>
GroupF6 == <<"TEST", "TEST", "NOT", "NEG", "MUL", "IMUL", "DIV", "IDIV">>
GroupFF == <<"INC", "DEC", "CALL", "UNKNOWN", "JMP", "UNKNOWN", "PUSH", "UNKNOWN">>

\* add, or, ... in their six shapes: r/m with r (either way), AL or rAX with an
\* immediate.
Arithmetic(opcode) ==
    LET name == Group80[(opcode \div 8) + 1]
        sub  == opcode % 8
    IN  CASE sub \in 0 .. 3 -> RM(name) [] sub = 4 -> Imm(name, 1) [] sub = 5 -> Imm(name, 4)
          [] OTHER -> Unknown

\* Opcodes that stand alone.
OneByte(opcode) ==
    CASE opcode \in \h91 .. \h97 -> Plain("XCHG")
      [] opcode \in {\h98, \h99} -> Plain("CONVERT")
      [] opcode = \hCD -> Imm("INT", 1)
      [] opcode \in {\hCC, \hF4, \hF5, \hF8, \hF9, \hFC, \hFD} -> Plain("FLAG_OR_STOP")
      [] opcode \in {\hA4, \hA5, \hAA, \hAB} -> Plain("STRING")
      [] OTHER -> Unknown

\* Opcodes without a ModR/M byte.
Simple(opcode, rex_w) ==
    CASE opcode = \h90 -> Plain("NOP")
      [] opcode \in \h50 .. \h57 -> Plain("PUSH")
      [] opcode \in \h58 .. \h5F -> Plain("POP")
      [] opcode \in \hB0 .. \hB7 -> Imm("MOV", 1)
      [] opcode \in \hB8 .. \hBF -> Imm("MOV", IF rex_w THEN 8 ELSE 4)
      [] opcode = \hA8 -> Imm("TEST", 1)
      [] opcode = \hA9 -> Imm("TEST", 4)
      [] opcode = \h6A -> Imm("PUSH", 1)
      [] opcode = \h68 -> Imm("PUSH", 4)
      [] opcode \in \h70 .. \h7F -> Rel("JCC", 1)
      [] opcode = \hEB -> Rel("JMP", 1)
      [] opcode = \hE9 -> Rel("JMP", 4)
      [] opcode = \hE8 -> Rel("CALL", 4)
      [] opcode = \hC3 -> Plain("RET")
      [] opcode = \hC2 -> Imm("RET", 2)
      [] opcode = \hC9 -> Plain("LEAVE")
      [] OTHER -> OneByte(opcode)

\* Opcodes with a ModR/M byte, whose middle field selects the operation of a group.
Grouped(opcode, reg) ==
    CASE opcode \in \h80 .. \h83 -> RMImm(Group80[reg + 1], IF opcode = \h81 THEN 4 ELSE 1)
      [] opcode \in \h84 .. \h85 -> RM("TEST")
      [] opcode \in \h88 .. \h8B -> RM("MOV")
      [] opcode = \h8D -> RM("LEA")
      [] opcode = \hC6 -> RMImm("MOV", 1)
      [] opcode = \hC7 -> RMImm("MOV", 4)
      [] opcode \in {\hC0, \hC1} -> RMImm(GroupC0[reg + 1], 1)
      [] opcode \in \hD0 .. \hD3 -> RM(GroupC0[reg + 1])
      [] opcode \in {\hF6, \hF7} ->
           RMImm(GroupF6[reg + 1], IF reg > 1 THEN 0 ELSE IF opcode = \hF6 THEN 1 ELSE 4)
      [] opcode = \hFF -> RM(GroupFF[reg + 1])
      [] opcode = \h69 -> RMImm("IMUL", 4)
      [] opcode = \h6B -> RMImm("IMUL", 1)
      [] OTHER -> Unknown

GroupedOpcodes == (\h80 .. \h85) \cup (\h88 .. \h8B) \cup (\hD0 .. \hD3)
                    \cup {\h8D, \hC6, \hC7, \hC0, \hC1, \hF6, \hF7, \hFF, \h69, \h6B}

\* Opcodes behind 0F.
TwoByte(op2) ==
    CASE op2 \in \h80 .. \h8F -> Rel("JCC", 4)
      [] op2 \in \h90 .. \h9F -> RM("SETCC")
      [] op2 \in \h40 .. \h4F -> RM("CMOVCC")
      [] op2 \in {\hB6, \hB7} -> RM("MOVZX")
      [] op2 \in {\hBE, \hBF} -> RM("MOVSX")
      [] op2 = \hAF -> RM("IMUL")
      [] op2 \in {\hBC, \hBD} -> RM("BIT_SCAN")
      [] op2 \in \hC8 .. \hCF -> Plain("BSWAP")
      [] op2 = \h1F -> RM("NOP")
      [] op2 \in {\h10, \h11, \h28, \h29, \h57} -> RM("VECTOR")
      [] op2 \in {\hA2, \h31, \h05} -> Plain("SYSTEM")
      [] OTHER -> Unknown

-----------------------------------------------------------------------------
(* Reading.                                                                *)

\* Where the reader stands after n bytes at p of a buffer, if they are there.
fetch(buf, p, n) == IF p + n <= Len(buf) THEN p + n ELSE p
byte(buf, p) == IF p < Len(buf) THEN buf[p + 1] ELSE 0

\* Mutant of decode_modrm_mem: the byte behind a SIB without a base is not read.
decode_modrm_mem_no_disp(buf, p) ==
    LET modrm == byte(buf, p)
        mod   == modrm \div 64
        rm    == modrm % 8
        sib   == fetch(buf, fetch(buf, p, 1), IF rm = 4 /\ mod # 3 THEN 1 ELSE 0)
    IN  [next |-> fetch(buf, sib, CASE mod = 1 -> 1 [] mod = 2 -> 4 [] OTHER -> 0),
         base |-> IF mod = 0 /\ rm = 5 THEN RipBase ELSE NoBase, from |-> sib]

\* The operand a ModR/M byte describes: a register, or memory with a SIB byte and
\* a displacement of its own.  Without a base, or relative to the instruction
\* pointer, the displacement has four bytes; the latter is taken from where the
\* reader stands behind it.
decode_modrm_mem(buf, p) ==
    LET modrm == byte(buf, p)
        mod   == modrm \div 64
        rm    == modrm % 8
        p1    == fetch(buf, p, 1)
        sib   == byte(buf, p1)
        p2    == IF rm = 4 THEN fetch(buf, p1, 1) ELSE p1
        bare  == mod = 0 /\ (rm = 5 \/ (rm = 4 /\ sib % 8 = 5))
        p3    == IF bare THEN fetch(buf, p2, 4) ELSE p2
    IN  IF mod = 3 THEN [next |-> p1, base |-> NoBase, from |-> p1]
        ELSE [next |-> CASE mod = 1 -> fetch(buf, p3, 1)
                         [] mod = 2 -> fetch(buf, p3, 4)
                         [] OTHER   -> p3,
              base |-> IF mod = 0 /\ rm = 5 THEN RipBase ELSE NoBase,
              from |-> p3]

\* The form of the opcode at p and the place behind it.
FormAt(buf, p, rex_w) ==
    LET opcode == byte(buf, p)
        p1     == fetch(buf, p, 1)
        reg    == (byte(buf, p1) \div 8) % 8
    IN  IF opcode = \h0F
        THEN [form |-> TwoByte(byte(buf, p1)), next |-> fetch(buf, p1, 1)]
        ELSE [form |-> IF opcode < \h40 /\ opcode % 8 < 6 THEN Arithmetic(opcode)
                       ELSE IF opcode \in GroupedOpcodes THEN Grouped(opcode, reg)
                       ELSE Simple(opcode, rex_w),
              next |-> p1]

\* The prefixes: as many as there are; the last REX byte counts.
PrefixLength(buf) ==
    CHOOSE n \in 0 .. Len(buf) :
       /\ \A i \in 1 .. n : buf[i] \in Legacy \cup Rex
       /\ n < Len(buf) => buf[n + 1] \notin Legacy \cup Rex

RexW(buf, n) ==
    LET rexes == {i \in 1 .. n : buf[i] \in Rex}
    IN  rexes # {} /\ (buf[CHOOSE i \in rexes : \A j \in rexes : j <= i] \div 8) % 2 = 1

\* The length decoded (0: nothing is there but prefixes), what it is, and the
\* place addresses are counted from: of a branch, of an operand relative to the
\* instruction pointer.  A fetch of eight bytes is two of four.
wg_x86_decode(buf) ==
    LET n    == PrefixLength(buf)
        f    == FormAt(buf, n, RexW(buf, n))
        mem  == decode_modrm_mem(buf, f.next)
        next == IF f.form.modrm THEN mem.next ELSE f.next
        last == IF f.form.imm = 8 THEN fetch(buf, fetch(buf, next, 4), 4)
                ELSE fetch(buf, next, f.form.imm)
    IN  IF n >= Len(buf) THEN [length |-> 0, op |-> "UNKNOWN", branch |-> 0, rip |-> 0, imm |-> 0]
        ELSE [length |-> last, op |-> f.form.op,
              branch |-> IF f.form.rel THEN last ELSE 0,
              rip    |-> IF f.form.modrm /\ mem.base = RipBase THEN mem.from ELSE 0,
              imm    |-> f.form.imm]

-----------------------------------------------------------------------------
(* Every opcode, behind every prefix and before every operand.             *)

Filler(n) == [i \in 1 .. n |-> 1]

DecodeOne ==
    /\ code = <<>>
    /\ \E prefix \in LeadBytes, opcode \in 0 .. 255, modrm \in ModRMs, sib \in Sibs :
         /\ opcode \notin Legacy \cup Rex
         /\ code' = prefix \o <<opcode, modrm, sib>> \o Filler(12)
    /\ instruction' = wg_x86_decode(code')

\* The same bytes, but none behind the instruction.
DecodeAgain ==
    /\ instruction.length \in 1 .. Len(code) - 1
    /\ code' = SubSeq(code, 1, instruction.length)
    /\ instruction' = wg_x86_decode(code')

DecodeInit == code = <<>> /\ instruction = wg_x86_decode(<<>>)
DecodeNext == DecodeOne \/ DecodeAgain
DecodeSpec == DecodeInit /\ [][DecodeNext]_decodeVars

-----------------------------------------------------------------------------
(* Properties.                                                             *)

DecodeTypeOK ==
    /\ code \in Seq(0 .. 255)
    /\ instruction.length \in 0 .. Len(code)

\* The length of an operand by the architecture's table: the ModR/M byte, a SIB
\* byte for rm 4, a displacement by mod, or of four bytes if there is no base.
OperandLength(modrm, sib) ==
    LET mod == modrm \div 64
        rm  == modrm % 8
    IN  IF mod = 3 THEN 1
        ELSE 1 + (IF rm = 4 THEN 1 ELSE 0)
               + (CASE mod = 1 -> 1 [] mod = 2 -> 4
                    [] OTHER -> IF rm = 5 \/ (rm = 4 /\ sib % 8 = 5) THEN 4 ELSE 0)

\* An instruction is as long as its parts, so that the next one starts where it
\* should; a branch is relative to that place, and so is an operand relative to
\* the instruction pointer unless an immediate follows it (wg_x86_decode takes the
\* place before the immediate).
LengthsRight ==
    (code # <<>> /\ instruction.length > 0) =>
      LET n     == PrefixLength(code)
          f     == FormAt(code, n, RexW(code, n))
          modrm == byte(code, f.next)
          sib   == byte(code, f.next + 1)
          whole == f.next + f.form.imm
                     + (IF f.form.modrm THEN OperandLength(modrm, sib) ELSE 0)
      IN  /\ instruction.length = whole
          /\ instruction.branch \in {0, whole}
          /\ instruction.imm = 0 => instruction.rip \in {0, whole}

=============================================================================
