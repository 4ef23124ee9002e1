------------------------------ MODULE ThumbAsm ------------------------------
(***************************************************************************)
(* The assembler and the disassembler of thumb_asm.c, and the round that   *)
(* an instruction makes through them: the assembler's menus build its      *)
(* specification, thumb_assemble() writes it, the listing disassembles it, *)
(* and the user types in what the listing says.  The listing also meets    *)
(* words that did not come from the assembler.                             *)
(*                                                                         *)
(* A specification has its operands as <<type, value>>.  A condition is    *)
(* its number, 0 for TC_NONE.  The failure codes are one: no instruction.  *)
(***************************************************************************)
EXTENDS ThumbEncoding, SequencesExt

CONSTANTS
    Regs,       \* what is typed at "Rd?": the code keeps 8 bits of it
    Imms,       \* unsigned immediates
    Offsets,    \* offsets of LDR
    Labels,     \* branch targets, relative to the branch
    Conds,      \* conditions, out of 0 .. 15
    Shifts,     \* shifts of LDR's register offset
    RegLists,   \* register lists, as 16-bit masks
    OtherWords  \* words not made by the assembler, for the disassembler to meet

\* What is typed is a number; a list of registers is kept in 16 bits (thumb_asm.h).
ASSUME ThumbAssumption ==
    /\ Regs \subseteq Nat /\ Imms \subseteq Nat /\ Shifts \subseteq Nat
    /\ Offsets \subseteq Int /\ Labels \subseteq Int
    /\ Conds \subseteq 0 .. 15
    /\ RegLists \subseteq 0 .. 2^16 - 1

VARIABLES
    phase,      \* "menu", "assembled", "refused", "listed", "retyped", "halted"
    asked,      \* the specification, or NoIns
    word,       \* what is in memory
    listed,     \* what the listing says of it, or NoIns
    retyped     \* what the assembler makes of that

vars == <<phase, asked, word, listed, retyped>>

Ins(mnemonic, cond, width, mode, operands) ==
    [mnemonic |-> mnemonic, cond |-> cond, width |-> width, mode |-> mode,
     operands |-> operands]

NoIns == Ins("none", 0, "auto", "none", <<>>)

Reg(r)  == <<"reg", r>>
Imm(i)  == <<"imm", i>>
Simm(i) == <<"simm", i>>
List(l) == <<"list", l>>
Lsl(n)  == <<"lsl", n>>

Types(s)      == [i \in DOMAIN s.operands |-> s.operands[i][1]]
Arg(s, i)     == s.operands[i][2]
RegArg(s, i)  == Arg(s, i) % 2^8         \* a uint8_t
Flag(b)       == IF b THEN 1 ELSE 0

\* thumb_is_wide_instruction
IsWide(w) == Extract(w[1], 13, 3) = 7 /\ Extract(w[1], 11, 2) # 0

-----------------------------------------------------------------------------
(***************************************************************************)
(* thumb_assemble(): for each mnemonic, the encodings it tries, in order,  *)
(* as <<encoding, parts>>.                                                 *)
(***************************************************************************)
CanBeNarrow(s) == s.width # "wide"
CanBeWide(s)   == s.width # "narrow"

When(condition, attempts) == IF condition THEN attempts ELSE <<>>

RRR == <<"reg", "reg", "reg">>
RRI == <<"reg", "reg", "imm">>

\* ADDW and SUBW, also reached from ADD and SUB with an immediate
WideImmediate(s, e) ==
    When(Types(s) = RRI /\ CanBeWide(s) /\ RegArg(s, 2) \notin {13, 15},
         << <<e, [Rd |-> RegArg(s, 1), Rn |-> RegArg(s, 2), imm12 |-> Arg(s, 3)]>> >>)

Add(s) ==
    \* TODO in the code: the wide encodings of the register form
    When(Types(s) = RRR /\ CanBeNarrow(s) /\ RegArg(s, 1) = RegArg(s, 2),
         << <<add_r_t2, [Rdn |-> RegArg(s, 1), Rm |-> RegArg(s, 3)]>> >>)
    \o WideImmediate(s, addw_i_t4)

\* ADDS and SUBS: only narrow encodings
SettingFlags(s, i_t1, i_t2, r_t1) ==
    LET d == RegArg(s, 1)
        n == RegArg(s, 2)
    IN  When(Types(s) = RRI /\ CanBeNarrow(s),
             << <<i_t1, [Rd |-> d, Rn |-> n, imm3 |-> Arg(s, 3)]>> >>
             \o When(d = n, << <<i_t2, [Rdn |-> d, imm8 |-> Arg(s, 3)]>> >>))
        \o When(Types(s) = RRR /\ CanBeNarrow(s),
             << <<r_t1, [Rd |-> d, Rn |-> n, Rm |-> RegArg(s, 3)]>> >>)

\* A branch is relative to an address four bytes on.
B(s) ==
    LET label == Arg(s, 1) - 4
    IN  IF s.cond = 0
        THEN When(CanBeNarrow(s), << <<b_t2, [simm11 |-> label]>> >>)
             \o When(CanBeWide(s), << <<b_t4, [simm25 |-> label]>> >>)
        ELSE When(CanBeNarrow(s),
                  << <<b_cond_t1_noit, [cond |-> s.cond - 1, simm8 |-> label]>> >>)
             \o When(CanBeWide(s),
                  << <<b_cond_t3_noit, [cond |-> s.cond - 1, simm21 |-> label]>> >>)

Cmp(s) ==
    LET n == RegArg(s, 1)
    IN  When(Types(s) = <<"reg", "imm">> /\ CanBeNarrow(s),
             << <<cmp_i_t1, [Rn |-> n, imm8 |-> Arg(s, 2)]>> >>)
        \o When(Types(s) = <<"reg", "reg">> /\ CanBeNarrow(s),
             << <<cmp_r_t1, [Rn |-> n, Rm |-> RegArg(s, 2)]>>,
                <<cmp_r_t2, [Rn |-> n, Rm |-> RegArg(s, 2)]>> >>)

LdrRegister(s) ==
    LET shift == IF Len(s.operands) = 4 THEN Arg(s, 4) ELSE 0
        t == RegArg(s, 1)
        n == RegArg(s, 2)
        m == RegArg(s, 3)
    IN  When(Types(s) \in {RRR, RRR \o <<"lsl">>} /\ s.mode = "offset",
             When(CanBeNarrow(s) /\ shift = 0,
                  << <<ldr_r_t1, [Rt |-> t, Rn |-> n, Rm |-> m]>> >>)
             \o When(CanBeWide(s),
                  << <<ldr_r_t2_lsl, [Rt |-> t, Rn |-> n, Rm |-> m,
                                      lsl_shift_imm2 |-> shift]>> >>))

\* The narrow encodings take an unsigned offset and no other addressing mode.
LdrNarrow(t, n, offset) ==
    When(n = 13, << <<ldr_i_t2_sponly, [Rt |-> t, imm10 |-> offset]>> >>)
    \o When(n = 15, << <<ldr_lit_t1, [Rt |-> t, imm10 |-> offset]>> >>)
    \o << <<ldr_i_t1, [Rt |-> t, Rn |-> n, imm7 |-> offset]>> >>

LdrImmediate(s) ==
    LET t      == RegArg(s, 1)
        n      == RegArg(s, 2)
        offset == Arg(s, 3)
        size   == IF offset < 0 THEN -offset ELSE offset
        add    == Flag(offset >= 0)
    IN  When(Types(s) = <<"reg", "reg", "simm">> /\ s.mode # "none",
             When(s.mode = "offset" /\ offset >= 0 /\ CanBeNarrow(s), LdrNarrow(t, n, offset))
             \o When(s.mode = "offset" /\ offset >= 0 /\ CanBeWide(s),
                     << <<ldr_i_t3, [Rt |-> t, Rn |-> n, imm12 |-> offset]>> >>)
             \o When(s.mode = "offset" /\ n = 15 /\ CanBeWide(s),
                     << <<ldr_lit_t2, [Rt |-> t, imm12 |-> size, add |-> add]>> >>)
             \o When(CanBeWide(s),
                     << <<ldr_i_t4, [Rt |-> t, Rn |-> n, imm8 |-> size, add |-> add,
                                     index |-> Flag(s.mode # "post"),
                                     writeback |-> Flag(s.mode # "offset")]>> >>))

Mov(s) ==
    When(Types(s) = <<"reg", "reg">>,
         LET d == RegArg(s, 1)
             m == RegArg(s, 2)
         IN  When(CanBeNarrow(s), << <<mov_r_t1, [Rd |-> d, Rm |-> m]>> >>)
             \o When(CanBeWide(s),
                     << <<mov_r_t3_opt_s, [Rd |-> d, Rm |-> m, setflags |-> 0]>> >>))

Movs(s) ==
    LET d == RegArg(s, 1)
    IN  When(Types(s) = <<"reg", "imm">> /\ d \notin {13, 15} /\ CanBeNarrow(s),
             << <<movs_i_t1, [Rd |-> d, imm8 |-> Arg(s, 2)]>> >>)
        \o When(Types(s) = <<"reg", "reg">>,
             When(CanBeNarrow(s), << <<movs_r_t2_noit, [Rd |-> d, Rm |-> RegArg(s, 2)]>> >>)
             \o When(CanBeWide(s), << <<mov_r_t3_opt_s, [Rd |-> d, Rm |-> RegArg(s, 2),
                                                         setflags |-> 1]>> >>))

\* MOVW, also reached from MOV with an immediate.  Here Rd is not shortened.
Movw(s) ==
    When(Types(s) = <<"reg", "imm">> /\ CanBeWide(s) /\ Arg(s, 1) \notin {13, 15},
         << <<movw_i_t3, [Rd |-> Arg(s, 1), imm16 |-> Arg(s, 2)]>> >>)

TheOnly(list) == CHOOSE r \in 0 .. 15 : list = 2^r
IsOne(list)   == \E r \in 0 .. 15 : list = 2^r

Pop(s) ==
    LET list == Arg(s, 1)
        lr   == Extract(list, 14, 1)
        pc   == Extract(list, 15, 1)
        regs == Extract(list, 0, 14)
    IN  When(Types(s) = <<"list">> /\ list # 0,
             When(CanBeNarrow(s) /\ lr = 0, << <<pop_t1, [pc |-> pc, regs |-> regs]>> >>)
             \o When(CanBeWide(s),
                     IF IsOne(list)
                     THEN << <<pop_t3, [Rt |-> TheOnly(list)]>> >>
                     ELSE << <<pop_t2, [regs |-> regs, lr |-> lr, pc |-> pc]>> >>))

Push(s) ==
    LET list == Arg(s, 1)
        lr   == Extract(list, 14, 1)
        regs == list - lr * 2^14
    IN  When(Types(s) = <<"list">> /\ list # 0,
             When(CanBeNarrow(s), << <<push_t1, [lr |-> lr, regs |-> regs]>> >>)
             \o When(CanBeWide(s),
                     IF IsOne(list)
                     THEN << <<push_t3, [Rt |-> TheOnly(list)]>> >>
                     ELSE << <<push_t2, [regs |-> regs, lr |-> lr]>> >>))

Attempts(s) ==
    CASE s.mnemonic = "ADD"  -> Add(s)
      [] s.mnemonic = "ADDS" -> SettingFlags(s, adds_i_t1, adds_i_t2, adds_r_t1)
      [] s.mnemonic = "ADDW" -> WideImmediate(s, addw_i_t4)
      [] s.mnemonic = "B"    -> B(s)
      [] s.mnemonic = "BKPT" -> When(CanBeNarrow(s), << <<bkpt_t1, [imm8 |-> Arg(s, 1)]>> >>)
      [] s.mnemonic = "BL"   -> When(CanBeWide(s), << <<bl_t1, [simm25 |-> Arg(s, 1) - 4]>> >>)
      [] s.mnemonic = "BLX"  -> When(CanBeNarrow(s), << <<blx_t1, [Rm |-> Arg(s, 1)]>> >>)
      [] s.mnemonic = "BX"   -> When(CanBeNarrow(s), << <<bx_t1, [Rm |-> Arg(s, 1)]>> >>)
      [] s.mnemonic = "CMP"  -> Cmp(s)
      [] s.mnemonic = "LDR"  -> LdrRegister(s) \o LdrImmediate(s)
      [] s.mnemonic = "NOP"  -> << <<IF s.width = "wide" THEN nop_t2 ELSE nop_t1, <<>> >> >>
      [] s.mnemonic = "MOV"  -> Mov(s) \o Movw(s)
      [] s.mnemonic = "MOVS" -> Movs(s)
      [] s.mnemonic = "MOVW" -> Movw(s)
      [] s.mnemonic = "POP"  -> Pop(s)
      [] s.mnemonic = "PUSH" -> Push(s)
      [] s.mnemonic = "SUB"  -> WideImmediate(s, subw_i_t4)    \* TODO: the register form
      [] s.mnemonic = "SUBS" -> SettingFlags(s, subs_i_t1, subs_i_t2, subs_r_t1)
      [] s.mnemonic = "SUBW" -> WideImmediate(s, subw_i_t4)
      [] s.mnemonic = "SVC"  -> When(CanBeNarrow(s), << <<svc_t1, [imm8 |-> Arg(s, 1)]>> >>)
      [] s.mnemonic = "UDF"  -> When(CanBeNarrow(s), << <<udf_t1, [imm8 |-> Arg(s, 1)]>> >>)
                                \o When(CanBeWide(s), << <<udf_t2, [imm16 |-> Arg(s, 1)]>> >>)

\* The first attempt whose parts all fit, 0 if there is none.
Taken(s) == SelectInSeq(Attempts(s), LAMBDA a : Encode(a[1], a[2]) # <<>>)

Assembled(s) ==
    LET a == Attempts(s)[Taken(s)]
    IN  IF Taken(s) = 0 THEN <<>> ELSE Encode(a[1], a[2])

-----------------------------------------------------------------------------
\* thumb_disassemble() tries the encodings in this order.
NarrowOrder ==
    <<udf_t1, bkpt_t1, nop_t1, movs_i_t1, mov_r_t1, movs_r_t2_noit, bx_t1, svc_t1, b_t2,
      b_cond_t1_noit, ldr_i_t1, ldr_i_t2_sponly, ldr_lit_t1, ldr_r_t1, blx_t1, pop_t1,
      push_t1, cmp_i_t1, cmp_r_t1, cmp_r_t2, adds_i_t1, adds_i_t2, adds_r_t1, add_r_t2,
      subs_i_t1, subs_i_t2, subs_r_t1>>

WideOrder ==
    <<udf_t2, nop_t2, movw_i_t3, mov_r_t3_opt_s, b_t4, b_cond_t3_noit, ldr_i_t3, ldr_i_t4,
      ldr_lit_t2, ldr_r_t2_lsl, bl_t1, pop_t2, pop_t3, push_t2, push_t3, addw_i_t4,
      subw_i_t4>>

Plain(mnemonic, width, operands) == Ins(mnemonic, 0, width, "none", operands)
Load(width, mode, operands)      == Ins("LDR", 0, width, mode, operands)

NarrowListing(name, p) ==
    LET N(mnemonic, operands) == Plain(mnemonic, "narrow", operands)
        L(operands)           == Load("narrow", "offset", operands)
    IN  CASE name = "udf_t1"  -> N("UDF", <<Imm(p.imm8)>>)
          [] name = "bkpt_t1" -> N("BKPT", <<Imm(p.imm8)>>)
          [] name = "svc_t1"  -> N("SVC", <<Imm(p.imm8)>>)
          [] name = "nop_t1"  -> N("NOP", <<>>)
          [] name = "movs_i_t1" -> N("MOVS", <<Reg(p.Rd), Imm(p.imm8)>>)
          [] name = "mov_r_t1"  -> N("MOV", <<Reg(p.Rd), Reg(p.Rm)>>)
          [] name = "movs_r_t2_noit" -> N("MOVS", <<Reg(p.Rd), Reg(p.Rm)>>)
          [] name = "bx_t1"   -> N("BX", <<Reg(p.Rm)>>)
          [] name = "blx_t1"  -> N("BLX", <<Reg(p.Rm)>>)
          [] name = "b_t2"    -> N("B", <<Simm(p.simm11 + 4)>>)
          [] name = "b_cond_t1_noit" ->
                Ins("B", p.cond + 1, "narrow", "none", <<Simm(p.simm8 + 4)>>)
          [] name = "ldr_i_t1" -> L(<<Reg(p.Rt), Reg(p.Rn), Imm(p.imm7)>>)
          [] name = "ldr_i_t2_sponly" -> L(<<Reg(p.Rt), Reg(13), Imm(p.imm10)>>)
          [] name = "ldr_lit_t1" -> L(<<Reg(p.Rt), Reg(15), Imm(p.imm10)>>)
          [] name = "ldr_r_t1" -> L(<<Reg(p.Rt), Reg(p.Rn), Reg(p.Rm)>>)
          [] name = "pop_t1"   -> N("POP", <<List(p.regs + p.pc * 2^15)>>)
          [] name = "push_t1"  -> N("PUSH", <<List(p.regs + p.lr * 2^14)>>)
          [] name = "cmp_i_t1" -> N("CMP", <<Reg(p.Rn), Imm(p.imm8)>>)
          [] name \in {"cmp_r_t1", "cmp_r_t2"} -> N("CMP", <<Reg(p.Rn), Reg(p.Rm)>>)
          [] name = "adds_i_t1" -> N("ADDS", <<Reg(p.Rd), Reg(p.Rn), Imm(p.imm3)>>)
          [] name = "adds_i_t2" -> N("ADDS", <<Reg(p.Rdn), Reg(p.Rdn), Imm(p.imm8)>>)
          [] name = "adds_r_t1" -> N("ADDS", <<Reg(p.Rd), Reg(p.Rn), Reg(p.Rm)>>)
          [] name = "add_r_t2"  -> N("ADD", <<Reg(p.Rdn), Reg(p.Rdn), Reg(p.Rm)>>)
          [] name = "subs_i_t1" -> N("SUBS", <<Reg(p.Rd), Reg(p.Rn), Imm(p.imm3)>>)
          [] name = "subs_i_t2" -> N("SUBS", <<Reg(p.Rdn), Reg(p.Rdn), Imm(p.imm8)>>)
          [] name = "subs_r_t1" -> N("SUBS", <<Reg(p.Rd), Reg(p.Rn), Reg(p.Rm)>>)

\* Mutant: the bits are taken for each other.
ModeOf_swapped(p) ==
    CASE p.index = 1 /\ p.writeback = 1 -> "pre"
      [] p.index = 1 /\ p.writeback = 0 -> "post"
      [] p.index = 0 /\ p.writeback = 1 -> "offset"
      [] OTHER -> "assert"

\* Mutant: only the modes that write back.
ModeOf_writeback(p) ==
    IF p.writeback = 1 THEN (IF p.index = 1 THEN "pre" ELSE "post") ELSE "assert"

\* The addressing mode of ldr_i_t4; index and writeback both 0 are ASSERT_NOT_REACHED.
ModeOf(p) ==
    CASE p.index = 1 /\ p.writeback = 1 -> "pre"
      [] p.index = 0 /\ p.writeback = 1 -> "post"
      [] p.index = 1 /\ p.writeback = 0 -> "offset"
      [] OTHER -> "assert"

Signed(size, add) == Simm(IF add = 1 THEN size ELSE -size)

WideListing(name, p) ==
    LET W(mnemonic, operands) == Plain(mnemonic, "wide", operands)
    IN  CASE name = "udf_t2" -> W("UDF", <<Imm(p.imm16)>>)
          [] name = "nop_t2" -> W("NOP", <<>>)
          [] name = "movw_i_t3" -> W("MOVW", <<Reg(p.Rd), Imm(p.imm16)>>)
          [] name = "mov_r_t3_opt_s" ->
                W(IF p.setflags = 1 THEN "MOVS" ELSE "MOV", <<Reg(p.Rd), Reg(p.Rm)>>)
          [] name = "b_t4" -> W("B", <<Simm(p.simm25 + 4)>>)
          [] name = "b_cond_t3_noit" ->
                Ins("B", p.cond + 1, "wide", "none", <<Simm(p.simm21 + 4)>>)
          [] name = "ldr_i_t3" -> Load("wide", "offset", <<Reg(p.Rt), Reg(p.Rn), Imm(p.imm12)>>)
          [] name = "ldr_i_t4" ->
                Load("wide", ModeOf(p), <<Reg(p.Rt), Reg(p.Rn), Signed(p.imm8, p.add)>>)
          [] name = "ldr_lit_t2" ->
                Load("wide", "offset", <<Reg(p.Rt), Reg(15), Signed(p.imm12, p.add)>>)
          [] name = "ldr_r_t2_lsl" ->
                Load("wide", "offset",
                     <<Reg(p.Rt), Reg(p.Rn), Reg(p.Rm), Lsl(p.lsl_shift_imm2)>>)
          [] name = "bl_t1"  -> W("BL", <<Simm(p.simm25 + 4)>>)
          [] name = "pop_t2" -> W("POP", <<List(p.regs + p.lr * 2^14 + p.pc * 2^15)>>)
          [] name = "pop_t3" -> W("POP", <<List(2^p.Rt)>>)
          [] name = "push_t2" -> W("PUSH", <<List(p.regs + p.lr * 2^14)>>)
          [] name = "push_t3" -> W("PUSH", <<List(2^p.Rt)>>)
          [] name = "addw_i_t4" -> W("ADDW", <<Reg(p.Rd), Reg(p.Rn), Imm(p.imm12)>>)
          [] name = "subw_i_t4" -> W("SUBW", <<Reg(p.Rd), Reg(p.Rn), Imm(p.imm12)>>)

Disassembled(w) ==
    LET wide  == IsWide(w)
        ins   == IF wide THEN w ELSE <<w[1]>>
        order == IF wide THEN WideOrder ELSE NarrowOrder
        i     == SelectInSeq(order, LAMBDA e : Match(e, ins))
    IN  IF i = 0 THEN Plain("UNKNOWN", IF wide THEN "wide" ELSE "narrow", <<>>)
        ELSE IF wide THEN WideListing(order[i].name, Decode(order[i], ins))
        ELSE NarrowListing(order[i].name, Decode(order[i], ins))

-----------------------------------------------------------------------------
\* menu_preset_instruction_width_menu
Widths == {"auto", "narrow", "wide"}

Asks(mnemonics, mode, operands) ==
    {Ins(m, 0, w, mode, o) : m \in mnemonics, w \in Widths, o \in operands}

R(r) == {Reg(x) : x \in r}
RegsAnd(last) == {<<Reg(d), l>> : d \in Regs, l \in last}
RegsRegsAnd(last) == {<<Reg(d), Reg(n), l>> : d \in Regs, n \in Regs, l \in last}

\* assemble_ldr: PC relative, and a base with each kind of offset
AsksLdr ==
    {Asks({"LDR"}, "offset",
          {<<Reg(t), Reg(15), Simm(o)>> : t \in Regs, o \in Offsets \cup Labels}),
     Asks({"LDR"}, "offset", RegsRegsAnd(R(Regs))),
     Asks({"LDR"}, "offset",
          {<<Reg(t), Reg(n), Reg(m), Lsl(k)>> : t \in Regs, n \in Regs, m \in Regs, k \in Shifts})}
    \cup {Asks({"LDR"}, mode, RegsRegsAnd({Simm(o) : o \in Offsets}))
             : mode \in {"offset", "pre", "post"}}

\* What the assembler's menus ask for: the set of the commands' sets
Menus ==
    {Asks({"ADD", "ADDS", "ADDW", "SUB", "SUBS", "SUBW"}, "none",
          RegsRegsAnd({Imm(i) : i \in Imms})),
     Asks({"ADD", "ADDS", "SUB", "SUBS"}, "none", RegsRegsAnd(R(Regs))),
     {[s EXCEPT !.cond = c] : s \in Asks({"B"}, "none", {<<Simm(l)>> : l \in Labels}), c \in Conds},
     Asks({"BL"}, "none", {<<Simm(l)>> : l \in Labels}),
     Asks({"BX", "BLX"}, "none", {<<Reg(m)>> : m \in Regs}),
     Asks({"CMP", "MOV", "MOVS"}, "none", RegsAnd(R(Regs) \cup {Imm(i) : i \in Imms})),
     Asks({"MOVW"}, "none", RegsAnd({Imm(i) : i \in Imms})),
     Asks({"NOP"}, "none", {<<>>}),
     Asks({"PUSH", "POP"}, "none", {<<List(l)>> : l \in RegLists}),
     Asks({"SVC", "UDF", "BKPT"}, "none", {<<Imm(i)>> : i \in Imms})}
    \cup AsksLdr

Init ==
    /\ phase = "menu"
    /\ asked = NoIns /\ listed = NoIns
    /\ word = <<>> /\ retyped = <<>>

\* assemble_and_show_result.  A refused instruction leaves memory alone.
Assemble(s) ==
    /\ phase = "menu"
    /\ asked' = s
    /\ word' = Assembled(s)
    /\ phase' = IF word' = <<>> THEN "refused" ELSE "assembled"
    /\ UNCHANGED <<listed, retyped>>

\* The disassembler is pointed at something else: data, or another program.
PointAt(w) ==
    /\ phase = "menu"
    /\ word' = w
    /\ phase' = "assembled"
    /\ UNCHANGED <<asked, listed, retyped>>

\* monitor_disassemble_print_instruction_at; the assertion halts the monitor.
ShowListing ==
    /\ phase = "assembled"
    /\ listed' = Disassembled(word)
    /\ phase' = IF listed'.mode = "assert" THEN "halted" ELSE "listed"
    /\ UNCHANGED <<asked, word, retyped>>

\* The menus take an offset of LDR as a signed number, as it is printed.
Typed(s) ==
    IF s.mnemonic = "LDR"
    THEN [s EXCEPT !.operands =
             [i \in DOMAIN s.operands |->
                 IF s.operands[i][1] = "imm" THEN Simm(Arg(s, i)) ELSE s.operands[i]]]
    ELSE s

\* The user types in what was listed, width and all.  There is no mnemonic for
\* what is unknown, and no condition beyond AL.
Retype ==
    /\ phase = "listed"
    /\ listed.mnemonic # "UNKNOWN" /\ listed.cond <= 15
    /\ retyped' = Assembled(Typed(listed))
    /\ phase' = "retyped"
    /\ UNCHANGED <<asked, word, listed>>

\* The next instruction; after the assertion, by a reset.
Again ==
    /\ phase \in {"refused", "listed", "retyped", "halted"}
    /\ phase' = "menu"
    /\ asked' = NoIns /\ listed' = NoIns
    /\ word' = <<>> /\ retyped' = <<>>

Next ==
    \/ \E menu \in Menus : \E s \in menu : Assemble(s)
    \/ \E w \in OtherWords : PointAt(w)
    \/ ShowListing \/ Retype \/ Again

Spec == Init /\ [][Next]_vars

-----------------------------------------------------------------------------
IsWord(w) == Len(w) <= 2 /\ \A h \in DOMAIN w : w[h] \in 0 .. 2^16 - 1

\* A listing is of one of the widths; a condition's name is looked up by a number
\* that is one too large for the names when the word's condition field is 15.
TypeOK ==
    /\ phase \in {"menu", "assembled", "refused", "listed", "retyped", "halted"}
    /\ asked # NoIns => \E menu \in Menus : asked \in menu
    /\ IsWord(word) /\ IsWord(retyped)
    /\ listed # NoIns => listed.width \in {"narrow", "wide"} /\ listed.cond \in 0 .. 16

\* The registers are registers and the taken encoding holds each of its parts: what
\* a programmer may ask for and the encoders' checks (t32_encoding.c:9-10) stand for.
Holdable(s) ==
    /\ \A i \in DOMAIN s.operands : s.operands[i][1] = "reg" => Arg(s, i) <= 15
    /\ LET a == Attempts(s)[Taken(s)]
       IN  \A part \in DOMAIN a[1].fields : Holds(a[1].fields[part], a[2][part])

\* Encodings that share words: a literal far below, whose offset reaches the bits
\* that tell ldr_i_t4, ...
FarLiteral(s) ==
    /\ s.mnemonic = "LDR" /\ s.mode = "offset" /\ Types(s) = <<"reg", "reg", "simm">>
    /\ RegArg(s, 2) = 15 /\ Arg(s, 3) <= -2^11

\* ... a register offset from the PC, which is a literal, and a branch on "always",
\* whose condition field says that it is something else: the narrow one is an UDF
\* (thumb_asm.c:168), the wide one 192516 bytes on is NOP.W (thumb_asm.c:174).
Shared(s, w) ==
    \/ FarLiteral(s)
    \/ s.mnemonic = "LDR" /\ RegArg(s, 2) = 15 /\ s.operands[3][1] = "reg"
    \/ s.mnemonic = "B" /\ s.cond = 15 /\ (Len(w) = 1 \/ w = Encode(nop_t2, <<>>))

\* What a specification means: without its width, with one name for each operation.
\* A POP of one register is a load.
Meaning(s) ==
    LET wideImm == [ADD |-> "ADDW", SUB |-> "SUBW", MOV |-> "MOVW"]
        n       == Len(s.operands)
        t       == Typed(s)
    IN  CASE s.mnemonic \in DOMAIN wideImm /\ s.operands[n][1] = "imm" ->
                [s EXCEPT !.mnemonic = wideImm[s.mnemonic], !.width = "auto"]
          [] s.mnemonic = "POP" /\ IsOne(Arg(s, 1)) ->
                Load("auto", "post", <<Reg(TheOnly(Arg(s, 1))), Reg(13), Simm(4)>>)
          [] s.mnemonic = "LDR" /\ n = 4 /\ Arg(s, n) = 0 ->
                [t EXCEPT !.operands = SubSeq(@, 1, 3), !.width = "auto"]
          [] OTHER -> [t EXCEPT !.width = "auto"]

\* The first halfword of what is assembled tells how long it is, and a width that
\* was asked for is the one it has: everything that walks over instructions depends
\* on it (thumb_ins_ptr_increment, thumb_asm.c:11-26).
WidthAsAsked ==
    asked # NoIns /\ word # <<>> =>
        /\ IsWide(word) <=> Len(word) = 2
        /\ asked.width # "auto" => (asked.width = "wide" <=> IsWide(word))

\* The listing says of an instruction what was asked for (thumb_disassemble and
\* thumb_assemble agree), when its encoding holds its operands and does not share
\* its words with another.
ListedAsAsked ==
    phase = "listed" /\ asked # NoIns /\ Holdable(asked) /\ ~Shared(asked, word) =>
        Meaning(listed) = Meaning(asked)

\* Typing in what is listed gives the same instruction again, also when its encoding
\* did not hold what was asked for; and from any word, one that is listed alike.
RetypedIsSame ==
    phase = "retyped" =>
        /\ asked # NoIns /\ ~Shared(asked, word) => retyped = word
        /\ retyped # <<>> => Meaning(Disassembled(retyped)) = Meaning(listed)

\* The listing of what was assembled is printed to its end: neither the assertion
\* of ldr_i_t4 nor a condition without a name, but for far literals.
PrintableUnlessFar ==
    asked # NoIns /\ ~FarLiteral(asked) => listed.mode # "assert" /\ listed.cond <= 15

\* ASSERT_NOT_REACHED() in thumb_disassemble (thumb_asm.c:221) is not reached.
NotReached == asked # NoIns => phase # "halted"

=============================================================================
