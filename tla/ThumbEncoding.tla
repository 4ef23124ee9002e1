--------------------------- MODULE ThumbEncoding ---------------------------
(***************************************************************************)
(* The instruction encodings of autogen_encodings/t32_encoding.c: for each *)
(* of them one match, one encode and one decode function, which here are   *)
(* one description and the operators Match, Encode and Decode.             *)
(*                                                                         *)
(* An instruction in memory is the sequence of its halfwords, the lower    *)
(* address first, so that no number has more than 16 bits.  A bit position *)
(* of 16 or more is in the second halfword.                                *)
(***************************************************************************)
EXTENDS Integers, Sequences, FiniteSetsExt

\* Mutant: the mask is one bit too wide.
Extract_mask_too_wide(value, position, width) == (value \div 2^position) % 2^(width + 1)

\* BIT_EXTRACT; of a negative number, the bits of its two's complement
Extract(value, position, width) == (value \div 2^position) % 2^width

(***************************************************************************)
(* A field is a value of width bits, of which the lowest skip are not      *)
(* stored.  A piece <<from, w, at>> stores its bits from .. from + w - 1 at *)
(* the instruction's bit at.                                               *)
(***************************************************************************)
Field(signed, skip, width, pieces) ==
    [signed |-> signed, skip |-> skip, width |-> width, twisted |-> FALSE, pieces |-> pieces]

Bits(width, at)              == Field(FALSE, 0, width, {<<0, width, at>>})
Split(width, pieces)         == Field(FALSE, 0, width, pieces)
Words(width, at)             == Field(FALSE, 2, width, {<<2, width - 2, at>>})
Branch(width, pieces)        == Field(TRUE, 1, width, pieces)
TwistedBranch(width, pieces) == [Branch(width, pieces) EXCEPT !.twisted = TRUE]

Encoding(name, base, fields) == [name |-> name, base |-> base, fields |-> fields]

adds_i_t1 == Encoding("adds_i_t1", <<\h1c00>>,
    [imm3 |-> Bits(3, 6), Rn |-> Bits(3, 3), Rd |-> Bits(3, 0)])
adds_i_t2 == Encoding("adds_i_t2", <<\h3000>>, [Rdn |-> Bits(3, 8), imm8 |-> Bits(8, 0)])
addw_i_t4 == Encoding("addw_i_t4", <<\hf200, \h0000>>,
    [imm12 |-> Split(12, {<<8, 3, 28>>, <<0, 8, 16>>, <<11, 1, 10>>}), Rd |-> Bits(4, 24),
     Rn |-> Bits(4, 0)])
adds_r_t1 == Encoding("adds_r_t1", <<\h1800>>,
    [Rm |-> Bits(3, 6), Rn |-> Bits(3, 3), Rd |-> Bits(3, 0)])
add_r_t2 == Encoding("add_r_t2", <<\h4400>>,
    [Rdn |-> Split(4, {<<3, 1, 7>>, <<0, 3, 0>>}), Rm |-> Bits(4, 3)])
b_cond_t1_noit == Encoding("b_cond_t1_noit", <<\hd000>>,
    [cond |-> Bits(4, 8), simm8 |-> Branch(9, {<<1, 8, 0>>})])
b_t2 == Encoding("b_t2", <<\he000>>, [simm11 |-> Branch(12, {<<1, 11, 0>>})])
b_cond_t3_noit == Encoding("b_cond_t3_noit", <<\hf000, \h8000>>,
    [simm21 |-> Branch(21, {<<18, 1, 29>>, <<19, 1, 27>>, <<1, 11, 16>>, <<20, 1, 10>>,
                            <<12, 6, 0>>}),
     cond |-> Bits(4, 6)])
b_t4 == Encoding("b_t4", <<\hf000, \h9000>>,
    [simm25 |-> TwistedBranch(25, {<<23, 1, 29>>, <<22, 1, 27>>, <<1, 11, 16>>,
                                   <<24, 1, 10>>, <<12, 10, 0>>})])
bkpt_t1 == Encoding("bkpt_t1", <<\hbe00>>, [imm8 |-> Bits(8, 0)])
bl_t1 == Encoding("bl_t1", <<\hf000, \hd000>>,
    [simm25 |-> TwistedBranch(25, {<<23, 1, 29>>, <<22, 1, 27>>, <<1, 11, 16>>,
                                   <<24, 1, 10>>, <<12, 10, 0>>})])
blx_t1 == Encoding("blx_t1", <<\h4780>>, [Rm |-> Bits(4, 3)])
bx_t1 == Encoding("bx_t1", <<\h4700>>, [Rm |-> Bits(4, 3)])
cmp_i_t1 == Encoding("cmp_i_t1", <<\h2800>>, [Rn |-> Bits(3, 8), imm8 |-> Bits(8, 0)])
cmp_r_t1 == Encoding("cmp_r_t1", <<\h4280>>, [Rm |-> Bits(3, 3), Rn |-> Bits(3, 0)])
cmp_r_t2 == Encoding("cmp_r_t2", <<\h4500>>,
    [Rn |-> Split(4, {<<3, 1, 7>>, <<0, 3, 0>>}), Rm |-> Bits(4, 3)])
ldr_i_t1 == Encoding("ldr_i_t1", <<\h6800>>,
    [imm7 |-> Words(7, 6), Rn |-> Bits(3, 3), Rt |-> Bits(3, 0)])
ldr_i_t2_sponly == Encoding("ldr_i_t2_sponly", <<\h9800>>,
    [Rt |-> Bits(3, 8), imm10 |-> Words(10, 0)])
ldr_i_t3 == Encoding("ldr_i_t3", <<\hf8d0, \h0000>>,
    [Rt |-> Bits(4, 28), imm12 |-> Bits(12, 16), Rn |-> Bits(4, 0)])
ldr_i_t4 == Encoding("ldr_i_t4", <<\hf850, \h0800>>,
    [Rt |-> Bits(4, 28), index |-> Bits(1, 26), add |-> Bits(1, 25),
     writeback |-> Bits(1, 24), imm8 |-> Bits(8, 16), Rn |-> Bits(4, 0)])
ldr_lit_t1 == Encoding("ldr_lit_t1", <<\h4800>>,
    [Rt |-> Bits(3, 8), imm10 |-> Words(10, 0)])
ldr_lit_t2 == Encoding("ldr_lit_t2", <<\hf85f, \h0000>>,
    [Rt |-> Bits(4, 28), imm12 |-> Bits(12, 16), add |-> Bits(1, 7)])
ldr_r_t1 == Encoding("ldr_r_t1", <<\h5800>>,
    [Rm |-> Bits(3, 6), Rn |-> Bits(3, 3), Rt |-> Bits(3, 0)])
ldr_r_t2_lsl == Encoding("ldr_r_t2_lsl", <<\hf850, \h0000>>,
    [Rt |-> Bits(4, 28), lsl_shift_imm2 |-> Bits(2, 20), Rm |-> Bits(4, 16),
     Rn |-> Bits(4, 0)])
nop_t1 == Encoding("nop_t1", <<\hbf00>>, <<>>)
nop_t2 == Encoding("nop_t2", <<\hf3af, \h8000>>, <<>>)
movs_i_t1 == Encoding("movs_i_t1", <<\h2000>>, [Rd |-> Bits(3, 8), imm8 |-> Bits(8, 0)])
movw_i_t3 == Encoding("movw_i_t3", <<\hf240, \h0000>>,
    [imm16 |-> Split(16, {<<8, 3, 28>>, <<0, 8, 16>>, <<11, 1, 10>>, <<12, 4, 0>>}),
     Rd |-> Bits(4, 24)])
mov_r_t1 == Encoding("mov_r_t1", <<\h4600>>,
    [Rd |-> Split(4, {<<3, 1, 7>>, <<0, 3, 0>>}), Rm |-> Bits(4, 3)])
movs_r_t2_noit == Encoding("movs_r_t2_noit", <<\h0000>>,
    [Rm |-> Bits(3, 3), Rd |-> Bits(3, 0)])
mov_r_t3_opt_s == Encoding("mov_r_t3_opt_s", <<\hea4f, \h0000>>,
    [Rd |-> Bits(4, 24), Rm |-> Bits(4, 16), setflags |-> Bits(1, 4)])
pop_t1 == Encoding("pop_t1", <<\hbc00>>, [pc |-> Bits(1, 8), regs |-> Bits(8, 0)])
pop_t2 == Encoding("pop_t2", <<\he8bd, \h0000>>,
    [pc |-> Bits(1, 31), lr |-> Bits(1, 30), regs |-> Bits(13, 16)])
pop_t3 == Encoding("pop_t3", <<\hf85d, \h0b04>>, [Rt |-> Bits(4, 28)])
push_t1 == Encoding("push_t1", <<\hb400>>, [lr |-> Bits(1, 8), regs |-> Bits(8, 0)])
push_t2 == Encoding("push_t2", <<\he92d, \h0000>>,
    [lr |-> Bits(1, 30), regs |-> Bits(13, 16)])
push_t3 == Encoding("push_t3", <<\hf84d, \h0d04>>, [Rt |-> Bits(4, 28)])
subs_i_t1 == Encoding("subs_i_t1", <<\h1e00>>,
    [imm3 |-> Bits(3, 6), Rn |-> Bits(3, 3), Rd |-> Bits(3, 0)])
subs_i_t2 == Encoding("subs_i_t2", <<\h3800>>, [Rdn |-> Bits(3, 8), imm8 |-> Bits(8, 0)])
subw_i_t4 == Encoding("subw_i_t4", <<\hf2a0, \h0000>>,
    [imm12 |-> Split(12, {<<8, 3, 28>>, <<0, 8, 16>>, <<11, 1, 10>>}), Rd |-> Bits(4, 24),
     Rn |-> Bits(4, 0)])
subs_r_t1 == Encoding("subs_r_t1", <<\h1a00>>,
    [Rm |-> Bits(3, 6), Rn |-> Bits(3, 3), Rd |-> Bits(3, 0)])
svc_t1 == Encoding("svc_t1", <<\hdf00>>, [imm8 |-> Bits(8, 0)])
udf_t1 == Encoding("udf_t1", <<\hde00>>, [imm8 |-> Bits(8, 0)])
udf_t2 == Encoding("udf_t2", <<\hf7f0, \ha000>>,
    [imm16 |-> Split(16, {<<0, 12, 16>>, <<12, 4, 0>>})])

-----------------------------------------------------------------------------
\* UNSIGNED_CHECK_FIT and SIGNED_CHECK_FIT of the value without its skipped bits
\* but with its whole width: they let through values that are up to skip bits too
\* long, and bits that are not stored are lost.
Fits(f, value) ==
    LET v == value \div 2^f.skip
    IN  /\ value % 2^f.skip = 0
        /\ IF f.signed THEN v \in -(2^(f.width - 1)) .. 2^(f.width - 1) - 1
                       ELSE v \in 0 .. 2^f.width - 1

\* What the field can hold: the values that Decode gives back.
Holds(f, value) ==
    /\ value % 2^f.skip = 0
    /\ IF f.signed THEN value \in -(2^(f.width - 1)) .. 2^(f.width - 1) - 1
                   ELSE value \in 0 .. 2^f.width - 1

\* The two bits below the sign are stored as their XNOR with it.
Twist(f, raw) ==
    IF ~f.twisted \/ Extract(raw, f.width - 1, 1) = 1 THEN raw
    ELSE raw + (3 - 2 * Extract(raw, f.width - 3, 2)) * 2^(f.width - 3)

\* The pieces of e in halfword h, each at its bit with the value that Of gives it.
Placed(e, h, Of(_, _)) ==
    MapThenSumSet(
        LAMBDA part :
            MapThenSumSet(LAMBDA piece : Of(part, piece) * 2^(piece[3] % 16),
                          {piece \in e.fields[part].pieces : piece[3] \div 16 + 1 = h}),
        DOMAIN e.fields)

\* The bits of word that are the piece.
Piece(word, piece) == Extract(word[piece[3] \div 16 + 1], piece[3] % 16, piece[2])

Stored(e, parts, h) ==
    e.base[h] + Placed(e, h, LAMBDA part, piece :
        Extract(Twist(e.fields[part], parts[part] % 2^e.fields[part].width),
                piece[1], piece[2]))

\* Mutant: the upper halfword is stored first.
Encode_upper_first(e, parts) ==
    IF \A part \in DOMAIN e.fields : Fits(e.fields[part], parts[part])
    THEN [h \in DOMAIN e.base |-> Stored(e, parts, Len(e.base) + 1 - h)]
    ELSE <<>>

\* encode_<e>: the instruction, or nothing (the result 0) if a part does not fit.
Encode(e, parts) ==
    IF \A part \in DOMAIN e.fields : Fits(e.fields[part], parts[part])
    THEN [h \in DOMAIN e.base |-> Stored(e, parts, h)]
    ELSE <<>>

\* match_<e>: without its fields the instruction is the base.
Match(e, word) ==
    /\ Len(word) = Len(e.base)
    /\ \A h \in DOMAIN word :
           word[h] = e.base[h] + Placed(e, h, LAMBDA part, piece : Piece(word, piece))

Gathered(f, word) ==
    Twist(f, MapThenSumSet(LAMBDA piece : Piece(word, piece) * 2^piece[1], f.pieces))

\* Mutant: signed values are not extended.
Decode_unsigned(e, word) == [part \in DOMAIN e.fields |-> Gathered(e.fields[part], word)]

\* decode_<e>
Decode(e, word) ==
    [part \in DOMAIN e.fields |->
        LET f   == e.fields[part]
            raw == Gathered(f, word)
        IN  IF f.signed /\ Extract(raw, f.width - 1, 1) = 1 THEN raw - 2^f.width ELSE raw]

=============================================================================
