----------------------------- MODULE ThumbProofs -----------------------------
(***************************************************************************)
(* That an assembled instruction is as wide as it was asked for and that   *)
(* its first halfword says so, and that its listing is printed to its end, *)
(* for all operands there can be.                                          *)
(***************************************************************************)
EXTENDS ThumbAsm, ThumbEncodingProofs, SequenceTheorems

-----------------------------------------------------------------------------
(***************************************************************************)
(* What the encodings whose words can be taken for each other store and    *)
(* match, halfword by halfword                                             *)
(***************************************************************************)
\* Of an encoding with two halfwords
LEMMA MatchedHalves ==
    ASSUME NEW e, NEW ins, Match(e, ins), Halfwords(ins), WellFormedFields(e),
           DOMAIN ins = {1, 2}, NEW h \in {1, 2}
    PROVE  \E n : NatSum(n, FoundIn(e, ins, h), DOMAIN e.fields) /\ ins[h] = e.base[h] + n
<1>1. ins[h] \in Int /\ h \in DOMAIN ins
  BY SMT DEF Halfwords
<1>2. ins[h] = e.base[h] + PlacedIn(e, ins, h)
  BY <1>1, MatchIsPlaced
<1>3. QED
  BY <1>1, <1>2, PlacedIsSum

LEMMA LdrIT4Base ==
    /\ DOMAIN ldr_i_t4.fields = {"Rt", "index", "add", "writeback", "imm8", "Rn"}
    /\ DOMAIN ldr_i_t4.base = {1, 2} /\ ldr_i_t4.base[1] = 63568 /\ ldr_i_t4.base[2] = 2048
  BY SMT DEF ldr_i_t4, Encoding

LEMMA LdrIT4Parts ==
    /\ AtPart(ldr_i_t4, "Rt", 2, 16, 4096)
    /\ AtPart(ldr_i_t4, "index", 2, 2, 1024)
    /\ AtPart(ldr_i_t4, "add", 2, 2, 512)
    /\ AtPart(ldr_i_t4, "writeback", 2, 2, 256)
    /\ AtPart(ldr_i_t4, "imm8", 2, 256, 1)
    /\ AtPart(ldr_i_t4, "Rn", 1, 16, 1)
<1>1. LiesAt(ldr_i_t4.fields["Rt"], 2, 16, 4096)
  BY BitsLieAt, SMT DEF ldr_i_t4, Encoding
<1>2. LiesAt(ldr_i_t4.fields["index"], 2, 2, 1024)
  BY BitsLieAt, SMT DEF ldr_i_t4, Encoding
<1>3. LiesAt(ldr_i_t4.fields["add"], 2, 2, 512)
  BY BitsLieAt, SMT DEF ldr_i_t4, Encoding
<1>4. LiesAt(ldr_i_t4.fields["writeback"], 2, 2, 256)
  BY BitsLieAt, SMT DEF ldr_i_t4, Encoding
<1>5. LiesAt(ldr_i_t4.fields["imm8"], 2, 256, 1)
  BY BitsLieAt, SMT DEF ldr_i_t4, Encoding
<1>6. LiesAt(ldr_i_t4.fields["Rn"], 1, 16, 1)
  BY BitsLieAt, SMT DEF ldr_i_t4, Encoding
<1>7. QED
  BY <1>1, <1>2, <1>3, <1>4, <1>5, <1>6, LdrIT4Base, SMT DEF AtPart, SumPart

LEMMA LdrIT4Fields == WellFormedFields(ldr_i_t4)
<1>1. {"Rt", "index", "add", "writeback", "imm8", "Rn"} \in SUBSET {"Rt", "index", "add", "writeback", "imm8", "Rn"}
  OBVIOUS
<1>2. IsFiniteSet({"Rt", "index", "add", "writeback", "imm8", "Rn"})
  BY <1>1, FewAreFinite, Zenon
<1>3. DOMAIN ldr_i_t4.fields = {"Rt", "index", "add", "writeback", "imm8", "Rn"}
  BY LdrIT4Base, SMT
<1>4. WellFormed(ldr_i_t4.fields["Rt"]) /\ WellFormed(ldr_i_t4.fields["index"]) /\ WellFormed(ldr_i_t4.fields["add"]) /\ WellFormed(ldr_i_t4.fields["writeback"]) /\ WellFormed(ldr_i_t4.fields["imm8"]) /\ WellFormed(ldr_i_t4.fields["Rn"])
  BY LdrIT4Parts, SMT DEF AtPart, SumPart, LiesAt, Gives
<1>5. QED
  BY <1>2, <1>3, <1>4, SMT DEF WellFormedFields

LEMMA LdrIT4Stored1 ==
    ASSUME NEW p, IntegerParts(ldr_i_t4, p)
    PROVE  Stored(ldr_i_t4, p, 1) = 63568 + (p["Rn"] % 16) * 1
<1> DEFINE F == AddedTo(ldr_i_t4, p, 1)
<1>1. PICK m : NatSum(m, F, DOMAIN ldr_i_t4.fields) /\ Stored(ldr_i_t4, p, 1) = ldr_i_t4.base[1] + m
  BY LdrIT4Fields, StoredIsSum, Zenon
<1>2. F["Rt"] = 0
  BY LdrIT4Parts, AddedElsewhere, SMT
<1>3. F["index"] = 0
  BY LdrIT4Parts, AddedElsewhere, SMT
<1>4. F["add"] = 0
  BY LdrIT4Parts, AddedElsewhere, SMT
<1>5. F["writeback"] = 0
  BY LdrIT4Parts, AddedElsewhere, SMT
<1>6. F["imm8"] = 0
  BY LdrIT4Parts, AddedElsewhere, SMT
<1>7. F["Rn"] = (p["Rn"] % 16) * 1
  BY LdrIT4Parts, AddedHere, SMT
<1> HIDE DEF F
<1>8. NatSum(m, F, {"Rt", "index", "add", "writeback", "imm8", "Rn"})
  <2>1. DOMAIN ldr_i_t4.fields = {"Rt", "index", "add", "writeback", "imm8", "Rn"}
    BY LdrIT4Base, SMT
  <2>2. QED
    BY <1>1, <2>1, Zenon
<1>9. m = F["Rt"] + F["index"] + F["add"] + F["writeback"] + F["imm8"] + F["Rn"]
  <2>1. "Rt" # "index" /\ "Rt" # "add" /\ "Rt" # "writeback" /\ "Rt" # "imm8" /\ "Rt" # "Rn" /\ "index" # "add" /\ "index" # "writeback" /\ "index" # "imm8" /\ "index" # "Rn" /\ "add" # "writeback" /\ "add" # "imm8" /\ "add" # "Rn" /\ "writeback" # "imm8" /\ "writeback" # "Rn" /\ "imm8" # "Rn"
    OBVIOUS
  <2>2. SumsOfSix(m, F, "Rt", "index", "add", "writeback", "imm8", "Rn")
    BY <1>8, <2>1 DEF SumsOfSix
  <2>3. QED
    BY <2>2, SumOfSix
<1>10. Stored(ldr_i_t4, p, 1) = 63568 + F["Rn"]
  <2>1. F["Rt"] \in Nat /\ F["index"] \in Nat /\ F["add"] \in Nat /\ F["writeback"] \in Nat /\ F["imm8"] \in Nat /\ F["Rn"] \in Nat
    BY <1>8, Zenon DEF NatSum
  <2>2. ldr_i_t4.base[1] = 63568
    BY LdrIT4Base, SMT
  <2>3. QED
    BY <1>1, <1>2, <1>3, <1>4, <1>5, <1>6, <1>9, <2>1, <2>2, SMT
<1>11. QED
  BY <1>7, <1>10, SMT

LEMMA LdrIT4Stored2 ==
    ASSUME NEW p, IntegerParts(ldr_i_t4, p)
    PROVE  Stored(ldr_i_t4, p, 2) = 2048 + (p["Rt"] % 16) * 4096 + (p["index"] % 2) * 1024 + (p["add"] % 2) * 512 + (p["writeback"] % 2) * 256 + (p["imm8"] % 256) * 1
<1> DEFINE F == AddedTo(ldr_i_t4, p, 2)
<1>1. PICK m : NatSum(m, F, DOMAIN ldr_i_t4.fields) /\ Stored(ldr_i_t4, p, 2) = ldr_i_t4.base[2] + m
  BY LdrIT4Fields, StoredIsSum, Zenon
<1>2. F["Rt"] = (p["Rt"] % 16) * 4096
  BY LdrIT4Parts, AddedHere, SMT
<1>3. F["index"] = (p["index"] % 2) * 1024
  BY LdrIT4Parts, AddedHere, SMT
<1>4. F["add"] = (p["add"] % 2) * 512
  BY LdrIT4Parts, AddedHere, SMT
<1>5. F["writeback"] = (p["writeback"] % 2) * 256
  BY LdrIT4Parts, AddedHere, SMT
<1>6. F["imm8"] = (p["imm8"] % 256) * 1
  BY LdrIT4Parts, AddedHere, SMT
<1>7. F["Rn"] = 0
  BY LdrIT4Parts, AddedElsewhere, SMT
<1> HIDE DEF F
<1>8. NatSum(m, F, {"Rt", "index", "add", "writeback", "imm8", "Rn"})
  <2>1. DOMAIN ldr_i_t4.fields = {"Rt", "index", "add", "writeback", "imm8", "Rn"}
    BY LdrIT4Base, SMT
  <2>2. QED
    BY <1>1, <2>1, Zenon
<1>9. m = F["Rt"] + F["index"] + F["add"] + F["writeback"] + F["imm8"] + F["Rn"]
  <2>1. "Rt" # "index" /\ "Rt" # "add" /\ "Rt" # "writeback" /\ "Rt" # "imm8" /\ "Rt" # "Rn" /\ "index" # "add" /\ "index" # "writeback" /\ "index" # "imm8" /\ "index" # "Rn" /\ "add" # "writeback" /\ "add" # "imm8" /\ "add" # "Rn" /\ "writeback" # "imm8" /\ "writeback" # "Rn" /\ "imm8" # "Rn"
    OBVIOUS
  <2>2. SumsOfSix(m, F, "Rt", "index", "add", "writeback", "imm8", "Rn")
    BY <1>8, <2>1 DEF SumsOfSix
  <2>3. QED
    BY <2>2, SumOfSix
<1>10. Stored(ldr_i_t4, p, 2) = 2048 + F["Rt"] + F["index"] + F["add"] + F["writeback"] + F["imm8"]
  <2>1. F["Rt"] \in Nat /\ F["index"] \in Nat /\ F["add"] \in Nat /\ F["writeback"] \in Nat /\ F["imm8"] \in Nat /\ F["Rn"] \in Nat
    BY <1>8, Zenon DEF NatSum
  <2>2. ldr_i_t4.base[2] = 2048
    BY LdrIT4Base, SMT
  <2>3. QED
    BY <1>1, <1>7, <1>9, <2>1, <2>2, SMT
<1>11. QED
  BY <1>2, <1>3, <1>4, <1>5, <1>6, <1>10, SMT

LEMMA LdrIT4Matched1 ==
    ASSUME NEW ins, Match(ldr_i_t4, ins), DOMAIN ins = {1, 2}, Halfwords(ins)
    PROVE  ins[1] = 63568 + ((ins[1] \div 1) % 16) * 1
<1> DEFINE F == FoundIn(ldr_i_t4, ins, 1)
<1>1. PICK m : NatSum(m, F, DOMAIN ldr_i_t4.fields) /\ ins[1] = ldr_i_t4.base[1] + m
  BY LdrIT4Fields, MatchedHalves, SMT
<1>2. F["Rt"] = 0
  BY LdrIT4Parts, FoundElsewhere, SMT
<1>3. F["index"] = 0
  BY LdrIT4Parts, FoundElsewhere, SMT
<1>4. F["add"] = 0
  BY LdrIT4Parts, FoundElsewhere, SMT
<1>5. F["writeback"] = 0
  BY LdrIT4Parts, FoundElsewhere, SMT
<1>6. F["imm8"] = 0
  BY LdrIT4Parts, FoundElsewhere, SMT
<1>7. F["Rn"] = ((ins[1] \div 1) % 16) * 1
  BY LdrIT4Parts, FoundHere, SMT
<1> HIDE DEF F
<1>8. NatSum(m, F, {"Rt", "index", "add", "writeback", "imm8", "Rn"})
  <2>1. DOMAIN ldr_i_t4.fields = {"Rt", "index", "add", "writeback", "imm8", "Rn"}
    BY LdrIT4Base, SMT
  <2>2. QED
    BY <1>1, <2>1, Zenon
<1>9. m = F["Rt"] + F["index"] + F["add"] + F["writeback"] + F["imm8"] + F["Rn"]
  <2>1. "Rt" # "index" /\ "Rt" # "add" /\ "Rt" # "writeback" /\ "Rt" # "imm8" /\ "Rt" # "Rn" /\ "index" # "add" /\ "index" # "writeback" /\ "index" # "imm8" /\ "index" # "Rn" /\ "add" # "writeback" /\ "add" # "imm8" /\ "add" # "Rn" /\ "writeback" # "imm8" /\ "writeback" # "Rn" /\ "imm8" # "Rn"
    OBVIOUS
  <2>2. SumsOfSix(m, F, "Rt", "index", "add", "writeback", "imm8", "Rn")
    BY <1>8, <2>1 DEF SumsOfSix
  <2>3. QED
    BY <2>2, SumOfSix
<1>10. ins[1] = 63568 + F["Rn"]
  <2>1. F["Rt"] \in Nat /\ F["index"] \in Nat /\ F["add"] \in Nat /\ F["writeback"] \in Nat /\ F["imm8"] \in Nat /\ F["Rn"] \in Nat
    BY <1>8, Zenon DEF NatSum
  <2>2. ldr_i_t4.base[1] = 63568
    BY LdrIT4Base, SMT
  <2>3. QED
    BY <1>1, <1>2, <1>3, <1>4, <1>5, <1>6, <1>9, <2>1, <2>2, SMT
<1>11. QED
  BY <1>7, <1>10, SMT

LEMMA LdrIT4Matched2 ==
    ASSUME NEW ins, Match(ldr_i_t4, ins), DOMAIN ins = {1, 2}, Halfwords(ins)
    PROVE  ins[2] = 2048 + ((ins[2] \div 4096) % 16) * 4096 + ((ins[2] \div 1024) % 2) * 1024 + ((ins[2] \div 512) % 2) * 512 + ((ins[2] \div 256) % 2) * 256 + ((ins[2] \div 1) % 256) * 1
<1> DEFINE F == FoundIn(ldr_i_t4, ins, 2)
<1>1. PICK m : NatSum(m, F, DOMAIN ldr_i_t4.fields) /\ ins[2] = ldr_i_t4.base[2] + m
  BY LdrIT4Fields, MatchedHalves, SMT
<1>2. F["Rt"] = ((ins[2] \div 4096) % 16) * 4096
  BY LdrIT4Parts, FoundHere, SMT
<1>3. F["index"] = ((ins[2] \div 1024) % 2) * 1024
  BY LdrIT4Parts, FoundHere, SMT
<1>4. F["add"] = ((ins[2] \div 512) % 2) * 512
  BY LdrIT4Parts, FoundHere, SMT
<1>5. F["writeback"] = ((ins[2] \div 256) % 2) * 256
  BY LdrIT4Parts, FoundHere, SMT
<1>6. F["imm8"] = ((ins[2] \div 1) % 256) * 1
  BY LdrIT4Parts, FoundHere, SMT
<1>7. F["Rn"] = 0
  BY LdrIT4Parts, FoundElsewhere, SMT
<1> HIDE DEF F
<1>8. NatSum(m, F, {"Rt", "index", "add", "writeback", "imm8", "Rn"})
  <2>1. DOMAIN ldr_i_t4.fields = {"Rt", "index", "add", "writeback", "imm8", "Rn"}
    BY LdrIT4Base, SMT
  <2>2. QED
    BY <1>1, <2>1, Zenon
<1>9. m = F["Rt"] + F["index"] + F["add"] + F["writeback"] + F["imm8"] + F["Rn"]
  <2>1. "Rt" # "index" /\ "Rt" # "add" /\ "Rt" # "writeback" /\ "Rt" # "imm8" /\ "Rt" # "Rn" /\ "index" # "add" /\ "index" # "writeback" /\ "index" # "imm8" /\ "index" # "Rn" /\ "add" # "writeback" /\ "add" # "imm8" /\ "add" # "Rn" /\ "writeback" # "imm8" /\ "writeback" # "Rn" /\ "imm8" # "Rn"
    OBVIOUS
  <2>2. SumsOfSix(m, F, "Rt", "index", "add", "writeback", "imm8", "Rn")
    BY <1>8, <2>1 DEF SumsOfSix
  <2>3. QED
    BY <2>2, SumOfSix
<1>10. ins[2] = 2048 + F["Rt"] + F["index"] + F["add"] + F["writeback"] + F["imm8"]
  <2>1. F["Rt"] \in Nat /\ F["index"] \in Nat /\ F["add"] \in Nat /\ F["writeback"] \in Nat /\ F["imm8"] \in Nat /\ F["Rn"] \in Nat
    BY <1>8, Zenon DEF NatSum
  <2>2. ldr_i_t4.base[2] = 2048
    BY LdrIT4Base, SMT
  <2>3. QED
    BY <1>1, <1>7, <1>9, <2>1, <2>2, SMT
<1>11. QED
  BY <1>2, <1>3, <1>4, <1>5, <1>6, <1>10, SMT

LEMMA LdrLitT2Base ==
    /\ DOMAIN ldr_lit_t2.fields = {"Rt", "imm12", "add"}
    /\ DOMAIN ldr_lit_t2.base = {1, 2} /\ ldr_lit_t2.base[1] = 63583 /\ ldr_lit_t2.base[2] = 0
  BY SMT DEF ldr_lit_t2, Encoding

LEMMA LdrLitT2Parts ==
    /\ AtPart(ldr_lit_t2, "Rt", 2, 16, 4096)
    /\ AtPart(ldr_lit_t2, "imm12", 2, 4096, 1)
    /\ AtPart(ldr_lit_t2, "add", 1, 2, 128)
<1>1. LiesAt(ldr_lit_t2.fields["Rt"], 2, 16, 4096)
  BY BitsLieAt, SMT DEF ldr_lit_t2, Encoding
<1>2. LiesAt(ldr_lit_t2.fields["imm12"], 2, 4096, 1)
  BY BitsLieAt, SMT DEF ldr_lit_t2, Encoding
<1>3. LiesAt(ldr_lit_t2.fields["add"], 1, 2, 128)
  BY BitsLieAt, SMT DEF ldr_lit_t2, Encoding
<1>4. QED
  BY <1>1, <1>2, <1>3, LdrLitT2Base, SMT DEF AtPart, SumPart

LEMMA LdrLitT2Fields == WellFormedFields(ldr_lit_t2)
<1>1. {"Rt", "imm12", "add"} \in SUBSET {"Rt", "imm12", "add", "add", "add", "add"}
  OBVIOUS
<1>2. IsFiniteSet({"Rt", "imm12", "add"})
  BY <1>1, FewAreFinite, Zenon
<1>3. DOMAIN ldr_lit_t2.fields = {"Rt", "imm12", "add"}
  BY LdrLitT2Base, SMT
<1>4. WellFormed(ldr_lit_t2.fields["Rt"]) /\ WellFormed(ldr_lit_t2.fields["imm12"]) /\ WellFormed(ldr_lit_t2.fields["add"])
  BY LdrLitT2Parts, SMT DEF AtPart, SumPart, LiesAt, Gives
<1>5. QED
  BY <1>2, <1>3, <1>4, SMT DEF WellFormedFields

LEMMA LdrLitT2Stored1 ==
    ASSUME NEW p, IntegerParts(ldr_lit_t2, p)
    PROVE  Stored(ldr_lit_t2, p, 1) = 63583 + (p["add"] % 2) * 128
<1> DEFINE F == AddedTo(ldr_lit_t2, p, 1)
<1>1. PICK m : NatSum(m, F, DOMAIN ldr_lit_t2.fields) /\ Stored(ldr_lit_t2, p, 1) = ldr_lit_t2.base[1] + m
  BY LdrLitT2Fields, StoredIsSum, Zenon
<1>2. F["Rt"] = 0
  BY LdrLitT2Parts, AddedElsewhere, SMT
<1>3. F["imm12"] = 0
  BY LdrLitT2Parts, AddedElsewhere, SMT
<1>4. F["add"] = (p["add"] % 2) * 128
  BY LdrLitT2Parts, AddedHere, SMT
<1> HIDE DEF F
<1>5. NatSum(m, F, {"Rt", "imm12", "add"})
  <2>1. DOMAIN ldr_lit_t2.fields = {"Rt", "imm12", "add"}
    BY LdrLitT2Base, SMT
  <2>2. QED
    BY <1>1, <2>1, Zenon
<1>6. m = F["Rt"] + F["imm12"] + F["add"]
  <2>1. "Rt" # "imm12" /\ "Rt" # "add" /\ "imm12" # "add"
    OBVIOUS
  <2>2. SumsOfThree(m, F, "Rt", "imm12", "add")
    BY <1>5, <2>1 DEF SumsOfThree
  <2>3. QED
    BY <2>2, SumOfThree
<1>7. Stored(ldr_lit_t2, p, 1) = 63583 + F["add"]
  <2>1. F["Rt"] \in Nat /\ F["imm12"] \in Nat /\ F["add"] \in Nat
    BY <1>5, Zenon DEF NatSum
  <2>2. ldr_lit_t2.base[1] = 63583
    BY LdrLitT2Base, SMT
  <2>3. QED
    BY <1>1, <1>2, <1>3, <1>6, <2>1, <2>2, SMT
<1>8. QED
  BY <1>4, <1>7, SMT

LEMMA LdrLitT2Stored2 ==
    ASSUME NEW p, IntegerParts(ldr_lit_t2, p)
    PROVE  Stored(ldr_lit_t2, p, 2) = 0 + (p["Rt"] % 16) * 4096 + (p["imm12"] % 4096) * 1
<1> DEFINE F == AddedTo(ldr_lit_t2, p, 2)
<1>1. PICK m : NatSum(m, F, DOMAIN ldr_lit_t2.fields) /\ Stored(ldr_lit_t2, p, 2) = ldr_lit_t2.base[2] + m
  BY LdrLitT2Fields, StoredIsSum, Zenon
<1>2. F["Rt"] = (p["Rt"] % 16) * 4096
  BY LdrLitT2Parts, AddedHere, SMT
<1>3. F["imm12"] = (p["imm12"] % 4096) * 1
  BY LdrLitT2Parts, AddedHere, SMT
<1>4. F["add"] = 0
  BY LdrLitT2Parts, AddedElsewhere, SMT
<1> HIDE DEF F
<1>5. NatSum(m, F, {"Rt", "imm12", "add"})
  <2>1. DOMAIN ldr_lit_t2.fields = {"Rt", "imm12", "add"}
    BY LdrLitT2Base, SMT
  <2>2. QED
    BY <1>1, <2>1, Zenon
<1>6. m = F["Rt"] + F["imm12"] + F["add"]
  <2>1. "Rt" # "imm12" /\ "Rt" # "add" /\ "imm12" # "add"
    OBVIOUS
  <2>2. SumsOfThree(m, F, "Rt", "imm12", "add")
    BY <1>5, <2>1 DEF SumsOfThree
  <2>3. QED
    BY <2>2, SumOfThree
<1>7. Stored(ldr_lit_t2, p, 2) = 0 + F["Rt"] + F["imm12"]
  <2>1. F["Rt"] \in Nat /\ F["imm12"] \in Nat /\ F["add"] \in Nat
    BY <1>5, Zenon DEF NatSum
  <2>2. ldr_lit_t2.base[2] = 0
    BY LdrLitT2Base, SMT
  <2>3. QED
    BY <1>1, <1>4, <1>6, <2>1, <2>2, SMT
<1>8. QED
  BY <1>2, <1>3, <1>7, SMT

LEMMA LdrRT2LslBase ==
    /\ DOMAIN ldr_r_t2_lsl.fields = {"Rt", "lsl_shift_imm2", "Rm", "Rn"}
    /\ DOMAIN ldr_r_t2_lsl.base = {1, 2} /\ ldr_r_t2_lsl.base[1] = 63568 /\ ldr_r_t2_lsl.base[2] = 0
  BY SMT DEF ldr_r_t2_lsl, Encoding

LEMMA LdrRT2LslParts ==
    /\ AtPart(ldr_r_t2_lsl, "Rt", 2, 16, 4096)
    /\ AtPart(ldr_r_t2_lsl, "lsl_shift_imm2", 2, 4, 16)
    /\ AtPart(ldr_r_t2_lsl, "Rm", 2, 16, 1)
    /\ AtPart(ldr_r_t2_lsl, "Rn", 1, 16, 1)
<1>1. LiesAt(ldr_r_t2_lsl.fields["Rt"], 2, 16, 4096)
  BY BitsLieAt, SMT DEF ldr_r_t2_lsl, Encoding
<1>2. LiesAt(ldr_r_t2_lsl.fields["lsl_shift_imm2"], 2, 4, 16)
  BY BitsLieAt, SMT DEF ldr_r_t2_lsl, Encoding
<1>3. LiesAt(ldr_r_t2_lsl.fields["Rm"], 2, 16, 1)
  BY BitsLieAt, SMT DEF ldr_r_t2_lsl, Encoding
<1>4. LiesAt(ldr_r_t2_lsl.fields["Rn"], 1, 16, 1)
  BY BitsLieAt, SMT DEF ldr_r_t2_lsl, Encoding
<1>5. QED
  BY <1>1, <1>2, <1>3, <1>4, LdrRT2LslBase, SMT DEF AtPart, SumPart

LEMMA LdrRT2LslFields == WellFormedFields(ldr_r_t2_lsl)
<1>1. {"Rt", "lsl_shift_imm2", "Rm", "Rn"} \in SUBSET {"Rt", "lsl_shift_imm2", "Rm", "Rn", "Rn", "Rn"}
  OBVIOUS
<1>2. IsFiniteSet({"Rt", "lsl_shift_imm2", "Rm", "Rn"})
  BY <1>1, FewAreFinite, Zenon
<1>3. DOMAIN ldr_r_t2_lsl.fields = {"Rt", "lsl_shift_imm2", "Rm", "Rn"}
  BY LdrRT2LslBase, SMT
<1>4. WellFormed(ldr_r_t2_lsl.fields["Rt"]) /\ WellFormed(ldr_r_t2_lsl.fields["lsl_shift_imm2"]) /\ WellFormed(ldr_r_t2_lsl.fields["Rm"]) /\ WellFormed(ldr_r_t2_lsl.fields["Rn"])
  BY LdrRT2LslParts, SMT DEF AtPart, SumPart, LiesAt, Gives
<1>5. QED
  BY <1>2, <1>3, <1>4, SMT DEF WellFormedFields

LEMMA LdrRT2LslStored2 ==
    ASSUME NEW p, IntegerParts(ldr_r_t2_lsl, p)
    PROVE  Stored(ldr_r_t2_lsl, p, 2) = 0 + (p["Rt"] % 16) * 4096 + (p["lsl_shift_imm2"] % 4) * 16 + (p["Rm"] % 16) * 1
<1> DEFINE F == AddedTo(ldr_r_t2_lsl, p, 2)
<1>1. PICK m : NatSum(m, F, DOMAIN ldr_r_t2_lsl.fields) /\ Stored(ldr_r_t2_lsl, p, 2) = ldr_r_t2_lsl.base[2] + m
  BY LdrRT2LslFields, StoredIsSum, Zenon
<1>2. F["Rt"] = (p["Rt"] % 16) * 4096
  BY LdrRT2LslParts, AddedHere, SMT
<1>3. F["lsl_shift_imm2"] = (p["lsl_shift_imm2"] % 4) * 16
  BY LdrRT2LslParts, AddedHere, SMT
<1>4. F["Rm"] = (p["Rm"] % 16) * 1
  BY LdrRT2LslParts, AddedHere, SMT
<1>5. F["Rn"] = 0
  BY LdrRT2LslParts, AddedElsewhere, SMT
<1> HIDE DEF F
<1>6. NatSum(m, F, {"Rt", "lsl_shift_imm2", "Rm", "Rn"})
  <2>1. DOMAIN ldr_r_t2_lsl.fields = {"Rt", "lsl_shift_imm2", "Rm", "Rn"}
    BY LdrRT2LslBase, SMT
  <2>2. QED
    BY <1>1, <2>1, Zenon
<1>7. m = F["Rt"] + F["lsl_shift_imm2"] + F["Rm"] + F["Rn"]
  <2>1. "Rt" # "lsl_shift_imm2" /\ "Rt" # "Rm" /\ "Rt" # "Rn" /\ "lsl_shift_imm2" # "Rm" /\ "lsl_shift_imm2" # "Rn" /\ "Rm" # "Rn"
    OBVIOUS
  <2>2. SumsOfFour(m, F, "Rt", "lsl_shift_imm2", "Rm", "Rn")
    BY <1>6, <2>1 DEF SumsOfFour
  <2>3. QED
    BY <2>2, SumOfFour
<1>8. Stored(ldr_r_t2_lsl, p, 2) = 0 + F["Rt"] + F["lsl_shift_imm2"] + F["Rm"]
  <2>1. F["Rt"] \in Nat /\ F["lsl_shift_imm2"] \in Nat /\ F["Rm"] \in Nat /\ F["Rn"] \in Nat
    BY <1>6, Zenon DEF NatSum
  <2>2. ldr_r_t2_lsl.base[2] = 0
    BY LdrRT2LslBase, SMT
  <2>3. QED
    BY <1>1, <1>5, <1>7, <2>1, <2>2, SMT
<1>9. QED
  BY <1>2, <1>3, <1>4, <1>8, SMT

LEMMA PopT3Base ==
    /\ DOMAIN pop_t3.fields = {"Rt"}
    /\ DOMAIN pop_t3.base = {1, 2} /\ pop_t3.base[1] = 63581 /\ pop_t3.base[2] = 2820
  BY SMT DEF pop_t3, Encoding

LEMMA PopT3Parts ==
    /\ AtPart(pop_t3, "Rt", 2, 16, 4096)
<1>1. LiesAt(pop_t3.fields["Rt"], 2, 16, 4096)
  BY BitsLieAt, SMT DEF pop_t3, Encoding
<1>2. QED
  BY <1>1, PopT3Base, SMT DEF AtPart, SumPart

LEMMA PopT3Fields == WellFormedFields(pop_t3)
<1>1. {"Rt"} \in SUBSET {"Rt", "Rt", "Rt", "Rt", "Rt", "Rt"}
  OBVIOUS
<1>2. IsFiniteSet({"Rt"})
  BY <1>1, FewAreFinite, Zenon
<1>3. DOMAIN pop_t3.fields = {"Rt"}
  BY PopT3Base, SMT
<1>4. WellFormed(pop_t3.fields["Rt"])
  BY PopT3Parts, SMT DEF AtPart, SumPart, LiesAt, Gives
<1>5. QED
  BY <1>2, <1>3, <1>4, SMT DEF WellFormedFields

LEMMA PopT3Stored2 ==
    ASSUME NEW p, IntegerParts(pop_t3, p)
    PROVE  Stored(pop_t3, p, 2) = 2820 + (p["Rt"] % 16) * 4096
<1> DEFINE F == AddedTo(pop_t3, p, 2)
<1>1. PICK m : NatSum(m, F, DOMAIN pop_t3.fields) /\ Stored(pop_t3, p, 2) = pop_t3.base[2] + m
  BY PopT3Fields, StoredIsSum, Zenon
<1>2. F["Rt"] = (p["Rt"] % 16) * 4096
  BY PopT3Parts, AddedHere, SMT
<1> HIDE DEF F
<1>3. NatSum(m, F, {"Rt"})
  <2>1. DOMAIN pop_t3.fields = {"Rt"}
    BY PopT3Base, SMT
  <2>2. QED
    BY <1>1, <2>1, Zenon
<1>4. m = F["Rt"]
  BY <1>3, SumOfOne, Zenon
<1>5. Stored(pop_t3, p, 2) = 2820 + F["Rt"]
  <2>1. F["Rt"] \in Nat
    BY <1>3, Zenon DEF NatSum
  <2>2. pop_t3.base[2] = 2820
    BY PopT3Base, SMT
  <2>3. QED
    BY <1>1, <1>4, <2>1, <2>2, SMT
<1>6. QED
  BY <1>2, <1>5, SMT

LEMMA AddwIT4Base ==
    /\ DOMAIN addw_i_t4.fields = {"imm12", "Rd", "Rn"}
    /\ DOMAIN addw_i_t4.base = {1, 2} /\ addw_i_t4.base[1] = 61952 /\ addw_i_t4.base[2] = 0
  BY SMT DEF addw_i_t4, Encoding

LEMMA AddwIT4Parts ==
    /\ SumPart(addw_i_t4, "imm12", 2, ImmediateLow)
    /\ AtPart(addw_i_t4, "Rd", 2, 16, 256)
    /\ AtPart(addw_i_t4, "Rn", 1, 16, 1)
<1>1. Gives(addw_i_t4.fields["imm12"], 2, ImmediateLow)
  BY PiecesGive, SMT DEF addw_i_t4, Encoding
<1>2. LiesAt(addw_i_t4.fields["Rd"], 2, 16, 256)
  BY BitsLieAt, SMT DEF addw_i_t4, Encoding
<1>3. LiesAt(addw_i_t4.fields["Rn"], 1, 16, 1)
  BY BitsLieAt, SMT DEF addw_i_t4, Encoding
<1>4. QED
  BY <1>1, <1>2, <1>3, AddwIT4Base, SMT DEF AtPart, SumPart

LEMMA AddwIT4Fields == WellFormedFields(addw_i_t4)
<1>1. {"imm12", "Rd", "Rn"} \in SUBSET {"imm12", "Rd", "Rn", "Rn", "Rn", "Rn"}
  OBVIOUS
<1>2. IsFiniteSet({"imm12", "Rd", "Rn"})
  BY <1>1, FewAreFinite, Zenon
<1>3. DOMAIN addw_i_t4.fields = {"imm12", "Rd", "Rn"}
  BY AddwIT4Base, SMT
<1>4. WellFormed(addw_i_t4.fields["imm12"]) /\ WellFormed(addw_i_t4.fields["Rd"]) /\ WellFormed(addw_i_t4.fields["Rn"])
  BY AddwIT4Parts, SMT DEF AtPart, SumPart, LiesAt, Gives
<1>5. QED
  BY <1>2, <1>3, <1>4, SMT DEF WellFormedFields

LEMMA AddwIT4Stored2 ==
    ASSUME NEW p, IntegerParts(addw_i_t4, p)
    PROVE  \E n \in ImmediateLow : Stored(addw_i_t4, p, 2) = 0 + n + (p["Rd"] % 16) * 256
<1> DEFINE F == AddedTo(addw_i_t4, p, 2)
<1>1. PICK m : NatSum(m, F, DOMAIN addw_i_t4.fields) /\ Stored(addw_i_t4, p, 2) = addw_i_t4.base[2] + m
  BY AddwIT4Fields, StoredIsSum, Zenon
<1>2. F["imm12"] \in ImmediateLow
  BY AddwIT4Parts, AddedGiven, SMT
<1>3. F["Rd"] = (p["Rd"] % 16) * 256
  BY AddwIT4Parts, AddedHere, SMT
<1>4. F["Rn"] = 0
  BY AddwIT4Parts, AddedElsewhere, SMT
<1> HIDE DEF F
<1>5. NatSum(m, F, {"imm12", "Rd", "Rn"})
  <2>1. DOMAIN addw_i_t4.fields = {"imm12", "Rd", "Rn"}
    BY AddwIT4Base, SMT
  <2>2. QED
    BY <1>1, <2>1, Zenon
<1>6. m = F["imm12"] + F["Rd"] + F["Rn"]
  <2>1. "imm12" # "Rd" /\ "imm12" # "Rn" /\ "Rd" # "Rn"
    OBVIOUS
  <2>2. SumsOfThree(m, F, "imm12", "Rd", "Rn")
    BY <1>5, <2>1 DEF SumsOfThree
  <2>3. QED
    BY <2>2, SumOfThree
<1>7. Stored(addw_i_t4, p, 2) = 0 + F["imm12"] + F["Rd"]
  <2>1. F["imm12"] \in Nat /\ F["Rd"] \in Nat /\ F["Rn"] \in Nat
    BY <1>5, Zenon DEF NatSum
  <2>2. addw_i_t4.base[2] = 0
    BY AddwIT4Base, SMT
  <2>3. QED
    BY <1>1, <1>4, <1>6, <2>1, <2>2, SMT
<1>8. QED
  BY <1>2, <1>3, <1>7, SMT

LEMMA SubwIT4Base ==
    /\ DOMAIN subw_i_t4.fields = {"imm12", "Rd", "Rn"}
    /\ DOMAIN subw_i_t4.base = {1, 2} /\ subw_i_t4.base[1] = 62112 /\ subw_i_t4.base[2] = 0
  BY SMT DEF subw_i_t4, Encoding

LEMMA SubwIT4Parts ==
    /\ SumPart(subw_i_t4, "imm12", 2, ImmediateLow)
    /\ AtPart(subw_i_t4, "Rd", 2, 16, 256)
    /\ AtPart(subw_i_t4, "Rn", 1, 16, 1)
<1>1. Gives(subw_i_t4.fields["imm12"], 2, ImmediateLow)
  BY PiecesGive, SMT DEF subw_i_t4, Encoding
<1>2. LiesAt(subw_i_t4.fields["Rd"], 2, 16, 256)
  BY BitsLieAt, SMT DEF subw_i_t4, Encoding
<1>3. LiesAt(subw_i_t4.fields["Rn"], 1, 16, 1)
  BY BitsLieAt, SMT DEF subw_i_t4, Encoding
<1>4. QED
  BY <1>1, <1>2, <1>3, SubwIT4Base, SMT DEF AtPart, SumPart

LEMMA SubwIT4Fields == WellFormedFields(subw_i_t4)
<1>1. {"imm12", "Rd", "Rn"} \in SUBSET {"imm12", "Rd", "Rn", "Rn", "Rn", "Rn"}
  OBVIOUS
<1>2. IsFiniteSet({"imm12", "Rd", "Rn"})
  BY <1>1, FewAreFinite, Zenon
<1>3. DOMAIN subw_i_t4.fields = {"imm12", "Rd", "Rn"}
  BY SubwIT4Base, SMT
<1>4. WellFormed(subw_i_t4.fields["imm12"]) /\ WellFormed(subw_i_t4.fields["Rd"]) /\ WellFormed(subw_i_t4.fields["Rn"])
  BY SubwIT4Parts, SMT DEF AtPart, SumPart, LiesAt, Gives
<1>5. QED
  BY <1>2, <1>3, <1>4, SMT DEF WellFormedFields

LEMMA SubwIT4Stored2 ==
    ASSUME NEW p, IntegerParts(subw_i_t4, p)
    PROVE  \E n \in ImmediateLow : Stored(subw_i_t4, p, 2) = 0 + n + (p["Rd"] % 16) * 256
<1> DEFINE F == AddedTo(subw_i_t4, p, 2)
<1>1. PICK m : NatSum(m, F, DOMAIN subw_i_t4.fields) /\ Stored(subw_i_t4, p, 2) = subw_i_t4.base[2] + m
  BY SubwIT4Fields, StoredIsSum, Zenon
<1>2. F["imm12"] \in ImmediateLow
  BY SubwIT4Parts, AddedGiven, SMT
<1>3. F["Rd"] = (p["Rd"] % 16) * 256
  BY SubwIT4Parts, AddedHere, SMT
<1>4. F["Rn"] = 0
  BY SubwIT4Parts, AddedElsewhere, SMT
<1> HIDE DEF F
<1>5. NatSum(m, F, {"imm12", "Rd", "Rn"})
  <2>1. DOMAIN subw_i_t4.fields = {"imm12", "Rd", "Rn"}
    BY SubwIT4Base, SMT
  <2>2. QED
    BY <1>1, <2>1, Zenon
<1>6. m = F["imm12"] + F["Rd"] + F["Rn"]
  <2>1. "imm12" # "Rd" /\ "imm12" # "Rn" /\ "Rd" # "Rn"
    OBVIOUS
  <2>2. SumsOfThree(m, F, "imm12", "Rd", "Rn")
    BY <1>5, <2>1 DEF SumsOfThree
  <2>3. QED
    BY <2>2, SumOfThree
<1>7. Stored(subw_i_t4, p, 2) = 0 + F["imm12"] + F["Rd"]
  <2>1. F["imm12"] \in Nat /\ F["Rd"] \in Nat /\ F["Rn"] \in Nat
    BY <1>5, Zenon DEF NatSum
  <2>2. subw_i_t4.base[2] = 0
    BY SubwIT4Base, SMT
  <2>3. QED
    BY <1>1, <1>4, <1>6, <2>1, <2>2, SMT
<1>8. QED
  BY <1>2, <1>3, <1>7, SMT

LEMMA MovwIT3Base ==
    /\ DOMAIN movw_i_t3.fields = {"imm16", "Rd"}
    /\ DOMAIN movw_i_t3.base = {1, 2} /\ movw_i_t3.base[1] = 62016 /\ movw_i_t3.base[2] = 0
  BY SMT DEF movw_i_t3, Encoding

LEMMA MovwIT3Parts ==
    /\ SumPart(movw_i_t3, "imm16", 2, ImmediateLow)
    /\ AtPart(movw_i_t3, "Rd", 2, 16, 256)
<1>1. Gives(movw_i_t3.fields["imm16"], 2, ImmediateLow)
  BY PiecesGive, SMT DEF movw_i_t3, Encoding
<1>2. LiesAt(movw_i_t3.fields["Rd"], 2, 16, 256)
  BY BitsLieAt, SMT DEF movw_i_t3, Encoding
<1>3. QED
  BY <1>1, <1>2, MovwIT3Base, SMT DEF AtPart, SumPart

LEMMA MovwIT3Fields == WellFormedFields(movw_i_t3)
<1>1. {"imm16", "Rd"} \in SUBSET {"imm16", "Rd", "Rd", "Rd", "Rd", "Rd"}
  OBVIOUS
<1>2. IsFiniteSet({"imm16", "Rd"})
  BY <1>1, FewAreFinite, Zenon
<1>3. DOMAIN movw_i_t3.fields = {"imm16", "Rd"}
  BY MovwIT3Base, SMT
<1>4. WellFormed(movw_i_t3.fields["imm16"]) /\ WellFormed(movw_i_t3.fields["Rd"])
  BY MovwIT3Parts, SMT DEF AtPart, SumPart, LiesAt, Gives
<1>5. QED
  BY <1>2, <1>3, <1>4, SMT DEF WellFormedFields

LEMMA MovwIT3Stored2 ==
    ASSUME NEW p, IntegerParts(movw_i_t3, p)
    PROVE  \E n \in ImmediateLow : Stored(movw_i_t3, p, 2) = 0 + n + (p["Rd"] % 16) * 256
<1> DEFINE F == AddedTo(movw_i_t3, p, 2)
<1>1. PICK m : NatSum(m, F, DOMAIN movw_i_t3.fields) /\ Stored(movw_i_t3, p, 2) = movw_i_t3.base[2] + m
  BY MovwIT3Fields, StoredIsSum, Zenon
<1>2. F["imm16"] \in ImmediateLow
  BY MovwIT3Parts, AddedGiven, SMT
<1>3. F["Rd"] = (p["Rd"] % 16) * 256
  BY MovwIT3Parts, AddedHere, SMT
<1> HIDE DEF F
<1>4. NatSum(m, F, {"imm16", "Rd"})
  <2>1. DOMAIN movw_i_t3.fields = {"imm16", "Rd"}
    BY MovwIT3Base, SMT
  <2>2. QED
    BY <1>1, <2>1, Zenon
<1>5. m = F["imm16"] + F["Rd"]
  <2>1. "imm16" # "Rd"
    OBVIOUS
  <2>2. SumsOfTwo(m, F, "imm16", "Rd")
    BY <1>4, <2>1 DEF SumsOfTwo
  <2>3. QED
    BY <2>2, SumOfTwo
<1>6. Stored(movw_i_t3, p, 2) = 0 + F["imm16"] + F["Rd"]
  <2>1. F["imm16"] \in Nat /\ F["Rd"] \in Nat
    BY <1>4, Zenon DEF NatSum
  <2>2. movw_i_t3.base[2] = 0
    BY MovwIT3Base, SMT
  <2>3. QED
    BY <1>1, <1>5, <2>1, <2>2, SMT
<1>7. QED
  BY <1>2, <1>3, <1>6, SMT

LEMMA BT4Base ==
    /\ DOMAIN b_t4.fields = {"simm25"}
    /\ DOMAIN b_t4.base = {1, 2} /\ b_t4.base[1] = 61440 /\ b_t4.base[2] = 36864
  BY SMT DEF b_t4, Encoding

LEMMA BT4Parts ==
    /\ SumPart(b_t4, "simm25", 2, BranchLow)
<1>1. Gives(b_t4.fields["simm25"], 2, BranchLow)
  BY PiecesGive, SMT DEF b_t4, Encoding
<1>2. QED
  BY <1>1, BT4Base, SMT DEF AtPart, SumPart

LEMMA BT4Fields == WellFormedFields(b_t4)
<1>1. {"simm25"} \in SUBSET {"simm25", "simm25", "simm25", "simm25", "simm25", "simm25"}
  OBVIOUS
<1>2. IsFiniteSet({"simm25"})
  BY <1>1, FewAreFinite, Zenon
<1>3. DOMAIN b_t4.fields = {"simm25"}
  BY BT4Base, SMT
<1>4. WellFormed(b_t4.fields["simm25"])
  BY BT4Parts, SMT DEF AtPart, SumPart, LiesAt, Gives
<1>5. QED
  BY <1>2, <1>3, <1>4, SMT DEF WellFormedFields

LEMMA BT4Stored2 ==
    ASSUME NEW p, IntegerParts(b_t4, p)
    PROVE  \E n \in BranchLow : Stored(b_t4, p, 2) = 36864 + n
<1> DEFINE F == AddedTo(b_t4, p, 2)
<1>1. PICK m : NatSum(m, F, DOMAIN b_t4.fields) /\ Stored(b_t4, p, 2) = b_t4.base[2] + m
  BY BT4Fields, StoredIsSum, Zenon
<1>2. F["simm25"] \in BranchLow
  BY BT4Parts, AddedGiven, SMT
<1> HIDE DEF F
<1>3. NatSum(m, F, {"simm25"})
  <2>1. DOMAIN b_t4.fields = {"simm25"}
    BY BT4Base, SMT
  <2>2. QED
    BY <1>1, <2>1, Zenon
<1>4. m = F["simm25"]
  BY <1>3, SumOfOne, Zenon
<1>5. Stored(b_t4, p, 2) = 36864 + F["simm25"]
  <2>1. F["simm25"] \in Nat
    BY <1>3, Zenon DEF NatSum
  <2>2. b_t4.base[2] = 36864
    BY BT4Base, SMT
  <2>3. QED
    BY <1>1, <1>4, <2>1, <2>2, SMT
<1>6. QED
  BY <1>2, <1>5, SMT

LEMMA BlT1Base ==
    /\ DOMAIN bl_t1.fields = {"simm25"}
    /\ DOMAIN bl_t1.base = {1, 2} /\ bl_t1.base[1] = 61440 /\ bl_t1.base[2] = 53248
  BY SMT DEF bl_t1, Encoding

LEMMA BlT1Parts ==
    /\ SumPart(bl_t1, "simm25", 2, BranchLow)
<1>1. Gives(bl_t1.fields["simm25"], 2, BranchLow)
  BY PiecesGive, SMT DEF bl_t1, Encoding
<1>2. QED
  BY <1>1, BlT1Base, SMT DEF AtPart, SumPart

LEMMA BlT1Fields == WellFormedFields(bl_t1)
<1>1. {"simm25"} \in SUBSET {"simm25", "simm25", "simm25", "simm25", "simm25", "simm25"}
  OBVIOUS
<1>2. IsFiniteSet({"simm25"})
  BY <1>1, FewAreFinite, Zenon
<1>3. DOMAIN bl_t1.fields = {"simm25"}
  BY BlT1Base, SMT
<1>4. WellFormed(bl_t1.fields["simm25"])
  BY BlT1Parts, SMT DEF AtPart, SumPart, LiesAt, Gives
<1>5. QED
  BY <1>2, <1>3, <1>4, SMT DEF WellFormedFields

LEMMA BlT1Stored2 ==
    ASSUME NEW p, IntegerParts(bl_t1, p)
    PROVE  \E n \in BranchLow : Stored(bl_t1, p, 2) = 53248 + n
<1> DEFINE F == AddedTo(bl_t1, p, 2)
<1>1. PICK m : NatSum(m, F, DOMAIN bl_t1.fields) /\ Stored(bl_t1, p, 2) = bl_t1.base[2] + m
  BY BlT1Fields, StoredIsSum, Zenon
<1>2. F["simm25"] \in BranchLow
  BY BlT1Parts, AddedGiven, SMT
<1> HIDE DEF F
<1>3. NatSum(m, F, {"simm25"})
  <2>1. DOMAIN bl_t1.fields = {"simm25"}
    BY BlT1Base, SMT
  <2>2. QED
    BY <1>1, <2>1, Zenon
<1>4. m = F["simm25"]
  BY <1>3, SumOfOne, Zenon
<1>5. Stored(bl_t1, p, 2) = 53248 + F["simm25"]
  <2>1. F["simm25"] \in Nat
    BY <1>3, Zenon DEF NatSum
  <2>2. bl_t1.base[2] = 53248
    BY BlT1Base, SMT
  <2>3. QED
    BY <1>1, <1>4, <2>1, <2>2, SMT
<1>6. QED
  BY <1>2, <1>5, SMT

LEMMA BCondT3NoitBase ==
    /\ DOMAIN b_cond_t3_noit.fields = {"simm21", "cond"}
    /\ DOMAIN b_cond_t3_noit.base = {1, 2} /\ b_cond_t3_noit.base[1] = 61440 /\ b_cond_t3_noit.base[2] = 32768
  BY SMT DEF b_cond_t3_noit, Encoding

LEMMA BCondT3NoitParts ==
    /\ SumPart(b_cond_t3_noit, "simm21", 1, BranchHigh)
    /\ SumPart(b_cond_t3_noit, "simm21", 2, BranchLow)
    /\ AtPart(b_cond_t3_noit, "cond", 1, 16, 64)
<1>1. Gives(b_cond_t3_noit.fields["simm21"], 1, BranchHigh) /\ Gives(b_cond_t3_noit.fields["simm21"], 2, BranchLow)
  BY PiecesGive, SMT DEF b_cond_t3_noit, Encoding
<1>2. LiesAt(b_cond_t3_noit.fields["cond"], 1, 16, 64)
  BY BitsLieAt, SMT DEF b_cond_t3_noit, Encoding
<1>3. QED
  BY <1>1, <1>2, BCondT3NoitBase, SMT DEF AtPart, SumPart

LEMMA BCondT3NoitFields == WellFormedFields(b_cond_t3_noit)
<1>1. {"simm21", "cond"} \in SUBSET {"simm21", "cond", "cond", "cond", "cond", "cond"}
  OBVIOUS
<1>2. IsFiniteSet({"simm21", "cond"})
  BY <1>1, FewAreFinite, Zenon
<1>3. DOMAIN b_cond_t3_noit.fields = {"simm21", "cond"}
  BY BCondT3NoitBase, SMT
<1>4. WellFormed(b_cond_t3_noit.fields["simm21"]) /\ WellFormed(b_cond_t3_noit.fields["cond"])
  BY BCondT3NoitParts, SMT DEF AtPart, SumPart, LiesAt, Gives
<1>5. QED
  BY <1>2, <1>3, <1>4, SMT DEF WellFormedFields

LEMMA BCondT3NoitStored1 ==
    ASSUME NEW p, IntegerParts(b_cond_t3_noit, p)
    PROVE  \E n \in BranchHigh : Stored(b_cond_t3_noit, p, 1) = 61440 + n + (p["cond"] % 16) * 64
<1> DEFINE F == AddedTo(b_cond_t3_noit, p, 1)
<1>1. PICK m : NatSum(m, F, DOMAIN b_cond_t3_noit.fields) /\ Stored(b_cond_t3_noit, p, 1) = b_cond_t3_noit.base[1] + m
  BY BCondT3NoitFields, StoredIsSum, Zenon
<1>2. F["simm21"] \in BranchHigh
  BY BCondT3NoitParts, AddedGiven, SMT
<1>3. F["cond"] = (p["cond"] % 16) * 64
  BY BCondT3NoitParts, AddedHere, SMT
<1> HIDE DEF F
<1>4. NatSum(m, F, {"simm21", "cond"})
  <2>1. DOMAIN b_cond_t3_noit.fields = {"simm21", "cond"}
    BY BCondT3NoitBase, SMT
  <2>2. QED
    BY <1>1, <2>1, Zenon
<1>5. m = F["simm21"] + F["cond"]
  <2>1. "simm21" # "cond"
    OBVIOUS
  <2>2. SumsOfTwo(m, F, "simm21", "cond")
    BY <1>4, <2>1 DEF SumsOfTwo
  <2>3. QED
    BY <2>2, SumOfTwo
<1>6. Stored(b_cond_t3_noit, p, 1) = 61440 + F["simm21"] + F["cond"]
  <2>1. F["simm21"] \in Nat /\ F["cond"] \in Nat
    BY <1>4, Zenon DEF NatSum
  <2>2. b_cond_t3_noit.base[1] = 61440
    BY BCondT3NoitBase, SMT
  <2>3. QED
    BY <1>1, <1>5, <2>1, <2>2, SMT
<1>7. QED
  BY <1>2, <1>3, <1>6, SMT

LEMMA BCondT3NoitMatched1 ==
    ASSUME NEW ins, Match(b_cond_t3_noit, ins), DOMAIN ins = {1, 2}, Halfwords(ins)
    PROVE  \E n \in BranchHigh : ins[1] = 61440 + n + ((ins[1] \div 64) % 16) * 64
<1> DEFINE F == FoundIn(b_cond_t3_noit, ins, 1)
<1>1. PICK m : NatSum(m, F, DOMAIN b_cond_t3_noit.fields) /\ ins[1] = b_cond_t3_noit.base[1] + m
  BY BCondT3NoitFields, MatchedHalves, SMT
<1>2. F["simm21"] \in BranchHigh
  BY BCondT3NoitParts, FoundGiven, SMT
<1>3. F["cond"] = ((ins[1] \div 64) % 16) * 64
  BY BCondT3NoitParts, FoundHere, SMT
<1> HIDE DEF F
<1>4. NatSum(m, F, {"simm21", "cond"})
  <2>1. DOMAIN b_cond_t3_noit.fields = {"simm21", "cond"}
    BY BCondT3NoitBase, SMT
  <2>2. QED
    BY <1>1, <2>1, Zenon
<1>5. m = F["simm21"] + F["cond"]
  <2>1. "simm21" # "cond"
    OBVIOUS
  <2>2. SumsOfTwo(m, F, "simm21", "cond")
    BY <1>4, <2>1 DEF SumsOfTwo
  <2>3. QED
    BY <2>2, SumOfTwo
<1>6. ins[1] = 61440 + F["simm21"] + F["cond"]
  <2>1. F["simm21"] \in Nat /\ F["cond"] \in Nat
    BY <1>4, Zenon DEF NatSum
  <2>2. b_cond_t3_noit.base[1] = 61440
    BY BCondT3NoitBase, SMT
  <2>3. QED
    BY <1>1, <1>5, <2>1, <2>2, SMT
<1>7. QED
  BY <1>2, <1>3, <1>6, SMT

LEMMA BCondT3NoitMatched2 ==
    ASSUME NEW ins, Match(b_cond_t3_noit, ins), DOMAIN ins = {1, 2}, Halfwords(ins)
    PROVE  \E n \in BranchLow : ins[2] = 32768 + n
<1> DEFINE F == FoundIn(b_cond_t3_noit, ins, 2)
<1>1. PICK m : NatSum(m, F, DOMAIN b_cond_t3_noit.fields) /\ ins[2] = b_cond_t3_noit.base[2] + m
  BY BCondT3NoitFields, MatchedHalves, SMT
<1>2. F["simm21"] \in BranchLow
  BY BCondT3NoitParts, FoundGiven, SMT
<1>3. F["cond"] = 0
  BY BCondT3NoitParts, FoundElsewhere, SMT
<1> HIDE DEF F
<1>4. NatSum(m, F, {"simm21", "cond"})
  <2>1. DOMAIN b_cond_t3_noit.fields = {"simm21", "cond"}
    BY BCondT3NoitBase, SMT
  <2>2. QED
    BY <1>1, <2>1, Zenon
<1>5. m = F["simm21"] + F["cond"]
  <2>1. "simm21" # "cond"
    OBVIOUS
  <2>2. SumsOfTwo(m, F, "simm21", "cond")
    BY <1>4, <2>1 DEF SumsOfTwo
  <2>3. QED
    BY <2>2, SumOfTwo
<1>6. ins[2] = 32768 + F["simm21"]
  <2>1. F["simm21"] \in Nat /\ F["cond"] \in Nat
    BY <1>4, Zenon DEF NatSum
  <2>2. b_cond_t3_noit.base[2] = 32768
    BY BCondT3NoitBase, SMT
  <2>3. QED
    BY <1>1, <1>3, <1>5, <2>1, <2>2, SMT
<1>7. QED
  BY <1>2, <1>6, SMT

LEMMA UdfT2Base ==
    /\ DOMAIN udf_t2.fields = {"imm16"}
    /\ DOMAIN udf_t2.base = {1, 2} /\ udf_t2.base[1] = 63472 /\ udf_t2.base[2] = 40960
  BY SMT DEF udf_t2, Encoding

LEMMA UdfT2Parts ==
    /\ SumPart(udf_t2, "imm16", 1, CodeHigh)
    /\ SumPart(udf_t2, "imm16", 2, CodeLow)
<1>1. Gives(udf_t2.fields["imm16"], 1, CodeHigh) /\ Gives(udf_t2.fields["imm16"], 2, CodeLow)
  BY PiecesGive, SMT DEF udf_t2, Encoding
<1>2. QED
  BY <1>1, UdfT2Base, SMT DEF AtPart, SumPart

LEMMA UdfT2Fields == WellFormedFields(udf_t2)
<1>1. {"imm16"} \in SUBSET {"imm16", "imm16", "imm16", "imm16", "imm16", "imm16"}
  OBVIOUS
<1>2. IsFiniteSet({"imm16"})
  BY <1>1, FewAreFinite, Zenon
<1>3. DOMAIN udf_t2.fields = {"imm16"}
  BY UdfT2Base, SMT
<1>4. WellFormed(udf_t2.fields["imm16"])
  BY UdfT2Parts, SMT DEF AtPart, SumPart, LiesAt, Gives
<1>5. QED
  BY <1>2, <1>3, <1>4, SMT DEF WellFormedFields

LEMMA UdfT2Stored1 ==
    ASSUME NEW p, IntegerParts(udf_t2, p)
    PROVE  \E n \in CodeHigh : Stored(udf_t2, p, 1) = 63472 + n
<1> DEFINE F == AddedTo(udf_t2, p, 1)
<1>1. PICK m : NatSum(m, F, DOMAIN udf_t2.fields) /\ Stored(udf_t2, p, 1) = udf_t2.base[1] + m
  BY UdfT2Fields, StoredIsSum, Zenon
<1>2. F["imm16"] \in CodeHigh
  BY UdfT2Parts, AddedGiven, SMT
<1> HIDE DEF F
<1>3. NatSum(m, F, {"imm16"})
  <2>1. DOMAIN udf_t2.fields = {"imm16"}
    BY UdfT2Base, SMT
  <2>2. QED
    BY <1>1, <2>1, Zenon
<1>4. m = F["imm16"]
  BY <1>3, SumOfOne, Zenon
<1>5. Stored(udf_t2, p, 1) = 63472 + F["imm16"]
  <2>1. F["imm16"] \in Nat
    BY <1>3, Zenon DEF NatSum
  <2>2. udf_t2.base[1] = 63472
    BY UdfT2Base, SMT
  <2>3. QED
    BY <1>1, <1>4, <2>1, <2>2, SMT
<1>6. QED
  BY <1>2, <1>5, SMT

LEMMA UdfT2Stored2 ==
    ASSUME NEW p, IntegerParts(udf_t2, p)
    PROVE  \E n \in CodeLow : Stored(udf_t2, p, 2) = 40960 + n
<1> DEFINE F == AddedTo(udf_t2, p, 2)
<1>1. PICK m : NatSum(m, F, DOMAIN udf_t2.fields) /\ Stored(udf_t2, p, 2) = udf_t2.base[2] + m
  BY UdfT2Fields, StoredIsSum, Zenon
<1>2. F["imm16"] \in CodeLow
  BY UdfT2Parts, AddedGiven, SMT
<1> HIDE DEF F
<1>3. NatSum(m, F, {"imm16"})
  <2>1. DOMAIN udf_t2.fields = {"imm16"}
    BY UdfT2Base, SMT
  <2>2. QED
    BY <1>1, <2>1, Zenon
<1>4. m = F["imm16"]
  BY <1>3, SumOfOne, Zenon
<1>5. Stored(udf_t2, p, 2) = 40960 + F["imm16"]
  <2>1. F["imm16"] \in Nat
    BY <1>3, Zenon DEF NatSum
  <2>2. udf_t2.base[2] = 40960
    BY UdfT2Base, SMT
  <2>3. QED
    BY <1>1, <1>4, <2>1, <2>2, SMT
<1>6. QED
  BY <1>2, <1>5, SMT

\* The halfwords of a ldr_i_t4 with neither index nor writeback, ...
NeitherBit(a, b) ==
    /\ 63568 <= a /\ a <= 63583
    /\ \E t \in 0 .. 15, u \in 0 .. 1, i \in 0 .. 255 : b = 2048 + t * 4096 + u * 512 + i

\* ... and those of a b_cond_t3_noit whose condition is 15
NoCond(a, b) == \E n \in BranchHigh, l \in BranchLow : a = 61440 + n + 960 /\ b = 32768 + l

LEMMA DecodedAt ==
    ASSUME NEW e, NEW ins, Halfwords(ins), NEW q, NEW h \in {1, 2}, NEW size, NEW weight,
           AtPart(e, q, h, size, weight)
    PROVE  Decode(e, ins)[q] = (ins[h] \div weight) % size
<1>1. ins[h] \in Int
  BY SMT DEF Halfwords
<1>2. q \in DOMAIN e.fields /\ ~e.fields[q].signed
  BY DEF AtPart, LiesAt
<1>3. Gathered(e.fields[q], ins) = (ins[h] \div weight) % size
  BY <1>1, Zenon DEF AtPart, LiesAt
<1>4. Decode(e, ins)[q] = Gathered(e.fields[q], ins)
  BY <1>2 DEF Decode
<1>5. QED
  BY <1>3, <1>4, Zenon

LEMMA Remainders ==
    ASSUME NEW x \in Int
    PROVE  /\ x % 2 \in 0 .. 1 /\ x % 16 \in 0 .. 15 /\ x % 256 \in 0 .. 255
           /\ x % 4 \in 0 .. 3
  BY SMT

LEMMA BranchNotListed ==
    ASSUME NEW ins, Match(b_cond_t3_noit, ins), DOMAIN ins = {1, 2}, Halfwords(ins)
    PROVE  /\ Decode(b_cond_t3_noit, ins)["cond"] \in 0 .. 15
           /\ Decode(b_cond_t3_noit, ins)["cond"] = 15 => NoCond(ins[1], ins[2])
<1> DEFINE c == (ins[1] \div 64) % 16
<1>1. Decode(b_cond_t3_noit, ins)["cond"] = c
  BY BCondT3NoitParts, DecodedAt, SMT
<1>2. c \in 0 .. 15
  <2>1. ins[1] \div 64 \in Int
    BY SMT DEF Halfwords
  <2>2. QED
    BY <2>1, Remainders, Zenon
<1>3. PICK n \in BranchHigh : ins[1] = 61440 + n + c * 64
  BY BCondT3NoitMatched1
<1>4. PICK l \in BranchLow : ins[2] = 32768 + l
  BY BCondT3NoitMatched2
<1>5. ASSUME c = 15
      PROVE  NoCond(ins[1], ins[2])
  <2>1. 15 * 64 = 960
    BY SMT
  <2>2. ins[1] = 61440 + n + 960
    BY <1>3, <1>5, <2>1, SMT
  <2>3. QED
    BY <1>4, <2>2, SMT DEF NoCond
<1>6. QED
  BY <1>1, <1>2, <1>5, Zenon

-----------------------------------------------------------------------------
(***************************************************************************)
(* The words that are not printed to their end, and that the encodings do  *)
(* not make                                                                *)
(***************************************************************************)
LEMMA SumsAre ==
    /\ \A n \in BranchHigh : \E x \in 0 .. 1, y \in 0 .. 63 : n = x * 1024 + y
    /\ \A n \in BranchLow : \E x \in 0 .. 1, y \in 0 .. 1, z \in 0 .. 2047 : n = x * 8192 + y * 2048 + z
    /\ \A n \in ImmediateLow : \E x \in 0 .. 7, y \in 0 .. 255 : n = x * 4096 + y
<1>1. ASSUME NEW n \in BranchHigh
      PROVE  \E x \in 0 .. 1, y \in 0 .. 63 : n = x * 1024 + y
  <2>1. PICK x \in 0 .. 1, y \in 0 .. 63 : n = x * 1024 + y * 1
    BY SMT DEF BranchHigh, Sums2
  <2>2. n = x * 1024 + y
    BY <2>1, SMT
  <2>3. QED
    BY <2>2, SMT
<1>2. ASSUME NEW n \in BranchLow
      PROVE  \E x \in 0 .. 1, y \in 0 .. 1, z \in 0 .. 2047 : n = x * 8192 + y * 2048 + z
  <2>1. PICK x \in 0 .. 1, y \in 0 .. 1, z \in 0 .. 2047 : n = x * 8192 + y * 2048 + z * 1
    BY SMT DEF BranchLow, Sums3
  <2>2. n = x * 8192 + y * 2048 + z
    BY <2>1, SMT
  <2>3. QED
    BY <2>2, SMT
<1>3. ASSUME NEW n \in ImmediateLow
      PROVE  \E x \in 0 .. 7, y \in 0 .. 255 : n = x * 4096 + y
  <2>1. PICK x \in 0 .. 7, y \in 0 .. 255 : n = x * 4096 + y * 1
    BY SMT DEF ImmediateLow, Sums2
  <2>2. n = x * 4096 + y
    BY <2>1, SMT
  <2>3. QED
    BY <2>2, SMT
<1>4. QED
  BY <1>1, <1>2, <1>3, SMT

\* Where a branch without a condition, and a load with neither bit, cannot be
LEMMA NoCondFirst ==
    ASSUME NEW a, NEW b, NoCond(a, b)
    PROVE  \E x \in 0 .. 1, y \in 0 .. 63 : a = 62400 + x * 1024 + y
<1>1. PICK n \in BranchHigh : a = 61440 + n + 960
  BY SMT DEF NoCond
<1>2. PICK x \in 0 .. 1, y \in 0 .. 63 : n = x * 1024 + y
  BY SumsAre, SMT
<1>3. a = 62400 + x * 1024 + y
  BY <1>1, <1>2, SMT
<1>4. QED
  BY <1>3, SMT

LEMMA NoCondSecond ==
    ASSUME NEW a, NEW b, NoCond(a, b)
    PROVE  \E x \in 0 .. 1, y \in 0 .. 1, z \in 0 .. 2047 : b = 32768 + x * 8192 + y * 2048 + z
<1>1. PICK l \in BranchLow : b = 32768 + l
  BY SMT DEF NoCond
<1>2. PICK x \in 0 .. 1, y \in 0 .. 1, z \in 0 .. 2047 : l = x * 8192 + y * 2048 + z
  BY SumsAre, SMT
<1>3. b = 32768 + x * 8192 + y * 2048 + z
  BY <1>1, <1>2, SMT
<1>4. QED
  BY <1>3, SMT

LEMMA NotNoCond ==
    /\ \A a \in Nat : a < 62400 \/ a > 63487 => \A b : ~NoCond(a, b)
    /\ \A b \in Int : b < 32768 => \A a : ~NoCond(a, b)
    /\ \A x \in BranchLow : \A a : ~NoCond(a, 36864 + x) /\ ~NoCond(a, 53248 + x)
<1>1. ASSUME NEW a \in Nat, a < 62400 \/ a > 63487, NEW b, NoCond(a, b)
      PROVE  FALSE
  <2>1. PICK x \in 0 .. 1, y \in 0 .. 63 : a = 62400 + x * 1024 + y
    BY <1>1, NoCondFirst, SMT
  <2>2. QED
    BY <1>1, <2>1, SMT
<1>2. ASSUME NEW a, NEW b, NoCond(a, b)
      PROVE  32768 <= b
  <2>1. PICK x \in 0 .. 1, y \in 0 .. 1, z \in 0 .. 2047 : b = 32768 + x * 8192 + y * 2048 + z
    BY <1>2, NoCondSecond, SMT
  <2>2. (x = 0 \/ x = 1) /\ (y = 0 \/ y = 1) /\ z \in Nat
    BY SMT
  <2>3. QED
    BY <2>1, <2>2, SMT
<1>3. ASSUME NEW l \in BranchLow, NEW a, NoCond(a, 36864 + l) \/ NoCond(a, 53248 + l)
      PROVE  FALSE
  <2>1. PICK x \in 0 .. 1, y \in 0 .. 1, z \in 0 .. 2047 : l = x * 8192 + y * 2048 + z
    BY SumsAre, SMT
  <2>2. ASSUME NoCond(a, 36864 + l)
        PROVE  FALSE
    <3>1. PICK x1 \in 0 .. 1, y1 \in 0 .. 1, z1 \in 0 .. 2047 :
              36864 + l = 32768 + x1 * 8192 + y1 * 2048 + z1
      BY <2>2, NoCondSecond, SMT
    <3>2. /\ (x1 = 0 \/ x1 = 1) /\ (y1 = 0 \/ y1 = 1) /\ z1 \in Nat /\ z1 <= 2047
          /\ (x = 0 \/ x = 1) /\ (y = 0 \/ y = 1) /\ z \in Nat /\ z <= 2047
      BY SMT
    <3>3. QED
      BY <2>1, <3>1, <3>2, SMT
  <2>3. ASSUME NoCond(a, 53248 + l)
        PROVE  FALSE
    <3>1. PICK x1 \in 0 .. 1, y1 \in 0 .. 1, z1 \in 0 .. 2047 :
              53248 + l = 32768 + x1 * 8192 + y1 * 2048 + z1
      BY <2>3, NoCondSecond, SMT
    <3>2. /\ (x1 = 0 \/ x1 = 1) /\ (y1 = 0 \/ y1 = 1) /\ z1 \in Nat /\ z1 <= 2047
          /\ (x = 0 \/ x = 1) /\ (y = 0 \/ y = 1) /\ z \in Nat /\ z <= 2047
      BY SMT
    <3>3. QED
      BY <2>1, <3>1, <3>2, SMT
  <2>4. QED
    BY <1>3, <2>2, <2>3
<1>4. QED
  BY <1>1, <1>2, <1>3, SMT

LEMMA NotNeitherBit ==
    ASSUME NEW a \in Nat, a < 63568 \/ a > 63583, NEW b
    PROVE  ~NeitherBit(a, b)
  BY SMT DEF NeitherBit

\* What is stored can be listed.
Quiet(e, p) ==
    /\ ~NeitherBit(Stored(e, p, 1), Stored(e, p, 2))
    /\ ~NoCond(Stored(e, p, 1), Stored(e, p, 2))

Low(e, p) == Stored(e, p, 1) \in Nat

LEMMA FirstSettles ==
    ASSUME NEW e, NEW low, NEW high, Starts(e, low, high), low \in Nat, high \in Nat,
           high < 62400 \/ low > 63583 \/ (low > 63487 /\ high < 63568),
           NEW p, IntegerParts(e, p)
    PROVE  Quiet(e, p)
<1> DEFINE a == Stored(e, p, 1)
           b == Stored(e, p, 2)
<1>1. a \in Nat /\ low <= a /\ a <= high
  BY DEF Starts
<1> HIDE DEF a, b
<1>2. (a < 62400 \/ a > 63487) /\ (a < 63568 \/ a > 63583)
  BY <1>1, SMT
<1>3. ~NoCond(a, b)
  BY <1>1, <1>2, NotNoCond, SMT
<1>4. ~NeitherBit(a, b)
  BY <1>1, <1>2, NotNeitherBit, SMT
<1>5. QED
  BY <1>3, <1>4 DEF Quiet, a, b

LEMMA FirstBelow ==
    ASSUME NEW e, NEW low, NEW high, Starts(e, low, high), low \in Nat, high \in Nat,
           high < 63568, NEW p, IntegerParts(e, p)
    PROVE  ~NeitherBit(Stored(e, p, 1), Stored(e, p, 2))
<1> DEFINE a == Stored(e, p, 1)
           b == Stored(e, p, 2)
<1>1. a \in Nat /\ low <= a /\ a <= high
  BY DEF Starts
<1> HIDE DEF a, b
<1>2. a < 63568
  BY <1>1, SMT
<1>3. ~NeitherBit(a, b)
  BY <1>1, <1>2, NotNeitherBit, SMT
<1>4. QED
  BY <1>3 DEF a, b

LEMMA QuietByFirst ==
    /\ \A p : IntegerParts(ldr_i_t3, p) => Quiet(ldr_i_t3, p)
    /\ \A p : IntegerParts(mov_r_t3_opt_s, p) => Quiet(mov_r_t3_opt_s, p)
    /\ \A p : IntegerParts(nop_t2, p) => Quiet(nop_t2, p)
    /\ \A p : IntegerParts(pop_t2, p) => Quiet(pop_t2, p)
    /\ \A p : IntegerParts(push_t2, p) => Quiet(push_t2, p)
    /\ \A p : IntegerParts(push_t3, p) => Quiet(push_t3, p)
  BY FirstHalfwords, FirstSettles, SMT

LEMMA QuietBySecond ==
    /\ \A p : IntegerParts(addw_i_t4, p) => Quiet(addw_i_t4, p)
    /\ \A p : IntegerParts(subw_i_t4, p) => Quiet(subw_i_t4, p)
    /\ \A p : IntegerParts(movw_i_t3, p) => Quiet(movw_i_t3, p)
<1>1. ASSUME NEW e \in {addw_i_t4, subw_i_t4, movw_i_t3}, NEW p, IntegerParts(e, p)
      PROVE  Quiet(e, p)
  <2>1. ~NeitherBit(Stored(e, p, 1), Stored(e, p, 2))
    BY <1>1, FirstHalfwords, FirstBelow, SMT
  <2>2. p["Rd"] \in Int
    BY <1>1, AddwIT4Base, SubwIT4Base, MovwIT3Base, SMT DEF IntegerParts
  <2>3. PICK n \in ImmediateLow : Stored(e, p, 2) = 0 + n + (p["Rd"] % 16) * 256
    BY <1>1, AddwIT4Stored2, SubwIT4Stored2, MovwIT3Stored2, SMT
  <2>4. PICK x \in 0 .. 7, y \in 0 .. 255 : n = x * 4096 + y
    BY SumsAre, SMT
  <2>5. p["Rd"] % 16 \in 0 .. 15
    BY <2>2, Remainders, Zenon
  <2>6. Stored(e, p, 2) \in Int /\ Stored(e, p, 2) < 32768
    BY <2>3, <2>4, <2>5, SMT
  <2>7. QED
    BY <2>1, <2>6, NotNoCond, SMT DEF Quiet
<1>2. QED
  BY <1>1, SMT

LEMMA QuietBranches ==
    /\ \A p : IntegerParts(b_t4, p) => Quiet(b_t4, p)
    /\ \A p : IntegerParts(bl_t1, p) => Quiet(bl_t1, p)
<1>1. ASSUME NEW p, IntegerParts(b_t4, p)
      PROVE  Quiet(b_t4, p)
  <2>1. ~NeitherBit(Stored(b_t4, p, 1), Stored(b_t4, p, 2))
    BY <1>1, FirstHalfwords, FirstBelow, SMT
  <2>2. PICK n \in BranchLow : Stored(b_t4, p, 2) = 36864 + n
    BY <1>1, BT4Stored2
  <2>3. QED
    BY <2>1, <2>2, NotNoCond, SMT DEF Quiet
<1>2. ASSUME NEW p, IntegerParts(bl_t1, p)
      PROVE  Quiet(bl_t1, p)
  <2>1. ~NeitherBit(Stored(bl_t1, p, 1), Stored(bl_t1, p, 2))
    BY <1>2, FirstHalfwords, FirstBelow, SMT
  <2>2. PICK n \in BranchLow : Stored(bl_t1, p, 2) = 53248 + n
    BY <1>2, BlT1Stored2
  <2>3. QED
    BY <2>1, <2>2, NotNoCond, SMT DEF Quiet
<1>3. QED
  BY <1>1, <1>2, SMT

\* First halfwords that only the loads have
FirstOfLoads(a) == a \in Nat /\ a > 63487

LEMMA LoadQuiet ==
    ASSUME NEW e, NEW p, FirstOfLoads(Stored(e, p, 1)),
           ~NeitherBit(Stored(e, p, 1), Stored(e, p, 2))
    PROVE  Quiet(e, p)
<1> DEFINE a == Stored(e, p, 1)
           b == Stored(e, p, 2)
<1>1. a \in Nat /\ a > 63487 /\ ~NeitherBit(a, b)
  BY DEF FirstOfLoads
<1> HIDE DEF a, b
<1>2. ~NoCond(a, b)
  BY <1>1, NotNoCond, SMT
<1>3. ~NeitherBit(a, b) /\ ~NoCond(a, b)
  BY <1>1, <1>2
<1>4. QED
  BY <1>3, Zenon DEF Quiet, a, b

\* What the second halfword of such a load is made of
LowerOfNeither(b, t, u, i) ==
    /\ t \in 0 .. 15 /\ u \in 0 .. 1 /\ i \in 0 .. 255
    /\ b = 2048 + t * 4096 + u * 512 + i

LEMMA NeitherBitIs ==
    ASSUME NEW a, NEW b, NEW t, NEW u, NEW i,
           63568 <= a, a <= 63583, LowerOfNeither(b, t, u, i)
    PROVE  NeitherBit(a, b)
  BY SMT DEF NeitherBit, LowerOfNeither

\* What a load with neither bit has in its lower twelve bits
LEMMA NeitherBitLow ==
    ASSUME NEW a, NEW b, NeitherBit(a, b)
    PROVE  \E t \in 0 .. 15, u \in 0 .. 1, i \in 0 .. 255 : b = 2048 + t * 4096 + u * 512 + i
  BY SMT DEF NeitherBit

\* The lower twelve bits of b are k; in a load with neither bit they are in a range.
LowerBits(b, t, k) == t \in 0 .. 15 /\ k \in Nat /\ k < 4096 /\ b = t * 4096 + k
Neither(k)         == 2048 <= k /\ k <= 2815

LEMMA NeitherLow ==
    ASSUME NEW a, NEW b, NeitherBit(a, b), NEW t, NEW k, LowerBits(b, t, k)
    PROVE  Neither(k)
<1>1. PICK v \in 0 .. 15, u \in 0 .. 1, i \in 0 .. 255 : b = 2048 + v * 4096 + u * 512 + i
  BY NeitherBitLow, SMT
<1>2. v \in Int /\ (u = 0 \/ u = 1) /\ i \in Nat /\ i <= 255
  BY SMT
<1>3. t \in Int /\ k \in Nat /\ k < 4096
  BY SMT DEF LowerBits
<1>4. t * 4096 + k = 2048 + v * 4096 + u * 512 + i
  BY <1>1, SMT DEF LowerBits
<1>5. CASE u = 0
  BY <1>2, <1>3, <1>4, <1>5, SMT DEF Neither
<1>6. CASE u = 1
  BY <1>2, <1>3, <1>4, <1>6, SMT DEF Neither
<1>7. QED
  BY <1>2, <1>5, <1>6

LEMMA NotNeitherLow ==
    ASSUME NEW a, NEW b, NEW t, NEW k, LowerBits(b, t, k), ~Neither(k)
    PROVE  ~NeitherBit(a, b)
  BY NeitherLow, Zenon

LEMMA LdrRT2LslQuiet == \A p : IntegerParts(ldr_r_t2_lsl, p) => Quiet(ldr_r_t2_lsl, p)
<1> SUFFICES ASSUME NEW p, IntegerParts(ldr_r_t2_lsl, p) PROVE Quiet(ldr_r_t2_lsl, p)
  OBVIOUS
<1> DEFINE t == p["Rt"] % 16
           s == p["lsl_shift_imm2"] % 4
           m == p["Rm"] % 16
           k == s * 16 + m
<1>1. p["Rt"] \in Int /\ p["lsl_shift_imm2"] \in Int /\ p["Rm"] \in Int
  BY LdrRT2LslBase, SMT DEF IntegerParts
<1>2. t \in 0 .. 15 /\ s \in 0 .. 3 /\ m \in 0 .. 15
  BY <1>1, Remainders, Zenon
<1>3. Stored(ldr_r_t2_lsl, p, 2) = 0 + t * 4096 + s * 16 + m * 1
  BY LdrRT2LslStored2, SMT
<1> HIDE DEF t, s, m
<1>4. k \in Nat /\ k < 2048 /\ Stored(ldr_r_t2_lsl, p, 2) = t * 4096 + k
  BY <1>2, <1>3, SMT
<1> HIDE DEF k
<1>5. LowerBits(Stored(ldr_r_t2_lsl, p, 2), t, k) /\ ~Neither(k)
  BY <1>2, <1>4, SMT DEF LowerBits, Neither
<1>6. ~NeitherBit(Stored(ldr_r_t2_lsl, p, 1), Stored(ldr_r_t2_lsl, p, 2))
  BY <1>5, NotNeitherLow
<1>7. FirstOfLoads(Stored(ldr_r_t2_lsl, p, 1))
  BY FirstHalfwords, SMT DEF Starts, FirstOfLoads
<1>8. QED
  BY <1>6, <1>7, LoadQuiet, SMT

LEMMA PopT3Quiet == \A p : IntegerParts(pop_t3, p) => Quiet(pop_t3, p)
<1> SUFFICES ASSUME NEW p, IntegerParts(pop_t3, p) PROVE Quiet(pop_t3, p)
  OBVIOUS
<1> DEFINE t == p["Rt"] % 16
<1>1. p["Rt"] \in Int
  BY PopT3Base, SMT DEF IntegerParts
<1>2. t \in 0 .. 15
  BY <1>1, Remainders, Zenon
<1>3. Stored(pop_t3, p, 2) = 2820 + t * 4096
  BY PopT3Stored2, SMT
<1> HIDE DEF t
<1>4. LowerBits(Stored(pop_t3, p, 2), t, 2820) /\ ~Neither(2820)
  BY <1>2, <1>3, SMT DEF LowerBits, Neither
<1>5. ~NeitherBit(Stored(pop_t3, p, 1), Stored(pop_t3, p, 2))
  BY <1>4, NotNeitherLow, SMT
<1>6. FirstOfLoads(Stored(pop_t3, p, 1))
  BY FirstHalfwords, SMT DEF Starts, FirstOfLoads
<1>7. QED
  BY <1>5, <1>6, LoadQuiet, SMT

\* A literal that is not far
NearLiteral(p) ==
    /\ p["add"] \in {0, 1} /\ p["imm12"] \in Nat /\ p["imm12"] < 4096
    /\ p["add"] = 0 => p["imm12"] < 2048

LEMMA LdrLitT2Quiet ==
    ASSUME NEW p, IntegerParts(ldr_lit_t2, p), NearLiteral(p)
    PROVE  Quiet(ldr_lit_t2, p)
<1> DEFINE t == p["Rt"] % 16
           k == p["imm12"]
<1>1. p["Rt"] \in Int
  BY LdrLitT2Base, SMT DEF IntegerParts
<1>2. t \in 0 .. 15
  BY <1>1, Remainders, Zenon
<1>3. Stored(ldr_lit_t2, p, 2) = 0 + t * 4096 + (k % 4096) * 1
  BY LdrLitT2Stored2, SMT
<1>4. Stored(ldr_lit_t2, p, 1) = 63583 + (p["add"] % 2) * 128
  BY LdrLitT2Stored1, SMT
<1>5. FirstOfLoads(Stored(ldr_lit_t2, p, 1))
  BY FirstHalfwords, SMT DEF Starts, FirstOfLoads
<1> DEFINE a == Stored(ldr_lit_t2, p, 1)
           b == Stored(ldr_lit_t2, p, 2)
           d == p["add"]
<1>6. d \in {0, 1} /\ k \in Nat /\ k < 4096 /\ (d = 0 => k < 2048)
  BY DEF NearLiteral
<1> HIDE DEF a, b, d, t, k
<1>7. CASE d = 1
  <2>1. a = 63711
    BY <1>4, <1>7, SMT DEF a, d
  <2>2. a \in Nat /\ a > 63583
    BY <2>1, SMT
  <2>3. ~NeitherBit(a, b)
    BY <2>2, NotNeitherBit, SMT
  <2>4. QED
    BY <1>5, <2>3, LoadQuiet DEF a, b
<1>8. CASE d = 0
  <2>1. k \in Nat /\ k < 2048 /\ k < 4096
    BY <1>6, <1>8, SMT
  <2>2. LowerBits(b, t, k) /\ ~Neither(k)
    BY <1>2, <1>3, <2>1, SMT DEF b, LowerBits, Neither
  <2>3. ~NeitherBit(a, b)
    BY <2>2, NotNeitherLow
  <2>4. QED
    BY <1>5, <2>3, LoadQuiet DEF a, b
<1>9. QED
  BY <1>6, <1>7, <1>8

LEMMA LdrIT4Quiet ==
    ASSUME NEW p, IntegerParts(ldr_i_t4, p), p["index"] \in {0, 1}, p["writeback"] \in {0, 1},
           p["index"] = 1 \/ p["writeback"] = 1
    PROVE  Quiet(ldr_i_t4, p)
<1> DEFINE t == p["Rt"] % 16
           u == p["add"] % 2
           i == p["imm8"] % 256
           x == p["index"]
           y == p["writeback"]
           a == Stored(ldr_i_t4, p, 1)
           b == Stored(ldr_i_t4, p, 2)
<1>1. p["Rt"] \in Int /\ p["add"] \in Int /\ p["imm8"] \in Int
  BY LdrIT4Base, SMT DEF IntegerParts
<1>2. t \in 0 .. 15 /\ u \in 0 .. 1 /\ i \in 0 .. 255
  BY <1>1, Remainders, Zenon
<1>3. b = 2048 + t * 4096 + (x % 2) * 1024 + u * 512 + (y % 2) * 256 + i * 1
  BY LdrIT4Stored2, SMT
<1>4. FirstOfLoads(a)
  BY FirstHalfwords, SMT DEF Starts, FirstOfLoads
<1>5. x \in {0, 1} /\ y \in {0, 1} /\ (x = 1 \/ y = 1)
  OBVIOUS
<1>6. ASSUME NeitherBit(a, b)
      PROVE  FALSE
  <2>1. PICK t1 \in 0 .. 15, u1 \in 0 .. 1, i1 \in 0 .. 255 : b = 2048 + t1 * 4096 + u1 * 512 + i1
    BY <1>6, NeitherBitLow, SMT
  <2> HIDE DEF a, b, t, u, i, x, y
  <2>2. /\ t \in Int /\ t1 \in Int /\ (u = 0 \/ u = 1) /\ (u1 = 0 \/ u1 = 1)
        /\ i \in Nat /\ i <= 255 /\ i1 \in Nat /\ i1 <= 255
    BY <1>2, SMT
  <2>3. b = 2048 + t * 4096 + x * 1024 + u * 512 + y * 256 + i
    BY <1>3, <1>5, <2>2, SMT
  <2>4. CASE x = 1
    <3>1. y = 0 \/ y = 1
      BY <1>5
    <3>2. 2048 + t * 4096 + 1024 + u * 512 + y * 256 + i = 2048 + t1 * 4096 + u1 * 512 + i1
      BY <2>1, <2>2, <2>3, <2>4, <3>1, SMT
    <3>3. t = t1
      BY <2>2, <3>1, <3>2, SMT
    <3>4. QED
      BY <2>2, <3>1, <3>2, <3>3, SMT
  <2>5. CASE x = 0 /\ y = 1
    BY <2>1, <2>2, <2>3, <2>5, SMT
  <2>6. QED
    BY <1>5, <2>4, <2>5
<1>7. QED
  BY <1>4, <1>6, LoadQuiet

LEMMA BCondT3Quiet ==
    ASSUME NEW p, IntegerParts(b_cond_t3_noit, p), p["cond"] \in 0 .. 14
    PROVE  Quiet(b_cond_t3_noit, p)
<1> DEFINE c == p["cond"]
           a == Stored(b_cond_t3_noit, p, 1)
           b == Stored(b_cond_t3_noit, p, 2)
<1>1. PICK n \in BranchHigh : a = 61440 + n + (c % 16) * 64
  BY BCondT3NoitStored1
<1>2. PICK x \in 0 .. 1, y \in 0 .. 63 : n = x * 1024 + y
  BY SumsAre, SMT
<1>3. c \in 0 .. 14
  OBVIOUS
<1> HIDE DEF a, b, c
<1>4. (x = 0 \/ x = 1) /\ y \in Nat /\ y <= 63 /\ c \in Nat /\ c <= 14 /\ c % 16 = c
  BY <1>3, SMT
<1>5. a = 61440 + x * 1024 + y + c * 64
  BY <1>1, <1>2, <1>4, SMT
<1>6. a \in Nat /\ a < 63568
  BY <1>4, <1>5, SMT
<1>7. ~NeitherBit(a, b)
  BY <1>6, NotNeitherBit, SMT
<1>8. ASSUME NoCond(a, b)
      PROVE  FALSE
  <2>1. PICK x1 \in 0 .. 1, y1 \in 0 .. 63 : a = 62400 + x1 * 1024 + y1
    BY <1>8, NoCondFirst, SMT
  <2>2. (x1 = 0 \/ x1 = 1) /\ y1 \in Nat /\ y1 <= 63
    BY SMT
  <2>3. QED
    BY <1>4, <1>5, <2>1, <2>2, SMT
<1>9. QED
  BY <1>7, <1>8 DEF Quiet, a, b

-----------------------------------------------------------------------------
(***************************************************************************)
(* Two that share words with another: UDF with a branch, and a narrow      *)
(* branch with SVC                                                         *)
(***************************************************************************)
\* What is in a halfword, of an encoding with one field or two
LEMMA PlacedOne ==
    ASSUME NEW e, WellFormedFields(e), NEW a, DOMAIN e.fields = {a}, NEW ins, NEW h, ins[h] \in Int
    PROVE  PlacedIn(e, ins, h) = MatchSum(e.fields[a], ins, h)
<1>1. NatSum(PlacedIn(e, ins, h), FoundIn(e, ins, h), {a})
  BY PlacedIsSum
<1>2. PlacedIn(e, ins, h) = FoundIn(e, ins, h)[a]
  BY <1>1, SumOfOne
<1>3. QED
  BY <1>2 DEF FoundIn

LEMMA PlacedTwo ==
    ASSUME NEW e, WellFormedFields(e), NEW a, NEW b, a # b, DOMAIN e.fields = {a, b},
           NEW ins, NEW h, ins[h] \in Int
    PROVE  PlacedIn(e, ins, h) = MatchSum(e.fields[a], ins, h) + MatchSum(e.fields[b], ins, h)
<1>1. NatSum(PlacedIn(e, ins, h), FoundIn(e, ins, h), {a, b})
  BY PlacedIsSum
<1>2. PlacedIn(e, ins, h) = FoundIn(e, ins, h)[a] + FoundIn(e, ins, h)[b]
  BY <1>1, SumOfTwo DEF SumsOfTwo
<1>3. QED
  BY <1>2 DEF FoundIn

\* A piece of a code is the halfword's lowest bits.
LEMMA CodePieces ==
    /\ \A ins : ins[1] \in Int => MatchSum(udf_t2.fields["imm16"], ins, 1) = ins[1] % 16
    /\ \A ins : ins[2] \in Int => MatchSum(udf_t2.fields["imm16"], ins, 2) = ins[2] % 4096
    /\ \A ins : ins[1] \in Int => MatchSum(b_cond_t1_noit.fields["simm8"], ins, 1) = ins[1] % 256
<1> DEFINE a == <<0, 12, 16>>
           b == <<12, 4, 0>>
           f == Split(16, {a, b})
<1>1. f.pieces = {a, b} /\ udf_t2.fields["imm16"] = f
  <2>1. f.pieces = {a, b}
    BY DEF Split, Field
  <2>2. udf_t2.fields["imm16"] = f
    BY SMT DEF udf_t2, Encoding
  <2>3. QED
    BY <2>1, <2>2
<1>2. WellFormed(f)
  BY SplitCaps, Zenon DEF Caps
<1>3. a[3] \div 16 + 1 = 2 /\ b[3] \div 16 + 1 = 1
  OBVIOUS
<1>4. Weighs(a, 4095, 1) /\ Weighs(b, 15, 1)
  BY DEF Weighs
<1>5. a[3] % 16 = 0 /\ a[2] = 12 /\ b[3] % 16 = 0 /\ b[2] = 4
  OBVIOUS
<1> HIDE DEF f, a, b
<1>6. InHalf(f, 1) = {b} /\ InHalf(f, 2) = {a}
  <2>1. 1 # 2
    OBVIOUS
  <2>2. QED
    BY <1>1, <1>3, <2>1, Zenon DEF InHalf
<1>7. OneIn(f, 1, b, 15, 1) /\ OneIn(f, 2, a, 4095, 1)
  BY <1>2, <1>4, <1>6 DEF OneIn
<1>8. ASSUME NEW ins, ins[1] \in Int
      PROVE  MatchSum(f, ins, 1) = ins[1] % 16
  <2>1. MatchSum(f, ins, 1) = Extract(ins[1], 0, 4) * 1
    BY <1>5, <1>7, <1>8, OnePiece, SMT
  <2>2. Extract(ins[1], 0, 4) = ins[1] % 16
    BY <1>8 DEF Extract
  <2>3. QED
    BY <1>8, <2>1, <2>2
<1>9. ASSUME NEW ins, ins[2] \in Int
      PROVE  MatchSum(f, ins, 2) = ins[2] % 4096
  <2>1. MatchSum(f, ins, 2) = Extract(ins[2], 0, 12) * 1
    BY <1>5, <1>7, <1>9, OnePiece, SMT
  <2>2. Extract(ins[2], 0, 12) = ins[2] % 4096
    BY <1>9, SMT DEF Extract
  <2>3. QED
    BY <1>9, <2>1, <2>2, SMT
<1>10. ASSUME NEW ins, ins[1] \in Int
       PROVE  MatchSum(b_cond_t1_noit.fields["simm8"], ins, 1) = ins[1] % 256
  <2> DEFINE c == <<1, 8, 0>>
             g == Branch(9, {c})
  <2>1. g.pieces = {c} /\ b_cond_t1_noit.fields["simm8"] = g
    <3>1. g.pieces = {c}
      BY DEF Branch, Field
    <3>2. b_cond_t1_noit.fields["simm8"] = g
      BY SMT DEF b_cond_t1_noit, Encoding
    <3>3. QED
      BY <3>1, <3>2
  <2>2. WellFormed(g)
    BY SplitCaps, Zenon DEF Caps
  <2>3. c[3] \div 16 + 1 = 1 /\ c[3] % 16 = 0 /\ c[2] = 8
    OBVIOUS
  <2>4. Weighs(c, 255, 1)
    BY DEF Weighs
  <2> HIDE DEF g, c
  <2>5. InHalf(g, 1) = {c}
    BY <2>1, <2>3, Zenon DEF InHalf
  <2>6. OneIn(g, 1, c, 255, 1)
    BY <2>2, <2>4, <2>5 DEF OneIn
  <2>7. MatchSum(g, ins, 1) = Extract(ins[1], 0, 8) * 1
    BY <1>10, <2>3, <2>6, OnePiece, SMT
  <2>8. Extract(ins[1], 0, 8) = ins[1] % 256
    BY <1>10 DEF Extract
  <2>9. QED
    BY <1>10, <2>1, <2>7, <2>8, SMT
<1>11. QED
  BY <1>1, <1>8, <1>9, <1>10

\* A word that was made for UDF is matched by it.
LEMMA UdfT2Matches ==
    ASSUME NEW p, IntegerParts(udf_t2, p), NEW ins, Len(ins) = 2, DOMAIN ins = {1, 2},
           ins[1] = Stored(udf_t2, p, 1), ins[2] = Stored(udf_t2, p, 2)
    PROVE  Match(udf_t2, ins)
<1>1. PICK n \in CodeHigh : ins[1] = 63472 + n
  BY UdfT2Stored1
<1>2. PICK m \in CodeLow : ins[2] = 40960 + m
  BY UdfT2Stored2
<1>3. n \in 0 .. 15 /\ m \in 0 .. 4095
  <2>1. PICK i \in 0 .. 15 : n = i * 1
    BY SMT DEF CodeHigh, Sums1
  <2>2. PICK k \in 0 .. 4095 : m = k * 1
    BY SMT DEF CodeLow, Sums1
  <2>3. QED
    BY <2>1, <2>2, SMT
<1>4. ins[1] \in Int /\ ins[2] \in Int
  BY <1>1, <1>2, <1>3, SMT
<1>5. ins[1] % 16 = n /\ ins[2] % 4096 = m
  BY <1>1, <1>2, <1>3, SMT
<1>6. \A h \in {1, 2} : PlacedIn(udf_t2, ins, h) = MatchSum(udf_t2.fields["imm16"], ins, h)
  <2>1. DOMAIN udf_t2.fields = {"imm16"}
    BY UdfT2Base, SMT
  <2>2. QED
    BY <1>4, <2>1, UdfT2Fields, PlacedOne
<1>7. PlacedIn(udf_t2, ins, 1) = n /\ PlacedIn(udf_t2, ins, 2) = m
  BY <1>4, <1>5, <1>6, CodePieces, SMT
<1>8. Len(udf_t2.base) = 2 /\ udf_t2.base[1] = 63472 /\ udf_t2.base[2] = 40960
  BY SMT DEF udf_t2, Encoding
<1>9. \A h \in DOMAIN ins : ins[h] = udf_t2.base[h] + PlacedIn(udf_t2, ins, h)
  BY <1>1, <1>2, <1>7, <1>8, SMT
<1>10. QED
  BY <1>8, <1>9, MatchIsPlaced, SMT

-----------------------------------------------------------------------------
\* A narrow branch on condition 15 is a word of SVC (the code's order of tries).
LEMMA NarrowBranchListed ==
    ASSUME NEW ins, Len(ins) = 1, DOMAIN ins = {1}, ins[1] \in Int,
           Match(b_cond_t1_noit, ins)
    PROVE  /\ Decode(b_cond_t1_noit, ins)["cond"] \in 0 .. 15
           /\ Decode(b_cond_t1_noit, ins)["cond"] = 15 => Match(svc_t1, ins)
<1> DEFINE a == ins[1]
           c == (a \div 256) % 16
           r == a % 256
<1>1. /\ DOMAIN b_cond_t1_noit.fields = {"cond", "simm8"} /\ b_cond_t1_noit.base[1] = 53248
      /\ b_cond_t1_noit.fields["cond"] = Bits(4, 8)
      /\ b_cond_t1_noit.fields["simm8"] = Branch(9, {<<1, 8, 0>>})
  BY SMT DEF b_cond_t1_noit, Encoding
<1>2. WellFormedFields(b_cond_t1_noit)
  <2>1. IsFiniteSet({"cond", "simm8"})
    <3>1. {"cond", "simm8"} \in SUBSET {"cond", "simm8", "simm8", "simm8", "simm8", "simm8"}
      OBVIOUS
    <3>2. QED
      BY <3>1, FewAreFinite, Zenon
  <2>2. WellFormed(b_cond_t1_noit.fields["cond"]) /\ WellFormed(b_cond_t1_noit.fields["simm8"])
    <3>1. WellFormed(Bits(4, 8)) /\ WellFormed(Branch(9, {<<1, 8, 0>>}))
      <4>1. LiesAt(Bits(4, 8), 1, 16, 256) /\ Caps(Branch(9, {<<1, 8, 0>>}), 255)
        BY BitsLieAt, SplitCaps, SMT
      <4>2. QED
        BY <4>1 DEF LiesAt, Caps
    <3>2. QED
      BY <1>1, <3>1, SMT
  <2>3. QED
    BY <1>1, <2>1, <2>2, SMT DEF WellFormedFields
<1>3. LiesAt(b_cond_t1_noit.fields["cond"], 1, 16, 256)
  BY <1>1, BitsLieAt, SMT
<1>4. MatchSum(b_cond_t1_noit.fields["cond"], ins, 1) = c * 256
  BY <1>3, Zenon DEF LiesAt
<1>5. MatchSum(b_cond_t1_noit.fields["simm8"], ins, 1) = r
  BY CodePieces, SMT
<1>6. PlacedIn(b_cond_t1_noit, ins, 1) = c * 256 + r
  <2>1. "cond" # "simm8" /\ DOMAIN b_cond_t1_noit.fields = {"cond", "simm8"}
    BY <1>1, SMT
  <2>2. QED
    <3>1. PlacedIn(b_cond_t1_noit, ins, 1) = MatchSum(b_cond_t1_noit.fields["cond"], ins, 1)
                                             + MatchSum(b_cond_t1_noit.fields["simm8"], ins, 1)
      BY <1>2, <2>1, PlacedTwo
    <3> HIDE DEF c, r
    <3>2. QED
      BY <1>4, <1>5, <3>1, SMT
<1>7. a = 53248 + (c * 256 + r)
  <2>1. 1 \in DOMAIN ins
    OBVIOUS
  <2>2. ins[1] = b_cond_t1_noit.base[1] + PlacedIn(b_cond_t1_noit, ins, 1)
    BY <2>1, MatchIsPlaced
  <2>3. QED
    BY <1>1, <1>6, <2>2, SMT
<1>8. Decode(b_cond_t1_noit, ins)["cond"] = c
  <2>1. "cond" \in DOMAIN b_cond_t1_noit.fields
    BY <1>1, SMT
  <2>2. ~b_cond_t1_noit.fields["cond"].signed /\ Gathered(b_cond_t1_noit.fields["cond"], ins) = c
    BY <1>3, Zenon DEF LiesAt
  <2>3. QED
    BY <2>1, <2>2 DEF Decode
<1>9. c \in 0 .. 15
  <2>1. a \div 256 \in Int
    BY SMT
  <2>2. QED
    BY <2>1, Remainders, Zenon
<1>10. ASSUME c = 15
       PROVE  Match(svc_t1, ins)
  <2>1. /\ DOMAIN svc_t1.fields = {"imm8"} /\ svc_t1.base[1] = 57088 /\ Len(svc_t1.base) = 1
        /\ svc_t1.fields["imm8"] = Bits(8, 0)
    BY SMT DEF svc_t1, Encoding
  <2>2. LiesAt(svc_t1.fields["imm8"], 1, 256, 1)
    BY <2>1, BitsLieAt, SMT
  <2>3. MatchSum(svc_t1.fields["imm8"], ins, 1) = ((ins[1] \div 1) % 256) * 1
    BY <2>2, Zenon DEF LiesAt
  <2>4. WellFormedFields(svc_t1)
    <3>1. IsFiniteSet({"imm8"})
      BY FS_Singleton
    <3>2. WellFormed(svc_t1.fields["imm8"])
      BY <2>2 DEF LiesAt
    <3>3. QED
      BY <2>1, <3>1, <3>2, SMT DEF WellFormedFields
  <2>5. PlacedIn(svc_t1, ins, 1) = ((ins[1] \div 1) % 256) * 1
    BY <2>1, <2>3, <2>4, PlacedOne, SMT
  <2>6. ins[1] = 57088 + PlacedIn(svc_t1, ins, 1)
    BY <1>7, <1>10, <2>5, SMT
  <2>7. \A h \in DOMAIN ins : ins[h] = svc_t1.base[h] + PlacedIn(svc_t1, ins, h)
    BY <2>1, <2>6, SMT
  <2>8. QED
    BY <2>1, <2>7, MatchIsPlaced, SMT
<1>11. QED
  BY <1>8, <1>9, <1>10, Zenon

LEMMA IsWideBorder ==
    ASSUME NEW w, w[1] \in Nat, w[1] <= Top
    PROVE  IsWide(w) <=> w[1] >= Border
<1> DEFINE x == w[1]
<1>1. 2^13 = 8192 /\ 2^3 = 8 /\ 2^11 = 2048 /\ 2^2 = 4
  BY SMT
<1>2. Extract(x, 13, 3) = (x \div 8192) % 8 /\ Extract(x, 11, 2) = (x \div 2048) % 4
  <2> HIDE DEF x
  <2>1. QED
    BY <1>1, SMT DEF Extract
<1>3. x \in Nat /\ x <= 65535
  BY SMT DEF Top
<1>4. IsWide(w) <=> (Extract(x, 13, 3) = 7 /\ Extract(x, 11, 2) # 0)
  BY SMT DEF IsWide
<1> HIDE DEF x
<1>5. ((x \div 8192) % 8 = 7 /\ (x \div 2048) % 4 # 0) <=> x >= 59392
  BY <1>3, TopBits, SMT
<1>6. IsWide(w) <=> x >= 59392
  BY <1>2, <1>4, <1>5, SMT
<1>7. QED
  BY <1>6, SMT DEF Border, x

-----------------------------------------------------------------------------
(***************************************************************************)
(* What the disassembler makes of a word: the order in which it tries the  *)
(* encodings, and the listings that are printed to their end               *)
(***************************************************************************)
LEMMA LoadNotListed ==
    ASSUME NEW ins, Match(ldr_i_t4, ins), DOMAIN ins = {1, 2}, Halfwords(ins),
           ModeOf(Decode(ldr_i_t4, ins)) = "assert"
    PROVE  NeitherBit(ins[1], ins[2])
<1> DEFINE p == Decode(ldr_i_t4, ins)
           a == ins[1]
           b == ins[2]
           t == (b \div 4096) % 16
           u == (b \div 512) % 2
           i == (b \div 1) % 256
<1>0. a \in Int /\ b \in Int
  BY DEF Halfwords
<1>1. p["index"] = (b \div 1024) % 2 /\ p["writeback"] = (b \div 256) % 2
  BY LdrIT4Parts, DecodedAt, SMT
<1>2. p["index"] \in {0, 1} /\ p["writeback"] \in {0, 1}
  <2> HIDE DEF p, b
  <2>1. QED
    BY <1>0, <1>1, SMT
<1>3. p["index"] = 0 /\ p["writeback"] = 0
  <2>1. p.index = p["index"] /\ p.writeback = p["writeback"]
    OBVIOUS
  <2> HIDE DEF p
  <2>2. QED
    BY <1>2, <2>1 DEF ModeOf, p
<1>4. b = 2048 + t * 4096 + ((b \div 1024) % 2) * 1024 + u * 512 + ((b \div 256) % 2) * 256 + i * 1
  BY LdrIT4Matched2, SMT
<1>5. t \in 0 .. 15 /\ u \in 0 .. 1 /\ i \in 0 .. 255
  <2> DEFINE b1 == b \div 4096
             b2 == b \div 512
             b3 == b \div 1
  <2>1. b1 \in Int /\ b2 \in Int /\ b3 \in Int
    <3> HIDE DEF b
    <3>1. QED
      BY <1>0, SMT
  <2>2. t = b1 % 16 /\ u = b2 % 2 /\ i = b3 % 256
    OBVIOUS
  <2> HIDE DEF b1, b2, b3, t, u, i
  <2>3. QED
    BY <2>1, <2>2, Remainders, Zenon
<1>6. a = 63568 + ((a \div 1) % 16) * 1
  BY LdrIT4Matched1, SMT
<1>7. 63568 <= a /\ a <= 63583
  <2> HIDE DEF a
  <2>1. QED
    BY <1>0, <1>6, SMT
<1>8. b = 2048 + t * 4096 + u * 512 + i
  <2> HIDE DEF p, b
  <2>1. (b \div 1024) % 2 = 0 /\ (b \div 256) % 2 = 0
    BY <1>1, <1>3, SMT
  <2> HIDE DEF t, u, i
  <2>2. QED
    BY <1>4, <1>5, <2>1, SMT
<1>9. QED
  <2> HIDE DEF p, a, b, t, u, i
  <2>1. LowerOfNeither(b, t, u, i)
    BY <1>5, <1>8, SMT DEF LowerOfNeither
  <2>2. NeitherBit(a, b)
    BY <1>7, <2>1, NeitherBitIs, SMT
  <2>3. QED
    BY <2>2, Zenon DEF a, b

LEMMA FirstMatch ==
    ASSUME NEW Q, NEW q \in Seq(Q), NEW ins, NEW i,
           i = SelectInSeq(q, LAMBDA e : Match(e, ins)), i # 0
    PROVE  /\ i \in 1 .. Len(q) /\ Match(q[i], ins)
           /\ \A j \in 1 .. Len(q) : Match(q[j], ins) => i <= j
<1> DEFINE I == {j \in 1 .. Len(q) : Match(q[j], ins)}
<1>1. i = IF I # {} THEN Min(I) ELSE 0
  BY DEF SelectInSeq
<1>2. I \in SUBSET Nat
  OBVIOUS
<1> HIDE DEF I
<1>3. I # {} /\ i = Min(I)
  BY <1>1
<1>4. \E k \in I : \A j \in I : k <= j
  BY <1>2, <1>3, Least
<1>5. i \in I /\ \A j \in I : i <= j
  BY <1>3, <1>4 DEF Min
<1>6. QED
  BY <1>5 DEF I

LEMMA WideNames ==
    /\ udf_t2.name = "udf_t2"
    /\ nop_t2.name = "nop_t2"
    /\ movw_i_t3.name = "movw_i_t3"
    /\ mov_r_t3_opt_s.name = "mov_r_t3_opt_s"
    /\ b_t4.name = "b_t4"
    /\ b_cond_t3_noit.name = "b_cond_t3_noit"
    /\ ldr_i_t3.name = "ldr_i_t3"
    /\ ldr_i_t4.name = "ldr_i_t4"
    /\ ldr_lit_t2.name = "ldr_lit_t2"
    /\ ldr_r_t2_lsl.name = "ldr_r_t2_lsl"
    /\ bl_t1.name = "bl_t1"
    /\ pop_t2.name = "pop_t2"
    /\ pop_t3.name = "pop_t3"
    /\ push_t2.name = "push_t2"
    /\ push_t3.name = "push_t3"
    /\ addw_i_t4.name = "addw_i_t4"
    /\ subw_i_t4.name = "subw_i_t4"
<1>1. udf_t2.name = "udf_t2"
  BY DEF udf_t2, Encoding
<1>2. nop_t2.name = "nop_t2"
  BY DEF nop_t2, Encoding
<1>3. movw_i_t3.name = "movw_i_t3"
  BY DEF movw_i_t3, Encoding
<1>4. mov_r_t3_opt_s.name = "mov_r_t3_opt_s"
  BY DEF mov_r_t3_opt_s, Encoding
<1>5. b_t4.name = "b_t4"
  BY DEF b_t4, Encoding
<1>6. b_cond_t3_noit.name = "b_cond_t3_noit"
  BY DEF b_cond_t3_noit, Encoding
<1>7. ldr_i_t3.name = "ldr_i_t3"
  BY DEF ldr_i_t3, Encoding
<1>8. ldr_i_t4.name = "ldr_i_t4"
  BY DEF ldr_i_t4, Encoding
<1>9. ldr_lit_t2.name = "ldr_lit_t2"
  BY DEF ldr_lit_t2, Encoding
<1>10. ldr_r_t2_lsl.name = "ldr_r_t2_lsl"
  BY DEF ldr_r_t2_lsl, Encoding
<1>11. bl_t1.name = "bl_t1"
  BY DEF bl_t1, Encoding
<1>12. pop_t2.name = "pop_t2"
  BY DEF pop_t2, Encoding
<1>13. pop_t3.name = "pop_t3"
  BY DEF pop_t3, Encoding
<1>14. push_t2.name = "push_t2"
  BY DEF push_t2, Encoding
<1>15. push_t3.name = "push_t3"
  BY DEF push_t3, Encoding
<1>16. addw_i_t4.name = "addw_i_t4"
  BY DEF addw_i_t4, Encoding
<1>17. subw_i_t4.name = "subw_i_t4"
  BY DEF subw_i_t4, Encoding
<1>18. QED
  BY <1>1, <1>2, <1>3, <1>4, <1>5, <1>6, <1>7, <1>8, <1>9, <1>10, <1>11, <1>12, <1>13,
     <1>14, <1>15, <1>16, <1>17, Zenon

LEMMA NarrowNames ==
    /\ udf_t1.name = "udf_t1"
    /\ bkpt_t1.name = "bkpt_t1"
    /\ nop_t1.name = "nop_t1"
    /\ movs_i_t1.name = "movs_i_t1"
    /\ mov_r_t1.name = "mov_r_t1"
    /\ movs_r_t2_noit.name = "movs_r_t2_noit"
    /\ bx_t1.name = "bx_t1"
    /\ svc_t1.name = "svc_t1"
    /\ b_t2.name = "b_t2"
    /\ b_cond_t1_noit.name = "b_cond_t1_noit"
    /\ ldr_i_t1.name = "ldr_i_t1"
    /\ ldr_i_t2_sponly.name = "ldr_i_t2_sponly"
    /\ ldr_lit_t1.name = "ldr_lit_t1"
    /\ ldr_r_t1.name = "ldr_r_t1"
    /\ blx_t1.name = "blx_t1"
    /\ pop_t1.name = "pop_t1"
    /\ push_t1.name = "push_t1"
    /\ cmp_i_t1.name = "cmp_i_t1"
    /\ cmp_r_t1.name = "cmp_r_t1"
    /\ cmp_r_t2.name = "cmp_r_t2"
    /\ adds_i_t1.name = "adds_i_t1"
    /\ adds_i_t2.name = "adds_i_t2"
    /\ adds_r_t1.name = "adds_r_t1"
    /\ add_r_t2.name = "add_r_t2"
    /\ subs_i_t1.name = "subs_i_t1"
    /\ subs_i_t2.name = "subs_i_t2"
    /\ subs_r_t1.name = "subs_r_t1"
<1>1. udf_t1.name = "udf_t1"
  BY DEF udf_t1, Encoding
<1>2. bkpt_t1.name = "bkpt_t1"
  BY DEF bkpt_t1, Encoding
<1>3. nop_t1.name = "nop_t1"
  BY DEF nop_t1, Encoding
<1>4. movs_i_t1.name = "movs_i_t1"
  BY DEF movs_i_t1, Encoding
<1>5. mov_r_t1.name = "mov_r_t1"
  BY DEF mov_r_t1, Encoding
<1>6. movs_r_t2_noit.name = "movs_r_t2_noit"
  BY DEF movs_r_t2_noit, Encoding
<1>7. bx_t1.name = "bx_t1"
  BY DEF bx_t1, Encoding
<1>8. svc_t1.name = "svc_t1"
  BY DEF svc_t1, Encoding
<1>9. b_t2.name = "b_t2"
  BY DEF b_t2, Encoding
<1>10. b_cond_t1_noit.name = "b_cond_t1_noit"
  BY DEF b_cond_t1_noit, Encoding
<1>11. ldr_i_t1.name = "ldr_i_t1"
  BY DEF ldr_i_t1, Encoding
<1>12. ldr_i_t2_sponly.name = "ldr_i_t2_sponly"
  BY DEF ldr_i_t2_sponly, Encoding
<1>13. ldr_lit_t1.name = "ldr_lit_t1"
  BY DEF ldr_lit_t1, Encoding
<1>14. ldr_r_t1.name = "ldr_r_t1"
  BY DEF ldr_r_t1, Encoding
<1>15. blx_t1.name = "blx_t1"
  BY DEF blx_t1, Encoding
<1>16. pop_t1.name = "pop_t1"
  BY DEF pop_t1, Encoding
<1>17. push_t1.name = "push_t1"
  BY DEF push_t1, Encoding
<1>18. cmp_i_t1.name = "cmp_i_t1"
  BY DEF cmp_i_t1, Encoding
<1>19. cmp_r_t1.name = "cmp_r_t1"
  BY DEF cmp_r_t1, Encoding
<1>20. cmp_r_t2.name = "cmp_r_t2"
  BY DEF cmp_r_t2, Encoding
<1>21. adds_i_t1.name = "adds_i_t1"
  BY DEF adds_i_t1, Encoding
<1>22. adds_i_t2.name = "adds_i_t2"
  BY DEF adds_i_t2, Encoding
<1>23. adds_r_t1.name = "adds_r_t1"
  BY DEF adds_r_t1, Encoding
<1>24. add_r_t2.name = "add_r_t2"
  BY DEF add_r_t2, Encoding
<1>25. subs_i_t1.name = "subs_i_t1"
  BY DEF subs_i_t1, Encoding
<1>26. subs_i_t2.name = "subs_i_t2"
  BY DEF subs_i_t2, Encoding
<1>27. subs_r_t1.name = "subs_r_t1"
  BY DEF subs_r_t1, Encoding
<1>28. QED
  BY <1>1, <1>2, <1>3, <1>4, <1>5, <1>6, <1>7, <1>8, <1>9, <1>10, <1>11, <1>12, <1>13,
     <1>14, <1>15, <1>16, <1>17, <1>18, <1>19, <1>20, <1>21, <1>22, <1>23, <1>24, <1>25,
     <1>26, <1>27, Zenon

\* What a listing has for mode and condition, without those of a load and a branch
PlainListing(d) == d.mode \in {"none", "offset"} /\ d.cond = 0

LEMMA WideListed ==
    ASSUME NEW name \in {"udf_t2", "nop_t2", "movw_i_t3", "mov_r_t3_opt_s", "b_t4",
                          "b_cond_t3_noit", "ldr_i_t3", "ldr_i_t4", "ldr_lit_t2",
                          "ldr_r_t2_lsl", "bl_t1", "pop_t2", "pop_t3", "push_t2",
                          "push_t3", "addw_i_t4", "subw_i_t4"},
           NEW p
    PROVE  /\ name \notin {"ldr_i_t4", "b_cond_t3_noit"} => PlainListing(WideListing(name, p))
           /\ name = "ldr_i_t4" => /\ WideListing(name, p).mode = ModeOf(p)
                                   /\ WideListing(name, p).cond = 0
           /\ name = "b_cond_t3_noit" => /\ WideListing(name, p).mode = "none"
                                         /\ WideListing(name, p).cond = p.cond + 1
<1>1. name = "udf_t2" => PlainListing(WideListing(name, p))
  BY DEF WideListing, Plain, Load, Ins, PlainListing
<1>2. name = "nop_t2" => PlainListing(WideListing(name, p))
  BY DEF WideListing, Plain, Load, Ins, PlainListing
<1>3. name = "movw_i_t3" => PlainListing(WideListing(name, p))
  BY DEF WideListing, Plain, Load, Ins, PlainListing
<1>4. name = "mov_r_t3_opt_s" => PlainListing(WideListing(name, p))
  BY DEF WideListing, Plain, Load, Ins, PlainListing
<1>5. name = "b_t4" => PlainListing(WideListing(name, p))
  BY DEF WideListing, Plain, Load, Ins, PlainListing
<1>6. name = "b_cond_t3_noit" => WideListing(name, p).mode = "none" /\ WideListing(name, p).cond = p.cond + 1
  BY DEF WideListing, Plain, Load, Ins, PlainListing
<1>7. name = "ldr_i_t3" => PlainListing(WideListing(name, p))
  BY DEF WideListing, Plain, Load, Ins, PlainListing
<1>8. name = "ldr_i_t4" => WideListing(name, p).mode = ModeOf(p) /\ WideListing(name, p).cond = 0
  BY DEF WideListing, Plain, Load, Ins, PlainListing
<1>9. name = "ldr_lit_t2" => PlainListing(WideListing(name, p))
  BY DEF WideListing, Plain, Load, Ins, PlainListing
<1>10. name = "ldr_r_t2_lsl" => PlainListing(WideListing(name, p))
  BY DEF WideListing, Plain, Load, Ins, PlainListing
<1>11. name = "bl_t1" => PlainListing(WideListing(name, p))
  BY DEF WideListing, Plain, Load, Ins, PlainListing
<1>12. name = "pop_t2" => PlainListing(WideListing(name, p))
  BY DEF WideListing, Plain, Load, Ins, PlainListing
<1>13. name = "pop_t3" => PlainListing(WideListing(name, p))
  BY DEF WideListing, Plain, Load, Ins, PlainListing
<1>14. name = "push_t2" => PlainListing(WideListing(name, p))
  BY DEF WideListing, Plain, Load, Ins, PlainListing
<1>15. name = "push_t3" => PlainListing(WideListing(name, p))
  BY DEF WideListing, Plain, Load, Ins, PlainListing
<1>16. name = "addw_i_t4" => PlainListing(WideListing(name, p))
  BY DEF WideListing, Plain, Load, Ins, PlainListing
<1>17. name = "subw_i_t4" => PlainListing(WideListing(name, p))
  BY DEF WideListing, Plain, Load, Ins, PlainListing
<1>18. QED
  BY <1>1, <1>2, <1>3, <1>4, <1>5, <1>6, <1>7, <1>8, <1>9, <1>10, <1>11, <1>12, <1>13,
     <1>14, <1>15, <1>16, <1>17

LEMMA NarrowListed ==
    ASSUME NEW name \in {"udf_t1", "bkpt_t1", "nop_t1", "movs_i_t1", "mov_r_t1",
                          "movs_r_t2_noit", "bx_t1", "svc_t1", "b_t2", "b_cond_t1_noit",
                          "ldr_i_t1", "ldr_i_t2_sponly", "ldr_lit_t1", "ldr_r_t1",
                          "blx_t1", "pop_t1", "push_t1", "cmp_i_t1", "cmp_r_t1",
                          "cmp_r_t2", "adds_i_t1", "adds_i_t2", "adds_r_t1", "add_r_t2",
                          "subs_i_t1", "subs_i_t2", "subs_r_t1"},
           NEW p
    PROVE  /\ name # "b_cond_t1_noit" => PlainListing(NarrowListing(name, p))
           /\ name = "b_cond_t1_noit" => /\ NarrowListing(name, p).mode = "none"
                                         /\ NarrowListing(name, p).cond = p.cond + 1
<1>1. name = "udf_t1" => PlainListing(NarrowListing(name, p))
  BY DEF NarrowListing, Plain, Load, Ins, PlainListing
<1>2. name = "bkpt_t1" => PlainListing(NarrowListing(name, p))
  BY DEF NarrowListing, Plain, Load, Ins, PlainListing
<1>3. name = "nop_t1" => PlainListing(NarrowListing(name, p))
  BY DEF NarrowListing, Plain, Load, Ins, PlainListing
<1>4. name = "movs_i_t1" => PlainListing(NarrowListing(name, p))
  BY DEF NarrowListing, Plain, Load, Ins, PlainListing
<1>5. name = "mov_r_t1" => PlainListing(NarrowListing(name, p))
  BY DEF NarrowListing, Plain, Load, Ins, PlainListing
<1>6. name = "movs_r_t2_noit" => PlainListing(NarrowListing(name, p))
  BY DEF NarrowListing, Plain, Load, Ins, PlainListing
<1>7. name = "bx_t1" => PlainListing(NarrowListing(name, p))
  BY DEF NarrowListing, Plain, Load, Ins, PlainListing
<1>8. name = "svc_t1" => PlainListing(NarrowListing(name, p))
  BY DEF NarrowListing, Plain, Load, Ins, PlainListing
<1>9. name = "b_t2" => PlainListing(NarrowListing(name, p))
  BY DEF NarrowListing, Plain, Load, Ins, PlainListing
<1>10. name = "b_cond_t1_noit" => NarrowListing(name, p).mode = "none" /\ NarrowListing(name, p).cond = p.cond + 1
  BY DEF NarrowListing, Plain, Load, Ins, PlainListing
<1>11. name = "ldr_i_t1" => PlainListing(NarrowListing(name, p))
  BY DEF NarrowListing, Plain, Load, Ins, PlainListing
<1>12. name = "ldr_i_t2_sponly" => PlainListing(NarrowListing(name, p))
  BY DEF NarrowListing, Plain, Load, Ins, PlainListing
<1>13. name = "ldr_lit_t1" => PlainListing(NarrowListing(name, p))
  BY DEF NarrowListing, Plain, Load, Ins, PlainListing
<1>14. name = "ldr_r_t1" => PlainListing(NarrowListing(name, p))
  BY DEF NarrowListing, Plain, Load, Ins, PlainListing
<1>15. name = "blx_t1" => PlainListing(NarrowListing(name, p))
  BY DEF NarrowListing, Plain, Load, Ins, PlainListing
<1>16. name = "pop_t1" => PlainListing(NarrowListing(name, p))
  BY DEF NarrowListing, Plain, Load, Ins, PlainListing
<1>17. name = "push_t1" => PlainListing(NarrowListing(name, p))
  BY DEF NarrowListing, Plain, Load, Ins, PlainListing
<1>18. name = "cmp_i_t1" => PlainListing(NarrowListing(name, p))
  BY DEF NarrowListing, Plain, Load, Ins, PlainListing
<1>19. name = "cmp_r_t1" => PlainListing(NarrowListing(name, p))
  BY DEF NarrowListing, Plain, Load, Ins, PlainListing
<1>20. name = "cmp_r_t2" => PlainListing(NarrowListing(name, p))
  BY DEF NarrowListing, Plain, Load, Ins, PlainListing
<1>21. name = "adds_i_t1" => PlainListing(NarrowListing(name, p))
  BY DEF NarrowListing, Plain, Load, Ins, PlainListing
<1>22. name = "adds_i_t2" => PlainListing(NarrowListing(name, p))
  BY DEF NarrowListing, Plain, Load, Ins, PlainListing
<1>23. name = "adds_r_t1" => PlainListing(NarrowListing(name, p))
  BY DEF NarrowListing, Plain, Load, Ins, PlainListing
<1>24. name = "add_r_t2" => PlainListing(NarrowListing(name, p))
  BY DEF NarrowListing, Plain, Load, Ins, PlainListing
<1>25. name = "subs_i_t1" => PlainListing(NarrowListing(name, p))
  BY DEF NarrowListing, Plain, Load, Ins, PlainListing
<1>26. name = "subs_i_t2" => PlainListing(NarrowListing(name, p))
  BY DEF NarrowListing, Plain, Load, Ins, PlainListing
<1>27. name = "subs_r_t1" => PlainListing(NarrowListing(name, p))
  BY DEF NarrowListing, Plain, Load, Ins, PlainListing
<1>28. QED
  BY <1>1, <1>2, <1>3, <1>4, <1>5, <1>6, <1>7, <1>8, <1>9, <1>10, <1>11, <1>12, <1>13,
     <1>14, <1>15, <1>16, <1>17, <1>18, <1>19, <1>20, <1>21, <1>22, <1>23, <1>24, <1>25,
     <1>26, <1>27

WideOnes ==
    {udf_t2, nop_t2, movw_i_t3, mov_r_t3_opt_s, b_t4, b_cond_t3_noit, ldr_i_t3, ldr_i_t4,
     ldr_lit_t2, ldr_r_t2_lsl, bl_t1, pop_t2, pop_t3, push_t2, push_t3, addw_i_t4, subw_i_t4}

NarrowOnes ==
    {udf_t1, bkpt_t1, nop_t1, movs_i_t1, mov_r_t1, movs_r_t2_noit, bx_t1, svc_t1, b_t2,
     b_cond_t1_noit, ldr_i_t1, ldr_i_t2_sponly, ldr_lit_t1, ldr_r_t1, blx_t1, pop_t1,
     push_t1, cmp_i_t1, cmp_r_t1, cmp_r_t2, adds_i_t1, adds_i_t2, adds_r_t1, add_r_t2,
     subs_i_t1, subs_i_t2, subs_r_t1}

LEMMA Orders ==
    /\ WideOrder \in Seq(WideOnes) /\ WideOrder[1] = udf_t2 /\ 1 \in 1 .. Len(WideOrder)
    /\ NarrowOrder \in Seq(NarrowOnes) /\ NarrowOrder[8] = svc_t1 /\ 8 \in 1 .. Len(NarrowOrder)
    /\ \A j \in 1 .. 8 : NarrowOrder[j].name # "b_cond_t1_noit"
<1>1. WideOrder \in Seq(WideOnes)
  BY DEF WideOrder, WideOnes
<1>2. NarrowOrder \in Seq(NarrowOnes)
  BY DEF NarrowOrder, NarrowOnes
<1>3. WideOrder[1] = udf_t2 /\ Len(WideOrder) = 17
  BY DEF WideOrder
<1>4. NarrowOrder[8] = svc_t1 /\ Len(NarrowOrder) = 27
  BY DEF NarrowOrder
<1>5. /\ NarrowOrder[1] = udf_t1 /\ NarrowOrder[2] = bkpt_t1 /\ NarrowOrder[3] = nop_t1
      /\ NarrowOrder[4] = movs_i_t1 /\ NarrowOrder[5] = mov_r_t1
      /\ NarrowOrder[6] = movs_r_t2_noit /\ NarrowOrder[7] = bx_t1
  BY DEF NarrowOrder
<1>6. \A j \in 1 .. 8 : \/ j = 1 \/ j = 2 \/ j = 3 \/ j = 4 \/ j = 5 \/ j = 6 \/ j = 7 \/ j = 8
  OBVIOUS
<1>7. \A j \in 1 .. 8 : NarrowOrder[j].name # "b_cond_t1_noit"
  BY <1>4, <1>5, <1>6, NarrowNames
<1>8. QED
  BY <1>1, <1>2, <1>3, <1>4, <1>7

\* It is printed to its end.
Printable(d) == d.mode # "assert" /\ d.cond <= 15

LEMMA PlainIsPrintable == \A d : PlainListing(d) => Printable(d)
  BY DEF PlainListing, Printable

LEMMA PrintedWide ==
    ASSUME NEW w, Len(w) = 2, DOMAIN w = {1, 2}, Halfwords(w), IsWide(w),
           ~NeitherBit(w[1], w[2]), NoCond(w[1], w[2]) => Match(udf_t2, w)
    PROVE  Printable(Disassembled(w))
<1> DEFINE i == SelectInSeq(WideOrder, LAMBDA e : Match(e, w))
           e == WideOrder[i]
           p == Decode(e, w)
<1>1. Disassembled(w) = IF i = 0 THEN Plain("UNKNOWN", "wide", <<>>) ELSE WideListing(e.name, p)
  BY DEF Disassembled
<1>2. CASE i = 0
  <2>1. PlainListing(Plain("UNKNOWN", "wide", <<>>))
    BY DEF Plain, Ins, PlainListing
  <2>2. Disassembled(w) = Plain("UNKNOWN", "wide", <<>>)
    <3> HIDE DEF i, p
    <3>1. QED
      BY <1>1, <1>2
  <2>3. QED
    BY <2>1, <2>2, PlainIsPrintable
<1>3. CASE i # 0
  <2>1. /\ i \in 1 .. Len(WideOrder) /\ Match(WideOrder[i], w)
        /\ \A j \in 1 .. Len(WideOrder) : Match(WideOrder[j], w) => i <= j
    BY <1>3, Orders, FirstMatch
  <2> HIDE DEF i
  <2>2. Match(e, w)
    BY <2>1
  <2>3. e \in WideOnes
    BY <2>1, Orders
  <2>4. Match(udf_t2, w) => e = udf_t2
    <3>1. Match(udf_t2, w) => i <= 1
      BY <2>1, Orders
    <3>2. QED
      BY <2>1, <3>1, Orders
  <2>5. Disassembled(w) = WideListing(e.name, p)
    BY <1>1, <1>3
  <2> DEFINE name == e.name
             d == WideListing(name, p)
  <2> HIDE DEF e, p
  <2>6. name \in {"udf_t2", "nop_t2", "movw_i_t3", "mov_r_t3_opt_s", "b_t4", "b_cond_t3_noit",
                  "ldr_i_t3", "ldr_i_t4", "ldr_lit_t2", "ldr_r_t2_lsl", "bl_t1", "pop_t2",
                  "pop_t3", "push_t2", "push_t3", "addw_i_t4", "subw_i_t4"}
    BY <2>3, WideNames, Zenon DEF WideOnes
  <2>7. /\ name = "ldr_i_t4" => e = ldr_i_t4
        /\ name = "b_cond_t3_noit" => e = b_cond_t3_noit
    BY <2>3, WideNames DEF WideOnes
  <2> HIDE DEF name
  <2>8. CASE name = "ldr_i_t4"
    <3>1. e = ldr_i_t4 /\ d.mode = ModeOf(p) /\ d.cond = 0
      BY <2>6, <2>7, <2>8, WideListed
    <3>2. ModeOf(p) # "assert"
      BY <2>2, <3>1, LoadNotListed DEF p
    <3>3. QED
      BY <2>5, <3>1, <3>2 DEF Printable, name
  <2>9. CASE name = "b_cond_t3_noit"
    <3>1. e = b_cond_t3_noit /\ d.mode = "none" /\ d.cond = p.cond + 1
      BY <2>6, <2>7, <2>9, WideListed
    <3>2. p["cond"] \in 0 .. 15 /\ (p["cond"] = 15 => NoCond(w[1], w[2]))
      BY <2>2, <3>1, BranchNotListed DEF p
    <3>3. e # udf_t2
      BY <2>9, WideNames DEF name
    <3>4. p["cond"] # 15
      BY <2>4, <3>2, <3>3
    <3>5. p.cond + 1 <= 15
      BY <3>2, <3>4
    <3>6. QED
      BY <2>5, <3>1, <3>5 DEF Printable, name
  <2>10. CASE name \notin {"ldr_i_t4", "b_cond_t3_noit"}
    <3>1. PlainListing(d)
      BY <2>6, <2>10, WideListed
    <3>2. QED
      BY <2>5, <3>1, PlainIsPrintable DEF name
  <2>11. QED
    BY <2>8, <2>9, <2>10
<1>4. QED
  BY <1>2, <1>3

LEMMA PrintedNarrow ==
    ASSUME NEW w, w[1] \in Int, ~IsWide(w)
    PROVE  Printable(Disassembled(w))
<1> DEFINE v == <<w[1]>>
           i == SelectInSeq(NarrowOrder, LAMBDA e : Match(e, v))
           e == NarrowOrder[i]
           p == Decode(e, v)
<1>1. Disassembled(w) = IF i = 0 THEN Plain("UNKNOWN", "narrow", <<>>)
                        ELSE NarrowListing(e.name, p)
  BY DEF Disassembled
<1>v. Len(v) = 1 /\ DOMAIN v = {1} /\ v[1] \in Int
  OBVIOUS
<1> HIDE DEF v
<1>2. CASE i = 0
  <2>1. PlainListing(Plain("UNKNOWN", "narrow", <<>>))
    BY DEF Plain, Ins, PlainListing
  <2>2. Disassembled(w) = Plain("UNKNOWN", "narrow", <<>>)
    <3> HIDE DEF i, p
    <3>1. QED
      BY <1>1, <1>2
  <2>3. QED
    BY <2>1, <2>2, PlainIsPrintable
<1>3. CASE i # 0
  <2>1. /\ i \in 1 .. Len(NarrowOrder) /\ Match(NarrowOrder[i], v)
        /\ \A j \in 1 .. Len(NarrowOrder) : Match(NarrowOrder[j], v) => i <= j
    BY <1>3, Orders, FirstMatch
  <2> HIDE DEF i
  <2>2. Match(e, v)
    BY <2>1
  <2>3. e \in NarrowOnes
    BY <2>1, Orders
  <2>4. Match(svc_t1, v) => e.name # "b_cond_t1_noit"
    <3>1. Match(svc_t1, v) => i <= 8
      BY <2>1, Orders
    <3>2. i <= 8 => i \in 1 .. 8
      BY <2>1, Orders
    <3>3. QED
      BY <3>1, <3>2, Orders
  <2>5. Disassembled(w) = NarrowListing(e.name, p)
    BY <1>1, <1>3
  <2> DEFINE name == e.name
             d == NarrowListing(name, p)
  <2> HIDE DEF e, p
  <2>6. name \in {"udf_t1", "bkpt_t1", "nop_t1", "movs_i_t1", "mov_r_t1", "movs_r_t2_noit",
                  "bx_t1", "svc_t1", "b_t2", "b_cond_t1_noit", "ldr_i_t1", "ldr_i_t2_sponly",
                  "ldr_lit_t1", "ldr_r_t1", "blx_t1", "pop_t1", "push_t1", "cmp_i_t1",
                  "cmp_r_t1", "cmp_r_t2", "adds_i_t1", "adds_i_t2", "adds_r_t1", "add_r_t2",
                  "subs_i_t1", "subs_i_t2", "subs_r_t1"}
    <3>1. e \in {udf_t1, bkpt_t1, nop_t1, movs_i_t1, mov_r_t1, movs_r_t2_noit, bx_t1, svc_t1, b_t2} => name \in {"udf_t1", "bkpt_t1", "nop_t1", "movs_i_t1", "mov_r_t1", "movs_r_t2_noit", "bx_t1", "svc_t1", "b_t2"}
      BY NarrowNames DEF name
    <3>2. e \in {b_cond_t1_noit, ldr_i_t1, ldr_i_t2_sponly, ldr_lit_t1, ldr_r_t1, blx_t1, pop_t1, push_t1, cmp_i_t1} => name \in {"b_cond_t1_noit", "ldr_i_t1", "ldr_i_t2_sponly", "ldr_lit_t1", "ldr_r_t1", "blx_t1", "pop_t1", "push_t1", "cmp_i_t1"}
      BY NarrowNames DEF name
    <3>3. e \in {cmp_r_t1, cmp_r_t2, adds_i_t1, adds_i_t2, adds_r_t1, add_r_t2, subs_i_t1, subs_i_t2, subs_r_t1} => name \in {"cmp_r_t1", "cmp_r_t2", "adds_i_t1", "adds_i_t2", "adds_r_t1", "add_r_t2", "subs_i_t1", "subs_i_t2", "subs_r_t1"}
      BY NarrowNames DEF name
    <3>4. e \in {udf_t1, bkpt_t1, nop_t1, movs_i_t1, mov_r_t1, movs_r_t2_noit, bx_t1, svc_t1, b_t2} \/ e \in {b_cond_t1_noit, ldr_i_t1, ldr_i_t2_sponly, ldr_lit_t1, ldr_r_t1, blx_t1, pop_t1, push_t1, cmp_i_t1} \/ e \in {cmp_r_t1, cmp_r_t2, adds_i_t1, adds_i_t2, adds_r_t1, add_r_t2, subs_i_t1, subs_i_t2, subs_r_t1}
      BY <2>3, Zenon DEF NarrowOnes
    <3> HIDE DEF name
    <3>5. QED
      BY <3>1, <3>2, <3>3, <3>4
  <2>7. name = "b_cond_t1_noit" => e = b_cond_t1_noit
    BY <2>3, NarrowNames DEF NarrowOnes
  <2>8. CASE name = "b_cond_t1_noit"
    <3>1. e = b_cond_t1_noit /\ d.mode = "none" /\ d.cond = p.cond + 1
      BY <2>6, <2>7, <2>8, NarrowListed
    <3>2. p["cond"] \in 0 .. 15 /\ (p["cond"] = 15 => Match(svc_t1, v))
      BY <1>v, <2>2, <3>1, NarrowBranchListed DEF p
    <3>3. p["cond"] # 15
      BY <2>4, <2>8, <3>2 DEF name
    <3>4. p.cond + 1 <= 15
      BY <3>2, <3>3
    <3>5. QED
      BY <2>5, <3>1, <3>4 DEF Printable, name
  <2>9. CASE name # "b_cond_t1_noit"
    <3>1. PlainListing(d)
      BY <2>6, <2>9, NarrowListed
    <3>2. QED
      BY <2>5, <3>1, PlainIsPrintable DEF name
  <2>10. QED
    BY <2>8, <2>9
<1>4. QED
  BY <1>2, <1>3

-----------------------------------------------------------------------------
(***************************************************************************)
(* What thumb_assemble() tries: encodings of the width that was asked for, *)
(* with integers for their parts.                                          *)
(***************************************************************************)
\* Nor does a word that they make, but for far literals, be one of those that
\* are not printed to their end; UDF is matched before the branch is.
Listable(s, a) ==
    a[1] = udf_t2 \/ (~FarLiteral(s) /\ Encode(a[1], a[2]) # <<>> => Quiet(a[1], a[2]))

Good(s, a) ==
    /\ IntegerParts(a[1], a[2])
    /\ \/ Narrow(a[1]) /\ CanBeNarrow(s)
       \/ Wide(a[1]) /\ CanBeWide(s) /\ Listable(s, a)

AllGood(s, q) == \E Q : q \in Seq(Q) /\ \A i \in DOMAIN q : Good(s, q[i])

LEMMA NoneGood == ASSUME NEW s PROVE AllGood(s, <<>>)
<1>1. <<>> \in Seq({}) /\ DOMAIN <<>> = {}
  OBVIOUS
<1>2. QED
  BY <1>1 DEF AllGood

LEMMA OneGood ==
    ASSUME NEW s, NEW e, NEW p, Good(s, <<e, p>>)
    PROVE  AllGood(s, << <<e, p>> >>)
<1> DEFINE a == <<e, p>>
<1>1. Good(s, a)
  OBVIOUS
<1> HIDE DEF a
<1>2. <<a>> \in Seq({a}) /\ \A i \in DOMAIN <<a>> : <<a>>[i] = a
  OBVIOUS
<1>3. AllGood(s, <<a>>)
  BY <1>1, <1>2 DEF AllGood
<1>4. QED
  BY <1>3 DEF a

LEMMA JoinedGood ==
    ASSUME NEW s, NEW q, NEW r, AllGood(s, q), AllGood(s, r)
    PROVE  AllGood(s, q \o r)
<1>1. PICK Q : q \in Seq(Q) /\ \A i \in DOMAIN q : Good(s, q[i])
  BY DEF AllGood
<1>2. PICK R1 : r \in Seq(R1) /\ \A i \in DOMAIN r : Good(s, r[i])
  BY DEF AllGood
<1>3. q \in Seq(Q \cup R1) /\ r \in Seq(Q \cup R1)
  BY <1>1, <1>2
<1>4. q \o r \in Seq(Q \cup R1)
  BY <1>3
<1>5. ASSUME NEW i \in DOMAIN (q \o r)
      PROVE  Good(s, (q \o r)[i])
  <2>1. Len(q) \in Nat /\ Len(r) \in Nat /\ i \in 1 .. Len(q) + Len(r)
    BY <1>3
  <2>2. (q \o r)[i] = IF i <= Len(q) THEN q[i] ELSE r[i - Len(q)]
    BY <1>3, <2>1
  <2>3. CASE i <= Len(q)
    BY <1>1, <2>1, <2>2, <2>3
  <2>4. CASE ~(i <= Len(q))
    <3>1. i - Len(q) \in DOMAIN r
      BY <1>3, <2>1, <2>4
    <3>2. QED
      BY <1>2, <2>2, <2>4, <3>1
  <2>5. QED
    BY <2>3, <2>4
<1>6. QED
  BY <1>4, <1>5 DEF AllGood

LEMMA TwoGood ==
    ASSUME NEW s, NEW a, NEW b, Good(s, a), Good(s, b)
    PROVE  AllGood(s, <<a, b>>)
<1>1. <<a, b>> \in Seq({a, b}) /\ DOMAIN <<a, b>> = {1, 2}
  OBVIOUS
<1>2. <<a, b>>[1] = a /\ <<a, b>>[2] = b
  OBVIOUS
<1>3. \A i \in {1, 2} : Good(s, <<a, b>>[i])
  BY <1>2
<1>4. QED
  BY <1>1, <1>3 DEF AllGood

LEMMA NarrowTry ==
    ASSUME NEW s, NEW e, NEW p, CanBeNarrow(s), Narrow(e), IntegerParts(e, p)
    PROVE  AllGood(s, << <<e, p>> >>)
<1>1. Good(s, <<e, p>>)
  BY DEF Good
<1>2. QED
  BY <1>1, OneGood

LEMMA QuietTry ==
    ASSUME NEW s, NEW e, NEW p, CanBeWide(s), Wide(e), IntegerParts(e, p),
           ~FarLiteral(s) /\ Encode(e, p) # <<>> => Quiet(e, p)
    PROVE  AllGood(s, << <<e, p>> >>)
<1>1. Good(s, <<e, p>>)
  BY DEF Good, Listable
<1>2. QED
  BY <1>1, OneGood

\* Most wide encodings make no such word of any parts.
Harmless(e) == e = udf_t2 \/ \A p : IntegerParts(e, p) => Quiet(e, p)

LEMMA HarmlessEncodings ==
    /\ Harmless(addw_i_t4) /\ Harmless(subw_i_t4) /\ Harmless(movw_i_t3)
    /\ Harmless(b_t4) /\ Harmless(bl_t1) /\ Harmless(ldr_i_t3) /\ Harmless(ldr_r_t2_lsl)
    /\ Harmless(mov_r_t3_opt_s) /\ Harmless(nop_t2) /\ Harmless(pop_t2)
    /\ Harmless(pop_t3) /\ Harmless(push_t2) /\ Harmless(push_t3) /\ Harmless(udf_t2)
  BY QuietByFirst, QuietBySecond, QuietBranches, LdrRT2LslQuiet, PopT3Quiet DEF Harmless

LEMMA WideTry ==
    ASSUME NEW s, NEW e, NEW p, CanBeWide(s), Wide(e), IntegerParts(e, p), Harmless(e)
    PROVE  AllGood(s, << <<e, p>> >>)
<1>1. Good(s, <<e, p>>)
  BY DEF Good, Listable, Harmless
<1>2. QED
  BY <1>1, OneGood

\* What the menus ask for, as far as the encodings' parts are integers for it
OneNumber == {"B", "BKPT", "BL", "BLX", "BX", "SVC", "UDF"}

Mnemonics ==
    OneNumber \cup {"ADD", "ADDS", "ADDW", "CMP", "LDR", "NOP", "MOV", "MOVS", "MOVW", "POP",
                    "PUSH", "SUB", "SUBS", "SUBW"}

Kinds == {"reg", "imm", "simm", "list", "lsl"}

WellTyped(s) ==
    /\ s.mnemonic \in Mnemonics
    /\ s.width \in Widths
    /\ s.cond \in 0 .. 15
    /\ s.operands \in Seq(Kinds \X Int)
    /\ s.mnemonic \in OneNumber => Len(s.operands) = 1

LEMMA Arguments ==
    ASSUME NEW s, WellTyped(s), NEW i \in 1 .. Len(s.operands)
    PROVE  Arg(s, i) \in Int /\ RegArg(s, i) \in Int
<1>1. s.operands[i] \in Kinds \X Int
  BY DEF WellTyped
<1>2. Arg(s, i) \in Int
  BY <1>1 DEF Arg
<1>3. 2^8 = 256
  OBVIOUS
<1>4. RegArg(s, i) = Arg(s, i) % 256
  BY <1>3 DEF RegArg
<1>5. QED
  BY <1>2, <1>4

LEMMA Lengths ==
    ASSUME NEW s, WellTyped(s)
    PROVE  /\ Types(s) \in {RRR, RRI, <<"reg", "reg", "simm">>} => Len(s.operands) = 3
           /\ Types(s) \in {<<"reg", "imm">>, <<"reg", "reg">>} => Len(s.operands) = 2
           /\ Types(s) = <<"list">> => Len(s.operands) = 1
           /\ Types(s) = RRR \o <<"lsl">> => Len(s.operands) = 4
<1>1. DOMAIN Types(s) = 1 .. Len(s.operands) /\ Len(s.operands) \in Nat
  BY DEF Types, WellTyped
<1>2. /\ DOMAIN RRR = 1 .. 3 /\ DOMAIN RRI = 1 .. 3 /\ DOMAIN <<"reg", "reg", "simm">> = 1 .. 3
      /\ DOMAIN <<"reg", "imm">> = 1 .. 2 /\ DOMAIN <<"reg", "reg">> = 1 .. 2
      /\ DOMAIN <<"list">> = 1 .. 1
  BY DEF RRR, RRI
<1>3. DOMAIN (RRR \o <<"lsl">>) = 1 .. 4
  <2> DEFINE S == {"reg", "lsl"}
             u == <<"lsl">>
  <2>1. RRR \in Seq(S) /\ u \in Seq(S) /\ Len(RRR) = 3 /\ Len(u) = 1
    BY DEF RRR
  <2> HIDE DEF S, u
  <2>2. RRR \o u \in Seq(S) /\ Len(RRR \o u) = Len(RRR) + Len(u)
    BY <2>1, ConcatProperties, Zenon
  <2>3. DOMAIN (RRR \o u) = 1 .. 4
    BY <2>1, <2>2
  <2>4. QED
    BY <2>3 DEF u
<1>4. \A m, n \in Nat : 1 .. m = 1 .. n => m = n
  OBVIOUS
<1> DEFINE t == Types(s)
           n == Len(s.operands)
<1>5. DOMAIN t = 1 .. n /\ n \in Nat
  BY <1>1
<1>6. 1 \in Nat /\ 2 \in Nat /\ 3 \in Nat /\ 4 \in Nat
  OBVIOUS
<1> HIDE DEF t, n
<1>7. /\ t \in {RRR, RRI, <<"reg", "reg", "simm">>} => n = 3
      /\ t \in {<<"reg", "imm">>, <<"reg", "reg">>} => n = 2
      /\ t = <<"list">> => n = 1
      /\ t = RRR \o <<"lsl">> => n = 4
  BY <1>2, <1>3, <1>4, <1>5, <1>6, Zenon
<1>8. QED
  BY <1>7 DEF t, n

\* The arguments are integers when the types are as a command wants them.
LEMMA ThreeArguments ==
    ASSUME NEW s, WellTyped(s), Len(s.operands) \in {3, 4}
    PROVE  /\ RegArg(s, 1) \in Int /\ RegArg(s, 2) \in Int /\ RegArg(s, 3) \in Int
           /\ Arg(s, 3) \in Int
<1>1. 1 \in 1 .. Len(s.operands) /\ 2 \in 1 .. Len(s.operands) /\ 3 \in 1 .. Len(s.operands)
  <2>1. CASE Len(s.operands) = 3
    BY <2>1
  <2>2. CASE Len(s.operands) = 4
    BY <2>2
  <2>3. QED
    BY <2>1, <2>2
<1>2. QED
  BY <1>1, Arguments

LEMMA TwoArguments ==
    ASSUME NEW s, WellTyped(s), Len(s.operands) = 2
    PROVE  /\ RegArg(s, 1) \in Int /\ RegArg(s, 2) \in Int
           /\ Arg(s, 1) \in Int /\ Arg(s, 2) \in Int
<1>1. 1 \in 1 .. Len(s.operands) /\ 2 \in 1 .. Len(s.operands)
  OBVIOUS
<1>2. QED
  BY <1>1, Arguments

LEMMA OneArgument ==
    ASSUME NEW s, WellTyped(s), Len(s.operands) = 1
    PROVE  Arg(s, 1) \in Int
  BY Arguments

-----------------------------------------------------------------------------
(***************************************************************************)
(* The commands, one by one                                                *)
(***************************************************************************)
LEMMA WideImmediateGood ==
    ASSUME NEW s, WellTyped(s), NEW e \in {addw_i_t4, subw_i_t4}
    PROVE  AllGood(s, WideImmediate(s, e))
<1> DEFINE p == [Rd |-> RegArg(s, 1), Rn |-> RegArg(s, 2), imm12 |-> Arg(s, 3)]
<1>1. ASSUME Types(s) = RRI, CanBeWide(s)
      PROVE  AllGood(s, << <<e, p>> >>)
  <2>1. RegArg(s, 1) \in Int /\ RegArg(s, 2) \in Int /\ Arg(s, 3) \in Int
    BY <1>1, Lengths, ThreeArguments
  <2>2. Wide(e) /\ IntegerParts(e, p)
    BY <2>1, WideEncodings DEF IntegerParts
  <2>3. QED
    BY <1>1, <2>2, HarmlessEncodings, WideTry
<1>2. QED
  BY <1>1, NoneGood DEF WideImmediate, When

LEMMA AddGood ==
    ASSUME NEW s, WellTyped(s)
    PROVE  AllGood(s, Add(s))
<1> DEFINE p == [Rdn |-> RegArg(s, 1), Rm |-> RegArg(s, 3)]
           q == When(Types(s) = RRR /\ CanBeNarrow(s) /\ RegArg(s, 1) = RegArg(s, 2),
                     << <<add_r_t2, p>> >>)
<1>1. ASSUME Types(s) = RRR, CanBeNarrow(s)
      PROVE  AllGood(s, << <<add_r_t2, p>> >>)
  <2>1. RegArg(s, 1) \in Int /\ RegArg(s, 3) \in Int
    BY <1>1, Lengths, ThreeArguments
  <2>2. Narrow(add_r_t2) /\ IntegerParts(add_r_t2, p)
    BY <2>1, NarrowEncodings DEF IntegerParts
  <2>3. QED
    BY <1>1, <2>2, NarrowTry
<1>2. AllGood(s, q)
  BY <1>1, NoneGood DEF When
<1>3. AllGood(s, WideImmediate(s, addw_i_t4))
  BY WideImmediateGood
<1>4. Add(s) = q \o WideImmediate(s, addw_i_t4)
  BY DEF Add
<1> HIDE DEF q
<1>5. QED
  BY <1>2, <1>3, <1>4, JoinedGood

LEMMA SettingFlagsGood ==
    ASSUME NEW s, WellTyped(s), NEW e1 \in {adds_i_t1, subs_i_t1},
           NEW e2 \in {adds_i_t2, subs_i_t2}, NEW e3 \in {adds_r_t1, subs_r_t1}
    PROVE  AllGood(s, SettingFlags(s, e1, e2, e3))
<1> DEFINE d == RegArg(s, 1)
           n == RegArg(s, 2)
           p1 == [Rd |-> d, Rn |-> n, imm3 |-> Arg(s, 3)]
           p2 == [Rdn |-> d, imm8 |-> Arg(s, 3)]
           p3 == [Rd |-> d, Rn |-> n, Rm |-> RegArg(s, 3)]
           q1 == << <<e1, p1>> >>
           q2 == When(d = n, << <<e2, p2>> >>)
           q3 == << <<e3, p3>> >>
           i == When(Types(s) = RRI /\ CanBeNarrow(s), q1 \o q2)
           r == When(Types(s) = RRR /\ CanBeNarrow(s), q3)
<1>1. ASSUME Types(s) \in {RRI, RRR}, CanBeNarrow(s)
      PROVE  AllGood(s, q1) /\ AllGood(s, q2) /\ AllGood(s, q3)
  <2>1. d \in Int /\ n \in Int /\ RegArg(s, 3) \in Int /\ Arg(s, 3) \in Int
    BY <1>1, Lengths, ThreeArguments
  <2>2. Narrow(e1) /\ Narrow(e2) /\ Narrow(e3)
    BY NarrowEncodings
  <2>3. IntegerParts(e1, p1) /\ IntegerParts(e2, p2) /\ IntegerParts(e3, p3)
    BY <2>1, NarrowEncodings DEF IntegerParts
  <2>4. AllGood(s, << <<e2, p2>> >>)
    BY <1>1, <2>2, <2>3, NarrowTry
  <2>5. QED
    BY <1>1, <2>2, <2>3, <2>4, NarrowTry, NoneGood DEF When
<1>2. SettingFlags(s, e1, e2, e3) = i \o r
  BY DEF SettingFlags
<1>3. ASSUME Types(s) = RRI, CanBeNarrow(s)
      PROVE  AllGood(s, q1 \o q2)
  <2>1. AllGood(s, q1) /\ AllGood(s, q2)
    BY <1>1, <1>3
  <2> HIDE DEF q1, q2
  <2>2. QED
    BY <2>1, JoinedGood
<1>4. AllGood(s, i)
  <2> HIDE DEF q1, q2
  <2>1. QED
    BY <1>3, NoneGood DEF When
<1>5. AllGood(s, r)
  <2> HIDE DEF q3
  <2>1. QED
    BY <1>1, NoneGood DEF When
<1> HIDE DEF i, r
<1>6. QED
  BY <1>2, <1>4, <1>5, JoinedGood

LEMMA BGood ==
    ASSUME NEW s, WellTyped(s), s.mnemonic = "B"
    PROVE  AllGood(s, B(s))
<1> DEFINE label == Arg(s, 1) - 4
           p1 == [simm11 |-> label]
           p2 == [simm25 |-> label]
           p3 == [cond |-> s.cond - 1, simm8 |-> label]
           p4 == [cond |-> s.cond - 1, simm21 |-> label]
           q1 == When(CanBeNarrow(s), << <<b_t2, p1>> >>)
           q2 == When(CanBeWide(s), << <<b_t4, p2>> >>)
           q3 == When(CanBeNarrow(s), << <<b_cond_t1_noit, p3>> >>)
           q4 == When(CanBeWide(s), << <<b_cond_t3_noit, p4>> >>)
<1>1. label \in Int /\ s.cond - 1 \in Int /\ s.cond \in 0 .. 15
  <2>1. Len(s.operands) = 1 /\ s.cond \in 0 .. 15
    BY DEF WellTyped, OneNumber
  <2>2. Arg(s, 1) \in Int
    BY <2>1, OneArgument
  <2>3. QED
    BY <2>1, <2>2
<1>2. /\ IntegerParts(b_t2, p1) /\ IntegerParts(b_t4, p2)
      /\ IntegerParts(b_cond_t1_noit, p3) /\ IntegerParts(b_cond_t3_noit, p4)
  <2> HIDE DEF label
  <2>1. QED
    BY <1>1, NarrowEncodings, WideEncodings DEF IntegerParts
<1>3. B(s) = IF s.cond = 0 THEN q1 \o q2 ELSE q3 \o q4
  BY DEF B
<1>4. s.cond # 0 => Quiet(b_cond_t3_noit, p4)
  <2>1. s.cond # 0 => p4["cond"] \in 0 .. 14
    BY <1>1
  <2> HIDE DEF p4
  <2>2. QED
    BY <1>2, <2>1, BCondT3Quiet
<1> HIDE DEF p1, p2, p3, p4
<1>5. AllGood(s, q1) /\ AllGood(s, q3)
  BY <1>2, NarrowEncodings, NarrowTry, NoneGood DEF When
<1>6. AllGood(s, q2)
  BY <1>2, WideEncodings, HarmlessEncodings, WideTry, NoneGood DEF When
<1>7. s.cond # 0 => AllGood(s, q4)
  BY <1>2, <1>4, WideEncodings, QuietTry, NoneGood DEF When
<1> HIDE DEF q1, q2, q3, q4
<1>8. QED
  BY <1>3, <1>5, <1>6, <1>7, JoinedGood

LEMMA CmpGood ==
    ASSUME NEW s, WellTyped(s)
    PROVE  AllGood(s, Cmp(s))
<1> DEFINE n == RegArg(s, 1)
           p1 == [Rn |-> n, imm8 |-> Arg(s, 2)]
           p2 == [Rn |-> n, Rm |-> RegArg(s, 2)]
           q1 == When(Types(s) = <<"reg", "imm">> /\ CanBeNarrow(s), << <<cmp_i_t1, p1>> >>)
           q2 == When(Types(s) = <<"reg", "reg">> /\ CanBeNarrow(s),
                      << <<cmp_r_t1, p2>>, <<cmp_r_t2, p2>> >>)
<1>1. ASSUME Types(s) \in {<<"reg", "imm">>, <<"reg", "reg">>}
      PROVE  /\ IntegerParts(cmp_i_t1, p1) /\ IntegerParts(cmp_r_t1, p2)
             /\ IntegerParts(cmp_r_t2, p2)
  <2>1. n \in Int /\ RegArg(s, 2) \in Int /\ Arg(s, 2) \in Int
    BY <1>1, Lengths, TwoArguments
  <2> HIDE DEF n
  <2>2. QED
    BY <2>1, NarrowEncodings DEF IntegerParts
<1>2. Cmp(s) = q1 \o q2
  BY DEF Cmp
<1> HIDE DEF p1, p2
<1>3. AllGood(s, q1)
  BY <1>1, NarrowEncodings, NarrowTry, NoneGood DEF When
<1>4. AllGood(s, q2)
  <2>1. ASSUME Types(s) = <<"reg", "reg">>, CanBeNarrow(s)
        PROVE  AllGood(s, << <<cmp_r_t1, p2>>, <<cmp_r_t2, p2>> >>)
    <3>1. Good(s, <<cmp_r_t1, p2>>) /\ Good(s, <<cmp_r_t2, p2>>)
      BY <1>1, <2>1, NarrowEncodings DEF Good
    <3>2. QED
      BY <3>1, TwoGood
  <2>2. QED
    BY <2>1, NoneGood DEF When
<1> HIDE DEF q1, q2
<1>5. QED
  BY <1>2, <1>3, <1>4, JoinedGood

LEMMA LdrRegisterGood ==
    ASSUME NEW s, WellTyped(s)
    PROVE  AllGood(s, LdrRegister(s))
<1> DEFINE shift == IF Len(s.operands) = 4 THEN Arg(s, 4) ELSE 0
           t == RegArg(s, 1)
           n == RegArg(s, 2)
           m == RegArg(s, 3)
           p1 == [Rt |-> t, Rn |-> n, Rm |-> m]
           p2 == [Rt |-> t, Rn |-> n, Rm |-> m, lsl_shift_imm2 |-> shift]
           q1 == When(CanBeNarrow(s) /\ shift = 0, << <<ldr_r_t1, p1>> >>)
           q2 == When(CanBeWide(s), << <<ldr_r_t2_lsl, p2>> >>)
<1>1. ASSUME Types(s) \in {RRR, RRR \o <<"lsl">>}
      PROVE  IntegerParts(ldr_r_t1, p1) /\ IntegerParts(ldr_r_t2_lsl, p2)
  <2>1. Len(s.operands) \in {3, 4}
    BY <1>1, Lengths
  <2>2. t \in Int /\ n \in Int /\ m \in Int
    BY <2>1, ThreeArguments
  <2>3. shift \in Int
    <3>1. CASE Len(s.operands) = 4
      <4>1. 4 \in 1 .. Len(s.operands)
        BY <3>1
      <4>2. QED
        BY <3>1, <4>1, Arguments
    <3>2. CASE Len(s.operands) # 4
      BY <3>2
    <3>3. QED
      BY <3>1, <3>2
  <2> HIDE DEF t, n, m, shift
  <2>4. QED
    BY <2>2, <2>3, NarrowEncodings, WideEncodings DEF IntegerParts
<1>2. LdrRegister(s) = When(Types(s) \in {RRR, RRR \o <<"lsl">>} /\ s.mode = "offset", q1 \o q2)
  BY DEF LdrRegister
<1>3. ASSUME Types(s) \in {RRR, RRR \o <<"lsl">>}
      PROVE  AllGood(s, q1 \o q2)
  <2>0. IntegerParts(ldr_r_t1, p1) /\ IntegerParts(ldr_r_t2_lsl, p2)
    BY <1>1, <1>3
  <2> HIDE DEF p1, p2, shift
  <2>1. AllGood(s, q1)
    BY <2>0, NarrowEncodings, NarrowTry, NoneGood DEF When
  <2>2. AllGood(s, q2)
    BY <2>0, WideEncodings, HarmlessEncodings, WideTry, NoneGood DEF When
  <2> HIDE DEF q1, q2
  <2>3. QED
    BY <2>1, <2>2, JoinedGood
<1> HIDE DEF q1, q2
<1>4. QED
  BY <1>2, <1>3, NoneGood DEF When

LEMMA LdrNarrowGood ==
    ASSUME NEW s, NEW t \in Int, NEW n \in Int, NEW offset \in Int, CanBeNarrow(s)
    PROVE  AllGood(s, LdrNarrow(t, n, offset))
<1> DEFINE p1 == [Rt |-> t, imm10 |-> offset]
           p2 == [Rt |-> t, Rn |-> n, imm7 |-> offset]
           q1 == When(n = 13, << <<ldr_i_t2_sponly, p1>> >>)
           q2 == When(n = 15, << <<ldr_lit_t1, p1>> >>)
           q3 == << <<ldr_i_t1, p2>> >>
<1>1. /\ IntegerParts(ldr_i_t2_sponly, p1) /\ IntegerParts(ldr_lit_t1, p1)
      /\ IntegerParts(ldr_i_t1, p2)
  BY NarrowEncodings DEF IntegerParts
<1>2. LdrNarrow(t, n, offset) = (q1 \o q2) \o q3
  BY DEF LdrNarrow
<1> HIDE DEF p1, p2
<1>3. AllGood(s, q1) /\ AllGood(s, q2) /\ AllGood(s, q3)
  BY <1>1, NarrowEncodings, NarrowTry, NoneGood DEF When
<1> HIDE DEF q1, q2, q3
<1>4. AllGood(s, q1 \o q2)
  BY <1>3, JoinedGood
<1>5. QED
  BY <1>2, <1>3, <1>4, JoinedGood

\* A literal that is not far
LEMMA LiteralIsNear ==
    ASSUME NEW s, ~FarLiteral(s), s.mnemonic = "LDR", s.mode = "offset",
           Types(s) = <<"reg", "reg", "simm">>, RegArg(s, 2) = 15, Arg(s, 3) \in Int,
           NEW p, p["add"] = Flag(Arg(s, 3) >= 0),
           p["imm12"] = (IF Arg(s, 3) < 0 THEN -Arg(s, 3) ELSE Arg(s, 3)),
           Encode(ldr_lit_t2, p) # <<>>
    PROVE  NearLiteral(p)
<1> DEFINE offset == Arg(s, 3)
           size == p["imm12"]
<1>1. 2^11 = 2048
  BY SMT
<1>2. offset \in Int /\ offset > -2048
  BY <1>1, SMT DEF FarLiteral
<1>3. size = (IF offset < 0 THEN -offset ELSE offset) /\ p["add"] = Flag(offset >= 0)
  OBVIOUS
<1>4. Fits(Bits(12, 16), size)
  <2>1. "imm12" \in DOMAIN ldr_lit_t2.fields /\ ldr_lit_t2.fields["imm12"] = Bits(12, 16)
    BY DEF ldr_lit_t2, Encoding
  <2>2. Fits(ldr_lit_t2.fields["imm12"], p["imm12"])
    BY <2>1, Zenon DEF Encode
  <2>3. QED
    BY <2>1, <2>2
<1> HIDE DEF offset, size
<1>5. size \in Nat /\ (offset < 0 => size < 2048)
  BY <1>2, <1>3
<1>6. size < 4096
  <2> DEFINE f == Bits(12, 16)
  <2>1. f.skip = 0 /\ f.width = 12 /\ ~f.signed
    BY DEF Bits, Field
  <2> HIDE DEF f
  <2>2. size \div 2^0 \in 0 .. 2^12 - 1
    <3>1. Fits(f, size)
      BY <1>4 DEF f
    <3>2. QED
      BY <2>1, <3>1, SMT DEF Fits
  <2>3. 2^0 = 1 /\ 2^12 = 4096
    BY SMT
  <2>4. QED
    BY <1>5, <2>2, <2>3, SMT
<1>7. QED
  BY <1>3, <1>5, <1>6, SMT DEF NearLiteral, Flag, size

LEMMA LdrImmediateGood ==
    ASSUME NEW s, WellTyped(s), s.mnemonic = "LDR"
    PROVE  AllGood(s, LdrImmediate(s))
<1> DEFINE t == RegArg(s, 1)
           n == RegArg(s, 2)
           offset == Arg(s, 3)
           size == IF offset < 0 THEN -offset ELSE offset
           add == Flag(offset >= 0)
           index == Flag(s.mode # "post")
           writeback == Flag(s.mode # "offset")
           p2 == [Rt |-> t, Rn |-> n, imm12 |-> offset]
           p3 == [Rt |-> t, imm12 |-> size, add |-> add]
           p4 == [Rt |-> t, Rn |-> n, imm8 |-> size, add |-> add, index |-> index,
                  writeback |-> writeback]
           q1 == When(s.mode = "offset" /\ offset >= 0 /\ CanBeNarrow(s), LdrNarrow(t, n, offset))
           q2 == When(s.mode = "offset" /\ offset >= 0 /\ CanBeWide(s), << <<ldr_i_t3, p2>> >>)
           q3 == When(s.mode = "offset" /\ n = 15 /\ CanBeWide(s), << <<ldr_lit_t2, p3>> >>)
           q4 == When(CanBeWide(s), << <<ldr_i_t4, p4>> >>)
           q == ((q1 \o q2) \o q3) \o q4
<1>1. LdrImmediate(s) = When(Types(s) = <<"reg", "reg", "simm">> /\ s.mode # "none", q)
  BY DEF LdrImmediate
<1>2. ASSUME Types(s) = <<"reg", "reg", "simm">>
      PROVE  AllGood(s, q)
  <2>1. t \in Int /\ n \in Int /\ offset \in Int
    BY <1>2, Lengths, ThreeArguments
  <2>a. ~FarLiteral(s) /\ s.mode = "offset" /\ n = 15 /\ Encode(ldr_lit_t2, p3) # <<>> =>
            NearLiteral(p3)
    <3>1. p3["add"] = Flag(Arg(s, 3) >= 0)
      OBVIOUS
    <3>2. p3["imm12"] = (IF Arg(s, 3) < 0 THEN -Arg(s, 3) ELSE Arg(s, 3))
      OBVIOUS
    <3>3. n = 15 => RegArg(s, 2) = 15
      OBVIOUS
    <3>4. Arg(s, 3) \in Int
      BY <2>1
    <3> HIDE DEF p3, n
    <3>5. QED
      BY <1>2, <3>1, <3>2, <3>3, <3>4, LiteralIsNear
  <2>b. /\ p4["index"] \in {0, 1} /\ p4["writeback"] \in {0, 1}
        /\ p4["index"] = 1 \/ p4["writeback"] = 1
    BY DEF Flag
  <2> HIDE DEF t, n, offset
  <2>2. size \in Int /\ add \in Int /\ index \in Int /\ writeback \in Int
    BY <2>1 DEF Flag
  <2> HIDE DEF size, add, index, writeback
  <2>3. IntegerParts(ldr_i_t3, p2) /\ IntegerParts(ldr_lit_t2, p3) /\ IntegerParts(ldr_i_t4, p4)
    BY <2>1, <2>2, WideEncodings DEF IntegerParts
  <2> HIDE DEF p2, p3, p4
  <2>c. ~FarLiteral(s) /\ s.mode = "offset" /\ n = 15 /\ Encode(ldr_lit_t2, p3) # <<>> =>
            Quiet(ldr_lit_t2, p3)
    BY <2>3, <2>a, LdrLitT2Quiet
  <2>d. Quiet(ldr_i_t4, p4)
    BY <2>3, <2>b, LdrIT4Quiet
  <2>4. AllGood(s, q1)
    BY <2>1, LdrNarrowGood, NoneGood DEF When
  <2>5. AllGood(s, q2) /\ AllGood(s, q3) /\ AllGood(s, q4)
    <3>1. AllGood(s, q2)
      BY <2>3, WideEncodings, HarmlessEncodings, WideTry, NoneGood DEF When
    <3>2. AllGood(s, q3)
      BY <2>3, <2>c, WideEncodings, QuietTry, NoneGood DEF When
    <3>3. AllGood(s, q4)
      BY <2>3, <2>d, WideEncodings, QuietTry, NoneGood DEF When
    <3>4. QED
      BY <3>1, <3>2, <3>3
  <2> HIDE DEF q1, q2, q3, q4
  <2>6. AllGood(s, q1 \o q2)
    BY <2>4, <2>5, JoinedGood
  <2>7. AllGood(s, (q1 \o q2) \o q3)
    BY <2>5, <2>6, JoinedGood
  <2>8. QED
    BY <2>5, <2>7, JoinedGood
<1> HIDE DEF q
<1>3. QED
  BY <1>1, <1>2, NoneGood DEF When

LEMMA MovGood ==
    ASSUME NEW s, WellTyped(s)
    PROVE  AllGood(s, Mov(s))
<1> DEFINE d == RegArg(s, 1)
           m == RegArg(s, 2)
           p1 == [Rd |-> d, Rm |-> m]
           p2 == [Rd |-> d, Rm |-> m, setflags |-> 0]
           q1 == When(CanBeNarrow(s), << <<mov_r_t1, p1>> >>)
           q2 == When(CanBeWide(s), << <<mov_r_t3_opt_s, p2>> >>)
<1>1. Mov(s) = When(Types(s) = <<"reg", "reg">>, q1 \o q2)
  BY DEF Mov
<1>2. ASSUME Types(s) = <<"reg", "reg">>
      PROVE  AllGood(s, q1 \o q2)
  <2>1. d \in Int /\ m \in Int
    BY <1>2, Lengths, TwoArguments
  <2> HIDE DEF d, m
  <2>2. IntegerParts(mov_r_t1, p1) /\ IntegerParts(mov_r_t3_opt_s, p2)
    BY <2>1, NarrowEncodings, WideEncodings DEF IntegerParts
  <2> HIDE DEF p1, p2
  <2>3. AllGood(s, q1)
    BY <2>2, NarrowEncodings, NarrowTry, NoneGood DEF When
  <2>4. AllGood(s, q2)
    BY <2>2, WideEncodings, HarmlessEncodings, WideTry, NoneGood DEF When
  <2> HIDE DEF q1, q2
  <2>5. QED
    BY <2>3, <2>4, JoinedGood
<1> HIDE DEF q1, q2
<1>3. QED
  BY <1>1, <1>2, NoneGood DEF When

LEMMA MovsGood ==
    ASSUME NEW s, WellTyped(s)
    PROVE  AllGood(s, Movs(s))
<1> DEFINE d == RegArg(s, 1)
           m == RegArg(s, 2)
           p0 == [Rd |-> d, imm8 |-> Arg(s, 2)]
           p1 == [Rd |-> d, Rm |-> m]
           p2 == [Rd |-> d, Rm |-> m, setflags |-> 1]
           q0 == When(Types(s) = <<"reg", "imm">> /\ d \notin {13, 15} /\ CanBeNarrow(s),
                      << <<movs_i_t1, p0>> >>)
           q1 == When(CanBeNarrow(s), << <<movs_r_t2_noit, p1>> >>)
           q2 == When(CanBeWide(s), << <<mov_r_t3_opt_s, p2>> >>)
           q3 == When(Types(s) = <<"reg", "reg">>, q1 \o q2)
<1>1. Movs(s) = q0 \o q3
  BY DEF Movs
<1>2. ASSUME Types(s) \in {<<"reg", "imm">>, <<"reg", "reg">>}
      PROVE  /\ IntegerParts(movs_i_t1, p0) /\ IntegerParts(movs_r_t2_noit, p1)
             /\ IntegerParts(mov_r_t3_opt_s, p2)
  <2>1. d \in Int /\ m \in Int /\ Arg(s, 2) \in Int
    BY <1>2, Lengths, TwoArguments
  <2> HIDE DEF d, m
  <2>2. QED
    BY <2>1, NarrowEncodings, WideEncodings DEF IntegerParts
<1> HIDE DEF p0, p1, p2
<1>3. AllGood(s, q0)
  BY <1>2, NarrowEncodings, NarrowTry, NoneGood DEF When
<1>4. ASSUME Types(s) = <<"reg", "reg">>
      PROVE  AllGood(s, q1 \o q2)
  <2>1. AllGood(s, q1)
    BY <1>2, <1>4, NarrowEncodings, NarrowTry, NoneGood DEF When
  <2>2. AllGood(s, q2)
    BY <1>2, <1>4, WideEncodings, HarmlessEncodings, WideTry, NoneGood DEF When
  <2> HIDE DEF q1, q2
  <2>3. QED
    BY <2>1, <2>2, JoinedGood
<1>5. AllGood(s, q3)
  <2> HIDE DEF q1, q2
  <2>1. QED
    BY <1>4, NoneGood DEF When
<1> HIDE DEF q0, q3
<1>6. QED
  BY <1>1, <1>3, <1>5, JoinedGood

LEMMA MovwGood ==
    ASSUME NEW s, WellTyped(s)
    PROVE  AllGood(s, Movw(s))
<1> DEFINE p == [Rd |-> Arg(s, 1), imm16 |-> Arg(s, 2)]
<1>1. ASSUME Types(s) = <<"reg", "imm">>
      PROVE  IntegerParts(movw_i_t3, p)
  <2>1. Arg(s, 1) \in Int /\ Arg(s, 2) \in Int
    BY <1>1, Lengths, TwoArguments
  <2>2. QED
    BY <2>1, WideEncodings DEF IntegerParts
<1>2. Movw(s) = When(Types(s) = <<"reg", "imm">> /\ CanBeWide(s) /\ Arg(s, 1) \notin {13, 15},
                     << <<movw_i_t3, p>> >>)
  BY DEF Movw
<1> HIDE DEF p
<1>3. QED
  BY <1>1, <1>2, WideEncodings, HarmlessEncodings, WideTry, NoneGood DEF When
LEMMA TheOnlyRange == ASSUME NEW list, IsOne(list) PROVE TheOnly(list) \in Int
<1>1. TheOnly(list) \in 0 .. 15
  BY DEF TheOnly, IsOne
<1>2. QED
  BY <1>1

\* The bits of a list that are taken apart
LEMMA ListBits ==
    ASSUME NEW list \in Int
    PROVE  /\ Extract(list, 14, 1) \in Int /\ Extract(list, 15, 1) \in Int
           /\ Extract(list, 0, 14) \in Int /\ list - Extract(list, 14, 1) * 2^14 \in Int
<1>1. /\ Extract(list, 14, 1) \in 0 .. 2^1 - 1 /\ Extract(list, 15, 1) \in 0 .. 2^1 - 1
      /\ Extract(list, 0, 14) \in 0 .. 2^14 - 1
  <2>1. 0 \in 0 .. 31 /\ 1 \in 0 .. 31 /\ 14 \in 0 .. 31 /\ 15 \in 0 .. 31
    OBVIOUS
  <2>2. QED
    BY <2>1, ExtractRange, Zenon
<1>2. 2^14 = 16384
  BY SMT
<1> DEFINE lr == Extract(list, 14, 1)
<1>3. lr \in Int /\ Extract(list, 15, 1) \in Int /\ Extract(list, 0, 14) \in Int
  BY <1>1
<1> HIDE DEF lr
<1>4. list - lr * 16384 \in Int
  BY <1>3, SMT
<1>5. QED
  BY <1>2, <1>3, <1>4 DEF lr

LEMMA PopGood ==
    ASSUME NEW s, WellTyped(s)
    PROVE  AllGood(s, Pop(s))
<1> DEFINE list == Arg(s, 1)
           lr == Extract(list, 14, 1)
           pc == Extract(list, 15, 1)
           regs == Extract(list, 0, 14)
           p1 == [pc |-> pc, regs |-> regs]
           p2 == [regs |-> regs, lr |-> lr, pc |-> pc]
           p3 == [Rt |-> TheOnly(list)]
           q1 == When(CanBeNarrow(s) /\ lr = 0, << <<pop_t1, p1>> >>)
           q2 == When(CanBeWide(s),
                      IF IsOne(list) THEN << <<pop_t3, p3>> >> ELSE << <<pop_t2, p2>> >>)
<1>1. Pop(s) = When(Types(s) = <<"list">> /\ list # 0, q1 \o q2)
  BY DEF Pop
<1>2. ASSUME Types(s) = <<"list">>
      PROVE  AllGood(s, q1 \o q2)
  <2>1. list \in Int
    BY <1>2, Lengths, OneArgument
  <2> HIDE DEF list
  <2>2. lr \in Int /\ pc \in Int /\ regs \in Int
    BY <2>1, ListBits
  <2>3. IsOne(list) => TheOnly(list) \in Int
    BY TheOnlyRange
  <2> HIDE DEF lr, pc, regs
  <2>4. /\ IntegerParts(pop_t1, p1) /\ IntegerParts(pop_t2, p2)
        /\ IsOne(list) => IntegerParts(pop_t3, p3)
    BY <2>2, <2>3, NarrowEncodings, WideEncodings DEF IntegerParts
  <2> HIDE DEF p1, p2, p3
  <2>5. AllGood(s, q1)
    BY <2>4, NarrowEncodings, NarrowTry, NoneGood DEF When
  <2>6. AllGood(s, q2)
    BY <2>4, WideEncodings, HarmlessEncodings, WideTry, NoneGood DEF When
  <2> HIDE DEF q1, q2
  <2>7. QED
    BY <2>5, <2>6, JoinedGood
<1> HIDE DEF q1, q2
<1>3. QED
  BY <1>1, <1>2, NoneGood DEF When

LEMMA PushGood ==
    ASSUME NEW s, WellTyped(s)
    PROVE  AllGood(s, Push(s))
<1> DEFINE list == Arg(s, 1)
           lr == Extract(list, 14, 1)
           regs == list - lr * 2^14
           p1 == [lr |-> lr, regs |-> regs]
           p2 == [regs |-> regs, lr |-> lr]
           p3 == [Rt |-> TheOnly(list)]
           q1 == When(CanBeNarrow(s), << <<push_t1, p1>> >>)
           q2 == When(CanBeWide(s),
                      IF IsOne(list) THEN << <<push_t3, p3>> >> ELSE << <<push_t2, p2>> >>)
<1>1. Push(s) = When(Types(s) = <<"list">> /\ list # 0, q1 \o q2)
  BY DEF Push
<1>2. ASSUME Types(s) = <<"list">>
      PROVE  AllGood(s, q1 \o q2)
  <2>1. list \in Int
    BY <1>2, Lengths, OneArgument
  <2> HIDE DEF list
  <2>2. lr \in Int /\ regs \in Int
    BY <2>1, ListBits
  <2>3. IsOne(list) => TheOnly(list) \in Int
    BY TheOnlyRange
  <2> HIDE DEF lr, regs
  <2>4. /\ IntegerParts(push_t1, p1) /\ IntegerParts(push_t2, p2)
        /\ IsOne(list) => IntegerParts(push_t3, p3)
    BY <2>2, <2>3, NarrowEncodings, WideEncodings DEF IntegerParts
  <2> HIDE DEF p1, p2, p3
  <2>5. AllGood(s, q1)
    BY <2>4, NarrowEncodings, NarrowTry, NoneGood DEF When
  <2>6. AllGood(s, q2)
    BY <2>4, WideEncodings, HarmlessEncodings, WideTry, NoneGood DEF When
  <2> HIDE DEF q1, q2
  <2>7. QED
    BY <2>5, <2>6, JoinedGood
<1> HIDE DEF q1, q2
<1>3. QED
  BY <1>1, <1>2, NoneGood DEF When

\* The commands with one operand and one encoding of each width
LEMMA OneNumberGood ==
    ASSUME NEW s, WellTyped(s), s.mnemonic \in OneNumber
    PROVE  /\ AllGood(s, When(CanBeNarrow(s), << <<bkpt_t1, [imm8 |-> Arg(s, 1)]>> >>))
           /\ AllGood(s, When(CanBeWide(s), << <<bl_t1, [simm25 |-> Arg(s, 1) - 4]>> >>))
           /\ AllGood(s, When(CanBeNarrow(s), << <<blx_t1, [Rm |-> Arg(s, 1)]>> >>))
           /\ AllGood(s, When(CanBeNarrow(s), << <<bx_t1, [Rm |-> Arg(s, 1)]>> >>))
           /\ AllGood(s, When(CanBeNarrow(s), << <<svc_t1, [imm8 |-> Arg(s, 1)]>> >>))
           /\ AllGood(s, When(CanBeNarrow(s), << <<udf_t1, [imm8 |-> Arg(s, 1)]>> >>)
                         \o When(CanBeWide(s), << <<udf_t2, [imm16 |-> Arg(s, 1)]>> >>))
<1> DEFINE n == Arg(s, 1)
           p1 == [imm8 |-> n]
           p2 == [simm25 |-> n - 4]
           p3 == [Rm |-> n]
           p4 == [imm16 |-> n]
           q1 == When(CanBeNarrow(s), << <<udf_t1, p1>> >>)
           q2 == When(CanBeWide(s), << <<udf_t2, p4>> >>)
<1>1. n \in Int
  <2>1. Len(s.operands) = 1
    BY DEF WellTyped
  <2>2. QED
    BY <2>1, OneArgument
<1> HIDE DEF n
<1>2. /\ IntegerParts(bkpt_t1, p1) /\ IntegerParts(svc_t1, p1) /\ IntegerParts(udf_t1, p1)
      /\ IntegerParts(blx_t1, p3) /\ IntegerParts(bx_t1, p3)
  BY <1>1, NarrowEncodings DEF IntegerParts
<1>3. IntegerParts(bl_t1, p2) /\ IntegerParts(udf_t2, p4)
  BY <1>1, WideEncodings DEF IntegerParts
<1> HIDE DEF p1, p2, p3, p4
<1>4. /\ AllGood(s, When(CanBeNarrow(s), << <<bkpt_t1, p1>> >>))
      /\ AllGood(s, When(CanBeNarrow(s), << <<blx_t1, p3>> >>))
      /\ AllGood(s, When(CanBeNarrow(s), << <<bx_t1, p3>> >>))
      /\ AllGood(s, When(CanBeNarrow(s), << <<svc_t1, p1>> >>))
      /\ AllGood(s, q1)
  BY <1>2, NarrowEncodings, NarrowTry, NoneGood DEF When
<1>5. AllGood(s, When(CanBeWide(s), << <<bl_t1, p2>> >>)) /\ AllGood(s, q2)
  BY <1>3, WideEncodings, HarmlessEncodings, WideTry, NoneGood DEF When
<1> HIDE DEF q1, q2
<1>6. AllGood(s, q1 \o q2)
  BY <1>4, <1>5, JoinedGood
<1>7. QED
  BY <1>4, <1>5, <1>6 DEF p1, p2, p3, p4, n, q1, q2

LEMMA NopGood ==
    ASSUME NEW s, WellTyped(s)
    PROVE  AllGood(s, << <<IF s.width = "wide" THEN nop_t2 ELSE nop_t1, <<>> >> >>)
<1> DEFINE p == <<>>
<1>1. IntegerParts(nop_t1, p) /\ IntegerParts(nop_t2, p)
  BY NarrowEncodings, WideEncodings DEF IntegerParts
<1> HIDE DEF p
<1>2. CASE s.width = "wide"
  <2>1. CanBeWide(s)
    BY <1>2 DEF CanBeWide
  <2>2. AllGood(s, << <<nop_t2, p>> >>)
    BY <1>1, <2>1, WideEncodings, HarmlessEncodings, WideTry
  <2>3. QED
    BY <1>2, <2>2 DEF p
<1>3. CASE s.width # "wide"
  <2>1. CanBeNarrow(s)
    BY <1>3 DEF CanBeNarrow
  <2>2. AllGood(s, << <<nop_t1, p>> >>)
    BY <1>1, <2>1, NarrowEncodings, NarrowTry
  <2>3. QED
    BY <1>3, <2>2 DEF p
<1>4. QED
  BY <1>2, <1>3

LEMMA AttemptsGood ==
    ASSUME NEW s, WellTyped(s)
    PROVE  AllGood(s, Attempts(s))
<1>1. CASE s.mnemonic \in {"ADD", "ADDS", "ADDW", "SUB", "SUBS", "SUBW"}
  BY <1>1, AddGood, SettingFlagsGood, WideImmediateGood DEF Attempts
<1>2. CASE s.mnemonic = "B"
  BY <1>2, BGood DEF Attempts
<1>3. CASE s.mnemonic \in OneNumber \ {"B"}
  BY <1>3, OneNumberGood DEF Attempts, OneNumber
<1>4. CASE s.mnemonic = "CMP"
  BY <1>4, CmpGood DEF Attempts
<1>5. CASE s.mnemonic = "LDR"
  BY <1>5, LdrRegisterGood, LdrImmediateGood, JoinedGood DEF Attempts
<1>6. CASE s.mnemonic = "NOP"
  BY <1>6, NopGood DEF Attempts
<1>7. CASE s.mnemonic \in {"MOV", "MOVS", "MOVW"}
  BY <1>7, MovGood, MovsGood, MovwGood, JoinedGood DEF Attempts
<1>8. CASE s.mnemonic \in {"POP", "PUSH"}
  BY <1>8, PopGood, PushGood DEF Attempts
<1>9. s.mnemonic \in Mnemonics
  BY DEF WellTyped
<1>10. QED
  BY <1>1, <1>2, <1>3, <1>4, <1>5, <1>6, <1>7, <1>8, <1>9, Zenon DEF Mnemonics, OneNumber

-----------------------------------------------------------------------------
(***************************************************************************)
(* What is taken of them                                                   *)
(***************************************************************************)
\* What Encode makes of an encoding of known width
LEMMA EncodedWidth ==
    ASSUME NEW e, NEW p, IntegerParts(e, p), Encode(e, p) # <<>>
    PROVE  /\ Narrow(e) => Len(Encode(e, p)) = 1 /\ ~IsWide(Encode(e, p))
           /\ Wide(e) => Len(Encode(e, p)) = 2 /\ IsWide(Encode(e, p))
<1> DEFINE w == Encode(e, p)
<1>1. w = [h \in DOMAIN e.base |-> Stored(e, p, h)]
  BY DEF Encode
<1>2. Border \in Nat /\ Top \in Nat /\ Border - 1 <= Top
  BY SMT DEF Border, Top
<1> HIDE DEF w
<1>3. ASSUME Narrow(e)
      PROVE  Len(w) = 1 /\ ~IsWide(w)
  <2>1. DOMAIN e.base = 1 .. 1 /\ Stored(e, p, 1) \in 0 .. Border - 1
    BY <1>3 DEF Narrow
  <2>2. w = [h \in 1 .. 1 |-> w[h]] /\ w[1] = Stored(e, p, 1)
    BY <1>1, <2>1
  <2>3. Len(w) = 1
    BY <2>2, WordLength
  <2>4. w[1] \in Nat /\ w[1] <= Top /\ ~(w[1] >= Border)
    BY <1>2, <2>1, <2>2
  <2>5. QED
    BY <2>3, <2>4, IsWideBorder, Zenon
<1>4. ASSUME Wide(e)
      PROVE  Len(w) = 2 /\ IsWide(w)
  <2>1. DOMAIN e.base = 1 .. 2 /\ Stored(e, p, 1) \in Border .. Top
    <3>1. {1, 2} = 1 .. 2
      OBVIOUS
    <3>2. DOMAIN e.base = {1, 2} /\ Stored(e, p, 1) \in Nat
          /\ Border <= Stored(e, p, 1) /\ Stored(e, p, 1) <= Top
      BY <1>4, Zenon DEF Wide, Starts
    <3>3. QED
      BY <1>2, <3>1, <3>2
  <2>2. w = [h \in 1 .. 2 |-> w[h]] /\ w[1] = Stored(e, p, 1)
    BY <1>1, <2>1
  <2>3. Len(w) = 2
    BY <2>2, WordLength
  <2>4. w[1] \in Nat /\ w[1] <= Top /\ w[1] >= Border
    BY <1>2, <2>1, <2>2
  <2>5. QED
    BY <2>3, <2>4, IsWideBorder, Zenon
<1>5. QED
  BY <1>3, <1>4 DEF w

\* The attempt that is taken is one of the attempts.
LEMMA TakenIsGood ==
    ASSUME NEW s, WellTyped(s), Assembled(s) # <<>>
    PROVE  \E a : Good(s, a) /\ Assembled(s) = Encode(a[1], a[2])
<1> DEFINE q == Attempts(s)
           I == {i \in 1 .. Len(q) : Encode(q[i][1], q[i][2]) # <<>>}
<1>1. Taken(s) = IF I # {} THEN Min(I) ELSE 0
  BY DEF Taken, SelectInSeq
<1>2. Taken(s) # 0 /\ Assembled(s) = Encode(q[Taken(s)][1], q[Taken(s)][2])
  BY DEF Assembled
<1>3. PICK Q : q \in Seq(Q) /\ \A i \in DOMAIN q : Good(s, q[i])
  BY AttemptsGood DEF AllGood
<1>4. Len(q) \in Nat /\ DOMAIN q = 1 .. Len(q)
  BY <1>3
<1>5. I \in SUBSET Nat /\ I \subseteq DOMAIN q
  <2> HIDE DEF q
  <2>1. QED
    BY <1>4
<1> HIDE DEF q, I
<1>6. I # {} /\ Taken(s) = Min(I)
  BY <1>1, <1>2
<1>7. Min(I) \in I
  <2>1. \E i \in I : \A j \in I : i <= j
    BY <1>5, <1>6, Least
  <2>2. QED
    BY <2>1 DEF Min
<1>8. Good(s, q[Taken(s)])
  BY <1>3, <1>5, <1>6, <1>7
<1>9. QED
  BY <1>2, <1>8

LEMMA AssembledWidth ==
    ASSUME NEW s, WellTyped(s), Assembled(s) # <<>>
    PROVE  /\ IsWide(Assembled(s)) <=> Len(Assembled(s)) = 2
           /\ s.width # "auto" => (s.width = "wide" <=> IsWide(Assembled(s)))
<1> DEFINE w == Assembled(s)
<1>1. PICK a : Good(s, a) /\ w = Encode(a[1], a[2])
  BY TakenIsGood
<1>2. w # <<>>
  OBVIOUS
<1> HIDE DEF w
<1>3. IntegerParts(a[1], a[2])
  BY <1>1 DEF Good
<1>4. /\ Narrow(a[1]) => Len(w) = 1 /\ ~IsWide(w)
      /\ Wide(a[1]) => Len(w) = 2 /\ IsWide(w)
  BY <1>1, <1>2, <1>3, EncodedWidth
<1>5. s.width \in Widths
  BY DEF WellTyped
<1>6. CASE Narrow(a[1]) /\ CanBeNarrow(s)
  BY <1>4, <1>5, <1>6 DEF CanBeNarrow, Widths, w
<1>7. CASE Wide(a[1]) /\ CanBeWide(s)
  BY <1>4, <1>5, <1>7 DEF CanBeWide, Widths, w
<1>8. QED
  BY <1>1, <1>6, <1>7 DEF Good

LEMMA AssembledPrinted ==
    ASSUME NEW s, WellTyped(s), Assembled(s) # <<>>, ~FarLiteral(s)
    PROVE  Printable(Disassembled(Assembled(s)))
<1> DEFINE w == Assembled(s)
<1>1. PICK a : Good(s, a) /\ w = Encode(a[1], a[2])
  BY TakenIsGood
<1> DEFINE e == a[1]
           p == a[2]
<1>2. w # <<>> /\ w = Encode(e, p)
  BY <1>1
<1>3. /\ IntegerParts(e, p)
      /\ Narrow(e) \/ (Wide(e) /\ (e = udf_t2 \/ Quiet(e, p)))
  BY <1>1, <1>2 DEF Good, Listable
<1> HIDE DEF w, e, p
<1>4. w = [h \in DOMAIN e.base |-> Stored(e, p, h)]
  BY <1>2 DEF Encode
<1>5. /\ Narrow(e) => ~IsWide(w)
      /\ Wide(e) => Len(w) = 2 /\ IsWide(w)
  BY <1>2, <1>3, EncodedWidth
<1>6. CASE Narrow(e)
  <2>1. DOMAIN e.base = {1} /\ Stored(e, p, 1) \in 0 .. Border - 1
    BY <1>3, <1>6, Zenon DEF Narrow
  <2>2. \A m : \A x \in 0 .. m : x \in Int
    OBVIOUS
  <2>3. w[1] \in Int
    BY <1>4, <2>1, <2>2
  <2>4. QED
    BY <1>5, <1>6, <2>3, PrintedNarrow DEF w
<1>7. CASE Wide(e) /\ (e = udf_t2 \/ Quiet(e, p))
  <2>1. /\ DOMAIN e.base = {1, 2} /\ e.base[2] \in Nat /\ WellFormedFields(e)
        /\ Stored(e, p, 1) \in Nat
    BY <1>3, <1>7, Zenon DEF Wide, Starts
  <2>2. Stored(e, p, 2) \in Nat
    BY <1>3, <2>1, StoredIsNat
  <2>3. DOMAIN w = {1, 2} /\ w[1] = Stored(e, p, 1) /\ w[2] = Stored(e, p, 2)
    BY <1>4, <2>1
  <2>4. Halfwords(w)
    BY <2>1, <2>2, <2>3 DEF Halfwords
  <2>5. Len(w) = 2 /\ IsWide(w)
    BY <1>5, <1>7
  <2>6. ~NeitherBit(w[1], w[2]) /\ (NoCond(w[1], w[2]) => Match(udf_t2, w))
    <3>1. CASE e = udf_t2
      <4>1. Match(udf_t2, w)
        BY <1>3, <2>3, <2>5, <3>1, UdfT2Matches
      <4>2. ~NeitherBit(Stored(udf_t2, p, 1), Stored(udf_t2, p, 2))
        <5>1. Starts(udf_t2, 63472, 63487)
          BY FirstHalfwords
        <5>2. IntegerParts(udf_t2, p)
          BY <1>3, <3>1
        <5>3. QED
          BY <5>1, <5>2, FirstBelow, SMT
      <4>3. QED
        BY <2>3, <3>1, <4>1, <4>2, Zenon
    <3>2. CASE e # udf_t2
      <4>1. Quiet(e, p)
        BY <1>7, <3>2
      <4>2. QED
        BY <2>3, <4>1, Zenon DEF Quiet
    <3>3. QED
      BY <3>1, <3>2
  <2>7. QED
    BY <2>3, <2>4, <2>5, <2>6, PrintedWide DEF w
<1>8. QED
  BY <1>3, <1>6, <1>7

-----------------------------------------------------------------------------
(***************************************************************************)
(* What the menus ask for                                                  *)
(***************************************************************************)
\* The mnemonics m take the operands o.
Takes(m, o) ==
    /\ m \subseteq Mnemonics
    /\ \A x \in o : x \in Seq(Kinds \X Int)
    /\ m \cap OneNumber # {} => \A x \in o : Len(x) = 1

LEMMA AsksTyped ==
    ASSUME NEW m, NEW o, Takes(m, o), NEW mode, NEW s \in Asks(m, mode, o)
    PROVE  WellTyped(s)
<1>1. PICK n \in m, w \in Widths, x \in o : s = Ins(n, 0, w, mode, x)
  BY DEF Asks
<1>2. /\ s.mnemonic = n /\ s.cond = 0 /\ s.width = w /\ s.operands = x
  BY <1>1 DEF Ins
<1>3. n \in Mnemonics /\ x \in Seq(Kinds \X Int) /\ (n \in OneNumber => Len(x) = 1)
  BY DEF Takes
<1>4. QED
  BY <1>2, <1>3 DEF WellTyped

\* Operands
LEMMA Operand ==
    ASSUME NEW x \in Int
    PROVE  /\ Reg(x) \in Kinds \X Int /\ Imm(x) \in Kinds \X Int
           /\ Simm(x) \in Kinds \X Int /\ List(x) \in Kinds \X Int
           /\ Lsl(x) \in Kinds \X Int
  BY DEF Reg, Imm, Simm, List, Lsl, Kinds

LEMMA OperandSequences ==
    ASSUME NEW S
    PROVE  /\ <<>> \in Seq(S)
           /\ \A a \in S : <<a>> \in Seq(S) /\ Len(<<a>>) = 1
           /\ \A a, b \in S : <<a, b>> \in Seq(S)
           /\ \A a, b, c \in S : <<a, b, c>> \in Seq(S)
           /\ \A a, b, c, d \in S : <<a, b, c, d>> \in Seq(S)
  OBVIOUS

LEMMA Numbers ==
    /\ Regs \subseteq Int /\ Imms \subseteq Int
    /\ Shifts \subseteq Int /\ Offsets \subseteq Int
    /\ Labels \subseteq Int /\ Conds \subseteq Int /\ RegLists \subseteq Int
<1>1. \A n \in Nat : n \in Int
  OBVIOUS
<1>2. Regs \subseteq Nat /\ Imms \subseteq Nat /\ Shifts \subseteq Nat
      /\ Offsets \subseteq Int /\ Labels \subseteq Int
  BY ThumbAssumption
<1>3. \A m : 0 .. m \subseteq Int
  OBVIOUS
<1>4. Conds \subseteq Int /\ RegLists \subseteq Int
  BY <1>3, ThumbAssumption, Zenon
<1>5. QED
  BY <1>1, <1>2, <1>3, <1>4

\* The operands that the menus put together
LEMMA OperandLists ==
    ASSUME NEW last \in SUBSET (Kinds \X Int)
    PROVE  /\ \A x \in RegsRegsAnd(last) : x \in Seq(Kinds \X Int)
           /\ \A x \in RegsAnd(last) : x \in Seq(Kinds \X Int)
<1> DEFINE P == Kinds \X Int
<1>1. \A d \in Regs : Reg(d) \in P
  BY Operand, Numbers
<1> HIDE DEF P
<1>2. last \in SUBSET P
  BY DEF P
<1>3. ASSUME NEW x \in RegsRegsAnd(last)
      PROVE  x \in Seq(P)
  <2>1. PICK d \in Regs, n \in Regs, l \in last : x = <<Reg(d), Reg(n), l>>
    BY DEF RegsRegsAnd
  <2>2. Reg(d) \in P /\ Reg(n) \in P /\ l \in P
    BY <1>1, <1>2
  <2>3. QED
    BY <2>1, <2>2, OperandSequences
<1>4. ASSUME NEW x \in RegsAnd(last)
      PROVE  x \in Seq(P)
  <2>1. PICK d \in Regs, l \in last : x = <<Reg(d), l>>
    BY DEF RegsAnd
  <2>2. Reg(d) \in P /\ l \in P
    BY <1>1, <1>2
  <2>3. QED
    BY <2>1, <2>2, OperandSequences
<1>5. QED
  BY <1>3, <1>4 DEF P

LEMMA LastOperands ==
    /\ R(Regs) \in SUBSET (Kinds \X Int)
    /\ {Imm(i) : i \in Imms} \in SUBSET (Kinds \X Int)
    /\ R(Regs) \cup {Imm(i) : i \in Imms} \in SUBSET (Kinds \X Int)
    /\ {Simm(o) : o \in Offsets} \in SUBSET (Kinds \X Int)
  BY Operand, Numbers DEF R

LEMMA MenusTyped ==
    ASSUME NEW menu \in Menus, NEW s \in menu
    PROVE  WellTyped(s)
<1> DEFINE M1 == Asks({"ADD", "ADDS", "ADDW", "SUB", "SUBS", "SUBW"}, "none",
                      RegsRegsAnd({Imm(i) : i \in Imms}))
           M2 == Asks({"ADD", "ADDS", "SUB", "SUBS"}, "none", RegsRegsAnd(R(Regs)))
           M3 == {[t EXCEPT !.cond = c] :
                      t \in Asks({"B"}, "none", {<<Simm(l)>> : l \in Labels}), c \in Conds}
           M4 == Asks({"BL"}, "none", {<<Simm(l)>> : l \in Labels})
           M5 == Asks({"BX", "BLX"}, "none", {<<Reg(m)>> : m \in Regs})
           M6 == Asks({"CMP", "MOV", "MOVS"}, "none",
                      RegsAnd(R(Regs) \cup {Imm(i) : i \in Imms}))
           M7 == Asks({"MOVW"}, "none", RegsAnd({Imm(i) : i \in Imms}))
           M8 == Asks({"NOP"}, "none", {<<>>})
           M9 == Asks({"PUSH", "POP"}, "none", {<<List(l)>> : l \in RegLists})
           M10 == Asks({"SVC", "UDF", "BKPT"}, "none", {<<Imm(i)>> : i \in Imms})
           P == Kinds \X Int
<1>1. ASSUME NEW m, NEW o, NEW mode, Takes(m, o), menu = Asks(m, mode, o)
      PROVE  WellTyped(s)
  BY <1>1, AsksTyped
<1>2. CASE menu = M1
  <2>1. Takes({"ADD", "ADDS", "ADDW", "SUB", "SUBS", "SUBW"}, RegsRegsAnd({Imm(i) : i \in Imms}))
    BY OperandLists, LastOperands DEF Takes, Mnemonics, OneNumber
  <2>2. QED
    BY <1>1, <1>2, <2>1
<1>3. CASE menu = M2
  <2>1. Takes({"ADD", "ADDS", "SUB", "SUBS"}, RegsRegsAnd(R(Regs)))
    BY OperandLists, LastOperands DEF Takes, Mnemonics, OneNumber
  <2>2. QED
    BY <1>1, <1>3, <2>1
<1>4. CASE menu = M3
  <2>1. Takes({"B"}, {<<Simm(l)>> : l \in Labels})
    <3>1. \A l \in Labels : <<Simm(l)>> \in Seq(P) /\ Len(<<Simm(l)>>) = 1
      BY Operand, OperandSequences, Numbers
    <3>2. QED
      BY <3>1 DEF Takes, Mnemonics, OneNumber
  <2>2. PICK t \in Asks({"B"}, "none", {<<Simm(l)>> : l \in Labels}), c \in Conds :
            s = [t EXCEPT !.cond = c]
    BY <1>4
  <2>3. WellTyped(t)
    BY <2>1, AsksTyped
  <2>4. t = Ins(t.mnemonic, t.cond, t.width, t.mode, t.operands)
    BY DEF Asks, Ins
  <2>5. c \in 0 .. 15
    BY ThumbAssumption
  <2>6. /\ s.mnemonic = t.mnemonic /\ s.width = t.width /\ s.cond = c
        /\ s.operands = t.operands
    BY <2>2, <2>4 DEF Ins
  <2>7. QED
    BY <2>3, <2>5, <2>6 DEF WellTyped
<1>5. CASE menu = M4
  <2>1. \A l \in Labels : <<Simm(l)>> \in Seq(P) /\ Len(<<Simm(l)>>) = 1
    BY Operand, OperandSequences, Numbers
  <2>2. Takes({"BL"}, {<<Simm(l)>> : l \in Labels})
    BY <2>1 DEF Takes, Mnemonics, OneNumber
  <2>3. QED
    BY <1>1, <1>5, <2>2
<1>6. CASE menu = M5
  <2>1. \A l \in Regs : <<Reg(l)>> \in Seq(P) /\ Len(<<Reg(l)>>) = 1
    BY Operand, OperandSequences, Numbers
  <2>2. Takes({"BX", "BLX"}, {<<Reg(m)>> : m \in Regs})
    BY <2>1 DEF Takes, Mnemonics, OneNumber
  <2>3. QED
    BY <1>1, <1>6, <2>2
<1>7. CASE menu = M6
  <2>1. \A x \in RegsAnd(R(Regs) \cup {Imm(i) : i \in Imms}) : x \in Seq(P)
    BY OperandLists, LastOperands
  <2>2. Takes({"CMP", "MOV", "MOVS"}, RegsAnd(R(Regs) \cup {Imm(i) : i \in Imms}))
    BY <2>1 DEF Takes, Mnemonics, OneNumber
  <2>3. QED
    BY <1>1, <1>7, <2>2
<1>8. CASE menu = M7
  <2>1. Takes({"MOVW"}, RegsAnd({Imm(i) : i \in Imms}))
    BY OperandLists, LastOperands DEF Takes, Mnemonics, OneNumber
  <2>2. QED
    BY <1>1, <1>8, <2>1
<1>9. CASE menu = M8
  <2>1. Takes({"NOP"}, {<<>>})
    BY OperandSequences DEF Takes, Mnemonics, OneNumber
  <2>2. QED
    BY <1>1, <1>9, <2>1
<1>10. CASE menu = M9
  <2>1. \A l \in RegLists : <<List(l)>> \in Seq(P)
    BY Operand, OperandSequences, Numbers
  <2>2. Takes({"PUSH", "POP"}, {<<List(l)>> : l \in RegLists})
    BY <2>1 DEF Takes, Mnemonics, OneNumber
  <2>3. QED
    BY <1>1, <1>10, <2>2
<1>11. CASE menu = M10
  <2>1. \A l \in Imms : <<Imm(l)>> \in Seq(P) /\ Len(<<Imm(l)>>) = 1
    BY Operand, OperandSequences, Numbers
  <2>2. Takes({"SVC", "UDF", "BKPT"}, {<<Imm(i)>> : i \in Imms})
    BY <2>1 DEF Takes, Mnemonics, OneNumber
  <2>3. QED
    BY <1>1, <1>11, <2>2
<1>12. CASE menu \in AsksLdr
  <2> DEFINE O1 == {<<Reg(t), Reg(15), Simm(o)>> : t \in Regs, o \in Offsets \cup Labels}
             O2 == RegsRegsAnd(R(Regs))
             O3 == {<<Reg(t), Reg(n), Reg(m), Lsl(k)>> :
                        t \in Regs, n \in Regs, m \in Regs, k \in Shifts}
             O4 == RegsRegsAnd({Simm(o) : o \in Offsets})
  <2>1. \A x \in O1 : x \in Seq(P)
    <3>1. \A t \in Regs : Reg(t) \in P
      BY Operand, Numbers
    <3>2. Reg(15) \in P
      BY Operand
    <3>3. \A o \in Offsets \cup Labels : Simm(o) \in P
      BY Operand, Numbers
    <3> HIDE DEF P
    <3>4. ASSUME NEW x \in O1
          PROVE  x \in Seq(P)
      <4>1. PICK t \in Regs, o \in Offsets \cup Labels : x = <<Reg(t), Reg(15), Simm(o)>>
        OBVIOUS
      <4>2. QED
        BY <3>1, <3>2, <3>3, <4>1, OperandSequences
    <3>5. QED
      BY <3>4
  <2>2. \A x \in O3 : x \in Seq(P)
    <3>1. (\A t \in Regs : Reg(t) \in P) /\ (\A k \in Shifts : Lsl(k) \in P)
      BY Operand, Numbers
    <3> HIDE DEF P
    <3>2. ASSUME NEW x \in O3
          PROVE  x \in Seq(P)
      <4>1. PICK t \in Regs, n \in Regs, m \in Regs, k \in Shifts :
                x = <<Reg(t), Reg(n), Reg(m), Lsl(k)>>
        OBVIOUS
      <4>2. Reg(t) \in P /\ Reg(n) \in P /\ Reg(m) \in P /\ Lsl(k) \in P
        BY <3>1
      <4>3. \A a, b, c, d \in P : <<a, b, c, d>> \in Seq(P)
        BY OperandSequences
      <4>4. PICK a \in P, b \in P, c \in P, d \in P : x = <<a, b, c, d>>
        BY <4>1, <4>2
      <4>5. QED
        BY <4>3, <4>4
    <3>3. QED
      BY <3>2
  <2>3. (\A x \in O2 : x \in Seq(P)) /\ (\A x \in O4 : x \in Seq(P))
    BY OperandLists, LastOperands
  <2>4. AsksLdr = {Asks({"LDR"}, "offset", O1), Asks({"LDR"}, "offset", O2),
                   Asks({"LDR"}, "offset", O3)}
                  \cup {Asks({"LDR"}, mode, O4) : mode \in {"offset", "pre", "post"}}
    BY DEF AsksLdr
  <2> HIDE DEF O1, O2, O3, O4
  <2>5. Takes({"LDR"}, O1) /\ Takes({"LDR"}, O2) /\ Takes({"LDR"}, O3) /\ Takes({"LDR"}, O4)
    BY <2>1, <2>2, <2>3 DEF Takes, Mnemonics, OneNumber
  <2>6. \/ menu = Asks({"LDR"}, "offset", O1) \/ menu = Asks({"LDR"}, "offset", O2)
        \/ menu = Asks({"LDR"}, "offset", O3)
        \/ \E mode \in {"offset", "pre", "post"} : menu = Asks({"LDR"}, mode, O4)
    BY <1>12, <2>4
  <2>7. QED
    BY <1>1, <2>5, <2>6
<1>13. Menus = {M1, M2, M3, M4, M5, M6, M7, M8, M9, M10} \cup AsksLdr
  BY DEF Menus
<1> HIDE DEF M1, M2, M3, M4, M5, M6, M7, M8, M9, M10
<1>14. QED
  BY <1>2, <1>3, <1>4, <1>5, <1>6, <1>7, <1>8, <1>9, <1>10, <1>11, <1>12, <1>13

-----------------------------------------------------------------------------
(***************************************************************************)
(* The round                                                               *)
(***************************************************************************)
\* While there is an instruction that was asked for, memory holds what the
\* assembler made of it.
WInv ==
    /\ phase = "menu" => asked = NoIns
    /\ asked # NoIns => /\ \E menu \in Menus : asked \in menu
                        /\ word = Assembled(asked)

LEMMA WInvStep == WInv /\ [Next]_vars => WInv'
<1> SUFFICES ASSUME WInv, [Next]_vars PROVE WInv'
  OBVIOUS
<1>1. ASSUME NEW menu \in Menus, NEW s \in menu, Assemble(s)
      PROVE  WInv'
  <2>1. asked' = s /\ word' = Assembled(s) /\ phase' # "menu"
    BY <1>1 DEF Assemble
  <2>2. QED
    BY <2>1 DEF WInv
<1>2. ASSUME NEW w \in OtherWords, PointAt(w)
      PROVE  WInv'
  <2>1. asked = NoIns /\ asked' = NoIns
    BY <1>2 DEF WInv, PointAt
  <2>2. QED
    BY <2>1 DEF WInv
<1>3. CASE ShowListing
  <2>1. asked' = asked /\ word' = word /\ phase' # "menu"
    BY <1>3 DEF ShowListing
  <2>2. QED
    BY <2>1 DEF WInv
<1>4. CASE Retype
  <2>1. asked' = asked /\ word' = word /\ phase' # "menu"
    BY <1>4 DEF Retype
  <2>2. QED
    BY <2>1 DEF WInv
<1>5. CASE Again
  BY <1>5 DEF Again, WInv
<1>6. CASE UNCHANGED vars
  BY <1>6 DEF vars, WInv
<1>7. QED
  BY <1>1, <1>2, <1>3, <1>4, <1>5, <1>6 DEF Next

\* A width that was asked for is the one the instruction has, and its first
\* halfword tells how long it is (thumb_is_wide_instruction), whatever the operands.
THEOREM ThumbWidthAsAsked == Spec => []WidthAsAsked
<1>1. Init => WInv
  BY DEF Init, WInv
<1>2. WInv => WidthAsAsked
  <2>1. ASSUME WInv, asked # NoIns, word # <<>>
        PROVE  /\ IsWide(word) <=> Len(word) = 2
               /\ asked.width # "auto" => (asked.width = "wide" <=> IsWide(word))
    <3>1. WellTyped(asked) /\ word = Assembled(asked)
      BY <2>1, MenusTyped DEF WInv
    <3>2. QED
      BY <2>1, <3>1, AssembledWidth
  <2>2. QED
    BY <2>1 DEF WidthAsAsked
<1>3. QED
  BY <1>1, <1>2, WInvStep, PTL DEF Spec

\* What is listed is what is in memory; nothing is before something is assembled.
ListedInv ==
    /\ WInv
    /\ phase = "menu" => listed = NoIns
    /\ phase = "assembled" /\ asked # NoIns => word # <<>>
    /\ asked # NoIns /\ listed # NoIns => word # <<>> /\ listed = Disassembled(word)

LEMMA ListedInvStep == ListedInv /\ [Next]_vars => ListedInv'
<1> SUFFICES ASSUME ListedInv, [Next]_vars PROVE ListedInv'
  OBVIOUS
<1>1. WInv'
  BY WInvStep DEF ListedInv
<1>2. ASSUME NEW menu \in Menus, NEW s \in menu, Assemble(s)
      PROVE  ListedInv'
  <2>1. listed = NoIns /\ listed' = NoIns
    BY <1>2 DEF ListedInv, Assemble
  <2>2. phase' = "assembled" => word' # <<>>
    BY <1>2 DEF Assemble
  <2>3. phase' # "menu"
    BY <1>2 DEF Assemble
  <2>4. QED
    BY <1>1, <2>1, <2>2, <2>3 DEF ListedInv
<1>3. ASSUME NEW w \in OtherWords, PointAt(w)
      PROVE  ListedInv'
  <2>1. asked = NoIns /\ asked' = NoIns /\ phase' = "assembled"
    BY <1>3 DEF ListedInv, WInv, PointAt
  <2>2. QED
    BY <1>1, <2>1 DEF ListedInv
<1>4. CASE ShowListing
  <2>1. /\ asked' = asked /\ word' = word /\ listed' = Disassembled(word)
        /\ phase = "assembled" /\ phase' \in {"halted", "listed"}
    BY <1>4 DEF ShowListing
  <2>2. QED
    BY <1>1, <2>1 DEF ListedInv
<1>5. CASE Retype
  <2>1. asked' = asked /\ word' = word /\ listed' = listed /\ phase' = "retyped"
    BY <1>5 DEF Retype
  <2>2. QED
    BY <1>1, <2>1 DEF ListedInv
<1>6. CASE Again
  <2>1. asked' = NoIns /\ listed' = NoIns /\ phase' = "menu"
    BY <1>6 DEF Again
  <2>2. QED
    BY <1>1, <2>1 DEF ListedInv
<1>7. CASE UNCHANGED vars
  BY <1>1, <1>7 DEF vars, ListedInv
<1>8. QED
  BY <1>2, <1>3, <1>4, <1>5, <1>6, <1>7 DEF Next

\* The listing of what was assembled never reaches thumb_disassemble's
\* ASSERT_NOT_REACHED (thumb_asm.c:221) and has no condition without a name, whatever
\* the operands were, unless a literal is 2 KiB below or farther.
THEOREM ThumbPrintableUnlessFar == Spec => []PrintableUnlessFar
<1>1. Init => ListedInv
  BY DEF Init, ListedInv, WInv
<1>2. ListedInv => PrintableUnlessFar
  <2>1. ASSUME ListedInv, asked # NoIns, ~FarLiteral(asked)
        PROVE  Printable(listed)
    <3>1. WellTyped(asked) /\ word = Assembled(asked)
      BY <2>1, MenusTyped DEF ListedInv, WInv
    <3>2. CASE listed = NoIns
      BY <3>2 DEF NoIns, Ins, Printable
    <3>3. CASE listed # NoIns
      <4>1. word # <<>> /\ listed = Disassembled(word)
        BY <2>1, <3>3 DEF ListedInv
      <4>2. QED
        BY <2>1, <3>1, <4>1, AssembledPrinted
    <3>4. QED
      BY <3>2, <3>3
  <2>2. QED
    BY <2>1 DEF PrintableUnlessFar, Printable
<1>3. QED
  BY <1>1, <1>2, ListedInvStep, PTL DEF Spec

=============================================================================
