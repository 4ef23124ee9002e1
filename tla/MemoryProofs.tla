---------------------------- MODULE MemoryProofs ----------------------------
(***************************************************************************)
(* Theorems about Memory for every size of an entry, every stack ceiling   *)
(* and any number of names, addresses and sizes.                           *)
(*                                                                         *)
(* The list is built in steps, so that the invariants the code relies on   *)
(* have to be carried through a creation: CreationInv says how the last    *)
(* entry and the pending operation belong together at each of them.        *)
(***************************************************************************)
EXTENDS Memory, Induction, SequenceTheorems, TLAPS

\* First is the least of the hits, and 0 only when there is none.
LEMMA FirstIs ==
    ASSUME NEW hits \in SUBSET (Nat \ {0})
    PROVE  /\ hits = {} => First(hits) = 0
           /\ hits # {} => First(hits) \in hits /\ \A j \in hits : First(hits) <= j
<1>1. CASE hits # {}
  <2>1. \E i \in hits : \A j \in hits : i <= j
        BY <1>1, Least
  <2> QED BY <1>1, <2>1 DEF First
<1> QED BY <1>1 DEF First

\* The whole entries of an allocation hold the bytes asked for.
LEMMA RoundUp ==
    ASSUME NEW size \in Nat
    PROVE  EntriesFor(size) \in Nat /\ EntriesFor(size) * EntrySize >= size
    BY MemoryAssumption DEF EntriesFor

LEMMA SetBitType == \A p \in Nat : SetBit(p) \in Nat
    BY DEF SetBit

LEMMA NothingExtra == EntriesFor(0) * EntrySize = 0
    BY MemoryAssumption DEF EntriesFor

(***************************************************************************)
(* The inductive invariant.                                                *)
(***************************************************************************)
IsLabelOp == op.kind \in {"code", "data"}

CreationInv ==
    /\ pc = "idle" <=> op.kind = "none"
    /\ op.kind = "alloc" => pc = "linked"
    /\ op.kind # "alloc" => op.size = 0
    /\ pc = "named" => op.kind = "code"
    /\ IsLabelOp => op.name \in Names
    /\ pc # "idle" => Last > 1
    /\ pc = "filled" => entries[Last].type = op.kind /\ entries[Last].name = NoName
    /\ pc = "named" => entries[Last].type = "code" /\ entries[Last].name = op.name
    /\ \A i \in 1 .. Last : entries[i].type = "raw" <=> pc = "linked" /\ i = Last
    /\ entries[1].type = "section"

GapInv ==
    pc = "linked" =>
        entries[Last].at + EntrySize + EntriesFor(op.size) * EntrySize
           = entries[Last - 1].at

NamesInv ==
    /\ \A i \in 1 .. Last :
          IsLabel(i) /\ entries[i].name = NoName => pc = "filled" /\ i = Last
    /\ pc \in {"linked", "filled"} /\ IsLabelOp =>
          \A i \in 1 .. Last : IsLabel(i) => entries[i].name # op.name
    /\ UniqueNames

HeldInv ==
    /\ \A h \in held : h[1] \in 1 .. Last
    /\ HeldAlone

Inv == TypeOK /\ CreationInv /\ GapInv /\ Tiled /\ NamesInv /\ HeldInv

USE DEF IsLabelOp, IsLabel

(***************************************************************************)
(* The two ways in which the list changes.                                 *)
(***************************************************************************)
LEMMA Grown ==
    ASSUME NEW e \in Entry, TypeOK, entries' = Append(entries, e)
    PROVE  /\ entries' \in Seq(Entry) /\ entries' # <<>>
           /\ Last \in Nat \ {0} /\ Last' = Last + 1 /\ Len(entries') = Last'
           /\ \A i \in 1 .. Last : entries'[i] = entries[i] /\ entries[i] \in Entry
           /\ entries'[Last + 1] = e
    BY AppendProperties, EmptySeq DEF TypeOK, Last

LEMMA Changed ==
    ASSUME NEW k \in 1 .. Len(entries), NEW e \in Entry, TypeOK,
           entries' = [entries EXCEPT ![k] = e]
    PROVE  /\ entries' \in Seq(Entry) /\ entries' # <<>>
           /\ Last \in Nat \ {0} /\ Last' = Last /\ Len(entries') = Last'
           /\ \A i \in 1 .. Last :
                 entries[i] \in Entry /\ entries'[i] = IF i = k THEN e ELSE entries[i]
<1>1. entries \in Seq(Entry) /\ Len(entries) \in Nat \ {0}
      BY EmptySeq DEF TypeOK
<1>2. /\ entries' \in Seq(Entry) /\ Len(entries') = Len(entries)
      /\ \A i \in 1 .. Len(entries) : entries'[i] = IF i = k THEN e ELSE entries[i]
      BY <1>1, ExceptSeq
<1>3. entries' # <<>>
      BY <1>1, <1>2, EmptySeq
<1>4. \A i \in 1 .. Len(entries) : entries[i] \in Entry
      BY <1>1, ElementOfSeq
<1> QED BY <1>1, <1>2, <1>3, <1>4 DEF Last

\* A new entry, still raw, below the last one.
LEMMA Linked ==
    ASSUME NEW extra \in Nat, TypeOK, Link(extra)
    PROVE  LET e == Cell(NewAt(extra), "raw", 0, 0, FALSE)
           IN  /\ e \in Entry
               /\ entries' = Append(entries, e)
               /\ e.at + EntrySize + EntriesFor(extra) * EntrySize = entries[Last].at
<1>1. Last \in Nat \ {0} /\ entries[Last] \in Entry
      BY EmptySeq, ElementOfSeq DEF TypeOK, Last
<1>2. EntriesFor(extra) * EntrySize \in Nat
      BY RoundUp, MemoryAssumption
<1>3. NewAt(extra) \in Nat
      BY <1>1, <1>2, MemoryAssumption DEF Link, NewAt, Entry
<1> QED BY <1>1, <1>2, <1>3, MemoryAssumption DEF Link, NewAt, Cell, Entry, Types

LEMMA InitInv == Init => Inv
<1> SUFFICES ASSUME Init PROVE Inv
    OBVIOUS
<1> DEFINE e == Cell(Ceiling - EntrySize, "section", UserStart, 0, FALSE)
<1>1. e \in Entry /\ entries = <<e>>
      BY MemoryAssumption DEF Init, Cell, Entry, Types
<1> HIDE DEF e
<1>2. Last = 1 /\ entries[1] = e /\ entries \in Seq(Entry) /\ entries # <<>>
      BY <1>1 DEF Last
<1> USE DEF e
<1>3. TypeOK
      BY <1>2 DEF Init, TypeOK, OpType, NoOp
<1>4. CreationInv
      BY <1>2 DEF Init, CreationInv, NoOp, Cell
<1>5. GapInv
      BY DEF Init, GapInv
<1>6. Tiled
      BY <1>2, MemoryAssumption DEF Tiled, End, Cell, Last
<1>7. NamesInv
      BY <1>2 DEF NamesInv, UniqueNames, Init, NoOp, Cell, Last
<1>8. HeldInv
      BY DEF HeldInv, HeldAlone, Init
<1> QED BY <1>3, <1>4, <1>6, <1>7, <1>8, <1>5 DEF Inv

LEMMA StepInv == Inv /\ [Next]_vars => Inv'
<1> SUFFICES ASSUME Inv, [Next]_vars PROVE Inv'
    OBVIOUS
<1> USE MemoryAssumption
<1>0. /\ TypeOK /\ CreationInv /\ GapInv /\ Tiled /\ NamesInv /\ HeldInv
      /\ Last \in Nat \ {0} /\ Last = Len(entries)
      /\ \A i \in 1 .. Last : entries[i] \in Entry
      BY EmptySeq, ElementOfSeq DEF Inv, TypeOK, Last
<1>1. ASSUME NEW n \in Names, NEW p \in Pointers, NEW code \in BOOLEAN,
            CreateLabel(n, p, code) PROVE Inv'
  <2> DEFINE e == Cell(NewAt(0), "raw", 0, 0, FALSE)
  <2>0. 0 \in Nat /\ Link(0)
        BY <1>1 DEF CreateLabel
  <2>1. /\ e \in Entry /\ entries' = Append(entries, e)
        /\ e.at + EntrySize + EntriesFor(0) * EntrySize = entries[Last].at
        BY <1>0, <2>0, Linked
  <2>2. e.type = "raw" /\ e.name = NoName
        BY DEF Cell
  <2>3. /\ pc = "idle" /\ pc' = "linked" /\ held' = held
        /\ op'.kind \in {"code", "data"} /\ op'.name = n
        /\ op'.addr = p /\ op'.size = 0 /\ op' \in OpType
        BY <1>1 DEF CreateLabel, LabelOp, OpType
  <2> HIDE DEF e
  <2>4. /\ entries' \in Seq(Entry) /\ entries' # <<>>
        /\ Last' = Last + 1 /\ Len(entries') = Last'
        /\ \A i \in 1 .. Last : entries'[i] = entries[i]
        /\ entries'[Last + 1] = e
        BY <1>0, <2>1, Grown
  <2>5. \A i \in 1 .. Last : IsLabel(i) => entries[i].name # n
    <3> DEFINE hits == {i \in 1 .. Len(entries) : IsLabel(i) /\ entries[i].name = n}
    <3>1. hits \in SUBSET (Nat \ {0})
          BY <1>0
    <3>2. First(hits) = 0
          BY Zenon, <1>1 DEF CreateLabel, LookupLabel
    <3>3. hits = {}
      <4> HIDE DEF hits
      <4> QED BY <3>1, <3>2, FirstIs
    <3> QED BY <3>3, <1>0
  <2>6. TypeOK'
        BY <1>0, <2>1, <2>2, <2>3, <2>4, <2>5 DEF TypeOK, OpType, NoOp, Entry
  <2>7. CreationInv'
    <3>1. \A i \in 1 .. Last' : entries'[i].type = "raw" <=> i = Last'
          BY <1>0, <2>2, <2>3, <2>4 DEF CreationInv
    <3>2. entries'[1].type = "section"
          BY <1>0, <2>4 DEF CreationInv
    <3> QED BY <1>0, <2>3, <2>4, <3>1, <3>2 DEF CreationInv
  <2>8. Tiled'
        BY <1>0, <2>1, <2>2, <2>3, <2>4, <2>5 DEF Tiled, End, CreationInv
  <2>9. NamesInv'
        BY <1>0, <2>1, <2>2, <2>3, <2>4, <2>5 DEF NamesInv, UniqueNames, CreationInv
  <2>10. HeldInv'
        BY <1>0, <2>1, <2>2, <2>3, <2>4, <2>5 DEF HeldInv, HeldAlone, CreationInv
  <2>11. GapInv'
        BY <1>0, <2>1, <2>2, <2>3, <2>4, <2>5 DEF GapInv
  <2> QED BY <2>6, <2>7, <2>8, <2>9, <2>10, <2>11 DEF Inv
<1>2. CASE FillLabel
  <2> DEFINE e == Cell(entries[Last].at, op.kind, op.addr, 0, FALSE)
  <2>0. Last \in 1 .. Len(entries) /\ entries[Last] \in Entry /\ op.name \in Names
        BY <1>0, <1>2 DEF FillLabel, CreationInv
  <2>1. e \in Entry /\ entries' = [entries EXCEPT ![Last] = e] /\ Last \in 1 .. Len(entries)
        BY <1>0, <2>0, <1>2 DEF FillLabel, TypeOK, OpType, Cell, Entry, Types
  <2>2. e.at = entries[Last].at /\ e.type = op.kind /\ e.name = NoName
        BY <1>0, <1>2 DEF FillLabel, TypeOK, OpType, Cell, Entry
  <2>3. /\ pc = "linked" /\ op.kind \in {"code", "data"}
        /\ pc' = "filled" /\ op' = op /\ held' = held
        BY <1>2 DEF FillLabel, NoOp
  <2> HIDE DEF e
  <2>4. /\ entries' \in Seq(Entry) /\ entries' # <<>>
        /\ Last' = Last /\ Len(entries') = Last'
        /\ \A i \in 1 .. Last : entries'[i] = IF i = Last THEN e ELSE entries[i]
        BY <1>0, <2>1, Changed
  <2>5. TypeOK'
        BY <1>0, <2>1, <2>2, <2>3, <2>4, NothingExtra DEF TypeOK, OpType, NoOp, Entry
  <2>6. CreationInv'
        BY <1>0, <2>1, <2>2, <2>3, <2>4, NothingExtra DEF CreationInv
  <2>7. Tiled'
    <3>1. op.size = 0 /\ Last - 1 \in 1 .. Last /\ Last # 1
          BY <1>0, <2>3 DEF CreationInv
    <3>2. entries[Last].at + EntrySize = entries[Last - 1].at
      <4>1. entries[Last].at + EntrySize + EntriesFor(0) * EntrySize = entries[Last - 1].at
            BY <1>0, <2>3, <3>1 DEF GapInv
      <4>2. entries[Last].at + EntrySize \in Nat
            BY <2>0 DEF Entry
      <4> QED BY <4>1, <4>2, NothingExtra
    <3>3. e.type # "alloc"
      <4>1. op.kind # "alloc"
            BY <2>3
      <4> QED BY <2>2, <4>1
    <3>4. \A i \in 1 .. Last : /\ entries'[i].at = entries[i].at
                              /\ i # Last => End(i)' = End(i)
          BY <2>2, <2>4 DEF End
    <3>5. \A i \in 1 .. Last : i # Last => entries[i].type # "raw"
          BY <1>0 DEF CreationInv
    <3>6. End(1)' = Ceiling
          BY <1>0, <2>4, <3>1 DEF Tiled, End
    <3>7. ASSUME NEW i \in 2 .. Last PROVE End(i)' = entries'[i - 1].at
      <4>1. i \in 1 .. Last /\ i - 1 \in 1 .. Last
            BY <1>0
      <4>2. CASE i = Last
        <5>1. entries'[i] = e /\ entries'[i - 1] = entries[Last - 1]
              BY <1>0, <2>4, <4>1, <4>2
        <5>2. End(i)' = e.at + EntrySize + 0
              BY <5>1, <3>3 DEF End
        <5>3. e.at + EntrySize + 0 = entries[Last - 1].at
              BY <2>0, <2>2, <3>2 DEF Entry
        <5> QED BY <5>1, <5>2, <5>3
      <4>3. CASE i # Last
        <5>1. End(i) = entries[i - 1].at
              BY <1>0, <3>5, <4>1, <4>3 DEF Tiled, End
        <5> QED BY <2>4, <3>4, <4>1, <4>3, <5>1 DEF End
      <4> QED BY <4>2, <4>3
    <3> QED BY <2>4, <3>6, <3>7 DEF Tiled
  <2>8. NamesInv'
        BY <1>0, <2>1, <2>2, <2>3, <2>4, NothingExtra DEF NamesInv, UniqueNames, CreationInv
  <2>9. HeldInv'
        BY <1>0, <2>1, <2>2, <2>3, <2>4, NothingExtra DEF HeldInv, HeldAlone, CreationInv
  <2>10. GapInv'
        BY <1>0, <2>1, <2>2, <2>3, <2>4, NothingExtra DEF GapInv
  <2> QED BY <2>5, <2>6, <2>7, <2>8, <2>9, <2>10 DEF Inv
<1>3. CASE NameData
  <2> DEFINE e == [entries[Last] EXCEPT !.name = op.name]
  <2>0. Last \in 1 .. Len(entries) /\ entries[Last] \in Entry /\ op.name \in Names
        BY <1>0, <1>3 DEF NameData, CreationInv
  <2>1. e \in Entry /\ entries' = [entries EXCEPT ![Last] = e] /\ Last \in 1 .. Len(entries)
        BY <1>0, <2>0, <1>3 DEF NameData, TypeOK, OpType, Entry, Types
  <2>2. /\ e.at = entries[Last].at /\ e.type = entries[Last].type
        /\ e.name = op.name /\ e.size = entries[Last].size
        BY <1>0, <1>3 DEF NameData, TypeOK, OpType, Entry
  <2>3. /\ pc = "filled" /\ op.kind = "data"
        /\ pc' = "idle" /\ op' = NoOp /\ op'.kind = "none" /\ op'.size = 0
        /\ held' = held
        BY <1>3 DEF NameData, NoOp
  <2> HIDE DEF e
  <2>4. /\ entries' \in Seq(Entry) /\ entries' # <<>>
        /\ Last' = Last /\ Len(entries') = Last'
        /\ \A i \in 1 .. Last : entries'[i] = IF i = Last THEN e ELSE entries[i]
        BY <1>0, <2>1, Changed
  <2>5. TypeOK'
        BY <1>0, <2>1, <2>2, <2>3, <2>4 DEF TypeOK, OpType, NoOp, Entry
  <2>6. CreationInv'
        BY <1>0, <2>1, <2>2, <2>3, <2>4 DEF CreationInv
  <2>7. Tiled'
        BY <1>0, <2>1, <2>2, <2>3, <2>4 DEF Tiled, End, CreationInv
  <2>8. NamesInv'
        BY <1>0, <2>1, <2>2, <2>3, <2>4 DEF NamesInv, UniqueNames, CreationInv
  <2>9. HeldInv'
        BY <1>0, <2>1, <2>2, <2>3, <2>4 DEF HeldInv, HeldAlone, CreationInv
  <2>10. GapInv'
        BY <1>0, <2>1, <2>2, <2>3, <2>4 DEF GapInv
  <2> QED BY <2>5, <2>6, <2>7, <2>8, <2>9, <2>10 DEF Inv
<1>4. CASE NameCode
  <2> DEFINE e == [entries[Last] EXCEPT !.name = op.name]
  <2>0. Last \in 1 .. Len(entries) /\ entries[Last] \in Entry /\ op.name \in Names
        BY <1>0, <1>4 DEF NameCode, CreationInv
  <2>1. e \in Entry /\ entries' = [entries EXCEPT ![Last] = e] /\ Last \in 1 .. Len(entries)
        BY <1>0, <2>0, <1>4 DEF NameCode, TypeOK, OpType, Entry, Types
  <2>2. /\ e.at = entries[Last].at /\ e.type = entries[Last].type
        /\ e.name = op.name /\ e.size = entries[Last].size
        BY <1>0, <1>4 DEF NameCode, TypeOK, OpType, Entry
  <2>3. /\ pc = "filled" /\ op.kind = "code"
        /\ pc' = "named" /\ op' = op /\ held' = held
        BY <1>4 DEF NameCode, NoOp
  <2> HIDE DEF e
  <2>4. /\ entries' \in Seq(Entry) /\ entries' # <<>>
        /\ Last' = Last /\ Len(entries') = Last'
        /\ \A i \in 1 .. Last : entries'[i] = IF i = Last THEN e ELSE entries[i]
        BY <1>0, <2>1, Changed
  <2>5. TypeOK'
        BY <1>0, <2>1, <2>2, <2>3, <2>4 DEF TypeOK, OpType, NoOp, Entry
  <2>6. CreationInv'
        BY <1>0, <2>1, <2>2, <2>3, <2>4 DEF CreationInv
  <2>7. Tiled'
        BY <1>0, <2>1, <2>2, <2>3, <2>4 DEF Tiled, End, CreationInv
  <2>8. NamesInv'
        BY <1>0, <2>1, <2>2, <2>3, <2>4 DEF NamesInv, UniqueNames, CreationInv
  <2>9. HeldInv'
        BY <1>0, <2>1, <2>2, <2>3, <2>4 DEF HeldInv, HeldAlone, CreationInv
  <2>10. GapInv'
        BY <1>0, <2>1, <2>2, <2>3, <2>4 DEF GapInv
  <2> QED BY <2>5, <2>6, <2>7, <2>8, <2>9, <2>10 DEF Inv
<1>5. CASE SetInterwork
  <2> DEFINE e == [entries[Last] EXCEPT !.addr = SetBit(entries[Last].addr)]
  <2>0. Last \in 1 .. Len(entries) /\ entries[Last] \in Entry /\ op.name \in Names
        BY <1>0, <1>5 DEF SetInterwork, CreationInv
  <2>1. e \in Entry /\ entries' = [entries EXCEPT ![Last] = e] /\ Last \in 1 .. Len(entries)
        BY <1>0, <2>0, <1>5, SetBitType DEF SetInterwork, TypeOK, OpType, Entry, Types
  <2>2. /\ e.at = entries[Last].at /\ e.type = entries[Last].type
        /\ e.name = entries[Last].name /\ e.size = entries[Last].size
        BY <1>0, <2>0, <1>5 DEF SetInterwork, TypeOK, OpType, Entry
  <2>3. /\ pc = "named"
        /\ pc' = "idle" /\ op' = NoOp /\ op'.kind = "none" /\ op'.size = 0
        /\ held' = held
        BY <1>5 DEF SetInterwork, NoOp
  <2> HIDE DEF e
  <2>4. /\ entries' \in Seq(Entry) /\ entries' # <<>>
        /\ Last' = Last /\ Len(entries') = Last'
        /\ \A i \in 1 .. Last : entries'[i] = IF i = Last THEN e ELSE entries[i]
        BY <1>0, <2>1, Changed
  <2>5. TypeOK'
        BY <1>0, <2>1, <2>2, <2>3, <2>4 DEF TypeOK, OpType, NoOp, Entry
  <2>6. CreationInv'
        BY <1>0, <2>1, <2>2, <2>3, <2>4 DEF CreationInv
  <2>7. Tiled'
        BY <1>0, <2>1, <2>2, <2>3, <2>4 DEF Tiled, End, CreationInv
  <2>8. NamesInv'
        BY <1>0, <2>1, <2>2, <2>3, <2>4 DEF NamesInv, UniqueNames, CreationInv
  <2>9. HeldInv'
        BY <1>0, <2>1, <2>2, <2>3, <2>4 DEF HeldInv, HeldAlone, CreationInv
  <2>10. GapInv'
        BY <1>0, <2>1, <2>2, <2>3, <2>4 DEF GapInv
  <2> QED BY <2>5, <2>6, <2>7, <2>8, <2>9, <2>10 DEF Inv
<1>6. ASSUME NEW size \in Sizes, AllocReuse(size) PROVE Inv'
  <2> DEFINE i == FindFreeAllocation(size)
  <2>0. i # 0 => /\ i \in 1 .. Last /\ entries[i].type = "alloc"
                 /\ ~entries[i].used /\ entries[i].size >= size
    <3> DEFINE hits == {j \in 1 .. Len(entries) :
                          /\ entries[j].type = "alloc" /\ ~entries[j].used
                          /\ entries[j].size >= size}
    <3>1. hits \in SUBSET (Nat \ {0}) /\ First(hits) = i
          BY <1>0 DEF FindFreeAllocation
    <3>2. i # 0 => i \in hits
      <4> HIDE DEF hits
      <4> QED BY <3>1, FirstIs
    <3> QED BY <3>2, <1>0
  <2> DEFINE e == [entries[i] EXCEPT !.used = TRUE]
  <2>1. /\ i \in 1 .. Len(entries) /\ e \in Entry
        /\ entries' = [entries EXCEPT ![i] = e]
        BY <1>0, <1>6, <2>0 DEF AllocReuse, Entry
  <2>2. /\ e.at = entries[i].at /\ e.type = entries[i].type /\ e.name = entries[i].name
        /\ e.size = entries[i].size /\ e.used /\ e.size >= size /\ e.type = "alloc"
        /\ ~entries[i].used
        BY <1>0, <1>6, <2>0 DEF AllocReuse, Entry
  <2>3. /\ pc = "idle" /\ pc' = pc /\ op' = op
        /\ held' = held \cup {<<i, size>>} /\ size \in Nat
        BY <1>6 DEF AllocReuse
  <2> HIDE DEF e, i
  <2>4. /\ entries' \in Seq(Entry) /\ entries' # <<>>
        /\ Last' = Last /\ Len(entries') = Last'
        /\ \A j \in 1 .. Last : entries'[j] = IF j = i THEN e ELSE entries[j]
        BY <1>0, <2>1, Changed
  <2>5. TypeOK'
    <3>1. /\ pc' \in {"idle", "linked", "filled", "named"} /\ op' \in OpType
          /\ held \subseteq (Nat \ {0}) \X Nat
      BY <1>0, <2>3 DEF TypeOK
    <3>2. i \in Nat \ {0}
      BY <2>1
    <3>3. held' \subseteq (Nat \ {0}) \X Nat
      BY <2>3, <3>1, <3>2
    <3> QED BY <2>4, <3>1, <3>3 DEF TypeOK
  <2>6. CreationInv'
    <3>1. \A j \in 1 .. Last : entries'[j].type = entries[j].type
          BY <2>2, <2>4
    <3> QED BY <1>0, <2>3, <2>4, <3>1 DEF CreationInv
  <2>7. Tiled'
    <3>1. \A j \in 1 .. Last : /\ entries'[j].at = entries[j].at
                              /\ entries'[j].type = entries[j].type
                              /\ entries'[j].size = entries[j].size
          BY <2>2, <2>4
    <3>2. \A j \in 1 .. Last : End(j)' = End(j)
          BY <3>1 DEF End
    <3> QED BY <1>0, <2>4, <3>1, <3>2 DEF Tiled
  <2>8. NamesInv'
        BY <1>0, <2>1, <2>2, <2>3, <2>4 DEF NamesInv, UniqueNames, CreationInv
  <2>9. HeldInv'
        BY <1>0, <2>1, <2>2, <2>3, <2>4 DEF HeldInv, HeldAlone, CreationInv
  <2>10. GapInv'
        BY <1>0, <2>1, <2>2, <2>3, <2>4 DEF GapInv
  <2> QED BY <2>5, <2>6, <2>7, <2>8, <2>9, <2>10 DEF Inv
<1>7. ASSUME NEW size \in Sizes, AllocNew(size) PROVE Inv'
  <2> DEFINE e == Cell(NewAt(size), "raw", 0, 0, FALSE)
  <2>0. size \in Nat /\ Link(size)
        BY <1>7 DEF AllocNew
  <2>1. /\ e \in Entry /\ entries' = Append(entries, e)
        /\ e.at + EntrySize + EntriesFor(size) * EntrySize = entries[Last].at
        BY <1>0, <2>0, Linked
  <2>2. e.type = "raw" /\ e.name = NoName
        BY DEF Cell
  <2>3. /\ pc = "idle" /\ pc' = "linked" /\ held' = held
        /\ op'.kind = "alloc" /\ op'.size = size /\ op' \in OpType
        BY <1>7 DEF AllocNew, NoOp, OpType
  <2> HIDE DEF e
  <2>4. /\ entries' \in Seq(Entry) /\ entries' # <<>>
        /\ Last' = Last + 1 /\ Len(entries') = Last'
        /\ \A i \in 1 .. Last : entries'[i] = entries[i]
        /\ entries'[Last + 1] = e
        BY <1>0, <2>1, Grown
  <2>5. TypeOK'
        BY <1>0, <2>1, <2>2, <2>3, <2>4 DEF TypeOK, OpType, NoOp, Entry
  <2>6. CreationInv'
        BY <1>0, <2>1, <2>2, <2>3, <2>4 DEF CreationInv
  <2>7. Tiled'
        BY <1>0, <2>1, <2>2, <2>3, <2>4 DEF Tiled, End, CreationInv
  <2>8. NamesInv'
        BY <1>0, <2>1, <2>2, <2>3, <2>4 DEF NamesInv, UniqueNames, CreationInv
  <2>9. HeldInv'
        BY <1>0, <2>1, <2>2, <2>3, <2>4 DEF HeldInv, HeldAlone, CreationInv
  <2>10. GapInv'
        BY <1>0, <2>1, <2>2, <2>3, <2>4 DEF GapInv
  <2> QED BY <2>5, <2>6, <2>7, <2>8, <2>9, <2>10 DEF Inv
<1>8. CASE FillAlloc
  <2> DEFINE at   == entries[Last].at
             size == entries[Last - 1].at - (at + EntrySize)
             e    == Cell(at, "alloc", at + EntrySize, size, TRUE)
  <2>1. size \in Nat /\ size >= op.size
    <3>1. /\ Last - 1 \in 1 .. Last /\ op.size \in Nat
          /\ at + EntrySize + EntriesFor(op.size) * EntrySize = entries[Last - 1].at
          BY <1>0, <1>8 DEF FillAlloc, CreationInv, GapInv, TypeOK, OpType
    <3>2. at \in Nat /\ entries[Last - 1].at \in Nat
          BY <1>0, <3>1 DEF Entry
    <3>3. EntriesFor(op.size) * EntrySize >= op.size
          BY <3>1, RoundUp
    <3>4. EntriesFor(op.size) * EntrySize \in Nat
          BY <3>1, RoundUp
    <3> QED BY <3>1, <3>2, <3>3, <3>4
  <2>2. /\ e \in Entry /\ entries' = [entries EXCEPT ![Last] = e]
        /\ Last \in 1 .. Len(entries)
        BY <1>0, <1>8, <2>1 DEF FillAlloc, Cell, Entry, Types
  <2>3. /\ e.at = at /\ e.type = "alloc" /\ e.name = NoName /\ e.used
        /\ e.size = size
        BY DEF Cell
  <2>4. at + EntrySize + size = entries[Last - 1].at
    <3>1. Last \in 1 .. Last /\ Last - 1 \in 1 .. Last
          BY <1>0, <1>8 DEF FillAlloc, CreationInv
    <3>2. at \in Nat /\ entries[Last - 1].at \in Nat
          BY <1>0, <3>1 DEF Entry
    <3> QED BY <3>2
  <2>5. /\ pc = "linked" /\ op.kind = "alloc" /\ op.size \in Nat
        /\ pc' = "idle" /\ op' = NoOp /\ op'.kind = "none" /\ op'.size = 0
        /\ held' = held \cup {<<Last, op.size>>}
        BY <1>0, <1>8 DEF FillAlloc, NoOp, TypeOK, OpType
  <2> HIDE DEF e
  <2>6. /\ entries' \in Seq(Entry) /\ entries' # <<>>
        /\ Last' = Last /\ Len(entries') = Last'
        /\ \A i \in 1 .. Last : entries'[i] = IF i = Last THEN e ELSE entries[i]
        BY <1>0, <2>2, Changed
  <2>7. TypeOK'
    <3>1. held' \subseteq (Nat \ {0}) \X Nat
          BY <1>0, <2>5 DEF TypeOK
    <3>2. op' \in OpType
          BY <2>5 DEF OpType, NoOp
    <3> QED BY <2>5, <2>6, <3>1, <3>2 DEF TypeOK
  <2>8. CreationInv'
        BY <1>0, <2>1, <2>2, <2>3, <2>4, <2>5, <2>6 DEF CreationInv
  <2>9. Tiled'
        BY <1>0, <2>1, <2>2, <2>3, <2>4, <2>5, <2>6 DEF Tiled, End, CreationInv
  <2>10. NamesInv'
        BY <1>0, <2>1, <2>2, <2>3, <2>4, <2>5, <2>6 DEF NamesInv, UniqueNames, CreationInv
  <2>11. HeldInv'
    <3> DEFINE new == <<Last, op.size>>
    <3>1. Last \in 1 .. Last /\ entries[Last].type = "raw"
          BY <1>0, <2>5 DEF CreationInv
    <3>2. \A h \in held : /\ h[1] \in 1 .. Last /\ h[1] # Last
                         /\ entries'[h[1]] = entries[h[1]]
          BY <1>0, <2>6, <3>1 DEF HeldInv, HeldAlone
    <3>3. new[1] = Last /\ new[2] = op.size /\ entries'[Last] = e
          BY <2>6, <3>1
    <3>4. held' = held \cup {new}
          BY <2>5
    <3>5. \A h \in held' : h \in held \/ h = new
          BY <3>4
    <3> HIDE DEF new
    <3>6. \A h \in held' : h[1] \in 1 .. Last'
          BY <1>0, <2>6, <3>1, <3>2, <3>3, <3>5
    <3>7. \A h \in held' : /\ entries'[h[1]].type = "alloc" /\ entries'[h[1]].used
                          /\ entries'[h[1]].size >= h[2]
          BY <1>0, <2>1, <2>3, <3>2, <3>3, <3>5 DEF HeldInv, HeldAlone
    <3>8. \A g, h \in held' : g[1] = h[1] => g = h
          BY <1>0, <3>2, <3>3, <3>5 DEF HeldInv, HeldAlone
    <3> QED BY <3>6, <3>7, <3>8 DEF HeldInv, HeldAlone
  <2>12. GapInv'
        BY <1>0, <2>1, <2>2, <2>3, <2>4, <2>5, <2>6 DEF GapInv
  <2> QED BY <2>7, <2>8, <2>9, <2>10, <2>11, <2>12 DEF Inv
<1>9. ASSUME NEW h \in held, Free(h) PROVE Inv'
  <2> DEFINE k == h[1]
             e == [entries[k] EXCEPT !.used = FALSE]
  <2>0. k \in 1 .. Last /\ h[1] = k
        BY <1>0 DEF HeldInv
  <2>1. /\ k \in 1 .. Len(entries) /\ e \in Entry
        /\ entries' = [entries EXCEPT ![k] = e]
        BY <1>0, <1>9, <2>0 DEF Free, Entry
  <2>2. /\ e.at = entries[k].at /\ e.type = entries[k].type
        /\ e.name = entries[k].name /\ e.size = entries[k].size
        BY <1>0, <2>0 DEF Entry
  <2>3. pc = "idle" /\ pc' = pc /\ op' = op /\ held' = held \ {h}
        BY <1>9 DEF Free
  <2> HIDE DEF e, k
  <2>4. /\ entries' \in Seq(Entry) /\ entries' # <<>>
        /\ Last' = Last /\ Len(entries') = Last'
        /\ \A i \in 1 .. Last : entries'[i] = IF i = k THEN e ELSE entries[i]
        BY <1>0, <2>1, Changed
  <2>5. TypeOK'
        BY <1>0, <2>0, <2>1, <2>2, <2>3, <2>4 DEF TypeOK, OpType, NoOp, Entry
  <2>6. CreationInv'
        BY <1>0, <2>0, <2>1, <2>2, <2>3, <2>4 DEF CreationInv
  <2>7. Tiled'
    <3>1. \A j \in 1 .. Last : /\ entries'[j].at = entries[j].at
                              /\ entries'[j].type = entries[j].type
                              /\ entries'[j].size = entries[j].size
          BY <2>2, <2>4
    <3>2. \A j \in 1 .. Last : End(j)' = End(j)
          BY <3>1 DEF End
    <3> QED BY <1>0, <2>4, <3>1, <3>2 DEF Tiled
  <2>8. NamesInv'
        BY <1>0, <2>0, <2>1, <2>2, <2>3, <2>4 DEF NamesInv, UniqueNames, CreationInv
  <2>9. HeldInv'
        BY <1>0, <2>0, <2>1, <2>2, <2>3, <2>4 DEF HeldInv, HeldAlone, CreationInv
  <2>10. GapInv'
        BY <1>0, <2>0, <2>1, <2>2, <2>3, <2>4 DEF GapInv
  <2> QED BY <2>5, <2>6, <2>7, <2>8, <2>9, <2>10 DEF Inv
<1>10. ASSUME NEW size \in SectionSizes, UpdateSectionSize(size) PROVE Inv'
  <2> DEFINE k == 1
             e == [entries[k] EXCEPT !.size = size]
  <2>0. /\ k \in 1 .. Len(entries) /\ k \in 1 .. Last /\ entries[k] \in Entry
        /\ size \in Nat
        BY <1>0
  <2>1. e \in Entry /\ entries' = [entries EXCEPT ![k] = e] /\ k \in 1 .. Len(entries)
        BY <2>0, <1>10 DEF UpdateSectionSize, Entry
  <2>2. /\ e.at = entries[k].at /\ e.type = entries[k].type
        /\ e.name = entries[k].name /\ e.used = entries[k].used
        BY <1>0, <2>0 DEF Entry
  <2>3. pc = "idle" /\ pc' = pc /\ op' = op /\ held' = held
        BY <1>10 DEF UpdateSectionSize
  <2>4. entries[k].type # "alloc"
        BY <1>0 DEF CreationInv
  <2> HIDE DEF e, k
  <2>5. /\ entries' \in Seq(Entry) /\ entries' # <<>>
        /\ Last' = Last /\ Len(entries') = Last'
        /\ \A i \in 1 .. Last : entries'[i] = IF i = k THEN e ELSE entries[i]
        BY <1>0, <2>1, Changed
  <2>6. TypeOK'
        BY <1>0, <2>0, <2>1, <2>2, <2>3, <2>5, <2>4 DEF TypeOK, OpType, NoOp, Entry
  <2>7. CreationInv'
        BY <1>0, <2>0, <2>1, <2>2, <2>3, <2>5, <2>4 DEF CreationInv
  <2>8. Tiled'
        BY <1>0, <2>0, <2>1, <2>2, <2>3, <2>5, <2>4 DEF Tiled, End, CreationInv
  <2>9. NamesInv'
        BY <1>0, <2>0, <2>1, <2>2, <2>3, <2>5, <2>4 DEF NamesInv, UniqueNames, CreationInv
  <2>10. HeldInv'
        BY <1>0, <2>0, <2>1, <2>2, <2>3, <2>5, <2>4 DEF HeldInv, HeldAlone, CreationInv
  <2>11. GapInv'
        BY <1>0, <2>0, <2>1, <2>2, <2>3, <2>5, <2>4 DEF GapInv
  <2> QED BY <2>6, <2>7, <2>8, <2>9, <2>10, <2>11 DEF Inv
<1>11. CASE UNCHANGED vars
  <2>1. TypeOK' /\ CreationInv' /\ GapInv' /\ HeldInv'
        BY <1>0, <1>11 DEF vars, TypeOK, CreationInv, GapInv, HeldInv, HeldAlone, Last
  <2>2. Tiled' /\ NamesInv'
        BY <1>0, <1>11 DEF vars, Tiled, End, NamesInv, UniqueNames, Last
  <2> QED BY <2>1, <2>2 DEF Inv
<1> QED
    BY <1>1, <1>2, <1>3, <1>4, <1>5, <1>6, <1>7, <1>8, <1>9, <1>10, <1>11 DEF Next

(***************************************************************************)
(* The labels.  A code label has its interwork bit from SetInterwork on;   *)
(* until then the label is the last of the list, and without a name until  *)
(* the very last step before it.                                           *)
(***************************************************************************)
CodeInv ==
    \A i \in 1 .. Last : entries[i].type = "code" =>
        \/ entries[i].addr % 2 = 1
        \/ pc \in {"filled", "named"} /\ i = Last

LEMMA SetBitOdd == \A p \in Nat : SetBit(p) % 2 = 1
    BY DEF SetBit

LEMMA ClearBitIs ==
    \A p, q \in Nat : q \in {SetBit(p), ClearBit(p)} => ClearBit(p) = ClearBit(q)
    BY DEF SetBit, ClearBit

\* A step that leaves every entry's type and address as it was, at a point of the
\* thread where the last label is complete.
LEMMA CodeKept ==
    ASSUME CodeInv, pc = "idle", Last' = Last,
           \A i \in 1 .. Last : /\ entries'[i].type = entries[i].type
                                /\ entries'[i].addr = entries[i].addr
    PROVE  CodeInv'
    BY DEF CodeInv

LEMMA StepCode == Inv /\ CodeInv /\ [Next]_vars => CodeInv'
<1> SUFFICES ASSUME Inv, CodeInv, [Next]_vars PROVE CodeInv'
    OBVIOUS
<1>0. /\ TypeOK /\ CreationInv /\ HeldInv
      /\ Last \in Nat \ {0} /\ Last = Len(entries) /\ Last \in 1 .. Len(entries)
      /\ \A i \in 1 .. Last : entries[i] \in Entry
      BY EmptySeq, ElementOfSeq DEF Inv, TypeOK, Last
<1>1. ASSUME NEW extra \in Nat, pc = "idle", Link(extra) PROVE CodeInv'
  <2> DEFINE e == Cell(NewAt(extra), "raw", 0, 0, FALSE)
  <2>1. e \in Entry /\ entries' = Append(entries, e) /\ e.type = "raw"
        BY <1>0, <1>1, Linked DEF Cell
  <2> HIDE DEF e
  <2>2. /\ Last' = Last + 1 /\ entries'[Last + 1] = e
        /\ \A i \in 1 .. Last : entries'[i] = entries[i]
        BY <1>0, <2>1, Grown
  <2> QED BY <1>0, <1>1, <2>1, <2>2 DEF CodeInv
<1>2. ASSUME NEW e \in Entry, entries' = [entries EXCEPT ![Last] = e],
             e.type = "code" => e.addr % 2 = 1 \/ pc' \in {"filled", "named"}
      PROVE CodeInv'
  <2>1. /\ Last' = Last
        /\ \A i \in 1 .. Last : entries'[i] = IF i = Last THEN e ELSE entries[i]
        BY <1>0, <1>2, Changed
  <2> QED BY <1>0, <1>2, <2>1 DEF CodeInv
<1>3. ASSUME NEW k \in 1 .. Len(entries), NEW e \in Entry, pc = "idle",
             entries' = [entries EXCEPT ![k] = e],
             e.type = entries[k].type, e.addr = entries[k].addr
      PROVE CodeInv'
  <2>1. /\ Last' = Last
        /\ \A i \in 1 .. Last : entries'[i] = IF i = k THEN e ELSE entries[i]
        BY <1>0, <1>3, Changed
  <2> QED BY <1>3, <2>1, CodeKept
<1>4. ASSUME NEW n \in Names, NEW p \in Pointers, NEW code \in BOOLEAN,
             CreateLabel(n, p, code) PROVE CodeInv'
      BY <1>1, <1>4 DEF CreateLabel
<1>5. CASE FillLabel
  <2> DEFINE e == Cell(entries[Last].at, op.kind, op.addr, 0, FALSE)
  <2>1. e \in Entry /\ pc' = "filled"
        BY <1>0, <1>5 DEF FillLabel, TypeOK, OpType, Cell, Entry, Types
  <2>2. entries' = [entries EXCEPT ![Last] = e]
        BY <1>5 DEF FillLabel
  <2> HIDE DEF e
  <2> QED BY <1>2, <2>1, <2>2
<1>6. CASE NameData \/ NameCode
  <2> DEFINE e == [entries[Last] EXCEPT !.name = op.name]
  <2>1. /\ e \in Entry /\ e.type = entries[Last].type
        /\ entries' = [entries EXCEPT ![Last] = e]
        BY <1>0, <1>6 DEF NameData, NameCode, CreationInv, TypeOK, OpType, Entry
  <2>2. NameData => e.type # "code"
        BY <1>0, <2>1 DEF NameData, CreationInv
  <2>3. NameCode => pc' = "named"
        BY DEF NameCode
  <2> HIDE DEF e
  <2> QED BY <1>2, <1>6, <2>1, <2>2, <2>3
<1>7. CASE SetInterwork
  <2> DEFINE e == [entries[Last] EXCEPT !.addr = SetBit(entries[Last].addr)]
  <2>1. /\ e \in Entry /\ e.addr % 2 = 1
        /\ entries' = [entries EXCEPT ![Last] = e]
        BY <1>0, <1>7, SetBitType, SetBitOdd DEF SetInterwork, Entry
  <2> HIDE DEF e
  <2> QED BY <1>2, <2>1
<1>8. ASSUME NEW size \in Sizes, AllocReuse(size) PROVE CodeInv'
  <2> DEFINE i == FindFreeAllocation(size)
             hits == {j \in 1 .. Len(entries) :
                        /\ entries[j].type = "alloc" /\ ~entries[j].used
                        /\ entries[j].size >= size}
  <2>1. hits \in SUBSET (Nat \ {0}) /\ First(hits) = i /\ i # 0
        BY <1>0, <1>8 DEF FindFreeAllocation, AllocReuse
  <2>2. i \in hits
    <3> HIDE DEF hits
    <3> QED BY <2>1, FirstIs
  <2>3. i \in 1 .. Len(entries)
        BY <2>2
  <2> DEFINE e == [entries[i] EXCEPT !.used = TRUE]
  <2>4. /\ e \in Entry /\ e.type = entries[i].type /\ e.addr = entries[i].addr
        /\ entries' = [entries EXCEPT ![i] = e] /\ pc = "idle"
        BY <1>0, <1>8, <2>3 DEF AllocReuse, Entry
  <2> HIDE DEF e, i
  <2> QED BY <1>3, <2>3, <2>4
<1>9. ASSUME NEW size \in Sizes, AllocNew(size) PROVE CodeInv'
      BY <1>1, <1>9, MemoryAssumption DEF AllocNew
<1>10. CASE FillAlloc
  <2> DEFINE e == entries'[Last]
  <2>1. PICK at, size : entries' = [entries EXCEPT ![Last] =
                             Cell(at, "alloc", at + EntrySize, size, TRUE)]
        BY <1>10 DEF FillAlloc
  <2>2. Last' = Last /\ entries'[Last].type = "alloc"
        /\ \A i \in 1 .. Last : i # Last => entries'[i] = entries[i]
        BY <1>0, <2>1 DEF Last, Cell, TypeOK
  <2>3. pc = "linked"
        BY <1>10 DEF FillAlloc
  <2> QED BY <1>0, <2>2, <2>3 DEF CodeInv
<1>11. ASSUME NEW h \in held, Free(h) PROVE CodeInv'
  <2> DEFINE k == h[1]
             e == [entries[k] EXCEPT !.used = FALSE]
  <2>1. k \in 1 .. Len(entries)
        BY <1>0 DEF HeldInv
  <2>2. /\ e \in Entry /\ e.type = entries[k].type /\ e.addr = entries[k].addr
        /\ entries' = [entries EXCEPT ![k] = e] /\ pc = "idle"
        BY <1>0, <1>11, <2>1 DEF Free, Entry
  <2> HIDE DEF e, k
  <2> QED BY <1>3, <2>1, <2>2
<1>12. ASSUME NEW size \in SectionSizes, UpdateSectionSize(size) PROVE CodeInv'
  <2> DEFINE e == [entries[1] EXCEPT !.size = size]
  <2>1. 1 \in 1 .. Len(entries)
        BY <1>0
  <2>2. /\ e \in Entry /\ e.type = entries[1].type /\ e.addr = entries[1].addr
        /\ entries' = [entries EXCEPT ![1] = e] /\ pc = "idle"
        BY <1>0, <1>12, <2>1, MemoryAssumption DEF UpdateSectionSize, Entry
  <2> HIDE DEF e
  <2> QED BY <1>3, <2>1, <2>2
<1>13. CASE UNCHANGED vars
       BY <1>13 DEF vars, CodeInv, Last
<1> QED
    BY <1>4, <1>5, <1>6, <1>7, <1>8, <1>9, <1>10, <1>11, <1>12, <1>13 DEF Next

LEMMA Callable == Inv /\ CodeInv => CodeLabelsCallable
<1> SUFFICES ASSUME Inv, CodeInv, NEW n \in Names, LookupLabel(n) # 0,
                    entries[LookupLabel(n)].type = "code"
             PROVE  \/ entries[LookupLabel(n)].addr % 2 = 1
                    \/ pc = "named" /\ LookupLabel(n) = Last
    BY DEF CodeLabelsCallable
<1> DEFINE hits == {i \in 1 .. Len(entries) : IsLabel(i) /\ entries[i].name = n}
<1>1. hits \in SUBSET (Nat \ {0}) /\ LookupLabel(n) = First(hits)
      BY DEF LookupLabel
<1>2. LookupLabel(n) \in hits
  <2> HIDE DEF hits
  <2> QED BY <1>1, FirstIs
<1>3. LookupLabel(n) \in 1 .. Last /\ entries[LookupLabel(n)].name = n
      BY <1>2 DEF Last
<1>4. pc = "filled" => LookupLabel(n) # Last
      BY <1>3, MemoryAssumption DEF Inv, CreationInv
<1> QED BY <1>3, <1>4 DEF CodeInv

LEMMA FoundByAddress == TypeOK => LabelsFoundByAddress
<1> SUFFICES ASSUME TypeOK, NEW i \in 1 .. Len(entries), IsLabel(i)
             PROVE  LET found == RlookupLabel(entries[i].addr)
                    IN  /\ found # 0 /\ found <= i
                        /\ ClearBit(entries[found].addr) = ClearBit(entries[i].addr)
    BY DEF LabelsFoundByAddress
<1> DEFINE p     == entries[i].addr
           found == RlookupLabel(p)
           hits  == {j \in 1 .. Len(entries) :
                       \/ /\ entries[j].type = "code"
                          /\ p \in {SetBit(entries[j].addr), ClearBit(entries[j].addr)}
                       \/ entries[j].type = "data" /\ p = entries[j].addr}
<1>1. \A j \in 1 .. Len(entries) : entries[j].addr \in Nat
  <2>1. \A j \in 1 .. Len(entries) : entries[j] \in Entry
        BY ElementOfSeq DEF TypeOK
  <2> QED BY <2>1 DEF Entry
<1>2. hits \in SUBSET (Nat \ {0}) /\ found = First(hits)
      BY DEF RlookupLabel
<1>3. i \in hits
      BY <1>1 DEF SetBit, ClearBit
<1>4. found \in hits /\ found <= i
  <2> HIDE DEF hits, found
  <2> QED BY <1>2, <1>3, FirstIs
<1>5. found \in 1 .. Len(entries) /\ found # 0
      BY <1>4
<1>6. p = entries[found].addr
        \/ p \in {SetBit(entries[found].addr), ClearBit(entries[found].addr)}
      BY <1>4
<1>7. ClearBit(entries[found].addr) = ClearBit(p)
  <2> DEFINE q == entries[found].addr
  <2>1. q \in Nat /\ p \in Nat
        BY <1>1, <1>5
  <2> HIDE DEF p, q
  <2> QED BY <1>6, <2>1, ClearBitIs DEF q
<1> QED BY <1>4, <1>5, <1>7

(***************************************************************************)
(* The theorems.                                                           *)
(***************************************************************************)
THEOREM MemoryInv == Spec => []Inv
<1> QED BY InitInv, StepInv, PTL DEF Spec

\* The list always has entries of the right form, and the thread is at a point of
\* create_memory_entry's callers that fits what it is creating (memory.c:56-122).
THEOREM MemoryTypeOK == Spec => []TypeOK
<1>1. Inv => TypeOK
      BY DEF Inv
<1> QED BY <1>1, MemoryInv, PTL

\* However many labels and allocations are made, of whatever sizes, freed and
\* reused, the list is laid out without gap or overlap (memory.c:61-71, 284-288).
THEOREM MemoryTiled == Spec => []Tiled
<1>1. Inv => Tiled
      BY DEF Inv
<1> QED BY <1>1, MemoryInv, PTL

\* No name ever stands for two labels, half-created ones included (memory.c:94-97).
THEOREM MemoryUniqueNames == Spec => []UniqueNames
<1>1. Inv => UniqueNames
      BY DEF Inv, NamesInv
<1> QED BY <1>1, MemoryInv, PTL

\* Every caller of memory_sys_alloc has the bytes it asked for to itself until it
\* frees them, whatever is reused (memory.c:256-301).
THEOREM MemoryHeldAlone == Spec => []HeldAlone
<1>1. Inv => HeldAlone
      BY DEF Inv, HeldInv
<1> QED BY <1>1, MemoryInv, PTL

\* Whenever DebugMonitor interrupts the creation of labels, a code label it finds by
\* its name carries its interwork bit, but for the one that is given its name just
\* then (memory.c:106-113).
THEOREM MemoryCodeLabelsCallable == Spec => []CodeLabelsCallable
<1>1. Init => CodeInv
      BY DEF Init, CodeInv, Cell, Last
<1>2. Spec => [](Inv /\ CodeInv)
  <2>1. Inv /\ CodeInv /\ [Next]_vars => (Inv /\ CodeInv)'
        BY StepInv, StepCode
  <2> QED BY InitInv, <1>1, <2>1, PTL DEF Spec
<1> QED BY <1>2, Callable, PTL

\* However the list has grown, the search by address reaches every label in it: it
\* ends at that label or at an earlier one for the same address (memory.c:154-177).
THEOREM MemoryLabelsFoundByAddress == Spec => []LabelsFoundByAddress
<1> QED BY MemoryTypeOK, FoundByAddress, PTL

=============================================================================
