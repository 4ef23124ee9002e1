------------------------------- MODULE Memory -------------------------------
(***************************************************************************)
(* The monitor's memory entries (monitor/memory.c): one linked list of     *)
(* sections, labels and allocations.  It begins below the stack's ceiling  *)
(* and grows down, an allocation's bytes lying between its entry and the   *)
(* entry before it.  Nothing is ever removed; a freed allocation is marked *)
(* and may be handed out again.                                            *)
(*                                                                         *)
(* The list is the sequence of its entries, each with its own address      *)
(* "at"; next pointers are left implicit.  An entry is linked before it is *)
(* filled in, so the thread is modelled in those steps: DebugMonitor,      *)
(* which looks labels up to print a disassembly, can run between them.     *)
(***************************************************************************)
EXTENDS Integers, Sequences

CONSTANTS
    EntrySize,      \* sizeof(struct memory_entry), 24 in the code
    Ceiling,        \* stack_ceiling
    UserStart,      \* user_start, the address of the user section
    Floor,          \* bound: no entry is created below this address
    Pointers,       \* the addresses labels are put at
    Names, NameLen, \* the names typed in, and their lengths
    MaxNameLen,     \* MAX_NAME_LEN, 8 in the code
    Sizes,          \* the sizes asked of memory_sys_alloc
    SectionSizes,   \* the sizes memory_update_section_size is given
    NoName

ASSUME MemoryAssumption ==
    /\ EntrySize \in Nat \ {0}
    /\ Ceiling \in Nat /\ Floor \in Nat /\ Floor + EntrySize <= Ceiling
    /\ UserStart \in Nat
    /\ Pointers \subseteq Nat
    /\ NameLen \in [Names -> Nat] /\ MaxNameLen \in Nat
    /\ Sizes \subseteq Nat \ {0} /\ SectionSizes \subseteq Nat
    /\ NoName \notin Names

VARIABLES
    entries,    \* the list, in its order
    pc, op,     \* where the thread is in creating an entry, and for what
    held        \* history: the indices of allocations in use

vars == <<entries, pc, op, held>>

(***************************************************************************)
(* The union in struct memory_entry is a record with the fields of all its *)
(* members.  A "raw" entry is linked but not filled in.                    *)
(***************************************************************************)
Types == {"section", "code", "data", "alloc", "raw"}

Entry == [at : Nat, type : Types, addr : Nat, name : Names \cup {NoName},
          size : Nat, used : BOOLEAN]

Cell(at, type, addr, size, used) ==
    [at |-> at, type |-> type, addr |-> addr, name |-> NoName,
     size |-> size, used |-> used]

NoOp == [kind |-> "none", name |-> NoName, addr |-> 0, size |-> 0]

\* memory_init: the user section, still empty.
Init ==
    /\ entries = <<Cell(Ceiling - EntrySize, "section", UserStart, 0, FALSE)>>
    /\ pc = "idle" /\ op = NoOp
    /\ held = {}

-----------------------------------------------------------------------------
(***************************************************************************)
(* Lookups walk the list and return the first entry that matches, here its *)
(* index, and 0 for NULL.                                                  *)
(***************************************************************************)
First(hits) == IF hits = {} THEN 0 ELSE CHOOSE i \in hits : \A j \in hits : i <= j

IsLabel(i) == entries[i].type \in {"code", "data"}

\* memory_lookup_label
LookupLabel(n) ==
    First({i \in 1 .. Len(entries) : IsLabel(i) /\ entries[i].name = n})

\* arm_address_set_thumb_intwrk_bit
SetBit(p)   == IF p % 2 = 0 THEN p + 1 ELSE p
ClearBit(p) == p - (p % 2)

\* Mutant: the address is compared without its bit only.
RlookupLabel_bit_clear(p) ==
    First({i \in 1 .. Len(entries) :
              \/ entries[i].type = "code" /\ p = ClearBit(entries[i].addr)
              \/ entries[i].type = "data" /\ p = entries[i].addr})

\* memory_rlookup_label: a code label matches with and without the interwork bit.
RlookupLabel(p) ==
    First({i \in 1 .. Len(entries) :
              \/ /\ entries[i].type = "code"
                 /\ p \in {SetBit(entries[i].addr), ClearBit(entries[i].addr)}
              \/ entries[i].type = "data" /\ p = entries[i].addr})

\* Mutant: any allocation, used or not.
FindFreeAllocation_any(size) ==
    First({i \in 1 .. Len(entries) :
              entries[i].type = "alloc" /\ entries[i].size >= size})

\* find_free_allocation: the first fit.
FindFreeAllocation(size) ==
    First({i \in 1 .. Len(entries) :
              /\ entries[i].type = "alloc" /\ ~entries[i].used
              /\ entries[i].size >= size})

-----------------------------------------------------------------------------
Last == Len(entries)

\* The whole entries that the bytes of an allocation take.
EntriesFor(size) == size \div EntrySize + (IF size % EntrySize = 0 THEN 0 ELSE 1)

NewAt(extra) == entries[Last].at - EntrySize - EntriesFor(extra) * EntrySize

\* create_memory_entry: nothing is known of a new entry but where it is.  The
\* code has no lower limit.
Link(extra) ==
    /\ NewAt(extra) >= Floor
    /\ entries' = Append(entries, Cell(NewAt(extra), "raw", 0, 0, FALSE))

ValidName(n) == NameLen[n] # 0 /\ NameLen[n] <= MaxNameLen

LabelOp(n, p, code) ==
    [kind |-> IF code THEN "code" ELSE "data", name |-> n, addr |-> p, size |-> 0]

\* Mutant: whether the name is already there is not asked.
CreateLabel_unchecked(n, p, code) ==
    /\ pc = "idle"
    /\ ValidName(n)
    /\ Link(0)
    /\ pc' = "linked"
    /\ op' = LabelOp(n, p, code)
    /\ UNCHANGED held

\* memory_create_label, up to its create_memory_entry; otherwise it returns false.
CreateLabel(n, p, code) ==
    /\ pc = "idle"
    /\ ValidName(n) /\ LookupLabel(n) = 0
    /\ Link(0)
    /\ pc' = "linked"
    /\ op' = LabelOp(n, p, code)
    /\ UNCHANGED held

\* The compound literal: the name is not yet in it.
FillLabel ==
    /\ pc = "linked" /\ op.kind \in {"code", "data"}
    /\ entries' = [entries EXCEPT
                      ![Last] = Cell(entries[Last].at, op.kind, op.addr, 0, FALSE)]
    /\ pc' = "filled"
    /\ UNCHANGED <<op, held>>

\* name_len and the name of a data label ...
NameData ==
    /\ pc = "filled" /\ op.kind = "data"
    /\ entries' = [entries EXCEPT ![Last].name = op.name]
    /\ pc' = "idle" /\ op' = NoOp
    /\ UNCHANGED held

\* ... or of a code label, whose interwork bit is set after it.
NameCode ==
    /\ pc = "filled" /\ op.kind = "code"
    /\ entries' = [entries EXCEPT ![Last].name = op.name]
    /\ pc' = "named"
    /\ UNCHANGED <<op, held>>

\* Mutant: the bit is left as it was given.
SetInterwork_not ==
    /\ pc = "named"
    /\ pc' = "idle" /\ op' = NoOp
    /\ UNCHANGED <<entries, held>>

SetInterwork ==
    /\ pc = "named"
    /\ entries' = [entries EXCEPT ![Last].addr = SetBit(entries[Last].addr)]
    /\ pc' = "idle" /\ op' = NoOp
    /\ UNCHANGED held

\* memory_sys_alloc: a free allocation that is big enough ...
AllocReuse(size) ==
    /\ pc = "idle"
    /\ LET i == FindFreeAllocation(size)
       IN  /\ i # 0
           /\ entries' = [entries EXCEPT ![i].used = TRUE]
           /\ held' = held \cup {<<i, size>>}
    /\ UNCHANGED <<pc, op>>

\* ... or a new one, of all the bytes up to the entry that was the last.
AllocNew(size) ==
    /\ pc = "idle"
    /\ FindFreeAllocation(size) = 0
    /\ Link(size)
    /\ pc' = "linked"
    /\ op' = [NoOp EXCEPT !.kind = "alloc", !.size = size]
    /\ UNCHANGED held

\* Mutant: the entry's own size is counted in.
FillAlloc_with_entry ==
    /\ pc = "linked" /\ op.kind = "alloc"
    /\ LET at == entries[Last].at
       IN  entries' = [entries EXCEPT ![Last] =
               Cell(at, "alloc", at + EntrySize, entries[Last - 1].at - at, TRUE)]
    /\ held' = held \cup {<<Last, op.size>>}
    /\ pc' = "idle" /\ op' = NoOp

\* Mutant: the subtraction the wrong way round.
FillAlloc_negative ==
    /\ pc = "linked" /\ op.kind = "alloc"
    /\ LET at   == entries[Last].at
           addr == at + EntrySize
       IN  entries' = [entries EXCEPT ![Last] =
               Cell(at, "alloc", addr, addr - entries[Last - 1].at, TRUE)]
    /\ held' = held \cup {<<Last, op.size>>}
    /\ pc' = "idle" /\ op' = NoOp

FillAlloc ==
    /\ pc = "linked" /\ op.kind = "alloc"
    /\ LET at   == entries[Last].at
           addr == at + EntrySize
       IN  entries' = [entries EXCEPT ![Last] =
               Cell(at, "alloc", addr, entries[Last - 1].at - addr, TRUE)]
    /\ held' = held \cup {<<Last, op.size>>}
    /\ pc' = "idle" /\ op' = NoOp

\* memory_sys_free of a pointer that memory_sys_alloc returned.
Free(h) ==
    /\ pc = "idle"
    /\ entries' = [entries EXCEPT ![h[1]].used = FALSE]
    /\ held' = held \ {h}
    /\ UNCHANGED <<pc, op>>

\* memory_update_section_size, by the assembler, of the user section.
UpdateSectionSize(size) ==
    /\ pc = "idle"
    /\ entries' = [entries EXCEPT ![1].size = size]
    /\ UNCHANGED <<pc, op, held>>

Next ==
    \/ \E n \in Names, p \in Pointers, code \in BOOLEAN : CreateLabel(n, p, code)
    \/ FillLabel \/ NameData \/ NameCode \/ SetInterwork
    \/ \E size \in Sizes : AllocReuse(size) \/ AllocNew(size)
    \/ FillAlloc
    \/ \E h \in held : Free(h)
    \/ \E size \in SectionSizes : UpdateSectionSize(size)

Spec == Init /\ [][Next]_vars

-----------------------------------------------------------------------------
OpType == [kind : {"none", "code", "data", "alloc"}, name : Names \cup {NoName},
           addr : Nat, size : Nat]

TypeOK ==
    /\ entries \in Seq(Entry) /\ entries # <<>>
    /\ pc \in {"idle", "linked", "filled", "named"}
    /\ op \in OpType
    /\ held \subseteq (Nat \ {0}) \X Nat

\* The end of what an entry takes: itself, and the bytes of an allocation.
End(i) == entries[i].at + EntrySize
          + (IF entries[i].type = "alloc" THEN entries[i].size ELSE 0)

\* The list is laid out without gap or overlap from the stack's ceiling down, so
\* no allocation's bytes run into an entry or another allocation (memory.c:61-71,
\* 284-288); an entry being created is excepted until it is filled in.
Tiled ==
    /\ End(1) = Ceiling
    /\ \A i \in 2 .. Len(entries) :
          entries[i].type # "raw" => End(i) = entries[i - 1].at

\* No name stands for two addresses, so that a lookup by name means the label
\* that was created under it (memory.c:94-97).
UniqueNames ==
    \A i, j \in 1 .. Len(entries) :
        IsLabel(i) /\ IsLabel(j) /\ entries[i].name = entries[j].name => i = j

\* A caller of memory_sys_alloc has its bytes to itself: they are marked as used,
\* are as many as it asked for, and no other caller holds the same ones
\* (memory.c:256-301).
HeldAlone ==
    \A h \in held :
        /\ entries[h[1]].type = "alloc" /\ entries[h[1]].used
        /\ entries[h[1]].size >= h[2]
        /\ \A g \in held : g[1] = h[1] => g = h

\* At whatever point DebugMonitor looks labels up, a label found by its name can
\* be called as it stands (a code label has its bit), but for the one being named
\* (memory.c:106-113).
CodeLabelsCallable ==
    \A n \in Names : LookupLabel(n) # 0 =>
        LET i == LookupLabel(n)
        IN  entries[i].type = "code" => \/ entries[i].addr % 2 = 1
                                        \/ pc = "named" /\ i = Last

\* A new label is found by its address: one is listed for it, that names the
\* address itself or, for code, the address less its interwork bit (memory.c:154-177).
LabelsFoundByAddress ==
    \A i \in 1 .. Len(entries) : IsLabel(i) =>
        LET found == RlookupLabel(entries[i].addr)
        IN  /\ found # 0 /\ found <= i
            /\ ClearBit(entries[found].addr) = ClearBit(entries[i].addr)

=============================================================================
