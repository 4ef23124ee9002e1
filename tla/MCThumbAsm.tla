----------------------------- MODULE MCThumbAsm -----------------------------
(***************************************************************************)
(* Instances of ThumbAsm.  The operands are the limits of the encodings'   *)
(* fields and what is next to them; the registers are low, high and        *)
(* special ones, and one that does not exist and is 0 in eight bits.       *)
(***************************************************************************)
EXTENDS ThumbAsm

Near(numbers) == UNION {{n - 4, n - 2, n, n + 2, n + 4} : n \in numbers}

MCRegs    == {7, 8, 13, 15, 256}
MCImms    == {0, 7, 8, 255, 256, 4095, 4096, 2^16 - 1, 2^16}
MCOffsets == {0, 1, 124, 128, 255, 256, 508, 512, 1020, 1024, 4095, 4096}
             \cup {-255, -256, -2047, -2049, -3076, -4095}
MCLabels  == Near({4, 256, -252, 512, 2048, -2044, 4096, 2^20, -2^20 + 4, 2^21, 2^24, -2^24 + 4})
             \cup {192512, 192516}    \* what NOP.W is as a branch on "always", and next to it
MCShifts  == {0, 1, 3, 4}
MCRegLists ==
    {0, 2^8 - 1, 2^13 - 1, 2^14 - 1, 2^16 - 1} \cup {2^r : r \in 0 .. 15}
    \cup {2^r + 2^p : r \in {0, 7, 8, 12}, p \in {1, 13, 14, 15}}

MCOtherWords ==
    {<<64 * h + 41 * (h % 2)>> : h \in 0 .. 2^10 - 3 * 2^5 - 1}
    \cup {<<lo, 256 * h + 132 * (h % 2)>> :
             lo \in {\he8bd, \hea4f, \hf000, \hf20d, \hf24f, \hf3af, \hf3c5, \hf400, \hf7f0,
                     \hf84d, \hf850, \hf85d, \hf85f, \hf8d3, \hf8df, \hffff},
             h \in 0 .. 255}

=============================================================================
