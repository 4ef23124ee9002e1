----------------------------- MODULE MCTransfer -----------------------------
(***************************************************************************)
(* Instances of Transfer: bytes of two values, so that a length has two    *)
(* significant bytes from a file of two bytes on.                          *)
(***************************************************************************)
EXTENDS Transfer

\* A file of no bytes, one whose length takes both bytes, one too long to send.
\* A host that fails leaves bytes behind that are taken for any other length.
MCFiles == {<<>>, <<0, 1>>, <<1, 1, 1, 1>>}

\* For the runs that look at waiting only: one file.
MCOneFile == {<<1>>}

=============================================================================
