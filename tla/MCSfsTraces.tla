----------------------------- MODULE MCSfsTraces -----------------------------
(***************************************************************************)
(* The sizes that sfslab really has, on an image of one page.              *)
(***************************************************************************)
EXTENDS SfsTraces

\* The texts that the traces write are made of many values: TypeOK is no part of
\* this run, and the bytes need not be a small set.
MCBytes == 0 .. 10000
=============================================================================
