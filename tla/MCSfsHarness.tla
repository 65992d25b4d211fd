---------------------------- MODULE MCSfsHarness ----------------------------
(***************************************************************************)
(* The grader with one category of a trace that runs alone and one of two  *)
(* concurrent traces, one of which has two images (like C02, which has     *)
(* three), and its sanitized rerun with the concurrent category only.      *)
(***************************************************************************)
EXTENDS SfsHarness

MCCategories ==
  [grade |-> << <<"B00">>, <<"C01", "C02">> >>,
   tsan_only |-> << <<"C01", "C02">> >>,
   developer_only |-> << <<"D00">> >>]
MCConcDisks == [C01 |-> {"C01"}, C02 |-> {"C02_rw", "C02_dir"}]
MCThreads == 1..3
=============================================================================
