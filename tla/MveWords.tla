------------------------------ MODULE MveWords ------------------------------
(***************************************************************************)
(* Sequences of words that hold whole things (messages, events), each of   *)
(* them a header and some words of data: e is <<e, 0>>, <<e, 1>>, ...      *)
(***************************************************************************)
EXTENDS Naturals, Sequences

(* The number of words that the thing at i takes, if all are in place. *)
WholeAt(ws, i, size) ==
  /\ Len(ws[i]) = 2 /\ ws[i][2] = 0
  /\ i + size[ws[i][1]] <= Len(ws)
  /\ \A k \in 0 .. size[ws[i][1]] : ws[i + k] = <<ws[i][1], k>>

(* What words hold; "torn" stands for words that belong to nothing.  size  *)
(* tells how many words of data each thing has.                            *)
Parse(ws, size) ==
  LET from[i \in 1 .. Len(ws) + 1] ==
        IF i > Len(ws) THEN <<>>
        ELSE IF WholeAt(ws, i, size) THEN <<ws[i][1]>> \o from[i + 1 + size[ws[i][1]]]
        ELSE <<"torn">> \o from[i + 1]
  IN from[1]
=============================================================================
