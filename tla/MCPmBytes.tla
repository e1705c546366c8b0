------------------------------ MODULE MCPmBytes -----------------------------
(***************************************************************************)
(* Inputs for the routines of PmBytes.                                     *)
(***************************************************************************)
EXTENDS PmBytes, FiniteSetsExt

NoPages == [m \in Modules |-> NULL]

(* The check bytes by their definition.                                    *)
WithSums(page) ==
  LET sum(from, to) == MapThenSumSet(LAMBDA i : page[i], from..to) % 256
  IN  [page EXCEPT ![63] = sum(0, 62), ![95] = sum(64, 94)]

(* A blank page and one of varied bytes.                                   *)
MCPages ==
  {WithSums([i \in PageBytes |-> 0]),
   WithSums([i \in PageBytes |-> (7 * i + 3) % 256])}

Signed(byte) == IF byte > 127 THEN byte - 256 ELSE byte

(* Short buffers around the word size, and the size of a page.            *)
MCBuffers ==
  {[i \in 1..n |-> Signed((k * i + 15) % 256)] :
     n \in (0..9) \cup {128}, k \in {0, 1, 16, 37}}

MCOuis == {0, 10, 159, 255} \X {0, 10, 159, 255} \X {0, 10, 159, 255}

(* Of the length of a revision in an SFP page and in a QSFP page.          *)
MCFields == [1..4 -> {NUL, SPACE, 65}] \cup [1..2 -> {NUL, SPACE, 65}]

MCTemperatures == {-128, -40, -1, 0, 1, 25, 127} \X {0, 1, 128, 255}

(* Whole numbers, their neighbours and others, in each of the units.       *)
MCWords ==
  {0, 1, 49, 51, 474, 475, 499, 500, 501, 999, 1000, 4999, 5000, 9949, 9951,
   9999, 10000, 10001, 12345, 19999, 20000, 20025, 65000, 65535}
=============================================================================
