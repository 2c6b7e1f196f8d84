----------------------------- MODULE MCMachine -----------------------------
(* Boot and Traps for TLC.  Ints have 5 bits, and what is printed is       *)
(* printf("%d", -16) and printf("%x%s%d", -1, "", 0).                      *)
EXTENDS Boot

Dec(v) == [conv |-> 100, arg |-> v]
Hex(v) == [conv |-> 120, arg |-> v]
Str(s) == [conv |-> 115, arg |-> s]
MCMinText == <<45, 49, 54>>
MCPrints ==
  << <<Dec(-16)>>, <<Hex(-1), Str(<<>>), Dec(0)>> >>

(* The pages of the variables as in the listing kernel.S: kpgdir at        *)
(* 0xc0136000, PCBPool from 0xc02298c0 on with 1000 * 0x246c bytes.        *)
(* The first and the last page of the video memory stand for all.         *)
MCStatics == 310 .. 553
MCPool    == 553 .. 2829
MCVmem    == {160, 175}
=============================================================================
