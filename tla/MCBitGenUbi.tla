---------------------------- MODULE MCBitGenUbi ----------------------------
(***************************************************************************)
(* Files of the new format with one or two BOPs, right or not, and of the   *)
(* old format with up to three BOPs: whole, cut short, with a wrong offset, *)
(* a wrong CRC or a foreign identifier.                                     *)
(***************************************************************************)
EXTENDS BitGenUbi

Body(n) == [k \in 1 .. n |-> [type |-> "data"]]

(* The new format.                                                          *)
WithCrc(h) == h @@ [crc |-> CFG_crc32(h)]
NewHeader(id, size, end, last) ==
  WithCrc([type |-> "header", identifier |-> id, size |-> size, end |-> end, last |-> last])
NewBop(id, size, end, last) == <<NewHeader(id, size, end, last)>> \o Body(size - 1)
Part == [type |-> "part"]
NewFiles ==
  { NewBop("FPGA", 1, 1, TRUE), NewBop("FSBL", 3, 3, TRUE),
    NewBop("FSBL", 2, 3, FALSE) \o NewBop("FPGA", 1, 1, TRUE),
    NewBop("FPGA", 2, 2, FALSE), NewBop("KEYC", 1, 1, TRUE), Append(NewBop("FPGA", 1, 1, TRUE), Part),
    [NewBop("FPGA", 2, 2, TRUE) EXCEPT ![1].size = 1],
    NewBop("FPGA", 2, 3, FALSE) \o [NewBop("FPGA", 1, 1, TRUE) EXCEPT ![1].crc = CFG_crc32([noise |-> 0])] }

(* The old format.                                                          *)
AnOldHeader(id, offset, right) ==
  IF right THEN OldHeader(id, offset)
           ELSE [OldHeader(id, offset) EXCEPT !.crc = CFG_bop_A001_crc16("none", 9)]
OldBopOf(id, size, offset, right) == <<AnOldHeader(id, offset, right)>> \o Body(size - 1)
Ids == {"FSBL", "FPGA", "PCB", "none"}
Singles ==
  { OldBopOf(id, size, offset, right) :
      id \in {"FSBL", "PCB", "none"}, size \in 1 .. 3, offset \in {0, 2, 3}, right \in BOOLEAN }
Pairs ==
  { OldBopOf(id, 2, offset, TRUE) \o OldBopOf(last, 2, end, right) :
      id \in {"FSBL", "MANF"}, offset \in {1, 2}, last \in {"FPGA", "none"},
      end \in {0, 2, 3}, right \in BOOLEAN }
Triple ==
  OldBopOf("FSBL", 2, 2, TRUE) \o OldBopOf("FCB", 3, 3, TRUE) \o OldBopOf("PCB", 2, 0, TRUE)

MCFiles == {<<>>} \union NewFiles \union Singles \union Pairs \union {Triple}
MCIdentifiers == {"FSBL", "FPGA"}

(* A command runs to its end.                                               *)
Stopped == pc \in {"written", "refused", "crashed", "asserted"} /\ UNCHANGED vars
MCNext == Next \/ Stopped
MCSpec == Init /\ [][MCNext]_vars
=============================================================================
