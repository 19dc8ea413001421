------------------------- MODULE MCBitGenBitstream -------------------------
(***************************************************************************)
(* Bitstreams of one or two BOPs with up to three actions each.             *)
(***************************************************************************)
EXTENDS BitGenBitstream

CONSTANTS
  FirstLists,   \* what may be packed first
  SecondLists,  \* what may be packed second, to be combined
  FirstOptions,
  SecondOptions,
  GivenKeys,
  Damaging      \* files may be damaged

Key4 == [id |-> 1, size |-> 4]
OtherKey4 == [id |-> 2, size |-> 4]
Key8 == [id |-> 3, size |-> 8]

Payload(d, size, packed) == [data |-> d, size |-> size, packed |-> packed]
OneBlock == Payload(1, 3, 5)     \* gets longer
Exact == Payload(2, 8, 8)        \* a whole block, no shorter
Shrinks == Payload(3, 20, 9)     \* three blocks to two
Long == Payload(4, 33, 4)        \* five blocks to one

Action(cmd, original, checksum, field, own_iv, payload) ==
  [ cmd |-> cmd, original |-> original, checksum |-> checksum, field |-> field,
    iv |-> own_iv, payload |-> payload ]
AnIv == [nonce |-> 0, counter |-> 7]

Bare == Action(1, FALSE, FALSE, <<>>, NoIv, NoPayload)
Field == Action(2, FALSE, FALSE, <<Number(4)>>, AnIv, NoPayload)
Sum == Action(3, FALSE, TRUE, <<>>, NoIv, OneBlock)
All == Action(4, TRUE, TRUE, <<Number(0)>>, AnIv, Shrinks)
Size == Action(5, TRUE, FALSE, <<>>, NoIv, Long)
Plainly == Action(6, FALSE, FALSE, <<>>, NoIv, Exact)
Own == Action(7, FALSE, FALSE, <<>>, AnIv, Shrinks)

Bop(field_iv, hash, list) ==
  [ field |-> [ identifier |-> "FPGA", jtag_id |-> 1, jtag_mask |-> 0, chipid |-> 1,
                integrity |-> hash, iv |-> field_iv ],
    actions |-> list ]
ActionLists ==
  { <<Bare>>, <<Bare, Field>>, <<Sum, Plainly>>, <<All, Plainly, Sum>>, <<Size, Size>>,
    <<Own, Size, Plainly>>, <<Bare, Plainly, Bare, Bare, Bare, Bare, Field>> }

SingleBops ==
  { <<Bop([nonce |-> 1, counter |-> 2], h, list)>> : h \in HashSizes, list \in ActionLists }
ShortBops == { <<Bop(NoIv, 2, <<Sum>>)>>, <<Bop(NoIv, 3, <<Bare>>), Bop(NoIv, 2, <<Plainly>>)>> }
MCFirst == SingleBops \union ShortBops
MCLists == MCFirst \union ShortBops
With(compress, aes_key, signer) == [compress |-> compress, aes_key |-> aes_key, key |-> signer]
MCOptions ==
  { With(FALSE, NoKey, 0), With(TRUE, NoKey, 1), With(FALSE, Key4, 1), With(TRUE, Key4, 0) }
SecondMCOptions == { With(FALSE, k, 0) : k \in {NoKey, Key4, Key8} }
MCOptionSets == MCOptions \union SecondMCOptions
MCKeys == {NoKey, Key4, OtherKey4, Key8}
MCIdentifiers == {"FPGA", "FSBL"}
Generate ==
  \/ files = <<>> /\ \E list \in FirstLists, with \in FirstOptions : GenBitstream(list, with)
  \/ /\ Len(files) = 1
     /\ files[1].intact
     /\ [k \in 1 .. Len(files[1].bops) |-> files[1].bops[k].bop] \in SecondLists
     /\ \E list \in SecondLists, with \in SecondOptions : GenBitstream(list, with)

(* A damaged file is read without a key and with the right one.             *)
MCParse ==
  \E aes_key \in GivenKeys :
    /\ files # <<>>
    /\ files[1].intact \/ aes_key \in {NoKey, files[1].bops[1].key}
    /\ ParseFile(aes_key)
MCDamage == Damaging /\ Damage

Stopped == (pc \in {"over", "asserted"} \/ stage = "asserted") /\ UNCHANGED vars

MCNext ==
  \/ Generate \/ PackerStep \/ WriteFile \/ Combine
  \/ MCDamage \/ MCParse \/ AnalyzerStep \/ Stopped

MCSpec == BitstreamInit /\ [][MCNext]_vars

(* One command runs at a time, to its end.                                  *)
MCFairSpec == MCSpec /\ WF_vars(AnalyzerStep)
=============================================================================
