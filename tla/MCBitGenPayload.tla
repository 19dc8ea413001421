-------------------------- MODULE MCBitGenPayload --------------------------
(***************************************************************************)
(* The analyzer on streams of arbitrary tokens, with a header that may be   *)
(* wrong.                                                                   *)
(***************************************************************************)
EXTENDS BitGenPayload

CONSTANTS
  MaxTokens,  \* tokens of a stream
  Off,        \* what may be added to the sizes in the header
  Identifiers, \* what may stand where the identifier is
  TokensOf    \* the tokens a stream may have

T(pattern, length, data, count) ==
  [pattern |-> pattern, flagged |-> count > 0, length |-> length,
   data |-> data, count |-> count]

(* One token of each kind that compress writes; lengths and counts that     *)
(* take one byte and more.                                                  *)
Tokens ==
  { T(NONE, 1, <<5>>, 0), T(NONE, 3, <<5, 0, 6>>, 0), T(NONE, 2, <<High, 5>>, 2),
    T(ZERO, 4, <<>>, 0), T(ZERO_VAR, 2, <<5>>, 0), T(ZERO_VAR, 2, <<5>>, 1),
    T(VAR_ZERO, 1, <<5>>, Base + 1), T(HIGH, 1, <<>>, 0),
    T(HIGH_VAR, 2, <<5>>, 2), T(VAR_HIGH, 1, <<5>>, 0), T(VAR, 3, <<5>>, 0) }

(* And two that the engine refuses: a run that repeats, and a repeated      *)
(* piece that m_none_data cannot hold.                                      *)
TokensAndRefused ==
  Tokens \union
    {T(ZERO, 2, <<>>, 1), T(NONE, NoneData + 1, Fill(NoneData + 1, 5), 1)}

TokenLists == UNION {[1 .. n -> TokensOf] : n \in 1 .. MaxTokens}

MCIdentifier == <<3, 4, 0>>
RightIdentifier == {MCIdentifier}
OffByOne == {<<0, 0>>, <<1, 0>>, <<-1, 0>>, <<0, 1>>, <<0, -1>>}

MCInit == PayloadInit

(* The streams of these tokens, one size of the header off or none.         *)
Payloads ==
  { [ data |-> Data(tokens),
      bytes |-> identifier \o CFG_write_variable_u64[Len(Data(tokens)) + off[1]]
                  \o CFG_write_variable_u64[Len(Body(tokens)) + off[2]]
                  \o Body(tokens),
      exact |-> off = <<0, 0>> /\ identifier = Identifier /\ Range(tokens) \subseteq Tokens ] :
      tokens \in TokenLists, identifier \in Identifiers, off \in Off }

MCOpen == \E p \in Payloads : OpenPayload(p.data, p.bytes, p.exact)

MCNext == MCOpen \/ PayloadStep \/ Stopped

MCSpec == MCInit /\ [][MCNext]_vars

(* parse_payload and process run to their end: nothing else runs.           *)
MCFairSpec == MCSpec /\ WF_vars(MCOpen \/ PayloadStep)
=============================================================================
