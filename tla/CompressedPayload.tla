------------------------- MODULE CompressedPayload -------------------------
(***************************************************************************)
(* From the packer to the analyzer: CFG_compress, which runs the compressor *)
(* with followup bytes and may run it without, and the analyzer that reads  *)
(* the stream back.                                                         *)
(***************************************************************************)
EXTENDS CFGCompress, BitGenPayload

(* What the compressor takes for the size of m_none_data is that size.      *)
ASSUME SameLimit == MaxNone = NoneData

(* 50 and 100 against 2048 in the code: a repeated chunk that the limit     *)
(* refuses would be longer than the searched ones, and so lie in a run that *)
(* is left to compress_none_repeat.                                         *)
ASSUME SearchLimits == MaxSearch <= MaxNone /\ MaxSame <= 2 * (MaxNone + 1)

allVars == <<compressVars, vars>>

Init == CompressInit /\ PayloadInit

Pack ==
  /\ index < Len(payload)
  /\ Compress
  /\ UNCHANGED vars

(* The compressor's output becomes the payload of an action.                *)
Hand ==
  /\ index = Len(payload)
  /\ OpenPayload(payload, Stream(Len(payload), tokens), TRUE)
  /\ UNCHANGED compressVars

Analyze == PayloadStep /\ UNCHANGED compressVars

Next == Pack \/ Hand \/ Analyze \/ (Stopped /\ UNCHANGED compressVars)

Spec == Init /\ [][Next]_allVars

(* Both programs run to their end: nothing else runs. *)
FairSpec == Spec /\ WF_allVars(Pack \/ Hand \/ Analyze)

(* What was packed is in the end what the analyzer has written.             *)
RoundTripEnds == <>(pc = "over" /\ written \o remains = payload)
=============================================================================
