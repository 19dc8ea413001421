-------------------------- MODULE BitGenBitstream --------------------------
(***************************************************************************)
(* Bitstreams from the packer to the analyzer: gen_bitstream writes files   *)
(* (BitGenerator.cpp), combine_bop joins two (combine_bitstreams of         *)
(* BitGen_analyzer.cpp), a file may be damaged on its way, and parse reads  *)
(* one back (parse_debug).                                                  *)
(***************************************************************************)
EXTENDS BitGenPacker, BitGenAnalyzer

VARIABLES
  files,   \* the files: data, the BOPs in it with the key of each, and whether it is intact
  failed   \* an assertion about a whole file failed

vars == <<packerVars, analyzerVars, files, failed>>

BitstreamInit == PackerInit /\ AnalyzerInit /\ files = <<>> /\ failed = FALSE

Idle == stage = "idle" /\ pc = "idle"

GenBitstream(list, with) ==
  /\ Idle
  /\ generate_bitstream(list, with)
  /\ UNCHANGED <<analyzerVars, files, failed>>

(* What is packed must parse before it is written.                          *)
WriteFile ==
  /\ PackerReturns
  /\ failed' = ~parse(data, TRUE, TRUE).ok
  /\ files' = Append(files,
       [ data |-> data, intact |-> TRUE,
         bops |-> [k \in 1 .. Len(bops) |-> [bop |-> bops[k], key |-> options.aes_key]] ])
  /\ UNCHANGED analyzerVars

(* update_bitstream_end_size of a whole bitstream: each header gets what is *)
(* left of the data from it on.                                             *)
StartOf(list, k) == FoldLeft(LAMBDA n, s : n + s, 0, SubSeq(list, 1, k - 1))

EndSized(bytes, list) ==
  [ b \in 1 .. Len(bytes) |->
      IF \E k \in 1 .. Len(list) : StartOf(list, k) + 1 = b
        THEN LET k == CHOOSE n \in 1 .. Len(list) : StartOf(list, n) + 1 = b
             IN  update_bitstream_end_size(bytes[b], Len(bytes) - (b - 1), k = Len(list))
        ELSE bytes[b] ]

(* combine_bitstreams: both must parse; the result must parse.  A file that *)
(* does not leaves the first as it was.                                     *)
Combine ==
  /\ Idle
  /\ Len(files) = 2
  /\ LET output == files[1].data
         input == files[2].data
         both == output \o input
         accepted == parse(output, TRUE, TRUE).ok /\ parse(input, TRUE, TRUE).ok
         combined == EndSized(both, parse(both, FALSE, TRUE).sizes)
     IN  IF accepted
           THEN /\ files' = <<[ data |-> combined, bops |-> files[1].bops \o files[2].bops,
                                intact |-> files[1].intact /\ files[2].intact ]>>
                /\ failed' = ~parse(combined, TRUE, TRUE).ok
           ELSE files' = <<files[1]>> /\ UNCHANGED failed
  /\ UNCHANGED <<packerVars, analyzerVars>>

ParseFile(aes_key) ==
  /\ Idle
  /\ Len(files) = 1
  /\ parse_debug(files[1].data, aes_key)
  /\ UNCHANGED <<packerVars, files, failed>>

PackerStep == PackerNext /\ UNCHANGED <<analyzerVars, files, failed>>
AnalyzerStep == AnalyzerNext /\ UNCHANGED <<packerVars, files, failed>>

(***************************************************************************)
(* Damage: a block that reads as noise, a block in the place of its         *)
(* neighbour, the last block lost, a field of a header changed.             *)
(***************************************************************************)
DamagedHeaders(h) ==
  { [h EXCEPT !.identifier = "none"], [h EXCEPT !.size = @ + 1], [h EXCEPT !.end = @ - 1],
    [h EXCEPT !.last = ~@], [h EXCEPT !.integrity = 0], [h EXCEPT !.encryption = 1],
    [h EXCEPT !.checksum = "unknown"], [h EXCEPT !.authentication = -1],
    [h EXCEPT !.compression = "unknown"], [h EXCEPT !.words = <<@[1], Zero>>],
    [h EXCEPT !.hashes = <<Noise>>], [h EXCEPT !.words = @ \o <<Noise>>] }

Damages(bytes) ==
  { [bytes EXCEPT ![b] = [type |-> "damaged", was |-> @]] :
      b \in {k \in 1 .. Len(bytes) : ~IsHeader(bytes[k])} }
  \union { [bytes EXCEPT ![b] = bytes[b + 1], ![b + 1] = bytes[b]] : b \in 1 .. Len(bytes) - 1 }
  \union { Front(bytes) }
  \union UNION { { [bytes EXCEPT ![b] = h] : h \in DamagedHeaders(bytes[b]) } :
                   b \in {k \in 1 .. Len(bytes) : IsHeader(bytes[k])} }

Damage ==
  /\ Idle
  /\ files # <<>>
  /\ \A f \in 1 .. Len(files) : files[f].intact
  /\ \E bytes \in Damages(Last(files).data) :
       files' = [files EXCEPT ![Len(files)] =
                   [@ EXCEPT !.data = bytes, !.intact = bytes = Last(files).data]]
  /\ UNCHANGED <<packerVars, analyzerVars, failed>>

(***************************************************************************)
(* Properties                                                               *)
(***************************************************************************)

(* What a file says of its actions: the payload of each, if the key is at   *)
(* hand: it is lost at the first BOP that it does not fit.                  *)
KeyAtHand(list, k) ==
  list[k].key = NoKey \/ \A n \in 1 .. k : list[n].key = given
ActionsIn(list) ==
  FlattenSeq(
    [ k \in 1 .. Len(list) |->
        [ a \in 1 .. Len(list[k].bop.actions) |->
            [ cmd |-> list[k].bop.actions[a].cmd,
              readable |-> KeyAtHand(list, k),
              file |-> IF HasPayload(list[k].bop.actions[a])
                         THEN Pieces(Original(list[k].bop.actions[a].payload)) ELSE <<>> ] ] ])

(* Of a damaged file too, the actions the analyzer found right are those    *)
(* that were packed, in their order and with their payloads: it uses no     *)
(* block that it has not verified, and no block for another.                *)
ExecutesWhatWasPacked ==
  pc # "idle" =>
    LET packed == ActionsIn(files[1].bops)
    IN  /\ Len(executed) <= Len(packed)
        /\ \A k \in 1 .. Len(executed) :
             /\ executed[k].cmd = packed[k].cmd
             /\ packed[k].readable => executed[k].file = packed[k].file

(* No input of the packer, and no damage, makes an assertion fail.  A file  *)
(* that is intact is read to its end and found right, unless the key has    *)
(* the size of the right one and is another.                                *)
KeyMisleads ==
  \E k \in 1 .. Len(files[1].bops) :
    files[1].bops[k].key # given /\ files[1].bops[k].key.size = given.size
BitstreamIsReadBack ==
  /\ stage # "asserted" /\ pc # "asserted" /\ ~failed
  /\ pc = "over" /\ files[1].intact /\ ~KeyMisleads =>
       status /\ Len(executed) = Len(ActionsIn(files[1].bops))

(* No damage goes unnoticed.                                                *)
DamageIsNoticed == pc = "over" /\ ~files[1].intact => ~status

(* parse_debug comes to an end.                                             *)
ParsingEnds == pc # "idle" ~> pc = "over"
=============================================================================
