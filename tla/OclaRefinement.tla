--------------------------- MODULE OclaRefinement ---------------------------
(***************************************************************************)
(* OclaDebugger implements OclaAcquisition: the registers latched when an  *)
(* acquisition began, decoded, are the setup of the abstract one.          *)
(***************************************************************************)
EXTENDS OclaDebugger

(* The values of the design and of the command lines fit their fields: a   *)
(* trigger that names bits of a signal names bits of the probes, of which  *)
(* TSSR selects among 1024 (OclaIP.h:24) and compares up to 64.            *)
ASSUME FieldsFit ==
  /\ \A s \in Signal, r \in TriggerRequest :
       Named(r, s) => s.bitpos + (IF r.ranged THEN r.lo ELSE 0) < PsSpan
  /\ \A d \in Device, i \in Instance : Hardware[d][i].mcvs <= CwSpan
  /\ Modulus >= PsSpan

Setup(r) ==
  [ cfg |-> get_config(r.tmtr),
    ch  |-> [n \in Channel |-> get_channel_config(r.ch[n])] ]

Abstract ==
  INSTANCE OclaAcquisition
    WITH setup <- [d \in Device |-> [i \in Instance |-> Setup(latched[d][i])]],
         Matching <- {d \in Device : verify(d)}

(* Every behaviour of the command and the registers is one the user was    *)
(* promised: what starts is the session's setup, completely and in order,  *)
(* and only a start that went through changes an acquisition.              *)
Refines == Abstract!Spec
=============================================================================
