-------------------------- MODULE OclaAcquisition --------------------------
(***************************************************************************)
(* What the debugger promises its user, with nothing of the register       *)
(* traffic: an acquisition begins in one step, and every instance of the   *)
(* domain then samples under exactly what the session says at that         *)
(* moment, the trigger list in its order and nothing of earlier settings.  *)
(* A start that fails leaves the acquisition before it alone.              *)
(***************************************************************************)
EXTENDS OclaIP, Sequences, FiniteSets

CONSTANTS
  Device, Domain, Instance, InstancesOf, Channel,
  Matching  \* the devices whose cores are those of the design

VARIABLES
  loaded, config, triggers,  \* the session
  phase,                     \* [Device -> [Domain -> phase]]
  setup                      \* [Device -> [Instance -> what it samples with]]

vars == <<loaded, config, triggers, phase, setup>>

NoSetup ==
  [ cfg |-> [mode |-> 0, condition |-> 0, sample_size |-> 0],
    ch  |-> [n \in Channel |-> ClearConfig] ]

(* The n-th trigger of an instance, counted in the order of the session,   *)
(* goes to its channel n; the other channels are off.                      *)
Earlier(ts, j) == {n \in 1 .. j - 1 : ts[n].inst = ts[j].inst}

ChannelSetup(ts, i) ==
  [ n \in Channel |->
      IF \E j \in 1 .. Len(ts) : ts[j].inst = i /\ Cardinality(Earlier(ts, j)) = n
        THEN LET j == CHOOSE j \in 1 .. Len(ts) :
                        ts[j].inst = i /\ Cardinality(Earlier(ts, j)) = n
             IN  Effective(ts[j].cfg)
        ELSE ClearConfig ]

Init ==
  /\ loaded = FALSE
  /\ config = [m \in Domain |-> NoSetup.cfg]
  /\ triggers = [m \in Domain |-> <<>>]
  /\ phase = [d \in Device |-> [m \in Domain |-> "none"]]
  /\ setup = [d \in Device |-> [i \in Instance |-> NoSetup]]

(* The session comes with nothing set and goes with everything.            *)
Open == ~loaded /\ loaded' = TRUE /\ UNCHANGED <<config, triggers>>

Close ==
  /\ loaded
  /\ loaded' = FALSE
  /\ config' = [m \in Domain |-> NoSetup.cfg]
  /\ triggers' = [m \in Domain |-> <<>>]

(* A setting concerns one domain; a trigger command adds a trigger at the  *)
(* end, replaces one in its place or takes one out.                        *)
OneTriggerApart(old, new) ==
  \/ Len(new) = Len(old) + 1 /\ \A n \in 1 .. Len(old) : new[n] = old[n]
  \/ Len(new) = Len(old) /\ \E k \in 1 .. Len(old) :
       \A n \in 1 .. Len(old) : n # k => new[n] = old[n]
  \/ Len(new) = Len(old) - 1 /\ \E k \in 1 .. Len(old) :
       \A n \in 1 .. Len(new) : new[n] = old[IF n < k THEN n ELSE n + 1]

Set(m) ==
  /\ loaded
  /\ UNCHANGED loaded
  /\ \/ /\ config'[m] \in Config
        /\ config' = [config EXCEPT ![m] = config'[m]]
        /\ UNCHANGED triggers
     \/ /\ OneTriggerApart(triggers[m], triggers'[m])
        /\ triggers' = [triggers EXCEPT ![m] = triggers'[m]]
        /\ UNCHANGED config

Capture(d, m) ==
  /\ loaded
  /\ d \in Matching
  /\ triggers[m] # <<>>
  /\ phase' = [phase EXCEPT ![d][m] = "sampling"]
  /\ setup' = [setup EXCEPT ![d] = [i \in Instance |->
       IF \E k \in 1 .. Len(InstancesOf[m]) : InstancesOf[m][k] = i
         THEN [cfg |-> config[m], ch |-> ChannelSetup(triggers[m], i)]
         ELSE setup[d][i]]]
  /\ UNCHANGED <<loaded, config, triggers>>

Complete(d, m) ==
  /\ phase[d][m] = "sampling"
  /\ phase' = [phase EXCEPT ![d][m] = "done"]
  /\ UNCHANGED <<loaded, config, triggers, setup>>

Next ==
  \/ (Open \/ Close \/ \E m \in Domain : Set(m)) /\ UNCHANGED <<phase, setup>>
  \/ \E d \in Device, m \in Domain : Capture(d, m) \/ Complete(d, m)

Spec == Init /\ [][Next]_vars
=============================================================================
