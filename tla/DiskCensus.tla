------------------------------ MODULE DiskCensus ------------------------------
(***************************************************************************)
(* What enumerate() promises a caller while disks come and go: a census.   *)
(*                                                                         *)
(* A census cannot be a snapshot, because nothing stops the population     *)
(* from changing while it is taken.  It promises an interval instead:      *)
(* every eligible node that was there from beginning to end is in the      *)
(* answer, every node in the answer was there at some time, and no node    *)
(* that was there throughout is in the answer without being eligible.      *)
(***************************************************************************)
CONSTANTS
  Nodes,     \* everything that can be counted
  Eligible,  \* the whole disks that are no pseudo-device
  Pseudo     \* the nodes that are never counted, whatever happens to them

VARIABLES
  population,  \* the nodes in the system now
  taking,      \* a census is under way
  throughout,  \* nodes in the population ever since it began
  sometime,    \* nodes in the population at some time since it began
  answer       \* the last answer given

censusVars == <<population, taking, throughout, sometime, answer>>

Begin ==
  /\ ~taking /\ taking' = TRUE
  /\ throughout' = population /\ sometime' = population
  /\ UNCHANGED <<population, answer>>

\* The caller drops the previous answer before it asks again.
Drop == ~taking /\ answer' = {} /\ UNCHANGED <<population, taking, throughout, sometime>>

Appear(n) ==
  /\ n \notin population
  /\ population' = population \cup {n}
  /\ sometime' = IF taking THEN sometime \cup {n} ELSE sometime
  /\ UNCHANGED <<taking, throughout, answer>>

Vanish(n) ==
  /\ n \in population
  /\ population' = population \ {n}
  /\ throughout' = throughout \ {n}
  /\ UNCHANGED <<taking, sometime, answer>>

Answer ==
  /\ taking /\ taking' = FALSE
  /\ throughout \cap Eligible \subseteq answer'
  /\ answer' \subseteq sometime \ Pseudo
  /\ answer' \cap throughout \subseteq Eligible
  /\ throughout' = {} /\ sometime' = {}
  /\ UNCHANGED population

GiveUp ==
  /\ taking' = FALSE /\ answer' = {}
  /\ throughout' = {} /\ sometime' = {}
  /\ UNCHANGED population

CensusInit ==
  /\ population \subseteq Nodes
  /\ ~taking /\ throughout = {} /\ sometime = {} /\ answer = {}

CensusNext ==
  \/ Begin \/ Drop \/ Answer \/ GiveUp
  \/ \E n \in Nodes : Appear(n) \/ Vanish(n)

CensusSpec == CensusInit /\ [][CensusNext]_censusVars
=============================================================================
