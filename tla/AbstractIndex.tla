--------------------------- MODULE AbstractIndex ---------------------------
(***************************************************************************)
(* What the index promises about the authority over a state, with no       *)
(* records, histories or processes: at most one boot holds a state at one  *)
(* generation; a holder gives way only to a higher generation or to a      *)
(* withdrawal; and a fence, once raised, is never lowered or passed.       *)
(***************************************************************************)
EXTENDS Integers

CONSTANTS
  States,   \* the states
  Boots,    \* process incarnations that may hold a state
  Gens,     \* generations
  None      \* nobody holds the state

VARIABLES
  holder,   \* state -> [gen, boot] or None
  fence     \* state -> highest generation that may never hold it again

absVars == <<holder, fence>>

Init ==
  /\ holder = [s \in States |-> None]
  /\ fence = [s \in States |-> -1]

(* Boot b takes or keeps state s at a generation above the fence and above *)
(* the one that held it.                                                   *)
Publish(s, g, b) ==
  /\ g > fence[s]
  /\ holder[s] # None => g > holder[s].gen
  /\ holder' = [holder EXCEPT ![s] = [gen |-> g, boot |-> b]]
  /\ UNCHANGED fence

(* Nobody holds s any more.                                                *)
Withdraw(s) ==
  /\ holder[s] # None
  /\ holder' = [holder EXCEPT ![s] = None]
  /\ UNCHANGED fence

(* The fence of s rises to g.  It removes a holder it covers, no other, or *)
(* is raised for newcomers only and leaves the holder where it is.         *)
Fence(s, g) ==
  /\ g > fence[s]
  /\ fence' = [fence EXCEPT ![s] = g]
  /\ \/ holder[s] # None /\ holder[s].gen <= g /\ holder' = [holder EXCEPT ![s] = None]
     \/ UNCHANGED holder

Next ==
  \E s \in States :
    \/ \E g \in Gens, b \in Boots : Publish(s, g, b)
    \/ Withdraw(s)
    \/ \E g \in Gens : Fence(s, g)

Spec == Init /\ [][Next]_absVars

=============================================================================
