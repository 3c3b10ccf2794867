-------------------------- MODULE DocumentedClaims --------------------------
(***************************************************************************)
(* Statements of the documentation, comments and assertions about          *)
(* publication, invalidation, incarnations and tombstones that the engine  *)
(* does not keep.  Each is checked by a run of its own and refuted by a    *)
(* behaviour of StateIndexEngine.                                          *)
(***************************************************************************)
EXTENDS StateIndexEngine

(* README.md:127 "a stale re-add never resurrects invalidated authority":  *)
(* no generation at or below an invalidated one of its state is current.   *)
(* invalidate erases the claim and raises no floor, so the next            *)
(* publication is "first authoritative" at any generation.                 *)
StaleReAddStaysOut ==
  \A id \in RecordIds :
    Stored(id) /\ records[id].lifecycle = "INVALIDATED" =>
      LET cur == current[records[id].state]
      IN cur # None => records[cur].gen > records[id].gen

(* README.md:52 "A larger generation from an old WorkerBootId never fences *)
(* a fresh process incarnation": when the claim on a state belongs to a    *)
(* boot that is gone, an accepted publication takes the state over even at *)
(* a lower generation.  set_current compares the generations all the same. *)
FreshIncarnationNotFenced ==
  [][\A s \in States, id \in RecordIds :
       /\ currentAuthority[s] # None
       /\ ~IsLive(currentAuthority[s].boot)
       /\ ~Stored(id) /\ Stored(id)' /\ records'[id].state = s
       /\ records'[id].gen < currentAuthority[s].gen
       => current'[s] = id]_vars

(* invariant_check (engine.cpp:994-996) reports an error "current record   *)
(* ... has terminal lifecycle".  tombstone retires every record up to its  *)
(* floor, but gives up the current one only if the request came with the   *)
(* tombstone's flag set.                                                   *)
CurrentIsNotTerminal ==
  \A s \in States : current[s] # None =>
    records[current[s]].lifecycle \notin WithdrawnLifecycles

=============================================================================
