----------------------------- MODULE CommitLog -----------------------------
(***************************************************************************)
(* What an MLS group promises its devices, without epochs, requests,       *)
(* retries and restarts: one history of commits, which only grows at its   *)
(* end, and a place in it for every device and for the published           *)
(* GroupInfo, which only move forward.  A device goes from one commit to   *)
(* the next one, if that is not its own, or goes straight to a commit that *)
(* brings it in: one it made itself, or, when it is not in the group, one  *)
(* that adds it.                                                           *)
(***************************************************************************)
EXTENDS Naturals, Sequences

CONSTANT Device

VARIABLES
  history,  \* the commits: who made each one, and which devices it adds
  place,    \* place[d]: the commits behind the state of d; 0: not in the group
  entry     \* the same for the state one can join from

commitVars == <<history, place, entry>>

Init ==
  /\ history = <<>>
  /\ place = [d \in Device |-> 0]
  /\ entry = 0

Extend(d, devices) ==
  /\ history' = Append(history, [by |-> d, added |-> devices])
  /\ UNCHANGED <<place, entry>>

Follow(d) ==
  /\ place[d] \in 1..(Len(history) - 1)
  /\ history[place[d] + 1].by # d
  /\ place' = [place EXCEPT ![d] = @ + 1]
  /\ UNCHANGED <<history, entry>>

Enter(d) ==
  /\ \E i \in (place[d] + 1)..Len(history) :
       /\ history[i].by = d \/ (place[d] = 0 /\ d \in history[i].added)
       /\ place' = [place EXCEPT ![d] = i]
  /\ UNCHANGED <<history, entry>>

Publish ==
  /\ entry' \in (entry + 1)..Len(history)
  /\ UNCHANGED <<history, place>>

Next ==
  \/ \E d \in Device :
       \/ \E devices \in SUBSET Device : Extend(d, devices)
       \/ Follow(d)
       \/ Enter(d)
  \/ Publish

Spec == Init /\ [][Next]_commitVars
=============================================================================
