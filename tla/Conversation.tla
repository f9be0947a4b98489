---------------------------- MODULE Conversation ----------------------------
(***************************************************************************)
(* What the memory of one asset promises (ContextSession): there is one    *)
(* active session at a time, each completed analysis adds its turn to it,  *)
(* and a session that was closed stays closed.                             *)
(***************************************************************************)
EXTENDS Naturals, FiniteSets, Sequences

CONSTANTS
  Sessions,   \* session ids
  Authors     \* whoever adds a turn

VARIABLES
  active,     \* the sessions that are active
  known,      \* the sessions ever begun
  turns,      \* the turns of each session
  tokens      \* how many tokens each session has counted

vars == <<active, known, turns, tokens>>

Init ==
  /\ active = {}
  /\ known = {}
  /\ turns = [s \in Sessions |-> <<>>]
  /\ tokens = [s \in Sessions |-> 0]

\* A new session, with its first turn or none.
Begin(s, first) ==
  /\ active = {}
  /\ s \notin known
  /\ active' = {s}
  /\ known' = known \cup {s}
  /\ turns' = [turns EXCEPT ![s] = first]
  /\ tokens' = [tokens EXCEPT ![s] = Len(first)]

Add(s, a) ==
  /\ s \in active
  /\ turns' = [turns EXCEPT ![s] = Append(@, a)]
  /\ tokens' = [tokens EXCEPT ![s] = @ + 1]
  /\ UNCHANGED <<active, known>>

Close(s) ==
  /\ active' = active \ {s}
  /\ UNCHANGED <<known, turns, tokens>>

Next ==
  \E s \in Sessions :
    \/ Begin(s, <<>>)
    \/ \E a \in Authors : Begin(s, <<a>>) \/ Add(s, a)
    \/ Close(s)

Spec == Init /\ [][Next]_vars
=============================================================================
