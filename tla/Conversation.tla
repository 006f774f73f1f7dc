---------------------------- MODULE Conversation ---------------------------
(***************************************************************************)
(* What a caller of a plugin is promised by Process.stream and one, however*)
(* the conversation with the process goes: the lines said about a request  *)
(* come in turn, none twice and none passed over, until the caller is told *)
(* that they end or leaves; then it is given no more.  Where they stop is  *)
(* not promised: a plugin may end in the middle of an answer.              *)
(*                                                                         *)
(* PluginHost implements it.                                               *)
(***************************************************************************)
EXTENDS Naturals

CONSTANT Calls

VARIABLES
  stage,    \* each request is "idle", "open" while its caller reads, or "over"
  said,     \* the lines said about it
  got       \* the last line its caller was given

vars == <<stage, said, got>>

Init ==
  /\ stage = [r \in Calls |-> "idle"]
  /\ said = [r \in Calls |-> 0] /\ got = [r \in Calls |-> 0]

\* The request is made, or refused because the conversation has ended.
Open(r) ==
  /\ stage[r] = "idle"
  /\ \E s \in {"open", "over"} : stage' = [stage EXCEPT ![r] = s]
  /\ UNCHANGED <<said, got>>

\* A line about a request nobody made is no part of it.
Say(r) ==
  /\ stage[r] # "idle"
  /\ said' = [said EXCEPT ![r] = @ + 1]
  /\ UNCHANGED <<stage, got>>

\* The next line, which may be the ending.
Take(r) ==
  /\ stage[r] = "open"
  /\ got[r] < said[r]
  /\ got' = [got EXCEPT ![r] = @ + 1]
  /\ \E s \in {"open", "over"} : stage' = [stage EXCEPT ![r] = s]
  /\ UNCHANGED said

Leave(r) ==
  /\ stage[r] = "open"
  /\ stage' = [stage EXCEPT ![r] = "over"]
  /\ UNCHANGED <<said, got>>

Next == \E r \in Calls : Open(r) \/ Say(r) \/ Take(r) \/ Leave(r)

Spec == Init /\ [][Next]_vars
=============================================================================
