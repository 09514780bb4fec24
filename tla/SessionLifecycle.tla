-------------------------- MODULE SessionLifecycle --------------------------
(***************************************************************************)
(* What the refresh tokens of the API promise, whatever requests race or   *)
(* fail: a family is one session, which one token at a time can refresh.   *)
(* It is opened once, handed over from its holder to a token never seen    *)
(* before, and closed for good.                                            *)
(***************************************************************************)
CONSTANTS Tokens, Families, NoToken, NoFamily

VARIABLES
  holder,  (* who can refresh the session of each family, if anybody         *)
  family,  (* the family each token was drawn for                            *)
  from     (* the token it was given for                                     *)

sessionVars == <<holder, family, from>>

Unseen(t) == family[t] = NoFamily

Init ==
  /\ holder = [f \in Families |-> NoToken]
  /\ family = [t \in Tokens |-> NoFamily]
  /\ from = [t \in Tokens |-> NoToken]

Open(f, t) ==
  /\ \A s \in Tokens : family[s] # f
  /\ Unseen(t)
  /\ holder' = [holder EXCEPT ![f] = t]
  /\ family' = [family EXCEPT ![t] = f]
  /\ UNCHANGED from

HandOver(f, t) ==
  /\ holder[f] # NoToken
  /\ Unseen(t)
  /\ holder' = [holder EXCEPT ![f] = t]
  /\ family' = [family EXCEPT ![t] = f]
  /\ from' = [from EXCEPT ![t] = holder[f]]

Close(f) ==
  /\ holder[f] # NoToken
  /\ holder' = [holder EXCEPT ![f] = NoToken]
  /\ UNCHANGED <<family, from>>

Next ==
  \E f \in Families :
    \/ \E t \in Tokens : Open(f, t) \/ HandOver(f, t)
    \/ Close(f)

Spec == Init /\ [][Next]_sessionVars

=============================================================================
